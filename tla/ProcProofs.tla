----------------------------- MODULE ProcProofs -----------------------------
(***************************************************************************)
(* Proc's safety, for every number of CPUs and of slots: who runs where,   *)
(* who owns a slot that fork is filling in, who is whose parent, and which *)
(* sleepers somebody will wake.                                            *)
(***************************************************************************)
EXTENDS Proc, TLAPS

Alive == {"RUNNABLE", "RUNNING", "SLEEPING"}
Forking == {"alloc", "copy", "publish"}
Switching == {"tosleep", "towake"}

(* A CPU that does not hold ptable.lock runs its process; one that does    *)
(* may have changed its state, and is about to leave it.                   *)
CpuInv == \A c \in CPU : cur[c] # None =>
            /\ ptable[cur[c]].state \in Alive \cup {"ZOMBIE"}
            /\ lock # c => ptable[cur[c]].state = "RUNNING"

(* Where a process in each state is in the kernel.                         *)
PlaceInv == \A p \in Slot :
  /\ ptable[p].state \in {"UNUSED", "EMBRYO", "ZOMBIE"} => pc[p] = "user"
  /\ ptable[p].state = "SLEEPING" =>
       \/ pc[p] = "wait" /\ ptable[p].chan = p
       \/ pc[p] = "block" /\ ptable[p].chan = Dev

(* A slot that fork fills in without ptable.lock is an EMBRYO, of one fork.*)
ForkInv == \A p \in Slot : pc[p] \in Forking =>
  /\ np[p] \in Slot
  /\ ptable[np[p]].state = "EMBRYO"
  /\ pc[p] # "alloc" => ptable[np[p]].kstack
  /\ ptable[np[p]].parent = IF pc[p] = "publish" THEN p ELSE None
  /\ \A q \in Slot : pc[q] \in Forking /\ np[q] = np[p] => p = q

(* Everyone who has run, and has not been waited for, has a stack.         *)
StackInv == \A p \in Slot : ptable[p].state \in Alive \cup {"ZOMBIE"} => ptable[p].kstack

(* No slot names a parent that is gone, free slots none, and init stays.   *)
ParentInv ==
  /\ ptable[initproc].state \in Alive /\ ptable[initproc].parent = None
  /\ \A p \in Slot : ptable[p].parent # None =>
       ptable[p].parent # p /\ ptable[ptable[p].parent].state \in Alive
  /\ \A p \in Slot \ {initproc} :
       ptable[p].state \in Alive \cup {"ZOMBIE"} => ptable[p].parent # None
  /\ \A p \in Slot : ptable[p].state = "UNUSED" => ptable[p].parent = None

(* Dev's lock is held from the test to the sleep, and across wakeup.       *)
DevInv == \A p \in Slot :
  /\ pc[p] \in Switching => /\ ptable[p].state = "RUNNING"
                            /\ \E c \in CPU : cur[c] = p /\ devlock = c
  /\ pc[p] = "tosleep" => ~ready

IInv == /\ TypeOK /\ OneCpuEach /\ CpuInv /\ PlaceInv /\ ForkInv /\ StackInv
        /\ ParentInv /\ WaitMissesNothing /\ DevInv /\ NoLostWakeup
-----------------------------------------------------------------------------
(* Slot 0 is init's; neither None nor Dev is a slot.                       *)
LEMMA Names ==
  /\ initproc \in Slot
  /\ None \notin Slot /\ None \notin CPU
  /\ Dev \notin Slot /\ Dev # None
BY ProcAssumption DEF ProcAssumption, Slot, initproc, Dev

(* What the scheduler computes stays within the table (proc.c:373-395).    *)
LEMMA SlotNumbers ==
  ASSUME NEW x \in Slot, NEW y \in Slot
  PROVE  /\ (x + 1) % NPROC \in Slot
         /\ (x - y + NPROC) % NPROC \in Slot
         /\ \A k \in 0..NPROC : (x + k) % NPROC \in Slot
<1>1. NPROC \in Nat \ {0} /\ x \in Nat /\ y \in Nat /\ y < NPROC
  BY ProcAssumption DEF ProcAssumption, Slot
<1>2. ASSUME NEW z \in Nat PROVE z % NPROC \in Slot
  BY <1>1 DEF Slot
<1>3. x + 1 \in Nat /\ x - y + NPROC \in Nat /\ \A k \in 0..NPROC : x + k \in Nat
  BY <1>1
<1> QED
  BY <1>2, <1>3

(* A process with one field changed.                                       *)
LEMMA Fields ==
  ASSUME NEW r \in Proc
  PROVE  /\ \A x \in State : [r EXCEPT !.state = x] \in Proc
         /\ \A x \in 0..MaxPid : [r EXCEPT !.pid = x] \in Proc
         /\ \A x \in Slot \cup {None} : [r EXCEPT !.parent = x] \in Proc
         /\ \A x \in Slot \cup {Dev, None} : [r EXCEPT !.chan = x] \in Proc
         /\ \A x \in BOOLEAN : [r EXCEPT !.killed = x] \in Proc
         /\ \A x \in BOOLEAN : [r EXCEPT !.kstack = x] \in Proc
<1>1. \A x \in State : [r EXCEPT !.state = x] \in Proc
  BY DEF Proc
<1>2. \A x \in 0..MaxPid : [r EXCEPT !.pid = x] \in Proc
  BY DEF Proc
<1>3. \A x \in Slot \cup {None} : [r EXCEPT !.parent = x] \in Proc
  BY DEF Proc
<1>4. \A x \in Slot \cup {Dev, None} : [r EXCEPT !.chan = x] \in Proc
  BY DEF Proc
<1>5. \A x \in BOOLEAN : [r EXCEPT !.killed = x] \in Proc
  BY DEF Proc
<1>6. \A x \in BOOLEAN : [r EXCEPT !.kstack = x] \in Proc
  BY DEF Proc
<1> QED
  BY <1>1, <1>2, <1>3, <1>4, <1>5, <1>6

(* The table wakeup1 leaves, field by field.                               *)
LEMMA WokenTable ==
  ASSUME NEW pt \in [Slot -> Proc], NEW ch
  PROVE  /\ wakeup1(pt, ch) \in [Slot -> Proc]
         /\ \A q \in Slot :
              /\ wakeup1(pt, ch)[q].state = IF pt[q].state = "SLEEPING" /\ pt[q].chan = ch
                                            THEN "RUNNABLE" ELSE pt[q].state
              /\ wakeup1(pt, ch)[q].parent = pt[q].parent
              /\ wakeup1(pt, ch)[q].chan = pt[q].chan
              /\ wakeup1(pt, ch)[q].killed = pt[q].killed
              /\ wakeup1(pt, ch)[q].kstack = pt[q].kstack
<1>1. \A q \in Slot : wakeup1(pt, ch)[q] = IF pt[q].state = "SLEEPING" /\ pt[q].chan = ch
                                          THEN [pt[q] EXCEPT !.state = "RUNNABLE"] ELSE pt[q]
  BY DEF wakeup1
<1>2. \A q \in Slot : pt[q] \in Proc /\ [pt[q] EXCEPT !.state = "RUNNABLE"] \in Proc
  BY Fields DEF State
<1>3. wakeup1(pt, ch) \in [Slot -> Proc]
  BY <1>2 DEF wakeup1
<1> QED
  BY <1>1, <1>2, <1>3 DEF Proc

Sleeps(q, ch) == ptable[q].state = "SLEEPING" /\ ptable[q].chan = ch
ZombieChild(p) == \E r \in Children(p) : ptable[r].state = "ZOMBIE"
ExitState(p, q) ==
  IF q = p THEN "ZOMBIE"
  ELSE IF Sleeps(q, ptable[p].parent) \/ (ZombieChild(p) /\ Sleeps(q, initproc)) THEN "RUNNABLE"
  ELSE ptable[q].state

(* The table exit leaves, field by field.                                  *)
LEMMA ExitTable ==
  ASSUME ptable \in [Slot -> Proc], NEW p \in Slot,
         ptable' = [Reparent(wakeup1(ptable, ptable[p].parent), p) EXCEPT ![p].state = "ZOMBIE"]
  PROVE  /\ ptable' \in [Slot -> Proc]
         /\ \A q \in Slot :
              /\ ptable'[q].state = ExitState(p, q)
              /\ ptable'[q].parent = IF q \in Children(p) THEN initproc ELSE ptable[q].parent
              /\ ptable'[q].chan = ptable[q].chan
              /\ ptable'[q].killed = ptable[q].killed
              /\ ptable'[q].kstack = ptable[q].kstack
<1> DEFINE woken == wakeup1(ptable, ptable[p].parent)
           moved == [q \in Slot |-> IF q \in Children(p) THEN [woken[q] EXCEPT !.parent = initproc]
                                                        ELSE woken[q]]
           left1 == IF ZombieChild(p) THEN wakeup1(moved, initproc) ELSE moved
<1>1. /\ woken \in [Slot -> Proc]
      /\ \A q \in Slot :
           /\ woken[q].state = IF Sleeps(q, ptable[p].parent)
                               THEN "RUNNABLE" ELSE ptable[q].state
           /\ woken[q].parent = ptable[q].parent /\ woken[q].chan = ptable[q].chan
           /\ woken[q].killed = ptable[q].killed /\ woken[q].kstack = ptable[q].kstack
  BY WokenTable DEF Sleeps
<1>2. (\E r \in Children(p) : woken[r].state = "ZOMBIE") <=> ZombieChild(p)
  BY <1>1 DEF Children, ZombieChild, Sleeps
<1>3. Reparent(woken, p) = left1
  BY <1>2 DEF Reparent
<1> HIDE DEF woken
<1>4. /\ moved \in [Slot -> Proc]
      /\ \A q \in Slot :
           /\ moved[q].state = woken[q].state
           /\ moved[q].parent = IF q \in Children(p) THEN initproc ELSE woken[q].parent
           /\ moved[q].chan = woken[q].chan
           /\ moved[q].killed = woken[q].killed /\ moved[q].kstack = woken[q].kstack
  <2>1. \A q \in Slot : woken[q] \in Proc /\ [woken[q] EXCEPT !.parent = initproc] \in Proc
    BY <1>1, Fields, Names
  <2>2. \A q \in Slot : moved[q] = IF q \in Children(p) THEN [woken[q] EXCEPT !.parent = initproc]
                                                        ELSE woken[q]
    OBVIOUS
  <2>3. moved \in [Slot -> Proc]
    BY <2>1
  <2>4. ASSUME NEW q \in Slot
        PROVE  /\ moved[q].state = woken[q].state
               /\ moved[q].parent = IF q \in Children(p) THEN initproc ELSE woken[q].parent
               /\ moved[q].chan = woken[q].chan
               /\ moved[q].killed = woken[q].killed /\ moved[q].kstack = woken[q].kstack
    <3> HIDE DEF moved
    <3> QED
      BY <2>1, <2>2 DEF Proc
  <2> HIDE DEF moved
  <2> QED
    BY <2>3, <2>4
<1> HIDE DEF moved
<1>5. /\ left1 \in [Slot -> Proc]
      /\ \A q \in Slot :
           /\ left1[q].state = IF ZombieChild(p) /\ moved[q].state = "SLEEPING" /\ moved[q].chan = initproc
                               THEN "RUNNABLE" ELSE moved[q].state
           /\ left1[q].parent = moved[q].parent /\ left1[q].chan = moved[q].chan
           /\ left1[q].killed = moved[q].killed /\ left1[q].kstack = moved[q].kstack
  BY <1>4, WokenTable
<1> HIDE DEF left1
<1>6. /\ ptable' \in [Slot -> Proc]
      /\ \A q \in Slot :
           /\ ptable'[q].state = IF q = p THEN "ZOMBIE" ELSE left1[q].state
           /\ ptable'[q].parent = left1[q].parent /\ ptable'[q].chan = left1[q].chan
           /\ ptable'[q].killed = left1[q].killed /\ ptable'[q].kstack = left1[q].kstack
  <2>1. ptable' = [left1 EXCEPT ![p].state = "ZOMBIE"]
    BY <1>3 DEF woken
  <2>2. \A q \in Slot : left1[q] \in Proc /\ [left1[q] EXCEPT !.state = "ZOMBIE"] \in Proc
    BY <1>5, Fields DEF State
  <2>3. ptable' \in [Slot -> Proc]
    BY <1>5, <2>1, <2>2
  <2>4. \A q \in Slot : ptable'[q] = IF q = p THEN [left1[q] EXCEPT !.state = "ZOMBIE"] ELSE left1[q]
    BY <1>5, <2>1
  <2>5. ASSUME NEW q \in Slot
        PROVE  /\ ptable'[q].state = IF q = p THEN "ZOMBIE" ELSE left1[q].state
               /\ ptable'[q].parent = left1[q].parent /\ ptable'[q].chan = left1[q].chan
               /\ ptable'[q].killed = left1[q].killed /\ ptable'[q].kstack = left1[q].kstack
    <3>1. CASE q = p
      <4>1. ptable'[q] = [left1[q] EXCEPT !.state = "ZOMBIE"] /\ left1[q] \in Proc
        BY <2>2, <2>4, <3>1
      <4> QED
        BY <3>1, <4>1 DEF Proc
    <3>2. CASE q # p
      <4>1. ptable'[q] = left1[q]
        BY <2>4, <3>2
      <4> QED
        BY <3>2, <4>1
    <3> QED
      BY <3>1, <3>2
  <2> QED
    BY <2>3, <2>5
<1>7. \A q \in Slot : ptable'[q].state = ExitState(p, q)
  BY <1>1, <1>4, <1>5, <1>6 DEF ExitState, Sleeps
<1> QED
  BY <1>1, <1>4, <1>5, <1>6, <1>7

(* Parents stay, and stay alive.                                           *)
LEMMA ParentsStay ==
  ASSUME TypeOK, ParentInv,
         \A q \in Slot :
           /\ ptable'[q].parent = ptable[q].parent
           /\ ptable[q].state \in Alive => ptable'[q].state \in Alive
           /\ ptable'[q].state \in Alive \cup {"ZOMBIE"} =>
                ptable[q].state \in Alive \cup {"ZOMBIE"}
           /\ ptable'[q].state = "UNUSED" => ptable[q].state = "UNUSED" \/ ptable[q].parent = None
  PROVE  ParentInv'
<1>1. \A q \in Slot : ptable[q].parent \in Slot \cup {None}
  BY DEF TypeOK, Proc
<1> QED
  BY <1>1, Names DEF ParentInv

(* userinit's process is alone, and runnable.                              *)
LEMMA InitInv == Init => IInv
<1> SUFFICES ASSUME Init PROVE IInv
  OBVIOUS
<1> USE Names DEF Init, Unused
<1>1. TypeOK
  <2>1. NPROC \in Nat /\ 0 \in Slot /\ 1 \in 0..MaxPid /\ 0 \in 0..MaxPid /\ 2 \in 2..MaxPid + 1
    BY ProcAssumption DEF ProcAssumption, Slot
  <2>2. ptable \in [Slot -> Proc]
    BY <2>1 DEF Proc, State
  <2>3. pc \in [Slot -> PC] /\ next \in [CPU -> Slot] /\ left \in [CPU -> 0..NPROC]
    BY <2>1 DEF PC
  <2> QED
    BY <2>1, <2>2, <2>3 DEF TypeOK
<1>2. OneCpuEach /\ CpuInv /\ PlaceInv /\ ForkInv
  BY DEF OneCpuEach, CpuInv, PlaceInv, ForkInv, Forking, Alive
<1>3. StackInv /\ ParentInv /\ DevInv
  BY DEF StackInv, ParentInv, Alive, DevInv, Switching
<1>4. WaitMissesNothing /\ NoLostWakeup
  BY DEF WaitMissesNothing, NoLostWakeup
<1> QED
  BY <1>1, <1>2, <1>3, <1>4 DEF IInv

(* A process that has stopped leaves its CPU.                              *)
LEMMA SwtchKeeps ==
  ASSUME IInv, NEW c \in CPU, Swtch(c)
  PROVE  IInv'
<1> USE Names DEF IInv, At, Goto, Sched, Swtch
<1>1. TypeOK'
  BY DEF TypeOK, Proc, State, PC
<1>2. OneCpuEach'
  BY DEF TypeOK, OneCpuEach, CpuInv
<1>3. CpuInv'
  BY DEF TypeOK, OneCpuEach, CpuInv, Alive
<1>4. PlaceInv'
  BY DEF TypeOK, CpuInv, PlaceInv, Alive
<1>5. ForkInv'
  BY DEF TypeOK, PlaceInv, ForkInv, Forking
<1>6. StackInv'
  BY DEF TypeOK, CpuInv, ForkInv, StackInv, Alive, Forking
<1>7. ParentInv'
  BY DEF TypeOK, CpuInv, PlaceInv, ForkInv, ParentInv, Alive, Forking
<1>8. WaitMissesNothing'
  BY DEF TypeOK, PlaceInv, ForkInv, WaitMissesNothing, Children, Zombies, Forking
<1>9. DevInv'
  BY DEF TypeOK, OneCpuEach, CpuInv, DevInv, Switching
<1>10. NoLostWakeup'
  BY DEF TypeOK, PlaceInv, DevInv, NoLostWakeup, Switching
<1> QED
  BY <1>1, <1>2, <1>3, <1>4, <1>5, <1>6, <1>7, <1>8, <1>9, <1>10

(* The scheduler takes ptable.lock.                                        *)
LEMMA SchedAcquireKeeps ==
  ASSUME IInv, NEW c \in CPU, SchedAcquire(c)
  PROVE  IInv'
<1> USE Names DEF IInv, At, Goto, Sched, SchedAcquire
<1>1. TypeOK'
  BY ProcAssumption DEF ProcAssumption, TypeOK
<1>2. OneCpuEach'
  BY DEF TypeOK, OneCpuEach, CpuInv
<1>3. CpuInv'
  BY DEF TypeOK, OneCpuEach, CpuInv, Alive
<1>4. PlaceInv'
  BY DEF TypeOK, CpuInv, PlaceInv, Alive
<1>5. ForkInv'
  BY DEF TypeOK, PlaceInv, ForkInv, Forking
<1>6. StackInv'
  BY DEF TypeOK, CpuInv, ForkInv, StackInv, Alive, Forking
<1>7. ParentInv'
  BY DEF TypeOK, CpuInv, PlaceInv, ForkInv, ParentInv, Alive, Forking
<1>8. WaitMissesNothing'
  BY DEF TypeOK, PlaceInv, ForkInv, WaitMissesNothing, Children, Zombies, Forking
<1>9. DevInv'
  BY DEF TypeOK, OneCpuEach, CpuInv, DevInv, Switching
<1>10. NoLostWakeup'
  BY DEF TypeOK, PlaceInv, DevInv, NoLostWakeup, Switching
<1> QED
  BY <1>1, <1>2, <1>3, <1>4, <1>5, <1>6, <1>7, <1>8, <1>9, <1>10

(* The scheduler lets it go.                                               *)
LEMMA SchedReleaseKeeps ==
  ASSUME IInv, NEW c \in CPU, SchedRelease(c)
  PROVE  IInv'
<1> USE Names DEF IInv, At, Goto, Sched, SchedRelease
<1>1. TypeOK'
  <2>1. 0 \in 0..NPROC
    BY ProcAssumption DEF ProcAssumption
  <2>2. (next[c] + left[c]) % NPROC \in Slot
    BY SlotNumbers DEF TypeOK
  <2> QED
    BY <2>1, <2>2 DEF TypeOK
<1>2. OneCpuEach'
  BY DEF TypeOK, OneCpuEach, CpuInv
<1>3. CpuInv'
  BY DEF TypeOK, OneCpuEach, CpuInv, Alive
<1>4. PlaceInv'
  BY DEF TypeOK, CpuInv, PlaceInv, Alive
<1>5. ForkInv'
  BY DEF TypeOK, PlaceInv, ForkInv, Forking
<1>6. StackInv'
  BY DEF TypeOK, CpuInv, ForkInv, StackInv, Alive, Forking
<1>7. ParentInv'
  BY DEF TypeOK, CpuInv, PlaceInv, ForkInv, ParentInv, Alive, Forking
<1>8. WaitMissesNothing'
  BY DEF TypeOK, PlaceInv, ForkInv, WaitMissesNothing, Children, Zombies, Forking
<1>9. DevInv'
  BY DEF TypeOK, OneCpuEach, CpuInv, DevInv, Switching
<1>10. NoLostWakeup'
  BY DEF TypeOK, PlaceInv, DevInv, NoLostWakeup, Switching
<1> QED
  BY <1>1, <1>2, <1>3, <1>4, <1>5, <1>6, <1>7, <1>8, <1>9, <1>10

(* A process goes on without ptable.lock.                                  *)
LEMMA ResumeKeeps ==
  ASSUME IInv, NEW c \in CPU, Resume(c)
  PROVE  IInv'
<1> USE Names DEF IInv, At, Goto, Sched, Resume
<1>1. TypeOK'
  BY DEF TypeOK, Proc, State, PC
<1>2. OneCpuEach'
  BY DEF TypeOK, OneCpuEach, CpuInv
<1>3. CpuInv'
  BY DEF TypeOK, OneCpuEach, CpuInv, Alive
<1>4. PlaceInv'
  BY DEF TypeOK, CpuInv, PlaceInv, Alive
<1>5. ForkInv'
  BY DEF TypeOK, PlaceInv, ForkInv, Forking
<1>6. StackInv'
  BY DEF TypeOK, CpuInv, ForkInv, StackInv, Alive, Forking
<1>7. ParentInv'
  BY DEF TypeOK, CpuInv, PlaceInv, ForkInv, ParentInv, Alive, Forking
<1>8. WaitMissesNothing'
  BY DEF TypeOK, PlaceInv, ForkInv, WaitMissesNothing, Children, Zombies, Forking
<1>9. DevInv'
  BY DEF TypeOK, OneCpuEach, CpuInv, DevInv, Switching
<1>10. NoLostWakeup'
  BY DEF TypeOK, PlaceInv, DevInv, NoLostWakeup, Switching
<1> QED
  BY <1>1, <1>2, <1>3, <1>4, <1>5, <1>6, <1>7, <1>8, <1>9, <1>10

(* A process is preempted, in a fork too.                                  *)
LEMMA YieldKeeps ==
  ASSUME IInv, NEW c \in CPU, Yield(c)
  PROVE  IInv'
<1> USE Names DEF IInv, At, Goto, Sched, Yield
<1>1. TypeOK'
  BY DEF TypeOK, Proc, State, PC
<1>2. OneCpuEach'
  BY DEF TypeOK, OneCpuEach, CpuInv
<1>3. CpuInv'
  BY DEF TypeOK, OneCpuEach, CpuInv, Alive
<1>4. PlaceInv'
  BY DEF TypeOK, CpuInv, PlaceInv, Alive
<1>5. ForkInv'
  BY DEF TypeOK, CpuInv, ForkInv, Forking
<1>6. StackInv'
  BY DEF TypeOK, CpuInv, ForkInv, StackInv, Alive, Forking
<1>7. ParentInv'
  BY DEF TypeOK, CpuInv, PlaceInv, ForkInv, ParentInv, Alive, Forking
<1>8. WaitMissesNothing'
  BY DEF TypeOK, PlaceInv, ForkInv, WaitMissesNothing, Children, Zombies, Forking
<1>9. DevInv'
  BY DEF TypeOK, OneCpuEach, CpuInv, DevInv, Switching
<1>10. NoLostWakeup'
  BY DEF TypeOK, PlaceInv, DevInv, NoLostWakeup, Switching
<1> QED
  BY <1>1, <1>2, <1>3, <1>4, <1>5, <1>6, <1>7, <1>8, <1>9, <1>10

(* The scheduler runs a process that no other CPU is still running.        *)
LEMMA PickKeeps ==
  ASSUME IInv, NEW c \in CPU, NEW p \in Slot, Pick(c, p)
  PROVE  IInv'
<1> USE Names DEF IInv, At, Goto, Sched, Pick, InScan
<1>1. TypeOK'
  <2>1. ptable' \in [Slot -> Proc]
    BY Fields DEF TypeOK, State
  <2>2. next' \in [CPU -> Slot]
    BY SlotNumbers DEF TypeOK
  <2>3. left' \in [CPU -> 0..NPROC]
    <3>1. /\ Distance(c, p) \in Nat /\ Distance(c, p) < left[c]
          /\ left[c] \in 0..NPROC
      BY SlotNumbers DEF TypeOK, Distance, Slot
    <3>2. left[c] - Distance(c, p) - 1 \in 0..NPROC
      BY <3>1, ProcAssumption DEF ProcAssumption
    <3> QED
      BY <3>2 DEF TypeOK
  <2> QED
    BY <2>1, <2>2, <2>3 DEF TypeOK
<1>2. OneCpuEach'
  BY DEF TypeOK, OneCpuEach, CpuInv
<1>3. CpuInv'
  BY DEF TypeOK, OneCpuEach, CpuInv, Alive
<1>4. PlaceInv'
  BY DEF TypeOK, CpuInv, PlaceInv, Alive
<1>5. ForkInv'
  BY DEF TypeOK, PlaceInv, ForkInv, Forking
<1>6. StackInv'
  BY DEF TypeOK, CpuInv, ForkInv, StackInv, Alive, Forking
<1>7. ParentInv'
  BY DEF TypeOK, CpuInv, PlaceInv, ForkInv, ParentInv, Alive, Forking
<1>8. WaitMissesNothing'
  BY DEF TypeOK, PlaceInv, ForkInv, WaitMissesNothing, Children, Zombies, Forking
<1>9. DevInv'
  BY DEF TypeOK, OneCpuEach, CpuInv, DevInv, Switching
<1>10. NoLostWakeup'
  BY DEF TypeOK, PlaceInv, DevInv, NoLostWakeup, Switching
<1> QED
  BY <1>1, <1>2, <1>3, <1>4, <1>5, <1>6, <1>7, <1>8, <1>9, <1>10

(* allocproc: the slot is nobody else's from now on.                       *)
LEMMA ForkKeeps ==
  ASSUME IInv, NEW c \in CPU, NEW p \in Slot, Fork(c, p)
  PROVE  IInv'
<1> USE Names DEF IInv, At, Goto, Sched, Fork, Call
<1>a. /\ cur[c] = p /\ lock = None /\ lock' = lock /\ pc[p] = "user"
      /\ ptable[p].state = "RUNNING" /\ nextpid \in 0..MaxPid
      /\ devlock' = devlock /\ ready' = ready /\ cur' = cur /\ next' = next /\ left' = left
      /\ nextpid' \in 2..MaxPid + 1 /\ pc' = [pc EXCEPT ![p] = "alloc"]
  BY ProcAssumption DEF ProcAssumption, CpuInv, TypeOK
<1>b. PICK free \in Slot :
        /\ ptable[free].state = "UNUSED"
        /\ ptable' = [ptable EXCEPT ![free].state = "EMBRYO", ![free].pid = nextpid]
        /\ np' = [np EXCEPT ![p] = free]
  OBVIOUS
<1> HIDE DEF Fork
<1>c. /\ free # p /\ free # initproc /\ pc[free] = "user" /\ ptable[free].parent = None
      /\ \A d \in CPU : cur[d] # free
      /\ \A r \in Slot \ {p} : pc[r] \in Forking => np[r] # free
  BY <1>a, <1>b DEF TypeOK, CpuInv, PlaceInv, ForkInv, Forking, ParentInv, Alive
<1>d. /\ ptable' \in [Slot -> Proc]
      /\ ptable'[free].state = "EMBRYO" /\ ptable'[free].parent = None
      /\ \A r \in Slot \ {free} : ptable'[r] = ptable[r]
  <2>1. ptable[free] \in Proc /\ "EMBRYO" \in State
    BY DEF TypeOK, State
  <2>2. [ptable[free] EXCEPT !.state = "EMBRYO"] \in Proc
    BY <2>1, Fields
  <2>3. [[ptable[free] EXCEPT !.state = "EMBRYO"] EXCEPT !.pid = nextpid] \in Proc
    BY <1>a, <2>2, Fields
  <2>4. ptable'[free] = [[ptable[free] EXCEPT !.state = "EMBRYO"] EXCEPT !.pid = nextpid]
    BY <1>b, <2>1 DEF TypeOK, Proc
  <2>5. \A r \in Slot \ {free} : ptable'[r] = ptable[r]
    BY <1>b DEF TypeOK
  <2>6. ptable' = [r \in Slot |-> ptable'[r]]
    BY <1>b DEF TypeOK
  <2>7. ptable' \in [Slot -> Proc]
    BY <2>3, <2>4, <2>5, <2>6 DEF TypeOK
  <2>8. ptable'[free].state = "EMBRYO" /\ ptable'[free].parent = ptable[free].parent
    BY <2>1, <2>4 DEF Proc
  <2> QED
    BY <1>c, <2>5, <2>7, <2>8
<1>1. TypeOK'
  BY <1>a, <1>b, <1>d DEF TypeOK, PC
<1>2. OneCpuEach'
  BY <1>a, <1>b, <1>c, <1>d DEF TypeOK, OneCpuEach, CpuInv
<1>3. CpuInv'
  BY <1>a, <1>b, <1>c, <1>d DEF TypeOK, OneCpuEach, CpuInv, Alive
<1>4. PlaceInv'
  BY <1>a, <1>b, <1>c, <1>d DEF TypeOK, CpuInv, PlaceInv, Alive
<1>5. ForkInv'
  BY <1>a, <1>b, <1>c, <1>d DEF TypeOK, PlaceInv, ForkInv, Forking
<1>6. StackInv'
  BY <1>a, <1>b, <1>c, <1>d DEF TypeOK, CpuInv, ForkInv, StackInv, Alive, Forking
<1>7. ParentInv'
  <2>1. \A q \in Slot :
          /\ ptable'[q].parent = ptable[q].parent
          /\ ptable[q].state \in Alive => ptable'[q].state \in Alive
          /\ ptable'[q].state \in Alive \cup {"ZOMBIE"} =>
               ptable[q].state \in Alive \cup {"ZOMBIE"}
          /\ ptable'[q].state = "UNUSED" =>
               ptable[q].state = "UNUSED" \/ ptable[q].parent = None
    BY <1>b, <1>c, <1>d DEF TypeOK, Alive
  <2> QED
    BY <2>1, ParentsStay
<1>8. WaitMissesNothing'
  BY <1>a, <1>b, <1>c, <1>d DEF TypeOK, PlaceInv, ForkInv, WaitMissesNothing, Children, Zombies, Forking
<1>9. DevInv'
  BY <1>a, <1>b, <1>c, <1>d DEF TypeOK, OneCpuEach, CpuInv, DevInv, Switching
<1>10. NoLostWakeup'
  BY <1>a, <1>b, <1>c, <1>d DEF TypeOK, PlaceInv, DevInv, NoLostWakeup, Switching
<1> QED
  BY <1>1, <1>2, <1>3, <1>4, <1>5, <1>6, <1>7, <1>8, <1>9, <1>10

(* fork without ptable.lock, on a slot of its own.                         *)
LEMMA AllocStackKeeps ==
  ASSUME IInv, NEW c \in CPU, NEW p \in Slot, AllocStack(c, p)
  PROVE  IInv'
<1> USE Names DEF IInv, At, Goto, Sched, AllocStack
<1> DEFINE child == np[p]
<1>a. /\ cur[c] = p /\ lock # c /\ ptable[p].state = "RUNNING" /\ p # child
      /\ child \in Slot /\ ptable[child].state = "EMBRYO" /\ pc[child] = "user"
  BY DEF TypeOK, CpuInv, ForkInv, PlaceInv, Forking
<1>b. /\ \A d \in CPU : cur[d] # child
      /\ \A q \in Slot \ {p} : pc[q] \in Forking => np[q] # child
  BY <1>a DEF TypeOK, CpuInv, ForkInv, PlaceInv, Forking, Alive
<1>1. TypeOK'
  <2>1. ptable' \in [Slot -> Proc]
    BY <1>a, Fields DEF TypeOK, State
  <2> QED
    BY <2>1, <1>a DEF TypeOK, PC
<1>2. OneCpuEach'
  BY <1>a, <1>b DEF TypeOK, OneCpuEach, CpuInv
<1>3. CpuInv'
  BY <1>a, <1>b DEF TypeOK, OneCpuEach, CpuInv, Alive
<1>4. PlaceInv'
  BY <1>a, <1>b DEF TypeOK, CpuInv, PlaceInv, Alive
<1>5. ForkInv'
  BY <1>a, <1>b DEF TypeOK, PlaceInv, ForkInv, Forking
<1>6. StackInv'
  BY <1>a, <1>b DEF TypeOK, CpuInv, ForkInv, StackInv, Alive, Forking
<1>7. ParentInv'
  <2>1. \A q \in Slot :
          /\ ptable'[q].parent = ptable[q].parent
          /\ ptable[q].state \in Alive => ptable'[q].state \in Alive
          /\ ptable'[q].state \in Alive \cup {"ZOMBIE"} =>
               ptable[q].state \in Alive \cup {"ZOMBIE"}
          /\ ptable'[q].state = "UNUSED" =>
               ptable[q].state = "UNUSED" \/ ptable[q].parent = None
    BY <1>a DEF TypeOK, Alive, ForkInv, Forking
  <2> QED
    BY <2>1, ParentsStay
<1>8. WaitMissesNothing'
  BY <1>a, <1>b DEF TypeOK, PlaceInv, ForkInv, WaitMissesNothing, Children, Zombies, Forking
<1>9. DevInv'
  BY <1>a, <1>b DEF TypeOK, OneCpuEach, CpuInv, DevInv, Switching
<1>10. NoLostWakeup'
  BY <1>a, <1>b DEF TypeOK, PlaceInv, DevInv, NoLostWakeup, Switching
<1> QED
  BY <1>1, <1>2, <1>3, <1>4, <1>5, <1>6, <1>7, <1>8, <1>9, <1>10

(* allocproc gives its slot back.                                          *)
LEMMA AllocFailsKeeps ==
  ASSUME IInv, NEW c \in CPU, NEW p \in Slot, AllocFails(c, p)
  PROVE  IInv'
<1> USE Names DEF IInv, At, Goto, Sched, AllocFails
<1> DEFINE child == np[p]
<1>a. /\ cur[c] = p /\ lock # c /\ ptable[p].state = "RUNNING" /\ p # child
      /\ child \in Slot /\ ptable[child].state = "EMBRYO" /\ pc[child] = "user"
  BY DEF TypeOK, CpuInv, ForkInv, PlaceInv, Forking
<1>b. /\ \A d \in CPU : cur[d] # child
      /\ \A q \in Slot \ {p} : pc[q] \in Forking => np[q] # child
  BY <1>a DEF TypeOK, CpuInv, ForkInv, PlaceInv, Forking, Alive
<1>1. TypeOK'
  <2>1. ptable' \in [Slot -> Proc]
    BY <1>a, Fields DEF TypeOK, State
  <2> QED
    BY <2>1, <1>a DEF TypeOK, PC
<1>2. OneCpuEach'
  BY <1>a, <1>b DEF TypeOK, OneCpuEach, CpuInv
<1>3. CpuInv'
  BY <1>a, <1>b DEF TypeOK, OneCpuEach, CpuInv, Alive
<1>4. PlaceInv'
  BY <1>a, <1>b DEF TypeOK, CpuInv, PlaceInv, Alive
<1>5. ForkInv'
  BY <1>a, <1>b DEF TypeOK, PlaceInv, ForkInv, Forking
<1>6. StackInv'
  BY <1>a, <1>b DEF TypeOK, CpuInv, ForkInv, StackInv, Alive, Forking
<1>7. ParentInv'
  <2>1. \A q \in Slot :
          /\ ptable'[q].parent = ptable[q].parent
          /\ ptable[q].state \in Alive => ptable'[q].state \in Alive
          /\ ptable'[q].state \in Alive \cup {"ZOMBIE"} =>
               ptable[q].state \in Alive \cup {"ZOMBIE"}
          /\ ptable'[q].state = "UNUSED" =>
               ptable[q].state = "UNUSED" \/ ptable[q].parent = None
    BY <1>a DEF TypeOK, Alive, ForkInv, Forking
  <2> QED
    BY <2>1, ParentsStay
<1>8. WaitMissesNothing'
  BY <1>a, <1>b DEF TypeOK, PlaceInv, ForkInv, WaitMissesNothing, Children, Zombies, Forking
<1>9. DevInv'
  BY <1>a, <1>b DEF TypeOK, OneCpuEach, CpuInv, DevInv, Switching
<1>10. NoLostWakeup'
  BY <1>a, <1>b DEF TypeOK, PlaceInv, DevInv, NoLostWakeup, Switching
<1> QED
  BY <1>1, <1>2, <1>3, <1>4, <1>5, <1>6, <1>7, <1>8, <1>9, <1>10

(* The child gets its parent, who lives.                                   *)
LEMMA CopyProcKeeps ==
  ASSUME IInv, NEW c \in CPU, NEW p \in Slot, CopyProc(c, p)
  PROVE  IInv'
<1> USE Names DEF IInv, At, Goto, Sched, CopyProc
<1> DEFINE child == np[p]
<1>a. /\ cur[c] = p /\ lock # c /\ ptable[p].state = "RUNNING" /\ p # child
      /\ child \in Slot /\ ptable[child].state = "EMBRYO" /\ pc[child] = "user"
  BY DEF TypeOK, CpuInv, ForkInv, PlaceInv, Forking
<1>b. /\ \A d \in CPU : cur[d] # child
      /\ \A q \in Slot \ {p} : pc[q] \in Forking => np[q] # child
  BY <1>a DEF TypeOK, CpuInv, ForkInv, PlaceInv, Forking, Alive
<1>1. TypeOK'
  <2>1. ptable' \in [Slot -> Proc]
    BY <1>a, Fields DEF TypeOK, State
  <2> QED
    BY <2>1, <1>a DEF TypeOK, PC
<1>2. OneCpuEach'
  BY <1>a, <1>b DEF TypeOK, OneCpuEach, CpuInv
<1>3. CpuInv'
  BY <1>a, <1>b DEF TypeOK, OneCpuEach, CpuInv, Alive
<1>4. PlaceInv'
  BY <1>a, <1>b DEF TypeOK, CpuInv, PlaceInv, Alive
<1>5. ForkInv'
  BY <1>a, <1>b DEF TypeOK, PlaceInv, ForkInv, Forking
<1>6. StackInv'
  BY <1>a, <1>b DEF TypeOK, CpuInv, ForkInv, StackInv, Alive, Forking
<1>7. ParentInv'
  BY <1>a, <1>b DEF TypeOK, CpuInv, PlaceInv, ForkInv, ParentInv, Alive, Forking
<1>8. WaitMissesNothing'
  BY <1>a, <1>b DEF TypeOK, PlaceInv, ForkInv, WaitMissesNothing, Children, Zombies, Forking
<1>9. DevInv'
  BY <1>a, <1>b DEF TypeOK, OneCpuEach, CpuInv, DevInv, Switching
<1>10. NoLostWakeup'
  BY <1>a, <1>b DEF TypeOK, PlaceInv, DevInv, NoLostWakeup, Switching
<1> QED
  BY <1>1, <1>2, <1>3, <1>4, <1>5, <1>6, <1>7, <1>8, <1>9, <1>10

(* fork gives stack and slot back.                                         *)
LEMMA CopyFailsKeeps ==
  ASSUME IInv, NEW c \in CPU, NEW p \in Slot, CopyFails(c, p)
  PROVE  IInv'
<1> USE Names DEF IInv, At, Goto, Sched, CopyFails
<1> DEFINE child == np[p]
<1>a. /\ cur[c] = p /\ lock # c /\ ptable[p].state = "RUNNING" /\ p # child
      /\ child \in Slot /\ ptable[child].state = "EMBRYO" /\ pc[child] = "user"
  BY DEF TypeOK, CpuInv, ForkInv, PlaceInv, Forking
<1>b. /\ \A d \in CPU : cur[d] # child
      /\ \A q \in Slot \ {p} : pc[q] \in Forking => np[q] # child
  BY <1>a DEF TypeOK, CpuInv, ForkInv, PlaceInv, Forking, Alive
<1>1. TypeOK'
  <2>1. ptable' \in [Slot -> Proc]
    BY <1>a, Fields DEF TypeOK, State
  <2> QED
    BY <2>1, <1>a DEF TypeOK, PC
<1>2. OneCpuEach'
  BY <1>a, <1>b DEF TypeOK, OneCpuEach, CpuInv
<1>3. CpuInv'
  BY <1>a, <1>b DEF TypeOK, OneCpuEach, CpuInv, Alive
<1>4. PlaceInv'
  BY <1>a, <1>b DEF TypeOK, CpuInv, PlaceInv, Alive
<1>5. ForkInv'
  BY <1>a, <1>b DEF TypeOK, PlaceInv, ForkInv, Forking
<1>6. StackInv'
  BY <1>a, <1>b DEF TypeOK, CpuInv, ForkInv, StackInv, Alive, Forking
<1>7. ParentInv'
  <2>1. \A q \in Slot :
          /\ ptable'[q].parent = ptable[q].parent
          /\ ptable[q].state \in Alive => ptable'[q].state \in Alive
          /\ ptable'[q].state \in Alive \cup {"ZOMBIE"} =>
               ptable[q].state \in Alive \cup {"ZOMBIE"}
          /\ ptable'[q].state = "UNUSED" =>
               ptable[q].state = "UNUSED" \/ ptable[q].parent = None
    BY <1>a DEF TypeOK, Alive, ForkInv, Forking
  <2> QED
    BY <2>1, ParentsStay
<1>8. WaitMissesNothing'
  BY <1>a, <1>b DEF TypeOK, PlaceInv, ForkInv, WaitMissesNothing, Children, Zombies, Forking
<1>9. DevInv'
  BY <1>a, <1>b DEF TypeOK, OneCpuEach, CpuInv, DevInv, Switching
<1>10. NoLostWakeup'
  BY <1>a, <1>b DEF TypeOK, PlaceInv, DevInv, NoLostWakeup, Switching
<1> QED
  BY <1>1, <1>2, <1>3, <1>4, <1>5, <1>6, <1>7, <1>8, <1>9, <1>10

(* The child can run: its stack and its parent are there.                  *)
LEMMA PublishKeeps ==
  ASSUME IInv, NEW c \in CPU, NEW p \in Slot, Publish(c, p)
  PROVE  IInv'
<1> USE Names DEF IInv, At, Goto, Sched, Publish
<1> DEFINE child == np[p]
<1>a. /\ cur[c] = p /\ lock # c /\ ptable[p].state = "RUNNING" /\ p # child
      /\ child \in Slot /\ ptable[child].state = "EMBRYO" /\ pc[child] = "user"
  BY DEF TypeOK, CpuInv, ForkInv, PlaceInv, Forking
<1>b. /\ \A d \in CPU : cur[d] # child
      /\ \A q \in Slot \ {p} : pc[q] \in Forking => np[q] # child
  BY <1>a DEF TypeOK, CpuInv, ForkInv, PlaceInv, Forking, Alive
<1>1. TypeOK'
  <2>1. ptable' \in [Slot -> Proc]
    BY <1>a, Fields DEF TypeOK, State
  <2> QED
    BY <2>1, <1>a DEF TypeOK, PC
<1>2. OneCpuEach'
  BY <1>a, <1>b DEF TypeOK, OneCpuEach, CpuInv
<1>3. CpuInv'
  BY <1>a, <1>b DEF TypeOK, OneCpuEach, CpuInv, Alive
<1>4. PlaceInv'
  BY <1>a, <1>b DEF TypeOK, CpuInv, PlaceInv, Alive
<1>5. ForkInv'
  BY <1>a, <1>b DEF TypeOK, PlaceInv, ForkInv, Forking
<1>6. StackInv'
  BY <1>a, <1>b DEF TypeOK, CpuInv, ForkInv, StackInv, Alive, Forking
<1>7. ParentInv'
  BY <1>a, <1>b DEF TypeOK, CpuInv, PlaceInv, ForkInv, ParentInv, Alive, Forking
<1>8. WaitMissesNothing'
  BY <1>a, <1>b DEF TypeOK, PlaceInv, ForkInv, WaitMissesNothing, Children, Zombies, Forking
<1>9. DevInv'
  BY <1>a, <1>b DEF TypeOK, OneCpuEach, CpuInv, DevInv, Switching
<1>10. NoLostWakeup'
  BY <1>a, <1>b DEF TypeOK, PlaceInv, DevInv, NoLostWakeup, Switching
<1> QED
  BY <1>1, <1>2, <1>3, <1>4, <1>5, <1>6, <1>7, <1>8, <1>9, <1>10

(* exit: parent and init are woken, the children are init's.               *)
LEMMA ExitKeeps ==
  ASSUME IInv, NEW c \in CPU, NEW p \in Slot, Exit(c, p)
  PROVE  IInv'
<1> USE Names DEF IInv, At, Goto, Sched, Exit
<1>a. /\ cur[c] = p /\ lock = None /\ ptable[p].state = "RUNNING" /\ p # initproc
      /\ pc[p] = "user" /\ lock' = c
      /\ nextpid' = nextpid /\ devlock' = devlock /\ ready' = ready
      /\ cur' = cur /\ next' = next /\ left' = left /\ pc' = pc /\ np' = np
  BY DEF CpuInv
<1>b. ptable' = [Reparent(wakeup1(ptable, ptable[p].parent), p) EXCEPT ![p].state = "ZOMBIE"]
  OBVIOUS
<1> HIDE DEF Exit
<1>c. /\ ptable' \in [Slot -> Proc]
      /\ \A q \in Slot :
           /\ ptable'[q].state = ExitState(p, q)
           /\ ptable'[q].parent = IF q \in Children(p) THEN initproc ELSE ptable[q].parent
           /\ ptable'[q].chan = ptable[q].chan
           /\ ptable'[q].killed = ptable[q].killed
           /\ ptable'[q].kstack = ptable[q].kstack
  <2>1. ptable \in [Slot -> Proc]
    BY DEF TypeOK
  <2> QED
    BY <1>b, <2>1, ExitTable
<1>d. /\ ptable'[p].state = "ZOMBIE"
      /\ \A q \in Slot \ {p} :
           \/ ptable'[q].state = ptable[q].state
           \/ ptable[q].state = "SLEEPING" /\ ptable'[q].state = "RUNNABLE"
  <2>1. ptable'[p].state = "ZOMBIE"
    BY <1>c DEF ExitState
  <2>2. ASSUME NEW q \in Slot \ {p}
        PROVE  \/ ptable'[q].state = ptable[q].state
               \/ ptable[q].state = "SLEEPING" /\ ptable'[q].state = "RUNNABLE"
    <3>1. ptable'[q].state = ExitState(p, q)
      BY <1>c
    <3> QED
      BY <3>1 DEF ExitState, Sleeps
  <2> QED
    BY <2>1, <2>2
<1>e. initproc \notin Children(p) /\ p \notin Children(p)
  BY DEF Children, ParentInv
<1>1. TypeOK'
  BY <1>a, <1>c DEF TypeOK
<1>2. OneCpuEach'
  BY <1>a, <1>c, <1>d, <1>e DEF TypeOK, OneCpuEach, CpuInv
<1>3. CpuInv'
  BY <1>a, <1>c, <1>d, <1>e DEF TypeOK, OneCpuEach, CpuInv, Alive
<1>4. PlaceInv'
  BY <1>a, <1>c, <1>d, <1>e DEF TypeOK, CpuInv, PlaceInv, Alive
<1>5. ForkInv'
  BY <1>a, <1>c, <1>d DEF TypeOK, PlaceInv, ForkInv, Forking, Children
<1>6. StackInv'
  BY <1>a, <1>c, <1>d, <1>e DEF TypeOK, CpuInv, ForkInv, StackInv, Alive, Forking
<1>7. ParentInv'
  <2>1. ptable'[initproc].state \in Alive /\ ptable'[initproc].parent = None
    BY <1>a, <1>c, <1>d, <1>e DEF ParentInv, Alive
  <2>2. ASSUME NEW q \in Slot, ptable'[q].parent # None
        PROVE  ptable'[q].parent # q /\ ptable'[ptable'[q].parent].state \in Alive
    <3>1. CASE q \in Children(p)
      BY <1>c, <1>e, <2>1, <3>1
    <3>2. CASE q \notin Children(p)
      <4>1. ptable'[q].parent = ptable[q].parent /\ ptable[q].parent \in Slot \ {p}
        BY <1>c, <2>2, <3>2 DEF Children, TypeOK, Proc
      <4>2. ptable[ptable[q].parent].state \in Alive /\ ptable[q].parent # q
        BY <2>2, <4>1 DEF ParentInv
      <4> QED
        BY <1>d, <4>1, <4>2 DEF Alive
    <3> QED
      BY <3>1, <3>2
  <2>3. ASSUME NEW q \in Slot \ {initproc}, ptable'[q].state \in Alive \cup {"ZOMBIE"}
        PROVE  ptable'[q].parent # None
    <3>1. ptable[q].state \in Alive \cup {"ZOMBIE"}
      BY <1>a, <1>d, <2>3 DEF Alive
    <3> QED
      BY <1>c, <3>1 DEF ParentInv
  <2>4. ASSUME NEW q \in Slot, ptable'[q].state = "UNUSED"
        PROVE  ptable'[q].parent = None
    <3>1. ptable[q].state = "UNUSED"
      BY <1>d, <2>4
    <3> QED
      BY <1>c, <3>1 DEF ParentInv, Children
  <2> QED
    BY <2>1, <2>2, <2>3, <2>4 DEF ParentInv
<1>8. WaitMissesNothing'
  <2> SUFFICES ASSUME NEW r \in Slot, ptable'[r].state = "SLEEPING", pc'[r] = "wait"
               PROVE  /\ Children(r)' # {} /\ Zombies(r)' = {}
                      /\ ~ptable'[r].killed
    BY DEF WaitMissesNothing
  <2>1. r # p /\ ptable[r].state = "SLEEPING" /\ pc[r] = "wait" /\ ptable[r].chan = r
    BY <1>a, <1>d DEF PlaceInv
  <2>2. /\ Children(r) # {} /\ Zombies(r) = {} /\ ~ptable[r].killed
    BY <2>1 DEF WaitMissesNothing
  <2>3. p \notin Children(r) /\ (r = initproc => ~ZombieChild(p))
    BY <1>c, <2>1 DEF ExitState, Sleeps, Children
  <2>4. \A q \in Children(r) : ptable'[q].parent = r
    BY <1>c, <2>1 DEF Children
  <2>5. ASSUME NEW q \in Slot, ptable'[q].parent = r, ptable'[q].state = "ZOMBIE"
        PROVE  FALSE
    <3>1. q # p
      BY <1>c, <1>e, <2>3, <2>5 DEF Children
    <3>2. ptable[q].state = "ZOMBIE"
      BY <1>d, <2>5, <3>1
    <3>3. CASE q \in Children(p)
      BY <1>c, <2>3, <2>5, <3>2, <3>3 DEF ZombieChild
    <3>4. CASE q \notin Children(p)
      BY <1>c, <2>2, <2>5, <3>2, <3>4 DEF Zombies, Children
    <3> QED
      BY <3>3, <3>4
  <2> QED
    BY <1>c, <2>2, <2>4, <2>5 DEF Children, Zombies
<1>9. DevInv'
  BY <1>a, <1>c, <1>d, <1>e DEF TypeOK, OneCpuEach, CpuInv, DevInv, Switching
<1>10. NoLostWakeup'
  BY <1>a, <1>c, <1>d, <1>e DEF TypeOK, PlaceInv, DevInv, NoLostWakeup, Switching
<1> QED
  BY <1>1, <1>2, <1>3, <1>4, <1>5, <1>6, <1>7, <1>8, <1>9, <1>10

(* Who is in wait, with ptable.lock (proc.c:232, 265).                     *)
InWait(c, p) ==
  /\ \/ Call(c, p) /\ lock = None
     \/ cur[c] = p /\ lock = c /\ ptable[p].state = "RUNNING" /\ pc[p] = "wait"
  /\ UNCHANGED <<nextpid, devlock, ready, Sched, np>>

(* A zombie is given back, with its stack: it has left its CPU.            *)
LEMMA CollectKeeps ==
  ASSUME IInv, NEW c \in CPU, NEW p \in Slot, InWait(c, p), Collect(p)
  PROVE  IInv'
<1> USE Names DEF IInv, At, Goto, Sched, Collect
<1>a. /\ cur[c] = p /\ ptable[p].state = "RUNNING" /\ lock \in {None, c}
      /\ pc[p] \in {"user", "wait"}
      /\ cur' = cur /\ next' = next /\ left' = left
      /\ nextpid' = nextpid /\ devlock' = devlock /\ ready' = ready /\ np' = np
  BY DEF InWait, Call, CpuInv
<1>b. PICK z \in Zombies(p) :
        ptable' = [ptable EXCEPT ![z] = [Unused EXCEPT !.chan = ptable[z].chan], ![p].chan = None]
  BY DEF Collect
<1>c. /\ z \in Slot /\ ptable[z].state = "ZOMBIE" /\ ptable[z].parent = p /\ z # p
      /\ pc[z] = "user" /\ ptable[z] \in Proc /\ ptable[p] \in Proc
  BY <1>a DEF TypeOK, Zombies, Children, PlaceInv
<1>d. /\ DOMAIN ptable' = Slot
      /\ ptable'[z] = [Unused EXCEPT !.chan = ptable[z].chan]
      /\ ptable'[p] = [ptable[p] EXCEPT !.chan = None]
      /\ \A q \in Slot \ {p, z} : ptable'[q] = ptable[q]
  BY <1>b, <1>c DEF TypeOK
<1>e. \A q \in Slot :
        /\ ptable'[q].state = IF q = z THEN "UNUSED" ELSE ptable[q].state
        /\ ptable'[q].parent = IF q = z THEN None ELSE ptable[q].parent
        /\ q # p => ptable'[q].chan = ptable[q].chan
        /\ q # z => /\ ptable'[q].kstack = ptable[q].kstack
                    /\ ptable'[q].killed = ptable[q].killed
  <2>1. ASSUME NEW q \in Slot \ {p, z}
        PROVE  ptable'[q] = ptable[q]
    BY <1>d, <2>1
  <2>2. /\ ptable'[z].state = "UNUSED" /\ ptable'[z].parent = None
        /\ ptable'[z].chan = ptable[z].chan
    BY <1>c, <1>d DEF Unused
  <2>3. /\ ptable'[p].state = ptable[p].state /\ ptable'[p].parent = ptable[p].parent
        /\ ptable'[p].kstack = ptable[p].kstack /\ ptable'[p].killed = ptable[p].killed
    BY <1>c, <1>d DEF Proc
  <2> QED
    BY <1>c, <2>1, <2>2, <2>3
<1>f. /\ lock' = None /\ pc' = [pc EXCEPT ![p] = "user"]
      /\ \A d \in CPU : cur[d] # z
  BY <1>a, <1>c DEF Collect, CpuInv
<1> HIDE DEF Collect
<1>1. TypeOK'
  <2>1. ptable'[z] \in Proc
    <3>1. Unused \in Proc
      BY ProcAssumption DEF ProcAssumption, Proc, Unused, State
    <3>2. ptable[z].chan \in Slot \cup {Dev, None}
      BY <1>c DEF Proc
    <3> QED
      BY <1>d, <3>1, <3>2, Fields
  <2>2. ptable'[p] \in Proc
    BY <1>c, <1>d, Fields
  <2>3. ptable' \in [Slot -> Proc]
    <3>1. \A q \in Slot : ptable'[q] \in Proc
      BY <1>d, <2>1, <2>2 DEF TypeOK
    <3>2. ptable' = [q \in Slot |-> ptable'[q]]
      BY <1>b, <1>d DEF TypeOK
    <3> QED
      BY <3>1, <3>2
  <2> QED
    BY <1>a, <1>f, <2>3 DEF TypeOK, PC
<1>2. OneCpuEach'
  BY <1>a, <1>c, <1>e, <1>f DEF TypeOK, OneCpuEach, CpuInv
<1>3. CpuInv'
  BY <1>a, <1>c, <1>e, <1>f DEF TypeOK, OneCpuEach, CpuInv, Alive
<1>4. PlaceInv'
  BY <1>a, <1>c, <1>e, <1>f DEF TypeOK, CpuInv, PlaceInv, Alive
<1>5. ForkInv'
  BY <1>a, <1>c, <1>e, <1>f DEF TypeOK, PlaceInv, ForkInv, Forking
<1>6. StackInv'
  BY <1>a, <1>c, <1>e, <1>f DEF TypeOK, CpuInv, ForkInv, StackInv, Alive, Forking
<1>7. ParentInv'
  <2>1. \A q \in Slot : ptable[q].parent # z
    BY <1>c DEF ParentInv, Alive
  <2>2. \A q \in Slot : ptable[q].parent \in Slot \cup {None}
    BY DEF TypeOK, Proc
  <2>3. z # initproc
    BY <1>c DEF ParentInv, Alive
  <2> QED
    BY <1>a, <1>c, <1>e, <2>1, <2>2, <2>3 DEF ParentInv, Alive
<1>8. WaitMissesNothing'
  BY <1>a, <1>c, <1>e, <1>f DEF TypeOK, PlaceInv, ForkInv, WaitMissesNothing, Children, Zombies, Forking
<1>9. DevInv'
  BY <1>a, <1>c, <1>e, <1>f DEF TypeOK, OneCpuEach, CpuInv, DevInv, Switching
<1>10. NoLostWakeup'
  BY <1>a, <1>c, <1>e, <1>f DEF TypeOK, PlaceInv, DevInv, NoLostWakeup, Switching
<1> QED
  BY <1>1, <1>2, <1>3, <1>4, <1>5, <1>6, <1>7, <1>8, <1>9, <1>10

(* wait returns -1.                                                        *)
LEMMA NobodyToCollectKeeps ==
  ASSUME IInv, NEW c \in CPU, NEW p \in Slot, InWait(c, p), NobodyToCollect(p)
  PROVE  IInv'
<1> USE Names DEF IInv, At, Goto, Sched, NobodyToCollect
<1>a. /\ cur[c] = p /\ ptable[p].state = "RUNNING" /\ lock \in {None, c}
      /\ pc[p] \in {"user", "wait"}
      /\ cur' = cur /\ next' = next /\ left' = left
      /\ nextpid' = nextpid /\ devlock' = devlock /\ ready' = ready /\ np' = np
  BY DEF InWait, Call, CpuInv
<1>1. TypeOK'
  <2>1. ptable' \in [Slot -> Proc]
    BY <1>a, Fields DEF TypeOK, State
  <2> QED
    BY <2>1, <1>a DEF TypeOK, PC
<1>2. OneCpuEach'
  BY <1>a DEF TypeOK, OneCpuEach, CpuInv
<1>3. CpuInv'
  BY <1>a DEF TypeOK, OneCpuEach, CpuInv, Alive
<1>4. PlaceInv'
  BY <1>a DEF TypeOK, CpuInv, PlaceInv, Alive
<1>5. ForkInv'
  BY <1>a DEF TypeOK, PlaceInv, ForkInv, Forking
<1>6. StackInv'
  BY <1>a DEF TypeOK, CpuInv, ForkInv, StackInv, Alive, Forking
<1>7. ParentInv'
  BY <1>a DEF TypeOK, CpuInv, PlaceInv, ForkInv, ParentInv, Alive, Forking
<1>8. WaitMissesNothing'
  BY <1>a DEF TypeOK, PlaceInv, ForkInv, WaitMissesNothing, Children, Zombies, Forking
<1>9. DevInv'
  BY <1>a DEF TypeOK, OneCpuEach, CpuInv, DevInv, Switching
<1>10. NoLostWakeup'
  BY <1>a DEF TypeOK, PlaceInv, DevInv, NoLostWakeup, Switching
<1> QED
  BY <1>1, <1>2, <1>3, <1>4, <1>5, <1>6, <1>7, <1>8, <1>9, <1>10

(* wait sleeps, on the process itself: it has children, none a zombie.     *)
LEMMA SleepInWaitKeeps ==
  ASSUME IInv, NEW c \in CPU, NEW p \in Slot, InWait(c, p), SleepInWait(c, p)
  PROVE  IInv'
<1> USE Names DEF IInv, At, Goto, Sched, SleepInWait
<1>a. /\ cur[c] = p /\ ptable[p].state = "RUNNING" /\ lock \in {None, c}
      /\ pc[p] \in {"user", "wait"}
      /\ cur' = cur /\ next' = next /\ left' = left
      /\ nextpid' = nextpid /\ devlock' = devlock /\ ready' = ready /\ np' = np
  BY DEF InWait, Call, CpuInv
<1>1. TypeOK'
  <2>1. ptable' \in [Slot -> Proc]
    BY <1>a, Fields DEF TypeOK, State
  <2> QED
    BY <2>1, <1>a DEF TypeOK, PC
<1>2. OneCpuEach'
  BY <1>a DEF TypeOK, OneCpuEach, CpuInv
<1>3. CpuInv'
  BY <1>a DEF TypeOK, OneCpuEach, CpuInv, Alive
<1>4. PlaceInv'
  BY <1>a DEF TypeOK, CpuInv, PlaceInv, Alive
<1>5. ForkInv'
  BY <1>a DEF TypeOK, PlaceInv, ForkInv, Forking
<1>6. StackInv'
  BY <1>a DEF TypeOK, CpuInv, ForkInv, StackInv, Alive, Forking
<1>7. ParentInv'
  <2>1. \A q \in Slot :
          /\ ptable'[q].parent = ptable[q].parent
          /\ ptable[q].state \in Alive => ptable'[q].state \in Alive
          /\ ptable'[q].state \in Alive \cup {"ZOMBIE"} =>
               ptable[q].state \in Alive \cup {"ZOMBIE"}
          /\ ptable'[q].state = "UNUSED" =>
               ptable[q].state = "UNUSED" \/ ptable[q].parent = None
    BY <1>a DEF TypeOK, Alive
  <2> QED
    BY <2>1, ParentsStay
<1>8. WaitMissesNothing'
  BY <1>a DEF TypeOK, PlaceInv, ForkInv, WaitMissesNothing, Children, Zombies, Forking
<1>9. DevInv'
  BY <1>a DEF TypeOK, OneCpuEach, CpuInv, DevInv, Switching
<1>10. NoLostWakeup'
  BY <1>a DEF TypeOK, PlaceInv, DevInv, NoLostWakeup, Switching
<1> QED
  BY <1>1, <1>2, <1>3, <1>4, <1>5, <1>6, <1>7, <1>8, <1>9, <1>10

(* wait and wait2, whichever way the scan of the table comes out.          *)
LEMMA WaitKeeps ==
  ASSUME IInv, NEW c \in CPU, NEW p \in Slot, Wait(c, p)
  PROVE  IInv'
<1>1. InWait(c, p) /\ (Collect(p) \/ NobodyToCollect(p) \/ SleepInWait(c, p))
  BY DEF Wait, InWait
<1> QED
  BY <1>1, CollectKeeps, NobodyToCollectKeeps, SleepInWaitKeeps

(* The condition is tested under the lock of Dev.                          *)
LEMMA BlockKeeps ==
  ASSUME IInv, NEW c \in CPU, NEW p \in Slot, Block(c, p)
  PROVE  IInv'
<1> USE Names DEF IInv, At, Goto, Sched, Block, Call
<1>1. TypeOK'
  BY DEF TypeOK, PC
<1>2. OneCpuEach'
  BY DEF TypeOK, OneCpuEach, CpuInv
<1>3. CpuInv'
  BY DEF TypeOK, OneCpuEach, CpuInv, Alive
<1>4. PlaceInv'
  BY DEF TypeOK, CpuInv, PlaceInv, Alive
<1>5. ForkInv'
  BY DEF TypeOK, PlaceInv, ForkInv, Forking
<1>6. StackInv'
  BY DEF TypeOK, CpuInv, ForkInv, StackInv, Alive, Forking
<1>7. ParentInv'
  BY DEF TypeOK, CpuInv, PlaceInv, ForkInv, ParentInv, Alive, Forking
<1>8. WaitMissesNothing'
  BY DEF TypeOK, PlaceInv, ForkInv, WaitMissesNothing, Children, Zombies, Forking
<1>9. DevInv'
  BY DEF TypeOK, OneCpuEach, CpuInv, DevInv, Switching
<1>10. NoLostWakeup'
  BY DEF TypeOK, PlaceInv, DevInv, NoLostWakeup, Switching
<1> QED
  BY <1>1, <1>2, <1>3, <1>4, <1>5, <1>6, <1>7, <1>8, <1>9, <1>10

(* sleep: nobody has made Dev ready since the test.                        *)
LEMMA SleepKeeps ==
  ASSUME IInv, NEW c \in CPU, NEW p \in Slot, Sleep(c, p)
  PROVE  IInv'
<1> USE Names DEF IInv, At, Goto, Sched, Sleep
<1>1. TypeOK'
  <2>1. ptable' \in [Slot -> Proc]
    BY Fields DEF TypeOK, State
  <2> QED
    BY <2>1 DEF TypeOK, PC
<1>2. OneCpuEach'
  BY DEF TypeOK, OneCpuEach, CpuInv
<1>3. CpuInv'
  BY DEF TypeOK, OneCpuEach, CpuInv, Alive
<1>4. PlaceInv'
  BY DEF TypeOK, CpuInv, PlaceInv, Alive
<1>5. ForkInv'
  BY DEF TypeOK, PlaceInv, ForkInv, Forking
<1>6. StackInv'
  BY DEF TypeOK, CpuInv, ForkInv, StackInv, Alive, Forking
<1>7. ParentInv'
  <2>1. \A q \in Slot :
          /\ ptable'[q].parent = ptable[q].parent
          /\ ptable[q].state \in Alive => ptable'[q].state \in Alive
          /\ ptable'[q].state \in Alive \cup {"ZOMBIE"} =>
               ptable[q].state \in Alive \cup {"ZOMBIE"}
          /\ ptable'[q].state = "UNUSED" =>
               ptable[q].state = "UNUSED" \/ ptable[q].parent = None
    BY DEF TypeOK, Alive, CpuInv
  <2> QED
    BY <2>1, ParentsStay
<1>8. WaitMissesNothing'
  BY DEF TypeOK, PlaceInv, ForkInv, WaitMissesNothing, Children, Zombies, Forking
<1>9. DevInv'
  BY DEF TypeOK, OneCpuEach, CpuInv, DevInv, Switching
<1>10. NoLostWakeup'
  BY DEF TypeOK, PlaceInv, DevInv, NoLostWakeup, Switching
<1> QED
  BY <1>1, <1>2, <1>3, <1>4, <1>5, <1>6, <1>7, <1>8, <1>9, <1>10

(* Dev is ready, and wakeup is to come.                                    *)
LEMMA NotifyKeeps ==
  ASSUME IInv, NEW c \in CPU, NEW p \in Slot, Notify(c, p)
  PROVE  IInv'
<1> USE Names DEF IInv, At, Goto, Sched, Notify, Call
<1>1. TypeOK'
  BY DEF TypeOK, Proc, State, PC
<1>2. OneCpuEach'
  BY DEF TypeOK, OneCpuEach, CpuInv
<1>3. CpuInv'
  BY DEF TypeOK, OneCpuEach, CpuInv, Alive
<1>4. PlaceInv'
  BY DEF TypeOK, CpuInv, PlaceInv, Alive
<1>5. ForkInv'
  BY DEF TypeOK, PlaceInv, ForkInv, Forking
<1>6. StackInv'
  BY DEF TypeOK, CpuInv, ForkInv, StackInv, Alive, Forking
<1>7. ParentInv'
  BY DEF TypeOK, CpuInv, PlaceInv, ForkInv, ParentInv, Alive, Forking
<1>8. WaitMissesNothing'
  BY DEF TypeOK, PlaceInv, ForkInv, WaitMissesNothing, Children, Zombies, Forking
<1>9. DevInv'
  BY DEF TypeOK, OneCpuEach, CpuInv, DevInv, Switching
<1>10. NoLostWakeup'
  BY DEF TypeOK, PlaceInv, DevInv, NoLostWakeup, Switching
<1> QED
  BY <1>1, <1>2, <1>3, <1>4, <1>5, <1>6, <1>7, <1>8, <1>9, <1>10

(* Everybody who sleeps on Dev is woken.                                   *)
LEMMA WakeupKeeps ==
  ASSUME IInv, NEW c \in CPU, NEW p \in Slot, Wakeup(c, p)
  PROVE  IInv'
<1> USE Names DEF IInv, At, Goto, Sched, Wakeup, wakeup1
<1>1. TypeOK'
  BY DEF TypeOK, Proc, State, PC
<1>2. OneCpuEach'
  BY DEF TypeOK, OneCpuEach, CpuInv
<1>3. CpuInv'
  BY DEF TypeOK, OneCpuEach, CpuInv, Alive
<1>4. PlaceInv'
  BY DEF TypeOK, CpuInv, PlaceInv, Alive
<1>5. ForkInv'
  BY DEF TypeOK, PlaceInv, ForkInv, Forking
<1>6. StackInv'
  BY DEF TypeOK, CpuInv, ForkInv, StackInv, Alive, Forking
<1>7. ParentInv'
  <2>1. \A q \in Slot :
          /\ ptable'[q].parent = ptable[q].parent
          /\ ptable[q].state \in Alive => ptable'[q].state \in Alive
          /\ ptable'[q].state \in Alive \cup {"ZOMBIE"} =>
               ptable[q].state \in Alive \cup {"ZOMBIE"}
          /\ ptable'[q].state = "UNUSED" =>
               ptable[q].state = "UNUSED" \/ ptable[q].parent = None
    BY DEF TypeOK, Alive, Proc
  <2> QED
    BY <2>1, ParentsStay
<1>8. WaitMissesNothing'
  BY DEF TypeOK, PlaceInv, ForkInv, WaitMissesNothing, Children, Zombies, Forking
<1>9. DevInv'
  BY DEF TypeOK, OneCpuEach, CpuInv, DevInv, Switching
<1>10. NoLostWakeup'
  BY DEF TypeOK, PlaceInv, DevInv, NoLostWakeup, Switching
<1> QED
  BY <1>1, <1>2, <1>3, <1>4, <1>5, <1>6, <1>7, <1>8, <1>9, <1>10

(* kill: a sleeper of any kind goes on.                                    *)
LEMMA KillKeeps ==
  ASSUME IInv, NEW c \in CPU, NEW p \in Slot, NEW id \in KillPids, Kill(c, p, id)
  PROVE  IInv'
<1> USE Names DEF IInv, At, Goto, Sched, Kill, Call
<1>a. /\ cur[c] = p /\ lock = None /\ pc[p] = "user" /\ ptable[p].state = "RUNNING"
      /\ UNCHANGED <<nextpid, lock, devlock, ready, cur, next, left, pc, np>>
  BY DEF CpuInv
<1>b. PICK hit \in Slot :
        ptable' = [ptable EXCEPT ![hit].killed = TRUE,
                                 ![hit].state = IF @ = "SLEEPING" THEN "RUNNABLE" ELSE @]
  OBVIOUS
<1> HIDE DEF Kill
<1>c. /\ ptable' \in [Slot -> Proc]
      /\ \A r \in Slot :
           /\ ptable'[r].state = IF r = hit /\ ptable[r].state = "SLEEPING" THEN "RUNNABLE"
                                 ELSE ptable[r].state
           /\ r # hit => ptable'[r].killed = ptable[r].killed
           /\ ptable'[r].parent = ptable[r].parent
           /\ ptable'[r].chan = ptable[r].chan
           /\ ptable'[r].kstack = ptable[r].kstack
  <2>1. ptable \in [Slot -> Proc]
    BY DEF TypeOK
  <2>2. ptable[hit] \in Proc /\ ptable[hit].state \in State
    BY <2>1 DEF Proc
  <2> DEFINE st == IF ptable[hit].state = "SLEEPING" THEN "RUNNABLE" ELSE ptable[hit].state
             marked == [ptable[hit] EXCEPT !.killed = TRUE]
  <2>3. st \in State
    BY <2>2 DEF State
  <2>4. marked \in Proc
    BY <2>2, Fields
  <2> HIDE DEF st
  <2>5. [marked EXCEPT !.state = st] \in Proc
    BY <2>3, <2>4, Fields
  <2>6. ptable'[hit] = [marked EXCEPT !.state = st]
    BY <1>b, <2>1, <2>2 DEF Proc, st
  <2>7. \A r \in Slot \ {hit} : ptable'[r] = ptable[r]
    BY <1>b, <2>1
  <2>8. ptable' \in [Slot -> Proc]
    <3>1. DOMAIN ptable' = Slot /\ ptable' = [r \in Slot |-> ptable'[r]]
      BY <1>b, <2>1
    <3> QED
      BY <2>1, <2>5, <2>6, <2>7, <3>1
  <2>9. /\ ptable'[hit].state = st
        /\ ptable'[hit].parent = ptable[hit].parent /\ ptable'[hit].chan = ptable[hit].chan
        /\ ptable'[hit].kstack = ptable[hit].kstack
    BY <2>2, <2>3, <2>6 DEF Proc
  <2> QED
    BY <2>7, <2>8, <2>9 DEF st
<1>1. TypeOK'
  BY <1>a, <1>c DEF TypeOK
<1>2. OneCpuEach'
  BY <1>a, <1>c DEF TypeOK, OneCpuEach, CpuInv
<1>3. CpuInv'
  BY <1>a, <1>c DEF TypeOK, OneCpuEach, CpuInv, Alive
<1>4. PlaceInv'
  BY <1>a, <1>c DEF TypeOK, CpuInv, PlaceInv, Alive
<1>5. ForkInv'
  BY <1>a, <1>c DEF TypeOK, PlaceInv, ForkInv, Forking
<1>6. StackInv'
  BY <1>a, <1>c DEF TypeOK, CpuInv, ForkInv, StackInv, Alive, Forking
<1>7. ParentInv'
  <2>1. \A q \in Slot :
          /\ ptable'[q].parent = ptable[q].parent
          /\ ptable[q].state \in Alive => ptable'[q].state \in Alive
          /\ ptable'[q].state \in Alive \cup {"ZOMBIE"} =>
               ptable[q].state \in Alive \cup {"ZOMBIE"}
          /\ ptable'[q].state = "UNUSED" =>
               ptable[q].state = "UNUSED" \/ ptable[q].parent = None
    BY <1>c DEF TypeOK, Alive
  <2> QED
    BY <2>1, ParentsStay
<1>8. WaitMissesNothing'
  BY <1>a, <1>c DEF TypeOK, PlaceInv, ForkInv, WaitMissesNothing, Children, Zombies, Forking
<1>9. DevInv'
  BY <1>a, <1>c DEF TypeOK, OneCpuEach, CpuInv, DevInv, Switching
<1>10. NoLostWakeup'
  BY <1>a, <1>c DEF TypeOK, PlaceInv, DevInv, NoLostWakeup, Switching
<1> QED
  BY <1>1, <1>2, <1>3, <1>4, <1>5, <1>6, <1>7, <1>8, <1>9, <1>10

(* Every step keeps the invariant.                                         *)
LEMMA NextKeeps == IInv /\ [Next]_vars => IInv'
<1> SUFFICES ASSUME IInv, [Next]_vars PROVE IInv'
  OBVIOUS
<1>1. CASE UNCHANGED vars
  BY <1>1 DEF vars, IInv, TypeOK, OneCpuEach, CpuInv, PlaceInv, ForkInv, StackInv, ParentInv,
              WaitMissesNothing, Children, Zombies, DevInv, NoLostWakeup
<1>2. CASE Next
  <2>1. PICK c \in CPU :
          \/ Swtch(c) \/ SchedAcquire(c) \/ SchedRelease(c) \/ Resume(c) \/ Yield(c)
          \/ \E p \in Slot :
               \/ Pick(c, p) \/ Fork(c, p) \/ AllocStack(c, p) \/ AllocFails(c, p)
               \/ CopyProc(c, p) \/ CopyFails(c, p) \/ Publish(c, p) \/ Exit(c, p)
               \/ Wait(c, p) \/ Block(c, p) \/ Sleep(c, p) \/ Notify(c, p) \/ Wakeup(c, p)
               \/ \E id \in KillPids : Kill(c, p, id)
    BY <1>2 DEF Next
  <2>2. CASE Swtch(c) \/ SchedAcquire(c) \/ SchedRelease(c) \/ Resume(c) \/ Yield(c)
    BY <2>2, SwtchKeeps, SchedAcquireKeeps, SchedReleaseKeeps, ResumeKeeps, YieldKeeps
  <2>3. ASSUME NEW p \in Slot,
               \/ Pick(c, p) \/ Fork(c, p) \/ AllocStack(c, p) \/ AllocFails(c, p)
               \/ CopyProc(c, p) \/ CopyFails(c, p) \/ Publish(c, p) \/ Exit(c, p)
        PROVE  IInv'
    BY <2>3, PickKeeps, ForkKeeps, AllocStackKeeps, AllocFailsKeeps, CopyProcKeeps,
       CopyFailsKeeps, PublishKeeps, ExitKeeps
  <2>4. ASSUME NEW p \in Slot,
               \/ Wait(c, p) \/ Block(c, p) \/ Sleep(c, p) \/ Notify(c, p) \/ Wakeup(c, p)
               \/ \E id \in KillPids : Kill(c, p, id)
        PROVE  IInv'
    BY <2>4, WaitKeeps, BlockKeeps, SleepKeeps, NotifyKeeps, WakeupKeeps, KillKeeps
  <2> QED
    BY <2>1, <2>2, <2>3, <2>4
<1> QED
  BY <1>1, <1>2

(* The invariant the properties rest on: who owns which slot, and what a   *)
(* process in each state can be in the middle of.                          *)
THEOREM ProcInvariant == Spec => []IInv
BY InitInv, NextKeeps, PTL DEF Spec

(* No process runs on two CPUs, and no CPU on a stack that wait or a fork  *)
(* that failed has freed (proc.c:219-220, 243, 388-390).                   *)
THEOREM ProcStacksAndCpus == Spec => []StacksAndCpus
<1>1. ASSUME IInv PROVE StacksAndCpus
  <2>1. StackInUse
    BY <1>1, Names DEF IInv, TypeOK, CpuInv, StackInv, StackInUse
  <2> QED
    BY <1>1, <2>1 DEF IInv, StacksAndCpus
<1> QED
  BY <1>1, ProcInvariant, PTL

(* Everyone who lives has a parent who lives, and a parent who sleeps in   *)
(* wait has no zombie: exit passes its children on before it is one itself *)
(* and wakes both parents (proc.c:203-213).                                *)
THEOREM ProcFamilies == Spec => []Families
<1>1. ASSUME IInv PROVE Families
  <2>1. \A p \in Slot : ptable[p].parent \in Slot \cup {None}
    BY <1>1 DEF IInv, TypeOK, Proc
  <2>2. ParentAlive
    BY <1>1, <2>1 DEF IInv, ParentInv, ParentAlive, Alive
  <2> QED
    BY <1>1, <2>2 DEF IInv, Families
<1> QED
  BY <1>1, ProcInvariant, PTL

(* sleep takes ptable.lock before it lets the lock of the condition go, so *)
(* whoever makes the condition true finds the sleeper asleep (proc.c:562). *)
THEOREM ProcNoLostWakeup == Spec => []NoLostWakeup
<1>1. IInv => NoLostWakeup
  BY DEF IInv
<1> QED
  BY <1>1, ProcInvariant, PTL

=============================================================================
