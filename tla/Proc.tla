-------------------------------- MODULE Proc --------------------------------
(***************************************************************************)
(* The life of processes (proc.c, trap.c): fork, exit, wait, kill, sleep,  *)
(* wakeup, yield and the round-robin scheduler of every CPU, which hands   *)
(* ptable.lock to the process it runs and gets it back from the process    *)
(* that stops.  A section under ptable.lock is one step, up to the swtch;  *)
(* everything the code does without that lock is a step of its own.        *)
(***************************************************************************)
EXTENDS Integers, FiniteSets

CONSTANTS CPU, NPROC,
          None,        \* the null pointer
          MaxPid,      \* bound: fork stops when nextpid passes it
          KillPids     \* the pids user programs pass to kill

ASSUME ProcAssumption == /\ NPROC \in Nat \ {0} /\ MaxPid \in Nat \ {0}
                         /\ None \notin CPU /\ None \notin Int

Slot == 0..NPROC-1     \* indices of ptable.proc, in the order loops visit them
initproc == 0
Dev == NPROC           \* a channel that is not a process: a pipe, a buffer, ticks

VARIABLES ptable,      \* slot -> state, pid, parent, chan, killed, kstack
          nextpid,
          lock,        \* the CPU that holds ptable.lock, or None
          devlock,     \* the CPU that holds the lock of Dev, or None
          ready,       \* the condition that processes sleep on Dev for
          cur,         \* CPU -> its process, or None while in the scheduler
          next,        \* CPU -> the scheduler's t
          left,        \* CPU -> NPROC - i, the slots its scan has still to visit
          pc,          \* slot -> where the process is in the kernel
          np           \* slot -> fork's np

vars == <<ptable, nextpid, lock, devlock, ready, cur, next, left, pc, np>>

State == {"UNUSED", "EMBRYO", "SLEEPING", "RUNNABLE", "RUNNING", "ZOMBIE"}
PC == {"user", "alloc", "copy", "publish", "wait", "block", "tosleep", "towake"}
Unused == [state |-> "UNUSED", pid |-> 0, parent |-> None, chan |-> None,
           killed |-> FALSE, kstack |-> FALSE]

(* userinit has made process 1; every CPU is about to enter the scheduler. *)
Init == /\ ptable = [p \in Slot |-> IF p = initproc
                       THEN [Unused EXCEPT !.state = "RUNNABLE", !.pid = 1, !.kstack = TRUE]
                       ELSE Unused]
        /\ nextpid = 2
        /\ lock = None /\ devlock = None /\ ready = FALSE
        /\ cur = [c \in CPU |-> None]
        /\ next = [c \in CPU |-> 0]
        /\ left = [c \in CPU |-> 0]
        /\ pc = [p \in Slot |-> "user"]
        /\ np = [p \in Slot |-> None]

-----------------------------------------------------------------------------
(* Process p runs on c at pc, and has let go of the lock it came with.     *)
At(c, p, at) == cur[c] = p /\ lock # c /\ pc[p] = at
Goto(p, at) == pc' = [pc EXCEPT ![p] = at]
Sched == <<cur, next, left>>

(* wakeup1(ch) on the table pt: every sleeper on ch becomes runnable.      *)
wakeup1(pt, ch) ==
  [p \in Slot |-> IF pt[p].state = "SLEEPING" /\ pt[p].chan = ch
                    THEN [pt[p] EXCEPT !.state = "RUNNABLE"] ELSE pt[p]]

(* sched(): the process leaves its CPU with ptable.lock held for it.       *)
Swtch(c) ==
  /\ cur[c] # None /\ lock = c /\ ptable[cur[c]].state # "RUNNING"
  /\ cur' = [cur EXCEPT ![c] = None]
  /\ UNCHANGED <<ptable, nextpid, lock, devlock, ready, next, left, pc, np>>

SchedAcquire(c) ==
  /\ cur[c] = None /\ lock = None
  /\ lock' = c
  /\ left' = [left EXCEPT ![c] = NPROC]
  /\ UNCHANGED <<ptable, nextpid, devlock, ready, cur, next, pc, np>>

(* The scan goes on from t, round the table, to the next RUNNABLE process. *)
Distance(c, p) == (p - next[c] + NPROC) % NPROC
InScan(c) == {p \in Slot : ptable[p].state = "RUNNABLE" /\ Distance(c, p) < left[c]}

(* Mistake: every scan begins at the first slot and ends at its process.   *)
PickLowest(c, p) ==
  /\ cur[c] = None /\ lock = c
  /\ p \in InScan(c) /\ \A q \in InScan(c) : p <= q
  /\ ptable' = [ptable EXCEPT ![p].state = "RUNNING"]
  /\ cur' = [cur EXCEPT ![c] = p]
  /\ UNCHANGED <<nextpid, lock, devlock, ready, next, left, pc, np>>

Pick(c, p) ==
  /\ cur[c] = None /\ lock = c
  /\ p \in InScan(c) /\ \A q \in InScan(c) : Distance(c, p) <= Distance(c, q)
  /\ ptable' = [ptable EXCEPT ![p].state = "RUNNING"]
  /\ cur' = [cur EXCEPT ![c] = p]
  /\ next' = [next EXCEPT ![c] = (p + 1) % NPROC]
  /\ left' = [left EXCEPT ![c] = @ - Distance(c, p) - 1]
  /\ UNCHANGED <<nextpid, lock, devlock, ready, pc, np>>


(* The scan has come round: ptable.lock is free for a moment.              *)
SchedRelease(c) ==
  /\ cur[c] = None /\ lock = c /\ InScan(c) = {}
  /\ lock' = None
  /\ next' = [next EXCEPT ![c] = (@ + left[c]) % NPROC]
  /\ left' = [left EXCEPT ![c] = 0]
  /\ UNCHANGED <<ptable, nextpid, devlock, ready, cur, pc, np>>

(* What the process does first when it runs again: yield, sleep and a new  *)
(* process's forkret release ptable.lock; wait goes on with it.            *)
Resume(c) ==
  /\ \E p \in Slot : /\ cur[c] = p /\ lock = c /\ ptable[p].state = "RUNNING"
                     /\ pc[p] # "wait"
                     /\ ptable' = [ptable EXCEPT ![p].chan = None]
  /\ lock' = None
  /\ UNCHANGED <<nextpid, devlock, ready, cur, next, left, pc, np>>


(* A timer interrupt, in user code or in kernel code that holds no lock,   *)
(* finds the quantum spent.  The model lets it be spent at any tick.  In   *)
(* user code a killed process exits instead.                               *)
Yield(c) ==
  /\ \E p \in Slot : /\ cur[c] = p /\ lock = None /\ devlock # c
                     /\ ~(pc[p] = "user" /\ ptable[p].killed)
                     /\ ptable' = [ptable EXCEPT ![p].state = "RUNNABLE"]
  /\ lock' = c
  /\ UNCHANGED <<nextpid, devlock, ready, cur, next, left, pc, np>>

-----------------------------------------------------------------------------
(* A system call, or a trap, of a process that has not been killed.        *)
Call(c, p) == At(c, p, "user") /\ ~ptable[p].killed

(* allocproc takes the first UNUSED slot under ptable.lock ...             *)
Fork(c, p) ==
  /\ Call(c, p) /\ lock = None /\ nextpid <= MaxPid
  /\ \E q \in Slot :
       /\ ptable[q].state = "UNUSED"
       /\ \A r \in Slot : r < q => ptable[r].state # "UNUSED"
       /\ ptable' = [ptable EXCEPT ![q].state = "EMBRYO", ![q].pid = nextpid]
       /\ np' = [np EXCEPT ![p] = q]
  /\ nextpid' = nextpid + 1
  /\ Goto(p, "alloc")
  /\ UNCHANGED <<lock, devlock, ready, Sched>>


(* ... and a stack for it without: kalloc may fail,                        *)
AllocStack(c, p) ==
  /\ At(c, p, "alloc")
  /\ ptable' = [ptable EXCEPT ![np[p]].kstack = TRUE]
  /\ Goto(p, "copy")
  /\ UNCHANGED <<nextpid, lock, devlock, ready, Sched, np>>

AllocFails(c, p) ==
  /\ At(c, p, "alloc")
  /\ ptable' = [ptable EXCEPT ![np[p]].state = "UNUSED"]
  /\ Goto(p, "user")
  /\ UNCHANGED <<nextpid, lock, devlock, ready, Sched, np>>

(* and so may copyuvm; otherwise fork fills in the child.                  *)
CopyProc(c, p) ==
  /\ At(c, p, "copy")
  /\ ptable' = [ptable EXCEPT ![np[p]].parent = p]
  /\ Goto(p, "publish")
  /\ UNCHANGED <<nextpid, lock, devlock, ready, Sched, np>>

CopyFails(c, p) ==
  /\ At(c, p, "copy")
  /\ ptable' = [ptable EXCEPT ![np[p]].kstack = FALSE, ![np[p]].state = "UNUSED"]
  /\ Goto(p, "user")
  /\ UNCHANGED <<nextpid, lock, devlock, ready, Sched, np>>

(* np->state = RUNNABLE, with no lock; the child starts at forkret.        *)
Publish(c, p) ==
  /\ At(c, p, "publish")
  /\ ptable' = [ptable EXCEPT ![np[p]].state = "RUNNABLE"]
  /\ pc' = [pc EXCEPT ![p] = "user", ![np[p]] = "user"]
  /\ UNCHANGED <<nextpid, lock, devlock, ready, Sched, np>>

Children(p) == {q \in Slot : ptable[q].parent = p}

(* Mistake: exit does not tell init of the zombies it inherits.            *)
ReparentQuietly(pt, p) ==
  [q \in Slot |-> IF q \in Children(p) THEN [pt[q] EXCEPT !.parent = initproc] ELSE pt[q]]

(* The table exit(p) leaves: children of p are init's, which is woken if   *)
(* one of them is a ZOMBIE already.                                        *)
Reparent(pt, p) ==
  LET moved == [q \in Slot |-> IF q \in Children(p) THEN [pt[q] EXCEPT !.parent = initproc]
                                                   ELSE pt[q]]
  IN  IF \E q \in Children(p) : pt[q].state = "ZOMBIE" THEN wakeup1(moved, initproc) ELSE moved

(* Mistake: ptable.lock is dropped before the swtch.                       *)
ExitUnlocked(c, p) ==
  /\ At(c, p, "user") /\ lock = None /\ p # initproc
  /\ ptable' = [Reparent(wakeup1(ptable, ptable[p].parent), p) EXCEPT ![p].state = "ZOMBIE"]
  /\ UNCHANGED <<nextpid, lock, devlock, ready, Sched, pc, np>>

Exit(c, p) ==
  /\ At(c, p, "user") /\ lock = None /\ p # initproc
  /\ ptable' = [Reparent(wakeup1(ptable, ptable[p].parent), p) EXCEPT ![p].state = "ZOMBIE"]
  /\ lock' = c
  /\ UNCHANGED <<nextpid, devlock, ready, Sched, pc, np>>

(* wait and wait2, from ptable.lock taken to its release or to the sleep.  *)
Zombies(p) == {q \in Children(p) : ptable[q].state = "ZOMBIE"}

Collect(p) ==
  /\ \E q \in Zombies(p) : /\ \A r \in Zombies(p) : q <= r
                          /\ ptable' = [ptable EXCEPT ![q] = [Unused EXCEPT !.chan = ptable[q].chan],
                                                      ![p].chan = None]
  /\ lock' = None /\ Goto(p, "user")

NobodyToCollect(p) ==
  /\ Zombies(p) = {} /\ (Children(p) = {} \/ ptable[p].killed)
  /\ ptable' = [ptable EXCEPT ![p].chan = None]
  /\ lock' = None /\ Goto(p, "user")

SleepInWait(c, p) ==
  /\ Zombies(p) = {} /\ Children(p) # {} /\ ~ptable[p].killed
  /\ ptable' = [ptable EXCEPT ![p].state = "SLEEPING", ![p].chan = p]
  /\ lock' = c /\ Goto(p, "wait")

Wait(c, p) ==
  /\ \/ Call(c, p) /\ lock = None
     \/ cur[c] = p /\ lock = c /\ ptable[p].state = "RUNNING" /\ pc[p] = "wait"
  /\ Collect(p) \/ NobodyToCollect(p) \/ SleepInWait(c, p)
  /\ UNCHANGED <<nextpid, devlock, ready, Sched, np>>

-----------------------------------------------------------------------------
(* Mistake: the condition is tested and its lock let go of before the      *)
(* sleep takes ptable.lock.                                                *)
BlockUnlocked(c, p) ==
  /\ Call(c, p) \/ At(c, p, "block")
  /\ devlock = None
  /\ \/ ready /\ ready' = FALSE /\ Goto(p, "user")
     \/ ~ready /\ ptable[p].killed /\ Goto(p, "user") /\ UNCHANGED ready
     \/ ~ready /\ ~ptable[p].killed /\ Goto(p, "tosleep") /\ UNCHANGED ready
  /\ UNCHANGED <<ptable, nextpid, lock, devlock, Sched, np>>

(* A call that sleeps until Dev is ready, the loop of piperead:            *)
(*     while(!ready){ if(proc->killed) return -1; sleep(Dev, &devlock); }  *)
Block(c, p) ==
  /\ Call(c, p) \/ At(c, p, "block")
  /\ devlock = None
  /\ \/ ready /\ ready' = FALSE /\ devlock' = None /\ Goto(p, "user")
     \/ ~ready /\ ptable[p].killed /\ Goto(p, "user") /\ UNCHANGED <<ready, devlock>>
     \/ ~ready /\ ~ptable[p].killed /\ devlock' = c /\ Goto(p, "tosleep") /\ UNCHANGED ready
  /\ UNCHANGED <<ptable, nextpid, lock, Sched, np>>

(* sleep(Dev, &devlock): ptable.lock is taken before devlock is released.  *)
Sleep(c, p) ==
  /\ At(c, p, "tosleep") /\ lock = None
  /\ lock' = c /\ devlock' = None
  /\ ptable' = [ptable EXCEPT ![p].state = "SLEEPING", ![p].chan = Dev]
  /\ Goto(p, "block")
  /\ UNCHANGED <<nextpid, ready, Sched, np>>

(* The other side: make Dev ready under its lock, then wakeup(Dev).        *)
Notify(c, p) ==
  /\ Call(c, p) /\ devlock = None
  /\ devlock' = c /\ ready' = TRUE
  /\ Goto(p, "towake")
  /\ UNCHANGED <<ptable, nextpid, lock, Sched, np>>

Wakeup(c, p) ==
  /\ At(c, p, "towake") /\ lock = None
  /\ ptable' = wakeup1(ptable, Dev)
  /\ devlock' = None
  /\ Goto(p, "user")
  /\ UNCHANGED <<nextpid, lock, ready, Sched, np>>

(* kill: the first slot with that pid, UNUSED slots and their 0 included.  *)
(* Mistake: kill marks the process but leaves it asleep.                   *)
KillQuietly(c, p, id) ==
  /\ Call(c, p) /\ lock = None
  /\ \E q \in Slot :
       /\ ptable[q].pid = id /\ \A r \in Slot : r < q => ptable[r].pid # id
       /\ ptable' = [ptable EXCEPT ![q].killed = TRUE]
  /\ UNCHANGED <<nextpid, lock, devlock, ready, Sched, pc, np>>

Kill(c, p, id) ==
  /\ Call(c, p) /\ lock = None
  /\ \E q \in Slot :
       /\ ptable[q].pid = id /\ \A r \in Slot : r < q => ptable[r].pid # id
       /\ ptable' = [ptable EXCEPT ![q].killed = TRUE,
                                   ![q].state = IF @ = "SLEEPING" THEN "RUNNABLE" ELSE @]
  /\ UNCHANGED <<nextpid, lock, devlock, ready, Sched, pc, np>>

Next ==
  \E c \in CPU :
    \/ Swtch(c) \/ SchedAcquire(c) \/ SchedRelease(c) \/ Resume(c) \/ Yield(c)
    \/ \E p \in Slot :
         \/ Pick(c, p) \/ Fork(c, p) \/ AllocStack(c, p) \/ AllocFails(c, p)
         \/ CopyProc(c, p) \/ CopyFails(c, p) \/ Publish(c, p) \/ Exit(c, p)
         \/ Wait(c, p) \/ Block(c, p) \/ Sleep(c, p) \/ Notify(c, p) \/ Wakeup(c, p)
         \/ \E id \in KillPids : Kill(c, p, id)

Spec == Init /\ [][Next]_vars

-----------------------------------------------------------------------------
Proc == [state: State, pid: 0..MaxPid, parent: Slot \cup {None},
         chan: Slot \cup {Dev, None}, killed: BOOLEAN, kstack: BOOLEAN]

TypeOK == /\ ptable \in [Slot -> Proc]
          /\ nextpid \in 2..MaxPid + 1
          /\ lock \in CPU \cup {None} /\ devlock \in CPU \cup {None}
          /\ ready \in BOOLEAN
          /\ cur \in [CPU -> Slot \cup {None}]
          /\ next \in [CPU -> Slot] /\ left \in [CPU -> 0..NPROC]
          /\ pc \in [Slot -> PC] /\ np \in [Slot -> Slot \cup {None}]

(* The scheduler never gives a process to two CPUs, and a RUNNING process  *)
(* has one: a process that stops is out of reach of the other CPUs'        *)
(* schedulers until its own CPU has left it (proc.c:388-390, 522-523).     *)
OneCpuEach ==
  /\ \A c, d \in CPU : cur[c] = cur[d] /\ cur[c] # None => c = d
  /\ \A p \in Slot : ptable[p].state = "RUNNING" => \E c \in CPU : cur[c] = p

(* wait frees the kernel stack of a ZOMBIE, and fork's failure that of an  *)
(* EMBRYO, never one a CPU still executes on (proc.c:219-220, 243).        *)
StackInUse == \A c \in CPU : cur[c] # None => ptable[cur[c]].kstack

(* Everyone who lives has a parent who lives, and can be waited for: exit  *)
(* passes its children to init (proc.c:206).                               *)
ParentAlive ==
  \A p \in Slot \ {initproc} :
    ptable[p].state \in {"RUNNABLE", "RUNNING", "SLEEPING", "ZOMBIE"} =>
      /\ ptable[p].parent \in Slot
      /\ ptable[ptable[p].parent].state \in {"RUNNABLE", "RUNNING", "SLEEPING"}

(* "Parent might be sleeping in wait()" (proc.c:203): no process sleeps in *)
(* wait with a ZOMBIE to collect or after it was killed, whoever exits     *)
(* first and whichever child init inherits.                                *)
WaitMissesNothing ==
  \A p \in Slot : ptable[p].state = "SLEEPING" /\ pc[p] = "wait" =>
    /\ Children(p) # {} /\ Zombies(p) = {}
    /\ ~ptable[p].killed

(* The two parts of each hazard: the CPUs that run processes and the       *)
(* stacks they run on; parents, and what becomes of their children.        *)
StacksAndCpus == TypeOK /\ OneCpuEach /\ StackInUse
Families == ParentAlive /\ WaitMissesNothing

(* "we can be guaranteed that we won't miss any wakeup" (proc.c:562): who  *)
(* sleeps while the condition holds is about to be woken.                  *)
NoLostWakeup ==
  ready => \A p \in Slot :
    ptable[p].state = "SLEEPING" /\ ptable[p].chan = Dev =>
      \E q \in Slot : pc[q] = "towake"


(* "Wake process from sleep if necessary" (proc.c:621): a killed process   *)
(* is not asleep.                                                          *)
KilledAwake == \A p \in Slot : ptable[p].killed => ptable[p].state # "SLEEPING"

-----------------------------------------------------------------------------
(* The clock keeps interrupting, code between two interrupts gets its      *)
(* work done however often it is preempted, and the scheduler's loop runs. *)
(* Only CPU 0 counts quanta down (trap.c:51), so Fairness is for one CPU.  *)
Scheduling(c) == Swtch(c) \/ SchedAcquire(c) \/ SchedRelease(c) \/ Resume(c)
                 \/ \E p \in Slot : Pick(c, p)
KernelWork(c, p) ==
  \/ AllocStack(c, p) \/ AllocFails(c, p) \/ CopyProc(c, p) \/ CopyFails(c, p)
  \/ Publish(c, p) \/ Sleep(c, p) \/ Wakeup(c, p)
  \/ pc[p] = "wait" /\ Wait(c, p)
  \/ pc[p] = "block" /\ Block(c, p)
  \/ ptable[p].killed /\ Exit(c, p)

Fairness ==
  \A c \in CPU : /\ WF_vars(Scheduling(c)) /\ SF_vars(Yield(c))
                 /\ \A p \in Slot : SF_vars(KernelWork(c, p))

FairSpec == Spec /\ Fairness

(* Round robin starves nobody: whoever is RUNNABLE runs (proc.c:373-395).  *)
RunnableRuns ==
  \A p \in Slot : ptable[p].state = "RUNNABLE" ~> ptable[p].state = "RUNNING"

(* "Process won't exit until it returns to user space" (proc.c:610), and   *)
(* then it does, out of any sleep.                                         *)
KilledDies ==
  \A p \in Slot : ptable[p].killed ~> ptable[p].state \in {"ZOMBIE", "UNUSED"}
=============================================================================
