---------------------------- MODULE SchedProofs -----------------------------
(***************************************************************************)
(* Sched's accounting and the order in which its policies let processes    *)
(* run, for every number of slots, every quantum and every bound of the    *)
(* clock.                                                                  *)
(***************************************************************************)
EXTENDS MCSchedFifo, WellFoundedInduction, TLAPS

(* No time of a slot is ahead of the clock, and none is ahead of what a    *)
(* scan takes for the current time; only 3Q gives priorities.              *)
SlotInv(s) ==
  /\ ptable[s].ctime <= ticks /\ ptable[s].rtime <= ticks
  /\ -ticks <= ptable[s].quanta /\ ptable[s].qvalue <= ticks
  /\ loop = "lock" => ptable[s].ctime <= now
  /\ SCHEDFLAG # "3Q" => ptable[s].priority \in {0, -1}
TimesInv == \A s \in Slot : SlotInv(s)

(* The process on the CPU is RUNNING.                                      *)
CpuInv == cur # None => loop = "run" /\ ptable[cur].state = "RUNNING"

(* The scheduler goes on only while its p is not past the table.           *)
PointerInv == loop # "wild" => p # NPROC

IInv == TypeOK /\ TimesInv /\ CpuInv /\ PointerInv /\ TailIsOwnChild /\ RanNoLongerThanLived

-----------------------------------------------------------------------------
LEMMA Sizes == NPROC \in Nat /\ NPROC > 0 /\ QUANTA \in Nat /\ QUANTA > 0 /\ MaxTicks \in Nat
BY SchedAssumption DEF SchedAssumption

LEMMA Names ==
  /\ initproc \in Slot /\ 0 \in Slot /\ NPROC \notin Slot
  /\ \A s \in Slot : s \in 0..NPROC /\ s \in Int
  /\ None \notin Slot /\ None # NPROC
  /\ \A s \in Slot, at \in {"ctime", "rest"} : <<s, at>> # None
BY Sizes, SchedAssumption DEF SchedAssumption, Slot, initproc

LEMMA Modulo == \A i \in Nat : i % NPROC \in Slot
BY Sizes DEF Slot

LEMMA Quotient == \A a \in Nat, d \in Nat : d > 0 => a \div d \in Nat /\ a \div d <= a
OBVIOUS

(* A function to the naturals has a smallest value.                        *)
LEMMA Smallest ==
  ASSUME NEW S, S # {}, NEW f \in [S -> Nat]
  PROVE  \E s \in S : \A r \in S : f[s] <= f[r]
<1> DEFINE R == OpToRel(<, Nat)
           T == {f[s] : s \in S}
<1>1. T # {} /\ T \subseteq Nat
  OBVIOUS
<1> HIDE DEF T
<1>2. PICK i \in T : \A j \in T : ~(<<j, i>> \in R)
  BY <1>1, NatLessThanWellFounded, WFMin
<1>3. ASSUME NEW j \in T PROVE i <= j
  <2>1. <<j, i>> \in Nat \X Nat /\ i \in Nat /\ j \in Nat
    BY <1>1
  <2>2. ~(j < i)
    BY <1>2, <2>1 DEF OpToRel
  <2> QED
    BY <2>1, <2>2
<1> QED
  BY <1>3 DEF T

LEMMA DistanceType == ASSUME t \in Slot, NEW s \in Slot PROVE Distance(s) \in 0..NPROC-1
<1>1. s - t + NPROC \in Nat
  BY Sizes DEF Slot
<1> QED
  BY <1>1, Modulo DEF Distance, Slot

(* Some slot of a set is the first the scan visits, and some the last.     *)
LEMMA FirstOf ==
  ASSUME t \in Slot, NEW S, S \subseteq Slot, S # {}
  PROVE  First(S) \in S
<1> DEFINE f == [s \in S |-> Distance(s)]
<1>1. f \in [S -> Nat]
  BY DistanceType, Sizes
<1> HIDE DEF f
<1>2. \E s \in S : \A r \in S : f[s] <= f[r]
  BY <1>1, Smallest
<1>3. \E s \in S : \A r \in S : Distance(s) <= Distance(r)
  BY <1>2 DEF f
<1> QED
  BY <1>3 DEF First

LEMMA LastOf ==
  ASSUME t \in Slot, NEW S, S \subseteq Slot, S # {}
  PROVE  Last(S) \in S
<1> DEFINE f == [s \in S |-> NPROC - Distance(s)]
<1>1. \A s \in S : Distance(s) \in 0..NPROC-1 /\ NPROC - Distance(s) \in Nat
  BY DistanceType, Sizes
<1>2. f \in [S -> Nat]
  BY <1>1
<1> HIDE DEF f
<1>3. PICK s \in S : \A r \in S : f[s] <= f[r]
  BY <1>2, Smallest
<1>4. ASSUME NEW r \in S PROVE Distance(r) <= Distance(s)
  BY <1>1, <1>3, Sizes DEF f
<1>5. \E x \in S : \A r \in S : Distance(r) <= Distance(x)
  BY <1>4
<1> QED
  BY <1>5 DEF Last

(* The running minimum is one of the slots it runs over, and, when none of *)
(* them has 0, one whose value is least.                                   *)
LEMMA LeastOf ==
  ASSUME t \in Slot, NEW S, S \subseteq Slot, S # {}, NEW q \in [Slot -> Nat]
  PROVE  /\ Least(S, q) \in S
         /\ (\A s \in S : q[s] # 0) => \A s \in S : q[Least(S, q)] <= q[s]
<1> DEFINE counted == {s \in S : \A r \in S : q[r] = 0 => Distance(r) < Distance(s)}
           lowest == {s \in counted : \A r \in counted : q[s] <= q[r]}
<1>1. counted \subseteq S /\ ((\A s \in S : q[s] # 0) => counted = S)
  OBVIOUS
<1>2. Least(S, q) = IF counted = {} THEN Last(S) ELSE First(lowest)
  BY DEF Least
<1> HIDE DEF counted
<1>3. CASE counted = {}
  BY <1>1, <1>2, <1>3, LastOf
<1>4. CASE counted # {}
  <2> DEFINE f == [s \in counted |-> q[s]]
  <2>1. f \in [counted -> Nat]
    BY <1>1
  <2> HIDE DEF f
  <2>2. \E s \in counted : \A r \in counted : f[s] <= f[r]
    BY <1>4, <2>1, Smallest
  <2>3. lowest # {} /\ lowest \subseteq Slot
    BY <1>1, <2>2 DEF f
  <2>4. First(lowest) \in lowest
    BY <2>3, FirstOf
  <2> QED
    BY <1>1, <1>2, <1>4, <2>4
<1> QED
  BY <1>3, <1>4

-----------------------------------------------------------------------------
(* A slot's record, one field of it changed.                               *)
LEMMA ProcFacts ==
  ASSUME NEW r \in Proc
  PROVE  /\ r.state \in State /\ r.parent \in Slot \cup {None}
         /\ r.ctime \in 0..MaxTicks /\ r.etime \in 0..MaxTicks /\ r.rtime \in 0..MaxTicks
         /\ r.quanta \in -MaxTicks..QUANTA /\ r.priority \in Level /\ r.qvalue \in 0..MaxTicks
BY DEF Proc

LEMMA ProcUpdates ==
  ASSUME NEW r \in Proc
  PROVE  /\ \A x \in State : [r EXCEPT !.state = x] \in Proc
         /\ \A x \in Slot \cup {None} : [r EXCEPT !.parent = x] \in Proc
         /\ \A x \in 0..MaxTicks : [r EXCEPT !.ctime = x] \in Proc
         /\ \A x \in 0..MaxTicks : [r EXCEPT !.etime = x] \in Proc
         /\ \A x \in 0..MaxTicks : [r EXCEPT !.rtime = x] \in Proc
         /\ \A x \in -MaxTicks..QUANTA : [r EXCEPT !.quanta = x] \in Proc
         /\ \A x \in Level : [r EXCEPT !.priority = x] \in Proc
         /\ \A x \in 0..MaxTicks : [r EXCEPT !.qvalue = x] \in Proc
<1>1. \A x \in State : [r EXCEPT !.state = x] \in Proc
  BY DEF Proc
<1>2. \A x \in Slot \cup {None} : [r EXCEPT !.parent = x] \in Proc
  BY DEF Proc
<1>3. \A x \in 0..MaxTicks : [r EXCEPT !.ctime = x] \in Proc
  BY DEF Proc
<1>4. \A x \in 0..MaxTicks : [r EXCEPT !.etime = x] \in Proc
  BY DEF Proc
<1>5. \A x \in 0..MaxTicks : [r EXCEPT !.rtime = x] \in Proc
  BY DEF Proc
<1>6. \A x \in -MaxTicks..QUANTA : [r EXCEPT !.quanta = x] \in Proc
  BY DEF Proc
<1>7. \A x \in Level : [r EXCEPT !.priority = x] \in Proc
  BY DEF Proc
<1>8. \A x \in 0..MaxTicks : [r EXCEPT !.qvalue = x] \in Proc
  BY DEF Proc
<1> QED
  BY <1>1, <1>2, <1>3, <1>4, <1>5, <1>6, <1>7, <1>8

LEMMA TypesOfSlots ==
  ASSUME TypeOK
  PROVE  \A s \in Slot : /\ ptable[s] \in Proc /\ ptable[s].state \in State
                         /\ ptable[s].parent \in Slot \cup {None}
                         /\ ptable[s].ctime \in Nat /\ ptable[s].rtime \in Nat
                         /\ ptable[s].qvalue \in Nat /\ ptable[s].quanta \in Int
                         /\ ptable[s].priority \in Level
<1>1. \A s \in Slot : ptable[s] \in Proc
  BY DEF TypeOK
<1> QED
  BY <1>1, ProcFacts, Sizes

LEMMA Clock ==
  ASSUME TypeOK
  PROVE  /\ ticks \in Nat /\ ticks <= MaxTicks /\ ticks \in 0..MaxTicks
         /\ now \in Nat /\ now <= ticks
         /\ left \in 0..NPROC /\ t \in Slot
BY Sizes DEF TypeOK

-----------------------------------------------------------------------------
(* What most steps leave of a slot: they change no time of a process, let  *)
(* none live again, and leave alone a child whose fork is not complete.    *)
Alive == {"RUNNABLE", "RUNNING", "SLEEPING"}
Kept(s) ==
  /\ ptable'[s].ctime = ptable[s].ctime /\ ptable'[s].rtime = ptable[s].rtime
  /\ -ticks <= ptable'[s].quanta /\ ptable'[s].qvalue <= ticks
  /\ SCHEDFLAG # "3Q" => ptable'[s].priority \in {0, -1}
  /\ ptable'[s].state \in Alive => ptable[s].state \in Alive
  /\ ~Complete(s) => ptable'[s].state # "UNUSED" /\ ptable'[s].parent = ptable[s].parent

LEMMA KeptStep ==
  ASSUME IInv, UNCHANGED <<SCHEDFLAG, ticks, tail>>, loop' = "lock" => loop = "lock" /\ now' = now,
         \A s \in Slot : Kept(s)
  PROVE  TimesInv' /\ TailIsOwnChild' /\ RanNoLongerThanLived'
<1>1. TimesInv'
  BY DEF IInv, TimesInv, SlotInv, Kept
<1>2. TailIsOwnChild'
  <2>1. \A s, q \in Slot : tail[s] # None /\ tail[s][1] = q => ~Complete(q)
    BY DEF Complete
  <2> QED
    BY <2>1 DEF IInv, TailIsOwnChild, Kept
<1>3. RanNoLongerThanLived'
  BY DEF IInv, RanNoLongerThanLived, Complete, Kept, Alive
<1> QED
  BY <1>1, <1>2, <1>3

LEMMA KeptSame == IInv => \A s \in Slot : ptable'[s] = ptable[s] => Kept(s)
<1> SUFFICES ASSUME IInv, NEW s \in Slot, ptable'[s] = ptable[s] PROVE Kept(s)
  OBVIOUS
<1>1. ~Complete(s) => ptable[s].state # "UNUSED"
  BY DEF IInv, TailIsOwnChild, Complete
<1> QED
  BY <1>1 DEF IInv, TimesInv, SlotInv, Kept

(* Only the parent is in the way of completing a fork; the child is not free. *)
LEMMA ChildOf ==
  ASSUME IInv, NEW q \in Slot, ~Complete(q)
  PROVE  /\ ptable[q].state # "UNUSED" /\ ptable[q].parent \in Slot
         /\ tail[ptable[q].parent] # None
BY DEF IInv, TailIsOwnChild, Complete

LEMMA InitInv == Init => IInv
<1> SUFFICES ASSUME Init PROVE IInv
  OBVIOUS
<1>1. Unused \in Proc
  BY Sizes DEF Unused, Proc, State, Level, HIGH
<1>2. [Unused EXCEPT !.state = "RUNNABLE"] \in Proc
  BY <1>1, ProcUpdates DEF State
<1>3. \A s \in Slot : ptable[s] \in {Unused, [Unused EXCEPT !.state = "RUNNABLE"]}
  BY DEF Init
<1>4. \A s \in Slot : /\ ptable[s] \in Proc /\ ptable[s].ctime = 0 /\ ptable[s].rtime = 0
                      /\ ptable[s].quanta = 0 /\ ptable[s].qvalue = 0 /\ ptable[s].priority = 0
  BY <1>1, <1>2, <1>3 DEF Unused
<1>5. TypeOK
  <2>1. ptable \in [Slot -> Proc]
    BY <1>4 DEF Init
  <2> QED
    BY <2>1, Sizes, Names DEF Init, TypeOK
<1>6. TimesInv
  BY <1>4, Sizes DEF Init, TimesInv, SlotInv
<1>7. TailIsOwnChild /\ CpuInv /\ PointerInv
  BY Names DEF Init, TailIsOwnChild, CpuInv, PointerInv
<1>8. RanNoLongerThanLived
  BY <1>4 DEF Init, RanNoLongerThanLived
<1> QED
  BY <1>5, <1>6, <1>7, <1>8 DEF IInv

LEMMA StepSample == ASSUME IInv, Sample, UNCHANGED SCHEDFLAG PROVE IInv'
<1>1. /\ loop = "sample" /\ now' = ticks /\ left' = NPROC /\ loop' = "lock"
      /\ UNCHANGED <<ptable, ticks, cur, p, tail>>
      /\ head' = IF head # None /\ p = head THEN head + 1 ELSE head
      /\ t' = IF head' # None THEN head' % NPROC ELSE t
  BY DEF Sample
<1>2. p # NPROC
  BY <1>1 DEF IInv, PointerInv
<1>3. head' \in 0..NPROC \cup {None}
  BY <1>1, <1>2, Sizes DEF IInv, TypeOK
<1>4. t' \in Slot
  <2>1. head' # None => head' \in Nat
    BY <1>3, Sizes
  <2>2. t \in Slot
    BY DEF IInv, TypeOK
  <2> QED
    BY <1>1, <2>1, <2>2, Modulo
<1>5. TypeOK'
  BY <1>1, <1>3, <1>4, Sizes DEF IInv, TypeOK
<1>6. TimesInv'
  BY <1>1 DEF IInv, TimesInv, SlotInv
<1>7. TailIsOwnChild' /\ RanNoLongerThanLived' /\ PointerInv'
  BY <1>1, <1>2 DEF IInv, TailIsOwnChild, RanNoLongerThanLived, Complete, PointerInv
<1>8. CpuInv'
  BY <1>1 DEF IInv, CpuInv
<1> QED
  BY <1>5, <1>6, <1>7, <1>8 DEF IInv

-----------------------------------------------------------------------------
(* What a scan sees, and what it may choose.                               *)
LEMMA Seen ==
  ASSUME TypeOK
  PROVE  /\ FRRSeen = {s \in Slot : /\ ptable[s].state = "RUNNABLE"
                                    /\ \/ SCHEDFLAG = "FRR"
                                       \/ SCHEDFLAG = "3Q" /\ ptable[s].priority = MEDIUM}
         /\ GRTSeen = {s \in Slot : /\ ptable[s].state = "RUNNABLE"
                                    /\ \/ SCHEDFLAG = "GRT"
                                       \/ SCHEDFLAG = "3Q" /\ ptable[s].priority \in {HIGH, 0}}
         /\ LowSeen = {s \in Slot : /\ ptable[s].state = "RUNNABLE"
                                    /\ SCHEDFLAG = "3Q" /\ ptable[s].priority = LOW}
<1>1. \A s \in Slot : ptable[s].priority \in Level
  BY TypesOfSlots
<1> QED
  BY <1>1 DEF FRRSeen, GRTSeen, LowSeen, Runnable

LEMMA RatioType ==
  ASSUME IInv, loop = "lock", NEW s \in Slot
  PROVE  Ratio[s] \in Nat /\ Ratio[s] <= ticks
<1>1. /\ ptable[s].ctime \in Nat /\ ptable[s].rtime \in Nat /\ ptable[s].qvalue \in Nat
      /\ ticks \in Nat /\ now \in Nat
  BY TypesOfSlots, Clock DEF IInv
<1>2. ptable[s].ctime <= now /\ ptable[s].rtime <= ticks /\ ptable[s].qvalue <= ticks
  BY DEF IInv, TimesInv, SlotInv
<1>3. Ratio[s] = IF ptable[s].ctime # now
                 THEN ptable[s].rtime \div (now - ptable[s].ctime) ELSE ptable[s].qvalue
  BY DEF Ratio
<1>4. CASE ptable[s].ctime # now
  <2>1. now - ptable[s].ctime \in Nat /\ now - ptable[s].ctime > 0
    BY <1>1, <1>2, <1>4
  <2> DEFINE a == ptable[s].rtime
             b == now - ptable[s].ctime
  <2>2. a \in Nat /\ b \in Nat /\ b > 0 /\ a <= ticks
    BY <1>1, <1>2, <2>1
  <2>3. Ratio[s] = a \div b
    BY <1>3, <1>4
  <2> HIDE DEF a, b
  <2>4. a \div b \in Nat /\ a \div b <= a
    BY <2>2, Quotient
  <2> QED
    BY <1>1, <2>2, <2>3, <2>4
<1> QED
  BY <1>1, <1>2, <1>3, <1>4

LEMMA QueueAndRatio ==
  ASSUME IInv, loop = "lock"
  PROVE  Queue \in [Slot -> Nat] /\ Ratio \in [Slot -> Nat]
<1>1. \A s \in Slot : ptable[s].qvalue \in Nat
  BY TypesOfSlots DEF IInv
<1>2. Ratio = [s \in Slot |-> Ratio[s]]
  BY DEF Ratio
<1> QED
  BY <1>1, <1>2, RatioType DEF Queue

LEMMA HighAndMedium ==
  ASSUME IInv, loop = "lock"
  PROVE  (GRTSeen # {} => high \in GRTSeen) /\ (FRRSeen # {} => medium \in FRRSeen)
<1>1. GRTSeen \subseteq Slot /\ FRRSeen \subseteq Slot /\ t \in Slot
  BY Seen DEF IInv, TypeOK
<1> QED
  BY <1>1, QueueAndRatio, LeastOf DEF high, medium

LEMMA ScannedSlot ==
  ASSUME IInv, loop = "lock", NEW s \in Slot
  PROVE  /\ Scanned[s] \in Proc /\ Scanned[s].quanta \in {ptable[s].quanta, QUANTA}
         /\ Scanned[s].qvalue = (IF s \in GRTSeen THEN Ratio[s] ELSE ptable[s].qvalue)
         /\ Scanned[s].state = ptable[s].state /\ Scanned[s].parent = ptable[s].parent
         /\ Scanned[s].ctime = ptable[s].ctime /\ Scanned[s].rtime = ptable[s].rtime
         /\ Scanned[s].priority = ptable[s].priority
<1> DEFINE k == IF s \in FRRSeen \/ (LowSeen # {} /\ s = First(LowSeen)) THEN QUANTA
                ELSE ptable[s].quanta
           v == IF s \in GRTSeen THEN Ratio[s] ELSE ptable[s].qvalue
<1>1. ptable[s] \in Proc
  BY DEF IInv, TypeOK
<1>2. k \in -MaxTicks..QUANTA /\ k \in {ptable[s].quanta, QUANTA}
  BY <1>1, ProcFacts, Sizes
<1>3. v \in 0..MaxTicks
  BY <1>1, ProcFacts, RatioType, Clock, Sizes DEF IInv
<1>4. Scanned[s] = [ptable[s] EXCEPT !.quanta = k, !.qvalue = v]
  BY DEF Scanned
<1> HIDE DEF k
<1>5. v = IF s \in GRTSeen THEN Ratio[s] ELSE ptable[s].qvalue
  OBVIOUS
<1> HIDE DEF v
<1>6. [ptable[s] EXCEPT !.quanta = k] \in Proc
  BY <1>1, <1>2, ProcUpdates
<1>7. [[ptable[s] EXCEPT !.quanta = k] EXCEPT !.qvalue = v] \in Proc
  BY <1>3, <1>6, ProcUpdates
<1>8. Scanned[s] = [[ptable[s] EXCEPT !.quanta = k] EXCEPT !.qvalue = v]
  BY <1>4
<1> QED
  BY <1>1, <1>2, <1>5, <1>7, <1>8 DEF Proc

LEMMA StepPick == ASSUME IInv, Pick, UNCHANGED SCHEDFLAG PROVE IInv'
<1>1. /\ loop = "lock" /\ p # NPROC /\ left' = 0 /\ now' = 0 /\ UNCHANGED <<ticks, t, tail>>
      /\ head' = IF LowSeen # {} THEN First(LowSeen) ELSE head
      /\ p' \in Chosen(head')
      /\ \/ /\ p' \in Slot /\ ptable[p'].state = "RUNNABLE" /\ cur' = p' /\ loop' = "run"
            /\ ptable' = [Scanned EXCEPT ![p'].state = "RUNNING"]
         \/ /\ ~(p' \in Slot /\ ptable[p'].state = "RUNNABLE") /\ cur' = None
            /\ loop' = (IF p' = NPROC /\ p' # p THEN "wild" ELSE "sample") /\ ptable' = Scanned
  BY DEF Pick, IInv, PointerInv
<1>2. head' \in 0..NPROC \cup {None}
  <2>1. LowSeen # {} => First(LowSeen) \in Slot
    BY Seen, FirstOf DEF IInv, TypeOK
  <2> QED
    BY <1>1, <2>1, Names DEF IInv, TypeOK
<1>3. p' \in 0..NPROC \cup {None}
  <2>1. p' \in {p, head'} \cup Slot
    BY <1>1, HighAndMedium, Seen, Names DEF Chosen, IInv
  <2> QED
    BY <1>2, <2>1, Names DEF IInv, TypeOK
<1>4. \A s \in Slot : /\ ptable'[s] = Scanned[s] \/ ptable'[s] = [Scanned[s] EXCEPT !.state = "RUNNING"]
                      /\ ptable'[s] # Scanned[s] => ptable[s].state = "RUNNABLE"
  BY <1>1 DEF Scanned
<1>5. \A s \in Slot : ptable'[s] \in Proc /\ Kept(s)
  <2> SUFFICES ASSUME NEW s \in Slot PROVE ptable'[s] \in Proc /\ Kept(s)
    OBVIOUS
  <2>1. Scanned[s] \in Proc /\ [Scanned[s] EXCEPT !.state = "RUNNING"] \in Proc
    BY <1>1, ScannedSlot, ProcUpdates DEF State
  <2>2. /\ ptable'[s].ctime = Scanned[s].ctime /\ ptable'[s].rtime = Scanned[s].rtime
        /\ ptable'[s].quanta = Scanned[s].quanta /\ ptable'[s].qvalue = Scanned[s].qvalue
        /\ ptable'[s].priority = Scanned[s].priority /\ ptable'[s].parent = Scanned[s].parent
        /\ ptable'[s].state \in {Scanned[s].state, "RUNNING"}
    BY <1>4, <2>1 DEF Proc
  <2>3. -ticks <= ptable'[s].quanta /\ ptable'[s].qvalue <= ticks
    <3>1. /\ -ticks <= ptable[s].quanta /\ ptable[s].qvalue <= ticks
          /\ ticks \in Nat /\ Ratio[s] <= ticks
      BY <1>1, RatioType, Clock DEF IInv, TimesInv, SlotInv
    <3> QED
      BY <1>1, <2>2, <3>1, ScannedSlot, Sizes
  <2>4. ptable'[s].state \in Alive => ptable[s].state \in Alive
    BY <1>1, <1>4, ScannedSlot DEF Alive
  <2>5. ~Complete(s) => ptable'[s].state # "UNUSED"
    BY <1>1, <2>2, ScannedSlot, ChildOf
  <2> QED
    BY <1>1, <1>4, <2>1, <2>2, <2>3, <2>4, <2>5, ScannedSlot DEF Kept, IInv, TimesInv, SlotInv
<1>6. TypeOK'
  <2>1. ptable' \in [Slot -> Proc]
    <3>1. ptable' = [s \in Slot |-> ptable'[s]]
      BY <1>1 DEF Scanned
    <3> QED
      BY <1>5, <3>1
  <2> QED
    BY <1>1, <1>2, <1>3, <2>1, Sizes DEF IInv, TypeOK
<1>7. TimesInv' /\ TailIsOwnChild' /\ RanNoLongerThanLived'
  <2>1. loop' # "lock"
    BY <1>1
  <2> QED
    BY <1>1, <1>5, <2>1, KeptStep
<1>8. CpuInv'
  <2>1. CASE cur' # None
    <3>1. /\ p' \in Slot /\ cur' = p' /\ loop' = "run"
          /\ ptable'[p'] = [Scanned[p'] EXCEPT !.state = "RUNNING"]
      BY <1>1, <2>1 DEF Scanned
    <3>2. Scanned[p'] \in Proc
      BY <1>1, <3>1, ScannedSlot
    <3>3. ptable'[p'].state = "RUNNING"
      BY <3>1, <3>2 DEF Proc
    <3> QED
      BY <3>1, <3>3 DEF CpuInv
  <2> QED
    BY <2>1 DEF CpuInv
<1>9. PointerInv'
  BY <1>1, Names DEF PointerInv
<1> QED
  BY <1>6, <1>7, <1>8, <1>9 DEF IInv

LEMMA StepPickRR == ASSUME IInv, PickRR \/ EndRR, UNCHANGED SCHEDFLAG PROVE IInv'
<1>1. CASE PickRR
  <2>1. PICK s \in InScan :
          /\ p' = s /\ cur' = s /\ loop' = "run" /\ now' = 0 /\ UNCHANGED <<ticks, head, tail>>
          /\ ptable' = [ptable EXCEPT ![s].state = "RUNNING", ![s].quanta = QUANTA]
          /\ t' = (s + 1) % NPROC /\ left' = left - Distance(s) - 1
    BY <1>1 DEF PickRR
  <2>2. s \in Slot /\ ptable[s].state = "RUNNABLE" /\ Distance(s) < left
    BY DEF InScan
  <2>3. t' \in Slot /\ left' \in 0..NPROC
    <3>1. s + 1 \in Nat
      BY <2>2, Names DEF Slot
    <3>2. Distance(s) \in 0..NPROC-1 /\ left \in 0..NPROC
      BY <2>2, DistanceType, Clock DEF IInv
    <3>3. left - Distance(s) - 1 \in 0..NPROC
      BY <2>2, <3>2, Sizes
    <3> QED
      BY <2>1, <3>1, <3>3, Modulo
  <2>4. ptable[s] \in Proc
    BY <2>2 DEF IInv, TypeOK
  <2>5. [ptable[s] EXCEPT !.state = "RUNNING"] \in Proc
    BY <2>4, ProcUpdates DEF State
  <2>6. [[ptable[s] EXCEPT !.state = "RUNNING"] EXCEPT !.quanta = QUANTA] \in Proc
    <3>1. QUANTA \in -MaxTicks..QUANTA
      BY Sizes
    <3> QED
      BY <2>5, <3>1, ProcUpdates
  <2>7. ptable'[s] = [[ptable[s] EXCEPT !.state = "RUNNING"] EXCEPT !.quanta = QUANTA]
    BY <2>1, <2>2, <2>4 DEF IInv, TypeOK
  <2>8. \A r \in Slot : r # s => ptable'[r] = ptable[r]
    BY <2>1, <2>2 DEF IInv, TypeOK
  <2>9. ptable' \in [Slot -> Proc]
    BY <2>1, <2>2, <2>6, <2>7, <2>8 DEF IInv, TypeOK
  <2>10. /\ ptable'[s].state = "RUNNING" /\ ptable'[s].quanta = QUANTA
         /\ ptable'[s].parent = ptable[s].parent /\ ptable'[s].priority = ptable[s].priority
         /\ ptable'[s].ctime = ptable[s].ctime /\ ptable'[s].rtime = ptable[s].rtime
         /\ ptable'[s].qvalue = ptable[s].qvalue
    BY <2>4, <2>5, <2>7 DEF Proc
  <2>11. Kept(s)
    <3>1. -ticks <= QUANTA
      BY Clock, Sizes DEF IInv
    <3> QED
      BY <2>2, <2>10, <3>1 DEF Kept, Alive, IInv, TimesInv, SlotInv
  <2>12. \A r \in Slot : Kept(r)
    BY <2>8, <2>11, KeptSame
  <2>13. TimesInv' /\ TailIsOwnChild' /\ RanNoLongerThanLived'
    <3>1. loop' # "lock"
      BY <2>1
    <3> QED
      BY <2>1, <2>12, <3>1, KeptStep
  <2>14. TypeOK'
    BY <2>1, <2>2, <2>3, <2>9, Names, Clock DEF IInv, TypeOK
  <2>15. CpuInv' /\ PointerInv'
    BY <2>1, <2>2, <2>10, Names DEF CpuInv, PointerInv
  <2> QED
    BY <2>13, <2>14, <2>15 DEF IInv
<1>2. CASE EndRR
  <2>1. /\ loop \in {"lock", "scan"} /\ t' = (t + left) % NPROC /\ left' = 0
        /\ loop' = "sample" /\ now' = 0 /\ UNCHANGED <<ptable, ticks, cur, p, head, tail>>
    BY <1>2 DEF EndRR, Pointers
  <2>2. t' \in Slot /\ left' \in 0..NPROC
    <3>1. t + left \in Nat
      BY Clock, Names, Sizes DEF IInv, Slot
    <3> QED
      BY <2>1, <3>1, Modulo, Sizes
  <2>3. TypeOK'
    BY <2>1, <2>2, Clock DEF IInv, TypeOK
  <2>4. TimesInv' /\ TailIsOwnChild' /\ RanNoLongerThanLived'
    BY <2>1, KeptSame, KeptStep
  <2>5. CpuInv' /\ PointerInv'
    BY <2>1 DEF IInv, CpuInv, PointerInv
  <2> QED
    BY <2>3, <2>4, <2>5 DEF IInv
<1> QED
  BY <1>1, <1>2

(* A tick of the clock on the process that runs.                           *)
LEMMA TickOnCpu ==
  ASSUME IInv, Tick, UNCHANGED SCHEDFLAG, cur # None
  PROVE  /\ cur \in Slot /\ loop = "run" /\ ptable[cur].state = "RUNNING"
         /\ ticks' = ticks + 1 /\ ticks' \in 0..MaxTicks /\ UNCHANGED <<now, t, left, p, head, tail>>
         /\ ptable' \in [Slot -> Proc]
         /\ \A s \in Slot : s # cur => ptable'[s] = ptable[s]
         /\ ptable'[cur].ctime = ptable[cur].ctime
         /\ ptable'[cur].rtime = ptable[cur].rtime + 1
         /\ ptable'[cur].quanta = ptable[cur].quanta - 1
         /\ ptable'[cur].priority = ptable[cur].priority
         /\ ptable'[cur].parent = ptable[cur].parent
         /\ \/ /\ ptable'[cur].state = "RUNNING" /\ UNCHANGED <<cur, loop>>
               /\ ptable'[cur].qvalue = ptable[cur].qvalue
            \/ /\ ptable'[cur].state = "RUNNABLE" /\ cur' = None /\ loop' \in {"scan", "sample"}
               /\ ptable'[cur].qvalue = IF Stamped(cur) THEN ticks + 1 ELSE ptable[cur].qvalue
<1> DEFINE q == ptable[cur].quanta - 1
           run == [ptable EXCEPT ![cur].rtime = @ + 1, ![cur].quanta = q]
           v == IF Stamped(cur) THEN ticks + 1 ELSE ptable[cur].qvalue
           left1 == [ptable EXCEPT ![cur].rtime = @ + 1, ![cur].quanta = q,
                                   ![cur].state = "RUNNABLE", ![cur].qvalue = v]
<1>1. /\ ticks < MaxTicks /\ ticks' = ticks + 1 /\ UNCHANGED <<now, t, left, p, head, tail>>
      /\ \/ ptable' = run /\ UNCHANGED <<cur, loop>>
         \/ /\ ptable' = [run EXCEPT ![cur].state = "RUNNABLE", ![cur].qvalue = v]
            /\ cur' = None /\ loop' \in {"scan", "sample"}
  BY DEF Tick, Leave, Pointers
<1>2. cur \in Slot /\ loop = "run" /\ ptable[cur].state = "RUNNING" /\ ptable \in [Slot -> Proc]
  BY DEF IInv, TypeOK, CpuInv
<1>3. ptable[cur] \in Proc /\ ptable[cur].rtime \in Nat /\ ptable[cur].quanta \in -MaxTicks..QUANTA
                           /\ ptable[cur].qvalue \in 0..MaxTicks
  BY <1>2, ProcFacts, Sizes
<1>4. ticks' \in 0..MaxTicks /\ ticks \in Nat
  BY <1>1, Clock, Sizes DEF IInv
<1>5. ptable[cur].rtime + 1 \in 0..MaxTicks /\ q \in -MaxTicks..QUANTA /\ v \in 0..MaxTicks
  <2>1. ptable[cur].rtime <= ticks /\ -ticks <= ptable[cur].quanta
    BY <1>2 DEF IInv, TimesInv, SlotInv
  <2> QED
    BY <1>1, <1>3, <1>4, <2>1, Sizes
<1> DEFINE r1 == [ptable[cur] EXCEPT !.rtime = ptable[cur].rtime + 1]
           r2 == [r1 EXCEPT !.quanta = q]
           r3 == [r2 EXCEPT !.state = "RUNNABLE"]
           r4 == [r3 EXCEPT !.qvalue = v]
<1>6. r1 \in Proc
  BY <1>3, <1>5, ProcUpdates
<1>7. r2 \in Proc
  <2> HIDE DEF r1, q
  <2> QED
    BY <1>5, <1>6, ProcUpdates
<1>8. r3 \in Proc
  <2> HIDE DEF r2
  <2> QED
    BY <1>7, ProcUpdates DEF State
<1>9. r4 \in Proc
  <2> HIDE DEF r3, v
  <2> QED
    BY <1>5, <1>8, ProcUpdates
<1>10. run = [ptable EXCEPT ![cur] = r2]
  BY <1>2, <1>3
<1>11. [run EXCEPT ![cur].state = "RUNNABLE", ![cur].qvalue = v] = [ptable EXCEPT ![cur] = r4]
  <2> HIDE DEF run, r2, v
  <2>1. run[cur] = r2 /\ run \in [Slot -> Proc]
    BY <1>2, <1>7, <1>10
  <2>2. [run EXCEPT ![cur].state = "RUNNABLE", ![cur].qvalue = v] = [run EXCEPT ![cur] = r4]
    BY <1>2, <2>1
  <2> HIDE DEF r4
  <2> QED
    BY <1>2, <1>10, <2>2
<1>12. /\ r2.state = ptable[cur].state /\ r2.ctime = ptable[cur].ctime
       /\ r2.rtime = ptable[cur].rtime + 1 /\ r2.quanta = q
       /\ r2.priority = ptable[cur].priority /\ r2.parent = ptable[cur].parent
       /\ r2.qvalue = ptable[cur].qvalue
  BY <1>3, <1>6 DEF Proc
<1>13. /\ r4.state = "RUNNABLE" /\ r4.ctime = r2.ctime /\ r4.rtime = r2.rtime
       /\ r4.quanta = r2.quanta /\ r4.priority = r2.priority /\ r4.parent = r2.parent
       /\ r4.qvalue = v
  <2> HIDE DEF r2, v
  <2> QED
    BY <1>7, <1>8 DEF Proc
<1> HIDE DEF run, r2, r4
<1>14. CASE ptable' = run /\ UNCHANGED <<cur, loop>>
  BY <1>1, <1>2, <1>4, <1>7, <1>10, <1>12, <1>14
<1>15. CASE /\ ptable' = [run EXCEPT ![cur].state = "RUNNABLE", ![cur].qvalue = v]
            /\ cur' = None /\ loop' \in {"scan", "sample"}
  BY <1>1, <1>2, <1>4, <1>9, <1>11, <1>12, <1>13, <1>15
<1> QED
  BY <1>1, <1>14, <1>15

LEMMA StepTick == ASSUME IInv, Tick, UNCHANGED SCHEDFLAG PROVE IInv'
<1>1. CASE cur = None
  <2>1. /\ ticks < MaxTicks /\ ticks' = ticks + 1 /\ UNCHANGED <<ptable, cur, loop>>
        /\ UNCHANGED <<now, t, left, p, head, tail>>
    BY <1>1 DEF Tick, Pointers
  <2>2. ticks \in Nat /\ ticks' \in 0..MaxTicks /\ now \in Nat /\ now <= ticks
    BY <2>1, Clock, Sizes DEF IInv
  <2>3. TypeOK'
    <3>1. now' \in 0..ticks'
      BY <2>1, <2>2
    <3> QED
      BY <2>1, <2>2, <3>1 DEF IInv, TypeOK
  <2>4. TimesInv'
    <3>1. \A s \in Slot : /\ ptable[s].ctime \in Nat /\ ptable[s].rtime \in Nat
                          /\ ptable[s].qvalue \in Nat /\ ptable[s].quanta \in Int
      BY TypesOfSlots DEF IInv
    <3> QED
      BY <2>1, <2>2, <3>1 DEF IInv, TimesInv, SlotInv
  <2>5. RanNoLongerThanLived'
    <3>1. \A s \in Slot : ptable[s].ctime \in Nat /\ ptable[s].rtime \in Nat
      BY TypesOfSlots DEF IInv
    <3> QED
      BY <2>1, <2>2, <3>1 DEF IInv, RanNoLongerThanLived, Complete
  <2>6. TailIsOwnChild' /\ CpuInv' /\ PointerInv'
    BY <2>1 DEF IInv, TailIsOwnChild, CpuInv, PointerInv
  <2> QED
    BY <2>3, <2>4, <2>5, <2>6 DEF IInv
<1>2. CASE cur # None
  <2>1. /\ cur \in Slot /\ loop = "run" /\ ptable[cur].state = "RUNNING"
        /\ ticks' = ticks + 1 /\ ticks' \in 0..MaxTicks /\ UNCHANGED <<now, t, left, p, head, tail>>
        /\ ptable' \in [Slot -> Proc]
        /\ \A s \in Slot : s # cur => ptable'[s] = ptable[s]
        /\ ptable'[cur].ctime = ptable[cur].ctime
        /\ ptable'[cur].rtime = ptable[cur].rtime + 1
        /\ ptable'[cur].quanta = ptable[cur].quanta - 1
        /\ ptable'[cur].priority = ptable[cur].priority
        /\ ptable'[cur].parent = ptable[cur].parent
        /\ ptable'[cur].state \in {"RUNNING", "RUNNABLE"}
        /\ ptable'[cur].qvalue \in {ptable[cur].qvalue, ticks + 1}
        /\ \/ ptable'[cur].state = "RUNNING" /\ UNCHANGED <<cur, loop>>
           \/ cur' = None /\ loop' \in {"scan", "sample"}
    BY <1>2, TickOnCpu
  <2>2. /\ ticks \in Nat /\ now \in Nat /\ now <= ticks
        /\ \A s \in Slot : /\ ptable[s].ctime \in Nat /\ ptable[s].rtime \in Nat
                           /\ ptable[s].qvalue \in Nat /\ ptable[s].quanta \in Int
    BY TypesOfSlots, Clock DEF IInv
  <2>3. TypeOK'
    <3>1. now' \in 0..ticks' /\ cur' \in Slot \cup {None}
          /\ loop' \in {"sample", "lock", "scan", "run", "wild"}
      BY <2>1, <2>2
    <3> QED
      BY <2>1, <3>1 DEF IInv, TypeOK
  <2>4. TimesInv'
    <3> SUFFICES ASSUME NEW s \in Slot PROVE SlotInv(s)'
      BY DEF TimesInv
    <3>1. SlotInv(s) /\ loop' # "lock" /\ UNCHANGED SCHEDFLAG
      BY <2>1 DEF IInv, TimesInv
    <3>2. CASE s = cur
      <4>1. /\ ptable'[s].ctime <= ticks + 1 /\ ptable'[s].rtime <= ticks + 1
            /\ -(ticks + 1) <= ptable'[s].quanta /\ ptable'[s].qvalue <= ticks + 1
        BY <2>1, <2>2, <3>1, <3>2 DEF SlotInv
      <4> QED
        BY <2>1, <3>1, <3>2, <4>1 DEF SlotInv
    <3>3. CASE s # cur
      <4>1. /\ ptable[s].ctime <= ticks + 1 /\ ptable[s].rtime <= ticks + 1
            /\ -(ticks + 1) <= ptable[s].quanta /\ ptable[s].qvalue <= ticks + 1
        BY <2>2, <3>1 DEF SlotInv
      <4> QED
        BY <2>1, <3>1, <3>3, <4>1 DEF SlotInv
    <3> QED
      BY <3>2, <3>3
  <2>5. RanNoLongerThanLived'
    <3> SUFFICES ASSUME NEW s \in Slot, Complete(s)', ptable'[s].state \in Alive
                 PROVE  ptable'[s].rtime <= ticks' - ptable'[s].ctime
      BY DEF RanNoLongerThanLived, Alive
    <3>1. ptable[s].state \in Alive /\ Complete(s)
      BY <2>1 DEF Alive, Complete
    <3>2. ptable[s].rtime <= ticks - ptable[s].ctime
      BY <3>1 DEF IInv, RanNoLongerThanLived, Alive
    <3>3. ptable'[s].ctime = ptable[s].ctime /\ ptable'[s].rtime \in {ptable[s].rtime, ptable[s].rtime + 1}
      BY <2>1
    <3> QED
      BY <2>1, <2>2, <3>2, <3>3
  <2>6. TailIsOwnChild'
    <3>1. \A s \in Slot : ptable'[s].parent = ptable[s].parent
                          /\ (ptable[s].state # "UNUSED" => ptable'[s].state # "UNUSED")
      BY <2>1
    <3> QED
      BY <2>1, <3>1 DEF IInv, TailIsOwnChild
  <2>7. CpuInv' /\ PointerInv'
    BY <2>1 DEF IInv, CpuInv, PointerInv
  <2> QED
    BY <2>3, <2>4, <2>5, <2>6, <2>7 DEF IInv
<1> QED
  BY <1>1, <1>2

-----------------------------------------------------------------------------
(* What the process on the CPU does.                                       *)
LEMMA Running ==
  ASSUME IInv, NEW s \in Slot, Runs(s)
  PROVE  cur = s /\ loop = "run" /\ ptable[s].state = "RUNNING"
BY Names DEF Runs, IInv, CpuInv

(* A step of it that keeps every slot, and stays on the CPU or leaves it.   *)
LEMMA ProcessStep ==
  ASSUME IInv, UNCHANGED <<SCHEDFLAG, ticks, now, t, left, p, head, tail>>,
         ptable' \in [Slot -> Proc], \A s \in Slot : Kept(s),
         \/ UNCHANGED <<cur, loop>> /\ (cur # None => ptable'[cur].state = ptable[cur].state)
         \/ Leave /\ loop = "run"
  PROVE  IInv'
<1>1. \/ UNCHANGED <<cur, loop>> /\ (cur # None => ptable'[cur].state = ptable[cur].state)
      \/ cur' = None /\ loop' \in {"scan", "sample"} /\ p # NPROC
  BY DEF Leave, IInv, PointerInv
<1>2. TypeOK'
  BY <1>1 DEF IInv, TypeOK
<1>3. TimesInv' /\ TailIsOwnChild' /\ RanNoLongerThanLived'
  <2>1. loop' = "lock" => loop = "lock" /\ now' = now
    BY <1>1
  <2> QED
    BY <2>1, KeptStep
<1>4. CpuInv' /\ PointerInv'
  BY <1>1 DEF IInv, CpuInv, PointerInv
<1> QED
  BY <1>2, <1>3, <1>4 DEF IInv

LEMMA StepFork == ASSUME IInv, NEW s \in Slot, Fork(s), UNCHANGED SCHEDFLAG PROVE IInv'
<1>1. PICK q \in Slot :
        /\ ptable[q].state = "UNUSED"
        /\ ptable' = [ptable EXCEPT ![q].state = "RUNNABLE", ![q].parent = s]
        /\ tail' = [tail EXCEPT ![s] = <<q, "ctime">>]
  BY DEF Fork
<1>2. /\ tail[s] = None /\ UNCHANGED <<ticks, cur, loop, now, t, left, p, head>>
      /\ cur = s /\ loop = "run" /\ ptable[s].state = "RUNNING"
  BY Running DEF Fork, Pointers
<1>3. ptable \in [Slot -> Proc] /\ ptable[q] \in Proc
  BY DEF IInv, TypeOK
<1>4. [ptable[q] EXCEPT !.state = "RUNNABLE"] \in Proc
  BY <1>3, ProcUpdates DEF State
<1>5. [[ptable[q] EXCEPT !.state = "RUNNABLE"] EXCEPT !.parent = s] \in Proc
  BY <1>4, ProcUpdates
<1>6. ptable' = [ptable EXCEPT ![q] = [[ptable[q] EXCEPT !.state = "RUNNABLE"] EXCEPT !.parent = s]]
  BY <1>1, <1>3
<1>7. ptable' \in [Slot -> Proc] /\ \A r \in Slot : r # q => ptable'[r] = ptable[r]
  BY <1>3, <1>5, <1>6
<1>8. /\ ptable'[q].state = "RUNNABLE" /\ ptable'[q].parent = s
      /\ ptable'[q].ctime = ptable[q].ctime /\ ptable'[q].rtime = ptable[q].rtime
      /\ ptable'[q].quanta = ptable[q].quanta /\ ptable'[q].qvalue = ptable[q].qvalue
      /\ ptable'[q].priority = ptable[q].priority
  BY <1>3, <1>4, <1>5, <1>6 DEF Proc
<1>9. Complete(q) /\ q # s
  BY <1>1, <1>2, ChildOf
<1>10. tail \in [Slot -> {None} \cup (Slot \X {"ctime", "rest"})]
  BY DEF IInv, TypeOK
<1>11. tail'[s] = <<q, "ctime">> /\ tail'[s] # None /\ tail'[s][1] = q
                                 /\ \A r \in Slot : r # s => tail'[r] = tail[r]
  BY <1>1, <1>10, Names
<1>12. TypeOK'
  <2>1. tail' \in [Slot -> {None} \cup (Slot \X {"ctime", "rest"})]
    BY <1>1, <1>10
  <2> QED
    BY <1>2, <1>7, <2>1 DEF IInv, TypeOK
<1>13. TimesInv'
  <2>1. \A r \in Slot : /\ ptable'[r].ctime = ptable[r].ctime /\ ptable'[r].rtime = ptable[r].rtime
                        /\ ptable'[r].quanta = ptable[r].quanta /\ ptable'[r].qvalue = ptable[r].qvalue
                        /\ ptable'[r].priority = ptable[r].priority
    BY <1>7, <1>8
  <2> QED
    BY <1>2, <2>1 DEF IInv, TimesInv, SlotInv
<1>14. TailIsOwnChild'
  <2> SUFFICES ASSUME NEW r \in Slot, NEW c \in Slot, tail'[r] # None, tail'[r][1] = c
               PROVE  ptable'[c].state # "UNUSED" /\ ptable'[c].parent = r
    BY DEF TailIsOwnChild
  <2>1. CASE r = s
    BY <1>8, <1>11, <2>1
  <2>2. CASE r # s
    <3>1. tail[r] # None /\ tail[r][1] = c
      BY <1>11, <2>2
    <3>2. ptable[c].state # "UNUSED" /\ ptable[c].parent = r
      BY <3>1 DEF IInv, TailIsOwnChild
    <3> QED
      BY <1>1, <1>7, <3>2
  <2> QED
    BY <2>1, <2>2
<1>15. RanNoLongerThanLived'
  <2> SUFFICES ASSUME NEW r \in Slot, Complete(r)', ptable'[r].state \in Alive
               PROVE  ptable'[r].rtime <= ticks' - ptable'[r].ctime
    BY DEF RanNoLongerThanLived, Alive
  <2>1. r # q
    BY <1>11 DEF Complete
  <2>2. Complete(r)
    BY <1>2, <1>11 DEF Complete
  <2> QED
    BY <1>2, <1>7, <2>1, <2>2 DEF IInv, RanNoLongerThanLived, Alive
<1>16. CpuInv' /\ PointerInv'
  BY <1>2, <1>7, <1>9 DEF IInv, CpuInv, PointerInv
<1> QED
  BY <1>12, <1>13, <1>14, <1>15, <1>16 DEF IInv

LEMMA StepForkTime == ASSUME IInv, NEW s \in Slot, ForkTime(s), UNCHANGED SCHEDFLAG PROVE IInv'
<1>1. PICK q \in Slot :
        /\ tail[s] = <<q, "ctime">>
        /\ ptable' = [ptable EXCEPT ![q].ctime = ticks]
        /\ tail' = [tail EXCEPT ![s] = <<q, "rest">>]
  BY DEF ForkTime
<1>2. /\ UNCHANGED <<ticks, cur, loop, now, t, left, p, head>>
      /\ cur = s /\ loop = "run" /\ ptable[s].state = "RUNNING"
  BY Running DEF ForkTime, Pointers
<1>3. /\ ptable \in [Slot -> Proc] /\ ptable[q] \in Proc /\ ticks \in 0..MaxTicks
      /\ tail \in [Slot -> {None} \cup (Slot \X {"ctime", "rest"})]
  BY Clock DEF IInv, TypeOK
<1>4. [ptable[q] EXCEPT !.ctime = ticks] \in Proc
  BY <1>3, ProcUpdates
<1>5. ptable' = [ptable EXCEPT ![q] = [ptable[q] EXCEPT !.ctime = ticks]]
  BY <1>1, <1>3
<1>6. ptable' \in [Slot -> Proc] /\ \A r \in Slot : r # q => ptable'[r] = ptable[r]
  BY <1>3, <1>4, <1>5
<1>7. /\ ptable'[q].state = ptable[q].state /\ ptable'[q].parent = ptable[q].parent
      /\ ptable'[q].ctime = ticks /\ ptable'[q].rtime = ptable[q].rtime
      /\ ptable'[q].quanta = ptable[q].quanta /\ ptable'[q].qvalue = ptable[q].qvalue
      /\ ptable'[q].priority = ptable[q].priority
  BY <1>3, <1>4, <1>5 DEF Proc
<1>8. /\ tail'[s] = <<q, "rest">> /\ tail'[s][1] = q /\ tail[s] # None /\ tail[s][1] = q
      /\ tail'[s] # None /\ \A r \in Slot : r # s => tail'[r] = tail[r]
  BY <1>1, <1>3, Names
<1>9. TypeOK'
  <2>1. tail' \in [Slot -> {None} \cup (Slot \X {"ctime", "rest"})]
    BY <1>1, <1>3
  <2> QED
    BY <1>2, <1>6, <2>1 DEF IInv, TypeOK
<1>10. TimesInv'
  <2> SUFFICES ASSUME NEW r \in Slot PROVE SlotInv(r)'
    BY DEF TimesInv
  <2>1. /\ ptable'[r].ctime \in {ptable[r].ctime, ticks} /\ ptable'[r].rtime = ptable[r].rtime
        /\ ptable'[r].quanta = ptable[r].quanta /\ ptable'[r].qvalue = ptable[r].qvalue
        /\ ptable'[r].priority = ptable[r].priority
    BY <1>6, <1>7
  <2>2. loop' # "lock" /\ ticks <= ticks
    BY <1>2, <1>3
  <2> QED
    BY <1>2, <2>1, <2>2 DEF IInv, TimesInv, SlotInv
<1>11. TailIsOwnChild'
  <2>1. \A r \in Slot : /\ tail'[r] # None => tail[r] # None /\ tail'[r][1] = tail[r][1]
                        /\ ptable'[r].state = ptable[r].state /\ ptable'[r].parent = ptable[r].parent
    BY <1>6, <1>7, <1>8
  <2> QED
    BY <2>1 DEF IInv, TailIsOwnChild
<1>12. RanNoLongerThanLived'
  <2> SUFFICES ASSUME NEW r \in Slot, Complete(r)', ptable'[r].state \in Alive
               PROVE  ptable'[r].rtime <= ticks' - ptable'[r].ctime
    BY DEF RanNoLongerThanLived, Alive
  <2>1. r # q /\ Complete(r)
    BY <1>8 DEF Complete
  <2> QED
    BY <1>2, <1>6, <2>1 DEF IInv, RanNoLongerThanLived, Alive
<1>13. CpuInv' /\ PointerInv'
  BY <1>2, <1>6, <1>7 DEF IInv, CpuInv, PointerInv
<1> QED
  BY <1>9, <1>10, <1>11, <1>12, <1>13 DEF IInv

LEMMA StepForkRest == ASSUME IInv, NEW s \in Slot, ForkRest(s), UNCHANGED SCHEDFLAG PROVE IInv'
<1> DEFINE v(q) == CASE SCHEDFLAG = "FRR" -> ptable[q].ctime
                     [] SCHEDFLAG = "RR"  -> ptable[q].qvalue
                     [] OTHER             -> 0
           k(q) == IF SCHEDFLAG = "3Q" THEN HIGH ELSE ptable[q].priority
<1>1. PICK q \in Slot :
        /\ tail[s] = <<q, "rest">>
        /\ ptable' = [ptable EXCEPT ![q].rtime = 0, ![q].qvalue = v(q), ![q].priority = k(q)]
        /\ tail' = [tail EXCEPT ![s] = None]
  BY DEF ForkRest
<1>2. /\ UNCHANGED <<ticks, cur, loop, now, t, left, p, head>>
      /\ cur = s /\ loop = "run" /\ ptable[s].state = "RUNNING"
  BY Running DEF ForkRest, Pointers
<1>3. /\ ptable \in [Slot -> Proc] /\ ptable[q] \in Proc
      /\ tail \in [Slot -> {None} \cup (Slot \X {"ctime", "rest"})]
      /\ ticks \in Nat /\ ptable[q].ctime \in Nat /\ ptable[q].ctime <= ticks
      /\ ptable[q].qvalue <= ticks
  BY Clock, TypesOfSlots DEF IInv, TypeOK, TimesInv, SlotInv
<1>4. v(q) \in 0..MaxTicks /\ v(q) <= ticks /\ k(q) \in Level /\ 0 \in 0..MaxTicks
      /\ (SCHEDFLAG # "3Q" => k(q) = ptable[q].priority)
  <2>1. 0 \in 0..MaxTicks /\ HIGH \in Level
    BY Sizes DEF HIGH, Level
  <2>2. v(q) \in {ptable[q].ctime, ptable[q].qvalue, 0}
    OBVIOUS
  <2> QED
    BY <1>3, <2>1, <2>2, ProcFacts
<1> HIDE DEF v, k
<1> DEFINE r1 == [ptable[q] EXCEPT !.rtime = 0]
           r2 == [r1 EXCEPT !.qvalue = v(q)]
           r3 == [r2 EXCEPT !.priority = k(q)]
<1>5. r1 \in Proc
  BY <1>3, <1>4, ProcUpdates
<1>6. r2 \in Proc
  <2> HIDE DEF r1
  <2> QED
    BY <1>4, <1>5, ProcUpdates
<1>7. r3 \in Proc
  <2> HIDE DEF r2
  <2> QED
    BY <1>4, <1>6, ProcUpdates
<1>8. ptable' = [ptable EXCEPT ![q] = r3]
  BY <1>1, <1>3
<1>9. /\ r3.state = ptable[q].state /\ r3.parent = ptable[q].parent
      /\ r3.ctime = ptable[q].ctime /\ r3.rtime = 0
      /\ r3.quanta = ptable[q].quanta /\ r3.qvalue = v(q) /\ r3.priority = k(q)
  BY <1>3, <1>5, <1>6 DEF Proc
<1> HIDE DEF r3
<1>10. /\ ptable' \in [Slot -> Proc] /\ ptable'[q] = r3
       /\ \A r \in Slot : r # q => ptable'[r] = ptable[r]
  BY <1>3, <1>7, <1>8
<1>11. /\ tail'[s] = None /\ tail[s] # None /\ tail[s][1] = q
       /\ \A r \in Slot : r # s => tail'[r] = tail[r]
  BY <1>1, <1>3, Names
<1>12. TypeOK'
  <2>1. tail' \in [Slot -> {None} \cup (Slot \X {"ctime", "rest"})]
    BY <1>1, <1>3
  <2> QED
    BY <1>2, <1>10, <2>1 DEF IInv, TypeOK
<1>13. TimesInv'
  <2> SUFFICES ASSUME NEW r \in Slot PROVE SlotInv(r)'
    BY DEF TimesInv
  <2>1. SlotInv(r)
    BY DEF IInv, TimesInv
  <2>2. loop' # "lock" /\ 0 <= ticks
    BY <1>2, <1>3
  <2>3. CASE r = q
    BY <1>2, <1>4, <1>9, <1>10, <2>1, <2>2, <2>3 DEF SlotInv
  <2>4. CASE r # q
    BY <1>2, <1>10, <2>1, <2>2, <2>4 DEF SlotInv
  <2> QED
    BY <2>3, <2>4
<1>14. TailIsOwnChild'
  <2>1. \A r \in Slot : /\ tail'[r] # None => tail[r] # None /\ tail'[r] = tail[r]
                        /\ ptable'[r].state = ptable[r].state /\ ptable'[r].parent = ptable[r].parent
    BY <1>9, <1>10, <1>11
  <2> QED
    BY <2>1 DEF IInv, TailIsOwnChild
<1>15. RanNoLongerThanLived'
  <2> SUFFICES ASSUME NEW r \in Slot, Complete(r)', ptable'[r].state \in Alive
               PROVE  ptable'[r].rtime <= ticks' - ptable'[r].ctime
    BY DEF RanNoLongerThanLived, Alive
  <2>1. CASE r = q
    BY <1>2, <1>3, <1>9, <1>10, <2>1
  <2>2. CASE r # q
    <3>1. Complete(r)
      BY <1>11, <2>2 DEF Complete
    <3> QED
      BY <1>2, <1>10, <2>2, <3>1 DEF IInv, RanNoLongerThanLived, Alive
  <2> QED
    BY <2>1, <2>2
<1>16. CpuInv' /\ PointerInv'
  BY <1>2, <1>9, <1>10 DEF IInv, CpuInv, PointerInv
<1> QED
  BY <1>12, <1>13, <1>14, <1>15, <1>16 DEF IInv

(* Exit turns the process into a ZOMBIE and hands its children over; none   *)
(* of them is in a fork that is not complete, since it is not in one.       *)
LEMMA StepExit == ASSUME IInv, NEW s \in Slot, Exit(s), UNCHANGED SCHEDFLAG PROVE IInv'
<1>1. /\ tail[s] = None /\ cur = s /\ loop = "run" /\ ptable[s].state = "RUNNING" /\ Leave
      /\ UNCHANGED <<ticks, now, t, left, p, head, tail>>
      /\ ptable' = [r \in Slot |->
           IF r = s THEN [ptable[s] EXCEPT !.state = "ZOMBIE", !.priority = -1, !.etime = ticks]
           ELSE IF ptable[r].parent = s THEN [ptable[r] EXCEPT !.parent = initproc] ELSE ptable[r]]
  BY Running DEF Exit, Pointers
<1>2. ASSUME NEW r \in Slot PROVE ptable'[r] \in Proc /\ Kept(r)
  <2>0. /\ ptable[r] \in Proc /\ ticks \in 0..MaxTicks /\ -1 \in Level
        /\ -ticks <= ptable[r].quanta /\ ptable[r].qvalue <= ticks
        /\ SCHEDFLAG # "3Q" => ptable[r].priority \in {0, -1}
    BY Clock DEF IInv, TypeOK, TimesInv, SlotInv, Level, HIGH
  <2>1. CASE r = s
    <3> DEFINE r1 == [ptable[s] EXCEPT !.state = "ZOMBIE"]
               r2 == [r1 EXCEPT !.priority = -1]
               r3 == [r2 EXCEPT !.etime = ticks]
    <3>1. r1 \in Proc
      BY <2>0, <2>1, ProcUpdates DEF State
    <3>2. r2 \in Proc
      <4> HIDE DEF r1
      <4> QED
        BY <2>0, <3>1, ProcUpdates
    <3>3. r3 \in Proc
      <4> HIDE DEF r2
      <4> QED
        BY <2>0, <3>2, ProcUpdates
    <3>4. ptable'[r] = r3
      BY <1>1, <2>1
    <3>5. /\ r3.state = "ZOMBIE" /\ r3.parent = ptable[s].parent /\ r3.priority = -1
          /\ r3.ctime = ptable[s].ctime /\ r3.rtime = ptable[s].rtime
          /\ r3.quanta = ptable[s].quanta /\ r3.qvalue = ptable[s].qvalue
      BY <2>0, <2>1, <3>1, <3>2 DEF Proc
    <3> HIDE DEF r3
    <3> QED
      BY <2>0, <2>1, <3>3, <3>4, <3>5 DEF Kept, Alive
  <2>2. CASE r # s /\ ptable[r].parent = s
    <3>1. ptable'[r] = [ptable[r] EXCEPT !.parent = initproc] /\ ptable'[r] \in Proc
      BY <1>1, <2>0, <2>2, ProcUpdates, Names
    <3>2. Complete(r)
      BY <1>1, <2>2, ChildOf
    <3> QED
      BY <2>0, <3>1, <3>2 DEF Kept, Proc
  <2>3. CASE r # s /\ ptable[r].parent # s
    BY <1>1, <2>0, <2>3, KeptSame
  <2> QED
    BY <2>1, <2>2, <2>3
<1>3. ptable' \in [Slot -> Proc]
  <2>1. ptable' = [r \in Slot |-> ptable'[r]]
    BY <1>1
  <2> QED
    BY <1>2, <2>1
<1> QED
  BY <1>1, <1>2, <1>3, ProcessStep

LEMMA StepSleep ==
  ASSUME IInv, NEW s \in Slot, Sleep(s) \/ Wakeup(s), UNCHANGED SCHEDFLAG
  PROVE  IInv'
<1>1. \E x \in {"SLEEPING", "RUNNABLE"} : ptable' = [ptable EXCEPT ![s].state = x]
  BY DEF Sleep, Wakeup
<1>2. /\ UNCHANGED <<ticks, now, t, left, p, head, tail>> /\ ptable[s].state \in {"RUNNING", "SLEEPING"}
      /\ \/ Leave /\ loop = "run"
         \/ UNCHANGED <<cur, loop>> /\ ptable[s].state = "SLEEPING"
  BY Running DEF Sleep, Wakeup, Pointers
<1>3. ptable \in [Slot -> Proc] /\ ptable[s] \in Proc
  BY DEF IInv, TypeOK
<1>4. PICK x \in {"SLEEPING", "RUNNABLE"} : ptable' = [ptable EXCEPT ![s].state = x]
  BY <1>1
<1>5. [ptable[s] EXCEPT !.state = x] \in Proc
  BY <1>3, <1>4, ProcUpdates DEF State
<1>6. ptable' = [ptable EXCEPT ![s] = [ptable[s] EXCEPT !.state = x]]
  BY <1>3, <1>4
<1>7. ptable' \in [Slot -> Proc] /\ \A r \in Slot : r # s => ptable'[r] = ptable[r]
  BY <1>3, <1>5, <1>6
<1>8. Kept(s)
  <2>1. /\ ptable'[s].state = x /\ ptable'[s].parent = ptable[s].parent
        /\ ptable'[s].ctime = ptable[s].ctime /\ ptable'[s].rtime = ptable[s].rtime
        /\ ptable'[s].quanta = ptable[s].quanta /\ ptable'[s].qvalue = ptable[s].qvalue
        /\ ptable'[s].priority = ptable[s].priority
    BY <1>3, <1>5, <1>6 DEF Proc
  <2> QED
    BY <1>2, <1>4, <2>1 DEF Kept, Alive, IInv, TimesInv, SlotInv
<1>9. \A r \in Slot : Kept(r)
  BY <1>7, <1>8, KeptSame
<1>10. UNCHANGED <<cur, loop>> /\ ptable[s].state = "SLEEPING" =>
         (cur # None => ptable'[cur].state = ptable[cur].state)
  BY <1>7 DEF IInv, CpuInv, TypeOK
<1> QED
  BY <1>2, <1>7, <1>9, <1>10, ProcessStep

LEMMA StepWait2 == ASSUME IInv, NEW s \in Slot, Wait2(s), UNCHANGED SCHEDFLAG PROVE IInv'
<1>1. /\ tail[s] = None /\ UNCHANGED <<ticks, cur, loop, now, t, left, p, head, tail>>
  BY DEF Wait2, Pointers
<1>2. PICK q \in Zombies(s) :
        ptable' = [ptable EXCEPT ![q].state = "UNUSED", ![q].parent = None, ![q].etime = 0]
  BY DEF Wait2
<1>3. /\ q \in Slot /\ ptable[q].parent = s /\ ptable[q].state = "ZOMBIE"
      /\ ptable \in [Slot -> Proc] /\ ptable[q] \in Proc /\ 0 \in 0..MaxTicks
  BY Sizes DEF Zombies, IInv, TypeOK
<1> DEFINE r1 == [ptable[q] EXCEPT !.state = "UNUSED"]
           r2 == [r1 EXCEPT !.parent = None]
           r3 == [r2 EXCEPT !.etime = 0]
<1>4. r1 \in Proc
  BY <1>3, ProcUpdates DEF State
<1>5. r2 \in Proc
  <2> HIDE DEF r1
  <2> QED
    BY <1>4, ProcUpdates
<1>6. r3 \in Proc
  <2> HIDE DEF r2
  <2> QED
    BY <1>3, <1>5, ProcUpdates
<1>7. ptable' = [ptable EXCEPT ![q] = r3]
  BY <1>2, <1>3
<1>8. /\ r3.state = "UNUSED" /\ r3.priority = ptable[q].priority
      /\ r3.ctime = ptable[q].ctime /\ r3.rtime = ptable[q].rtime
      /\ r3.quanta = ptable[q].quanta /\ r3.qvalue = ptable[q].qvalue
  BY <1>3, <1>4, <1>5 DEF Proc
<1> HIDE DEF r3
<1>9. /\ ptable' \in [Slot -> Proc] /\ ptable'[q] = r3
      /\ \A r \in Slot : r # q => ptable'[r] = ptable[r]
  BY <1>3, <1>6, <1>7
<1>10. Complete(q)
  BY <1>1, <1>3, ChildOf
<1>11. Kept(q)
  BY <1>3, <1>8, <1>9, <1>10 DEF Kept, Alive, IInv, TimesInv, SlotInv
<1>12. \A r \in Slot : Kept(r)
  BY <1>9, <1>11, KeptSame
<1>13. cur # None => ptable'[cur].state = ptable[cur].state
  BY <1>3, <1>9 DEF IInv, CpuInv, TypeOK
<1> QED
  BY <1>1, <1>9, <1>12, <1>13, ProcessStep

LEMMA StepNice == ASSUME IInv, NEW s \in Slot, Nice(s), UNCHANGED SCHEDFLAG PROVE IInv'
<1> DEFINE v == IF ptable[s].priority = HIGH THEN ticks ELSE ptable[s].qvalue
           k == ptable[s].priority - 1
<1>1. /\ UNCHANGED <<ticks, cur, loop, now, t, left, p, head, tail>>
      /\ cur = s /\ ptable[s].state = "RUNNING" /\ ptable[s].priority \in {HIGH, MEDIUM}
      /\ ptable' = [ptable EXCEPT ![s].priority = k, ![s].qvalue = v]
  BY Running DEF Nice, Pointers
<1>2. /\ ptable \in [Slot -> Proc] /\ ptable[s] \in Proc
      /\ ticks \in Nat /\ ticks \in 0..MaxTicks /\ ptable[s].qvalue <= ticks
      /\ (SCHEDFLAG # "3Q" => ptable[s].priority \in {0, -1})
  BY Clock DEF IInv, TypeOK, TimesInv, SlotInv
<1>3. v \in 0..MaxTicks /\ v <= ticks
  BY <1>2, ProcFacts
<1>4. k \in Level /\ SCHEDFLAG = "3Q"
  BY <1>1, <1>2 DEF Level, HIGH, MEDIUM
<1> HIDE DEF v, k
<1> DEFINE r1 == [ptable[s] EXCEPT !.priority = k]
           r2 == [r1 EXCEPT !.qvalue = v]
<1>5. r1 \in Proc
  BY <1>2, <1>4, ProcUpdates
<1>6. r2 \in Proc
  <2> HIDE DEF r1
  <2> QED
    BY <1>3, <1>5, ProcUpdates
<1>7. ptable' = [ptable EXCEPT ![s] = r2]
  BY <1>1, <1>2
<1>8. /\ r2.state = ptable[s].state /\ r2.parent = ptable[s].parent
      /\ r2.ctime = ptable[s].ctime /\ r2.rtime = ptable[s].rtime
      /\ r2.quanta = ptable[s].quanta /\ r2.qvalue = v
  BY <1>2, <1>5 DEF Proc
<1> HIDE DEF r2
<1>9. /\ ptable' \in [Slot -> Proc] /\ ptable'[s] = r2
      /\ \A r \in Slot : r # s => ptable'[r] = ptable[r]
  BY <1>2, <1>6, <1>7
<1>10. Kept(s)
  <2>1. -ticks <= ptable[s].quanta
    BY DEF IInv, TimesInv, SlotInv
  <2> QED
    BY <1>1, <1>3, <1>4, <1>8, <1>9, <2>1 DEF Kept, Alive
<1>11. \A r \in Slot : Kept(r)
  BY <1>9, <1>10, KeptSame
<1> QED
  BY <1>1, <1>8, <1>9, <1>11, ProcessStep

-----------------------------------------------------------------------------
LEMMA InvNext == IInv /\ [Next]_vars => IInv'
<1> SUFFICES ASSUME IInv, [Next]_vars PROVE IInv'
  OBVIOUS
<1>1. CASE UNCHANGED vars
  BY <1>1 DEF vars, IInv, TypeOK, TimesInv, SlotInv, CpuInv, PointerInv, TailIsOwnChild,
              RanNoLongerThanLived, Complete
<1>2. CASE Next
  <2>1. UNCHANGED SCHEDFLAG
    BY <1>2 DEF Next
  <2> QED
    BY <1>2, <2>1, StepSample, StepPick, StepPickRR, StepTick, StepFork, StepForkTime,
       StepForkRest, StepExit, StepSleep, StepWait2, StepNice DEF Next
<1> QED
  BY <1>1, <1>2

LEMMA Always == Spec => []IInv
BY InitInv, InvNext, PTL DEF Spec

(* Under every policy, whatever the interleaving of fork with the clock, a  *)
(* fork that is not complete writes to its own child only, and a complete   *)
(* one leaves a process whose running time never exceeds the time it has    *)
(* existed (proc.c:158-176, trap.c:49-63).                                  *)
THEOREM SchedTimesOwned == Spec => []TimesOwned
<1>1. IInv => TimesOwned
  BY DEF IInv, TimesOwned
<1> QED
  BY <1>1, Always, PTL

-----------------------------------------------------------------------------
(* Who is switched to.                                                     *)
LEMMA SwitchedTo ==
  ASSUME IInv, [Next]_vars, NEW s \in Slot, Switch(s)
  PROVE  \/ SCHEDFLAG = "RR"
         \/ /\ loop = "lock" /\ ptable[s].state = "RUNNABLE"
            /\ s \in Chosen(IF LowSeen # {} THEN First(LowSeen) ELSE head)
<1>0. s # None /\ cur = None /\ cur' = s
  BY Names DEF Switch
<1>1. Pick \/ PickRR
  <2>1. ~UNCHANGED vars /\ ~Sample /\ ~EndRR
    BY <1>0 DEF vars, Sample, EndRR
  <2>2. ~Tick
    BY <1>0 DEF Tick
  <2>3. \A r \in Slot : /\ ~Fork(r) /\ ~ForkTime(r) /\ ~ForkRest(r) /\ ~Exit(r) /\ ~Sleep(r)
                        /\ ~Wait2(r) /\ ~Wakeup(r) /\ ~Nice(r)
    BY <1>0, Names DEF Fork, ForkTime, ForkRest, Exit, Sleep, Wait2, Wakeup, Nice, Runs
  <2> QED
    BY <2>1, <2>2, <2>3 DEF Next
<1>2. CASE Pick
  BY <1>0, <1>2 DEF Pick
<1>3. CASE PickRR
  BY <1>3 DEF PickRR
<1> QED
  BY <1>1, <1>2, <1>3

LEMMA HighestFirst ==
  ASSUME IInv, [Next]_vars, NEW s \in Slot, Switch(s)
  PROVE  /\ ptable[s].priority \in {MEDIUM, LOW, -1} => Waiting(HIGH) = {}
         /\ ptable[s].priority \in {LOW, -1} => Waiting(MEDIUM) = {}
<1>1. CASE SCHEDFLAG # "3Q"
  <2>1. \A r \in Slot : ptable[r].priority \notin {HIGH, MEDIUM}
    BY <1>1 DEF IInv, TimesInv, SlotInv, HIGH, MEDIUM
  <2> QED
    BY <2>1 DEF Waiting
<1>2. CASE SCHEDFLAG = "3Q"
  <2>1. /\ loop = "lock"
        /\ s \in Chosen(IF LowSeen # {} THEN First(LowSeen) ELSE head)
    BY <1>2, SwitchedTo
  <2>2. /\ GRTSeen # {} => high \in GRTSeen
        /\ FRRSeen # {} => medium \in FRRSeen
        /\ FRRSeen = Waiting(MEDIUM)
        /\ GRTSeen = {r \in Slot : ptable[r].state = "RUNNABLE" /\ ptable[r].priority \in {HIGH, 0}}
    BY <1>2, <2>1, HighAndMedium, Seen DEF IInv, Waiting
  <2>3. CASE GRTSeen # {}
    <3>1. s = high
      BY <2>1, <2>3 DEF Chosen
    <3> QED
      BY <2>2, <2>3, <3>1 DEF HIGH, MEDIUM, LOW
  <2>4. CASE GRTSeen = {} /\ FRRSeen # {}
    <3>1. s = medium
      BY <2>1, <2>4 DEF Chosen
    <3>2. Waiting(HIGH) = {}
      BY <2>2, <2>4 DEF Waiting
    <3> QED
      BY <2>2, <2>4, <3>1, <3>2 DEF Waiting, MEDIUM, LOW
  <2>5. CASE GRTSeen = {} /\ FRRSeen = {}
    BY <2>2, <2>5 DEF Waiting
  <2> QED
    BY <2>3, <2>4, <2>5
<1> QED
  BY <1>1, <1>2

(* Nobody runs while a process of a higher queue is RUNNABLE, under 3Q      *)
(* (proc.c:447-452); the other policies use no queues.                      *)
THEOREM SchedHighestQueueFirst == Spec => HighestQueueFirst
<1>1. IInv /\ [Next]_vars =>
        [\A s \in Slot : Switch(s) =>
           /\ ptable[s].priority \in {MEDIUM, LOW, -1} => Waiting(HIGH) = {}
           /\ ptable[s].priority \in {LOW, -1} => Waiting(MEDIUM) = {}]_vars
  BY HighestFirst
<1> QED
  BY <1>1, Always, PTL DEF Spec, HighestQueueFirst

-----------------------------------------------------------------------------
(* The order within a queue.                                               *)

(* Whoever was queued up behind has the later qvalue, for as long as both   *)
(* stay in the queue.                                                       *)
BehindInv == \A pair \in behind :
  /\ pair \in Slot \X Slot /\ Settled(pair[1]) /\ Settled(pair[2])
  /\ ptable[pair[2]].qvalue < ptable[pair[1]].qvalue

(* While a process is in a queue nobody changes its qvalue.                 *)
LEMMA QvalueStays ==
  ASSUME IInv, [Next]_vars, NEW s \in Slot, Settled(s)
  PROVE  ptable'[s].qvalue = ptable[s].qvalue
<1>0. /\ ptable \in [Slot -> Proc] /\ ptable[s] \in Proc /\ Complete(s)
      /\ ptable[s].state = "RUNNABLE" /\ SCHEDFLAG # "RR" /\ SCHEDFLAG # "GRT"
      /\ SCHEDFLAG = "FRR" \/ ptable[s].priority = MEDIUM
  BY DEF IInv, TypeOK, Settled, InQueue
<1>1. CASE Sample \/ EndRR \/ UNCHANGED vars
  BY <1>1 DEF Sample, EndRR, vars
<1>2. CASE Pick
  <2>1. s \notin GRTSeen
    BY <1>0, Seen DEF IInv, HIGH, MEDIUM
  <2>2. loop = "lock" /\ ptable'[s] \in {Scanned[s], [Scanned[s] EXCEPT !.state = "RUNNING"]}
    BY <1>2 DEF Pick, Scanned
  <2>3. Scanned[s] \in Proc /\ Scanned[s].qvalue = ptable[s].qvalue
    BY <2>1, <2>2, ScannedSlot
  <2> QED
    BY <2>2, <2>3 DEF Proc
<1>3. CASE PickRR
  BY <1>0, <1>3 DEF PickRR
<1>4. CASE Tick /\ UNCHANGED SCHEDFLAG
  <2>1. CASE cur = None
    BY <1>4, <2>1 DEF Tick
  <2>2. CASE cur # None
    <3>1. s # cur
      BY <1>0, <2>2 DEF IInv, CpuInv
    <3> QED
      BY <1>4, <2>2, <3>1, TickOnCpu
  <2> QED
    BY <2>1, <2>2
<1>5. ASSUME NEW r \in Slot, Fork(r) PROVE ptable'[s].qvalue = ptable[s].qvalue
  BY <1>0, <1>5 DEF Fork
<1>6. ASSUME NEW r \in Slot, ForkTime(r) \/ ForkRest(r) PROVE ptable'[s].qvalue = ptable[s].qvalue
  <2>1. PICK q \in Slot : /\ \E at \in {"ctime", "rest"} : tail[r] = <<q, at>>
                          /\ \A x \in Slot : x # q => ptable'[x] = ptable[x]
    BY <1>0, <1>6 DEF ForkTime, ForkRest
  <2>2. ~Complete(q)
    BY <2>1, Names DEF Complete
  <2> QED
    BY <1>0, <2>1, <2>2
<1>7. ASSUME NEW r \in Slot, Exit(r) PROVE ptable'[s].qvalue = ptable[s].qvalue
  <2>1. r # s
    BY <1>0, <1>7, Running DEF Exit
  <2>2. ptable'[s] \in {ptable[s], [ptable[s] EXCEPT !.parent = initproc]}
    BY <1>7, <2>1 DEF Exit
  <2> QED
    BY <1>0, <2>2 DEF Proc
<1>8. ASSUME NEW r \in Slot, Sleep(r) \/ Wakeup(r) \/ Nice(r)
      PROVE  ptable'[s].qvalue = ptable[s].qvalue
  <2>1. r # s
    BY <1>0, <1>8, Running DEF Sleep, Wakeup, Nice
  <2> QED
    BY <1>0, <1>8, <2>1 DEF Sleep, Wakeup, Nice
<1>9. ASSUME NEW r \in Slot, Wait2(r) PROVE ptable'[s].qvalue = ptable[s].qvalue
  BY <1>0, <1>9 DEF Wait2, Zombies
<1> QED
  BY <1>1, <1>2, <1>3, <1>4, <1>5, <1>6, <1>7, <1>8, <1>9 DEF Next

(* Whoever uses its quantum up gets a later qvalue than any in the queue.   *)
LEMMA PreemptedLater ==
  ASSUME IInv, [Next]_vars, NEW s \in Slot, NEW r \in Slot,
         Preempted(s), Settled(s)', Settled(r)
  PROVE  ptable'[r].qvalue < ptable'[s].qvalue
<1>1. cur = s /\ cur' = None /\ ticks' # ticks /\ s # None
  BY Names DEF Preempted
<1>2. Tick /\ UNCHANGED SCHEDFLAG
  <2>1. ~UNCHANGED vars /\ ~Sample /\ ~Pick /\ ~PickRR /\ ~EndRR
    BY <1>1 DEF vars, Sample, Pick, PickRR, EndRR
  <2>2. \A x \in Slot : /\ ~Fork(x) /\ ~ForkTime(x) /\ ~ForkRest(x) /\ ~Exit(x) /\ ~Sleep(x)
                        /\ ~Wait2(x) /\ ~Wakeup(x) /\ ~Nice(x)
    BY <1>1 DEF Fork, ForkTime, ForkRest, Exit, Sleep, Wait2, Wakeup, Nice
  <2> QED
    BY <2>1, <2>2 DEF Next
<1>3. /\ ptable'[s].priority = ptable[s].priority
      /\ ptable'[s].qvalue = IF Stamped(s) THEN ticks + 1 ELSE ptable[s].qvalue
  BY <1>1, <1>2, TickOnCpu
<1>4. Stamped(s)
  BY <1>2, <1>3 DEF Settled, InQueue, Stamped
<1>5. ptable[r].qvalue <= ticks /\ ptable[r].qvalue \in Nat /\ ticks \in Nat
  BY TypesOfSlots, Clock DEF IInv, TimesInv, SlotInv
<1>6. ptable'[r].qvalue = ptable[r].qvalue
  BY QvalueStays
<1> QED
  BY <1>3, <1>4, <1>5, <1>6

LEMMA BehindNext == IInv /\ BehindInv /\ [FifoNext]_<<vars, behind>> => BehindInv'
<1> SUFFICES ASSUME IInv, BehindInv, [FifoNext]_<<vars, behind>> PROVE BehindInv'
  OBVIOUS
<1>1. CASE UNCHANGED <<vars, behind>>
  BY <1>1 DEF vars, BehindInv, Settled, InQueue, Complete
<1>2. CASE FifoNext
  <2> SUFFICES ASSUME NEW pair \in behind'
               PROVE  /\ pair \in Slot \X Slot /\ Settled(pair[1])' /\ Settled(pair[2])'
                      /\ ptable'[pair[2]].qvalue < ptable'[pair[1]].qvalue
    BY DEF BehindInv
  <2>0. [Next]_vars
    BY <1>2 DEF FifoNext
  <2>1. CASE pair \in behind /\ Settled(pair[1])' /\ Settled(pair[2])'
    <3>1. /\ pair[1] \in Slot /\ pair[2] \in Slot /\ Settled(pair[1]) /\ Settled(pair[2])
          /\ pair \in Slot \X Slot /\ ptable[pair[2]].qvalue < ptable[pair[1]].qvalue
      BY <2>1 DEF BehindInv
    <3>2. /\ ptable'[pair[1]].qvalue = ptable[pair[1]].qvalue
          /\ ptable'[pair[2]].qvalue = ptable[pair[2]].qvalue
      BY <2>0, <3>1, QvalueStays
    <3> QED
      BY <2>1, <3>1, <3>2
  <2>2. CASE /\ pair \in Slot \X Slot /\ Preempted(pair[1]) /\ Settled(pair[1])'
             /\ Settled(pair[2]) /\ Settled(pair[2])'
    <3>1. pair[1] \in Slot /\ pair[2] \in Slot
      BY <2>2
    <3> QED
      BY <2>0, <2>2, <3>1, PreemptedLater
  <2> QED
    BY <1>2, <2>1, <2>2 DEF FifoNext
<1> QED
  BY <1>1, <1>2

LEMMA InTurn ==
  ASSUME IInv, BehindInv, [Next]_vars, NEW pair \in behind, Switch(pair[1]),
         \A q \in Slot : InQueue(q) => ptable[q].qvalue > 0
  PROVE  FALSE
<1> DEFINE s == pair[1]
           r == pair[2]
<1>1. /\ s \in Slot /\ r \in Slot /\ InQueue(s) /\ InQueue(r)
      /\ ptable[r].qvalue < ptable[s].qvalue
  BY DEF BehindInv, Settled
<1> HIDE DEF s, r
<1>2. /\ loop = "lock" /\ SCHEDFLAG \in {"FRR", "3Q"}
      /\ s \in Chosen(IF LowSeen # {} THEN First(LowSeen) ELSE head)
  BY <1>1, SwitchedTo DEF s, InQueue
<1>3. FRRSeen = {x \in Slot : InQueue(x)} /\ s \notin GRTSeen
  BY <1>1, <1>2, Seen DEF IInv, InQueue, HIGH, MEDIUM
<1>4. r \in FRRSeen /\ FRRSeen # {} /\ FRRSeen \subseteq Slot /\ t \in Slot
  BY <1>1, <1>3 DEF IInv, TypeOK
<1>5. s = medium
  <2>1. GRTSeen = {}
    BY <1>2, <1>3, HighAndMedium DEF Chosen
  <2> QED
    BY <1>2, <1>4, <2>1 DEF Chosen
<1>6. Queue \in [Slot -> Nat] /\ \A x \in FRRSeen : Queue[x] # 0
  BY <1>2, <1>3, QueueAndRatio DEF Queue
<1>7. Queue[medium] <= Queue[r]
  BY <1>4, <1>6, LeastOf DEF medium
<1>8. /\ Queue[s] = ptable[s].qvalue /\ Queue[r] = ptable[r].qvalue
      /\ Queue[s] \in Nat /\ Queue[r] \in Nat
  BY <1>1, <1>6 DEF Queue
<1> QED
  BY <1>1, <1>5, <1>7, <1>8

(* Under FRR and in the MEDIUM queue whoever uses its quantum up goes to    *)
(* the end of the queue, and 3Q runs nobody while a higher queue has        *)
(* somebody in it (proc.c:444-458, proc.c:499-520).                         *)
THEOREM SchedPolicyKept == FifoSpec => PolicyKept
<1>1. FifoSpec => Spec
  <2>1. FifoInit => Init
    BY DEF FifoInit
  <2>2. [FifoNext]_<<vars, behind>> => [Next]_vars
    BY DEF FifoNext
  <2> QED
    BY <2>1, <2>2, PTL DEF FifoSpec, Spec
<1>2. FifoSpec => []IInv /\ []BehindInv
  <2>1. FifoInit => BehindInv
    BY DEF FifoInit, BehindInv
  <2> QED
    BY <1>1, <2>1, Always, BehindNext, PTL DEF FifoSpec
<1>3. IInv /\ BehindInv /\ [FifoNext]_<<vars, behind>> =>
        [(\A q \in Slot : InQueue(q) => ptable[q].qvalue > 0) =>
           \A pair \in behind : ~Switch(pair[1])]_<<vars, behind>>
  <2>1. [FifoNext]_<<vars, behind>> => [Next]_vars
    BY DEF FifoNext
  <2> QED
    BY <2>1, InTurn
<1>4. FifoSpec => ToTheEndOfTheQueue
  BY <1>2, <1>3, PTL DEF FifoSpec, ToTheEndOfTheQueue
<1> QED
  BY <1>1, <1>4, SchedHighestQueueFirst, PTL DEF PolicyKept
=============================================================================
