------------------------------- MODULE Sched --------------------------------
(***************************************************************************)
(* The four scheduling policies (proc.c's scheduler, yield and nice) and   *)
(* the accounting they rest on: ctime, etime, rtime, quanta, priority and  *)
(* qvalue of each slot, the clock (trap.c), and wait2's report.  One CPU,  *)
(* which is what the kernel is built for (Makefile: CPUS := 1); on others  *)
(* scheduler() reads its pointers p, medium and high before it sets them.  *)
(***************************************************************************)
EXTENDS Integers

CONSTANTS NPROC, QUANTA,
          Policies,     \* the values of SCHEDFLAG the kernel is built with
          None,
          MaxTicks      \* bound: the clock stops there

Slot == 0..NPROC-1

ASSUME SchedAssumption == /\ NPROC \in Nat \ {0} /\ QUANTA \in Nat \ {0}
                          /\ Policies \subseteq {"RR", "FRR", "GRT", "3Q"}
                          /\ None \notin Int \cup Slot \X {"ctime", "rest"}
                          /\ MaxTicks \in Nat

initproc == 0
HIGH == 3
MEDIUM == 2
LOW == 1
Level == -1..HIGH

VARIABLES SCHEDFLAG, \* the policy, fixed by the Makefile
          ptable,   \* slot -> state, parent, times, quanta, priority, qvalue
          ticks,
          cur,      \* proc: the process on the CPU, or None in the scheduler
          loop,     \* where scheduler() is: sample, lock, scan or run
          now,      \* currentime
          t,        \* the slot its scan is at
          left,     \* NPROC - i
          p, head,  \* its pointers; medium and high are used by the scan that sets them
          tail      \* slot -> the child whose fork is not finished, and the
                    \* line it is at; or None

vars == <<SCHEDFLAG, ptable, ticks, cur, loop, now, t, left, p, head, tail>>
Pointers == <<p, head>>

Unused == [state |-> "UNUSED", parent |-> None, ctime |-> 0, etime |-> 0, rtime |-> 0,
           quanta |-> 0, priority |-> 0, qvalue |-> 0]

(* init is RUNNABLE with every counter 0: it does not go through fork.     *)
Init == /\ SCHEDFLAG \in Policies
        /\ ptable = [s \in Slot |-> IF s = initproc THEN [Unused EXCEPT !.state = "RUNNABLE"]
                                                    ELSE Unused]
        /\ ticks = 0 /\ now = 0
        /\ cur = None /\ loop = "sample"
        /\ t = 0 /\ left = 0
        /\ p = None /\ head = None
        /\ tail = [s \in Slot |-> None]

-----------------------------------------------------------------------------
(* The scheduler.  An iteration starts at the slot after the low-priority  *)
(* process it ran last, and takes the time before it takes ptable.lock.    *)
Sample ==
  /\ loop = "sample"
  /\ head' = IF head # None /\ p = head THEN head + 1 ELSE head
  /\ t' = IF head' # None THEN head' % NPROC ELSE t
  /\ now' = ticks
  /\ left' = NPROC
  /\ loop' = "lock"
  /\ UNCHANGED <<ptable, ticks, cur, p, tail>>

(* The scan visits the slots from t on, by their distance from it.         *)
Distance(s) == (s - t + NPROC) % NPROC
First(S) == CHOOSE s \in S : \A r \in S : Distance(s) <= Distance(r)
Last(S) == CHOOSE s \in S : \A r \in S : Distance(r) <= Distance(s)

(* The running minimum of lines 398-407 and 412-421 over the slots of S.   *)
(* Its 0 means "none yet": whatever follows a process with qvalue 0        *)
(* replaces it, so only what comes after the last of those counts.         *)
Least(S, q) ==
  LET counted == {s \in S : \A r \in S : q[r] = 0 => Distance(r) < Distance(s)}
  IN  IF S = {} THEN None
      ELSE IF counted = {} THEN Last(S)
      ELSE First({s \in counted : \A r \in counted : q[s] <= q[r]})

(* FRR's and GRT's part of the loop, on the slots it gets to see.          *)
Queue == [s \in Slot |-> ptable[s].qvalue]
Ratio == [s \in Slot |-> IF ptable[s].ctime # now
                           THEN ptable[s].rtime \div (now - ptable[s].ctime)
                           ELSE ptable[s].qvalue]

Runnable(levels) == {s \in Slot : ptable[s].state = "RUNNABLE" /\ ptable[s].priority \in levels}
FRRSeen == CASE SCHEDFLAG = "FRR" -> Runnable(Level)
             [] SCHEDFLAG = "3Q"  -> Runnable({MEDIUM})
             [] OTHER             -> {}
GRTSeen == CASE SCHEDFLAG = "GRT" -> Runnable(Level)
             [] SCHEDFLAG = "3Q"  -> Runnable({HIGH, 0})
             [] OTHER             -> {}
LowSeen == IF SCHEDFLAG = "3Q" THEN Runnable({LOW}) ELSE {}

medium == Least(FRRSeen, Queue)
high == Least(GRTSeen, Ratio)

(* What the scan leaves in the table: quanta for whom FRR or the low queue *)
(* may run, the ratio as qvalue for whom GRT may.                          *)
Scanned ==
  [s \in Slot |->
     [ptable[s] EXCEPT
        !.quanta = IF s \in FRRSeen \/ (LowSeen # {} /\ s = First(LowSeen)) THEN QUANTA ELSE @,
        !.qvalue = IF s \in GRTSeen THEN Ratio[s] ELSE @]]

(* Mistake: the low queue is looked at before the medium one.              *)
ChosenLowFirst(head1) ==
  IF GRTSeen # {} THEN {high}
  ELSE IF LowSeen # {} THEN {head1}
  ELSE IF FRRSeen # {} THEN {medium}
  ELSE {p}

(* Line 446: the first queue that has somebody in it.  The low one is      *)
(* whoever head points at; the slot past the table, where ++head may leave *)
(* it, is no process, and what its state reads as is anything.  With one   *)
(* policy only its own queue has anybody in it, and head stays 0.          *)
Chosen(head1) ==
  IF GRTSeen # {} THEN {high}
  ELSE IF FRRSeen # {} THEN {medium}
  ELSE IF head1 = None THEN {p}
  ELSE IF head1 = NPROC THEN {p, head1}
  ELSE IF ptable[head1].state = "RUNNABLE" THEN {head1} ELSE {p}

(* One iteration of a policy with queues, under ptable.lock: scan, choose, *)
(* and switch to the chosen process if it is RUNNABLE.  (currentime, left  *)
(* and a free slot's etime are written before they are read again: the     *)
(* model forgets them.)                                                    *)
Pick ==
  /\ loop = "lock" /\ SCHEDFLAG # "RR"
  /\ head' = IF LowSeen # {} THEN First(LowSeen) ELSE head
  /\ p' \in Chosen(head')
  /\ \/ /\ p' \in Slot /\ ptable[p'].state = "RUNNABLE"
        /\ cur' = p' /\ loop' = "run"
        /\ ptable' = [Scanned EXCEPT ![p'].state = "RUNNING"]
     \/ /\ ~(p' \in Slot /\ ptable[p'].state = "RUNNABLE")
        /\ cur' = None
        /\ loop' = IF p' = NPROC /\ p' # p THEN "wild" ELSE "sample"
        /\ ptable' = Scanned
  /\ left' = 0 /\ now' = 0
  /\ UNCHANGED <<ticks, t, tail>>

(* Round robin switches to every RUNNABLE process its scan meets.          *)
InScan == {s \in Slot : ptable[s].state = "RUNNABLE" /\ Distance(s) < left}

PickRR ==
  /\ loop \in {"lock", "scan"} /\ SCHEDFLAG = "RR"
  /\ \E s \in InScan :
       /\ \A r \in InScan : Distance(s) <= Distance(r)
       /\ p' = s /\ cur' = s
       /\ ptable' = [ptable EXCEPT ![s].state = "RUNNING", ![s].quanta = QUANTA]
       /\ t' = (s + 1) % NPROC /\ left' = left - Distance(s) - 1
  /\ loop' = "run" /\ now' = 0
  /\ UNCHANGED <<ticks, head, tail>>


EndRR ==
  /\ loop \in {"lock", "scan"} /\ SCHEDFLAG = "RR" /\ InScan = {}
  /\ t' = (t + left) % NPROC /\ left' = 0
  /\ loop' = "sample" /\ now' = 0
  /\ UNCHANGED <<ptable, ticks, cur, Pointers, tail>>

(* The process on the CPU goes back to the scheduler.                      *)
Leave == cur' = None /\ loop' = IF SCHEDFLAG = "RR" THEN "scan" ELSE "sample"

-----------------------------------------------------------------------------
(* The clock.  It interrupts the scheduler, too, but not while it scans.   *)
Stamped(s) == SCHEDFLAG = "FRR" \/ (SCHEDFLAG = "3Q" /\ ptable[s].priority = MEDIUM)

Tick ==
  /\ ticks < MaxTicks /\ loop \in {"sample", "lock", "run"}
  /\ ticks' = ticks + 1
  /\ IF cur = None THEN UNCHANGED <<ptable, cur, loop>>
     ELSE LET q == ptable[cur].quanta - 1
              run == [ptable EXCEPT ![cur].rtime = @ + 1, ![cur].quanta = q]
          IN  IF q > 0 THEN ptable' = run /\ UNCHANGED <<cur, loop>>
              ELSE /\ ptable' = [run EXCEPT ![cur].state = "RUNNABLE",
                                            ![cur].qvalue = IF Stamped(cur) THEN ticks' ELSE @]
                   /\ Leave
  /\ UNCHANGED <<now, t, left, Pointers, tail>>

(* fork, once allocproc and copyuvm are done: the child is RUNNABLE before *)
(* it has a creation time, with what the slot's last process left there.   *)
Runs(s) == cur = s /\ loop = "run"

Fork(s) ==
  /\ Runs(s) /\ tail[s] = None
  /\ \E q \in Slot :
       /\ ptable[q].state = "UNUSED" /\ \A r \in Slot : r < q => ptable[r].state # "UNUSED"
       /\ ptable' = [ptable EXCEPT ![q].state = "RUNNABLE", ![q].parent = s]
       /\ tail' = [tail EXCEPT ![s] = <<q, "ctime">>]
  /\ UNCHANGED <<ticks, cur, loop, now, t, left, Pointers>>

ForkTime(s) ==
  /\ Runs(s)
  /\ \E q \in Slot : /\ tail[s] = <<q, "ctime">>
                     /\ ptable' = [ptable EXCEPT ![q].ctime = ticks]
                     /\ tail' = [tail EXCEPT ![s] = <<q, "rest">>]
  /\ UNCHANGED <<ticks, cur, loop, now, t, left, Pointers>>

(* Mistake: the running time of the slot's last process is kept.           *)
ForkKeepsRtime(s) ==
  /\ Runs(s)
  /\ \E q \in Slot : tail[s] = <<q, "rest">>
  /\ tail' = [tail EXCEPT ![s] = None]
  /\ UNCHANGED <<ptable, ticks, cur, loop, now, t, left, Pointers>>

ForkRest(s) ==
  /\ Runs(s)
  /\ \E q \in Slot :
       /\ tail[s] = <<q, "rest">>
       /\ ptable' = [ptable EXCEPT
            ![q].rtime = 0,
            ![q].qvalue = CASE SCHEDFLAG = "FRR" -> ptable[q].ctime
                            [] SCHEDFLAG = "RR"  -> @
                            [] OTHER             -> 0,
            ![q].priority = IF SCHEDFLAG = "3Q" THEN HIGH ELSE @]
  /\ tail' = [tail EXCEPT ![s] = None]
  /\ UNCHANGED <<ticks, cur, loop, now, t, left, Pointers>>

(* What else a process does that the scheduler sees, when it is not in the *)
(* middle of fork.                                                         *)
Exit(s) ==
  /\ Runs(s) /\ tail[s] = None /\ s # initproc
  /\ ptable' = [r \in Slot |->
       IF r = s THEN [ptable[s] EXCEPT !.state = "ZOMBIE", !.priority = -1, !.etime = ticks]
       ELSE IF ptable[r].parent = s THEN [ptable[r] EXCEPT !.parent = initproc] ELSE ptable[r]]
  /\ Leave
  /\ UNCHANGED <<ticks, now, t, left, Pointers, tail>>

Sleep(s) ==
  /\ Runs(s) /\ tail[s] = None
  /\ ptable' = [ptable EXCEPT ![s].state = "SLEEPING"]
  /\ Leave
  /\ UNCHANGED <<ticks, now, t, left, Pointers, tail>>

(* wait2 reports etime - ctime - rtime as the time a child has waited.     *)
Zombies(s) == {q \in Slot : ptable[q].parent = s /\ ptable[q].state = "ZOMBIE"}

Wait2(s) ==
  /\ Runs(s) /\ tail[s] = None
  /\ \E q \in Zombies(s) : /\ \A r \in Zombies(s) : q <= r
                           /\ ptable' = [ptable EXCEPT ![q].state = "UNUSED", ![q].parent = None,
                                                       ![q].etime = 0]
  /\ UNCHANGED <<ticks, cur, loop, now, t, left, Pointers, tail>>

(* A wakeup by an interrupt or by the process on the CPU.                  *)
Wakeup(s) ==
  /\ loop \in {"sample", "lock", "run"} /\ ptable[s].state = "SLEEPING"
  /\ ptable' = [ptable EXCEPT ![s].state = "RUNNABLE"]
  /\ UNCHANGED <<ticks, cur, loop, now, t, left, Pointers, tail>>

Nice(s) ==
  /\ Runs(s) /\ tail[s] = None /\ ptable[s].priority \in {HIGH, MEDIUM}
  /\ ptable' = [ptable EXCEPT ![s].priority = @ - 1,
                              ![s].qvalue = IF ptable[s].priority = HIGH THEN ticks ELSE @]
  /\ UNCHANGED <<ticks, cur, loop, now, t, left, Pointers, tail>>

Next == /\ UNCHANGED SCHEDFLAG
        /\ \/ Sample \/ Pick \/ PickRR \/ EndRR \/ Tick
           \/ \E s \in Slot : \/ Fork(s) \/ ForkTime(s) \/ ForkRest(s) \/ Exit(s) \/ Sleep(s)
                              \/ Wait2(s) \/ Wakeup(s) \/ Nice(s)

Spec == Init /\ [][Next]_vars

-----------------------------------------------------------------------------
State == {"UNUSED", "RUNNABLE", "RUNNING", "SLEEPING", "ZOMBIE"}
Proc == [state: State, parent: Slot \cup {None}, ctime: 0..MaxTicks, etime: 0..MaxTicks,
         rtime: 0..MaxTicks, quanta: -MaxTicks..QUANTA, priority: Level, qvalue: 0..MaxTicks]

TypeOK == /\ ptable \in [Slot -> Proc]
          /\ ticks \in 0..MaxTicks /\ now \in 0..ticks
          /\ cur \in Slot \cup {None}
          /\ loop \in {"sample", "lock", "scan", "run", "wild"}
          /\ t \in Slot /\ left \in 0..NPROC
          /\ p \in 0..NPROC \cup {None} /\ head \in 0..NPROC \cup {None}
          /\ tail \in [Slot -> {None} \cup (Slot \X {"ctime", "rest"})]

(* fork writes the times of its child after it has made it RUNNABLE, but   *)
(* never into a slot that was given to somebody else in between.           *)
TailIsOwnChild ==
  \A s, q \in Slot : tail[s] # None /\ tail[s][1] = q =>
    ptable[q].state # "UNUSED" /\ ptable[q].parent = s

Complete(q) == \A s \in Slot : tail[s] = None \/ tail[s][1] # q

(* The clock gives each tick to one process, and to none before its fork   *)
(* is complete: a process never has run longer than it has existed.        *)
RanNoLongerThanLived ==
  \A q \in Slot : Complete(q) /\ ptable[q].state \in {"RUNNABLE", "RUNNING", "SLEEPING"} =>
                  ptable[q].rtime <= ticks - ptable[q].ctime

(* A fork that is not complete writes to its own child; one that is leaves *)
(* times that agree with the clock.                                        *)
TimesOwned == TypeOK /\ TailIsOwnChild /\ RanNoLongerThanLived

Switch(s) == cur = None /\ cur' = s
Waiting(level) == {s \in Slot : ptable[s].state = "RUNNABLE" /\ ptable[s].priority = level}

(* 3Q: nobody runs while somebody of a higher queue is RUNNABLE.           *)
HighestQueueFirst ==
  [][\A s \in Slot : Switch(s) =>
       /\ ptable[s].priority \in {MEDIUM, LOW, -1} => Waiting(HIGH) = {}
       /\ ptable[s].priority \in {LOW, -1} => Waiting(MEDIUM) = {}]_vars
=============================================================================
