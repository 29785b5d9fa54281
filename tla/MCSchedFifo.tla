---------------------------- MODULE MCSchedFifo -----------------------------
(***************************************************************************)
(* Sched with the order in which processes queue up behind each other: a   *)
(* pair <<s, r>> for each s that used its quantum up while r was RUNNABLE  *)
(* in the same first-in-first-out queue.  r leaves that queue when it runs.*)
(* Both forks are complete: until then qvalue is not yet the process's own.*)
(***************************************************************************)
EXTENDS Sched

VARIABLE behind

InQueue(s) == /\ ptable[s].state = "RUNNABLE"
              /\ SCHEDFLAG = "FRR" \/ (SCHEDFLAG = "3Q" /\ ptable[s].priority = MEDIUM)
Settled(s) == InQueue(s) /\ Complete(s)
Preempted(s) == cur = s /\ cur' = None /\ ticks' # ticks

FifoInit == Init /\ behind = {}
FifoNext ==
  /\ Next
  /\ behind' = {pair \in behind : Settled(pair[1])' /\ Settled(pair[2])'}
               \cup {pair \in Slot \X Slot : /\ Preempted(pair[1]) /\ Settled(pair[1])'
                                            /\ Settled(pair[2]) /\ Settled(pair[2])'}
FifoSpec == FifoInit /\ [][FifoNext]_<<vars, behind>>

(* "after executing a process we'll update his queue value to be ticks so  *)
(* it'll be at the end of the queue" (proc.c:506, 513): whoever uses its   *)
(* quantum up runs again after everybody that was in the queue by then.    *)
(* (Except while somebody's qvalue is 0, which Least takes for no minimum.)*)
ToTheEndOfTheQueue ==
  [][(\A q \in Slot : InQueue(q) => ptable[q].qvalue > 0) =>
       \A pair \in behind : ~Switch(pair[1])]_<<vars, behind>>

(* The order in which the policies let processes run: by queue, and within *)
(* a queue by turns.                                                       *)
PolicyKept == HighestQueueFirst /\ ToTheEndOfTheQueue
=============================================================================
