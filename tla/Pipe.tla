-------------------------------- MODULE Pipe --------------------------------
(* One pipe of pipe.c, its readers and its writers.  The bytes move one at a   *)
(* time under p->lock, which sleep gives up and takes again.  Both counters    *)
(* wrap around; PIPESIZE divides what they wrap at.  A process has the ends    *)
(* its descriptors name; the last descriptor of an end that goes closes it.    *)
EXTENDS Naturals, FiniteSets, Sequences

CONSTANTS Proc,      \* processes that have inherited the pipe
          Killable,  \* those that another one may kill
          NoProc,    \* p->lock is free
          Byte,      \* what can be written
          PipeSize,  \* PIPESIZE
          Wrap,      \* 2^32: where nread and nwrite wrap around
          Count      \* how many bytes a call may ask for

ASSUME PipeAssumption == /\ PipeSize \in Nat \ {0}
                         /\ Wrap \in Nat /\ Wrap % PipeSize = 0 /\ Wrap > PipeSize
                         /\ Count \subseteq Nat \ {0}
                         /\ Killable \subseteq Proc
                         /\ Proc # {} /\ NoProc \notin Proc

VARIABLES
  data, nread, nwrite, readopen, writeopen,  \* struct pipe
  lock,                                      \* who holds p->lock
  freed,                                     \* how often the page went to kfree
  fds,                                       \* the ends each process has open
  killed,                                    \* proc->killed
  pc,                                        \* where each process is
  side, n, i                                 \* its call, with n and i

vars == <<data, nread, nwrite, readopen, writeopen, lock, freed, fds, killed, pc, side, n, i>>
pipe == <<data, nread, nwrite>>
ends == <<readopen, writeopen, freed, fds>>
call == <<side, n, i>>

End == {"read", "write"}

Index == 0..(Wrap - 1)

Init ==
  /\ data \in [0..(PipeSize - 1) -> Byte]
  /\ nread = 0 /\ nwrite = 0
  /\ readopen = TRUE /\ writeopen = TRUE
  /\ lock = NoProc
  /\ freed = 0
  /\ fds = [p \in Proc |-> End]
  /\ killed = {}
  /\ pc = [p \in Proc |-> "user"]
  /\ side = [p \in Proc |-> "read"]
  /\ n = [p \in Proc |-> 0]
  /\ i = [p \in Proc |-> 0]

At(p, here) == pc[p] = here
In(p, end, here) == side[p] = end /\ pc[p] = here
Goto(p, there) == pc' = [pc EXCEPT ![p] = there]

\* The loops stop after n bytes.
More(p) == i[p] < n[p]

Empty == nread = nwrite
FullByOne == nwrite = (nread + PipeSize + 1) % Wrap
Full == nwrite = (nread + PipeSize) % Wrap


\* wakeup(chan): everybody that sleeps there goes on to acquire p->lock again.
Wakeup(places, chan) ==
  [p \in Proc |-> IF places[p] = "asleep" /\ side[p] = chan THEN "lock" ELSE places[p]]
-----------------------------------------------------------------------------
(* System calls and the trap that ends a killed process                        *)

\* A read waits on &p->nread and a write on &p->nwrite: the side names the channel.
Call(p, end) ==
  /\ At(p, "user") /\ p \notin killed
  /\ end \in fds[p]
  /\ \E count \in Count : n' = [n EXCEPT ![p] = count]
  /\ i' = [i EXCEPT ![p] = 0]
  /\ side' = [side EXCEPT ![p] = end]
  /\ Goto(p, "lock")
  /\ UNCHANGED <<pipe, ends, lock, killed>>

Acquire(p) ==
  /\ At(p, "lock")
  /\ lock = NoProc
  /\ lock' = p
  /\ Goto(p, "loop")
  /\ UNCHANGED <<pipe, ends, killed, call>>

\* fileclose of the last descriptor of an end calls pipeclose; a killed process
\* closes what it has in exit.
EachOne(p, end) == TRUE
LastOf(p, end) == \A q \in Proc \ {p} : end \notin fds[q]

Close(p, end) ==
  /\ At(p, "user")
  /\ end \in fds[p]
  /\ fds' = [fds EXCEPT ![p] = @ \ {end}]
  /\ IF LastOf(p, end)
     THEN /\ lock = NoProc
          /\ IF end = "write"
             THEN /\ writeopen' = FALSE
                  /\ pc' = Wakeup(pc, "read")
                  /\ UNCHANGED readopen
             ELSE /\ readopen' = FALSE
                  /\ pc' = Wakeup(pc, "write")
                  /\ UNCHANGED writeopen
          /\ freed' = IF readopen' \/ writeopen' THEN freed ELSE freed + 1
     ELSE UNCHANGED <<readopen, writeopen, freed, pc>>
  /\ UNCHANGED <<pipe, lock, killed, call>>

\* kill(pid) makes a sleeper runnable; it does not take p->lock.
Kill(p) ==
  /\ p \in Killable \ killed
  /\ killed' = killed \cup {p}
  /\ pc' = [pc EXCEPT ![p] = IF @ = "asleep" THEN "lock" ELSE @]
  /\ UNCHANGED <<pipe, ends, lock, call>>
-----------------------------------------------------------------------------
(* pipewrite                                                                   *)

WriteByte(p, b) ==
  /\ In(p, "write", "loop")
  /\ More(p)
  /\ ~Full
  /\ data' = [data EXCEPT ![nwrite % PipeSize] = b]
  /\ nwrite' = (nwrite + 1) % Wrap
  /\ i' = [i EXCEPT ![p] = @ + 1]
  /\ UNCHANGED <<nread, ends, lock, killed, pc, side, n>>

\* Nobody will ever make room, or the writer is to die.
WriteFails(p) ==
  /\ In(p, "write", "loop")
  /\ More(p) /\ Full
  /\ ~readopen \/ p \in killed
  /\ lock' = NoProc
  /\ Goto(p, "user")
  /\ UNCHANGED <<pipe, ends, killed, call>>

WriteWaitsSilently(p) ==
  /\ In(p, "write", "loop")
  /\ More(p) /\ Full
  /\ readopen /\ p \notin killed
  /\ Goto(p, "sleep")
  /\ UNCHANGED <<pipe, ends, lock, killed, call>>

WriteWaits(p) ==
  /\ In(p, "write", "loop")
  /\ More(p) /\ Full
  /\ readopen /\ p \notin killed
  /\ pc' = [Wakeup(pc, "read") EXCEPT ![p] = "sleep"]
  /\ UNCHANGED <<pipe, ends, lock, killed, call>>

WriteEnds(p) ==
  /\ In(p, "write", "loop")
  /\ ~More(p)
  /\ pc' = [Wakeup(pc, "read") EXCEPT ![p] = "user"]
  /\ lock' = NoProc
  /\ UNCHANGED <<pipe, ends, killed, call>>

\* sleep: the process is SLEEPING, and p->lock free, in one step for whoever
\* takes p->lock or wakes sleepers up (ptable.lock).
Sleep(p) ==
  /\ At(p, "sleep")
  /\ lock' = NoProc
  /\ Goto(p, "asleep")
  /\ UNCHANGED <<pipe, ends, killed, call>>
-----------------------------------------------------------------------------
(* piperead                                                                    *)

ReadFails(p) ==
  /\ In(p, "read", "loop")
  /\ Empty /\ writeopen
  /\ p \in killed
  /\ lock' = NoProc
  /\ Goto(p, "user")
  /\ UNCHANGED <<pipe, ends, killed, call>>

ReadWaits(p) ==
  /\ In(p, "read", "loop")
  /\ Empty /\ writeopen
  /\ p \notin killed
  /\ Goto(p, "sleep")
  /\ UNCHANGED <<pipe, ends, lock, killed, call>>

ReadStartsKilled(p) ==
  /\ In(p, "read", "loop")
  /\ ~Empty \/ ~writeopen \/ p \in killed
  /\ Goto(p, "copy")
  /\ UNCHANGED <<pipe, ends, lock, killed, call>>

ReadStarts(p) ==
  /\ In(p, "read", "loop")
  /\ ~Empty \/ ~writeopen
  /\ Goto(p, "copy")
  /\ UNCHANGED <<pipe, ends, lock, killed, call>>

ReadByte(p) ==
  /\ At(p, "copy")
  /\ More(p) /\ ~Empty
  /\ nread' = (nread + 1) % Wrap
  /\ i' = [i EXCEPT ![p] = @ + 1]
  /\ UNCHANGED <<data, nwrite, ends, lock, killed, pc, side, n>>

\* The call returns i; 0 is the end of the file.
ReadEnds(p) ==
  /\ At(p, "copy")
  /\ ~More(p) \/ Empty
  /\ pc' = [Wakeup(pc, "write") EXCEPT ![p] = "user"]
  /\ lock' = NoProc
  /\ UNCHANGED <<pipe, ends, killed, call>>
-----------------------------------------------------------------------------
Work(p) ==
  \/ \E b \in Byte : WriteByte(p, b)
  \/ WriteFails(p) \/ WriteWaits(p) \/ WriteEnds(p)
  \/ ReadFails(p) \/ ReadWaits(p) \/ ReadStarts(p) \/ ReadByte(p) \/ ReadEnds(p)
  \/ Sleep(p) \/ Acquire(p)

Next ==
  \E p \in Proc :
    \/ Work(p)
    \/ \E end \in End : Call(p, end) \/ Close(p, end)
    \/ Kill(p)

Spec == Init /\ [][Next]_vars
-----------------------------------------------------------------------------
(* Properties                                                                  *)

Places == {"user", "lock", "loop", "copy", "sleep", "asleep"}

\* Types of struct pipe (pipe.c:12-19) and of the processes in its calls.
TypeOK ==
  /\ data \in [0..(PipeSize - 1) -> Byte]
  /\ nread \in Index /\ nwrite \in Index
  /\ readopen \in BOOLEAN /\ writeopen \in BOOLEAN
  /\ lock \in Proc \cup {NoProc}
  /\ freed \in 0..1
  /\ fds \in [Proc -> SUBSET End]
  /\ killed \subseteq Killable
  /\ pc \in [Proc -> Places]
  /\ side \in [Proc -> End]
  /\ n \in [Proc -> Count \cup {0}] /\ i \in [Proc -> Nat]
  /\ \A p \in Proc : i[p] <= n[p]

Size == (nwrite + Wrap - nread) % Wrap
Contents == [k \in 1..Size |-> data[(nread + k - 1) % PipeSize]]

Queue == INSTANCE Fifo WITH Capacity <- PipeSize, queue <- Contents

\* The bytes come out in the order they went in, none lost, doubled or invented,
\* also when the counters wrap around and when calls are killed half way
\* (pipe.c:84, pipe.c:92, pipe.c:113-115).
IsFifo == Queue!Spec

\* A read returns 0 only when the pipe is empty and no descriptor that could write
\* to it is left (pipe.c:105, pipe.c:112-119): it is not taken for the end of the
\* file that another reader was faster.
EndOfFile == \A p \in Proc : (At(p, "copy") /\ Empty /\ i[p] = 0)
               => \A q \in Proc : "write" \notin fds[q]

\* The page is given back when the last descriptor goes and not before, and nobody
\* is in a call on it then (pipe.c:69-73).
FreedAtTheEnd ==
  /\ freed = 1 <=> \A p \in Proc : fds[p] = {}
  /\ freed = 1 => lock = NoProc /\ \A p \in Proc : At(p, "user")

\* "guaranteed that we won't miss any wakeup" (proc.c:562-564): while nobody has
\* p->lock, and so is about to change that, a reader sleeps only on an empty pipe
\* that can still be written, and a writer only on a full one that can be read.
\* (A killed writer leaves a full pipe without the wakeup, pipe.c:85-88: readers are
\* sure of theirs only if nobody is killed.)
ReadersWokenUp ==
  lock = NoProc /\ killed = {} /\ (\E p \in Proc : In(p, "read", "asleep")) => Empty /\ writeopen
WritersWokenUp ==
  lock = NoProc /\ (\E p \in Proc : In(p, "write", "asleep")) => Full /\ readopen

\* Nobody sleeps on for what has happened, readers or writers (and all is of its type).
SleepersWokenUp == TypeOK /\ ReadersWokenUp /\ WritersWokenUp
=============================================================================
