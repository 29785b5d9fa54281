-------------------------------- MODULE Log --------------------------------
(* The file system's redo log, log.c, over the buffer cache and a disk that    *)
(* may lose power between any two sector writes.                               *)
(*                                                                             *)
(* A sector write (bwrite and the wait for ide.c to finish it) is one step and *)
(* is atomic; everything between two of them may be interleaved with other     *)
(* processes.  A process holds a buffer from bread to brelse (B_BUSY); a       *)
(* buffer that is neither held nor dirty may leave the cache at any time.      *)
(* log.lock is held across begin_trans' test and commit_trans' release, each   *)
(* of which is therefore one step.                                             *)
(*                                                                             *)
(* Processes in Stray do what exit does at proc.c:198, sys_chdir at            *)
(* sysfile.c:372 and exec at exec.c:49: an iput outside every transaction,     *)
(* which may free blocks with log_write.                                       *)
EXTENDS Naturals, FiniteSets

CONSTANTS Proc,       \* processes that call into the file system
          Boot,       \* the one that runs initlog (forkret, proc.c:530)
          Stray,      \* those that write outside a transaction
          Block,      \* the sectors outside the log
          Value,      \* what a sector can hold
          NoValue,    \* a block that is not in the cache
          None,       \* no process, or a sector number never written
          LogSize,    \* the lesser of LOGSIZE and log.size - 1
          MaxWrites   \* log_write calls a transaction makes at most

ASSUME LogAssumption == /\ LogSize \in Nat \ {0}
                        /\ MaxWrites \in 0..LogSize
                        /\ Boot \in Proc
                        /\ Stray \subseteq Proc
                        /\ NoValue \notin Value
                        /\ None \notin Proc
                        /\ None \notin Block

VARIABLES
  disk,      \* the home sectors
  diskLog,   \* the log's data sectors
  head,      \* the log's header sector
  cache,     \* buffer data, NoValue when the block is not cached
  dirty,     \* blocks whose buffer has B_DIRTY
  holder,    \* who holds the buffer, B_BUSY
  busy,      \* log.busy
  lh,        \* log.lh, the header in memory
  pc,        \* where each process is
  block,     \* the buffer a process holds
  idx,       \* i of log_write, tail of install_trans
  writes     \* log_write calls of the transaction so far

vars == <<disk, diskLog, head, cache, dirty, holder, busy, lh, pc, block, idx, writes>>
onDisk == <<disk, diskLog, head>>
buffers == <<cache, dirty, holder>>
locals == <<block, idx, writes>>

Slot == 1..LogSize
Header == [n : 0..LogSize, sector : [Slot -> Block \cup {None}]]

Init ==
  /\ disk \in [Block -> Value]
  /\ diskLog \in [Slot -> Value]
  /\ head = [n |-> 0, sector |-> [i \in Slot |-> None]]
  /\ cache = [b \in Block |-> NoValue]
  /\ dirty = {}
  /\ holder = [b \in Block |-> None]
  /\ busy = FALSE
  /\ lh = [n |-> 0, sector |-> [i \in Slot |-> None]]
  /\ pc = [p \in Proc |-> IF p = Boot THEN "read head" ELSE "unborn"]
  /\ block = [p \in Proc |-> None]
  /\ idx = [p \in Proc |-> 1]
  /\ writes = [p \in Proc |-> 0]

At(p, here) == pc[p] = here
Goto(p, there) == pc' = [pc EXCEPT ![p] = there]

\* The header with the first n sectors of another one.
CopyHead(to, from) ==
  [n |-> from.n,
   sector |-> [i \in Slot |-> IF i <= from.n THEN from.sector[i] ELSE to.sector[i]]]

-----------------------------------------------------------------------------
(* The buffer cache, as far as the log depends on it.                          *)

Recovered == \A p \in Proc : pc[p] \notin {"unborn", "read head", "recover", "recover erase"}

\* bread and brelse of a call that only reads.
Read(b) ==
  /\ Recovered
  /\ holder[b] = None
  /\ cache[b] = NoValue
  /\ cache' = [cache EXCEPT ![b] = disk[b]]
  /\ UNCHANGED <<onDisk, dirty, holder, busy, lh, pc, locals>>

\* bget recycles the buffer for another block.
Evict(b) ==
  /\ holder[b] = None
  /\ b \notin dirty
  /\ cache[b] # NoValue
  /\ cache' = [cache EXCEPT ![b] = NoValue]
  /\ UNCHANGED <<onDisk, dirty, holder, busy, lh, pc, locals>>

-----------------------------------------------------------------------------
(* initlog                                                                     *)

ReadHead(p) ==
  /\ At(p, "read head")
  /\ lh' = CopyHead(lh, head)
  /\ idx' = [idx EXCEPT ![p] = 1]
  /\ Goto(p, "recover")
  /\ UNCHANGED <<onDisk, buffers, busy, block, writes>>

-----------------------------------------------------------------------------
(* begin_trans and commit_trans                                                *)

Call(p) ==
  /\ At(p, "idle")
  /\ p \notin Stray
  /\ Goto(p, "begin")
  /\ UNCHANGED <<onDisk, buffers, busy, lh, locals>>

BeginSleep(p) ==
  /\ At(p, "begin")
  /\ busy
  /\ Goto(p, "asleep")
  /\ UNCHANGED <<onDisk, buffers, busy, lh, locals>>

\* Mutant: an installation before the commit point.
CommitUnlogged(p) ==
  /\ At(p, "in")
  /\ Goto(p, IF lh.n > 0 THEN "install" ELSE "end")
  /\ idx' = [idx EXCEPT ![p] = 1]
  /\ UNCHANGED <<onDisk, buffers, busy, lh, block, writes>>

Begin(p) ==
  /\ At(p, "begin")
  /\ ~busy
  /\ busy' = TRUE
  /\ writes' = [writes EXCEPT ![p] = 0]
  /\ Goto(p, "in")
  /\ UNCHANGED <<onDisk, buffers, lh, block, idx>>

\* commit_trans does nothing on disk for a transaction that wrote nothing.
Commit(p) ==
  /\ At(p, "in")
  /\ Goto(p, IF lh.n > 0 THEN "head" ELSE "end")
  /\ UNCHANGED <<onDisk, buffers, busy, lh, locals>>

\* The commit point.
WriteHead(p) ==
  /\ At(p, "head")
  /\ head' = CopyHead(head, lh)
  /\ idx' = [idx EXCEPT ![p] = 1]
  /\ Goto(p, "install")
  /\ UNCHANGED <<disk, diskLog, buffers, busy, lh, block, writes>>

\* One round of install_trans; bread waits for the holder of the buffer.
Install(p) ==
  LET b == lh.sector[idx[p]]
  IN  /\ pc[p] \in {"install", "recover"}
      /\ idx[p] <= lh.n
      /\ holder[b] = None
      /\ disk' = [disk EXCEPT ![b] = diskLog[idx[p]]]
      /\ cache' = [cache EXCEPT ![b] = diskLog[idx[p]]]
      /\ dirty' = dirty \ {b}
      /\ idx' = [idx EXCEPT ![p] = @ + 1]
      /\ UNCHANGED <<diskLog, head, holder, busy, lh, pc, block, writes>>

InstallEnd(p) ==
  /\ pc[p] \in {"install", "recover"}
  /\ idx[p] > lh.n
  /\ lh' = [lh EXCEPT !.n = 0]
  /\ Goto(p, IF At(p, "install") THEN "erase" ELSE "recover erase")
  /\ UNCHANGED <<onDisk, buffers, busy, locals>>

\* Mutant: the log stays on disk.
EraseNothing(p) ==
  /\ At(p, "erase")
  /\ Goto(p, "end")
  /\ UNCHANGED <<onDisk, buffers, busy, lh, locals>>

EraseHead(p) ==
  /\ At(p, "erase")
  /\ head' = CopyHead(head, lh)
  /\ Goto(p, "end")
  /\ UNCHANGED <<disk, diskLog, buffers, busy, lh, locals>>

\* The end of initlog; only now there are other processes.
RecoverErase(p) ==
  /\ At(p, "recover erase")
  /\ head' = CopyHead(head, lh)
  /\ pc' = [q \in Proc |-> "idle"]
  /\ UNCHANGED <<disk, diskLog, buffers, busy, lh, locals>>

\* wakeup(&log): the sleepers test log.busy again.
Woken == [q \in Proc |-> IF pc[q] = "asleep" THEN "begin" ELSE pc[q]]

End(p) ==
  /\ At(p, "end")
  /\ busy' = FALSE
  /\ pc' = [Woken EXCEPT ![p] = "idle"]
  /\ UNCHANGED <<onDisk, buffers, lh, locals>>

-----------------------------------------------------------------------------
(* bread, a change of the data, log_write, brelse                              *)

\* What callers such as filewrite take care of (file.c:126-132).
MayWrite(p) == writes[p] < MaxWrites

Modify(p, b, v) ==
  /\ \/ At(p, "in") /\ MayWrite(p)
     \/ At(p, "idle") /\ p \in Stray
  /\ holder[b] = None
  /\ holder' = [holder EXCEPT ![b] = p]
  /\ cache' = [cache EXCEPT ![b] = v]
  /\ block' = [block EXCEPT ![p] = b]
  /\ Goto(p, "log_write")
  /\ UNCHANGED <<onDisk, dirty, busy, lh, idx, writes>>

\* Mutant: one too early.
LogFullEarly == lh.n >= LogSize - 1

LogFull == lh.n >= LogSize
Panics == LogFull \/ ~busy

LogWritePanic(p) ==
  /\ Goto(p, "panic")
  /\ UNCHANGED <<onDisk, buffers, busy, lh, locals>>

\* The slot the block has in the log, or else the next one.
Logged(b) == \E i \in 1..lh.n : lh.sector[i] = b
SlotOf(b) == IF Logged(b)
             THEN CHOOSE i \in 1..lh.n : lh.sector[i] = b /\ \A j \in 1..(i - 1) : lh.sector[j] # b
             ELSE lh.n + 1

LogSlot(p) ==
  /\ idx' = [idx EXCEPT ![p] = SlotOf(block[p])]
  /\ lh' = [lh EXCEPT !.sector[SlotOf(block[p])] = block[p]]
  /\ Goto(p, "append")
  /\ UNCHANGED <<onDisk, buffers, busy, block, writes>>

LogWrite(p) ==
  /\ At(p, "log_write")
  /\ IF Panics THEN LogWritePanic(p) ELSE LogSlot(p)

Append(p) ==
  /\ At(p, "append")
  /\ diskLog' = [diskLog EXCEPT ![idx[p]] = cache[block[p]]]
  /\ Goto(p, "count")
  /\ UNCHANGED <<disk, head, buffers, busy, lh, locals>>

\* Mutant: the buffer may be evicted.
CountClean(p) ==
  /\ At(p, "count")
  /\ lh' = [lh EXCEPT !.n = IF idx[p] = @ + 1 THEN @ + 1 ELSE @]
  /\ holder' = [holder EXCEPT ![block[p]] = None]
  /\ block' = [block EXCEPT ![p] = None]
  /\ writes' = [writes EXCEPT ![p] = IF p \in Stray THEN @ ELSE @ + 1]
  /\ Goto(p, IF p \in Stray THEN "idle" ELSE "in")
  /\ UNCHANGED <<onDisk, cache, dirty, busy, idx>>

Count(p) ==
  /\ At(p, "count")
  /\ lh' = [lh EXCEPT !.n = IF idx[p] = @ + 1 THEN @ + 1 ELSE @]
  /\ dirty' = dirty \cup {block[p]}
  /\ holder' = [holder EXCEPT ![block[p]] = None]
  /\ block' = [block EXCEPT ![p] = None]
  /\ writes' = [writes EXCEPT ![p] = IF p \in Stray THEN @ ELSE @ + 1]
  /\ Goto(p, IF p \in Stray THEN "idle" ELSE "in")
  /\ UNCHANGED <<onDisk, cache, busy, idx>>

-----------------------------------------------------------------------------
\* Power fails: the disk stays, and the machine boots again.
Crash ==
  /\ cache' = [b \in Block |-> NoValue]
  /\ dirty' = {}
  /\ holder' = [b \in Block |-> None]
  /\ busy' = FALSE
  /\ lh' = [n |-> 0, sector |-> [i \in Slot |-> None]]
  /\ pc' = [p \in Proc |-> IF p = Boot THEN "read head" ELSE "unborn"]
  /\ block' = [p \in Proc |-> None]
  /\ idx' = [p \in Proc |-> 1]
  /\ writes' = [p \in Proc |-> 0]
  /\ UNCHANGED onDisk

Step(p) ==
  \/ ReadHead(p) \/ RecoverErase(p)
  \/ BeginSleep(p) \/ Begin(p)
  \/ Commit(p) \/ WriteHead(p) \/ Install(p) \/ InstallEnd(p) \/ EraseHead(p) \/ End(p)
  \/ LogWrite(p) \/ Append(p) \/ Count(p)

Next ==
  \/ \E b \in Block : Read(b) \/ Evict(b)
  \/ \E p \in Proc : Step(p) \/ Call(p) \/ \E b \in Block, v \in Value : Modify(p, b, v)
  \/ Crash

Spec == Init /\ [][Next]_vars

-----------------------------------------------------------------------------
(* Properties                                                                  *)

Locations == {"unborn", "read head", "recover", "recover erase", "idle", "begin",
              "asleep", "in", "log_write", "append", "count", "head", "install",
              "erase", "end", "panic"}

\* The types of the log's, the cache's and the processes' state (log.c:34-49).
TypeOK ==
  /\ disk \in [Block -> Value]
  /\ diskLog \in [Slot -> Value]
  /\ head \in Header
  /\ cache \in [Block -> Value \cup {NoValue}]
  /\ dirty \subseteq Block
  /\ holder \in [Block -> Proc \cup {None}]
  /\ busy \in BOOLEAN
  /\ lh \in Header
  /\ pc \in [Proc -> Locations]
  /\ block \in [Proc -> Block \cup {None}]
  /\ idx \in [Proc -> 1..(LogSize + 1)]
  /\ writes \in [Proc -> 0..MaxWrites]

\* What a crash leaves: the home sectors under the log's committed blocks.
Stable == [b \in Block |-> IF \E i \in 1..head.n : head.sector[i] = b
                           THEN diskLog[CHOOSE i \in 1..head.n : head.sector[i] = b]
                           ELSE disk[b]]

\* What the open transaction has in the log.
Pending == [b \in Block |-> IF head.n = 0 /\ Logged(b) THEN diskLog[SlotOf(b)] ELSE NoValue]

Phase == IF ~busy THEN "closed"
         ELSE IF \E p \in Proc : pc[p] \in {"install", "erase", "end"} THEN "committed"
         ELSE "open"

Promise == INSTANCE AtomicDisk WITH phase <- Phase, stable <- Stable, pending <- Pending

\* Every step of the log is a step of the atomic disk: whatever sector write the
\* power fails after, in a transaction, a commit, an installation or a recovery,
\* the blocks are those of whole transactions (log.c:11-13, log.c:98-100).
Atomic == Promise!Spec

\* The block a read-only call finds.
Seen(b) == IF cache[b] = NoValue THEN disk[b] ELSE cache[b]

\* Who reads a block that nobody holds gets what the transactions so far, and the
\* open one, last wrote: neither the eviction of a buffer (B_DIRTY, log.c:180) nor
\* an installation nor a recovery brings an older value back.  While initlog
\* recovers, no call reads.
ReadsSeeTheLastWrite ==
  Recovered =>
    \A b \in Block : holder[b] = None =>
      Seen(b) = IF Pending[b] = NoValue THEN Stable[b] ELSE Pending[b]

\* Calls that stay within the log's size, and write only inside a transaction,
\* never run into the panics of log_write (log.c:164-167).
NoPanic == \A p \in Proc : pc[p] # "panic"

InTransaction(p) == pc[p] \in {"in", "log_write", "append", "count", "head", "install", "erase", "end"}

\* Whoever sleeps in begin_trans waits for a process that has the transaction (or
\* panicked in it): the wakeup of the last one to leave is not lost (log.c:128-129,
\* log.c:146-147).
SleepersWaitForSomebody ==
  (\E p \in Proc : pc[p] = "asleep") =>
    busy /\ \E p \in Proc \ Stray : InTransaction(p) \/ pc[p] = "panic"

\* The calls that use begin_trans exclude one another, whatever the others write
\* (log.c:127-132).
CallersExclude ==
  \A p, q \in Proc \ Stray : InTransaction(p) /\ InTransaction(q) => p = q

\* "begin_trans() ensures that only one system call can be in a transaction;
\* others must wait" (log.c:13-14).
OneCallInTransaction ==
  \A p, q \in Proc : InTransaction(p) /\ InTransaction(q) => p = q

\* Fairness: the scheduler runs every process that can run again and again
\* (proc.c:373), and the disk finishes every request.  Nothing makes a process call,
\* write or power fail.
Fairness == \A p \in Proc : WF_vars(Step(p))
FairSpec == Spec /\ Fairness

\* If power stops failing, every transaction ends and the log on disk is erased
\* again, whatever crashes came before (log.c:141-148, log.c:120-121).
TransactionsEnd == <>[][~Crash]_vars => []<>(head.n = 0 /\ ~busy)
=============================================================================
