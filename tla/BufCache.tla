------------------------------ MODULE BufCache ------------------------------
(* The buffer cache, bio.c, on top of the disk driver, ide.c.                  *)
(*                                                                             *)
(* A scan of bget under bcache.lock is one step, sleep included; so is what    *)
(* iderw and ideintr do under idelock.  The disk finishes its command, and     *)
(* the interrupt is handled, at any later time.                                *)
(*                                                                             *)
(* Who changes blocks holds one buffer and asks for others, in no one order:   *)
(* log_write holds a block and asks for its place in the log, install_trans    *)
(* the other way round.  It does so between begin_trans and commit_trans, of   *)
(* which the log lets one process at a time; Stray are the processes whose     *)
(* iput changes blocks outside (exit, chdir and exec, see FileSystem).  What   *)
(* the log makes of the blocks is in Log, which has log_write's panics too.    *)
EXTENDS Naturals, FiniteSets, SequencesExt

CONSTANTS Proc,        \* processes in the file system
          Buf,         \* bcache.buf
          Sector,      \* sectors of the one device
          Value,       \* what a sector can hold
          None,        \* no buffer, no sector (dev is -1), no command
          MayHold,     \* buffers a process holds at most at a time
          MaxDirty,    \* buffers the log may have dirty (LOGSIZE)
          Faulty,      \* sectors on which the disk may report an error
          LogBlock,    \* sectors of the log
          Stray        \* processes that change blocks outside a transaction

ASSUME BufCacheAssumption == /\ IsFiniteSet(Buf)
                             /\ IsFiniteSet(Sector)
                             /\ MayHold \in Nat \ {0}
                             /\ MaxDirty \in Nat
                             /\ Faulty \subseteq Sector /\ LogBlock \subseteq Sector
                             /\ Stray \subseteq Proc
                             /\ None \notin Proc \cup Buf \cup Sector
                             /\ None \notin {"busy", "done", "failed"}

VARIABLES
  lru,        \* the list from bcache.head.next on: most recently used first
  sector,     \* b->sector
  flags,      \* b->flags
  data,       \* b->data
  idequeue,   \* requests; the disk works on the first
  command,    \* what the disk is doing: None, "busy", "done" or "failed"
  disk,       \* what is on the disk
  pc,         \* where each process is
  want,       \* the sector it asked bread for
  buf,        \* the buffer it is waiting for or transferring
  held,       \* the buffers bread has given it and brelse not taken back
  intrans,    \* who is in a transaction; log.busy if somebody is
  panicked    \* "bget: no buffers"

vars == <<lru, sector, flags, data, idequeue, command, disk, pc, want, buf, held, intrans, panicked>>
driver == <<idequeue, command, disk>>

Flag == {"BUSY", "VALID", "DIRTY"}

Init ==
  /\ lru = SetToSeq(Buf)
  /\ sector = [b \in Buf |-> None]
  /\ flags = [b \in Buf |-> {}]
  /\ \E v \in Value : data = [b \in Buf |-> v]
  /\ idequeue = <<>>
  /\ command = None
  /\ disk \in [Sector -> Value]
  /\ pc = [p \in Proc |-> "user"]
  /\ want = [p \in Proc |-> None]
  /\ buf = [p \in Proc |-> None]
  /\ held = [p \in Proc |-> {}]
  /\ intrans = {}
  /\ panicked = FALSE

At(p, here) == pc[p] = here /\ ~panicked
Goto(p, there) == pc' = [pc EXCEPT ![p] = there]

\* wakeup(b): bget's sleepers scan again, iderw's test the flags again.
Wakeup(b) ==
  [p \in Proc |-> IF buf[p] # b THEN pc[p]
                  ELSE IF pc[p] = "asleep in bget" THEN "bget"
                  ELSE IF pc[p] = "asleep in iderw" THEN "iderw loop"
                  ELSE pc[p]]

Dirty == {b \in Buf : "DIRTY" \in flags[b]}
-----------------------------------------------------------------------------
(* begin_trans and commit_trans, for which no buffer is held                   *)

BeginTransAnyway(p) ==
  /\ At(p, "user") /\ held[p] = {} /\ p \notin intrans
  /\ intrans' = intrans \cup {p}
  /\ UNCHANGED <<lru, sector, flags, data, driver, pc, want, buf, held, panicked>>

\* begin_trans sleeps while log.busy.
BeginTrans(p) ==
  /\ At(p, "user") /\ held[p] = {}
  /\ intrans = {}
  /\ intrans' = {p}
  /\ UNCHANGED <<lru, sector, flags, data, driver, pc, want, buf, held, panicked>>

\* commit_trans has installed all that was logged before; a stray may add to it too late.
CommitTrans(p) ==
  /\ At(p, "user") /\ held[p] = {}
  /\ p \in intrans
  /\ Stray = {} => Dirty = {}
  /\ intrans' = intrans \ {p}
  /\ UNCHANGED <<lru, sector, flags, data, driver, pc, want, buf, held, panicked>>

\* Who changes blocks.  A stray installs nothing, so it holds blocks of the log only in log_write,
\* where it asks for nothing more, and it gets that far only while somebody's transaction is on.
Changes(p) == p \in intrans \cup Stray
MayAskForMore(p) == p \in intrans \/ (p \in Stray /\ \A b \in held[p] : sector[b] \notin LogBlock)
ReachesLog(p) == p \in intrans \/ (p \in Stray /\ intrans # {})
-----------------------------------------------------------------------------
(* bget and bread                                                              *)

\* Nobody asks for what it holds.
Bread(p, s) ==
  /\ At(p, "user")
  /\ Cardinality(held[p]) < MayHold
  /\ \A b \in held[p] : sector[b] # s
  /\ held[p] # {} => MayAskForMore(p)
  /\ s \in LogBlock => ReachesLog(p)
  /\ want' = [want EXCEPT ![p] = s]
  /\ Goto(p, "bget")
  /\ UNCHANGED <<lru, sector, flags, data, driver, buf, held, intrans, panicked>>

Cached(s) == {b \in Buf : sector[b] = s}

BgetHit(p, b) ==
  /\ At(p, "bget")
  /\ b \in Cached(want[p])
  /\ "BUSY" \notin flags[b]
  /\ flags' = [flags EXCEPT ![b] = @ \cup {"BUSY"}]
  /\ held' = [held EXCEPT ![p] = @ \cup {b}]
  /\ buf' = [buf EXCEPT ![p] = b]
  /\ Goto(p, IF "VALID" \in flags[b] THEN "user" ELSE "iderw")
  /\ UNCHANGED <<lru, sector, data, driver, want, intrans, panicked>>

BgetSleep(p, b) ==
  /\ At(p, "bget")
  /\ b \in Cached(want[p])
  /\ "BUSY" \in flags[b]
  /\ buf' = [buf EXCEPT ![p] = b]
  /\ Goto(p, "asleep in bget")
  /\ UNCHANGED <<lru, sector, flags, data, driver, want, held, intrans, panicked>>

RecyclableDirty(b) == "BUSY" \notin flags[b]

Recyclable(b) == "BUSY" \notin flags[b] /\ "DIRTY" \notin flags[b]

\* The first recyclable buffer from the end of the list on.
LeastRecent(b) == \E i \in DOMAIN lru :
  /\ lru[i] = b /\ Recyclable(b)
  /\ \A j \in DOMAIN lru : j > i => ~Recyclable(lru[j])

Recycle(p, b) ==
  /\ sector' = [sector EXCEPT ![b] = want[p]]
  /\ flags' = [flags EXCEPT ![b] = {"BUSY"}]
  /\ held' = [held EXCEPT ![p] = @ \cup {b}]
  /\ buf' = [buf EXCEPT ![p] = b]
  /\ Goto(p, "iderw")
  /\ UNCHANGED <<lru, data, driver, want, intrans, panicked>>

BgetRecycleStale(p) == At(p, "bget") /\ \E b \in Buf : LeastRecent(b) /\ Recycle(p, b)

BgetRecycle(p) ==
  /\ At(p, "bget")
  /\ Cached(want[p]) = {}
  /\ \E b \in Buf : LeastRecent(b) /\ Recycle(p, b)

BgetPanic(p) ==
  /\ At(p, "bget")
  /\ Cached(want[p]) = {}
  /\ \A b \in Buf : ~Recyclable(b)
  /\ panicked' = TRUE
  /\ UNCHANGED <<lru, sector, flags, data, driver, pc, want, buf, held, intrans>>
-----------------------------------------------------------------------------
(* What the holder of a buffer does with it                                    *)

\* log_write changes the buffer and leaves it dirty for commit_trans.
LogWrite(p, b, v) ==
  /\ At(p, "user") /\ b \in held[p] /\ Changes(p)
  /\ b \in Dirty \/ Cardinality(Dirty) < MaxDirty
  /\ data' = [data EXCEPT ![b] = v]
  /\ flags' = [flags EXCEPT ![b] = @ \cup {"DIRTY"}]
  /\ UNCHANGED <<lru, sector, driver, pc, want, buf, held, intrans, panicked>>

\* The log copies into a buffer, or leaves it as it is, and bwrites it.
Bwrite(p, b, v) ==
  /\ At(p, "user") /\ b \in held[p]
  /\ p \in intrans \/ (p \in Stray /\ sector[b] \in LogBlock)
  /\ data' = [data EXCEPT ![b] = v]
  /\ flags' = [flags EXCEPT ![b] = @ \cup {"DIRTY"}]
  /\ buf' = [buf EXCEPT ![p] = b]
  /\ Goto(p, "iderw")
  /\ UNCHANGED <<lru, sector, driver, want, held, intrans, panicked>>

\* brelse unlinks the buffer and puts it behind the head of the list.
MoveToFront(b) == LET here == CHOOSE i \in DOMAIN lru : lru[i] = b
                  IN  [i \in DOMAIN lru |-> IF i = 1 THEN b
                                             ELSE IF i <= here THEN lru[i - 1] ELSE lru[i]]

Brelse(p, b) ==
  /\ At(p, "user") /\ b \in held[p]
  /\ lru' = MoveToFront(b)
  /\ flags' = [flags EXCEPT ![b] = @ \ {"BUSY"}]
  /\ pc' = Wakeup(b)
  /\ held' = [held EXCEPT ![p] = @ \ {b}]
  /\ UNCHANGED <<sector, data, driver, want, buf, intrans, panicked>>
-----------------------------------------------------------------------------
(* ide.c and the disk                                                          *)

Synced(b) == "VALID" \in flags[b] /\ "DIRTY" \notin flags[b]

\* idestart gives the disk the command for the first request, and the data to write.
Idestart == "busy"

Iderw(p) ==
  /\ At(p, "iderw")
  /\ idequeue' = Append(idequeue, buf[p])
  /\ command' = IF idequeue = <<>> THEN Idestart ELSE command
  /\ Goto(p, "asleep in iderw")
  /\ UNCHANGED <<lru, sector, flags, data, disk, want, buf, held, intrans, panicked>>

IderwLoop(p) ==
  /\ At(p, "iderw loop")
  /\ Goto(p, IF Synced(buf[p]) THEN "user" ELSE "asleep in iderw")
  /\ UNCHANGED <<lru, sector, flags, data, driver, want, buf, held, intrans, panicked>>

\* A sector that was to be written is on the disk; one that was to be read waits
\* in the controller.  Of a command that fails neither is so.
DiskFinishes ==
  /\ command = "busy"
  /\ LET b == Head(idequeue)
     IN  disk' = IF "DIRTY" \in flags[b] THEN [disk EXCEPT ![sector[b]] = data[b]] ELSE disk
  /\ command' = "done"
  /\ UNCHANGED <<lru, sector, flags, data, idequeue, pc, want, buf, held, intrans, panicked>>

DiskErrs ==
  /\ command = "busy"
  /\ sector[Head(idequeue)] \in Faulty
  /\ command' = "failed"
  /\ UNCHANGED <<lru, sector, flags, data, idequeue, disk, pc, want, buf, held, intrans, panicked>>

Ideintr ==
  /\ command \in {"done", "failed"}
  /\ ~panicked
  /\ LET b == Head(idequeue)
     IN  /\ data' = IF "DIRTY" \notin flags[b] /\ command = "done"
                    THEN [data EXCEPT ![b] = disk[sector[b]]] ELSE data
         /\ flags' = [flags EXCEPT ![b] = (@ \cup {"VALID"}) \ {"DIRTY"}]
         /\ pc' = Wakeup(b)
  /\ idequeue' = Tail(idequeue)
  /\ command' = IF idequeue' = <<>> THEN None ELSE Idestart
  /\ UNCHANGED <<lru, sector, disk, want, buf, held, intrans, panicked>>

\* kill wakes a process up wherever it sleeps.
Kill(p) ==
  /\ ~panicked
  /\ pc[p] \in {"asleep in bget", "asleep in iderw"}
  /\ Goto(p, IF pc[p] = "asleep in bget" THEN "bget" ELSE "iderw loop")
  /\ UNCHANGED <<lru, sector, flags, data, driver, want, buf, held, intrans, panicked>>
-----------------------------------------------------------------------------
Step(p) ==
  \/ \E b \in Buf : BgetHit(p, b) \/ BgetSleep(p, b)
  \/ BgetRecycle(p) \/ BgetPanic(p)
  \/ Iderw(p) \/ IderwLoop(p)

Use(p) ==
  \/ BeginTrans(p) \/ CommitTrans(p)
  \/ \E s \in Sector : Bread(p, s)
  \/ \E b \in Buf, v \in Value : LogWrite(p, b, v) \/ Bwrite(p, b, v)
  \/ \E b \in Buf : Brelse(p, b)

Next ==
  \/ \E p \in Proc : Step(p) \/ Use(p) \/ Kill(p)
  \/ DiskFinishes \/ DiskErrs \/ Ideintr

Spec == Init /\ [][Next]_vars
-----------------------------------------------------------------------------
(* Properties                                                                  *)

Places == {"user", "bget", "asleep in bget", "iderw", "asleep in iderw", "iderw loop"}

\* Types of struct buf, of the queue (ide.c:26-27) and of the processes.
TypeOK ==
  /\ lru \in [1..Cardinality(Buf) -> Buf] /\ ToSet(lru) = Buf
  /\ sector \in [Buf -> Sector \cup {None}]
  /\ flags \in [Buf -> SUBSET Flag]
  /\ data \in [Buf -> Value]
  /\ idequeue \in Seq(Buf)
  /\ command \in {None, "busy", "done", "failed"}
  /\ disk \in [Sector -> Value]
  /\ pc \in [Proc -> Places]
  /\ want \in [Proc -> Sector \cup {None}]
  /\ buf \in [Proc -> Buf \cup {None}]
  /\ held \in [Proc -> SUBSET Buf]
  /\ intrans \in SUBSET Proc
  /\ panicked \in BOOLEAN

\* "Only one process at a time can use a buffer" (bio.c:13) and no sector has two
\* buffers, whoever looked for it at the same time (bio.c:66-91).
OneBufferOneUser ==
  /\ \A b, c \in Buf : b # c => sector[b] # sector[c] \/ sector[b] = None
  /\ \A p, q \in Proc : p # q => held[p] \cap held[q] = {}
  /\ \A b \in Buf : "BUSY" \in flags[b] <=> \E p \in Proc : b \in held[p]

\* Nobody sleeps for what has already happened (bio.c:77, ide.c:151): who sleeps in
\* bget sleeps on a buffer that is in use for its sector, who sleeps in iderw on one
\* that is queued, and the disk works while the queue is not empty.
SleepersWaitForSomebody ==
  /\ \A p \in Proc :
       /\ pc[p] = "asleep in bget" => /\ "BUSY" \in flags[buf[p]]
                                      /\ sector[buf[p]] = want[p]
       /\ pc[p] = "asleep in iderw" => buf[p] \in ToSet(idequeue)
  /\ command = None <=> idequeue = <<>>

\* "bget: no buffers" (bio.c:92) comes true only when every buffer is in somebody's
\* hands or kept for the log: no brelse is forgotten and no buffer lost from the list.
PanicsOnlyWhenFull ==
  panicked => \A b \in Buf : "DIRTY" \in flags[b] \/ \E p \in Proc : b \in held[p]

\* No buffer goes astray: each has one sector and one user, is given back, and
\* wakes who waits for it.
NoBufferAstray == TypeOK /\ OneBufferOneUser /\ SleepersWaitForSomebody /\ PanicsOnlyWhenFull

Sound == Sector \ Faulty

\* The sector as the next one to read it will find it.
Content == [s \in Sound |->
  IF \E b \in Cached(s) : "VALID" \in flags[b] \/ "DIRTY" \in flags[b]
  THEN data[CHOOSE b \in Cached(s) : TRUE] ELSE disk[s]]

Users == [s \in Sound |-> {p \in Proc : \E b \in held[p] : sector[b] = s}]

Shared == INSTANCE SharedBlocks WITH Sector <- Sound, content <- Content, users <- Users

\* The cache implements blocks that one process at a time uses and that keep what
\* was last written to them, whatever is evicted, whenever the disk gets to it, and
\* whatever happens to the sectors on which it fails.
SharesBlocks == Shared!Spec

\* "Return a B_BUSY buf with the contents of the indicated disk sector" (bio.c:95).
ReadsTheSector ==
  \A p \in Proc : \A b \in held[p] :
    (At(p, "user") /\ "DIRTY" \notin flags[b]) => data[b] = disk[sector[b]]

\* Processes that hold buffers and ask for more do not wait for one another in a circle, though
\* log_write (log.c:174) and install_trans (log.c:75-76) ask in opposite orders: of any processes
\* one waits for none of them.  It is begin_trans that sees to that, so Stray must be empty.
NoCircularWait ==
  \A stuck \in (SUBSET Proc) \ {{}} :
    \E p \in stuck : pc[p] = "asleep in bget" => \A q \in stuck : buf[p] \notin held[q]
=============================================================================
