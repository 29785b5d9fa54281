----------------------------- MODULE LogProofs -----------------------------
(* For every number of processes, of blocks and of log sectors: the types, the *)
(* exclusion of the calls that use begin_trans, and, when no process writes    *)
(* outside a transaction, that log_write never panics and that the log is an   *)
(* atomic disk.                                                                *)
EXTENDS Log, WellFoundedInduction, TLAPS

Recovering(p) == pc[p] \in {"read head", "recover", "recover erase"}
Writing(p) == pc[p] \in {"log_write", "append", "count"}
Committing(p) == pc[p] \in {"head", "install", "erase", "end"}

(* The buffer a process is about to log is its own and has data.               *)
BufferInv == \A p \in Proc : Writing(p) =>
               /\ block[p] \in Block
               /\ holder[block[p]] = p
               /\ cache[block[p]] \in Value
               /\ pc[p] \in {"append", "count"} => idx[p] \in Slot
               /\ p \notin Stray => writes[p] < MaxWrites

(* Until initlog is done there is only the process that runs it.               *)
BootInv == \A p \in Proc : Recovering(p) =>
             p = Boot /\ \A q \in Proc : q # p => pc[q] = "unborn"

(* Who writes outside a transaction never begins one.                          *)
StrayInv == \A p \in Stray : pc[p] \notin {"begin", "asleep", "in"} /\ ~Committing(p)

ExcludeInv == \A p \in Proc \ Stray : InTransaction(p) =>
                busy /\ \A q \in Proc \ Stray : InTransaction(q) => p = q

(* A header names each block once.                                             *)
Distinct(h) == \A i, j \in 1..h.n : h.sector[i] = h.sector[j] => i = j
Sectors(h) == \A i \in 1..h.n : h.sector[i] \in Block
HeaderInv == Distinct(head) /\ Sectors(head) /\ Distinct(lh) /\ Sectors(lh)

(* What each place of the code knows of the log.                               *)
Appending(p) == /\ idx[p] <= lh.n + 1
                /\ lh.n < LogSize
                /\ lh.sector[idx[p]] = block[p]
                /\ \A i \in 1..lh.n : lh.sector[i] = block[p] => i = idx[p]
Installing(p) == /\ lh.n = head.n
                 /\ \A i \in 1..head.n : lh.sector[i] = head.sector[i]
                 /\ \A i \in 1..head.n : i < idx[p] => disk[head.sector[i]] = diskLog[i]
Installed == \A i \in 1..head.n : disk[head.sector[i]] = diskLog[i]

Place(p) ==
  /\ pc[p] = "in" \/ Writing(p) => head.n = 0 /\ lh.n <= writes[p]
  /\ pc[p] \in {"append", "count"} => Appending(p)
  /\ pc[p] = "count" => diskLog[idx[p]] = cache[block[p]]
  /\ pc[p] = "head" => head.n = 0
  /\ pc[p] \in {"install", "recover"} => Installing(p)
  /\ pc[p] \in {"erase", "recover erase"} => lh.n = 0 /\ Installed
  /\ pc[p] = "end" => lh.n = 0 /\ head.n = 0
  /\ pc[p] = "read head" => lh.n = 0
  /\ pc[p] # "panic"
PlaceInv == \A p \in Proc : Place(p)

(* Between transactions the log is empty.                                      *)
QuietInv == ~busy /\ (\A p \in Proc : ~Recovering(p)) => lh.n = 0 /\ head.n = 0

(* While initlog runs there is no transaction.                                 *)
BusyInv == busy => \A p \in Proc : ~Recovering(p)

TypeInv == TypeOK /\ BufferInv
CallerInv == BootInv /\ StrayInv /\ ExcludeInv
LogInv == HeaderInv /\ PlaceInv /\ QuietInv /\ BusyInv

-----------------------------------------------------------------------------
LEMMA SizeTypes == LogSize \in Nat /\ MaxWrites \in Nat
BY LogAssumption

LEMMA Names == Boot \in Proc /\ Stray \subseteq Proc /\ None \notin Proc /\ None \notin Block
BY LogAssumption

LEMMA Numbers ==
  /\ 0 \in 0..LogSize /\ 0 \in 0..MaxWrites /\ 1 \in 1..(LogSize + 1)
  /\ \A n \in 0..LogSize, i \in Slot : i = n + 1 => n + 1 \in 0..LogSize
  /\ \A n \in 0..LogSize : \A i \in 1..(LogSize + 1) :
       i <= n => i \in Slot /\ i + 1 \in 1..(LogSize + 1)
  /\ \A n \in 0..LogSize : \A i \in 1..(n + 1) : ~(n >= LogSize) => i \in Slot
  /\ \A i \in Slot : i \in 1..(LogSize + 1)
  /\ \A w \in 0..MaxWrites : w < MaxWrites => w + 1 \in 0..MaxWrites
BY SizeTypes DEF Slot

(* What is read from a header, and what its two kinds of assignment make of it. *)
LEMMA HeaderFacts ==
  ASSUME NEW h \in Header
  PROVE  /\ h.n \in 0..LogSize
         /\ h.sector \in [Slot -> Block \cup {None}]
         /\ \A k \in 0..LogSize : [n |-> k, sector |-> h.sector] = [h EXCEPT !.n = k]
         /\ \A i \in Slot, b \in Block :
              [n |-> h.n, sector |-> [h.sector EXCEPT ![i] = b]] = [h EXCEPT !.sector[i] = b]
BY DEF Header

LEMMA HeaderType ==
  ASSUME NEW k \in 0..LogSize, NEW s \in [Slot -> Block \cup {None}]
  PROVE  [n |-> k, sector |-> s] \in Header
BY DEF Header

LEMMA EmptyHeader == [n |-> 0, sector |-> [i \in Slot |-> None]] \in Header
BY Numbers, HeaderType

LEMMA CountedHeader ==
  ASSUME NEW h \in Header, NEW k \in 0..LogSize
  PROVE  /\ [h EXCEPT !.n = k] \in Header
         /\ [h EXCEPT !.n = k].n = k
         /\ [h EXCEPT !.n = k].sector = h.sector
<1> DEFINE r == [n |-> k, sector |-> h.sector]
<1>1. [h EXCEPT !.n = k] = r
  BY HeaderFacts
<1>2. r.n = k /\ r.sector = h.sector
  OBVIOUS
<1>3. r \in Header
  BY HeaderFacts, HeaderType
<1> HIDE DEF r
<1> QED
  BY <1>1, <1>2, <1>3

LEMMA AssignedHeader ==
  ASSUME NEW h \in Header, NEW i \in Slot, NEW b \in Block
  PROVE  /\ [h EXCEPT !.sector[i] = b] \in Header
         /\ [h EXCEPT !.sector[i] = b].n = h.n
         /\ [h EXCEPT !.sector[i] = b].sector = [h.sector EXCEPT ![i] = b]
<1>1. [h.sector EXCEPT ![i] = b] \in [Slot -> Block \cup {None}]
  BY HeaderFacts
<1> DEFINE r == [n |-> h.n, sector |-> [h.sector EXCEPT ![i] = b]]
<1>2. [h EXCEPT !.sector[i] = b] = r
  BY HeaderFacts
<1>3. r.n = h.n /\ r.sector = [h.sector EXCEPT ![i] = b]
  OBVIOUS
<1>4. r \in Header
  BY <1>1, HeaderFacts, HeaderType
<1> HIDE DEF r
<1> QED
  BY <1>2, <1>3, <1>4

(* Among the slots that hold a block there is a first one.                     *)
LEMMA FirstSlot ==
  ASSUME NEW S, S \subseteq Nat, S # {}
  PROVE  \E i \in S : \A j \in S : ~(j < i)
<1> DEFINE R == OpToRel(<, Nat)
<1>1. \E i \in S : \A j \in S : ~(<<j, i>> \in R)
  BY NatLessThanWellFounded, WFMin
<1>2. ASSUME NEW i \in S, NEW j \in S, j < i PROVE <<j, i>> \in R
  <2>1. <<j, i>> \in Nat \X Nat
    OBVIOUS
  <2> QED
    BY <2>1, <1>2 DEF OpToRel
<1> QED
  BY <1>1, <1>2

LEMMA SlotOfBounds ==
  ASSUME lh \in Header, NEW b \in Block
  PROVE  /\ SlotOf(b) \in 1..(lh.n + 1)
         /\ Logged(b) => SlotOf(b) \in 1..lh.n /\ lh.sector[SlotOf(b)] = b
         /\ ~Logged(b) => SlotOf(b) = lh.n + 1
<1>0. lh.n \in Nat
  BY DEF Header
<1>1. CASE Logged(b)
  <2> DEFINE S == {i \in 1..lh.n : lh.sector[i] = b}
  <2>1. S # {} /\ S \subseteq Nat
    BY <1>1 DEF Logged
  <2> HIDE DEF S
  <2>2. PICK i \in S : \A j \in S : ~(j < i)
    BY <2>1, FirstSlot
  <2>3. i \in 1..lh.n /\ lh.sector[i] = b /\ \A j \in 1..(i - 1) : lh.sector[j] # b
    BY <1>0, <2>2 DEF S
  <2> QED
    BY <1>0, <1>1, <2>3 DEF SlotOf
<1>2. CASE ~Logged(b)
  BY <1>0, <1>2 DEF SlotOf
<1> QED
  BY <1>1, <1>2

LEMMA CopyHeadType ==
  ASSUME NEW to \in Header, NEW from \in Header
  PROVE  CopyHead(to, from) \in Header
BY DEF CopyHead, Header

LEMMA TypeInit == Init => TypeInv
<1> SUFFICES ASSUME Init PROVE TypeInv
  OBVIOUS
<1>1. head \in Header /\ lh \in Header
  BY EmptyHeader DEF Init
<1>2. TypeOK
  <2>1. pc \in [Proc -> Locations]
    BY DEF Init, Locations
  <2>2. idx \in [Proc -> 1..(LogSize + 1)] /\ writes \in [Proc -> 0..MaxWrites]
    BY Numbers DEF Init
  <2> QED
    BY <1>1, <2>1, <2>2 DEF Init, TypeOK
<1>3. BufferInv
  BY DEF Init, BufferInv, Writing
<1> QED
  BY <1>2, <1>3 DEF TypeInv

LEMMA TypeStep ==
  ASSUME TypeInv, [Next]_vars
  PROVE  TypeInv'
<1> USE DEF TypeInv, TypeOK, Locations
<1>1. ASSUME NEW b \in Block, Read(b) PROVE TypeInv'
  BY <1>1 DEF Read, onDisk, locals, BufferInv, Writing
<1>2. ASSUME NEW b \in Block, Evict(b) PROVE TypeInv'
  BY <1>2, Names DEF Evict, onDisk, locals, BufferInv, Writing
<1>3. ASSUME NEW p \in Proc, ReadHead(p) PROVE TypeInv'
  <2>1. lh' \in Header
    BY <1>3, CopyHeadType DEF ReadHead
  <2> QED
    BY <2>1, <1>3, Numbers DEF ReadHead, At, Goto, onDisk, buffers, BufferInv, Writing
<1>4. ASSUME NEW p \in Proc, RecoverErase(p) PROVE TypeInv'
  <2>1. head' \in Header
    BY <1>4, CopyHeadType DEF RecoverErase
  <2> QED
    BY <2>1, <1>4 DEF RecoverErase, At, buffers, locals, BufferInv, Writing
<1>5. ASSUME NEW p \in Proc, BeginSleep(p) \/ Call(p) \/ Commit(p) PROVE TypeInv'
  <2>1. CASE BeginSleep(p)
    BY <2>1 DEF BeginSleep, At, Goto, onDisk, buffers, locals, BufferInv, Writing
  <2>2. CASE Call(p)
    BY <2>2 DEF Call, At, Goto, onDisk, buffers, locals, BufferInv, Writing
  <2>3. CASE Commit(p)
    BY <2>3 DEF Commit, At, Goto, onDisk, buffers, locals, BufferInv, Writing
  <2> QED
    BY <1>5, <2>1, <2>2, <2>3
<1>6. ASSUME NEW p \in Proc, Begin(p) PROVE TypeInv'
  <2>1. writes' \in [Proc -> 0..MaxWrites]
    BY <1>6, Numbers DEF Begin
  <2>2. TypeOK'
    BY <1>6, <2>1 DEF Begin, Goto, onDisk, buffers
  <2> QED
    BY <1>6, <2>2 DEF Begin, At, Goto, onDisk, buffers, BufferInv, Writing
<1>7. ASSUME NEW p \in Proc, WriteHead(p) PROVE TypeInv'
  <2>1. head' \in Header
    BY <1>7, CopyHeadType DEF WriteHead
  <2> QED
    BY <2>1, <1>7, Numbers DEF WriteHead, At, Goto, buffers, BufferInv, Writing
<1>8. ASSUME NEW p \in Proc, Install(p) PROVE TypeInv'
  <2>1. idx[p] \in Slot /\ idx[p] + 1 \in 1..(LogSize + 1)
    <3>1. lh.n \in 0..LogSize /\ idx[p] \in 1..(LogSize + 1)
      BY HeaderFacts
    <3> QED
      BY <1>8, <3>1, Numbers DEF Install
  <2>2. diskLog[idx[p]] \in Value
    BY <2>1
  <2>3. TypeOK'
    BY <1>8, <2>1, <2>2 DEF Install
  <2>4. BufferInv'
    BY <1>8, <2>2 DEF Install, BufferInv, Writing
  <2> QED
    BY <2>3, <2>4
<1>9. ASSUME NEW p \in Proc, InstallEnd(p) PROVE TypeInv'
  <2>1. lh' \in Header
    BY <1>9, Numbers, CountedHeader DEF InstallEnd
  <2> QED
    BY <2>1, <1>9 DEF InstallEnd, At, Goto, onDisk, buffers, locals, BufferInv, Writing
<1>10. ASSUME NEW p \in Proc, EraseHead(p) PROVE TypeInv'
  <2>1. head' \in Header
    BY <1>10, CopyHeadType DEF EraseHead
  <2> QED
    BY <2>1, <1>10 DEF EraseHead, At, Goto, buffers, locals, BufferInv, Writing
<1>11. ASSUME NEW p \in Proc, End(p) PROVE TypeInv'
  BY <1>11 DEF End, Woken, At, onDisk, buffers, locals, BufferInv, Writing
<1>12. ASSUME NEW p \in Proc, LogWrite(p), Panics PROVE TypeInv'
  BY <1>12 DEF LogWrite, LogWritePanic, At, Goto, onDisk, buffers, locals, BufferInv, Writing
<1>13. ASSUME NEW p \in Proc, LogWrite(p), ~Panics PROVE TypeInv'
  <2>1. block[p] \in Block
    BY <1>13 DEF LogWrite, LogSlot, At, BufferInv, Writing
  <2>2. SlotOf(block[p]) \in Slot
    <3>1. lh.n \in 0..LogSize /\ ~(lh.n >= LogSize)
      BY <1>13, HeaderFacts DEF LogWrite, LogSlot, Panics, LogFull
    <3>2. SlotOf(block[p]) \in 1..(lh.n + 1)
      BY <2>1, SlotOfBounds
    <3> QED
      BY <3>1, <3>2, Numbers
  <2>3. lh' \in Header
    <3>1. lh' = [lh EXCEPT !.sector[SlotOf(block[p])] = block[p]]
      BY <1>13 DEF LogWrite, LogSlot
    <3> QED
      BY <2>1, <2>2, <3>1, AssignedHeader
  <2>4. TypeOK'
    <3>1. SlotOf(block[p]) \in 1..(LogSize + 1)
      BY <2>2, Numbers
    <3>2. idx' \in [Proc -> 1..(LogSize + 1)]
      BY <1>13, <3>1 DEF LogWrite, LogSlot
    <3> QED
      BY <1>13, <2>3, <3>2 DEF LogWrite, LogSlot, Goto, onDisk, buffers
  <2>5. BufferInv'
    BY <1>13, <2>2 DEF LogWrite, LogSlot, At, Goto, onDisk, buffers, BufferInv, Writing
  <2> QED
    BY <2>4, <2>5
<1>14. ASSUME NEW p \in Proc, Append(p) PROVE TypeInv'
  <2>1. cache[block[p]] \in Value
    BY <1>14 DEF Append, At, BufferInv, Writing
  <2>2. TypeOK'
    BY <1>14, <2>1 DEF Append, Goto, buffers, locals
  <2>3. BufferInv'
    BY <1>14 DEF Append, At, Goto, buffers, locals, BufferInv, Writing
  <2> QED
    BY <2>2, <2>3
<1>15. ASSUME NEW p \in Proc, Count(p) PROVE TypeInv'
  <2>1. block[p] \in Block /\ idx[p] \in Slot /\ (p \notin Stray => writes[p] < MaxWrites)
    BY <1>15 DEF Count, At, BufferInv, Writing
  <2>2. lh' \in Header
    <3> DEFINE k == IF idx[p] = lh.n + 1 THEN lh.n + 1 ELSE lh.n
    <3>1. k \in 0..LogSize
      <4>1. lh.n \in 0..LogSize
        BY HeaderFacts
      <4> QED
        BY <2>1, <4>1, Numbers
    <3>2. lh' = [lh EXCEPT !.n = k]
      BY <1>15 DEF Count
    <3> QED
      BY <3>1, <3>2, CountedHeader
  <2>3. writes' \in [Proc -> 0..MaxWrites]
    <3> DEFINE w == IF p \in Stray THEN writes[p] ELSE writes[p] + 1
    <3>1. w \in 0..MaxWrites
      <4>1. writes[p] \in 0..MaxWrites
        OBVIOUS
      <4> QED
        BY <2>1, <4>1, Numbers
    <3>2. writes' = [writes EXCEPT ![p] = w]
      BY <1>15 DEF Count
    <3> QED
      BY <3>1, <3>2
  <2>4. TypeOK'
    BY <1>15, <2>1, <2>2, <2>3 DEF Count, Goto, onDisk
  <2>5. BufferInv'
    BY <1>15, <2>1 DEF Count, At, Goto, onDisk, BufferInv, Writing
  <2> QED
    BY <2>4, <2>5
<1>16. ASSUME NEW p \in Proc, NEW b \in Block, NEW v \in Value, Modify(p, b, v) PROVE TypeInv'
  <2>1. TypeOK'
    BY <1>16 DEF Modify, Goto, onDisk
  <2>2. BufferInv'
    BY ZenonT(40), <1>16, Names DEF Modify, MayWrite, At, Goto, onDisk, BufferInv, Writing
  <2> QED
    BY <2>1, <2>2
<1>17. ASSUME Crash PROVE TypeInv'
  <2>1. lh' \in Header
    BY <1>17, EmptyHeader DEF Crash
  <2>2. idx' \in [Proc -> 1..(LogSize + 1)] /\ writes' \in [Proc -> 0..MaxWrites]
    BY <1>17, Numbers DEF Crash
  <2> QED
    BY <2>1, <2>2, <1>17 DEF Crash, onDisk, BufferInv, Writing
<1>18. ASSUME UNCHANGED vars PROVE TypeInv'
  BY <1>18 DEF vars, BufferInv, Writing
<1> QED
  BY <1>1, <1>2, <1>3, <1>4, <1>5, <1>6, <1>7, <1>8, <1>9, <1>10, <1>11, <1>12,
     <1>13, <1>14, <1>15, <1>16, <1>17, <1>18 DEF Next, Step

LEMMA TypeAlways == Spec => []TypeInv
BY TypeInit, TypeStep, PTL DEF Spec

\* The types of log.c's state hold whatever the processes write (log.c:34-49); in
\* particular the log never has more sectors than it has room for (log.c:164).
THEOREM LogTypes == Spec => []TypeOK
<1>1. TypeInv => TypeOK
  BY DEF TypeInv
<1> QED
  BY <1>1, TypeAlways, PTL

-----------------------------------------------------------------------------
LEMMA CallerInit == Init => CallerInv
BY ZenonT(40), Names DEF Init, CallerInv, BootInv, StrayInv, ExcludeInv, Recovering, Committing, InTransaction

LEMMA CallerStep ==
  ASSUME TypeInv, CallerInv, [Next]_vars
  PROVE  CallerInv'
<1> USE DEF CallerInv, BootInv, StrayInv, ExcludeInv, Recovering, Committing, InTransaction
<1>0. pc \in [Proc -> Locations] /\ Boot \in Proc /\ Stray \subseteq Proc
  BY Names DEF TypeInv, TypeOK
<1>1. ASSUME NEW b \in Block, Read(b) \/ Evict(b) PROVE CallerInv'
  <2>1. UNCHANGED <<pc, busy>>
    BY <1>1 DEF Read, Evict
  <2> QED
    BY <2>1
<1>2. ASSUME NEW p \in Proc, ReadHead(p) \/ InstallEnd(p) PROVE CallerInv'
  <2>1. CASE ReadHead(p)
    BY <1>0, <2>1 DEF ReadHead, At, Goto
  <2>2. CASE InstallEnd(p)
    BY <1>0, <2>2 DEF InstallEnd, At, Goto
  <2> QED
    BY <1>2, <2>1, <2>2
<1>3. ASSUME NEW p \in Proc, RecoverErase(p) PROVE CallerInv'
  BY <1>0, <1>3 DEF RecoverErase, At
<1>4. ASSUME NEW p \in Proc, BeginSleep(p) \/ Call(p) \/ Commit(p) PROVE CallerInv'
  <2>1. CASE BeginSleep(p)
    BY <1>0, <2>1 DEF BeginSleep, At, Goto
  <2>2. CASE Call(p)
    BY <1>0, <2>2 DEF Call, At, Goto
  <2>3. CASE Commit(p)
    BY <1>0, <2>3 DEF Commit, At, Goto
  <2> QED
    BY <1>4, <2>1, <2>2, <2>3
<1>5. ASSUME NEW p \in Proc, Begin(p) PROVE CallerInv'
  BY <1>0, <1>5 DEF Begin, At, Goto
<1>6. ASSUME NEW p \in Proc, WriteHead(p) \/ Install(p) \/ EraseHead(p) PROVE CallerInv'
  <2>1. CASE WriteHead(p)
    BY <1>0, <2>1 DEF WriteHead, At, Goto
  <2>2. CASE Install(p)
    BY <1>0, <2>2 DEF Install, At
  <2>3. CASE EraseHead(p)
    BY <1>0, <2>3 DEF EraseHead, At, Goto
  <2> QED
    BY <1>6, <2>1, <2>2, <2>3
<1>7. ASSUME NEW p \in Proc, End(p) PROVE CallerInv'
  BY <1>0, <1>7 DEF End, Woken, At
<1>8. ASSUME NEW p \in Proc, LogWrite(p) \/ Append(p) PROVE CallerInv'
  <2>1. CASE LogWrite(p) /\ Panics
    BY <1>0, <2>1 DEF LogWrite, LogWritePanic, At, Goto
  <2>2. CASE LogWrite(p) /\ ~Panics
    BY <1>0, <2>2 DEF LogWrite, LogSlot, At, Goto
  <2>3. CASE Append(p)
    BY <1>0, <2>3 DEF Append, At, Goto
  <2> QED
    BY <1>8, <2>1, <2>2, <2>3
<1>9. ASSUME NEW p \in Proc, Count(p) PROVE CallerInv'
  BY <1>0, <1>9 DEF Count, At, Goto
<1>10. ASSUME NEW p \in Proc, NEW b \in Block, NEW v \in Value, Modify(p, b, v) PROVE CallerInv'
  BY <1>0, <1>10 DEF Modify, At, Goto
<1>11. ASSUME Crash PROVE CallerInv'
  BY <1>0, <1>11 DEF Crash
<1>12. ASSUME UNCHANGED vars PROVE CallerInv'
  BY <1>12 DEF vars
<1> QED
  BY <1>1, <1>2, <1>3, <1>4, <1>5, <1>6, <1>7, <1>8, <1>9, <1>10, <1>11, <1>12 DEF Next, Step

LEMMA CallerAlways == Spec => [](TypeInv /\ CallerInv)
<1>1. Init => TypeInv /\ CallerInv
  BY TypeInit, CallerInit
<1>2. TypeInv /\ CallerInv /\ [Next]_vars => (TypeInv /\ CallerInv)'
  BY TypeStep, CallerStep
<1> QED
  BY <1>1, <1>2, PTL DEF Spec

\* begin_trans lets one call at a time into a transaction, whatever is written
\* outside of transactions meanwhile (log.c:127-132, log.c:145-148).
THEOREM LogCallersExclude == Spec => []CallersExclude
<1>1. CallerInv => CallersExclude
  BY DEF CallerInv, ExcludeInv, CallersExclude
<1> QED
  BY <1>1, CallerAlways, PTL
-----------------------------------------------------------------------------
(* When nobody writes outside a transaction.                                   *)

LEMMA LogInit == Init => LogInv
<1> SUFFICES ASSUME Init PROVE LogInv
  OBVIOUS
<1>1. head.n = 0 /\ lh.n = 0 /\ busy = FALSE
  BY DEF Init
<1>2. HeaderInv
  BY <1>1 DEF HeaderInv, Distinct, Sectors
<1>3. \A p \in Proc : pc[p] \in {"read head", "unborn"}
  BY DEF Init
<1>4. PlaceInv
  BY <1>1, <1>3 DEF PlaceInv, Place, Writing
<1>5. QuietInv /\ BusyInv
  BY <1>1 DEF QuietInv, BusyInv
<1> QED
  BY <1>2, <1>4, <1>5 DEF LogInv

(* Whoever is in a transaction, or recovers, is alone.                         *)
LEMMA Alone ==
  ASSUME Stray = {}, CallerInv, BusyInv, NEW p \in Proc, InTransaction(p) \/ Recovering(p)
  PROVE  \A q \in Proc : q # p => ~InTransaction(q) /\ ~Recovering(q)
BY DEF CallerInv, BootInv, ExcludeInv, BusyInv, InTransaction, Recovering

(* A process that is not in a transaction and does not recover is not hampered  *)
(* by the others.                                                              *)
LEMMA PlaceElsewhere ==
  ASSUME NEW q \in Proc, ~InTransaction(q), ~Recovering(q), pc[q] # "panic"
  PROVE  Place(q)
BY DEF Place, InTransaction, Recovering, Writing

LEMMA CopyHeadFacts ==
  ASSUME NEW to \in Header, NEW from \in Header
  PROVE  /\ CopyHead(to, from).n = from.n
         /\ \A i \in 1..from.n : CopyHead(to, from).sector[i] = from.sector[i]
<1>1. CopyHead(to, from).n = from.n
  BY DEF CopyHead
<1>2. ASSUME NEW i \in 1..from.n PROVE CopyHead(to, from).sector[i] = from.sector[i]
  <2>1. from.n \in 0..LogSize
    BY HeaderFacts
  <2>2. i \in Slot /\ i <= from.n
    BY <2>1, SizeTypes DEF Slot
  <2> QED
    BY <2>2 DEF CopyHead
<1> QED
  BY <1>1, <1>2

(* The headers, and the disk under them, as no step but those of a transaction *)
(* changes them.                                                               *)
LEMMA SameLog ==
  ASSUME LogInv, UNCHANGED <<onDisk, lh>>
  PROVE  HeaderInv' /\ (Installed => Installed')
BY DEF LogInv, HeaderInv, Distinct, Sectors, Installed, onDisk

LEMMA LogStep ==
  ASSUME Stray = {}, TypeInv, CallerInv, LogInv, [Next]_vars
  PROVE  LogInv'
<1> USE DEF LogInv
<1>0. /\ pc \in [Proc -> Locations] /\ lh \in Header /\ head \in Header
      /\ lh.n \in 0..LogSize /\ head.n \in 0..LogSize
      /\ idx \in [Proc -> 1..(LogSize + 1)] /\ writes \in [Proc -> 0..MaxWrites]
  BY HeaderFacts DEF TypeInv, TypeOK
<1>1. ASSUME NEW b \in Block, Read(b) \/ Evict(b) PROVE LogInv'
  <2>1. UNCHANGED <<onDisk, lh, pc, locals, busy, holder>>
    BY <1>1 DEF Read, Evict
  <2>2. ASSUME NEW p \in Proc, Writing(p) PROVE cache[block[p]]' = cache[block[p]]
    <3>1. block[p] # b
      BY <1>1, <2>2, Names DEF Read, Evict, TypeInv, BufferInv
    <3>2. block[p] \in Block /\ cache \in [Block -> Value \cup {NoValue}]
      BY <2>2 DEF TypeInv, TypeOK, BufferInv
    <3> QED
      BY <1>1, <2>1, <3>1, <3>2 DEF Read, Evict, locals
  <2>3. PlaceInv'
    BY ZenonT(40), <2>1, <2>2 DEF PlaceInv, Place, Writing, Appending, Installing, Installed, onDisk, locals
  <2> QED
    <3>1. QuietInv' /\ BusyInv'
      BY <2>1 DEF QuietInv, BusyInv, Recovering, onDisk
    <3> QED
      BY <2>1, <2>3, <3>1, SameLog
<1>2. ASSUME NEW p \in Proc, ReadHead(p) PROVE LogInv'
  <2>1. /\ lh' = CopyHead(lh, head) /\ UNCHANGED <<onDisk, busy>>
        /\ pc' = [pc EXCEPT ![p] = "recover"] /\ idx'[p] = 1 /\ Recovering(p)
    BY <1>0, <1>2 DEF ReadHead, At, Goto, Recovering
  <2>2. lh'.n = head.n /\ \A i \in 1..head.n : lh'.sector[i] = head.sector[i]
    BY <1>0, <2>1, CopyHeadFacts
  <2>3. HeaderInv'
    BY <2>1, <2>2 DEF HeaderInv, Distinct, Sectors, onDisk
  <2>4. Installing(p)'
    BY <1>0, <2>1, <2>2 DEF Installing, onDisk
  <2>5. Place(p)'
    BY <1>0, <2>1, <2>4 DEF Place, Writing
  <2>6. ASSUME NEW q \in Proc, q # p PROVE Place(q)'
    BY <1>0, <2>1, <2>6, Alone DEF PlaceInv, Place, InTransaction, Recovering, Writing
  <2>7. QuietInv' /\ BusyInv'
    BY <1>0, <2>1 DEF QuietInv, BusyInv, Recovering
  <2> QED
    BY <2>3, <2>5, <2>6, <2>7 DEF PlaceInv
<1>3. ASSUME NEW p \in Proc, RecoverErase(p) PROVE LogInv'
  <2>1. /\ head' = CopyHead(head, lh) /\ UNCHANGED <<disk, diskLog, lh, busy>>
        /\ pc' = [q \in Proc |-> "idle"] /\ Recovering(p) /\ lh.n = 0
    BY <1>0, <1>3 DEF RecoverErase, At, Recovering, PlaceInv, Place
  <2>2. head'.n = 0
    BY <1>0, <2>1, CopyHeadFacts
  <2>3. HeaderInv'
    BY <2>1, <2>2 DEF HeaderInv, Distinct, Sectors
  <2>4. PlaceInv'
    BY <2>1 DEF PlaceInv, Place, Writing
  <2> QED
    BY <2>1, <2>2, <2>3, <2>4 DEF QuietInv, BusyInv, Recovering
<1>4. ASSUME NEW p \in Proc, BeginSleep(p) \/ Call(p) PROVE LogInv'
  <2>1. /\ UNCHANGED <<onDisk, lh, cache, locals, busy>>
        /\ pc[p] \in {"idle", "begin"}
        /\ \E there \in {"asleep", "begin"} : pc' = [pc EXCEPT ![p] = there]
    BY <1>4 DEF BeginSleep, Call, At, Goto, buffers
  <2>2. ASSUME NEW q \in Proc PROVE Place(q)'
    BY ZenonT(40), <1>0, <2>1 DEF PlaceInv, Place, Writing, Appending, Installing, Installed, onDisk, locals
  <2>3. \A q \in Proc : Recovering(q)' <=> Recovering(q)
    BY <1>0, <2>1 DEF Recovering
  <2>4. QuietInv' /\ BusyInv'
    BY <2>1, <2>3 DEF QuietInv, BusyInv, onDisk
  <2> QED
    BY <2>1, <2>2, <2>4, SameLog DEF PlaceInv
<1>5. ASSUME NEW p \in Proc, Begin(p) PROVE LogInv'
  <2>1. /\ UNCHANGED <<onDisk, lh, idx>> /\ ~busy /\ busy' /\ pc[p] = "begin"
        /\ pc' = [pc EXCEPT ![p] = "in"] /\ writes'[p] = 0
    BY <1>0, <1>5 DEF Begin, At, Goto
  <2>2. \A q \in Proc : ~Recovering(q) /\ ~InTransaction(q)
    BY <1>0, <2>1 DEF CallerInv, BootInv, ExcludeInv, Recovering
  <2>3. lh.n = 0 /\ head.n = 0
    BY <2>1, <2>2 DEF QuietInv
  <2>4. Place(p)'
    BY <1>0, <2>1, <2>3 DEF Place, Writing, onDisk
  <2>5. ASSUME NEW q \in Proc, q # p PROVE Place(q)'
    BY <1>0, <2>1, <2>2, <2>5 DEF PlaceInv, Place, InTransaction, Recovering, Writing
  <2>6. QuietInv' /\ BusyInv'
    BY <1>0, <2>1, <2>2 DEF QuietInv, BusyInv, Recovering
  <2> QED
    BY <2>1, <2>4, <2>5, <2>6, SameLog DEF PlaceInv
<1>6. ASSUME NEW p \in Proc, Commit(p) PROVE LogInv'
  <2>1. /\ UNCHANGED <<onDisk, lh, busy>> /\ pc[p] = "in"
        /\ pc' = [pc EXCEPT ![p] = IF lh.n > 0 THEN "head" ELSE "end"]
        /\ InTransaction(p) /\ head.n = 0
    BY <1>0, <1>6 DEF Commit, At, Goto, InTransaction, PlaceInv, Place
  <2>2. Place(p)'
    <3>1. CASE lh.n > 0
      BY <1>0, <2>1, <3>1 DEF Place, Writing, onDisk
    <3>2. CASE lh.n = 0
      BY <1>0, <2>1, <3>2 DEF Place, Writing, onDisk
    <3> QED
      BY <1>0, <3>1, <3>2
  <2>3. ASSUME NEW q \in Proc, q # p PROVE Place(q)'
    BY <1>0, <2>1, <2>3, Alone DEF PlaceInv, Place, InTransaction, Recovering, Writing
  <2>4. QuietInv' /\ BusyInv'
    BY <1>0, <2>1 DEF QuietInv, BusyInv, Recovering, onDisk
  <2> QED
    BY <2>1, <2>2, <2>3, <2>4, SameLog DEF PlaceInv
<1>7. ASSUME NEW p \in Proc, WriteHead(p) PROVE LogInv'
  <2>1. /\ head' = CopyHead(head, lh) /\ UNCHANGED <<disk, diskLog, lh, busy>> /\ pc[p] = "head"
        /\ pc' = [pc EXCEPT ![p] = "install"] /\ idx'[p] = 1 /\ InTransaction(p)
    BY <1>0, <1>7 DEF WriteHead, At, Goto, InTransaction
  <2>2. head'.n = lh.n /\ \A i \in 1..lh.n : head'.sector[i] = lh.sector[i]
    BY <1>0, <2>1, CopyHeadFacts
  <2>3. HeaderInv'
    BY <2>1, <2>2 DEF HeaderInv, Distinct, Sectors
  <2>4. Installing(p)'
    BY <1>0, <2>1, <2>2 DEF Installing
  <2>5. Place(p)'
    BY <1>0, <2>1, <2>4 DEF Place, Writing
  <2>6. ASSUME NEW q \in Proc, q # p PROVE Place(q)'
    BY <1>0, <2>1, <2>6, Alone DEF PlaceInv, Place, InTransaction, Recovering, Writing
  <2>7. QuietInv' /\ BusyInv'
    BY <1>0, <2>1 DEF QuietInv, BusyInv, Recovering, CallerInv, ExcludeInv
  <2> QED
    BY <2>3, <2>5, <2>6, <2>7 DEF PlaceInv
<1>8. ASSUME NEW p \in Proc, Install(p) PROVE LogInv'
  <2> DEFINE k == idx[p]
  <2>0. Installing(p) /\ (InTransaction(p) \/ Recovering(p))
    BY <1>8 DEF Install, InTransaction, Recovering, PlaceInv, Place
  <2>a. k \in 1..head.n
    BY <1>0, <1>8, <2>0 DEF Install, Installing
  <2>b. lh.sector[k] = head.sector[k]
    BY <2>0, <2>a DEF Installing
  <2>1. /\ diskLog' = diskLog /\ head' = head /\ lh' = lh /\ pc' = pc /\ busy' = busy
        /\ idx'[p] = k + 1
        /\ disk' = [disk EXCEPT ![head.sector[k]] = diskLog[k]]
    BY <1>0, <1>8, <2>b DEF Install
  <2>2. disk \in [Block -> Value] /\ head.sector[k] \in Block
    BY <2>a DEF TypeInv, TypeOK, HeaderInv, Sectors
  <2>3. ASSUME NEW i \in 1..head.n, i < k + 1 PROVE disk'[head.sector[i]] = diskLog[i]
    <3>1. CASE i = k
      BY <2>1, <2>2, <3>1
    <3>2. CASE i < k
      <4>1. disk[head.sector[i]] = diskLog[i]
        BY <2>0, <3>2 DEF Installing
      <4>2. head.sector[i] # head.sector[k]
        BY <1>0, <2>a, <3>2 DEF HeaderInv, Distinct
      <4> QED
        BY <2>1, <2>2, <4>1, <4>2
    <3> QED
      BY <1>0, <2>a, <2>3, <3>1, <3>2
  <2>4. Installing(p)'
    BY <2>0, <2>1, <2>3 DEF Installing
  <2>5. HeaderInv'
    BY <2>1 DEF HeaderInv, Distinct, Sectors
  <2>6. Place(p)'
    <3>1. pc[p] \in {"install", "recover"}
      BY <1>8 DEF Install
    <3> QED
      BY <2>1, <2>4, <3>1 DEF Place, Writing
  <2>7. ASSUME NEW q \in Proc, q # p PROVE Place(q)'
    BY <1>0, <2>0, <2>1, <2>7, Alone DEF PlaceInv, Place, InTransaction, Recovering, Writing
  <2>8. QuietInv' /\ BusyInv'
    BY <2>1 DEF QuietInv, BusyInv, Recovering
  <2> QED
    BY <2>5, <2>6, <2>7, <2>8 DEF PlaceInv
<1>9. ASSUME NEW p \in Proc, InstallEnd(p) PROVE LogInv'
  <2>1. /\ UNCHANGED <<onDisk, busy, idx>> /\ lh' = [lh EXCEPT !.n = 0]
        /\ idx[p] > head.n /\ Installing(p) /\ (InTransaction(p) \/ Recovering(p))
        /\ pc' = [pc EXCEPT ![p] = IF pc[p] = "install" THEN "erase" ELSE "recover erase"]
    BY <1>0, <1>9 DEF InstallEnd, At, Goto, locals, InTransaction, Recovering, PlaceInv, Place, Installing
  <2>2. lh'.n = 0 /\ lh'.sector = lh.sector
    BY <1>0, <2>1, Numbers, CountedHeader
  <2>a. disk' = disk /\ diskLog' = diskLog /\ head' = head
    BY <2>1 DEF onDisk
  <2>b. \A i \in 1..head.n : i < idx[p]
    <3>1. idx[p] \in 1..(LogSize + 1)
      BY <1>0
    <3>2. idx[p] > head.n
      BY <2>1
    <3> QED
      BY <1>0, <3>1, <3>2, SizeTypes
  <2>3. Installed'
    BY <2>1, <2>a, <2>b DEF Installing, Installed
  <2>4. HeaderInv'
    BY <2>2, <2>a DEF HeaderInv, Distinct, Sectors
  <2>5. Place(p)'
    BY <1>0, <2>1, <2>2, <2>3 DEF Place, Writing
  <2>6. ASSUME NEW q \in Proc, q # p PROVE Place(q)'
    BY <1>0, <2>1, <2>6, Alone DEF PlaceInv, Place, InTransaction, Recovering, Writing
  <2>7. pc[p] = "install" => busy
    BY DEF CallerInv, ExcludeInv, InTransaction
  <2>8. QuietInv' /\ BusyInv'
    <3>1. CASE pc[p] = "install"
      BY <1>0, <2>1, <2>7, <3>1 DEF QuietInv, BusyInv, Recovering
    <3>2. CASE pc[p] # "install"
      <4>1. Recovering(p) /\ pc'[p] = "recover erase"
        BY <1>0, <1>9, <2>1, <3>2 DEF InstallEnd, Recovering
      <4> QED
        BY <2>1, <4>1 DEF QuietInv, BusyInv, Recovering
    <3> QED
      BY <3>1, <3>2
  <2> QED
    BY <2>4, <2>5, <2>6, <2>8 DEF PlaceInv


<1>10. ASSUME NEW p \in Proc, EraseHead(p) PROVE LogInv'
  <2>1. /\ head' = CopyHead(head, lh) /\ lh' = lh /\ busy' = busy
        /\ pc' = [pc EXCEPT ![p] = "end"] /\ InTransaction(p) /\ lh.n = 0
    BY <1>0, <1>10 DEF EraseHead, At, Goto, InTransaction, PlaceInv, Place
  <2>2. head'.n = 0
    BY <1>0, <2>1, CopyHeadFacts
  <2>3. HeaderInv'
    BY <2>1, <2>2 DEF HeaderInv, Distinct, Sectors
  <2>4. Place(p)'
    BY <1>0, <2>1, <2>2 DEF Place, Writing
  <2>5. ASSUME NEW q \in Proc, q # p PROVE Place(q)'
    BY <1>0, <2>1, <2>5, Alone DEF PlaceInv, Place, InTransaction, Recovering, Writing
  <2>6. QuietInv' /\ BusyInv'
    BY <1>0, <2>1, <2>2 DEF QuietInv, BusyInv, Recovering
  <2> QED
    BY <2>3, <2>4, <2>5, <2>6 DEF PlaceInv
<1>11. ASSUME NEW p \in Proc, End(p) PROVE LogInv'
  <2>1. /\ UNCHANGED <<onDisk, lh>> /\ ~busy' /\ InTransaction(p) /\ lh.n = 0 /\ head.n = 0
        /\ pc' = [Woken EXCEPT ![p] = "idle"]
    BY <1>0, <1>11 DEF End, At, InTransaction, PlaceInv, Place
  <2>2. \A q \in Proc : pc'[q] \in {"idle", "begin", pc[q]} /\ pc'[p] = "idle"
    BY <1>0, <2>1 DEF Woken
  <2>3. Place(p)'
    BY <2>2 DEF Place, Writing
  <2>4. ASSUME NEW q \in Proc, q # p PROVE Place(q)'
    <3>1. ~InTransaction(q) /\ ~Recovering(q) /\ pc[q] # "panic"
      BY <2>1, <2>4, Alone DEF PlaceInv, Place
    <3> QED
      BY <2>2, <3>1 DEF Place, InTransaction, Recovering, Writing
  <2>5. QuietInv' /\ BusyInv'
    BY <2>1 DEF QuietInv, BusyInv, onDisk
  <2> QED
    BY <2>1, <2>3, <2>4, <2>5, SameLog DEF PlaceInv
<1>a. ASSUME NEW p \in Proc, pc[p] = "log_write" PROVE ~Panics /\ lh.n < LogSize /\ lh.n < MaxWrites
  <2>1. lh.n <= writes[p] /\ writes[p] < MaxWrites /\ busy
    BY <1>a DEF PlaceInv, Place, Writing, TypeInv, BufferInv, CallerInv, ExcludeInv, InTransaction
  <2>2. MaxWrites <= LogSize /\ LogSize \in Nat /\ MaxWrites \in Nat
    BY LogAssumption
  <2>3. writes[p] \in 0..MaxWrites
    BY <1>0
  <2> QED
    BY <1>0, <2>1, <2>2, <2>3 DEF Panics, LogFull
<1>12. ASSUME NEW p \in Proc, LogWrite(p), Panics PROVE LogInv'
  BY <1>a, <1>12 DEF LogWrite, LogWritePanic, At
<1>13. ASSUME NEW p \in Proc, LogWrite(p), ~Panics PROVE LogInv'
  <2> DEFINE k == SlotOf(block[p])
  <2>0. /\ pc[p] = "log_write" /\ block[p] \in Block /\ InTransaction(p)
        /\ lh.n < LogSize /\ head.n = 0 /\ lh.n <= writes[p]
    BY <1>a, <1>13 DEF LogWrite, LogSlot, At, Writing, InTransaction, TypeInv, BufferInv, PlaceInv, Place
  <2>1. /\ k \in 1..(lh.n + 1)
        /\ Logged(block[p]) => k \in 1..lh.n /\ lh.sector[k] = block[p]
        /\ ~Logged(block[p]) => k = lh.n + 1
    BY <1>0, <2>0, SlotOfBounds
  <2>2. k \in Slot
    BY <1>0, <2>0, <2>1, SizeTypes DEF Slot
  <2>3. /\ disk' = disk /\ diskLog' = diskLog /\ head' = head /\ busy' = busy
        /\ block' = block /\ writes' = writes /\ idx'[p] = k
        /\ lh' = [lh EXCEPT !.sector[k] = block[p]]
        /\ pc' = [pc EXCEPT ![p] = "append"]
    BY <1>0, <1>13 DEF LogWrite, LogSlot, Goto, onDisk
  <2> HIDE DEF k
  <2>4. lh'.n = lh.n /\ lh'.sector = [lh.sector EXCEPT ![k] = block[p]]
    BY <1>0, <2>0, <2>2, <2>3, AssignedHeader
  <2>5. lh.sector \in [Slot -> Block \cup {None}] /\ 1..lh.n \subseteq Slot
    BY <1>0, HeaderFacts, SizeTypes DEF Slot
  <2>6. lh'.sector[k] = block[p] /\ \A i \in 1..lh.n : lh'.sector[i] = lh.sector[i]
    <3>1. lh'.sector[k] = block[p]
      BY <2>2, <2>4, <2>5
    <3>2. ASSUME NEW i \in 1..lh.n PROVE lh'.sector[i] = lh.sector[i]
      <4>1. CASE i = k
        <5>1. Logged(block[p])
          BY <1>0, <2>1, <4>1
        <5> QED
          BY <2>1, <3>1, <4>1, <5>1
      <4>2. CASE i # k
        BY <2>4, <2>5, <4>2
      <4> QED
        BY <4>1, <4>2
    <3> QED
      BY <3>1, <3>2
  <2>7. HeaderInv'
    BY <2>3, <2>4, <2>6 DEF HeaderInv, Distinct, Sectors
  <2>8. ASSUME NEW i \in 1..lh.n, lh.sector[i] = block[p] PROVE i = k
    <3>1. Logged(block[p])
      BY <2>8 DEF Logged
    <3> QED
      BY <2>1, <2>8, <3>1 DEF HeaderInv, Distinct
  <2>9. Appending(p)'
    <3>1. idx'[p] <= lh'.n + 1 /\ lh'.n < LogSize
      BY <1>0, <2>0, <2>1, <2>3, <2>4
    <3>2. \A i \in 1..lh'.n : lh'.sector[i] = block'[p] => i = idx'[p]
      BY <2>3, <2>4, <2>6, <2>8
    <3> QED
      BY <2>3, <2>6, <3>1, <3>2 DEF Appending
  <2>10. Place(p)'
    BY <1>0, <2>0, <2>3, <2>4, <2>9 DEF Place, Writing
  <2>11. ASSUME NEW q \in Proc, q # p PROVE Place(q)'
    BY <1>0, <2>0, <2>3, <2>11, Alone DEF PlaceInv, Place, InTransaction, Recovering, Writing
  <2>12. QuietInv' /\ BusyInv'
    BY <1>0, <2>0, <2>3, <2>4 DEF QuietInv, BusyInv, Recovering
  <2> QED
    BY <2>7, <2>10, <2>11, <2>12 DEF PlaceInv
<1>14. ASSUME NEW p \in Proc, Append(p) PROVE LogInv'
  <2>1. /\ disk' = disk /\ head' = head /\ lh' = lh /\ busy' = busy /\ cache' = cache
        /\ block' = block /\ idx' = idx /\ writes' = writes /\ pc[p] = "append" /\ InTransaction(p)
        /\ pc' = [pc EXCEPT ![p] = "count"] /\ diskLog' = [diskLog EXCEPT ![idx[p]] = cache[block[p]]]
    BY <1>14 DEF Append, At, Goto, buffers, locals, InTransaction
  <2>2. head.n = 0 /\ lh.n <= writes[p] /\ Appending(p)
    BY <2>1 DEF PlaceInv, Place, Writing
  <2>3. diskLog'[idx[p]] = cache[block[p]]
    <3>1. idx[p] \in Slot /\ diskLog \in [Slot -> Value]
      BY <2>1 DEF TypeInv, TypeOK, BufferInv, Writing
    <3> QED
      BY <2>1, <3>1
  <2>4. HeaderInv'
    BY <2>1 DEF HeaderInv, Distinct, Sectors
  <2>5. Appending(p)'
    BY <2>1, <2>2 DEF Appending
  <2>6. Place(p)'
    BY <1>0, <2>1, <2>2, <2>3, <2>5 DEF Place, Writing
  <2>7. ASSUME NEW q \in Proc, q # p PROVE Place(q)'
    BY <1>0, <2>1, <2>7, Alone DEF PlaceInv, Place, InTransaction, Recovering, Writing
  <2>8. QuietInv' /\ BusyInv'
    BY <1>0, <2>1 DEF QuietInv, BusyInv, Recovering
  <2> QED
    BY <2>4, <2>6, <2>7, <2>8 DEF PlaceInv
<1>15. ASSUME NEW p \in Proc, Count(p) PROVE LogInv'
  <2> DEFINE k == IF idx[p] = lh.n + 1 THEN lh.n + 1 ELSE lh.n
  <2>1. /\ disk' = disk /\ diskLog' = diskLog /\ head' = head /\ busy' = busy
        /\ pc[p] = "count" /\ pc' = [pc EXCEPT ![p] = "in"]
        /\ lh' = [lh EXCEPT !.n = k] /\ writes'[p] = writes[p] + 1
    BY <1>0, <1>15 DEF Count, At, Goto, onDisk
  <2>2. /\ InTransaction(p) /\ head.n = 0 /\ lh.n <= writes[p] /\ Appending(p)
        /\ block[p] \in Block /\ idx[p] \in Slot
    BY <2>1 DEF InTransaction, PlaceInv, Place, Writing, TypeInv, BufferInv
  <2>3. k \in 0..LogSize
    BY <1>0, <2>2, Numbers
  <2>4. lh'.n = k /\ lh'.sector = lh.sector
    BY <1>0, <2>1, <2>3, CountedHeader
  <2>5. \A i \in 1..k : i \in 1..lh.n \/ (i = idx[p] /\ idx[p] = lh.n + 1)
    <3>1. lh.n \in Nat
      BY <1>0, SizeTypes
    <3>2. CASE idx[p] = lh.n + 1
      <4>1. k = lh.n + 1
        BY <3>2
      <4> HIDE DEF k
      <4> QED
        BY <3>1, <3>2, <4>1
    <3>3. CASE idx[p] # lh.n + 1
      <4>1. k = lh.n
        BY <3>3
      <4> HIDE DEF k
      <4> QED
        BY <3>1, <4>1
    <3> QED
      BY <3>2, <3>3
  <2>6. k <= writes[p] + 1
    BY <1>0, <2>2, SizeTypes
  <2> HIDE DEF k
  <2>7. Sectors(lh)'
    BY <2>2, <2>4, <2>5 DEF HeaderInv, Sectors, Appending
  <2>8. Distinct(lh)'
    BY <2>2, <2>4, <2>5 DEF HeaderInv, Distinct, Appending
  <2>9. HeaderInv'
    BY <2>1, <2>7, <2>8 DEF HeaderInv, Distinct, Sectors
  <2>10. Place(p)'
    BY <1>0, <2>1, <2>2, <2>4, <2>6 DEF Place, Writing
  <2>11. ASSUME NEW q \in Proc, q # p PROVE Place(q)'
    BY <1>0, <2>1, <2>2, <2>11, Alone DEF PlaceInv, Place, InTransaction, Recovering, Writing
  <2>12. busy
    BY <2>2 DEF CallerInv, ExcludeInv
  <2>13. QuietInv' /\ BusyInv'
    BY <1>0, <2>1, <2>12 DEF QuietInv, BusyInv, Recovering
  <2> QED
    BY <2>9, <2>10, <2>11, <2>13 DEF PlaceInv
<1>16. ASSUME NEW p \in Proc, NEW b \in Block, NEW v \in Value, Modify(p, b, v) PROVE LogInv'
  <2>1. /\ disk' = disk /\ diskLog' = diskLog /\ head' = head /\ lh' = lh /\ busy' = busy
        /\ writes' = writes /\ pc[p] = "in" /\ InTransaction(p)
        /\ pc' = [pc EXCEPT ![p] = "log_write"]
    BY <1>16 DEF Modify, At, Goto, onDisk, InTransaction
  <2>2. HeaderInv'
    BY <2>1 DEF HeaderInv, Distinct, Sectors
  <2>3. Place(p)'
    BY <1>0, <2>1 DEF PlaceInv, Place, Writing
  <2>4. ASSUME NEW q \in Proc, q # p PROVE Place(q)'
    BY <1>0, <2>1, <2>4, Alone DEF PlaceInv, Place, InTransaction, Recovering, Writing
  <2>5. QuietInv' /\ BusyInv'
    BY <1>0, <2>1 DEF QuietInv, BusyInv, Recovering
  <2> QED
    BY <2>2, <2>3, <2>4, <2>5 DEF PlaceInv
<1>17. ASSUME Crash PROVE LogInv'
  <2>1. /\ head' = head /\ lh'.n = 0 /\ ~busy' /\ Boot \in Proc
        /\ pc' = [p \in Proc |-> IF p = Boot THEN "read head" ELSE "unborn"]
    BY <1>17, Names DEF Crash, onDisk
  <2>c. 1..lh'.n = {}
    <3>1. lh'.n = 0
      BY <2>1
    <3> QED
      BY <3>1
  <2>a. Distinct(lh)' /\ Sectors(lh)'
    BY <2>c DEF Distinct, Sectors
  <2>b. Distinct(head)' /\ Sectors(head)'
    BY <2>1 DEF HeaderInv, Distinct, Sectors
  <2>2. HeaderInv'
    BY <2>a, <2>b DEF HeaderInv
  <2>3. PlaceInv'
    BY <2>1 DEF PlaceInv, Place, Writing
  <2>4. QuietInv' /\ BusyInv'
    BY <2>1 DEF QuietInv, BusyInv, Recovering
  <2> QED
    BY <2>2, <2>3, <2>4
<1>18. ASSUME UNCHANGED vars PROVE LogInv'
  <2>1. PlaceInv'
    BY ZenonT(40), <1>18 DEF vars, PlaceInv, Place, Writing, Appending, Installing, Installed
  <2> QED
    BY <1>18, <2>1 DEF vars, HeaderInv, Distinct, Sectors, QuietInv, BusyInv, Recovering
<1> QED
  BY <1>1, <1>2, <1>3, <1>4, <1>5, <1>6, <1>7, <1>8, <1>9, <1>10, <1>11, <1>12,
     <1>13, <1>14, <1>15, <1>16, <1>17, <1>18 DEF Next, Step

LEMMA LogAlways ==
  ASSUME Stray = {}
  PROVE  Spec => [](TypeInv /\ CallerInv /\ LogInv)
<1>1. Init => TypeInv /\ CallerInv /\ LogInv
  BY TypeInit, CallerInit, LogInit
<1>2. TypeInv /\ CallerInv /\ LogInv /\ [Next]_vars => (TypeInv /\ CallerInv /\ LogInv)'
  BY TypeStep, CallerStep, LogStep
<1> QED
  BY <1>1, <1>2, PTL DEF Spec

\* When every write is inside a transaction, and a transaction writes no more than
\* the log has room for, log_write never panics (log.c:164-167).
THEOREM LogNoPanic ==
  ASSUME Stray = {}
  PROVE  Spec => []NoPanic
<1>1. LogInv => NoPanic
  BY DEF LogInv, PlaceInv, Place, NoPanic
<1> QED
  BY <1>1, LogAlways, PTL
-----------------------------------------------------------------------------
(* The refinement.                                                             *)

(* What Stable, Pending and Phase are, without CHOOSE.                         *)
StableIs ==
  /\ Stable = [b \in Block |-> Stable[b]]
  /\ \A b \in Block, i \in 1..head.n : head.sector[i] = b => Stable[b] = diskLog[i]
  /\ \A b \in Block : (\A i \in 1..head.n : head.sector[i] # b) => Stable[b] = disk[b]

PendingIs ==
  /\ Pending = [b \in Block |-> Pending[b]]
  /\ head.n # 0 => Pending = Promise!Nothing
  /\ head.n = 0 => \A b \in Block, i \in 1..lh.n : lh.sector[i] = b => Pending[b] = diskLog[i]
  /\ \A b \in Block : (\A i \in 1..lh.n : lh.sector[i] # b) => Pending[b] = NoValue

Done(p) == pc[p] \in {"install", "erase", "end"}

PhaseIs ==
  /\ ~busy => Phase = "closed"
  /\ \A p \in Proc : InTransaction(p) => Phase = IF Done(p) THEN "committed" ELSE "open"

LEMMA StableFacts == HeaderInv => StableIs
BY DEF HeaderInv, Distinct, Stable, StableIs

LEMMA PendingFacts == TypeOK /\ HeaderInv => PendingIs
<1> SUFFICES ASSUME TypeOK, HeaderInv PROVE PendingIs
  OBVIOUS
<1>1. Pending = [b \in Block |-> Pending[b]]
  BY DEF Pending
<1>2. head.n # 0 => Pending = Promise!Nothing
  BY DEF Pending, Promise!Nothing
<1>3. ASSUME head.n = 0, NEW b \in Block, NEW i \in 1..lh.n, lh.sector[i] = b
      PROVE  Pending[b] = diskLog[i]
  <2>1. Logged(b)
    BY <1>3 DEF Logged
  <2>2. SlotOf(b) \in 1..lh.n /\ lh.sector[SlotOf(b)] = b
    BY <2>1, SlotOfBounds DEF TypeOK
  <2>3. SlotOf(b) = i
    BY <1>3, <2>2 DEF HeaderInv, Distinct
  <2> QED
    BY <1>3, <2>1, <2>3 DEF Pending
<1>4. ASSUME NEW b \in Block, \A i \in 1..lh.n : lh.sector[i] # b
      PROVE  Pending[b] = NoValue
  BY <1>4 DEF Pending, Logged
<1> QED
  BY <1>1, <1>2, <1>3, <1>4 DEF PendingIs

LEMMA PhaseFacts ==
  ASSUME Stray = {}, CallerInv
  PROVE  PhaseIs
BY DEF CallerInv, ExcludeInv, InTransaction, Done, Phase, PhaseIs

(* A step that leaves the disk and log.lh alone changes neither.               *)
LEMMA SameContents ==
  ASSUME UNCHANGED <<onDisk, lh>>
  PROVE  Stable' = Stable /\ Pending' = Pending
BY DEF onDisk, Stable, Pending, Logged, SlotOf

LEMMA SamePhase ==
  ASSUME busy' = busy, \A q \in Proc : Done(q)' <=> Done(q)
  PROVE  Phase' = Phase
BY DEF Phase, Done

LEMMA AtomicInit == Init => Promise!Init
<1> SUFFICES ASSUME Init PROVE Promise!Init
  OBVIOUS
<1>1. TypeOK /\ HeaderInv
  BY TypeInit, LogInit DEF TypeInv, LogInv
<1>2. head.n = 0 /\ lh.n = 0 /\ ~busy /\ disk \in [Block -> Value]
  BY DEF Init
<1>3. Stable = disk
  BY <1>1, <1>2, StableFacts DEF StableIs
<1>4. \A b \in Block : Pending[b] = NoValue
  BY <1>1, <1>2, PendingFacts DEF PendingIs
<1>5. Pending = Promise!Nothing
  BY <1>1, <1>4, PendingFacts DEF PendingIs, Promise!Nothing
<1> QED
  BY <1>2, <1>3, <1>5 DEF Promise!Init, Phase

(* The facts of both states of a step.                                         *)
AllInv == TypeInv /\ CallerInv /\ LogInv

LEMMA Facts ==
  ASSUME Stray = {}
  PROVE  AllInv => StableIs /\ PendingIs /\ PhaseIs
BY StableFacts, PendingFacts, PhaseFacts DEF AllInv, TypeInv, LogInv

LEMMA NextFacts ==
  ASSUME Stray = {}
  PROVE  AllInv' => StableIs' /\ PendingIs' /\ PhaseIs'
<1>1. AllInv => StableIs /\ PendingIs /\ PhaseIs
  BY Facts
<1> QED
  BY <1>1, PTL

(* The steps by which a transaction's contents move.                           *)
LEMMA Stutters ==
  ASSUME Stable' = Stable, Pending' = Pending, Phase' = Phase
  PROVE  UNCHANGED Promise!vars
BY DEF Promise!vars

LEMMA AtomicCount ==
  ASSUME Stray = {}, AllInv, AllInv', NEW p \in Proc, Count(p)
  PROVE  [Promise!Next]_(Promise!vars)
<1>0. StableIs /\ PendingIs /\ PhaseIs /\ StableIs' /\ PendingIs' /\ PhaseIs'
  BY Facts, NextFacts
<1>1. /\ disk' = disk /\ diskLog' = diskLog /\ head' = head /\ pc[p] = "count"
      /\ lh' = [lh EXCEPT !.n = IF idx[p] = lh.n + 1 THEN lh.n + 1 ELSE lh.n]
      /\ pc' = [pc EXCEPT ![p] = "in"] /\ pc \in [Proc -> Locations]
  BY DEF Count, At, Goto, onDisk, AllInv, TypeInv, TypeOK
<1>2. /\ head.n = 0 /\ Appending(p) /\ block[p] \in Block /\ idx[p] \in Slot
      /\ cache[block[p]] \in Value /\ diskLog[idx[p]] = cache[block[p]]
  BY <1>1 DEF AllInv, TypeInv, TypeOK, BufferInv, LogInv, PlaceInv, Place, Writing
<1>a. lh \in Header /\ lh.n \in Nat /\ lh'.n \in Nat /\ lh.n \in 0..LogSize
  <2>1. lh \in Header /\ lh' \in Header
    BY DEF AllInv, TypeInv, TypeOK
  <2> QED
    BY <2>1, HeaderFacts, SizeTypes
<1>3. Stable' = Stable
  BY <1>1 DEF Stable
<1>4. Phase = "open" /\ Phase' = "open"
  BY <1>0, <1>1 DEF PhaseIs, InTransaction, Done
<1>5. CASE idx[p] # lh.n + 1
  <2>1. lh' = [lh EXCEPT !.n = lh.n]
    BY <1>1, <1>5
  <2>2. lh' = lh
    BY <1>a, <2>1 DEF Header
  <2>3. Pending' = Pending
    BY <1>1, <2>2, SameContents DEF onDisk
  <2> QED
    BY <1>3, <1>4, <2>3, Stutters
<1>6. CASE idx[p] = lh.n + 1
  <2> DEFINE c == block[p]
  <2>1. lh'.n = lh.n + 1 /\ lh'.sector = lh.sector
    <3>1. lh.n + 1 \in 0..LogSize
      BY <1>2, <1>a, <1>6, Numbers
    <3> QED
      BY <1>1, <1>2, <1>a, <1>6, <3>1, CountedHeader
  <2>2. lh.sector[lh.n + 1] = c /\ diskLog[lh.n + 1] = cache[c]
    BY <1>2, <1>a, <1>6 DEF Appending
  <2>3. Pending'[c] = cache[c]
    <3>1. lh.n + 1 \in 1..lh'.n
      BY <1>2, <1>a, <2>1
    <3> QED
      BY <1>0, <1>1, <1>2, <1>a, <2>1, <2>2, <3>1 DEF PendingIs
  <2>4. ASSUME NEW b \in Block, b # c PROVE Pending'[b] = Pending[b]
    <3>1. CASE \E i \in 1..lh.n : lh.sector[i] = b
      <4>1. PICK i \in 1..lh.n : lh.sector[i] = b
        BY <3>1
      <4>2. i \in 1..lh'.n /\ lh'.sector[i] = b
        BY <1>2, <1>a, <2>1, <4>1
      <4>3. Pending[b] = diskLog[i]
        BY <1>0, <1>2, <1>a, <4>1 DEF PendingIs
      <4>4. Pending'[b] = diskLog[i]
        BY <1>0, <1>1, <1>2, <1>a, <4>2 DEF PendingIs
      <4> QED
        BY <4>3, <4>4
    <3>2. CASE \A i \in 1..lh.n : lh.sector[i] # b
      <4>1. \A i \in 1..lh'.n : lh'.sector[i] # b
        <5>1. \A i \in 1..lh'.n : i \in 1..lh.n \/ i = lh.n + 1
          BY <1>2, <1>a, <2>1
        <5> QED
          BY <2>1, <2>2, <2>4, <3>2, <5>1
      <4> QED
        BY <1>0, <3>2, <4>1 DEF PendingIs
    <3> QED
      BY <3>1, <3>2
  <2>5. Pending' = [Pending EXCEPT ![c] = cache[c]]
    BY <1>0, <2>3, <2>4 DEF PendingIs
  <2>6. Promise!Write(c, cache[c])
    BY <1>3, <1>4, <2>5 DEF Promise!Write
  <2> QED
    BY <1>2, <1>a, <2>6 DEF Promise!Next
<1> QED
  BY <1>5, <1>6

LEMMA AtomicAppend ==
  ASSUME Stray = {}, AllInv, AllInv', NEW p \in Proc, Append(p)
  PROVE  [Promise!Next]_(Promise!vars)
<1> DEFINE c == block[p]
<1>0. StableIs /\ PendingIs /\ PhaseIs /\ StableIs' /\ PendingIs' /\ PhaseIs'
  BY Facts, NextFacts
<1>1. /\ disk' = disk /\ head' = head /\ lh' = lh /\ pc[p] = "append"
      /\ pc' = [pc EXCEPT ![p] = "count"] /\ pc \in [Proc -> Locations]
      /\ diskLog' = [diskLog EXCEPT ![idx[p]] = cache[c]] /\ diskLog \in [Slot -> Value]
  BY DEF Append, At, Goto, buffers, AllInv, TypeInv, TypeOK
<1>2. /\ head.n = 0 /\ Appending(p) /\ c \in Block /\ idx[p] \in Slot
      /\ cache[c] \in Value /\ lh.n \in 0..LogSize
  BY <1>1, HeaderFacts DEF AllInv, TypeInv, TypeOK, BufferInv, LogInv, PlaceInv, Place, Writing
<1>3. Stable' = Stable
  <2>1. \A b \in Block : Stable'[b] = Stable[b]
    BY <1>0, <1>1, <1>2 DEF StableIs
  <2> QED
    BY <1>0, <2>1 DEF StableIs
<1>4. Phase = "open" /\ Phase' = "open"
  BY <1>0, <1>1 DEF PhaseIs, InTransaction, Done
<1>5. ASSUME NEW b \in Block, b # c PROVE Pending'[b] = Pending[b]
  <2>1. CASE \E i \in 1..lh.n : lh.sector[i] = b
    <3>1. PICK i \in 1..lh.n : lh.sector[i] = b
      BY <2>1
    <3>2. i # idx[p] /\ i \in Slot
      BY <1>2, <1>5, <3>1, SizeTypes DEF Appending, Slot
    <3>3. diskLog'[i] = diskLog[i]
      BY <1>1, <3>2
    <3> QED
      BY <1>0, <1>1, <1>2, <3>1, <3>3 DEF PendingIs
  <2>2. CASE \A i \in 1..lh.n : lh.sector[i] # b
    BY <1>0, <1>1, <2>2 DEF PendingIs
  <2> QED
    BY <2>1, <2>2
<1>6. CASE idx[p] \in 1..lh.n
  <2>1. diskLog'[idx[p]] = cache[c]
    BY <1>1, <1>2
  <2>2. Pending'[c] = cache[c]
    BY <1>0, <1>1, <1>2, <1>6, <2>1 DEF PendingIs, Appending
  <2>3. Pending' = [Pending EXCEPT ![c] = cache[c]]
    BY <1>0, <1>5, <2>2 DEF PendingIs
  <2>4. Promise!Write(c, cache[c])
    BY <1>3, <1>4, <2>3 DEF Promise!Write
  <2> QED
    BY <1>2, <2>4 DEF Promise!Next
<1>7. CASE idx[p] \notin 1..lh.n
  <2>1. \A i \in 1..lh.n : lh.sector[i] # c
    BY <1>2, <1>7 DEF Appending
  <2>2. Pending'[c] = Pending[c]
    BY <1>0, <1>1, <1>2, <2>1 DEF PendingIs
  <2>3. Pending' = Pending
    BY <1>0, <1>5, <2>2 DEF PendingIs
  <2> QED
    BY <1>3, <1>4, <2>3, Stutters
<1> QED
  BY <1>6, <1>7

(* The commit point: the header in memory becomes the header on disk.          *)
LEMMA AtomicWriteHead ==
  ASSUME Stray = {}, AllInv, AllInv', NEW p \in Proc, WriteHead(p)
  PROVE  Promise!Commit
<1>0. StableIs /\ PendingIs /\ PhaseIs /\ StableIs' /\ PendingIs' /\ PhaseIs'
  BY Facts, NextFacts
<1>1. /\ disk' = disk /\ diskLog' = diskLog /\ lh' = lh /\ head' = CopyHead(head, lh)
      /\ pc[p] = "head" /\ pc' = [pc EXCEPT ![p] = "install"] /\ pc \in [Proc -> Locations]
  BY DEF WriteHead, At, Goto, AllInv, TypeInv, TypeOK
<1>2. head.n = 0 /\ lh \in Header /\ head \in Header /\ diskLog \in [Slot -> Value]
  BY <1>1 DEF AllInv, TypeInv, TypeOK, LogInv, PlaceInv, Place
<1>3. head'.n = lh.n /\ \A i \in 1..lh.n : head'.sector[i] = lh.sector[i]
  BY <1>1, <1>2, CopyHeadFacts
<1>4. Phase = "open" /\ Phase' = "committed"
  BY <1>0, <1>1 DEF PhaseIs, InTransaction, Done
<1>5. ASSUME NEW b \in Block PROVE Stable'[b] = Promise!Overlay[b]
  <2>1. CASE \E i \in 1..lh.n : lh.sector[i] = b
    <3>1. PICK i \in 1..lh.n : lh.sector[i] = b
      BY <2>1
    <3>2. Stable'[b] = diskLog[i]
      BY <1>0, <1>1, <1>3, <3>1 DEF StableIs
    <3>3. Pending[b] = diskLog[i]
      BY <1>0, <1>2, <3>1 DEF PendingIs
    <3>4. diskLog[i] # NoValue
      <4>1. i \in Slot
        BY <1>2, <3>1, HeaderFacts, SizeTypes DEF Slot
      <4> QED
        BY <1>2, <4>1, LogAssumption
    <3> QED
      BY <3>2, <3>3, <3>4 DEF Promise!Overlay
  <2>2. CASE \A i \in 1..lh.n : lh.sector[i] # b
    <3>1. Stable'[b] = disk[b] /\ Stable[b] = disk[b]
      BY <1>0, <1>1, <1>2, <1>3, <2>2 DEF StableIs
    <3>2. Pending[b] = NoValue
      BY <1>0, <2>2 DEF PendingIs
    <3> QED
      BY <3>1, <3>2 DEF Promise!Overlay
  <2> QED
    BY <2>1, <2>2
<1>6. Stable' = Promise!Overlay
  BY <1>0, <1>5 DEF StableIs, Promise!Overlay
<1>7. Pending' = Promise!Nothing
  <2>1. CASE lh.n = 0
    <3>1. \A b \in Block : Pending'[b] = NoValue
      BY <1>0, <1>1, <2>1 DEF PendingIs
    <3> QED
      BY <1>0, <3>1 DEF PendingIs, Promise!Nothing
  <2>2. CASE lh.n # 0
    BY <1>0, <1>3, <2>2 DEF PendingIs
  <2> QED
    BY <2>1, <2>2
<1> QED
  BY <1>4, <1>6, <1>7 DEF Promise!Commit

(* Installing copies to home what the header already vouches for.              *)
LEMMA StableInstall ==
  ASSUME Stray = {}, AllInv, AllInv', NEW p \in Proc, Install(p)
  PROVE  Stable' = Stable
<1> DEFINE k == idx[p]
<1>0. StableIs /\ StableIs'
  BY Facts, NextFacts
<1>1. Installing(p) /\ head.n \in 0..LogSize /\ k \in 1..(LogSize + 1)
  BY HeaderFacts DEF Install, AllInv, LogInv, PlaceInv, Place, TypeInv, TypeOK
<1>2. k \in 1..head.n
  <2>1. k <= lh.n /\ lh.n = head.n
    BY <1>1 DEF Install, Installing
  <2> QED
    BY <1>1, <2>1, SizeTypes
<1>3. lh.sector[k] = head.sector[k]
  BY <1>1, <1>2 DEF Installing
<1>4. diskLog' = diskLog /\ head' = head /\ disk' = [disk EXCEPT ![head.sector[k]] = diskLog[k]]
  BY <1>3 DEF Install
<1>5. ASSUME NEW b \in Block PROVE Stable'[b] = Stable[b]
  <2>1. CASE \E i \in 1..head.n : head.sector[i] = b
    BY <1>0, <1>4, <2>1 DEF StableIs
  <2>2. CASE \A i \in 1..head.n : head.sector[i] # b
    <3>1. disk'[b] = disk[b]
      <4>1. b # head.sector[k] /\ disk \in [Block -> Value]
        BY <1>2, <2>2 DEF AllInv, TypeInv, TypeOK
      <4> QED
        BY <1>4, <4>1
    <3> QED
      BY <1>0, <1>4, <2>2, <3>1 DEF StableIs
  <2> QED
    BY <2>1, <2>2
<1> QED
  BY <1>0, <1>5 DEF StableIs

(* Erasing the header takes nothing away once all it names is at home.         *)
LEMMA StableErase ==
  ASSUME Stray = {}, AllInv, AllInv', head' = CopyHead(head, lh), disk' = disk, diskLog' = diskLog,
         lh.n = 0, Installed
  PROVE  Stable' = Stable
<1>0. StableIs /\ StableIs'
  BY Facts, NextFacts
<1>1. head'.n = 0
  BY CopyHeadFacts DEF AllInv, TypeInv, TypeOK
<1>2. ASSUME NEW b \in Block PROVE Stable[b] = disk[b]
  <2>1. CASE \E i \in 1..head.n : head.sector[i] = b
    BY <1>0, <2>1 DEF StableIs, Installed
  <2>2. CASE \A i \in 1..head.n : head.sector[i] # b
    BY <1>0, <2>2 DEF StableIs
  <2> QED
    BY <2>1, <2>2
<1>3. ASSUME NEW b \in Block PROVE Stable'[b] = disk[b]
  BY <1>0, <1>1 DEF StableIs
<1> QED
  BY <1>0, <1>2, <1>3 DEF StableIs

LEMMA NothingPending ==
  ASSUME Stray = {}, AllInv, head.n # 0 \/ lh.n = 0
  PROVE  Pending = Promise!Nothing
<1>0. PendingIs
  BY Facts
<1>1. CASE lh.n = 0
  <2>1. \A b \in Block : Pending[b] = NoValue
    BY <1>0, <1>1 DEF PendingIs
  <2> QED
    BY <1>0, <2>1 DEF PendingIs, Promise!Nothing
<1>2. CASE head.n # 0
  BY <1>0, <1>2 DEF PendingIs
<1> QED
  BY <1>1, <1>2

LEMMA NothingPendingNext ==
  ASSUME Stray = {}
  PROVE  AllInv' /\ (head.n # 0 \/ lh.n = 0)' => (Pending = Promise!Nothing)'
<1>1. AllInv /\ (head.n # 0 \/ lh.n = 0) => Pending = Promise!Nothing
  BY NothingPending
<1> QED
  BY <1>1, PTL

LEMMA AtomicStep ==
  ASSUME Stray = {}, AllInv, AllInv', [Next]_vars
  PROVE  [Promise!Next]_(Promise!vars)
<1>0. /\ StableIs /\ PendingIs /\ PhaseIs /\ StableIs' /\ PendingIs' /\ PhaseIs'
      /\ pc \in [Proc -> Locations]
  BY Facts, NextFacts DEF AllInv, TypeInv, TypeOK
<1>a. Promise!Nothing' = Promise!Nothing
  BY DEF Promise!Nothing
<1>1. ASSUME NEW b \in Block, Read(b) \/ Evict(b) PROVE UNCHANGED Promise!vars
  <2>1. UNCHANGED <<onDisk, lh, pc, busy>>
    BY <1>1 DEF Read, Evict
  <2>2. Phase' = Phase
    BY <2>1 DEF Phase
  <2> QED
    BY <2>1, <2>2, SameContents, Stutters
<1>2. ASSUME NEW p \in Proc, ReadHead(p) PROVE UNCHANGED Promise!vars
  <2>1. /\ onDisk' = onDisk /\ busy' = busy /\ lh' = CopyHead(lh, head)
        /\ pc[p] = "read head" /\ pc' = [pc EXCEPT ![p] = "recover"] /\ lh.n = 0
    BY <1>2 DEF ReadHead, At, Goto, AllInv, LogInv, PlaceInv, Place
  <2>2. lh'.n = head.n
    BY <2>1, CopyHeadFacts DEF AllInv, TypeInv, TypeOK
  <2>3. Stable' = Stable
    BY <2>1 DEF Stable, onDisk
  <2>4. Pending = Promise!Nothing
    BY <2>1, NothingPending
  <2>5. (Pending = Promise!Nothing)'
    <3>1. (head.n # 0 \/ lh.n = 0)'
      BY <2>1, <2>2 DEF onDisk
    <3> QED
      BY <3>1, NothingPendingNext
  <2>6. Phase' = Phase
    BY <1>0, <2>1, SamePhase DEF Done
  <2> QED
    BY <1>a, <2>3, <2>4, <2>5, <2>6, Stutters
<1>3. ASSUME NEW p \in Proc, RecoverErase(p) PROVE UNCHANGED Promise!vars
  <2>1. /\ disk' = disk /\ diskLog' = diskLog /\ busy' = busy /\ lh' = lh
        /\ head' = CopyHead(head, lh) /\ Recovering(p)
        /\ lh.n = 0 /\ Installed
    BY <1>3 DEF RecoverErase, At, Recovering, AllInv, LogInv, PlaceInv, Place
  <2>2. Stable' = Stable
    BY <2>1, StableErase
  <2>3. Pending = Promise!Nothing
    BY <2>1, NothingPending
  <2>4. (Pending = Promise!Nothing)'
    BY <2>1, NothingPendingNext
  <2>5. ~busy /\ ~busy'
    BY <2>1 DEF AllInv, LogInv, BusyInv
  <2>6. Phase' = Phase
    BY <1>0, <2>5 DEF PhaseIs
  <2> QED
    BY <1>a, <2>2, <2>3, <2>4, <2>6, Stutters
<1>4. ASSUME NEW p \in Proc, BeginSleep(p) \/ Call(p) PROVE UNCHANGED Promise!vars
  <2>1. UNCHANGED <<onDisk, lh>> /\ busy' = busy
    BY <1>4 DEF BeginSleep, Call
  <2>2. \A q \in Proc : Done(q)' <=> Done(q)
    BY <1>0, <1>4 DEF BeginSleep, Call, At, Goto, Done
  <2> QED
    BY <2>1, <2>2, SameContents, SamePhase, Stutters
<1>5. ASSUME NEW p \in Proc, Begin(p) PROVE Promise!Begin
  <2>1. UNCHANGED <<onDisk, lh>> /\ ~busy /\ pc' = [pc EXCEPT ![p] = "in"]
    BY <1>5 DEF Begin, Goto
  <2>2. Phase = "closed" /\ Phase' = "open"
    BY <1>0, <2>1 DEF PhaseIs, InTransaction, Done
  <2> QED
    BY <2>1, <2>2, SameContents DEF Promise!Begin
<1>6. ASSUME NEW p \in Proc, Commit(p) PROVE [Promise!Next]_(Promise!vars)
  <2>1. /\ UNCHANGED <<onDisk, lh>> /\ busy' = busy /\ pc[p] = "in" /\ head.n = 0
        /\ pc' = [pc EXCEPT ![p] = IF lh.n > 0 THEN "head" ELSE "end"]
    BY <1>6 DEF Commit, At, Goto, AllInv, LogInv, PlaceInv, Place
  <2>2. lh.n \in 0..LogSize
    BY HeaderFacts DEF AllInv, TypeInv, TypeOK
  <2>3. CASE lh.n > 0
    <3>1. Phase' = Phase
      BY <1>0, <2>1, <2>3 DEF PhaseIs, InTransaction, Done
    <3> QED
      BY <2>1, <3>1, SameContents, Stutters
  <2>4. CASE lh.n = 0
    <3>1. Phase = "open" /\ Phase' = "committed"
      BY <1>0, <2>1, <2>4 DEF PhaseIs, InTransaction, Done
    <3>2. Pending = Promise!Nothing /\ Pending' = Pending /\ Stable' = Stable
      BY <2>1, <2>4, NothingPending, SameContents
    <3>3. Promise!Overlay = Stable
      BY <1>0, <3>2 DEF Promise!Overlay, Promise!Nothing, StableIs
    <3> QED
      BY <3>1, <3>2, <3>3 DEF Promise!Commit, Promise!Next
  <2> QED
    BY <2>2, <2>3, <2>4, SizeTypes
<1>7. ASSUME NEW p \in Proc, WriteHead(p) PROVE Promise!Commit
  BY <1>7, AtomicWriteHead
<1>8. ASSUME NEW p \in Proc, Install(p) PROVE UNCHANGED Promise!vars
  <2>1. /\ UNCHANGED <<pc, busy, lh, head>> /\ diskLog' = diskLog
    BY <1>8 DEF Install
  <2>2. Phase' = Phase
    BY <2>1 DEF Phase
  <2>3. Pending' = Pending
    BY <2>1 DEF Pending, Logged, SlotOf
  <2> QED
    BY <1>8, <2>2, <2>3, StableInstall, Stutters
<1>9. ASSUME NEW p \in Proc, InstallEnd(p) PROVE UNCHANGED Promise!vars
  <2>1. /\ onDisk' = onDisk /\ busy' = busy /\ lh' = [lh EXCEPT !.n = 0] /\ pc[p] \in {"install", "recover"}
        /\ pc' = [pc EXCEPT ![p] = IF pc[p] = "install" THEN "erase" ELSE "recover erase"]
    BY <1>9 DEF InstallEnd, At, Goto
  <2>2. lh'.n = 0
    BY <2>1, Numbers, CountedHeader DEF AllInv, TypeInv, TypeOK
  <2>3. head.n # 0 \/ lh.n = 0
    BY <2>1 DEF AllInv, LogInv, PlaceInv, Place, Installing
  <2>4. Pending = Promise!Nothing
    BY <2>3, NothingPending
  <2>5. (Pending = Promise!Nothing)'
    BY <2>2, NothingPendingNext
  <2>6. Phase' = Phase
    BY <1>0, <2>1, SamePhase DEF Done
  <2>7. Stable' = Stable
    BY <2>1 DEF Stable, onDisk
  <2> QED
    BY <1>a, <2>4, <2>5, <2>6, <2>7, Stutters
<1>10. ASSUME NEW p \in Proc, EraseHead(p) PROVE UNCHANGED Promise!vars
  <2>1. /\ disk' = disk /\ diskLog' = diskLog /\ busy' = busy /\ lh' = lh
        /\ head' = CopyHead(head, lh) /\ pc[p] = "erase" /\ pc' = [pc EXCEPT ![p] = "end"]
        /\ lh.n = 0 /\ Installed
    BY <1>10 DEF EraseHead, At, Goto, AllInv, LogInv, PlaceInv, Place
  <2>2. Stable' = Stable
    BY <2>1, StableErase
  <2>3. Pending = Promise!Nothing
    BY <2>1, NothingPending
  <2>4. (Pending = Promise!Nothing)'
    BY <2>1, NothingPendingNext
  <2>5. Phase' = Phase
    BY <1>0, <2>1, SamePhase DEF Done
  <2> QED
    BY <1>a, <2>2, <2>3, <2>4, <2>5, Stutters
<1>11. ASSUME NEW p \in Proc, End(p) PROVE Promise!End
  <2>1. UNCHANGED <<onDisk, lh>> /\ ~busy' /\ pc[p] = "end"
    BY <1>11 DEF End, At
  <2>2. Phase = "committed" /\ Phase' = "closed"
    BY <1>0, <2>1 DEF PhaseIs, InTransaction, Done
  <2> QED
    BY <2>1, <2>2, SameContents DEF Promise!End
<1>12. ASSUME NEW p \in Proc, LogWrite(p), Panics PROVE FALSE
  <2>1. pc'[p] = "panic"
    BY <1>0, <1>12 DEF LogWrite, LogWritePanic, Goto
  <2> QED
    BY <2>1 DEF AllInv, LogInv, PlaceInv, Place
<1>13. ASSUME NEW p \in Proc, LogWrite(p), ~Panics PROVE UNCHANGED Promise!vars
  <2>1. /\ onDisk' = onDisk /\ busy' = busy /\ pc[p] = "log_write" /\ pc' = [pc EXCEPT ![p] = "append"]
        /\ block[p] \in Block /\ lh \in Header /\ lh.n < LogSize /\ lh.n \in 0..LogSize
        /\ lh' = [lh EXCEPT !.sector[SlotOf(block[p])] = block[p]]
    <3>1. lh \in Header /\ lh.n \in 0..LogSize
      BY HeaderFacts DEF AllInv, TypeInv, TypeOK
    <3>2. block[p] \in Block
      BY <1>13 DEF LogWrite, LogSlot, At, AllInv, TypeInv, BufferInv, Writing
    <3>3. lh.n < LogSize
      BY <1>13, <3>1, SizeTypes DEF LogWrite, LogSlot, Panics, LogFull
    <3> QED
      BY <1>13, <3>1, <3>2, <3>3 DEF LogWrite, LogSlot, At, Goto
  <2> DEFINE k == SlotOf(block[p])
  <2>2. /\ k \in 1..(lh.n + 1)
        /\ Logged(block[p]) => k \in 1..lh.n /\ lh.sector[k] = block[p]
        /\ ~Logged(block[p]) => k = lh.n + 1
    BY <2>1, SlotOfBounds
  <2>3. k \in Slot
    BY <2>1, <2>2, SizeTypes DEF Slot
  <2> HIDE DEF k
  <2>4. lh'.n = lh.n /\ lh'.sector = [lh.sector EXCEPT ![k] = block[p]]
    <3>1. lh' = [lh EXCEPT !.sector[k] = block[p]]
      BY <2>1 DEF k
    <3>2. lh \in Header /\ block[p] \in Block
      BY <2>1
    <3> QED
      BY <2>3, <3>1, <3>2, AssignedHeader
  <2>5. lh.sector \in [Slot -> Block \cup {None}] /\ 1..lh.n \subseteq Slot
    BY <2>1, HeaderFacts, SizeTypes DEF Slot
  <2>6. ASSUME NEW i \in 1..lh.n PROVE lh'.sector[i] = lh.sector[i]
    <3>1. CASE i = k
      <4>1. Logged(block[p])
        BY <2>1, <2>2, <3>1, SizeTypes
      <4> QED
        BY <2>2, <2>4, <2>5, <3>1, <4>1
    <3>2. CASE i # k
      BY <2>4, <2>5, <3>2
    <3> QED
      BY <3>1, <3>2
  <2>7. ASSUME NEW b \in Block PROVE Pending'[b] = Pending[b]
    <3>1. head' = head /\ diskLog' = diskLog /\ head.n = 0
      BY <2>1 DEF onDisk, AllInv, LogInv, PlaceInv, Place, Writing
    <3>2. CASE \E i \in 1..lh.n : lh.sector[i] = b
      <4>1. PICK i \in 1..lh.n : lh.sector[i] = b
        BY <3>2
      <4>2. i \in 1..lh'.n /\ lh'.sector[i] = b
        BY <2>4, <2>6, <4>1
      <4>3. Pending[b] = diskLog[i]
        BY <1>0, <3>1, <4>1 DEF PendingIs
      <4>4. Pending'[b] = diskLog[i]
        BY <1>0, <3>1, <4>2 DEF PendingIs
      <4> QED
        BY <4>3, <4>4
    <3>3. CASE \A i \in 1..lh.n : lh.sector[i] # b
      <4>1. \A i \in 1..lh'.n : lh'.sector[i] # b
        BY <2>4, <2>6, <3>3
      <4> QED
        BY <1>0, <3>3, <4>1 DEF PendingIs
    <3> QED
      BY <3>2, <3>3
  <2>8. Pending' = Pending
    BY <1>0, <2>7 DEF PendingIs
  <2>9. Stable' = Stable
    BY <2>1 DEF Stable, onDisk
  <2>10. Phase' = Phase
    BY <1>0, <2>1, SamePhase DEF Done
  <2> QED
    BY <2>8, <2>9, <2>10, Stutters
<1>14. ASSUME NEW p \in Proc, Append(p) PROVE [Promise!Next]_(Promise!vars)
  BY <1>14, AtomicAppend
<1>15. ASSUME NEW p \in Proc, Count(p) PROVE [Promise!Next]_(Promise!vars)
  BY <1>15, AtomicCount
<1>16. ASSUME NEW p \in Proc, NEW b \in Block, NEW v \in Value, Modify(p, b, v)
       PROVE  UNCHANGED Promise!vars
  <2>1. /\ UNCHANGED <<onDisk, lh>> /\ busy' = busy /\ pc[p] = "in"
        /\ pc' = [pc EXCEPT ![p] = "log_write"]
    BY <1>16 DEF Modify, At, Goto
  <2>2. Phase' = Phase
    BY <1>0, <2>1, SamePhase DEF Done
  <2> QED
    BY <2>1, <2>2, SameContents, Stutters
<1>17. ASSUME Crash PROVE Promise!Crash
  <2>1. onDisk' = onDisk /\ lh' = [n |-> 0, sector |-> [i \in Slot |-> None]] /\ ~busy'
    BY <1>17 DEF Crash
  <2>2. (Pending = Promise!Nothing)'
    <3>1. (head.n # 0 \/ lh.n = 0)'
      BY <2>1
    <3> QED
      BY <3>1, NothingPendingNext
  <2>3. Phase' = "closed"
    BY <1>0, <2>1 DEF PhaseIs
  <2>4. Stable' = Stable
    BY <2>1 DEF Stable, onDisk
  <2> QED
    BY <1>a, <2>2, <2>3, <2>4 DEF Promise!Crash
<1>18. ASSUME UNCHANGED vars PROVE UNCHANGED Promise!vars
  <2>1. UNCHANGED <<onDisk, lh>> /\ UNCHANGED <<pc, busy>>
    BY <1>18 DEF vars, onDisk
  <2>2. Phase' = Phase
    BY <2>1 DEF Phase
  <2> QED
    BY <2>1, <2>2, SameContents, Stutters
<1> QED
  BY <1>1, <1>2, <1>3, <1>4, <1>5, <1>6, <1>7, <1>8, <1>9, <1>10, <1>11, <1>12,
     <1>13, <1>14, <1>15, <1>16, <1>17, <1>18 DEF Next, Step, Promise!Next

\* Whatever sector write the power fails after, the disk holds whole transactions:
\* with every write inside a transaction the log implements AtomicDisk
\* (log.c:11-13, log.c:98-100).
THEOREM LogIsAtomic ==
  ASSUME Stray = {}
  PROVE  Spec => Atomic
<1>1. Spec => []AllInv
  BY LogAlways DEF AllInv
<1>2. AllInv /\ AllInv' /\ [Next]_vars => [Promise!Next]_(Promise!vars)
  BY AtomicStep
<1> QED
  BY <1>1, <1>2, AtomicInit, PTL DEF Spec, Atomic, Promise!Spec
-----------------------------------------------------------------------------
(* What the buffers hold, when every write is inside a transaction.            *)

(* Slot i of the log is not installed yet.                                     *)
Waiting(i) == \A p \in Proc : ~Recovering(p) /\ (pc[p] = "install" => idx[p] <= i)

(* Until its slot is installed, the buffer of a block in the log stays, with    *)
(* what the log has; any other buffer has what the disk has.                   *)
KeptInv == \A i \in 1..lh.n : Waiting(i) /\ holder[lh.sector[i]] = None =>
             lh.sector[i] \in dirty /\ cache[lh.sector[i]] = diskLog[i]
CleanInv == \A b \in Block : holder[b] = None =>
              \/ \E i \in 1..lh.n : lh.sector[i] = b /\ Waiting(i)
              \/ cache[b] \in {NoValue, disk[b]}
CacheInv == KeptInv /\ CleanInv

(* log.busy is set for somebody.                                               *)
SomebodyInv == busy => \E p \in Proc : InTransaction(p)

(* Before it installs them, whoever has the transaction keeps all slots waiting. *)
LEMMA WaitingOpen ==
  ASSUME Stray = {}, AllInv, \E p \in Proc : InTransaction(p) /\ pc[p] # "install"
  PROVE  \A i : Waiting(i)
<1>1. \A q \in Proc : ~Recovering(q) /\ pc[q] # "install"
  BY Alone DEF AllInv, LogInv, InTransaction, Recovering
<1> QED
  BY <1>1 DEF Waiting

LEMMA WaitingOpenNext ==
  ASSUME Stray = {}
  PROVE  (AllInv /\ \E p \in Proc : InTransaction(p) /\ pc[p] # "install")' =>
           (\A i : Waiting(i))'
<1>1. (AllInv /\ \E p \in Proc : InTransaction(p) /\ pc[p] # "install") => \A i : Waiting(i)
  BY WaitingOpen
<1> QED
  BY <1>1, PTL

(* A step that leaves the log, the disk and the buffers alone, and no slot to   *)
(* install that was installed.                                                 *)
LEMMA SameCache ==
  ASSUME CacheInv, UNCHANGED <<disk, diskLog, lh, buffers>>,
         \A i \in 1..lh.n : Waiting(i)' <=> Waiting(i)
  PROVE  CacheInv'
BY DEF CacheInv, KeptInv, CleanInv, buffers

(* A step that leaves the log empty, or all of it installed.                    *)
LEMMA InstalledCache ==
  ASSUME CacheInv, UNCHANGED <<disk, buffers>>,
         \A i \in 1..lh.n : ~Waiting(i), \A i \in 1..lh'.n : ~Waiting(i)'
  PROVE  CacheInv'
BY DEF CacheInv, KeptInv, CleanInv, buffers

LEMMA CacheInit == Init => CacheInv /\ SomebodyInv
<1> SUFFICES ASSUME Init PROVE CacheInv /\ SomebodyInv
  OBVIOUS
<1>1. lh.n = 0 /\ cache = [b \in Block |-> NoValue] /\ busy = FALSE
  BY DEF Init
<1>2. KeptInv
  BY <1>1 DEF KeptInv
<1> QED
  BY <1>1, <1>2 DEF CacheInv, CleanInv, SomebodyInv

LEMMA CacheRead ==
  ASSUME AllInv, CacheInv, NEW b \in Block, Read(b) \/ Evict(b)
  PROVE  CacheInv'
<1>1. /\ UNCHANGED <<onDisk, dirty, holder, lh, pc, idx>>
      /\ cache' \in {[cache EXCEPT ![b] = disk[b]], [cache EXCEPT ![b] = NoValue]}
      /\ cache[b] = NoValue \/ b \notin dirty
      /\ cache \in [Block -> Value \cup {NoValue}]
  BY DEF Read, Evict, locals, AllInv, TypeInv, TypeOK
<1>2. \A i : Waiting(i)' <=> Waiting(i)
  BY <1>1 DEF Waiting, Recovering
<1>3. ASSUME NEW i \in 1..lh.n, Waiting(i), holder[lh.sector[i]] = None
      PROVE  lh.sector[i] \in dirty /\ cache'[lh.sector[i]] = diskLog[i]
  <2>1. lh.sector[i] \in dirty /\ cache[lh.sector[i]] = diskLog[i]
    BY <1>3 DEF CacheInv, KeptInv
  <2>2. diskLog[i] \in Value
    <3>1. i \in Slot
      BY SizeTypes DEF Slot, Header, AllInv, TypeInv, TypeOK
    <3> QED
      BY <3>1 DEF AllInv, TypeInv, TypeOK
  <2>3. lh.sector[i] # b /\ lh.sector[i] \in Block
    BY <1>1, <2>1, <2>2, LogAssumption DEF AllInv, LogInv, HeaderInv, Sectors
  <2> QED
    BY <1>1, <2>1, <2>3
<1>4. KeptInv'
  BY <1>1, <1>2, <1>3 DEF KeptInv, onDisk
<1>5. CleanInv'
  BY <1>1, <1>2 DEF CacheInv, CleanInv, onDisk
<1> QED
  BY <1>4, <1>5 DEF CacheInv

LEMMA CacheInstall ==
  ASSUME Stray = {}, AllInv, CacheInv, NEW p \in Proc, Install(p)
  PROVE  CacheInv'
<1> DEFINE c == lh.sector[idx[p]]
<1>1. /\ UNCHANGED <<diskLog, holder, lh, pc>> /\ pc[p] \in {"install", "recover"}
      /\ idx[p] <= lh.n /\ holder[c] = None
      /\ disk' = [disk EXCEPT ![c] = diskLog[idx[p]]]
      /\ cache' = [cache EXCEPT ![c] = diskLog[idx[p]]]
      /\ dirty' = dirty \ {c} /\ idx' = [idx EXCEPT ![p] = idx[p] + 1]
  BY DEF Install
<1>2. /\ disk \in [Block -> Value] /\ cache \in [Block -> Value \cup {NoValue}]
      /\ idx \in [Proc -> 1..(LogSize + 1)] /\ lh.n \in 0..LogSize
  BY HeaderFacts DEF AllInv, TypeInv, TypeOK
<1>3. idx[p] \in 1..lh.n /\ idx[p] \in Nat
  BY <1>1, <1>2, SizeTypes
<1>4. c \in Block /\ \A i \in 1..lh.n : lh.sector[i] = c => i = idx[p]
  BY <1>3 DEF AllInv, LogInv, HeaderInv, Sectors, Distinct
<1>5. \A i \in 1..lh.n : Waiting(i)' <=> Waiting(i) /\ i # idx[p]
  <2>1. CASE pc[p] = "recover"
    BY <1>1, <2>1 DEF Waiting, Recovering
  <2>2. CASE pc[p] = "install"
    <3>1. \A q \in Proc : ~Recovering(q) /\ (pc[q] = "install" <=> q = p)
      BY <2>2, Alone DEF AllInv, LogInv, InTransaction, Recovering
    <3>2. \A i \in 1..lh.n : Waiting(i) <=> idx[p] <= i
      BY <3>1 DEF Waiting
    <3>3. \A i \in 1..lh.n : Waiting(i)' <=> idx[p] + 1 <= i
      <4>1. \A q \in Proc : ~Recovering(q)' /\ (pc'[q] = "install" <=> q = p)
        BY <1>1, <3>1 DEF Recovering
      <4>2. idx'[p] = idx[p] + 1
        BY <1>1, <1>2
      <4> QED
        BY <4>1, <4>2 DEF Waiting
    <3>4. \A i \in 1..lh.n : idx[p] + 1 <= i <=> idx[p] <= i /\ i # idx[p]
      BY <1>2, <1>3
    <3> QED
      BY <3>2, <3>3, <3>4
  <2> QED
    BY <1>1, <2>1, <2>2
<1>6. KeptInv'
  <2> SUFFICES ASSUME NEW i \in 1..lh.n, Waiting(i)', holder[lh.sector[i]] = None
               PROVE  lh.sector[i] \in dirty' /\ cache'[lh.sector[i]] = diskLog[i]
    BY <1>1 DEF KeptInv
  <2>1. Waiting(i) /\ lh.sector[i] # c
    BY <1>4, <1>5
  <2>2. lh.sector[i] \in dirty /\ cache[lh.sector[i]] = diskLog[i]
    BY <2>1 DEF CacheInv, KeptInv
  <2> QED
    BY <1>1, <1>2, <2>1, <2>2
<1>7. CleanInv'
  <2> SUFFICES ASSUME NEW b \in Block, holder[b] = None
               PROVE  \/ \E i \in 1..lh.n : lh.sector[i] = b /\ Waiting(i)'
                      \/ cache'[b] \in {NoValue, disk'[b]}
    BY <1>1 DEF CleanInv
  <2>1. CASE b = c
    BY <1>1, <1>2, <2>1
  <2>2. CASE b # c
    <3>1. cache'[b] = cache[b] /\ disk'[b] = disk[b]
      BY <1>1, <1>2, <2>2
    <3>2. \A i \in 1..lh.n : lh.sector[i] = b /\ Waiting(i) => Waiting(i)'
      BY <1>5, <2>2
    <3> QED
      BY <3>1, <3>2 DEF CacheInv, CleanInv
  <2> QED
    BY <2>1, <2>2
<1> QED
  BY <1>6, <1>7 DEF CacheInv

LEMMA CacheInstallEnd ==
  ASSUME Stray = {}, AllInv, CacheInv, NEW p \in Proc, InstallEnd(p)
  PROVE  CacheInv'
<1>1. /\ UNCHANGED <<onDisk, buffers>> /\ pc[p] \in {"install", "recover"}
      /\ idx[p] > lh.n /\ lh' = [lh EXCEPT !.n = 0]
  BY DEF InstallEnd
<1>2. idx[p] \in Nat /\ lh.n \in Nat /\ lh'.n = 0
  <2>1. lh \in Header /\ idx[p] \in 1..(LogSize + 1)
    BY DEF AllInv, TypeInv, TypeOK
  <2> QED
    BY <1>1, <2>1, HeaderFacts, CountedHeader, SizeTypes, Numbers
<1>3. \A i \in 1..lh.n : ~(idx[p] <= i)
  BY <1>1, <1>2
<1>4. \A i \in 1..lh.n : ~Waiting(i)
  BY <1>1, <1>3 DEF Waiting, Recovering
<1>5. \A i \in 1..lh'.n : ~Waiting(i)'
  BY <1>2
<1> QED
  BY <1>1, <1>4, <1>5, InstalledCache DEF onDisk

LEMMA CacheModify ==
  ASSUME AllInv, CacheInv, NEW p \in Proc, NEW c \in Block, NEW v \in Value, Modify(p, c, v)
  PROVE  CacheInv'
<1>1. /\ UNCHANGED <<onDisk, dirty, lh, idx>> /\ pc[p] \in {"in", "idle"}
      /\ holder' = [holder EXCEPT ![c] = p] /\ cache' = [cache EXCEPT ![c] = v]
      /\ pc' = [pc EXCEPT ![p] = "log_write"]
      /\ pc \in [Proc -> Locations] /\ holder \in [Block -> Proc \cup {None}]
      /\ cache \in [Block -> Value \cup {NoValue}]
  BY DEF Modify, At, Goto, AllInv, TypeInv, TypeOK
<1>2. \A i : Waiting(i)' <=> Waiting(i)
  BY <1>1 DEF Waiting, Recovering
<1>3. \A b \in Block : holder'[b] = None => holder[b] = None /\ cache'[b] = cache[b]
  BY <1>1, Names
<1>4. \A i \in 1..lh.n : lh.sector[i] \in Block
  BY DEF AllInv, LogInv, HeaderInv, Sectors
<1>5. KeptInv'
  BY <1>1, <1>2, <1>3, <1>4 DEF CacheInv, KeptInv, onDisk
<1>6. CleanInv'
  BY <1>1, <1>2, <1>3 DEF CacheInv, CleanInv, onDisk
<1> QED
  BY <1>5, <1>6 DEF CacheInv

LEMMA CacheLogSlot ==
  ASSUME AllInv, CacheInv, NEW p \in Proc, LogWrite(p), ~Panics
  PROVE  CacheInv'
<1> DEFINE c == block[p]
           s == SlotOf(block[p])
<1>1. /\ UNCHANGED <<onDisk, buffers>> /\ pc[p] = "log_write"
      /\ idx' = [idx EXCEPT ![p] = s] /\ lh' = [lh EXCEPT !.sector[s] = c]
      /\ pc' = [pc EXCEPT ![p] = "append"] /\ pc \in [Proc -> Locations]
      /\ idx \in [Proc -> 1..(LogSize + 1)] /\ lh \in Header
  BY DEF LogWrite, LogSlot, At, Goto, AllInv, TypeInv, TypeOK
<1>2. c \in Block /\ holder[c] = p
  BY <1>1 DEF AllInv, TypeInv, BufferInv, Writing
<1>3. s \in Slot /\ (s \in 1..lh.n => lh.sector[s] = c)
  <2>1. lh.n \in 0..LogSize /\ ~(lh.n >= LogSize)
    BY <1>1, HeaderFacts DEF Panics, LogFull
  <2>2. s \in 1..(lh.n + 1) /\ (Logged(c) => s \in 1..lh.n /\ lh.sector[s] = c)
                            /\ (~Logged(c) => s = lh.n + 1)
    BY <1>1, <1>2, SlotOfBounds
  <2>3. s \in Slot
    BY <2>1, <2>2, Numbers
  <2>4. lh.n + 1 \notin 1..lh.n
    BY <2>1, SizeTypes
  <2> QED
    BY <2>2, <2>3, <2>4
<1>4. lh'.n = lh.n /\ lh'.sector = [lh.sector EXCEPT ![s] = c]
  BY <1>1, <1>2, <1>3, AssignedHeader
<1>5. \A i \in 1..lh.n : lh'.sector[i] = lh.sector[i]
  <2>1. lh.sector \in [Slot -> Block \cup {None}]
    BY <1>1, HeaderFacts
  <2>2. \A i \in 1..lh.n : i \in Slot
    BY <1>1, HeaderFacts, SizeTypes DEF Slot
  <2> QED
    BY <1>3, <1>4, <2>1, <2>2
<1>6. \A i : Waiting(i)' <=> Waiting(i)
  <2>1. \A q \in Proc : /\ Recovering(q)' <=> Recovering(q)
                        /\ pc'[q] = "install" <=> pc[q] = "install"
                        /\ pc[q] = "install" => idx'[q] = idx[q]
    BY <1>1 DEF Recovering
  <2> QED
    BY <2>1 DEF Waiting
<1>7. KeptInv'
  BY <1>1, <1>4, <1>5, <1>6 DEF CacheInv, KeptInv, onDisk, buffers
<1>8. CleanInv'
  BY <1>1, <1>4, <1>5, <1>6 DEF CacheInv, CleanInv, onDisk, buffers
<1> QED
  BY <1>7, <1>8 DEF CacheInv

LEMMA CacheAppend ==
  ASSUME AllInv, CacheInv, NEW p \in Proc, Append(p)
  PROVE  CacheInv'
<1>1. /\ UNCHANGED <<disk, buffers, lh, idx>> /\ pc[p] = "append"
      /\ diskLog' = [diskLog EXCEPT ![idx[p]] = cache[block[p]]]
      /\ pc' = [pc EXCEPT ![p] = "count"] /\ pc \in [Proc -> Locations]
      /\ diskLog \in [Slot -> Value] /\ lh.n \in 0..LogSize
  BY HeaderFacts DEF Append, At, Goto, locals, AllInv, TypeInv, TypeOK
<1>2. holder[block[p]] = p /\ lh.sector[idx[p]] = block[p]
  BY <1>1 DEF AllInv, TypeInv, BufferInv, LogInv, PlaceInv, Place, Appending, Writing
<1>3. \A i : Waiting(i)' <=> Waiting(i)
  BY <1>1 DEF Waiting, Recovering
<1>4. \A i \in 1..lh.n : holder[lh.sector[i]] = None => diskLog'[i] = diskLog[i]
  <2>1. \A i \in 1..lh.n : i \in Slot
    BY <1>1, SizeTypes DEF Slot
  <2> QED
    BY <1>1, <1>2, <2>1, Names
<1>5. KeptInv'
  BY <1>1, <1>3, <1>4 DEF CacheInv, KeptInv, buffers
<1>6. CleanInv'
  BY <1>1, <1>3 DEF CacheInv, CleanInv, buffers
<1> QED
  BY <1>5, <1>6 DEF CacheInv

LEMMA CacheCount ==
  ASSUME Stray = {}, AllInv, AllInv', CacheInv, NEW p \in Proc, Count(p)
  PROVE  CacheInv'
<1> DEFINE c == block[p]
<1>1. /\ UNCHANGED <<onDisk, cache, idx>> /\ pc[p] = "count" /\ pc' = [pc EXCEPT ![p] = "in"]
      /\ lh' = [lh EXCEPT !.n = IF idx[p] = lh.n + 1 THEN lh.n + 1 ELSE lh.n]
      /\ dirty' = dirty \cup {c} /\ holder' = [holder EXCEPT ![c] = None]
      /\ pc \in [Proc -> Locations] /\ holder \in [Block -> Proc \cup {None}]
      /\ lh \in Header /\ lh.n \in 0..LogSize
  BY HeaderFacts DEF Count, At, Goto, AllInv, TypeInv, TypeOK
<1>2. /\ Appending(p) /\ c \in Block /\ diskLog[idx[p]] = cache[c] /\ idx[p] \in Slot
  BY <1>1 DEF AllInv, TypeInv, BufferInv, LogInv, PlaceInv, Place, Writing
<1>3. /\ lh'.n = (IF idx[p] = lh.n + 1 THEN lh.n + 1 ELSE lh.n) /\ lh'.sector = lh.sector
      /\ idx[p] \in 1..lh'.n /\ lh.sector[idx[p]] = c
      /\ \A i \in 1..lh'.n : i \in 1..lh.n \/ i = idx[p]
      /\ \A i \in 1..lh.n : i \in 1..lh'.n
  <2> DEFINE n == IF idx[p] = lh.n + 1 THEN lh.n + 1 ELSE lh.n
  <2>1. n \in 0..LogSize /\ n \in Nat /\ idx[p] \in 1..n /\ lh.sector[idx[p]] = c
    BY <1>1, <1>2, SizeTypes DEF Appending, Slot
  <2>2. lh' = [lh EXCEPT !.n = n]
    BY <1>1
  <2>3. lh'.n = n /\ lh'.sector = lh.sector
    BY <1>1, <2>1, <2>2, CountedHeader
  <2>4. /\ \A i \in 1..n : i \in 1..lh.n \/ i = idx[p]
        /\ \A i \in 1..lh.n : i \in 1..n
    BY <1>1, SizeTypes
  <2> HIDE DEF n
  <2>5. idx[p] \in 1..lh'.n /\ (\A i \in 1..lh'.n : i \in 1..lh.n \/ i = idx[p])
                            /\ (\A i \in 1..lh.n : i \in 1..lh'.n)
    BY <2>1, <2>3, <2>4
  <2> QED
    BY <2>1, <2>3, <2>5 DEF n
<1>4. \A i \in 1..lh.n : lh.sector[i] = c => i = idx[p]
  BY <1>2 DEF Appending
<1>5. (\A i : Waiting(i)) /\ (\A i : Waiting(i))'
  <2>1. InTransaction(p) /\ pc[p] # "install"
    BY <1>1 DEF InTransaction
  <2>2. (InTransaction(p) /\ pc[p] # "install")'
    BY <1>1 DEF InTransaction
  <2> QED
    BY <2>1, <2>2, WaitingOpen, WaitingOpenNext
<1>6. \A b \in Block : b # c => holder'[b] = holder[b]
  BY <1>1
<1>7. KeptInv'
  <2> SUFFICES ASSUME NEW i \in 1..lh'.n, holder'[lh.sector[i]] = None
               PROVE  lh.sector[i] \in dirty' /\ cache[lh.sector[i]] = diskLog[i]
    BY <1>1, <1>3 DEF KeptInv, onDisk
  <2>1. CASE i = idx[p]
    BY <1>1, <1>2, <1>3, <2>1
  <2>2. CASE i # idx[p]
    <3>1. i \in 1..lh.n /\ lh.sector[i] # c
      BY <1>3, <1>4, <2>2
    <3>2. lh.sector[i] \in Block
      BY <3>1 DEF AllInv, LogInv, HeaderInv, Sectors
    <3>3. holder[lh.sector[i]] = None
      BY <1>6, <3>1, <3>2
    <3>4. lh.sector[i] \in dirty /\ cache[lh.sector[i]] = diskLog[i]
      BY <1>5, <3>1, <3>3 DEF CacheInv, KeptInv
    <3> QED
      BY <1>1, <3>4
  <2> QED
    BY <2>1, <2>2
<1>8. CleanInv'
  <2> SUFFICES ASSUME NEW b \in Block, holder'[b] = None
               PROVE  \/ \E i \in 1..lh'.n : lh.sector[i] = b
                      \/ cache[b] \in {NoValue, disk[b]}
    BY <1>1, <1>3, <1>5 DEF CleanInv, onDisk
  <2>1. CASE b = c
    BY <1>3, <2>1
  <2>2. CASE b # c
    <3>1. (\E i \in 1..lh.n : lh.sector[i] = b) \/ cache[b] \in {NoValue, disk[b]}
      BY <1>6, <2>2 DEF CacheInv, CleanInv
    <3> QED
      BY <1>3, <3>1
  <2> QED
    BY <2>1, <2>2
<1> QED
  BY <1>7, <1>8 DEF CacheInv

LEMMA CacheStep ==
  ASSUME Stray = {}, AllInv, AllInv', CacheInv, [Next]_vars
  PROVE  CacheInv'
<1>0. /\ pc \in [Proc -> Locations] /\ idx \in [Proc -> 1..(LogSize + 1)]
      /\ lh \in Header /\ head \in Header
  BY DEF AllInv, TypeInv, TypeOK
<1>1. ASSUME NEW b \in Block, Read(b) \/ Evict(b) PROVE CacheInv'
  BY <1>1, CacheRead
<1>2. ASSUME NEW p \in Proc, ReadHead(p) PROVE CacheInv'
  <2>1. /\ UNCHANGED <<onDisk, buffers>> /\ pc[p] = "read head"
        /\ pc' = [pc EXCEPT ![p] = "recover"]
    BY <1>2 DEF ReadHead, At, Goto
  <2>2. Recovering(p) /\ Recovering(p)'
    BY <1>0, <2>1 DEF Recovering
  <2>3. \A i : ~Waiting(i) /\ ~Waiting(i)'
    BY <2>2 DEF Waiting
  <2> QED
    BY <2>1, <2>3, InstalledCache DEF onDisk
<1>3. ASSUME NEW p \in Proc, RecoverErase(p) PROVE CacheInv'
  <2>1. /\ UNCHANGED <<disk, buffers>> /\ lh' = lh /\ lh.n = 0
    BY <1>3 DEF RecoverErase, At, AllInv, LogInv, PlaceInv, Place
  <2>2. \A i \in 1..lh.n : FALSE
    BY <2>1
  <2> QED
    BY <2>1, <2>2, InstalledCache
<1>4. ASSUME NEW p \in Proc, BeginSleep(p) \/ Call(p) \/ Begin(p) \/ Commit(p)
      PROVE  CacheInv'
  <2>1. /\ UNCHANGED <<onDisk, buffers, lh, idx>>
        /\ pc[p] \in {"idle", "begin", "in"}
        /\ \E there \in {"begin", "asleep", "in", "head", "end"} :
             pc' = [pc EXCEPT ![p] = there]
    BY <1>4 DEF BeginSleep, Call, Begin, Commit, At, Goto, locals
  <2>2. \A i : Waiting(i)' <=> Waiting(i)
    BY <1>0, <2>1 DEF Waiting, Recovering
  <2> QED
    BY <2>1, <2>2, SameCache DEF onDisk
<1>5. ASSUME NEW p \in Proc, EraseHead(p) \/ End(p) PROVE CacheInv'
  <2>1. /\ UNCHANGED <<disk, buffers, lh>> /\ lh.n = 0
    BY <1>5 DEF EraseHead, End, At, onDisk, AllInv, LogInv, PlaceInv, Place
  <2>2. \A i \in 1..lh.n : FALSE
    BY <2>1
  <2> QED
    BY <2>1, <2>2, InstalledCache
<1>6. ASSUME NEW p \in Proc, WriteHead(p) PROVE CacheInv'
  <2>1. /\ UNCHANGED <<disk, diskLog, buffers, lh>> /\ pc[p] = "head"
        /\ pc' = [pc EXCEPT ![p] = "install"] /\ idx' = [idx EXCEPT ![p] = 1]
    BY <1>6 DEF WriteHead, At, Goto
  <2>2. InTransaction(p) /\ pc[p] # "install"
    BY <2>1 DEF InTransaction
  <2>3. \A i : Waiting(i)
    BY <2>2, WaitingOpen
  <2>4. \A q \in Proc : ~Recovering(q)' /\ (pc'[q] = "install" => q = p)
    <3>1. \A q \in Proc : q # p => ~InTransaction(q) /\ ~Recovering(q)
      BY <2>2, Alone DEF AllInv, LogInv
    <3> QED
      BY <1>0, <2>1, <3>1 DEF Recovering, InTransaction
  <2>5. ASSUME NEW i \in 1..lh.n PROVE Waiting(i)'
    <3>1. idx'[p] = 1 /\ 1 <= i
      BY <1>0, <2>1
    <3> QED
      BY <2>4, <3>1 DEF Waiting
  <2> QED
    BY <2>1, <2>3, <2>5, SameCache
<1>7. ASSUME NEW p \in Proc, Install(p) PROVE CacheInv'
  BY <1>7, CacheInstall
<1>8. ASSUME NEW p \in Proc, InstallEnd(p) PROVE CacheInv'
  BY <1>8, CacheInstallEnd
<1>9. ASSUME NEW p \in Proc, LogWrite(p) PROVE CacheInv'
  <2>1. CASE Panics
    <3>1. UNCHANGED <<onDisk, buffers, lh, idx>> /\ pc[p] = "log_write"
                                                 /\ pc' = [pc EXCEPT ![p] = "panic"]
      BY <1>9, <2>1 DEF LogWrite, LogWritePanic, At, Goto, locals
    <3>2. pc'[p] = "panic"
      BY <1>0, <3>1
    <3> QED
      BY <3>2 DEF AllInv, LogInv, PlaceInv, Place
  <2> QED
    BY <1>9, <2>1, CacheLogSlot
<1>10. ASSUME NEW p \in Proc, Append(p) PROVE CacheInv'
  BY <1>10, CacheAppend
<1>11. ASSUME NEW p \in Proc, Count(p) PROVE CacheInv'
  BY <1>11, CacheCount
<1>12. ASSUME NEW p \in Proc, NEW b \in Block, NEW v \in Value, Modify(p, b, v)
       PROVE  CacheInv'
  BY <1>12, CacheModify
<1>13. ASSUME Crash PROVE CacheInv'
  <2>1. lh'.n = 0 /\ cache' = [b \in Block |-> NoValue]
    BY <1>13 DEF Crash
  <2>2. \A i \in 1..lh'.n : FALSE
    BY <2>1
  <2> QED
    BY <2>1, <2>2 DEF CacheInv, KeptInv, CleanInv
<1>14. ASSUME UNCHANGED vars PROVE CacheInv'
  <2>1. UNCHANGED <<disk, diskLog, lh, buffers>>
    BY <1>14 DEF vars, buffers
  <2>2. \A i : Waiting(i)' <=> Waiting(i)
    BY <1>14 DEF vars, Waiting, Recovering
  <2> QED
    BY <2>1, <2>2, SameCache
<1> QED
  BY <1>1, <1>2, <1>3, <1>4, <1>5, <1>6, <1>7, <1>8, <1>9, <1>10, <1>11, <1>12,
     <1>13, <1>14 DEF Next, Step

(* log.busy is set by begin_trans for its caller, and reset by its commit_trans. *)
LEMMA SomebodyStep ==
  ASSUME Stray = {}, AllInv, AllInv', SomebodyInv, [Next]_vars
  PROVE  SomebodyInv'
<1>0. pc \in [Proc -> Locations]
  BY DEF AllInv, TypeInv, TypeOK
<1>1. ASSUME NEW b \in Block, Read(b) \/ Evict(b) PROVE SomebodyInv'
  BY <1>1 DEF Read, Evict, SomebodyInv, InTransaction
<1>2. ASSUME NEW p \in Proc, ReadHead(p) \/ RecoverErase(p) PROVE SomebodyInv'
  <2>1. busy' = busy /\ Recovering(p)
    BY <1>2 DEF ReadHead, RecoverErase, At, Recovering
  <2> QED
    BY <2>1 DEF AllInv, LogInv, BusyInv, SomebodyInv
<1>3. ASSUME NEW p \in Proc, BeginSleep(p) \/ Call(p) PROVE SomebodyInv'
  <2>1. /\ busy' = busy /\ pc[p] \in {"idle", "begin"}
        /\ \E there \in {"begin", "asleep"} : pc' = [pc EXCEPT ![p] = there]
    BY <1>3 DEF BeginSleep, Call, At, Goto
  <2> QED
    BY <1>0, <2>1 DEF SomebodyInv, InTransaction
<1>4. ASSUME NEW p \in Proc, pc'[p] # "panic",
             \/ Begin(p) \/ Commit(p) \/ WriteHead(p) \/ EraseHead(p)
             \/ LogWrite(p) \/ Append(p) \/ Count(p)
      PROVE  SomebodyInv'
  <2>1. InTransaction(p)'
    <3>1. CASE LogWrite(p)
      BY <1>0, <1>4, <3>1 DEF LogWrite, LogWritePanic, LogSlot, Goto, InTransaction
    <3>2. CASE Count(p)
      BY <1>0, <3>2 DEF Count, Goto, InTransaction
    <3>3. CASE Commit(p)
      BY <1>0, <3>3 DEF Commit, Goto, InTransaction
    <3> QED
      BY <1>0, <1>4, <3>1, <3>2, <3>3 DEF Begin, WriteHead, EraseHead, Append, Goto, InTransaction
  <2> QED
    BY <2>1 DEF SomebodyInv
<1>5. ASSUME NEW p \in Proc, Install(p) \/ InstallEnd(p) PROVE SomebodyInv'
  <2>1. CASE Recovering(p)
    <3>1. busy' = busy
      BY <1>5 DEF Install, InstallEnd
    <3> QED
      BY <2>1, <3>1 DEF AllInv, LogInv, BusyInv, SomebodyInv
  <2>2. CASE ~Recovering(p)
    <3>1. pc[p] = "install" /\ (pc' = pc \/ pc' = [pc EXCEPT ![p] = "erase"])
      BY <1>5, <2>2 DEF Install, InstallEnd, At, Goto, Recovering
    <3>2. InTransaction(p)'
      BY <1>0, <3>1 DEF InTransaction
    <3> QED
      BY <3>2 DEF SomebodyInv
  <2> QED
    BY <2>1, <2>2
<1>6. ASSUME NEW p \in Proc, End(p) PROVE SomebodyInv'
  BY <1>6 DEF End, SomebodyInv
<1>7. ASSUME NEW p \in Proc, NEW b \in Block, NEW v \in Value, Modify(p, b, v)
      PROVE  SomebodyInv'
  <2>1. InTransaction(p)'
    BY <1>0, <1>7 DEF Modify, Goto, InTransaction
  <2> QED
    BY <2>1 DEF SomebodyInv
<1>8. ASSUME Crash PROVE SomebodyInv'
  BY <1>8 DEF Crash, SomebodyInv
<1>9. ASSUME UNCHANGED vars PROVE SomebodyInv'
  BY <1>9 DEF vars, SomebodyInv, InTransaction
<1>10. \A p \in Proc : pc'[p] # "panic"
  BY DEF AllInv, LogInv, PlaceInv, Place
<1> QED
  BY <1>1, <1>2, <1>3, <1>4, <1>5, <1>6, <1>7, <1>8, <1>9, <1>10 DEF Next, Step

(* What a reader finds, from the invariants.                                    *)
LEMMA ReadsInv ==
  ASSUME Stray = {}, AllInv, CacheInv, SomebodyInv
  PROVE  ReadsSeeTheLastWrite
<1> SUFFICES ASSUME Recovered, NEW b \in Block, holder[b] = None
             PROVE  Seen(b) = IF Pending[b] = NoValue THEN Stable[b] ELSE Pending[b]
  BY DEF ReadsSeeTheLastWrite
<1>0. /\ StableIs /\ PendingIs /\ head.n \in Nat /\ lh.n \in 0..LogSize
      /\ diskLog \in [Slot -> Value] /\ NoValue \notin Value
      /\ \A p \in Proc : ~Recovering(p) /\ Place(p)
  <2>1. StableIs /\ PendingIs /\ NoValue \notin Value
    BY Facts, LogAssumption
  <2>2. head \in Header /\ lh \in Header /\ diskLog \in [Slot -> Value]
    BY DEF AllInv, TypeInv, TypeOK
  <2>3. head.n \in Nat /\ lh.n \in 0..LogSize
    BY <2>2, HeaderFacts, SizeTypes
  <2>4. \A p \in Proc : ~Recovering(p) /\ Place(p)
    BY DEF AllInv, LogInv, PlaceInv, Recovered, Recovering
  <2> QED
    BY <2>1, <2>2, <2>3, <2>4
<1>1. \A i \in 1..lh.n : diskLog[i] \in Value
  BY <1>0, SizeTypes DEF Slot
<1>2. ASSUME NEW i \in 1..lh.n, lh.sector[i] = b, Waiting(i) PROVE Seen(b) = diskLog[i]
  BY <1>0, <1>1, <1>2 DEF CacheInv, KeptInv, Seen
<1>3. (\A i \in 1..lh.n : lh.sector[i] = b => ~Waiting(i)) => Seen(b) = disk[b]
  BY DEF CacheInv, CleanInv, Seen
<1>4. CASE head.n = 0
  <2>1. Stable[b] = disk[b]
    BY <1>0, <1>4 DEF StableIs
  <2>2. ASSUME NEW i \in 1..lh.n PROVE Waiting(i)
    <3>1. lh.n # 0
      BY <1>0
    <3>2. \A p \in Proc : pc[p] # "install"
      BY <1>0, <1>4, <3>1 DEF Place, Installing
    <3> QED
      BY <1>0, <3>2 DEF Waiting
  <2>3. CASE \E i \in 1..lh.n : lh.sector[i] = b
    <3>1. PICK i \in 1..lh.n : lh.sector[i] = b
      BY <2>3
    <3>2. Pending[b] = diskLog[i]
      BY <1>0, <1>4, <3>1 DEF PendingIs
    <3>3. Seen(b) = diskLog[i]
      BY <1>2, <2>2, <3>1
    <3> QED
      BY <1>0, <1>1, <3>1, <3>2, <3>3
  <2>4. CASE \A i \in 1..lh.n : lh.sector[i] # b
    BY <1>0, <1>3, <2>1, <2>4 DEF PendingIs
  <2> QED
    BY <2>3, <2>4
<1>5. CASE head.n # 0
  <2>1. Pending[b] = NoValue
    BY <1>0, <1>5 DEF PendingIs, Promise!Nothing
  <2>2. busy
    BY <1>0, <1>5 DEF AllInv, LogInv, QuietInv
  <2>3. PICK p \in Proc : InTransaction(p)
    BY <2>2 DEF SomebodyInv
  <2>4. Place(p)
    BY <1>0
  <2>5. pc[p] \in {"install", "erase"}
    BY <1>5, <2>3, <2>4 DEF Place, InTransaction, Writing
  <2>6. CASE pc[p] = "install"
    <3>1. \A q \in Proc : q # p => pc[q] # "install"
      BY <2>3, Alone DEF AllInv, LogInv, InTransaction
    <3>2. \A i : Waiting(i) <=> idx[p] <= i
      BY <1>0, <2>6, <3>1 DEF Waiting
    <3>3. Installing(p)
      BY <2>4, <2>6 DEF Place
    <3>4. CASE \E i \in 1..lh.n : lh.sector[i] = b
      <4>1. PICK i \in 1..lh.n : lh.sector[i] = b
        BY <3>4
      <4>2. Stable[b] = diskLog[i]
        BY <1>0, <3>3, <4>1 DEF StableIs, Installing
      <4>3. CASE idx[p] <= i
        BY <1>2, <2>1, <3>2, <4>1, <4>2, <4>3
      <4>4. CASE ~(idx[p] <= i)
        <5>1. i < idx[p]
          <6>1. idx[p] \in Nat /\ i \in Nat
            BY SizeTypes DEF AllInv, TypeInv, TypeOK
          <6> QED
            BY <4>4, <6>1
        <5>2. disk[b] = diskLog[i]
          BY <3>3, <4>1, <5>1 DEF Installing
        <5>3. \A j \in 1..lh.n : lh.sector[j] = b => ~Waiting(j)
          BY <3>2, <4>1, <4>4 DEF AllInv, LogInv, HeaderInv, Distinct
        <5> QED
          BY <1>3, <2>1, <4>2, <5>2, <5>3
      <4> QED
        BY <4>3, <4>4
    <3>5. CASE \A i \in 1..lh.n : lh.sector[i] # b
      <4>1. \A i \in 1..head.n : head.sector[i] # b
        BY <3>3, <3>5 DEF Installing
      <4>2. Stable[b] = disk[b]
        BY <1>0, <4>1 DEF StableIs
      <4> QED
        BY <1>3, <2>1, <3>5, <4>2
    <3> QED
      BY <3>4, <3>5
  <2>7. CASE pc[p] = "erase"
    <3>1. lh.n = 0 /\ Installed
      BY <2>4, <2>7 DEF Place
    <3>2. Seen(b) = disk[b]
      <4>1. \A i \in 1..lh.n : FALSE
        BY <3>1
      <4> QED
        BY <1>3, <4>1
    <3>3. Stable[b] = disk[b]
      BY <1>0, <3>1 DEF StableIs, Installed
    <3> QED
      BY <2>1, <3>2, <3>3
  <2> QED
    BY <2>5, <2>6, <2>7
<1> QED
  BY <1>4, <1>5

\* With every write inside a transaction, who reads a block that nobody holds gets
\* what was last written to it, whatever was evicted, installed or recovered
\* (log.c:69-82, log.c:180).
THEOREM LogReadsSeeTheLastWrite ==
  ASSUME Stray = {}
  PROVE  Spec => []ReadsSeeTheLastWrite
<1>1. Spec => []AllInv
  BY LogAlways DEF AllInv
<1>2. Init => CacheInv /\ SomebodyInv
  BY CacheInit
<1>3. AllInv /\ AllInv' /\ CacheInv /\ SomebodyInv /\ [Next]_vars => (CacheInv /\ SomebodyInv)'
  BY CacheStep, SomebodyStep
<1>4. AllInv /\ CacheInv /\ SomebodyInv => ReadsSeeTheLastWrite
  BY ReadsInv
<1> QED
  BY <1>1, <1>2, <1>3, <1>4, PTL DEF Spec
=============================================================================
