--------------------------- MODULE BufCacheProofs ---------------------------
(***************************************************************************)
(* The buffer cache's safety, for every number of processes, of buffers    *)
(* and of sectors: who uses which buffer, who waits for whom, and what a   *)
(* sector holds, in the cache and on the disk.                             *)
(***************************************************************************)
EXTENDS BufCache, FiniteSetTheorems, SequenceTheorems, TLAPS

InIderw == {"iderw", "asleep in iderw", "iderw loop"}
Queued(b) == b \in ToSet(idequeue)

(* Who looks for a sector does not hold it.                                *)
AskInv == \A p \in Proc : pc[p] \in {"bget", "asleep in bget"} =>
  /\ want[p] \in Sector
  /\ \A b \in held[p] : sector[b] # want[p]
  /\ pc[p] = "asleep in bget" => buf[p] \in Buf

(* One process at a time is in a transaction, and only there, or outside   *)
(* as a stray, does one hold buffers while it looks for another sector.    *)
TransInv ==
  /\ \A p \in intrans, q \in intrans : p = q
  /\ \A p \in Proc : (pc[p] \in {"bget", "asleep in bget"} /\ held[p] # {})
                        => (p \in intrans \/ p \in Stray)

(* A buffer that is held has its sector's contents, or its holder is       *)
(* waiting for them.                                                       *)
HeldInv == \A p \in Proc : \A b \in held[p] :
  /\ sector[b] \in Sector
  /\ "VALID" \in flags[b] \/ (pc[p] \in InIderw /\ buf[p] = b)

(* Who is in iderw holds the buffer, which is queued until it is synced.   *)
IderwInv == \A p \in Proc :
  /\ pc[p] \in InIderw => buf[p] \in held[p]
  /\ pc[p] = "iderw" => ~Synced(buf[p]) /\ ~Queued(buf[p])
  /\ pc[p] = "iderw loop" => Synced(buf[p]) \/ Queued(buf[p])

(* Each request is queued once, by a process that waits for it.            *)
QueueInv ==
  /\ IsInjective(idequeue)
  /\ \A b \in ToSet(idequeue) :
       /\ ~Synced(b)
       /\ \E p \in Proc : buf[p] = b /\ pc[p] \in {"asleep in iderw", "iderw loop"}

(* Nothing in the cache that nobody is working on is without contents.     *)
FlagInv == \A b \in Buf :
  /\ "DIRTY" \in flags[b] => "VALID" \in flags[b]
  /\ sector[b] \in Sector => "VALID" \in flags[b] \/ "BUSY" \in flags[b]

(* A clean buffer of a sound sector is what the disk has; so is one the    *)
(* disk has just written.  Only faulty sectors fail.                       *)
DiskInv ==
  /\ \A b \in Buf : (sector[b] \in Sound /\ Synced(b)) => disk[sector[b]] = data[b]
  /\ command = "done" /\ "DIRTY" \in flags[Head(idequeue)] /\ sector[Head(idequeue)] \in Sound
       => disk[sector[Head(idequeue)]] = data[Head(idequeue)]
  /\ command = "failed" => sector[Head(idequeue)] \in Faulty

IInv == /\ TypeOK /\ OneBufferOneUser /\ SleepersWaitForSomebody /\ PanicsOnlyWhenFull
        /\ AskInv /\ TransInv /\ HeldInv /\ IderwInv /\ QueueInv /\ FlagInv /\ DiskInv
-----------------------------------------------------------------------------
(* The list of buffers that binit makes has every buffer once.             *)
LEMMA SetToSeqFacts ==
  ASSUME NEW S, IsFiniteSet(S)
  PROVE  /\ SetToSeq(S) \in [1..Cardinality(S) -> S]
         /\ ToSet(SetToSeq(S)) = S
<1> DEFINE n == Cardinality(S)
           IsList(f) == f \in [1..n -> S] /\ IsInjective(f)
<1>1. n \in Nat /\ ExistsBijection(1..n, S)
  BY FS_CardinalityType
<1>2. PICK f : f \in [1..n -> S] /\ IsInjective(f)
  BY <1>1 DEF ExistsBijection, Bijection, Injection
<1>3. SetToSeq(S) \in [1..n -> S] /\ IsInjective(SetToSeq(S))
  BY <1>2 DEF SetToSeq
<1>4. IsFiniteSet(1..n) /\ Cardinality(1..n) = n
  BY <1>1, FS_Interval
<1>5. SetToSeq(S) \in Injection(1..n, S)
  BY <1>3 DEF Injection
<1>6. SetToSeq(S) \in Surjection(1..n, S)
  BY <1>4, <1>5, FS_Injection
<1> QED
  BY <1>3, <1>6 DEF Surjection, ToSet

(* A queue that a request joins.                                           *)
LEMMA AppendFacts ==
  ASSUME NEW S, NEW q \in Seq(S), NEW x \in S
  PROVE  /\ Append(q, x) \in Seq(S) /\ Append(q, x) # <<>>
         /\ ToSet(Append(q, x)) = ToSet(q) \cup {x}
         /\ Head(Append(q, x)) = IF q = <<>> THEN x ELSE Head(q)
         /\ IsInjective(q) /\ x \notin ToSet(q) => IsInjective(Append(q, x))
<1> DEFINE a == Append(q, x)
<1>1. /\ Len(q) \in Nat /\ DOMAIN q = 1..Len(q)
      /\ a \in Seq(S) /\ a # <<>> /\ Len(a) = Len(q) + 1
      /\ \A i \in 1..Len(q) : a[i] = q[i]
      /\ a[Len(q) + 1] = x
  BY AppendProperties, LenProperties
<1>2. DOMAIN a = 1..(Len(q) + 1)
  BY <1>1, LenProperties
<1>3. Head(a) = IF q = <<>> THEN x ELSE Head(q)
  BY HeadTailAppend
<1> HIDE DEF a
<1>4. ToSet(a) = ToSet(q) \cup {x}
  BY <1>1, <1>2 DEF ToSet
<1>5. IsInjective(q) /\ x \notin ToSet(q) => IsInjective(a)
  BY <1>1, <1>2 DEF ToSet, IsInjective
<1> QED
  BY <1>1, <1>3, <1>4, <1>5 DEF a

(* A queue whose first request is done.                                    *)
LEMMA TailFacts ==
  ASSUME NEW S, NEW q \in Seq(S), q # <<>>
  PROVE  /\ Head(q) \in S /\ Tail(q) \in Seq(S)
         /\ ToSet(q) = ToSet(Tail(q)) \cup {Head(q)}
         /\ IsInjective(q) => IsInjective(Tail(q)) /\ Head(q) \notin ToSet(Tail(q))
<1> DEFINE t == Tail(q)
<1>1. /\ Head(q) \in S /\ t \in Seq(S) /\ Len(t) = Len(q) - 1
      /\ \A i \in 1..Len(t) : t[i] = q[i + 1]
  BY HeadTailProperties
<1>2. Len(q) \in Nat \ {0} /\ DOMAIN q = 1..Len(q) /\ DOMAIN t = 1..Len(t) /\ Head(q) = q[1]
  BY <1>1, LenProperties, EmptySeq
<1> HIDE DEF t
<1>3. ToSet(q) = ToSet(t) \cup {q[1]}
  <2>1. ASSUME NEW i \in DOMAIN q PROVE q[i] \in ToSet(t) \cup {q[1]}
    <3>1. i = 1 \/ (i - 1 \in 1..Len(t) /\ q[i] = t[i - 1])
      BY <1>1, <1>2
    <3> QED
      BY <3>1, <1>2 DEF ToSet
  <2>2. ASSUME NEW i \in DOMAIN t PROVE t[i] \in ToSet(q)
    <3>1. i + 1 \in DOMAIN q /\ t[i] = q[i + 1]
      BY <1>1, <1>2
    <3> QED
      BY <3>1 DEF ToSet
  <2>3. q[1] \in ToSet(q)
    BY <1>2 DEF ToSet
  <2> QED
    BY <2>1, <2>2, <2>3 DEF ToSet
<1>4. ASSUME IsInjective(q) PROVE IsInjective(t) /\ q[1] \notin ToSet(t)
  <2>1. \A i, j \in 1..Len(q) : q[i] = q[j] => i = j
    BY <1>2, <1>4 DEF IsInjective
  <2>2. \A i \in 1..Len(t) : i + 1 \in 1..Len(q) /\ i + 1 # 1 /\ t[i] = q[i + 1]
    BY <1>1, <1>2
  <2>3. 1 \in 1..Len(q)
    BY <1>2
  <2>4. q[1] \notin ToSet(t)
    BY <1>2, <2>1, <2>2, <2>3 DEF ToSet
  <2>5. ASSUME NEW i \in 1..Len(t), NEW j \in 1..Len(t), t[i] = t[j] PROVE i = j
    <3>1. i + 1 = j + 1
      BY <2>1, <2>2, <2>5
    <3> QED
      BY <3>1
  <2> QED
    BY <1>2, <2>4, <2>5 DEF IsInjective
<1> QED
  BY <1>1, <1>2, <1>3, <1>4 DEF t

(* None names nothing.                                                     *)
LEMMA Names == /\ None \notin Proc /\ None \notin Buf /\ None \notin Sector
               /\ None \notin {"busy", "done", "failed"}
               /\ Sound \subseteq Sector
BY BufCacheAssumption DEF BufCacheAssumption, Sound

(* The cache starts with no buffer of any sector.                          *)
LEMMA InitInv == Init => IInv
<1> SUFFICES ASSUME Init PROVE IInv
  OBVIOUS
<1>1. lru \in [1..Cardinality(Buf) -> Buf] /\ ToSet(lru) = Buf
  BY BufCacheAssumption, SetToSeqFacts DEF Init, BufCacheAssumption
<1>2. TypeOK
  BY <1>1, EmptySeq DEF Init, TypeOK, Flag, Places
<1>3. ToSet(idequeue) = {} /\ IsInjective(idequeue)
  BY DEF Init, ToSet, IsInjective
<1>4. OneBufferOneUser /\ SleepersWaitForSomebody /\ PanicsOnlyWhenFull
  BY <1>3, Names DEF Init, OneBufferOneUser, SleepersWaitForSomebody, PanicsOnlyWhenFull
<1>5. AskInv /\ TransInv /\ HeldInv /\ IderwInv /\ QueueInv
  BY <1>3, Names DEF Init, AskInv, TransInv, HeldInv, IderwInv, QueueInv, InIderw
<1>6. FlagInv /\ DiskInv
  BY <1>3, Names DEF Init, FlagInv, DiskInv
<1> QED
  BY <1>2, <1>4, <1>5, <1>6 DEF IInv
-----------------------------------------------------------------------------
(* Who has a buffer in hand: a queued one its requester, any other one     *)
(* somebody who has its contents.                                          *)
LEMMA Holders ==
  ASSUME IInv
  PROVE  /\ \A b \in ToSet(idequeue) :
              /\ b \in Buf /\ ~Synced(b) /\ "BUSY" \in flags[b]
              /\ \E p \in Proc : /\ b \in held[p] /\ buf[p] = b
                                /\ pc[p] \in {"asleep in iderw", "iderw loop"}
         /\ \A p \in Proc : \A b \in held[p] :
              /\ b \in Buf /\ "BUSY" \in flags[b] /\ sector[b] \in Sector
              /\ \A q \in Proc : b \in held[q] => q = p
              /\ pc[p] \notin InIderw => "VALID" \in flags[b] /\ ~Queued(b)
<1> USE DEF IInv
<1>1. \A b \in ToSet(idequeue) : b \in Buf
  <2>1. Len(idequeue) \in Nat /\ idequeue \in [1..Len(idequeue) -> Buf]
    BY LenProperties DEF TypeOK
  <2> QED
    BY <2>1 DEF ToSet
<1>2. \A b \in ToSet(idequeue) :
        \E p \in Proc : /\ b \in held[p] /\ buf[p] = b
                       /\ pc[p] \in {"asleep in iderw", "iderw loop"}
  BY DEF QueueInv, IderwInv, InIderw
<1>3. \A p \in Proc : \A b \in held[p] :
        /\ b \in Buf /\ "BUSY" \in flags[b] /\ sector[b] \in Sector
        /\ \A q \in Proc : b \in held[q] => q = p
  BY DEF TypeOK, OneBufferOneUser, HeldInv
<1>4. \A b \in ToSet(idequeue) : ~Synced(b)
  BY DEF QueueInv
<1>5. ASSUME NEW p \in Proc, NEW b \in held[p], pc[p] \notin InIderw
      PROVE  "VALID" \in flags[b] /\ ~Queued(b)
  <2>1. "VALID" \in flags[b]
    BY <1>5 DEF HeldInv
  <2>2. ASSUME Queued(b) PROVE FALSE
    <3>1. PICK q \in Proc : b \in held[q] /\ pc[q] \in {"asleep in iderw", "iderw loop"}
      BY <1>2, <2>2 DEF Queued
    <3>2. q = p
      BY <1>3, <3>1
    <3> QED
      BY <1>5, <3>1, <3>2 DEF InIderw
  <2> QED
    BY <2>1, <2>2
<1> QED
  BY <1>1, <1>2, <1>3, <1>4, <1>5

(* bread: who holds buffers and asks for another one changes blocks.       *)
LEMMA BreadKeeps ==
  ASSUME IInv, NEW p \in Proc, NEW s \in Sector, Bread(p, s)
  PROVE  IInv'
<1> USE DEF IInv
<1>1. /\ pc[p] = "user" /\ ~panicked /\ \A b \in held[p] : sector[b] # s
      /\ held[p] = {} \/ p \in intrans \/ p \in Stray
      /\ \A q \in Proc : pc'[q] = IF q = p THEN "bget" ELSE pc[q]
      /\ \A q \in Proc : want'[q] = IF q = p THEN s ELSE want[q]
      /\ UNCHANGED <<lru, sector, flags, data, idequeue, command, disk, buf, held, intrans, panicked>>
  BY DEF Bread, MayAskForMore, Changes, At, Goto, TypeOK, driver
<1>2. TypeOK'
  BY DEF Bread, At, Goto, TypeOK, Places, driver
<1>3. (OneBufferOneUser /\ PanicsOnlyWhenFull /\ FlagInv /\ DiskInv)'
  BY <1>1 DEF OneBufferOneUser, PanicsOnlyWhenFull, FlagInv, DiskInv, Synced
<1>4. SleepersWaitForSomebody'
  BY <1>1 DEF SleepersWaitForSomebody
<1>5. AskInv'
  BY <1>1 DEF AskInv
<1>6. HeldInv'
  BY <1>1 DEF HeldInv, InIderw
<1>7. (IderwInv /\ QueueInv)'
  BY <1>1 DEF IderwInv, QueueInv, InIderw, Synced, Queued
<1>8. TransInv'
  BY <1>1 DEF TransInv
<1> QED
  BY <1>2, <1>3, <1>4, <1>5, <1>6, <1>7, <1>8

(* A step of one process that ends with a buffer in its hands, which it    *)
(* had or nobody had: it has the contents or goes and asks for them.       *)
LEMMA TakesOrKeeps ==
  ASSUME IInv, TypeOK', NEW p \in Proc, NEW b \in Buf,
         \A c \in Buf \ {b} : sector'[c] = sector[c] /\ flags'[c] = flags[c] /\ data'[c] = data[c],
         \A q \in Proc \ {p} : pc'[q] = pc[q] /\ buf'[q] = buf[q] /\ held'[q] = held[q],
         ~panicked, UNCHANGED <<idequeue, command, disk, want, intrans, panicked>>,
         \A q \in Proc \ {p} : b \notin held[q],
         ~Queued(b),
         pc[p] \in InIderw => buf[p] = b,
         held'[p] = held[p] \cup {b},
         "BUSY" \in flags'[b],
         "BUSY" \in flags[b] => sector'[b] = sector[b],
         sector'[b] \in Sector,
         \A c \in Buf \ {b} : sector[c] # sector'[b],
         "DIRTY" \in flags'[b] => "VALID" \in flags'[b],
         \/ pc'[p] = "user" /\ "VALID" \in flags'[b]
         \/ pc'[p] = "iderw" /\ buf'[p] = b /\ ~Synced(b)',
         sector'[b] \in Sound /\ Synced(b)' => disk[sector'[b]] = data'[b]
  PROVE  IInv'
<1> USE DEF IInv
<1>1. \A q \in Proc : \A c \in held'[q] : (c = b /\ q = p) \/ (c # b /\ c \in Buf /\ c \in held[q])
  <2>1. \A q \in Proc : held[q] \subseteq Buf
    BY DEF TypeOK
  <2>2. \A q \in Proc \ {p} : \A c \in held'[q] : c \in held[q] /\ c # b
    OBVIOUS
  <2>3. \A c \in held'[p] : c = b \/ c \in held[p]
    OBVIOUS
  <2> QED
    BY <2>1, <2>2, <2>3
<1>2. \A c \in Buf \ {b} : Synced(c)' <=> Synced(c)
  BY DEF Synced
<1>3. OneBufferOneUser'
  <2>1. \A c, d \in Buf : c # d => sector'[c] # sector'[d] \/ sector'[c] = None
    BY Names DEF OneBufferOneUser
  <2>2. \A q, r \in Proc : q # r => held'[q] \cap held'[r] = {}
    BY <1>1 DEF OneBufferOneUser
  <2>3. ASSUME NEW c \in Buf PROVE "BUSY" \in flags'[c] <=> \E q \in Proc : c \in held'[q]
    <3>1. CASE c = b
      BY <3>1
    <3>2. CASE c # b
      BY <3>2 DEF OneBufferOneUser
    <3> QED
      BY <3>1, <3>2
  <2> QED
    BY <2>1, <2>2, <2>3 DEF OneBufferOneUser
<1>4. SleepersWaitForSomebody'
  <2>1. ASSUME NEW q \in Proc, pc'[q] = "asleep in bget"
        PROVE  "BUSY" \in flags'[buf'[q]] /\ sector'[buf'[q]] = want'[q]
    <3>1. q # p /\ pc[q] = "asleep in bget" /\ buf'[q] = buf[q] /\ buf[q] \in Buf
      BY <2>1 DEF AskInv
    <3>2. "BUSY" \in flags[buf[q]] /\ sector[buf[q]] = want[q]
      BY <3>1 DEF SleepersWaitForSomebody
    <3>3. "BUSY" \in flags'[buf[q]] /\ sector'[buf[q]] = sector[buf[q]]
      BY <3>1, <3>2
    <3> QED
      BY <3>1, <3>2, <3>3
  <2>2. ASSUME NEW q \in Proc, pc'[q] = "asleep in iderw"
        PROVE  buf'[q] \in ToSet(idequeue')
    BY <2>2 DEF SleepersWaitForSomebody
  <2>3. command' = None <=> idequeue' = <<>>
    BY DEF SleepersWaitForSomebody
  <2> QED
    BY <2>1, <2>2, <2>3 DEF SleepersWaitForSomebody
<1>5. PanicsOnlyWhenFull'
  BY DEF PanicsOnlyWhenFull
<1>6. AskInv'
  <2>1. ASSUME NEW q \in Proc, pc'[q] \in {"bget", "asleep in bget"}
        PROVE  /\ want'[q] \in Sector
               /\ \A c \in held'[q] : sector'[c] # want'[q]
               /\ pc'[q] = "asleep in bget" => buf'[q] \in Buf
    <3>1. q # p
      BY <2>1
    <3>2. ASSUME NEW c \in held'[q] PROVE sector'[c] # want'[q]
      <4>1. c \in Buf \ {b} /\ c \in held[q]
        BY <1>1, <3>1, <3>2
      <4>2. sector'[c] = sector[c] /\ want' = want /\ pc[q] = pc'[q]
        BY <3>1, <4>1
      <4>3. sector[c] # want[q]
        BY <2>1, <4>1, <4>2 DEF AskInv
      <4> QED
        BY <4>2, <4>3
    <3> QED
      BY <2>1, <3>1, <3>2 DEF AskInv
  <2> QED
    BY <2>1 DEF AskInv
<1>7. HeldInv'
  <2>1. ASSUME NEW q \in Proc, NEW c \in held'[q], c # b
        PROVE  /\ sector'[c] \in Sector
               /\ "VALID" \in flags'[c] \/ (pc'[q] \in InIderw /\ buf'[q] = c)
    <3>1. c \in held[q] /\ c \in Buf /\ flags'[c] = flags[c] /\ sector'[c] = sector[c]
      BY <1>1, <2>1
    <3>2. q = p => "VALID" \in flags[c]
      BY <2>1, <3>1 DEF HeldInv
    <3> QED
      BY <3>1, <3>2 DEF HeldInv
  <2>2. ASSUME NEW q \in Proc, b \in held'[q]
        PROVE  /\ sector'[b] \in Sector
               /\ "VALID" \in flags'[b] \/ (pc'[q] \in InIderw /\ buf'[q] = b)
    <3>1. q = p
      BY <1>1, <2>2
    <3> QED
      BY <3>1 DEF InIderw
  <2> QED
    BY <2>1, <2>2 DEF HeldInv
<1>8. IderwInv'
  <2>1. ASSUME NEW q \in Proc, q # p
        PROVE  /\ pc'[q] \in InIderw => buf'[q] \in held'[q]
               /\ pc'[q] = "iderw" => ~Synced(buf[q])' /\ ~Queued(buf[q])'
               /\ pc'[q] = "iderw loop" => Synced(buf[q])' \/ Queued(buf[q])'
    <3>1. pc'[q] = pc[q] /\ buf'[q] = buf[q] /\ held'[q] = held[q] /\ idequeue' = idequeue
      BY <2>1
    <3>2. pc[q] \in InIderw => buf[q] \in held[q] /\ buf[q] \in Buf \ {b}
      <4>1. pc[q] \in InIderw => buf[q] \in held[q]
        BY DEF IderwInv
      <4>2. held[q] \subseteq Buf /\ b \notin held[q]
        BY <2>1 DEF TypeOK
      <4> QED
        BY <4>1, <4>2
    <3>3. pc[q] \in InIderw => (Synced(buf[q])' <=> Synced(buf[q]))
      BY <1>2, <3>1, <3>2 DEF Synced
    <3> QED
      BY <3>1, <3>2, <3>3 DEF IderwInv, InIderw, Queued
  <2>2. /\ pc'[p] \in InIderw => buf'[p] \in held'[p]
        /\ pc'[p] = "iderw" => ~Synced(buf[p])' /\ ~Queued(buf[p])'
        /\ pc'[p] # "iderw loop"
    BY DEF Queued, InIderw, Synced
  <2> QED
    BY <2>1, <2>2 DEF IderwInv
<1>9. QueueInv'
  <2>1. ASSUME NEW c \in ToSet(idequeue)
        PROVE  /\ ~Synced(c)'
               /\ \E q \in Proc : buf'[q] = c /\ pc'[q] \in {"asleep in iderw", "iderw loop"}
    <3>1. c # b /\ c \in Buf
      BY <2>1, Holders DEF Queued
    <3>2. PICK q \in Proc : buf[q] = c /\ pc[q] \in {"asleep in iderw", "iderw loop"}
      BY <2>1 DEF QueueInv
    <3>3. q # p
      BY <3>1, <3>2 DEF InIderw
    <3> QED
      BY <1>2, <2>1, <3>1, <3>2, <3>3 DEF QueueInv
  <2> QED
    BY <2>1 DEF QueueInv
<1>10. FlagInv'
  BY DEF FlagInv
<1>11. DiskInv'
  <2>1. command \in {"done", "failed"} => Head(idequeue) \in Buf \ {b}
    <3>1. command \in {"done", "failed"} => idequeue # <<>>
      BY Names DEF SleepersWaitForSomebody
    <3>2. command \in {"done", "failed"} => Head(idequeue) \in ToSet(idequeue)
      BY <3>1, TailFacts DEF TypeOK
    <3> QED
      BY <3>2, Holders DEF Queued
  <2>2. \A c \in Buf : sector'[c] \in Sound /\ Synced(c)' => disk'[sector'[c]] = data'[c]
    BY <1>2 DEF DiskInv
  <2> QED
    BY <2>1, <2>2 DEF DiskInv
<1>12. TransInv'
  <2>1. ASSUME NEW q \in Proc, pc'[q] \in {"bget", "asleep in bget"}, held'[q] # {}
        PROVE  q \in intrans' \/ q \in Stray
    <3>1. q # p
      BY <2>1
    <3> QED
      BY <2>1, <3>1 DEF TransInv
  <2> QED
    BY <2>1 DEF TransInv
<1> QED
  BY <1>3, <1>4, <1>5, <1>6, <1>7, <1>8, <1>9, <1>10, <1>11, <1>12

(* A step of one process that is about where it is and what it waits for.  *)
LEMMA Moves ==
  ASSUME IInv, TypeOK', NEW p \in Proc,
         \A q \in Proc \ {p} : pc'[q] = pc[q] /\ buf'[q] = buf[q],
         UNCHANGED <<sector, flags, data, idequeue, command, disk, want, held, intrans, panicked>>,
         \/ /\ pc[p] \in {"bget", "asleep in bget"} /\ pc'[p] \in {"bget", "asleep in bget"}
            /\ pc'[p] = "asleep in bget" =>
                 buf'[p] \in Buf /\ "BUSY" \in flags[buf'[p]] /\ sector[buf'[p]] = want[p]
         \/ /\ pc[p] \in {"asleep in iderw", "iderw loop"} /\ Queued(buf[p])
            /\ pc'[p] \in {"asleep in iderw", "iderw loop"} /\ buf'[p] = buf[p]
  PROVE  IInv'
<1> USE DEF IInv
<1>1. \A b : Synced(b)' <=> Synced(b)
  BY DEF Synced
<1>2. (OneBufferOneUser /\ PanicsOnlyWhenFull /\ FlagInv /\ DiskInv)'
  BY <1>1 DEF OneBufferOneUser, PanicsOnlyWhenFull, FlagInv, DiskInv
<1>3. SleepersWaitForSomebody'
  BY DEF SleepersWaitForSomebody, Queued
<1>4. AskInv'
  BY DEF AskInv
<1>5. HeldInv'
  BY DEF HeldInv, InIderw
<1>6. IderwInv'
  BY <1>1 DEF IderwInv, InIderw, Queued
<1>7. QueueInv'
  <2>1. ASSUME NEW c \in ToSet(idequeue)
        PROVE  /\ ~Synced(c)'
               /\ \E q \in Proc : buf'[q] = c /\ pc'[q] \in {"asleep in iderw", "iderw loop"}
    <3>1. PICK q \in Proc : buf[q] = c /\ pc[q] \in {"asleep in iderw", "iderw loop"}
      BY <2>1 DEF QueueInv
    <3>2. buf'[q] = c /\ pc'[q] \in {"asleep in iderw", "iderw loop"}
      BY <3>1
    <3> QED
      BY <1>1, <2>1, <3>2 DEF QueueInv
  <2> QED
    BY <2>1 DEF QueueInv
<1>8. TransInv'
  BY DEF TransInv
<1> QED
  BY <1>2, <1>3, <1>4, <1>5, <1>6, <1>7, <1>8
-----------------------------------------------------------------------------
(* bget finds the sector, in a buffer that nobody uses.                    *)
LEMMA BgetHitKeeps ==
  ASSUME IInv, NEW p \in Proc, NEW b \in Buf, BgetHit(p, b)
  PROVE  IInv'
<1> USE DEF IInv
<1>1. /\ pc[p] = "bget" /\ ~panicked /\ sector[b] = want[p] /\ "BUSY" \notin flags[b]
      /\ flags'[b] = flags[b] \cup {"BUSY"} /\ held'[p] = held[p] \cup {b} /\ buf'[p] = b
      /\ pc'[p] = IF "VALID" \in flags[b] THEN "user" ELSE "iderw"
      /\ \A c \in Buf \ {b} : sector'[c] = sector[c] /\ flags'[c] = flags[c] /\ data'[c] = data[c]
      /\ \A q \in Proc \ {p} : pc'[q] = pc[q] /\ buf'[q] = buf[q] /\ held'[q] = held[q]
      /\ UNCHANGED <<sector, data, idequeue, command, disk, want, intrans, panicked>>
  BY DEF BgetHit, At, Goto, TypeOK, driver, Cached
<1>2. TypeOK'
  BY DEF BgetHit, At, Goto, TypeOK, Places, Flag, driver
<1>3. /\ sector[b] \in Sector /\ sector[b] # None
      /\ \A q \in Proc : b \notin held[q]
      /\ ~Queued(b)
  <2>1. sector[b] \in Sector /\ sector[b] # None
    <3>1. want[p] \in Sector
      BY <1>1 DEF AskInv
    <3> QED
      BY <1>1, <3>1, Names
  <2>2. \A q \in Proc : b \notin held[q]
    BY <1>1, Holders
  <2>3. ~Queued(b)
    BY <1>1, Holders DEF Queued
  <2> QED
    BY <2>1, <2>2, <2>3
<1>4. \A c \in Buf \ {b} : sector[c] # sector[b]
  BY <1>3 DEF OneBufferOneUser
<1>5. Synced(b)' <=> Synced(b)
  BY <1>1 DEF Synced
<1>6. "DIRTY" \in flags'[b] => "VALID" \in flags'[b]
  BY <1>1 DEF FlagInv
<1>7. sector'[b] \in Sound /\ Synced(b)' => disk[sector'[b]] = data'[b]
  BY <1>1, <1>5 DEF DiskInv
<1>8. pc'[p] = "iderw" => ~Synced(b)'
  BY <1>1, <1>5 DEF Synced
<1>9. pc[p] \notin InIderw
  BY <1>1 DEF InIderw
<1> QED
  BY <1>1, <1>2, <1>3, <1>4, <1>6, <1>7, <1>8, <1>9, TakesOrKeeps

(* bget makes a buffer that holds nothing anybody needs the sector's.      *)
LEMMA BgetRecycleKeeps ==
  ASSUME IInv, NEW p \in Proc, NEW b \in Buf,
         At(p, "bget"), Cached(want[p]) = {}, LeastRecent(b), Recycle(p, b)
  PROVE  IInv'
<1> USE DEF IInv
<1>1. /\ pc[p] = "bget" /\ ~panicked /\ "BUSY" \notin flags[b]
      /\ sector'[b] = want[p] /\ flags'[b] = {"BUSY"} /\ held'[p] = held[p] \cup {b}
      /\ buf'[p] = b /\ pc'[p] = "iderw"
      /\ \A c \in Buf \ {b} : sector'[c] = sector[c] /\ flags'[c] = flags[c] /\ data'[c] = data[c]
      /\ \A q \in Proc \ {p} : pc'[q] = pc[q] /\ buf'[q] = buf[q] /\ held'[q] = held[q]
      /\ UNCHANGED <<data, idequeue, command, disk, want, intrans, panicked>>
  BY DEF LeastRecent, Recyclable, Recycle, At, Goto, TypeOK, driver
<1>2. want[p] \in Sector
  BY <1>1 DEF AskInv
<1>3. TypeOK'
  BY <1>2 DEF Recycle, Goto, TypeOK, Places, Flag, driver
<1>4. /\ \A q \in Proc : b \notin held[q]
      /\ ~Queued(b)
  BY <1>1, Holders DEF OneBufferOneUser, Queued
<1>5. \A c \in Buf : sector[c] # want[p]
  BY DEF Cached
<1>6. ~Synced(b)' /\ "DIRTY" \notin flags'[b] /\ "BUSY" \in flags'[b]
  BY <1>1 DEF Synced
<1>7. pc[p] \notin InIderw
  BY <1>1 DEF InIderw
<1> QED
  BY <1>1, <1>2, <1>3, <1>4, <1>5, <1>6, <1>7, TakesOrKeeps

(* The holder of a buffer changes it; bwrite goes on to iderw.             *)
LEMMA WritesKeep ==
  ASSUME IInv, NEW p \in Proc, NEW b \in Buf, NEW v \in Value,
         LogWrite(p, b, v) \/ Bwrite(p, b, v)
  PROVE  IInv'
<1> USE DEF IInv
<1>1. /\ pc[p] = "user" /\ ~panicked /\ b \in held[p]
      /\ flags'[b] = flags[b] \cup {"DIRTY"} /\ data'[b] = v
      /\ pc'[p] = "user" \/ (pc'[p] = "iderw" /\ buf'[p] = b)
      /\ \A c \in Buf \ {b} : sector'[c] = sector[c] /\ flags'[c] = flags[c] /\ data'[c] = data[c]
      /\ \A q \in Proc \ {p} : pc'[q] = pc[q] /\ buf'[q] = buf[q] /\ held'[q] = held[q]
      /\ UNCHANGED <<sector, held, idequeue, command, disk, want, intrans, panicked>>
  BY DEF LogWrite, Bwrite, At, Goto, TypeOK, driver
<1>2. TypeOK'
  <2>1. CASE LogWrite(p, b, v)
    BY <2>1 DEF LogWrite, TypeOK, Flag, driver
  <2>2. CASE Bwrite(p, b, v)
    BY <2>2 DEF Bwrite, Goto, TypeOK, Places, Flag, driver
  <2> QED
    BY <2>1, <2>2
<1>3. pc[p] \notin InIderw
  BY <1>1 DEF InIderw
<1>4. /\ "BUSY" \in flags[b] /\ "VALID" \in flags[b] /\ sector[b] \in Sector
      /\ \A q \in Proc \ {p} : b \notin held[q]
      /\ ~Queued(b)
  BY <1>1, <1>3, Holders
<1>5. \A c \in Buf \ {b} : sector[c] # sector[b]
  BY <1>4, Names DEF OneBufferOneUser
<1>6. ~Synced(b)' /\ "BUSY" \in flags'[b] /\ "VALID" \in flags'[b]
  BY <1>1, <1>4 DEF Synced
<1>7. held'[p] = held[p] \cup {b}
  BY <1>1
<1> QED
  BY <1>1, <1>2, <1>3, <1>4, <1>5, <1>6, <1>7, TakesOrKeeps

(* iderw's loop: the buffer is synced, or the process goes on sleeping.    *)
LEMMA IderwLoopKeeps ==
  ASSUME IInv, NEW p \in Proc, IderwLoop(p)
  PROVE  IInv'
<1> USE DEF IInv
<1> DEFINE b == buf[p]
<1>1. /\ pc[p] = "iderw loop" /\ ~panicked
      /\ pc'[p] = IF Synced(b) THEN "user" ELSE "asleep in iderw"
      /\ \A q \in Proc \ {p} : pc'[q] = pc[q] /\ buf'[q] = buf[q] /\ held'[q] = held[q]
      /\ UNCHANGED <<sector, flags, data, idequeue, command, disk, want, buf, held, intrans, panicked>>
  BY DEF IderwLoop, At, Goto, TypeOK, driver
<1>2. TypeOK'
  BY DEF IderwLoop, At, Goto, TypeOK, Places, Flag, driver
<1>3. b \in held[p] /\ (Synced(b) \/ Queued(b))
  BY <1>1 DEF IderwInv, InIderw
<1>4. /\ b \in Buf /\ "BUSY" \in flags[b] /\ sector[b] \in Sector
      /\ \A q \in Proc \ {p} : b \notin held[q]
  <2> HIDE DEF b
  <2> QED
    BY <1>3, Holders
<1>5. CASE ~Synced(b)
  BY <1>1, <1>2, <1>3, <1>5, Moves
<1>6. CASE Synced(b)
  <2>1. ~Queued(b)
    BY <1>6 DEF QueueInv, Queued
  <2>2. \A c \in Buf \ {b} : sector[c] # sector[b]
    BY <1>4, Names DEF OneBufferOneUser
  <2>3. "VALID" \in flags'[b] /\ "DIRTY" \notin flags'[b]
    BY <1>1, <1>6 DEF Synced
  <2>4. held'[p] = held[p] \cup {b}
    BY <1>1, <1>3
  <2>5. sector'[b] \in Sound => disk[sector'[b]] = data'[b]
    BY <1>1, <1>4, <1>6 DEF DiskInv
  <2> HIDE DEF b
  <2>6. /\ \A c \in Buf \ {b} : sector'[c] = sector[c] /\ flags'[c] = flags[c] /\ data'[c] = data[c]
        /\ "BUSY" \in flags'[b] /\ sector'[b] = sector[b] /\ pc'[p] = "user"
        /\ UNCHANGED <<idequeue, command, disk, want, intrans, panicked>>
    BY <1>1, <1>4, <1>6
  <2>7. pc[p] \in InIderw => buf[p] = b
    BY DEF b
  <2> QED
    BY <1>1, <1>2, <1>4, <2>1, <2>2, <2>3, <2>4, <2>5, <2>6, <2>7, TakesOrKeeps
<1> QED
  BY <1>5, <1>6

(* bget finds the sector, in a buffer that somebody uses.                  *)
LEMMA BgetSleepKeeps ==
  ASSUME IInv, NEW p \in Proc, NEW b \in Buf, BgetSleep(p, b)
  PROVE  IInv'
<1>1. /\ pc[p] = "bget" /\ "BUSY" \in flags[b] /\ sector[b] = want[p]
      /\ buf'[p] = b /\ pc'[p] = "asleep in bget"
      /\ \A q \in Proc \ {p} : pc'[q] = pc[q] /\ buf'[q] = buf[q]
      /\ UNCHANGED <<sector, flags, data, idequeue, command, disk, want, held, intrans, panicked>>
  BY DEF BgetSleep, At, Goto, IInv, TypeOK, driver, Cached
<1>2. TypeOK'
  BY DEF BgetSleep, At, Goto, IInv, TypeOK, Places, driver
<1> QED
  BY <1>1, <1>2, Moves

(* kill wakes a sleeper up for nothing.                                    *)
LEMMA KillKeeps ==
  ASSUME IInv, NEW p \in Proc, Kill(p)
  PROVE  IInv'
<1>1. /\ pc[p] \in {"asleep in bget", "asleep in iderw"}
      /\ pc'[p] = IF pc[p] = "asleep in bget" THEN "bget" ELSE "iderw loop"
      /\ \A q \in Proc \ {p} : pc'[q] = pc[q] /\ buf'[q] = buf[q]
      /\ UNCHANGED <<sector, flags, data, idequeue, command, disk, want, buf, held, intrans, panicked>>
  BY DEF Kill, Goto, IInv, TypeOK, driver
<1>2. TypeOK'
  BY DEF Kill, Goto, IInv, TypeOK, Places, driver
<1>3. pc[p] = "asleep in iderw" => Queued(buf[p])
  BY DEF IInv, SleepersWaitForSomebody, Queued
<1> QED
  BY <1>1, <1>2, <1>3, Moves
-----------------------------------------------------------------------------
(* bget gives up: every buffer is in use or kept for the log.              *)
LEMMA BgetPanicKeeps ==
  ASSUME IInv, NEW p \in Proc, BgetPanic(p)
  PROVE  IInv'
<1> USE DEF IInv
<1>1. /\ \A b \in Buf : "BUSY" \in flags[b] \/ "DIRTY" \in flags[b]
      /\ UNCHANGED <<sector, flags, data, idequeue, command, disk, pc, want, buf, held, intrans>>
  BY DEF BgetPanic, Recyclable, driver
<1>2. TypeOK'
  BY DEF BgetPanic, TypeOK, driver
<1>3. PanicsOnlyWhenFull'
  BY <1>1 DEF PanicsOnlyWhenFull, OneBufferOneUser
<1>4. (OneBufferOneUser /\ SleepersWaitForSomebody /\ FlagInv /\ DiskInv)'
  BY <1>1 DEF OneBufferOneUser, SleepersWaitForSomebody, FlagInv, DiskInv, Synced
<1>5. (AskInv /\ TransInv /\ HeldInv /\ IderwInv /\ QueueInv)'
  BY <1>1 DEF AskInv, TransInv, HeldInv, IderwInv, QueueInv, Queued, Synced
<1> QED
  BY <1>2, <1>3, <1>4, <1>5

(* iderw queues the request, and starts the disk on the first one.         *)
LEMMA IderwKeeps ==
  ASSUME IInv, NEW p \in Proc, Iderw(p)
  PROVE  IInv'
<1> USE DEF IInv
<1>1. /\ pc[p] = "iderw" /\ ~panicked
      /\ idequeue' = Append(idequeue, buf[p])
      /\ command' = IF idequeue = <<>> THEN "busy" ELSE command
      /\ pc'[p] = "asleep in iderw"
      /\ \A q \in Proc \ {p} : pc'[q] = pc[q]
      /\ UNCHANGED <<sector, flags, data, disk, want, buf, held, intrans, panicked>>
  BY DEF Iderw, Idestart, At, Goto, TypeOK
<1>2. buf[p] \in held[p] /\ buf[p] \in Buf /\ ~Synced(buf[p]) /\ ~Queued(buf[p])
  BY <1>1 DEF IderwInv, InIderw, TypeOK
<1>3. /\ idequeue' \in Seq(Buf) /\ idequeue' # <<>>
      /\ ToSet(idequeue') = ToSet(idequeue) \cup {buf[p]}
      /\ Head(idequeue') = IF idequeue = <<>> THEN buf[p] ELSE Head(idequeue)
      /\ IsInjective(idequeue) => IsInjective(idequeue')
  <2>1. idequeue \in Seq(Buf) /\ buf[p] \notin ToSet(idequeue)
    BY <1>2 DEF TypeOK, Queued
  <2> DEFINE x == buf[p]
             longer == Append(idequeue, x)
  <2>2. x \in Buf
    BY <1>2
  <2>3. /\ longer \in Seq(Buf) /\ longer # <<>>
        /\ ToSet(longer) = ToSet(idequeue) \cup {x}
        /\ Head(longer) = IF idequeue = <<>> THEN x ELSE Head(idequeue)
        /\ IsInjective(idequeue) /\ x \notin ToSet(idequeue) => IsInjective(longer)
    <3> HIDE DEF x
    <3> QED
      BY <2>1, <2>2, AppendFacts
  <2>4. idequeue' = longer
    BY <1>1
  <2> HIDE DEF longer
  <2> QED
    BY <2>1, <2>3, <2>4
<1>4. TypeOK'
  BY <1>3 DEF Iderw, Idestart, At, Goto, TypeOK, Places
<1>5. (OneBufferOneUser /\ PanicsOnlyWhenFull /\ FlagInv)'
  BY <1>1 DEF OneBufferOneUser, PanicsOnlyWhenFull, FlagInv
<1>6. \A b : Synced(b)' <=> Synced(b)
  BY <1>1 DEF Synced
<1>7. SleepersWaitForSomebody'
  <2>1. command' # None
    BY <1>1, Names DEF SleepersWaitForSomebody
  <2> QED
    BY <1>1, <1>3, <2>1 DEF SleepersWaitForSomebody
<1>8. AskInv'
  BY <1>1 DEF AskInv
<1>9. HeldInv'
  BY <1>1 DEF HeldInv, InIderw
<1>10. IderwInv'
  <2>1. ASSUME NEW q \in Proc, q # p
        PROVE  /\ pc'[q] \in InIderw => buf'[q] \in held'[q]
               /\ pc'[q] = "iderw" => ~Synced(buf[q])' /\ ~Queued(buf[q])'
               /\ pc'[q] = "iderw loop" => Synced(buf[q])' \/ Queued(buf[q])'
    <3>1. pc[q] = "iderw" => buf[q] # buf[p]
      BY <1>2, <2>1, Holders DEF IderwInv, InIderw
    <3>2. pc'[q] = pc[q] /\ buf'[q] = buf[q] /\ held'[q] = held[q]
      BY <1>1, <2>1
    <3> QED
      BY <1>3, <1>6, <3>1, <3>2 DEF IderwInv, Queued, Synced
  <2> QED
    BY <1>1, <1>2, <2>1 DEF IderwInv, InIderw
<1>11. QueueInv'
  <2>1. ASSUME NEW c \in ToSet(idequeue), c # buf[p]
        PROVE  \E q \in Proc : buf'[q] = c /\ pc'[q] \in {"asleep in iderw", "iderw loop"}
    <3>1. PICK q \in Proc : buf[q] = c /\ pc[q] \in {"asleep in iderw", "iderw loop"}
      BY <2>1 DEF QueueInv
    <3> QED
      BY <1>1, <2>1, <3>1
  <2>2. \E q \in Proc : buf'[q] = buf[p] /\ pc'[q] \in {"asleep in iderw", "iderw loop"}
    BY <1>1
  <2> QED
    BY <1>2, <1>3, <1>6, <2>1, <2>2 DEF QueueInv
<1>12. DiskInv'
  <2>1. command' \in {"done", "failed"} => command' = command /\ Head(idequeue') = Head(idequeue)
    BY <1>1, <1>3
  <2> QED
    BY <1>1, <1>6, <2>1 DEF DiskInv
<1>13. TransInv'
  BY <1>1 DEF TransInv
<1> QED
  BY <1>4, <1>5, <1>7, <1>8, <1>9, <1>10, <1>11, <1>12, <1>13

(* The disk is done with a command, or fails.                              *)
LEMMA DiskFinishesKeeps ==
  ASSUME IInv, DiskFinishes
  PROVE  IInv'
<1> USE DEF IInv
<1> DEFINE h == Head(idequeue)
<1>1. /\ command = "busy" /\ command' = "done"
      /\ disk' = IF "DIRTY" \in flags[h] THEN [disk EXCEPT ![sector[h]] = data[h]] ELSE disk
      /\ UNCHANGED <<lru, sector, flags, data, idequeue, pc, want, buf, held, intrans, panicked>>
  BY DEF DiskFinishes
<1>2. idequeue # <<>>
  BY <1>1, Names DEF SleepersWaitForSomebody
<1>3. h \in ToSet(idequeue) /\ h \in Buf
  BY <1>2, TailFacts DEF TypeOK
<1>4. "BUSY" \in flags[h] /\ ~Synced(h) /\ sector[h] \in Sector
  <2> HIDE DEF h
  <2> QED
    BY <1>3, Holders
<1> HIDE DEF h
<1>5. TypeOK'
  <2>1. disk' \in [Sector -> Value]
    BY <1>1, <1>3 DEF TypeOK
  <2> QED
    BY <1>1, <2>1 DEF TypeOK
<1>6. (OneBufferOneUser /\ PanicsOnlyWhenFull /\ FlagInv)'
  BY <1>1 DEF OneBufferOneUser, PanicsOnlyWhenFull, FlagInv
<1>7. \A b : Synced(b)' <=> Synced(b)
  BY <1>1 DEF Synced
<1>8. SleepersWaitForSomebody'
  BY <1>1, <1>2, Names DEF SleepersWaitForSomebody
<1>9. (AskInv /\ TransInv /\ HeldInv)'
  BY <1>1 DEF AskInv, TransInv, HeldInv
<1>10. (IderwInv /\ QueueInv)'
  BY <1>1, <1>7 DEF IderwInv, QueueInv, Queued, Synced
<1>11. DiskInv'
  <2>1. ASSUME NEW b \in Buf, sector[b] \in Sound, Synced(b) PROVE disk'[sector[b]] = data[b]
    <3>1. sector[b] # sector[h]
      BY <1>3, <1>4, <2>1, Names DEF OneBufferOneUser
    <3>2. disk'[sector[b]] = disk[sector[b]]
      BY <1>1, <2>1, <3>1, Names DEF TypeOK
    <3> QED
      BY <2>1, <3>2 DEF DiskInv
  <2>2. ASSUME "DIRTY" \in flags[h] PROVE disk'[sector[h]] = data[h]
    BY <1>1, <1>4, <2>2 DEF TypeOK
  <2> QED
    BY <1>1, <1>7, <2>1, <2>2 DEF DiskInv, h
<1> QED
  BY <1>5, <1>6, <1>8, <1>9, <1>10, <1>11

(* Only on a faulty sector.                                                *)
LEMMA DiskErrsKeeps ==
  ASSUME IInv, DiskErrs
  PROVE  IInv'
<1> USE DEF IInv
<1>1. /\ command = "busy" /\ command' = "failed" /\ sector[Head(idequeue)] \in Faulty
      /\ UNCHANGED <<lru, sector, flags, data, idequeue, disk, pc, want, buf, held, intrans, panicked>>
  BY DEF DiskErrs
<1>2. TypeOK'
  BY <1>1 DEF TypeOK
<1>3. (OneBufferOneUser /\ PanicsOnlyWhenFull /\ FlagInv)'
  BY <1>1 DEF OneBufferOneUser, PanicsOnlyWhenFull, FlagInv
<1>4. SleepersWaitForSomebody'
  BY <1>1, Names DEF SleepersWaitForSomebody
<1>5. (AskInv /\ TransInv /\ HeldInv /\ IderwInv /\ QueueInv)'
  BY <1>1 DEF AskInv, TransInv, HeldInv, IderwInv, QueueInv, Queued, Synced
<1>6. DiskInv'
  BY <1>1 DEF DiskInv, Synced
<1> QED
  BY <1>2, <1>3, <1>4, <1>5, <1>6

(* Whom wakeup wakes up, and to do what.                                   *)
LEMMA WakeupFacts ==
  ASSUME TypeOK, NEW b \in Buf
  PROVE  /\ Wakeup(b) \in [Proc -> Places]
         /\ \A p \in Proc :
              /\ buf[p] # b => Wakeup(b)[p] = pc[p]
              /\ buf[p] = b => Wakeup(b)[p] \notin {"asleep in bget", "asleep in iderw"}
              /\ \/ Wakeup(b)[p] = pc[p]
                 \/ pc[p] = "asleep in bget" /\ Wakeup(b)[p] = "bget"
                 \/ pc[p] = "asleep in iderw" /\ Wakeup(b)[p] = "iderw loop"
BY DEF Wakeup, TypeOK, Places

(* brelse keeps every buffer in the list.                                  *)
LEMMA MoveToFrontFacts ==
  ASSUME TypeOK, NEW b \in Buf
  PROVE  /\ MoveToFront(b) \in [1..Cardinality(Buf) -> Buf]
         /\ ToSet(MoveToFront(b)) = Buf
<1> DEFINE n == Cardinality(Buf)
           i == CHOOSE k \in DOMAIN lru : lru[k] = b
           moved == MoveToFront(b)
<1>1. n \in Nat /\ DOMAIN lru = 1..n /\ lru \in [1..n -> Buf]
  BY BufCacheAssumption, FS_CardinalityType DEF TypeOK, BufCacheAssumption
<1>2. i \in 1..n /\ lru[i] = b
  <2>1. \E k \in DOMAIN lru : lru[k] = b
    BY DEF TypeOK, ToSet
  <2> QED
    BY <1>1, <2>1
<1>3. moved = [k \in 1..n |-> IF k = 1 THEN b ELSE IF k <= i THEN lru[k - 1] ELSE lru[k]]
  BY <1>1 DEF MoveToFront
<1> HIDE DEF n, i, moved
<1>4. \A k \in 1..n : moved[k] = IF k = 1 THEN b ELSE IF k <= i THEN lru[k - 1] ELSE lru[k]
  BY <1>3
<1>5. ASSUME NEW k \in 1..n PROVE moved[k] \in Buf
  <2>1. CASE k = 1
    BY <1>4, <2>1
  <2>2. CASE k # 1
    <3>1. k - 1 \in 1..n
      BY <1>1, <2>2
    <3>2. lru[k - 1] \in Buf /\ lru[k] \in Buf
      BY <1>1, <3>1
    <3> QED
      BY <1>4, <2>2, <3>2
  <2> QED
    BY <2>1, <2>2
<1>6. ASSUME NEW k \in 1..n PROVE \E j \in 1..n : moved[j] = lru[k]
  <2>1. CASE k = i
    <3>1. 1 \in 1..n
      BY <1>1
    <3> QED
      BY <1>2, <1>4, <2>1, <3>1
  <2>2. CASE k < i
    <3>1. k + 1 \in 1..n /\ k + 1 # 1 /\ k + 1 <= i /\ (k + 1) - 1 = k
      BY <1>1, <1>2, <2>2
    <3>2. moved[k + 1] = lru[(k + 1) - 1]
      BY <1>4, <3>1
    <3> QED
      BY <3>1, <3>2
  <2>3. CASE k > i
    <3>1. k # 1 /\ ~(k <= i)
      BY <1>1, <1>2, <2>3
    <3> QED
      BY <1>4, <3>1
  <2> QED
    BY <1>1, <1>2, <2>1, <2>2, <2>3
<1>7. moved \in [1..n -> Buf]
  BY <1>3, <1>5
<1>8. ASSUME NEW c \in Buf PROVE c \in ToSet(moved)
  <2>1. PICK k \in 1..n : lru[k] = c
    BY <1>1 DEF TypeOK, ToSet
  <2>2. PICK j \in 1..n : moved[j] = lru[k]
    BY <1>6
  <2> QED
    BY <1>7, <2>1, <2>2 DEF ToSet
<1>9. ToSet(moved) \subseteq Buf
  BY <1>7 DEF ToSet
<1> QED
  BY <1>7, <1>8, <1>9 DEF n, moved

(* brelse gives the buffer back and wakes who waits for it.                *)
LEMMA BrelseKeeps ==
  ASSUME IInv, NEW p \in Proc, NEW b \in Buf, Brelse(p, b)
  PROVE  IInv'
<1> USE DEF IInv
<1>1. /\ pc[p] = "user" /\ ~panicked /\ b \in held[p]
      /\ lru' = MoveToFront(b) /\ pc' = Wakeup(b)
      /\ flags'[b] = flags[b] \ {"BUSY"} /\ held'[p] = held[p] \ {b}
      /\ \A c \in Buf \ {b} : flags'[c] = flags[c]
      /\ \A q \in Proc \ {p} : held'[q] = held[q]
      /\ UNCHANGED <<sector, data, idequeue, command, disk, want, buf, intrans, panicked>>
  BY DEF Brelse, At, TypeOK, driver
<1>2. /\ pc' \in [Proc -> Places]
      /\ \A q \in Proc :
           /\ buf[q] = b => pc'[q] \notin {"asleep in bget", "asleep in iderw"}
           /\ \/ pc'[q] = pc[q]
              \/ pc[q] = "asleep in bget" /\ pc'[q] = "bget"
              \/ pc[q] = "asleep in iderw" /\ pc'[q] = "iderw loop"
  BY <1>1, WakeupFacts
<1>3. TypeOK'
  <2>1. flags' \in [Buf -> SUBSET Flag] /\ held' \in [Proc -> SUBSET Buf]
    BY DEF Brelse, TypeOK
  <2>2. lru' \in [1..Cardinality(Buf) -> Buf] /\ ToSet(lru') = Buf
    BY <1>1, MoveToFrontFacts
  <2> QED
    BY <1>1, <1>2, <2>1, <2>2 DEF TypeOK
<1>4. /\ "VALID" \in flags[b] /\ ~Queued(b)
      /\ \A q \in Proc : b \in held[q] => q = p
  BY <1>1, Holders DEF InIderw
<1>5. \A c \in Buf : Synced(c)' <=> Synced(c)
  BY <1>1 DEF Synced
<1>6. \A q \in Proc : \A c \in held'[q] : c \in held[q] /\ c # b /\ c \in Buf
  <2>1. \A q \in Proc : held[q] \subseteq Buf
    BY DEF TypeOK
  <2>2. \A q \in Proc : held'[q] \subseteq held[q] /\ b \notin held'[q]
    BY <1>1, <1>4
  <2> QED
    BY <2>1, <2>2
<1>7. OneBufferOneUser'
  <2>1. \A c, d \in Buf : c # d => sector'[c] # sector'[d] \/ sector'[c] = None
    BY <1>1 DEF OneBufferOneUser
  <2>2. \A q, r \in Proc : q # r => held'[q] \cap held'[r] = {}
    BY <1>6 DEF OneBufferOneUser
  <2>3. ASSUME NEW c \in Buf PROVE "BUSY" \in flags'[c] <=> \E q \in Proc : c \in held'[q]
    <3>1. CASE c = b
      BY <1>1, <1>6, <3>1
    <3>2. CASE c # b
      <4>1. \A q \in Proc : c \in held'[q] <=> c \in held[q]
        BY <1>1, <3>2
      <4> QED
        BY <1>1, <3>2, <4>1 DEF OneBufferOneUser
    <3> QED
      BY <3>1, <3>2
  <2> QED
    BY <2>1, <2>2, <2>3 DEF OneBufferOneUser
<1>8. SleepersWaitForSomebody'
  <2>1. ASSUME NEW q \in Proc, pc'[q] = "asleep in bget"
        PROVE  "BUSY" \in flags'[buf'[q]] /\ sector'[buf'[q]] = want'[q]
    <3>1. pc[q] = "asleep in bget" /\ buf[q] # b /\ buf[q] \in Buf
      BY <1>2, <2>1 DEF AskInv
    <3> QED
      BY <1>1, <3>1 DEF SleepersWaitForSomebody
  <2>2. ASSUME NEW q \in Proc, pc'[q] = "asleep in iderw"
        PROVE  buf'[q] \in ToSet(idequeue')
    BY <1>1, <1>2, <2>2 DEF SleepersWaitForSomebody
  <2>3. command' = None <=> idequeue' = <<>>
    BY <1>1 DEF SleepersWaitForSomebody
  <2> QED
    BY <2>1, <2>2, <2>3 DEF SleepersWaitForSomebody
<1>9. PanicsOnlyWhenFull'
  BY <1>1 DEF PanicsOnlyWhenFull
<1>10. AskInv'
  <2>1. ASSUME NEW q \in Proc, pc'[q] \in {"bget", "asleep in bget"}
        PROVE  /\ want'[q] \in Sector
               /\ \A c \in held'[q] : sector'[c] # want'[q]
               /\ pc'[q] = "asleep in bget" => buf'[q] \in Buf
    <3>1. pc[q] \in {"bget", "asleep in bget"} /\ (pc'[q] = "asleep in bget" => pc[q] = "asleep in bget")
      BY <1>2, <2>1
    <3> QED
      BY <1>1, <1>6, <3>1 DEF AskInv
  <2> QED
    BY <2>1 DEF AskInv
<1>11. HeldInv'
  <2>1. ASSUME NEW q \in Proc, NEW c \in held'[q]
        PROVE  /\ sector'[c] \in Sector
               /\ "VALID" \in flags'[c] \/ (pc'[q] \in InIderw /\ buf'[q] = c)
    <3>1. c \in held[q] /\ c \in Buf \ {b}
      BY <1>6
    <3>2. pc[q] \in InIderw => pc'[q] \in InIderw
      BY <1>2 DEF InIderw
    <3> QED
      BY <1>1, <3>1, <3>2 DEF HeldInv
  <2> QED
    BY <2>1 DEF HeldInv
<1>12. \A q \in Proc : pc[q] \in InIderw => pc'[q] \in InIderw /\ buf[q] \in held[q] /\ buf[q] # b
  BY <1>1, <1>2, <1>4 DEF IderwInv, InIderw
<1>13. IderwInv'
  <2>1. ASSUME NEW q \in Proc, pc'[q] \in InIderw
        PROVE  /\ buf'[q] \in held'[q]
               /\ pc'[q] = "iderw" => ~Synced(buf[q])' /\ ~Queued(buf[q])'
               /\ pc'[q] = "iderw loop" => Synced(buf[q])' \/ Queued(buf[q])'
    <3>1. pc[q] \in InIderw
      BY <1>2, <2>1 DEF InIderw
    <3>2. buf[q] \in held[q] /\ buf[q] # b /\ buf[q] \in Buf
      BY <1>12, <3>1 DEF TypeOK
    <3>3. buf'[q] \in held'[q]
      BY <1>1, <3>2
    <3>4. (Synced(buf[q])' <=> Synced(buf[q])) /\ (Queued(buf[q])' <=> Queued(buf[q]))
      BY <1>1, <1>5, <3>2 DEF Queued, Synced
    <3>5. pc'[q] = "iderw loop" => pc[q] = "iderw loop" \/ pc[q] = "asleep in iderw"
      BY <1>2
    <3>6. pc'[q] = "iderw" => pc[q] = "iderw"
      BY <1>2
    <3> QED
      BY <3>3, <3>4, <3>5, <3>6 DEF IderwInv, SleepersWaitForSomebody, Queued
  <2> QED
    BY <2>1 DEF IderwInv, InIderw
<1>14. QueueInv'
  <2>1. ASSUME NEW c \in ToSet(idequeue)
        PROVE  /\ ~Synced(c)'
               /\ \E q \in Proc : buf'[q] = c /\ pc'[q] \in {"asleep in iderw", "iderw loop"}
    <3>1. PICK q \in Proc : buf[q] = c /\ pc[q] \in {"asleep in iderw", "iderw loop"}
      BY <2>1 DEF QueueInv
    <3>2. buf'[q] = c /\ pc'[q] \in {"asleep in iderw", "iderw loop"}
      BY <1>1, <1>2, <3>1
    <3>3. c \in Buf /\ ~Synced(c)
      BY <2>1, Holders
    <3> QED
      BY <1>5, <3>2, <3>3
  <2> QED
    BY <1>1, <2>1 DEF QueueInv
<1>15. FlagInv'
  BY <1>1, <1>4 DEF FlagInv
<1>16. DiskInv'
  <2>1. command = "done" => Head(idequeue) \in Buf \ {b}
    <3>1. command = "done" => idequeue # <<>>
      BY Names DEF SleepersWaitForSomebody
    <3>2. command = "done" => Head(idequeue) \in ToSet(idequeue)
      BY <3>1, TailFacts DEF TypeOK
    <3> QED
      BY <1>4, <3>2, Holders DEF Queued
  <2> QED
    BY <1>1, <1>5, <2>1 DEF DiskInv
<1>17. TransInv'
  <2>1. ASSUME NEW q \in Proc, pc'[q] \in {"bget", "asleep in bget"}, held'[q] # {}
        PROVE  q \in intrans' \/ q \in Stray
    <3>1. pc[q] \in {"bget", "asleep in bget"} /\ held[q] # {}
      BY <1>2, <1>6, <2>1
    <3> QED
      BY <1>1, <3>1 DEF TransInv
  <2> QED
    BY <1>1, <2>1 DEF TransInv
<1> QED
  BY <1>3, <1>7, <1>8, <1>9, <1>10, <1>11, <1>13, <1>14, <1>15, <1>16, <1>17

(* The interrupt: the request is done, and the next one starts.            *)
LEMMA IdeintrKeeps ==
  ASSUME IInv, Ideintr
  PROVE  IInv'
<1> USE DEF IInv
<1> DEFINE h == Head(idequeue)
<1>1. /\ command \in {"done", "failed"} /\ ~panicked
      /\ data' = IF "DIRTY" \notin flags[h] /\ command = "done"
                 THEN [data EXCEPT ![h] = disk[sector[h]]] ELSE data
      /\ flags' = [flags EXCEPT ![h] = (@ \cup {"VALID"}) \ {"DIRTY"}]
      /\ pc' = Wakeup(h)
      /\ idequeue' = Tail(idequeue)
      /\ command' = IF idequeue' = <<>> THEN None ELSE "busy"
      /\ UNCHANGED <<lru, sector, disk, want, buf, held, intrans, panicked>>
  BY DEF Ideintr, Idestart
<1>2. idequeue # <<>>
  BY <1>1, Names DEF SleepersWaitForSomebody
<1>3. /\ h \in Buf /\ idequeue' \in Seq(Buf)
      /\ ToSet(idequeue) = ToSet(idequeue') \cup {h}
      /\ IsInjective(idequeue') /\ h \notin ToSet(idequeue')
  BY <1>1, <1>2, TailFacts DEF TypeOK, QueueInv
<1> HIDE DEF h
<1>4. "BUSY" \in flags[h] /\ sector[h] \in Sector
  BY <1>3, Holders
<1>5. /\ pc' \in [Proc -> Places]
      /\ \A q \in Proc :
           /\ buf[q] # h => pc'[q] = pc[q]
           /\ buf[q] = h => pc'[q] \notin {"asleep in bget", "asleep in iderw"}
           /\ \/ pc'[q] = pc[q]
              \/ pc[q] = "asleep in bget" /\ pc'[q] = "bget"
              \/ pc[q] = "asleep in iderw" /\ pc'[q] = "iderw loop"
  BY <1>1, <1>3, WakeupFacts
<1>6. /\ flags' \in [Buf -> SUBSET Flag] /\ data' \in [Buf -> Value]
      /\ flags'[h] = (flags[h] \cup {"VALID"}) \ {"DIRTY"}
      /\ \A c \in Buf \ {h} : flags'[c] = flags[c] /\ data'[c] = data[c]
  BY <1>1, <1>3, <1>4 DEF TypeOK, Flag
<1>7. TypeOK'
  BY <1>1, <1>3, <1>5, <1>6 DEF TypeOK
<1>8. /\ "VALID" \in flags'[h] /\ "DIRTY" \notin flags'[h]
      /\ \A c \in Buf \ {h} : Synced(c)' <=> Synced(c)
  BY <1>6 DEF Synced
<1>9. \A c \in Buf : "BUSY" \in flags'[c] <=> "BUSY" \in flags[c]
  BY <1>6
<1>10. OneBufferOneUser'
  BY <1>1, <1>9 DEF OneBufferOneUser
<1>11. SleepersWaitForSomebody'
  <2>1. ASSUME NEW q \in Proc, pc'[q] = "asleep in bget"
        PROVE  "BUSY" \in flags'[buf'[q]] /\ sector'[buf'[q]] = want'[q]
    <3>1. pc[q] = "asleep in bget" /\ buf[q] \in Buf
      BY <1>5, <2>1 DEF AskInv
    <3> QED
      BY <1>1, <1>9, <3>1 DEF SleepersWaitForSomebody
  <2>2. ASSUME NEW q \in Proc, pc'[q] = "asleep in iderw"
        PROVE  buf'[q] \in ToSet(idequeue')
    <3>1. pc[q] = "asleep in iderw" /\ buf[q] # h
      BY <1>5, <2>2
    <3> QED
      BY <1>1, <1>3, <3>1 DEF SleepersWaitForSomebody
  <2>3. command' = None <=> idequeue' = <<>>
    BY <1>1, Names
  <2> QED
    BY <2>1, <2>2, <2>3 DEF SleepersWaitForSomebody
<1>12. PanicsOnlyWhenFull'
  BY <1>1 DEF PanicsOnlyWhenFull
<1>13. AskInv'
  <2>1. ASSUME NEW q \in Proc, pc'[q] \in {"bget", "asleep in bget"}
        PROVE  /\ want'[q] \in Sector
               /\ \A c \in held'[q] : sector'[c] # want'[q]
               /\ pc'[q] = "asleep in bget" => buf'[q] \in Buf
    <3>1. pc[q] \in {"bget", "asleep in bget"} /\ (pc'[q] = "asleep in bget" => pc[q] = "asleep in bget")
      BY <1>5, <2>1
    <3> QED
      BY <1>1, <3>1 DEF AskInv
  <2> QED
    BY <2>1 DEF AskInv
<1>14. HeldInv'
  <2>1. ASSUME NEW q \in Proc, NEW c \in held'[q]
        PROVE  /\ sector'[c] \in Sector
               /\ "VALID" \in flags'[c] \/ (pc'[q] \in InIderw /\ buf'[q] = c)
    <3>1. c \in held[q] /\ c \in Buf
      BY <1>1 DEF TypeOK
    <3>2. pc[q] \in InIderw => pc'[q] \in InIderw
      BY <1>5 DEF InIderw
    <3>3. "VALID" \in flags[c] => "VALID" \in flags'[c]
      BY <1>6, <3>1
    <3> QED
      BY <1>1, <3>1, <3>2, <3>3 DEF HeldInv
  <2> QED
    BY <2>1 DEF HeldInv
<1>15. IderwInv'
  <2>1. ASSUME NEW q \in Proc, pc'[q] \in InIderw
        PROVE  /\ buf'[q] \in held'[q]
               /\ pc'[q] = "iderw" => ~Synced(buf[q])' /\ ~Queued(buf[q])'
               /\ pc'[q] = "iderw loop" => Synced(buf[q])' \/ Queued(buf[q])'
    <3>1. pc[q] \in InIderw /\ buf'[q] = buf[q]
      BY <1>1, <1>5, <2>1 DEF InIderw
    <3>2. buf[q] \in held[q] /\ buf[q] \in Buf
      BY <3>1 DEF IderwInv, TypeOK
    <3>3. CASE buf[q] = h
      <4>1. Queued(buf[q])
        BY <1>3, <3>3 DEF Queued
      <4>2. pc[q] # "iderw"
        BY <4>1 DEF IderwInv
      <4>3. pc'[q] # "iderw"
        BY <1>5, <4>2
      <4>4. Synced(buf[q])'
        BY <1>8, <3>1, <3>3 DEF Synced
      <4> QED
        BY <1>1, <3>1, <3>2, <4>3, <4>4
    <3>4. CASE buf[q] # h
      <4>1. pc'[q] = pc[q]
        BY <1>5, <3>4
      <4>2. Synced(buf[q])' <=> Synced(buf[q])
        BY <1>8, <3>1, <3>2, <3>4 DEF Synced
      <4>3. Queued(buf[q])' <=> Queued(buf[q])
        BY <1>3, <3>1, <3>4 DEF Queued
      <4> QED
        BY <1>1, <3>1, <3>2, <4>1, <4>2, <4>3 DEF IderwInv
    <3> QED
      BY <3>3, <3>4
  <2> QED
    BY <2>1 DEF IderwInv, InIderw
<1>16. QueueInv'
  <2>1. ASSUME NEW c \in ToSet(idequeue')
        PROVE  /\ ~Synced(c)'
               /\ \E q \in Proc : buf'[q] = c /\ pc'[q] \in {"asleep in iderw", "iderw loop"}
    <3>1. c \in ToSet(idequeue) /\ c # h
      BY <1>3, <2>1
    <3>2. PICK q \in Proc : buf[q] = c /\ pc[q] \in {"asleep in iderw", "iderw loop"}
      BY <3>1 DEF QueueInv
    <3>3. buf'[q] = c /\ pc'[q] \in {"asleep in iderw", "iderw loop"}
      BY <1>1, <1>5, <3>1, <3>2
    <3>4. c \in Buf /\ ~Synced(c)
      BY <3>1, Holders
    <3> QED
      BY <1>8, <3>1, <3>3, <3>4
  <2> QED
    BY <1>3, <2>1 DEF QueueInv
<1>17. FlagInv'
  BY <1>1, <1>6 DEF FlagInv
<1>18. DiskInv'
  <2>1. ASSUME sector[h] \in Sound PROVE disk[sector[h]] = data'[h]
    <3>1. command = "done"
      BY <1>1, <2>1 DEF DiskInv, h, Sound
    <3>2. CASE "DIRTY" \in flags[h]
      BY <1>1, <2>1, <3>1, <3>2 DEF DiskInv, h
    <3>3. CASE "DIRTY" \notin flags[h]
      BY <1>1, <1>3, <3>1, <3>3 DEF TypeOK
    <3> QED
      BY <3>2, <3>3
  <2>2. ASSUME NEW c \in Buf, sector'[c] \in Sound, Synced(c)'
        PROVE  disk'[sector'[c]] = data'[c]
    <3>1. CASE c = h
      BY <1>1, <2>1, <2>2, <3>1
    <3>2. CASE c # h
      BY <1>1, <1>6, <1>8, <2>2, <3>2 DEF DiskInv
    <3> QED
      BY <3>1, <3>2
  <2>3. command' \notin {"done", "failed"}
    BY <1>1, Names
  <2> QED
    BY <2>2, <2>3 DEF DiskInv
<1>19. TransInv'
  <2>1. ASSUME NEW q \in Proc, pc'[q] \in {"bget", "asleep in bget"}, held'[q] # {}
        PROVE  q \in intrans' \/ q \in Stray
    <3>1. pc[q] \in {"bget", "asleep in bget"} /\ held[q] # {}
      BY <1>1, <1>5, <2>1
    <3> QED
      BY <1>1, <3>1 DEF TransInv
  <2> QED
    BY <1>1, <2>1 DEF TransInv
<1> QED
  BY <1>7, <1>10, <1>11, <1>12, <1>13, <1>14, <1>15, <1>16, <1>17, <1>18, <1>19

(* begin_trans lets one process in, commit_trans lets it out.              *)
LEMMA TransKeeps ==
  ASSUME IInv, NEW p \in Proc, BeginTrans(p) \/ CommitTrans(p)
  PROVE  IInv'
<1> USE DEF IInv
<1>1. /\ pc[p] = "user" /\ intrans' \in SUBSET Proc
      /\ \A q \in Proc : q \in intrans /\ q # p => q \in intrans'
      /\ \A q \in intrans', r \in intrans' : q = r
      /\ UNCHANGED <<lru, sector, flags, data, idequeue, command, disk, pc, want, buf, held, panicked>>
  <2>1. intrans \in SUBSET Proc /\ \A q \in intrans, r \in intrans : q = r
    BY DEF TypeOK, TransInv
  <2>2. CASE BeginTrans(p)
    BY <2>2 DEF BeginTrans, At, driver
  <2>3. CASE CommitTrans(p)
    BY <2>1, <2>3 DEF CommitTrans, At, driver
  <2> QED
    BY <2>2, <2>3
<1>2. TypeOK'
  BY <1>1 DEF TypeOK
<1>3. (OneBufferOneUser /\ SleepersWaitForSomebody /\ PanicsOnlyWhenFull)'
  BY <1>1 DEF OneBufferOneUser, SleepersWaitForSomebody, PanicsOnlyWhenFull
<1>4. (AskInv /\ TransInv)'
  <2>1. \A q \in Proc : pc[q] \in {"bget", "asleep in bget"} => q # p
    BY <1>1
  <2> QED
    BY <1>1, <2>1 DEF AskInv, TransInv
<1>5. (HeldInv /\ IderwInv)'
  BY <1>1 DEF HeldInv, IderwInv, Queued, Synced
<1>6. (QueueInv /\ FlagInv /\ DiskInv)'
  BY <1>1 DEF QueueInv, FlagInv, DiskInv, Synced
<1> QED
  BY <1>2, <1>3, <1>4, <1>5, <1>6

(* Nothing the cache, the driver or the disk does undoes it.               *)
LEMMA StepInv == IInv /\ [Next]_vars => IInv'
<1> SUFFICES ASSUME IInv, [Next]_vars PROVE IInv'
  OBVIOUS
<1>1. ASSUME NEW p \in Proc, Step(p) PROVE IInv'
  <2>1. ASSUME NEW b \in Buf, BgetHit(p, b) PROVE IInv'
    BY <2>1, BgetHitKeeps
  <2>2. ASSUME NEW b \in Buf, BgetSleep(p, b) PROVE IInv'
    BY <2>2, BgetSleepKeeps
  <2>3. CASE BgetRecycle(p)
    BY <2>3, BgetRecycleKeeps DEF BgetRecycle
  <2>4. CASE BgetPanic(p)
    BY <2>4, BgetPanicKeeps
  <2>5. CASE Iderw(p)
    BY <2>5, IderwKeeps
  <2>6. CASE IderwLoop(p)
    BY <2>6, IderwLoopKeeps
  <2> QED
    BY <1>1, <2>1, <2>2, <2>3, <2>4, <2>5, <2>6 DEF Step
<1>2. ASSUME NEW p \in Proc, Use(p) PROVE IInv'
  <2>1. ASSUME NEW s \in Sector, Bread(p, s) PROVE IInv'
    BY <2>1, BreadKeeps
  <2>2. ASSUME NEW b \in Buf, NEW v \in Value, LogWrite(p, b, v) \/ Bwrite(p, b, v) PROVE IInv'
    BY <2>2, WritesKeep
  <2>3. ASSUME NEW b \in Buf, Brelse(p, b) PROVE IInv'
    BY <2>3, BrelseKeeps
  <2>4. CASE BeginTrans(p) \/ CommitTrans(p)
    BY <2>4, TransKeeps
  <2> QED
    BY <1>2, <2>1, <2>2, <2>3, <2>4 DEF Use
<1>3. ASSUME NEW p \in Proc, Kill(p) PROVE IInv'
  BY <1>3, KillKeeps
<1>4. CASE DiskFinishes \/ DiskErrs \/ Ideintr
  BY <1>4, DiskFinishesKeeps, DiskErrsKeeps, IdeintrKeeps
<1>5. CASE UNCHANGED vars
  <2> USE <1>5 DEF vars, IInv
  <2>1. TypeOK'
    BY DEF TypeOK
  <2>2. (OneBufferOneUser /\ SleepersWaitForSomebody /\ PanicsOnlyWhenFull)'
    BY DEF OneBufferOneUser, SleepersWaitForSomebody, PanicsOnlyWhenFull
  <2>3. (AskInv /\ TransInv /\ HeldInv /\ IderwInv)'
    BY DEF AskInv, TransInv, HeldInv, IderwInv, Queued, Synced
  <2>4. (QueueInv /\ FlagInv /\ DiskInv)'
    BY DEF QueueInv, FlagInv, DiskInv, Queued, Synced
  <2> QED
    BY <2>1, <2>2, <2>3, <2>4
<1> QED
  BY <1>1, <1>2, <1>3, <1>4, <1>5 DEF Next

(* Through every use of the cache: who holds which buffer, who waits, and  *)
(* what is on the disk (bio.c:13, 66-92; ide.c:91-155).                    *)
THEOREM BufCacheInvariant == Spec => []IInv
<1> QED
  BY InitInv, StepInv, PTL DEF Spec

(* No buffer goes astray: each has one sector and one user, is given back, *)
(* and wakes who waits for it; bget panics only when none is left          *)
(* (bio.c:66-92, 119-138; ide.c:126-155).                                  *)
THEOREM BufCacheNoBufferAstray == Spec => []NoBufferAstray
<1>1. IInv => NoBufferAstray
  BY DEF IInv, NoBufferAstray
<1> QED
  BY <1>1, BufCacheInvariant, PTL
-----------------------------------------------------------------------------
(* Of any processes that hold buffers and ask for more, one waits for none *)
(* of them (bio.c:77), as long as blocks are changed in transactions only: *)
(* begin_trans (log.c:124-133) lets one process at a time hold and ask.    *)
THEOREM BufCacheNoCircularWait ==
  ASSUME Stray = {}
  PROVE  Spec => []NoCircularWait
<1>1. IInv => NoCircularWait
  <2>1. SUFFICES ASSUME IInv,
                        NEW stuck \in (SUBSET Proc) \ {{}},
                        \A p \in stuck : /\ pc[p] = "asleep in bget"
                                         /\ \E q \in stuck : buf[p] \in held[q]
                 PROVE  FALSE
    BY DEF NoCircularWait
  <2>2. \A p \in stuck :
          /\ sector[buf[p]] = want[p]
          /\ \A b \in held[p] : sector[b] # want[p]
          /\ held[p] # {} => p \in intrans
    BY <2>1 DEF IInv, AskInv, TransInv, SleepersWaitForSomebody
  <2>3. \A p \in stuck : buf[p] \notin held[p]
    BY <2>2
  <2>4. PICK p \in stuck : TRUE
    BY <2>1
  <2>5. PICK q \in stuck : buf[p] \in held[q]
    BY <2>1, <2>4
  <2>6. PICK r \in stuck : buf[q] \in held[r]
    BY <2>1, <2>5
  <2>7. q \in intrans /\ r \in intrans
    BY <2>2, <2>5, <2>6
  <2>8. q = r
    BY <2>1, <2>7 DEF IInv, TransInv
  <2> QED
    BY <2>3, <2>6, <2>8
<1> QED
  BY <1>1, BufCacheInvariant, PTL
-----------------------------------------------------------------------------
(* The contents of a sector are in its buffer, when that has any, and      *)
(* otherwise on the disk.                                                  *)
ContentInv ==
  /\ Content \in [Sound -> Value]
  /\ \A b \in Buf : sector[b] \in Sound /\ "VALID" \in flags[b] => Content[sector[b]] = data[b]
  /\ \A s \in Sound : (\A b \in Buf : sector[b] = s => "VALID" \notin flags[b]) => Content[s] = disk[s]

(* A sector has one buffer at most.                                        *)
LEMMA OneBuffer ==
  ASSUME IInv, NEW b \in Buf, sector[b] \in Sound
  PROVE  \A c \in Buf : sector[c] = sector[b] => c = b
<1>1. sector[b] # None
  BY Names
<1> QED
  BY <1>1 DEF IInv, OneBufferOneUser

(* Each sector has at most one buffer to look in.                          *)
LEMMA ContentFacts == IInv => ContentInv
<1> SUFFICES ASSUME IInv PROVE ContentInv
  OBVIOUS
<1> USE DEF IInv
<1>1. ASSUME NEW b \in Buf, sector[b] \in Sound
      PROVE  Cached(sector[b]) = {b}
  BY <1>1, OneBuffer DEF Cached
<1>2. \A s \in Sound : Content[s] =
        IF \E b \in Cached(s) : "VALID" \in flags[b] \/ "DIRTY" \in flags[b]
        THEN data[CHOOSE b \in Cached(s) : TRUE] ELSE disk[s]
  BY DEF Content
<1>3. ASSUME NEW b \in Buf, sector[b] \in Sound, "VALID" \in flags[b]
      PROVE  Content[sector[b]] = data[b]
  <2>1. Cached(sector[b]) = {b}
    BY <1>1, <1>3
  <2> QED
    BY <1>2, <1>3, <2>1
<1>4. ASSUME NEW s \in Sound, \A b \in Buf : sector[b] = s => "VALID" \notin flags[b]
      PROVE  Content[s] = disk[s]
  <2>1. \A b \in Cached(s) : "VALID" \notin flags[b] /\ "DIRTY" \notin flags[b]
    BY <1>4 DEF Cached, FlagInv
  <2> QED
    BY <1>2, <2>1
<1>5. ASSUME NEW s \in Sound PROVE Content[s] \in Value
  <2>1. CASE \E b \in Buf : sector[b] = s /\ "VALID" \in flags[b]
    BY <1>3, <2>1 DEF TypeOK
  <2>2. CASE \A b \in Buf : sector[b] = s => "VALID" \notin flags[b]
    BY <1>4, <2>2, Names DEF TypeOK
  <2> QED
    BY <2>1, <2>2
<1>6. Content \in [Sound -> Value]
  BY <1>5 DEF Content
<1> QED
  BY <1>3, <1>4, <1>6 DEF ContentInv

(* So it is after a step that keeps the invariant.                         *)
LEMMA ContentFactsNext == IInv' => ContentInv'
BY ContentFacts, PTL

(* A step that leaves every buffer's sector, and the contents of the sound *)
(* sectors where the cache finds them, as they are.                        *)
LEMMA ContentKept ==
  ASSUME ContentInv, ContentInv', UNCHANGED sector,
         \A s \in Sound : disk'[s] = disk[s] \/ \E b \in Buf : sector[b] = s /\ "VALID" \in flags[b],
         \A b \in Buf : "VALID" \in flags[b] => "VALID" \in flags'[b] /\ data'[b] = data[b],
         \A b \in Buf : "VALID" \notin flags[b] /\ "VALID" \in flags'[b] /\ sector[b] \in Sound =>
           data'[b] = disk[sector[b]]
  PROVE  Content' = Content
<1>1. ASSUME NEW s \in Sound PROVE Content'[s] = Content[s]
  <2>1. CASE \E b \in Buf : sector[b] = s /\ "VALID" \in flags[b]
    <3>1. PICK b \in Buf : sector[b] = s /\ "VALID" \in flags[b]
      BY <2>1
    <3>2. sector'[b] = s /\ "VALID" \in flags'[b] /\ data'[b] = data[b]
      BY <3>1
    <3> QED
      BY <3>1, <3>2 DEF ContentInv
  <2>2. CASE \A b \in Buf : sector[b] = s => "VALID" \notin flags[b]
    <3>1. Content[s] = disk[s] /\ disk'[s] = disk[s]
      BY <2>2 DEF ContentInv
    <3>2. CASE \A b \in Buf : sector'[b] = s => "VALID" \notin flags'[b]
      BY <3>1, <3>2 DEF ContentInv
    <3>3. CASE \E b \in Buf : sector'[b] = s /\ "VALID" \in flags'[b]
      <4>1. PICK b \in Buf : sector'[b] = s /\ "VALID" \in flags'[b]
        BY <3>3
      <4>2. data'[b] = disk[s]
        BY <2>2, <4>1
      <4> QED
        BY <3>1, <4>1, <4>2 DEF ContentInv
    <3> QED
      BY <3>2, <3>3
  <2> QED
    BY <2>1, <2>2
<1> QED
  BY <1>1 DEF ContentInv

(* Who uses a sector holds its buffer.                                     *)
LEMMA UsersFacts ==
  /\ Users \in [Sound -> SUBSET Proc]
  /\ \A s \in Sound : \A p \in Proc : p \in Users[s] <=> \E b \in held[p] : sector[b] = s
BY DEF Users

(* Likewise after a step.                                                  *)
LEMMA UsersFactsNext ==
  /\ Users' \in [Sound -> SUBSET Proc]
  /\ \A s \in Sound : \A p \in Proc : p \in Users'[s] <=> \E b \in held'[p] : sector'[b] = s
BY DEF Users

(* A free buffer of the sector, or a free buffer made the sector's, is     *)
(* given to one process: it takes the sector.                              *)
LEMMA TakesSector ==
  ASSUME IInv, Content' = Content, NEW p \in Proc, NEW b \in Buf,
         held'[p] = held[p] \cup {b},
         \A q \in Proc \ {p} : held'[q] = held[q],
         \A q \in Proc : b \notin held[q],
         \A c \in Buf \ {b} : sector'[c] = sector[c] /\ sector[c] # sector'[b]
  PROVE  [Shared!Next]_<<Content, Users>>
<1> DEFINE s == sector'[b]
<1>1. \A q \in Proc : held[q] \subseteq Buf \ {b}
  BY DEF IInv, TypeOK
<1>2. \A t \in Sound : t # s => Users'[t] = Users[t]
  <2>1. ASSUME NEW t \in Sound, t # s, NEW q \in Proc
        PROVE  q \in Users'[t] <=> q \in Users[t]
    <3>1. (\E c \in held'[q] : sector'[c] = t) <=> (\E c \in held[q] : sector[c] = t)
      BY <1>1, <2>1
    <3> QED
      BY <3>1, UsersFacts, UsersFactsNext
  <2>2. ASSUME NEW t \in Sound, t # s PROVE Users'[t] = Users[t]
    <3>1. Users[t] \in SUBSET Proc /\ Users'[t] \in SUBSET Proc
      BY UsersFacts, UsersFactsNext
    <3>2. \A q \in Proc : q \in Users'[t] <=> q \in Users[t]
      BY <2>1, <2>2
    <3> QED
      BY <3>1, <3>2
  <2> QED
    BY <2>2
<1>3. ASSUME s \in Sound PROVE Users[s] = {} /\ Users'[s] = {p}
  <2>1. \A q \in Proc : q \notin Users[s]
    BY <1>1, <1>3, UsersFacts
  <2>2. \A q \in Proc : q \in Users'[s] <=> q = p
    <3>1. \A q \in Proc : (\E c \in held'[q] : sector'[c] = s) <=> q = p
      BY <1>1
    <3> QED
      BY <1>3, <3>1, UsersFactsNext
  <2> HIDE DEF s
  <2> QED
    BY <1>3, <2>1, <2>2, UsersFacts, UsersFactsNext
<1> HIDE DEF s
<1>4. CASE s \in Sound
  <2>1. Users' = [Users EXCEPT ![s] = {p}]
    BY <1>2, <1>3, <1>4, UsersFacts, UsersFactsNext
  <2>2. Shared!Take(p, s)
    BY <1>3, <1>4, <2>1 DEF Shared!Take
  <2> QED
    BY <1>4, <2>2 DEF Shared!Next
<1>5. CASE s \notin Sound
  <2>1. Users' = Users
    BY <1>2, <1>5, UsersFacts, UsersFactsNext
  <2> QED
    BY <2>1
<1> QED
  BY <1>4, <1>5

(* The holder of a buffer is its sector's only user.                       *)
LEMMA OneUser ==
  ASSUME IInv, NEW p \in Proc, NEW b \in held[p], sector[b] \in Sound
  PROVE  Users[sector[b]] = {p}
<1>1. \A q \in Proc : held[q] \subseteq Buf
  BY DEF IInv, TypeOK
<1>2. \A c \in Buf : sector[c] = sector[b] => c = b
  BY <1>1, OneBuffer
<1>3. \A q \in Proc : b \in held[q] => q = p
  BY DEF IInv, OneBufferOneUser
<1>4. \A q \in Proc : (\E c \in held[q] : sector[c] = sector[b]) <=> q = p
  BY <1>1, <1>2, <1>3
<1> QED
  BY <1>4, UsersFacts

(* brelse gives the sector back.                                           *)
LEMMA GivesSector ==
  ASSUME IInv, Content' = Content, NEW p \in Proc, NEW b \in held[p], UNCHANGED sector,
         held'[p] = held[p] \ {b},
         \A q \in Proc \ {p} : held'[q] = held[q]
  PROVE  [Shared!Next]_<<Content, Users>>
<1> DEFINE s == sector[b]
<1>1. \A q \in Proc : held[q] \subseteq Buf
  BY DEF IInv, TypeOK
<1>2. \A q \in Proc : b \in held[q] => q = p
  BY DEF IInv, OneBufferOneUser
<1>3. \A t \in Sound : t # s => Users'[t] = Users[t]
  <2>1. ASSUME NEW t \in Sound, t # s, NEW q \in Proc
        PROVE  q \in Users'[t] <=> q \in Users[t]
    <3>1. (\E c \in held'[q] : sector'[c] = t) <=> (\E c \in held[q] : sector[c] = t)
      BY <2>1
    <3> QED
      BY <3>1, UsersFacts, UsersFactsNext
  <2>2. ASSUME NEW t \in Sound, t # s PROVE Users'[t] = Users[t]
    <3>1. Users[t] \in SUBSET Proc /\ Users'[t] \in SUBSET Proc
      BY UsersFacts, UsersFactsNext
    <3>2. \A q \in Proc : q \in Users'[t] <=> q \in Users[t]
      BY <2>1, <2>2
    <3> QED
      BY <3>1, <3>2
  <2> QED
    BY <2>2
<1>4. ASSUME s \in Sound PROVE Users'[s] = {}
  <2>1. \A c \in Buf : sector[c] = s => c = b
    BY <1>1, <1>4, OneBuffer
  <2>2. \A q \in Proc : held'[q] \subseteq Buf \ {b}
    BY <1>1, <1>2
  <2>3. \A q \in Proc : q \notin Users'[s]
    BY <1>4, <2>1, <2>2, UsersFactsNext
  <2> QED
    BY <1>4, <2>3, UsersFactsNext
<1>5. CASE s \in Sound
  <2>1. Users' = [Users EXCEPT ![s] = {}]
    <3> HIDE DEF s
    <3> QED
      BY <1>3, <1>4, <1>5, UsersFacts, UsersFactsNext
  <2>2. Shared!Give(p, s)
    BY <1>5, <2>1, OneUser DEF Shared!Give
  <2> QED
    BY <1>5, <2>2 DEF Shared!Next
<1>6. CASE s \notin Sound
  <2>1. Users' = Users
    <3> HIDE DEF s
    <3> QED
      BY <1>3, <1>6, UsersFacts, UsersFactsNext
  <2> QED
    BY <2>1
<1> QED
  BY <1>5, <1>6

(* A change to a held buffer is a write to its sector.                     *)
LEMMA WritesSector ==
  ASSUME IInv, ContentInv, ContentInv', NEW p \in Proc, NEW b \in held[p], NEW v \in Value,
         UNCHANGED <<sector, held, disk>>, data'[b] = v,
         "VALID" \in flags[b], "VALID" \in flags'[b],
         \A c \in Buf \ {b} : flags'[c] = flags[c] /\ data'[c] = data[c]
  PROVE  [Shared!Next]_<<Content, Users>>
<1>1. b \in Buf /\ sector[b] \in Sector
  BY Holders
<1>2. Users' = Users
  BY DEF Users
<1>3. ASSUME NEW s \in Sound, s # sector[b] PROVE Content'[s] = Content[s]
  <2>1. CASE \E c \in Buf : sector[c] = s /\ "VALID" \in flags[c]
    <3>1. PICK c \in Buf : sector[c] = s /\ "VALID" \in flags[c]
      BY <2>1
    <3>2. sector'[c] = s /\ "VALID" \in flags'[c] /\ data'[c] = data[c]
      BY <1>3, <3>1
    <3> QED
      BY <3>1, <3>2 DEF ContentInv
  <2>2. CASE \A c \in Buf : sector[c] = s => "VALID" \notin flags[c]
    <3>1. Content[s] = disk[s]
      BY <2>2 DEF ContentInv
    <3>2. \A c \in Buf : sector'[c] = s => "VALID" \notin flags'[c]
      BY <1>3, <2>2
    <3>3. Content'[s] = disk'[s]
      BY <3>2 DEF ContentInv
    <3> QED
      BY <3>1, <3>3
  <2> QED
    BY <2>1, <2>2
<1>4. CASE sector[b] \in Sound
  <2>1. Content'[sector[b]] = v
    BY <1>1, <1>4 DEF ContentInv
  <2>2. Content' = [Content EXCEPT ![sector[b]] = v]
    BY <1>3, <1>4, <2>1 DEF ContentInv
  <2>3. Shared!Write(p, sector[b], v)
    BY <1>2, <1>4, <2>2, OneUser DEF Shared!Write
  <2> QED
    BY <1>4, <2>3 DEF Shared!Next
<1>5. CASE sector[b] \notin Sound
  <2>1. Content' = Content
    BY <1>3, <1>5 DEF ContentInv
  <2> QED
    BY <1>2, <2>1
<1> QED
  BY <1>4, <1>5

(* Every step of the cache is a step of the shared blocks, or none.        *)
LEMMA StepShares ==
  ASSUME IInv, IInv', [Next]_vars
  PROVE  [Shared!Next]_<<Content, Users>>
<1>1. ContentInv /\ ContentInv'
  BY ContentFacts, ContentFactsNext
<1>2. ASSUME UNCHANGED <<sector, flags, data, disk, held>>
      PROVE  [Shared!Next]_<<Content, Users>>
  <2>1. Users' = Users
    BY <1>2 DEF Users
  <2>2. Content' = Content
    BY <1>1, <1>2, ContentKept
  <2> QED
    BY <2>1, <2>2
<1>3. ASSUME NEW p \in Proc, NEW b \in Buf, BgetHit(p, b)
      PROVE  [Shared!Next]_<<Content, Users>>
  <2>1. /\ "BUSY" \notin flags[b] /\ sector[b] = want[p] /\ pc[p] = "bget"
        /\ flags' = [flags EXCEPT ![b] = @ \cup {"BUSY"}]
        /\ held'[p] = held[p] \cup {b} /\ \A q \in Proc \ {p} : held'[q] = held[q]
        /\ UNCHANGED <<sector, data, disk>>
    BY <1>3 DEF BgetHit, At, Cached, driver, IInv, TypeOK
  <2>2. \A c \in Buf : "VALID" \in flags'[c] <=> "VALID" \in flags[c]
    BY <2>1 DEF IInv, TypeOK
  <2>3. Content' = Content
    BY <1>1, <2>1, <2>2, ContentKept
  <2>4. \A q \in Proc : b \notin held[q]
    BY <2>1, Holders
  <2>5. sector[b] # None
    <3>1. want[p] \in Sector
      BY <2>1 DEF IInv, AskInv
    <3> QED
      BY <2>1, <3>1, Names
  <2>6. \A c \in Buf \ {b} : sector'[c] = sector[c] /\ sector[c] # sector'[b]
    BY <2>1, <2>5 DEF IInv, OneBufferOneUser
  <2> QED
    BY <2>1, <2>3, <2>4, <2>6, TakesSector
<1>4. ASSUME NEW p \in Proc, BgetRecycle(p)
      PROVE  [Shared!Next]_<<Content, Users>>
  <2>1. PICK b \in Buf : LeastRecent(b) /\ Recycle(p, b)
    BY <1>4 DEF BgetRecycle
  <2>2. /\ Recyclable(b) /\ sector'[b] = want[p] /\ flags'[b] = {"BUSY"}
        /\ held'[p] = held[p] \cup {b} /\ \A q \in Proc \ {p} : held'[q] = held[q]
        /\ \A c \in Buf \ {b} : sector'[c] = sector[c] /\ flags'[c] = flags[c]
        /\ UNCHANGED <<data, disk>>
    BY <2>1 DEF LeastRecent, Recycle, driver, IInv, TypeOK
  <2>3. \A c \in Buf : sector[c] # want[p]
    BY <1>4 DEF BgetRecycle, Cached
  <2>4. ASSUME NEW s \in Sound PROVE Content'[s] = Content[s]
    <3>1. CASE \E c \in Buf \ {b} : sector[c] = s /\ "VALID" \in flags[c]
      <4>1. PICK c \in Buf \ {b} : sector[c] = s /\ "VALID" \in flags[c]
        BY <3>1
      <4>2. sector'[c] = s /\ "VALID" \in flags'[c] /\ data'[c] = data[c]
        BY <2>2, <4>1
      <4> QED
        BY <1>1, <4>1, <4>2 DEF ContentInv
    <3>2. CASE \A c \in Buf \ {b} : sector[c] = s => "VALID" \notin flags[c]
      <4>1. \A c \in Buf : sector'[c] = s => "VALID" \notin flags'[c]
        BY <2>2, <3>2
      <4>2. Content'[s] = disk'[s]
        BY <1>1, <4>1 DEF ContentInv
      <4>3. CASE sector[b] = s /\ "VALID" \in flags[b]
        <5>1. Synced(b)
          BY <2>2, <4>3 DEF Recyclable, Synced
        <5>2. disk[s] = data[b]
          BY <4>3, <5>1 DEF IInv, DiskInv
        <5>3. Content[s] = data[b]
          BY <1>1, <4>3 DEF ContentInv
        <5> QED
          BY <2>2, <4>2, <5>2, <5>3
      <4>4. CASE ~(sector[b] = s /\ "VALID" \in flags[b])
        <5>1. \A c \in Buf : sector[c] = s => "VALID" \notin flags[c]
          BY <3>2, <4>4
        <5>2. Content[s] = disk[s]
          BY <1>1, <5>1 DEF ContentInv
        <5> QED
          BY <2>2, <4>2, <5>2
      <4> QED
        BY <4>3, <4>4
    <3> QED
      BY <3>1, <3>2
  <2>5. Content' = Content
    BY <1>1, <2>4 DEF ContentInv
  <2>6. \A q \in Proc : b \notin held[q]
    BY <2>2, Holders DEF Recyclable
  <2> QED
    BY <2>2, <2>3, <2>5, <2>6, TakesSector
<1>5. ASSUME NEW p \in Proc, NEW b \in Buf, NEW v \in Value, LogWrite(p, b, v) \/ Bwrite(p, b, v)
      PROVE  [Shared!Next]_<<Content, Users>>
  <2>1. /\ pc[p] = "user" /\ b \in held[p] /\ data'[b] = v
        /\ flags'[b] = flags[b] \cup {"DIRTY"}
        /\ \A c \in Buf \ {b} : flags'[c] = flags[c] /\ data'[c] = data[c]
        /\ UNCHANGED <<sector, held, disk>>
    BY <1>5 DEF LogWrite, Bwrite, At, driver, IInv, TypeOK
  <2>2. "VALID" \in flags[b]
    BY <2>1, Holders DEF InIderw
  <2>3. "VALID" \in flags'[b]
    BY <2>1, <2>2
  <2> QED
    BY <1>1, <2>1, <2>2, <2>3, WritesSector
<1>6. ASSUME NEW p \in Proc, NEW b \in Buf, Brelse(p, b)
      PROVE  [Shared!Next]_<<Content, Users>>
  <2>1. /\ b \in held[p] /\ flags' = [flags EXCEPT ![b] = @ \ {"BUSY"}]
        /\ held'[p] = held[p] \ {b} /\ \A q \in Proc \ {p} : held'[q] = held[q]
        /\ UNCHANGED <<sector, data, disk>>
    BY <1>6 DEF Brelse, driver, IInv, TypeOK
  <2>2. \A c \in Buf : "VALID" \in flags'[c] <=> "VALID" \in flags[c]
    BY <2>1 DEF IInv, TypeOK
  <2>3. Content' = Content
    BY <1>1, <2>1, <2>2, ContentKept
  <2> QED
    BY <2>1, <2>3, GivesSector
<1>7. ASSUME DiskFinishes PROVE [Shared!Next]_<<Content, Users>>
  <2> DEFINE h == Head(idequeue)
  <2>1. /\ command = "busy"
        /\ disk' = IF "DIRTY" \in flags[h] THEN [disk EXCEPT ![sector[h]] = data[h]] ELSE disk
        /\ UNCHANGED <<sector, flags, data, held>>
    BY <1>7 DEF DiskFinishes
  <2>2. h \in Buf
    <3>1. idequeue # <<>>
      BY <2>1, Names DEF IInv, SleepersWaitForSomebody
    <3> QED
      BY <3>1, TailFacts DEF IInv, TypeOK
  <2> HIDE DEF h
  <2>3. ASSUME NEW s \in Sound, disk'[s] # disk[s]
        PROVE  sector[h] = s /\ "VALID" \in flags[h]
    BY <2>1, <2>2, <2>3, Names DEF IInv, TypeOK, FlagInv
  <2>4. Content' = Content
    BY <1>1, <2>1, <2>2, <2>3, ContentKept
  <2> QED
    BY <2>1, <2>4 DEF Users
<1>8. ASSUME Ideintr PROVE [Shared!Next]_<<Content, Users>>
  <2> DEFINE h == Head(idequeue)
  <2>1. /\ command \in {"done", "failed"}
        /\ data' = IF "DIRTY" \notin flags[h] /\ command = "done"
                   THEN [data EXCEPT ![h] = disk[sector[h]]] ELSE data
        /\ flags' = [flags EXCEPT ![h] = (@ \cup {"VALID"}) \ {"DIRTY"}]
        /\ UNCHANGED <<sector, disk, held>>
    BY <1>8 DEF Ideintr
  <2>2. h \in Buf /\ ~Synced(h)
    <3>1. idequeue # <<>>
      BY <2>1, Names DEF IInv, SleepersWaitForSomebody
    <3>2. h \in ToSet(idequeue)
      BY <3>1, TailFacts DEF IInv, TypeOK
    <3> HIDE DEF h
    <3> QED
      BY <3>2, Holders
  <2>3. sector[h] \in Sound => command = "done"
    BY <2>1 DEF IInv, DiskInv, Sound
  <2> HIDE DEF h
  <2>4. "VALID" \in flags[h] => "DIRTY" \in flags[h]
    BY <2>2 DEF Synced
  <2>5. \A c \in Buf : "VALID" \in flags[c] => "VALID" \in flags'[c] /\ data'[c] = data[c]
    BY <2>1, <2>2, <2>4 DEF IInv, TypeOK
  <2>6. ASSUME NEW c \in Buf, "VALID" \notin flags[c], "VALID" \in flags'[c], sector[c] \in Sound
        PROVE  data'[c] = disk[sector[c]]
    <3>1. c = h
      BY <2>1, <2>2, <2>6 DEF IInv, TypeOK
    <3>2. "DIRTY" \notin flags[h] /\ command = "done"
      BY <2>3, <2>6, <3>1 DEF IInv, FlagInv
    <3> QED
      BY <2>1, <2>2, <3>1, <3>2 DEF IInv, TypeOK
  <2>7. Content' = Content
    BY <1>1, <2>1, <2>5, <2>6, ContentKept
  <2> QED
    BY <2>1, <2>7 DEF Users
<1>9. ASSUME NEW p \in Proc, Step(p) \/ Use(p) \/ Kill(p)
      PROVE  [Shared!Next]_<<Content, Users>>
  <2>1. ASSUME \/ \E b \in Buf : BgetSleep(p, b)
               \/ BgetPanic(p) \/ Iderw(p) \/ IderwLoop(p)
               \/ \E s \in Sector : Bread(p, s)
               \/ BeginTrans(p) \/ CommitTrans(p) \/ Kill(p)
        PROVE  [Shared!Next]_<<Content, Users>>
    <3>1. UNCHANGED <<sector, flags, data, disk, held>>
      BY <2>1 DEF BgetSleep, BgetPanic, Iderw, IderwLoop, Bread, BeginTrans, CommitTrans, Kill, driver
    <3> QED
      BY <1>2, <3>1
  <2> QED
    BY <1>3, <1>4, <1>5, <1>6, <1>9, <2>1 DEF Step, Use
<1>10. CASE DiskErrs \/ UNCHANGED vars
  <2>1. UNCHANGED <<sector, flags, data, disk, held>>
    BY <1>10 DEF DiskErrs, vars
  <2> QED
    BY <1>2, <2>1
<1> QED
  BY <1>7, <1>8, <1>9, <1>10 DEF Next

(* The cache implements blocks that one process at a time uses and that    *)
(* keep what was last written to them, whatever is evicted, whenever the   *)
(* disk gets to it and whichever other sectors it fails on (bio.c:66-138,  *)
(* ide.c:91-155).                                                          *)
THEOREM BufCacheSharesBlocks == Spec => SharesBlocks
<1>1. Init => Shared!Init
  <2> SUFFICES ASSUME Init PROVE Shared!Init
    OBVIOUS
  <2>1. Content \in [Sound -> Value]
    BY InitInv, ContentFacts DEF ContentInv
  <2>2. Users = [s \in Sound |-> {}]
    BY DEF Init, Users
  <2> QED
    BY <2>1, <2>2 DEF Shared!Init
<1>2. IInv /\ IInv' /\ [Next]_vars => [Shared!Next]_<<Content, Users>>
  BY StepShares
<1> QED
  BY <1>1, <1>2, BufCacheInvariant, PTL DEF Spec, SharesBlocks, Shared!Spec
=============================================================================
