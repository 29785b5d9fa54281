----------------------------- MODULE PipeProofs -----------------------------
(***************************************************************************)
(* Pipe's safety, for every number of processes, every size of the buffer  *)
(* and every counter width it divides: the four properties TLC checks, the *)
(* refinement of the first-in first-out queue among them.                  *)
(***************************************************************************)
EXTENDS Pipe, SequenceTheorems, TLAPS

(* What the flags of struct pipe say of the descriptors.                   *)
EndsInv ==
  /\ readopen <=> \E p \in Proc : "read" \in fds[p]
  /\ writeopen <=> \E p \in Proc : "write" \in fds[p]
  /\ freed = IF readopen \/ writeopen THEN 0 ELSE 1

(* p->lock is held from acquire to release, and given up asleep.           *)
LockInv == \A p \in Proc : pc[p] \in {"loop", "copy", "sleep"} <=> lock = p

(* A call has its descriptor open; only a read copies out of the buffer.   *)
CallInv == \A p \in Proc : /\ pc[p] # "user" => side[p] \in fds[p]
                           /\ pc[p] = "copy" => side[p] = "read"

(* What the while loops have tested still holds where it matters.          *)
TestedInv == \A p \in Proc :
  /\ In(p, "read", "sleep") => Empty /\ writeopen
  /\ In(p, "write", "sleep") => Full /\ readopen
  /\ pc[p] = "copy" /\ i[p] = 0 => ~Empty \/ ~writeopen

(* Whoever changes what a sleeper waits for has yet to call wakeup.        *)
AsleepInv == \A p \in Proc :
  /\ In(p, "read", "asleep") =>
       /\ writeopen
       /\ killed = {} => Empty \/ \E q \in Proc : lock = q /\ In(q, "write", "loop")
  /\ In(p, "write", "asleep") =>
       /\ readopen
       /\ Full \/ \E q \in Proc : lock = q /\ pc[q] = "copy"

SizeInv == Size <= PipeSize

IInv == TypeOK /\ EndsInv /\ LockInv /\ CallInv /\ TestedInv /\ AsleepInv /\ SizeInv

-----------------------------------------------------------------------------
(* Remainders: where the counters wrap around                                  *)

\* The quotient and the remainder of a division.
LEMMA Division ==
  ASSUME NEW m \in Nat \ {0}, NEW x \in Nat
  PROVE  x \div m \in Nat /\ x % m \in 0..(m - 1) /\ x = m * (x \div m) + (x % m)
OBVIOUS

\* A multiple of m is 0 or at least m away from it.
LEMMA Multiples ==
  ASSUME NEW m \in Nat \ {0}, NEW k \in Int
  PROVE  (k >= 1 => m * k >= m) /\ (k <= -1 => m * k <= -m)
OBVIOUS

\* There is one quotient and one remainder.
LEMMA Unique ==
  ASSUME NEW m \in Nat \ {0}, NEW q \in Int, NEW u \in Int,
         NEW r \in 0..(m - 1), NEW s \in 0..(m - 1), m * q + r = m * u + s
  PROVE  q = u /\ r = s
<1>1. m * (q - u) = s - r
  OBVIOUS
<1>2. q - u < 1 /\ q - u > -1
  BY <1>1, Multiples
<1> QED
  BY <1>2

\* What wraps around once, at a sum of two indexes (% of pipe.c:84).
LEMMA WrapsOnce ==
  ASSUME NEW m \in Nat \ {0}, NEW x \in Nat, x < m + m
  PROVE  x % m = IF x < m THEN x ELSE x - m
OBVIOUS

\* The wrap of a counter leaves its place in the buffer (pipe.c:92, pipe.c:115).
LEMMA WrapKeepsPlace ==
  ASSUME NEW m \in Nat \ {0}, NEW x \in Nat, NEW v \in Nat, v % m = 0
  PROVE  (x + v) % m = x % m
<1>1. x + v = m * ((x + v) \div m) + ((x + v) % m)
  BY Division
<1>2. x = m * (x \div m) + (x % m) /\ v = m * (v \div m)
  BY Division
<1>3. x + v = m * ((x \div m) + (v \div m)) + (x % m)
  BY <1>2, Division
<1> DEFINE q == (x + v) \div m
           r == (x + v) % m
           u == (x \div m) + (v \div m)
           s == x % m
<1>4. /\ q \in Int /\ u \in Int /\ r \in 0..(m - 1) /\ s \in 0..(m - 1)
      /\ m * q + r = m * u + s
  BY <1>1, <1>3, Division
<1> HIDE DEF q, r, u, s
<1>5. r = s
  BY <1>4, Unique
<1> QED
  BY <1>5 DEF r, s

\* Two counts less than m apart have places of their own.
LEMMA PlacesDiffer ==
  ASSUME NEW m \in Nat \ {0}, NEW x \in Nat, NEW y \in Nat,
         x <= y, y < x + m, x % m = y % m
  PROVE  x = y
<1> DEFINE q == x \div m
           u == y \div m
           r == x % m
<1>1. q \in Int /\ u \in Int /\ r \in 0..(m - 1) /\ x = m * q + r /\ y = m * u + r
  BY Division
<1> HIDE DEF q, u, r
<1>2. m * (u - q) = y - x
  BY <1>1
<1>3. u - q < 1 /\ u - q > -1
  BY <1>1, <1>2, Multiples
<1> QED
  BY <1>1, <1>2, <1>3
-----------------------------------------------------------------------------
(* The counters                                                                *)
\* What the counters wrap at is larger than the buffer.
LEMMA Numbers ==
  /\ PipeSize \in Nat \ {0} /\ Wrap \in Nat \ {0} /\ Wrap > PipeSize
  /\ NoProc \notin Proc /\ Killable \subseteq Proc
BY PipeAssumption DEF PipeAssumption

\* The tests of the loops, by how many bytes there are (pipe.c:84, pipe.c:105).
LEMMA Sizes ==
  ASSUME NEW r \in Index, NEW w \in Index
  PROVE  /\ (w + Wrap - r) % Wrap = IF w >= r THEN w - r ELSE w + Wrap - r
         /\ (w + Wrap - r) % Wrap \in Index
         /\ (w + Wrap - r) % Wrap = 0 <=> r = w
         /\ (w + Wrap - r) % Wrap = PipeSize <=> w = (r + PipeSize) % Wrap
<1>1. /\ Wrap \in Nat \ {0} /\ w + Wrap - r \in Nat /\ w + Wrap - r < Wrap + Wrap
      /\ r + PipeSize \in Nat /\ r + PipeSize < Wrap + Wrap
  BY Numbers DEF Index
<1>2. ASSUME NEW x \in Nat, x < Wrap + Wrap
      PROVE  x % Wrap = IF x < Wrap THEN x ELSE x - Wrap
  BY <1>1, <1>2, WrapsOnce
<1> DEFINE ahead == w + Wrap - r
           behind == r + PipeSize
<1> HIDE DEF ahead, behind
<1>3. /\ ahead % Wrap = IF ahead < Wrap THEN ahead ELSE ahead - Wrap
      /\ behind % Wrap = IF behind < Wrap THEN behind ELSE behind - Wrap
  <2>1. ahead \in Nat /\ behind \in Nat /\ ahead < Wrap + Wrap /\ behind < Wrap + Wrap
    BY <1>1 DEF ahead, behind
  <2> QED
    BY <2>1, <1>2
<1> QED
  <2> DEFINE a == ahead % Wrap
             b == behind % Wrap
  <2> HIDE DEF a, b
  <2>1. /\ a = IF w >= r THEN w - r ELSE w + Wrap - r
        /\ b = IF r + PipeSize < Wrap THEN r + PipeSize ELSE r + PipeSize - Wrap
    <3>1. /\ a = IF ahead < Wrap THEN ahead ELSE ahead - Wrap
          /\ b = IF behind < Wrap THEN behind ELSE behind - Wrap
      BY <1>3 DEF a, b
    <3> QED
      BY <3>1, Numbers DEF Index, ahead, behind
  <2>2. a \in Index /\ (a = 0 <=> r = w) /\ (a = PipeSize <=> w = b)
    BY <2>1, Numbers DEF Index
  <2> QED
    BY <2>1, <2>2 DEF a, b, ahead, behind

\* A counter goes on by one and wraps around (pipe.c:92, pipe.c:115).
LEMMA NextIndex ==
  ASSUME NEW x \in Index
  PROVE  (x + 1) % Wrap = IF x + 1 < Wrap THEN x + 1 ELSE 0
<1>1. Wrap \in Nat \ {0} /\ x + 1 \in Nat /\ x + 1 < Wrap + Wrap /\ x + 1 <= Wrap
  BY Numbers DEF Index
<1> QED
  BY <1>1, WrapsOnce

\* One more, one less.
LEMMA Steps ==
  ASSUME NEW r \in Index, NEW w \in Index
  PROVE  /\ (w + 1) % Wrap \in Index
         /\ (w + Wrap - r) % Wrap < PipeSize =>
              (((w + 1) % Wrap) + Wrap - r) % Wrap = ((w + Wrap - r) % Wrap) + 1
         /\ (w + Wrap - r) % Wrap # 0 =>
              (w + Wrap - ((r + 1) % Wrap)) % Wrap = ((w + Wrap - r) % Wrap) - 1
<1>1. \A x \in Index : (x + 1) % Wrap = IF x + 1 < Wrap THEN x + 1 ELSE 0
  BY NextIndex
<1>2. \A x \in Index : (x + 1) % Wrap \in Index
  BY <1>1, Numbers DEF Index
<1>3. (((w + 1) % Wrap) + Wrap - r) % Wrap
        = IF (w + 1) % Wrap >= r THEN ((w + 1) % Wrap) - r ELSE ((w + 1) % Wrap) + Wrap - r
  BY <1>2, Sizes
<1>4. (w + Wrap - ((r + 1) % Wrap)) % Wrap
        = IF w >= (r + 1) % Wrap THEN w - ((r + 1) % Wrap) ELSE w + Wrap - ((r + 1) % Wrap)
  BY <1>2, Sizes
<1> DEFINE size == (w + Wrap - r) % Wrap
           next == (w + 1) % Wrap
           after == (r + 1) % Wrap
<1>5. size = IF w >= r THEN w - r ELSE w + Wrap - r
  BY Sizes
<1>6. /\ next = IF w + 1 < Wrap THEN w + 1 ELSE 0
      /\ after = IF r + 1 < Wrap THEN r + 1 ELSE 0
  BY <1>1
<1> HIDE DEF size, next, after
<1>7. size < PipeSize => (IF next >= r THEN next - r ELSE next + Wrap - r) = size + 1
  BY <1>5, <1>6, Numbers DEF Index
<1>8. size # 0 => (IF w >= after THEN w - after ELSE w + Wrap - after) = size - 1
  BY <1>5, <1>6, Numbers DEF Index
<1> QED
  BY <1>2, <1>3, <1>4, <1>7, <1>8 DEF size, next, after

\* Empty and full, by the number of bytes.
LEMMA SizeFacts ==
  ASSUME nread \in Index, nwrite \in Index
  PROVE  Size \in Index /\ (Size = 0 <=> Empty) /\ (Size = PipeSize <=> Full)
BY Sizes DEF Size, Empty, Full
-----------------------------------------------------------------------------
(* The inductive invariant                                                     *)

\* A new pipe, open at both ends and empty (pipe.c:22-55).
LEMMA InitInv == Init => IInv
<1> SUFFICES ASSUME Init PROVE IInv
  OBVIOUS
<1> USE PipeAssumption DEF PipeAssumption, Init
<1>1. TypeOK
  BY DEF TypeOK, Index, End, Places
<1>2. EndsInv
  BY DEF EndsInv, End
<1>3. LockInv /\ CallInv /\ TestedInv /\ AsleepInv
  BY DEF LockInv, CallInv, TestedInv, AsleepInv, In
<1>4. SizeInv
  BY <1>1, SizeFacts DEF SizeInv, TypeOK, Empty
<1> QED
  BY <1>1, <1>2, <1>3, <1>4 DEF IInv

\* What an action that leaves the buffer and its counters alone does not change.
LEMMA SameBytes ==
  ASSUME UNCHANGED pipe
  PROVE  (Empty' <=> Empty) /\ (Full' <=> Full) /\ Size' = Size /\ Contents' = Contents
BY DEF pipe, Empty, Full, Size, Contents

\* How many bytes a call has moved, and is to move.
LEMMA Asked ==
  ASSUME TypeOK, NEW p \in Proc
  PROVE  n[p] \in Nat /\ i[p] \in Nat
<1>1. Count \subseteq Nat
  BY PipeAssumption DEF PipeAssumption
<1>2. n[p] \in Count \cup {0} /\ i[p] \in Nat
  BY DEF TypeOK
<1>3. CASE n[p] \in Count
  BY <1>1, <1>2, <1>3
<1>4. CASE n[p] = 0
  BY <1>2, <1>4
<1> QED
  BY <1>2, <1>3, <1>4

\* The beginning of a system call.
LEMMA CallKeeps ==
  ASSUME IInv, NEW p \in Proc, NEW end \in End, Call(p, end)
  PROVE  IInv'
<1> USE Numbers DEF IInv, At, In, Goto, pipe, ends, call, Call
<1>0. (Empty' <=> Empty) /\ (Full' <=> Full) /\ Size' = Size
  BY SameBytes
<1>1. TypeOK'
  <2>1. Count \subseteq Nat
    BY PipeAssumption DEF PipeAssumption
  <2>2. PICK count \in Count : n' = [n EXCEPT ![p] = count]
    OBVIOUS
  <2>3. n' \in [Proc -> Count \cup {0}] /\ i' \in [Proc -> Nat]
    BY <2>2 DEF TypeOK
  <2>4. \A q \in Proc : i'[q] <= n'[q]
    BY <2>1, <2>2 DEF TypeOK
  <2> QED
    BY <2>3, <2>4 DEF TypeOK, Places, End
<1>2. EndsInv'
  BY DEF TypeOK, EndsInv, End
<1>3. LockInv'
  BY DEF TypeOK, LockInv
<1>4. CallInv'
  BY DEF TypeOK, LockInv, CallInv, End
<1>5. TestedInv'
  BY <1>0 DEF TypeOK, LockInv, TestedInv, End
<1>6. AsleepInv'
  BY <1>0 DEF TypeOK, LockInv, CallInv, TestedInv, AsleepInv, End
<1>7. SizeInv'
  BY <1>0 DEF SizeInv
<1> QED
  BY <1>1, <1>2, <1>3, <1>4, <1>5, <1>6, <1>7

\* acquire(&p->lock), at the start of a call and after a sleep.
LEMMA AcquireKeeps ==
  ASSUME IInv, NEW p \in Proc, Acquire(p)
  PROVE  IInv'
<1> USE Numbers DEF IInv, At, In, Goto, pipe, ends, call, Acquire
<1>0. (Empty' <=> Empty) /\ (Full' <=> Full) /\ Size' = Size
  BY SameBytes
<1>1. TypeOK'
  BY DEF TypeOK, Places, End, Index
<1>2. EndsInv'
  BY DEF TypeOK, EndsInv, End
<1>3. LockInv'
  BY DEF TypeOK, LockInv
<1>4. CallInv'
  BY DEF TypeOK, LockInv, CallInv, End
<1>5. TestedInv'
  BY <1>0 DEF TypeOK, LockInv, TestedInv, End
<1>6. AsleepInv'
  BY <1>0 DEF TypeOK, LockInv, CallInv, TestedInv, AsleepInv, End
<1>7. SizeInv'
  BY <1>0 DEF SizeInv
<1> QED
  BY <1>1, <1>2, <1>3, <1>4, <1>5, <1>6, <1>7

\* pipeclose, which nobody can be in a call for (pipe.c:58-74).
LEMMA CloseKeeps ==
  ASSUME IInv, NEW p \in Proc, NEW end \in End, Close(p, end)
  PROVE  IInv'
<1> USE Numbers DEF IInv, At, In, Goto, pipe, ends, call, Close, LastOf, Wakeup
<1>0. (Empty' <=> Empty) /\ (Full' <=> Full) /\ Size' = Size
  BY SameBytes
<1>1. TypeOK'
  <2>1. freed' \in 0..1
    BY DEF TypeOK, EndsInv, End
  <2>2. pc' \in [Proc -> Places]
    BY DEF TypeOK, Places
  <2> QED
    BY <2>1, <2>2 DEF TypeOK, End
<1>2. EndsInv'
  BY DEF TypeOK, EndsInv, End
<1>3. LockInv'
  BY DEF TypeOK, LockInv
<1>4. CallInv'
  BY DEF TypeOK, LockInv, CallInv, End
<1>5. TestedInv'
  BY <1>0 DEF TypeOK, LockInv, TestedInv, End
<1>6. AsleepInv'
  BY <1>0 DEF TypeOK, LockInv, CallInv, TestedInv, AsleepInv, End
<1>7. SizeInv'
  BY <1>0 DEF SizeInv
<1> QED
  BY <1>1, <1>2, <1>3, <1>4, <1>5, <1>6, <1>7

\* kill, which lets a sleeper go on.
LEMMA KillKeeps ==
  ASSUME IInv, NEW p \in Proc, Kill(p)
  PROVE  IInv'
<1> USE Numbers DEF IInv, At, In, Goto, pipe, ends, call, Kill
<1>0. (Empty' <=> Empty) /\ (Full' <=> Full) /\ Size' = Size
  BY SameBytes
<1>1. TypeOK'
  BY DEF TypeOK, Places, End, Index
<1>2. EndsInv'
  BY DEF TypeOK, EndsInv, End
<1>3. LockInv'
  BY DEF TypeOK, LockInv
<1>4. CallInv'
  BY DEF TypeOK, LockInv, CallInv, End
<1>5. TestedInv'
  BY <1>0 DEF TypeOK, LockInv, TestedInv, End
<1>6. AsleepInv'
  BY <1>0 DEF TypeOK, LockInv, CallInv, TestedInv, AsleepInv, End
<1>7. SizeInv'
  BY <1>0 DEF SizeInv
<1> QED
  BY <1>1, <1>2, <1>3, <1>4, <1>5, <1>6, <1>7

\* pipewrite returns -1 (pipe.c:85-88).
LEMMA WriteFailsKeeps ==
  ASSUME IInv, NEW p \in Proc, WriteFails(p)
  PROVE  IInv'
<1> USE Numbers DEF IInv, At, In, Goto, pipe, ends, call, WriteFails
<1>0. (Empty' <=> Empty) /\ (Full' <=> Full) /\ Size' = Size
  BY SameBytes
<1>1. TypeOK'
  BY DEF TypeOK, Places, End, Index
<1>2. EndsInv'
  BY DEF TypeOK, EndsInv, End
<1>3. LockInv'
  BY DEF TypeOK, LockInv
<1>4. CallInv'
  BY DEF TypeOK, LockInv, CallInv, End
<1>5. TestedInv'
  BY <1>0 DEF TypeOK, LockInv, TestedInv, End
<1>6. AsleepInv'
  BY <1>0 DEF TypeOK, EndsInv, LockInv, CallInv, AsleepInv, End
<1>7. SizeInv'
  BY <1>0 DEF SizeInv
<1> QED
  BY <1>1, <1>2, <1>3, <1>4, <1>5, <1>6, <1>7

\* A full buffer: the readers are woken before the writer sleeps (pipe.c:89-90).
LEMMA WriteWaitsKeeps ==
  ASSUME IInv, NEW p \in Proc, WriteWaits(p)
  PROVE  IInv'
<1> USE Numbers DEF IInv, At, In, Goto, pipe, ends, call, WriteWaits, Wakeup
<1>0. (Empty' <=> Empty) /\ (Full' <=> Full) /\ Size' = Size
  BY SameBytes
<1>1. TypeOK'
  BY DEF TypeOK, Places, End, Index
<1>2. EndsInv'
  BY DEF TypeOK, EndsInv, End
<1>3. LockInv'
  BY DEF TypeOK, LockInv
<1>4. CallInv'
  BY DEF TypeOK, LockInv, CallInv, End
<1>5. TestedInv'
  BY <1>0 DEF TypeOK, LockInv, TestedInv, End
<1>6. AsleepInv'
  BY <1>0 DEF TypeOK, LockInv, CallInv, TestedInv, AsleepInv, End
<1>7. SizeInv'
  BY <1>0 DEF SizeInv
<1> QED
  BY <1>1, <1>2, <1>3, <1>4, <1>5, <1>6, <1>7

\* pipewrite returns n.
LEMMA WriteEndsKeeps ==
  ASSUME IInv, NEW p \in Proc, WriteEnds(p)
  PROVE  IInv'
<1> USE Numbers DEF IInv, At, In, Goto, pipe, ends, call, WriteEnds, Wakeup
<1>0. (Empty' <=> Empty) /\ (Full' <=> Full) /\ Size' = Size
  BY SameBytes
<1>1. TypeOK'
  BY DEF TypeOK, Places, End, Index
<1>2. EndsInv'
  BY DEF TypeOK, EndsInv, End
<1>3. LockInv'
  BY DEF TypeOK, LockInv
<1>4. CallInv'
  BY DEF TypeOK, LockInv, CallInv, End
<1>5. TestedInv'
  BY <1>0 DEF TypeOK, LockInv, TestedInv, End
<1>6. AsleepInv'
  BY <1>0 DEF TypeOK, LockInv, CallInv, TestedInv, AsleepInv, End
<1>7. SizeInv'
  BY <1>0 DEF SizeInv
<1> QED
  BY <1>1, <1>2, <1>3, <1>4, <1>5, <1>6, <1>7

\* sleep releases p->lock.
LEMMA SleepKeeps ==
  ASSUME IInv, NEW p \in Proc, Sleep(p)
  PROVE  IInv'
<1> USE Numbers DEF IInv, At, In, Goto, pipe, ends, call, Sleep
<1>0. (Empty' <=> Empty) /\ (Full' <=> Full) /\ Size' = Size
  BY SameBytes
<1>1. TypeOK'
  BY DEF TypeOK, Places, End, Index
<1>2. EndsInv'
  BY DEF TypeOK, EndsInv, End
<1>3. LockInv'
  BY DEF TypeOK, LockInv
<1>4. CallInv'
  BY DEF TypeOK, LockInv, CallInv, End
<1>5. TestedInv'
  BY <1>0 DEF TypeOK, LockInv, TestedInv, End
<1>6. AsleepInv'
  BY <1>0 DEF TypeOK, LockInv, CallInv, TestedInv, AsleepInv, End
<1>7. SizeInv'
  BY <1>0 DEF SizeInv
<1> QED
  BY <1>1, <1>2, <1>3, <1>4, <1>5, <1>6, <1>7

\* piperead returns -1 (pipe.c:106-109).
LEMMA ReadFailsKeeps ==
  ASSUME IInv, NEW p \in Proc, ReadFails(p)
  PROVE  IInv'
<1> USE Numbers DEF IInv, At, In, Goto, pipe, ends, call, ReadFails
<1>0. (Empty' <=> Empty) /\ (Full' <=> Full) /\ Size' = Size
  BY SameBytes
<1>1. TypeOK'
  BY DEF TypeOK, Places, End, Index
<1>2. EndsInv'
  BY DEF TypeOK, EndsInv, End
<1>3. LockInv'
  BY DEF TypeOK, LockInv
<1>4. CallInv'
  BY DEF TypeOK, LockInv, CallInv, End
<1>5. TestedInv'
  BY <1>0 DEF TypeOK, LockInv, TestedInv, End
<1>6. AsleepInv'
  BY <1>0 DEF TypeOK, LockInv, CallInv, TestedInv, AsleepInv, End
<1>7. SizeInv'
  BY <1>0 DEF SizeInv
<1> QED
  BY <1>1, <1>2, <1>3, <1>4, <1>5, <1>6, <1>7

\* An empty buffer that can still be written.
LEMMA ReadWaitsKeeps ==
  ASSUME IInv, NEW p \in Proc, ReadWaits(p)
  PROVE  IInv'
<1> USE Numbers DEF IInv, At, In, Goto, pipe, ends, call, ReadWaits
<1>0. (Empty' <=> Empty) /\ (Full' <=> Full) /\ Size' = Size
  BY SameBytes
<1>1. TypeOK'
  BY DEF TypeOK, Places, End, Index
<1>2. EndsInv'
  BY DEF TypeOK, EndsInv, End
<1>3. LockInv'
  BY DEF TypeOK, LockInv
<1>4. CallInv'
  BY DEF TypeOK, LockInv, CallInv, End
<1>5. TestedInv'
  BY <1>0 DEF TypeOK, LockInv, TestedInv, End
<1>6. AsleepInv'
  BY <1>0 DEF TypeOK, LockInv, CallInv, TestedInv, AsleepInv, End
<1>7. SizeInv'
  BY <1>0 DEF SizeInv
<1> QED
  BY <1>1, <1>2, <1>3, <1>4, <1>5, <1>6, <1>7

\* The while loop is left.
LEMMA ReadStartsKeeps ==
  ASSUME IInv, NEW p \in Proc, ReadStarts(p)
  PROVE  IInv'
<1> USE Numbers DEF IInv, At, In, Goto, pipe, ends, call, ReadStarts
<1>0. (Empty' <=> Empty) /\ (Full' <=> Full) /\ Size' = Size
  BY SameBytes
<1>1. TypeOK'
  BY DEF TypeOK, Places, End, Index
<1>2. EndsInv'
  BY DEF TypeOK, EndsInv, End
<1>3. LockInv'
  BY DEF TypeOK, LockInv
<1>4. CallInv'
  BY DEF TypeOK, LockInv, CallInv, End
<1>5. TestedInv'
  BY <1>0 DEF TypeOK, LockInv, TestedInv, End
<1>6. AsleepInv'
  BY <1>0 DEF TypeOK, LockInv, CallInv, TestedInv, AsleepInv, End
<1>7. SizeInv'
  BY <1>0 DEF SizeInv
<1> QED
  BY <1>1, <1>2, <1>3, <1>4, <1>5, <1>6, <1>7

\* piperead wakes the writers and returns i.
LEMMA ReadEndsKeeps ==
  ASSUME IInv, NEW p \in Proc, ReadEnds(p)
  PROVE  IInv'
<1> USE Numbers DEF IInv, At, In, Goto, pipe, ends, call, ReadEnds, Wakeup
<1>0. (Empty' <=> Empty) /\ (Full' <=> Full) /\ Size' = Size
  BY SameBytes
<1>1. TypeOK'
  BY DEF TypeOK, Places, End, Index
<1>2. EndsInv'
  BY DEF TypeOK, EndsInv, End
<1>3. LockInv'
  BY DEF TypeOK, LockInv
<1>4. CallInv'
  BY DEF TypeOK, LockInv, CallInv, End
<1>5. TestedInv'
  BY <1>0 DEF TypeOK, LockInv, TestedInv, End
<1>6. AsleepInv'
  BY <1>0 DEF TypeOK, LockInv, CallInv, TestedInv, AsleepInv, End
<1>7. SizeInv'
  BY <1>0 DEF SizeInv
<1> QED
  BY <1>1, <1>2, <1>3, <1>4, <1>5, <1>6, <1>7

\* One more byte: no writer sleeps now, and readers do until wakeup is called.
LEMMA WriteByteKeeps ==
  ASSUME IInv, NEW p \in Proc, NEW b \in Byte, WriteByte(p, b)
  PROVE  IInv'
<1> USE Numbers DEF IInv, At, In, Goto, pipe, ends, call, WriteByte
<1>1. TypeOK'
  <2>1. nwrite' \in Index
    BY Steps DEF TypeOK
  <2>2. data' \in [0..(PipeSize - 1) -> Byte]
    BY DEF TypeOK
  <2>3. i' \in [Proc -> Nat] /\ \A q \in Proc : i'[q] <= n'[q]
    <3>1. n[p] \in Nat /\ i[p] \in Nat /\ i[p] < n[p]
      BY Asked DEF TypeOK, More
    <3>2. i' \in [Proc -> Nat] /\ i'[p] = i[p] + 1
      BY <3>1 DEF TypeOK
    <3>3. \A q \in Proc \ {p} : i'[q] = i[q]
      BY DEF TypeOK
    <3> QED
      BY <3>1, <3>2, <3>3 DEF TypeOK
  <2> QED
    BY <2>1, <2>2, <2>3 DEF TypeOK
<1>2. EndsInv'
  BY DEF TypeOK, EndsInv, End
<1>3. LockInv'
  BY DEF TypeOK, LockInv
<1>4. CallInv'
  BY DEF TypeOK, LockInv, CallInv, End
<1>5. TestedInv'
  BY DEF TypeOK, LockInv, TestedInv, End
<1>6. AsleepInv'
  BY DEF TypeOK, LockInv, CallInv, TestedInv, AsleepInv, End
<1>7. SizeInv'
  <2>1. Size \in Index /\ Size # PipeSize
    BY SizeFacts DEF TypeOK
  <2>2. Size < PipeSize
    BY <2>1 DEF SizeInv, Index
  <2>3. Size' = Size + 1
    BY <2>2, Steps DEF TypeOK, Size
  <2> QED
    BY <2>1, <2>2, <2>3 DEF SizeInv, Index
<1> QED
  BY <1>1, <1>2, <1>3, <1>4, <1>5, <1>6, <1>7

\* One byte less: no reader sleeps now, and writers do until wakeup is called.
LEMMA ReadByteKeeps ==
  ASSUME IInv, NEW p \in Proc, ReadByte(p)
  PROVE  IInv'
<1> USE Numbers DEF IInv, At, In, Goto, pipe, ends, call, ReadByte
<1>1. TypeOK'
  <2>1. nread' \in Index
    BY Steps DEF TypeOK
  <2>2. i' \in [Proc -> Nat] /\ \A q \in Proc : i'[q] <= n'[q]
    <3>1. n[p] \in Nat /\ i[p] \in Nat /\ i[p] < n[p]
      BY Asked DEF TypeOK, More
    <3>2. i' \in [Proc -> Nat] /\ i'[p] = i[p] + 1
      BY <3>1 DEF TypeOK
    <3>3. \A q \in Proc \ {p} : i'[q] = i[q]
      BY DEF TypeOK
    <3> QED
      BY <3>1, <3>2, <3>3 DEF TypeOK
  <2> QED
    BY <2>1, <2>2 DEF TypeOK
<1>2. EndsInv'
  BY DEF TypeOK, EndsInv, End
<1>3. LockInv'
  BY DEF TypeOK, LockInv
<1>4. CallInv'
  BY DEF TypeOK, LockInv, CallInv, End
<1>5. TestedInv'
  BY DEF TypeOK, LockInv, TestedInv, End
<1>6. AsleepInv'
  BY DEF TypeOK, LockInv, CallInv, TestedInv, AsleepInv, End
<1>7. SizeInv'
  <2>1. Size \in Index /\ Size # 0
    BY SizeFacts DEF TypeOK
  <2>2. Size' = Size - 1
    BY <2>1, Steps DEF TypeOK, Size
  <2> QED
    BY <2>1, <2>2 DEF SizeInv, Index
<1> QED
  BY <1>1, <1>2, <1>3, <1>4, <1>5, <1>6, <1>7

\* Every step keeps the invariant.
LEMMA NextKeeps == IInv /\ [Next]_vars => IInv'
<1> SUFFICES ASSUME IInv, [Next]_vars PROVE IInv'
  OBVIOUS
<1>1. CASE UNCHANGED vars
  <2>1. (Empty' <=> Empty) /\ (Full' <=> Full) /\ Size' = Size
    BY <1>1, SameBytes DEF vars, pipe
  <2> QED
    BY <1>1, <2>1 DEF vars, IInv, TypeOK, EndsInv, LockInv, CallInv, TestedInv, AsleepInv,
                      SizeInv, In, At
<1>2. CASE Next
  <2>1. PICK p \in Proc : \/ Work(p)
                          \/ \E end \in End : Call(p, end) \/ Close(p, end)
                          \/ Kill(p)
    BY <1>2 DEF Next
  <2>2. CASE Work(p)
    BY <2>2, WriteByteKeeps, WriteFailsKeeps, WriteWaitsKeeps, WriteEndsKeeps,
       ReadFailsKeeps, ReadWaitsKeeps, ReadStartsKeeps, ReadByteKeeps, ReadEndsKeeps,
       SleepKeeps, AcquireKeeps DEF Work
  <2>3. CASE \E end \in End : Call(p, end) \/ Close(p, end)
    BY <2>3, CallKeeps, CloseKeeps
  <2>4. CASE Kill(p)
    BY <2>4, KillKeeps
  <2> QED
    BY <2>1, <2>2, <2>3, <2>4
<1> QED
  BY <1>1, <1>2

\* The invariant the properties rest on: who holds p->lock, what the loops have
\* tested, and who has yet to call wakeup.
THEOREM PipeInvariant == Spec => []IInv
BY InitInv, NextKeeps, PTL DEF Spec

\* End of file is what no descriptor open for writing and an empty buffer are: the
\* flag writeopen goes with the last such descriptor, and only p->lock's holder
\* makes the buffer empty.
THEOREM PipeEndOfFile == Spec => []EndOfFile
<1>1. IInv => EndOfFile
  BY DEF IInv, EndOfFile, TestedInv, EndsInv, At
<1> QED
  BY <1>1, PipeInvariant, PTL

\* pipeclose frees the page once, when both flags are gone, and nobody is in a call then.
THEOREM PipeFreedAtTheEnd == Spec => []FreedAtTheEnd
<1>1. ASSUME IInv PROVE FreedAtTheEnd
  <2> USE <1>1 DEF IInv, End, At
  <2>1. freed = 1 <=> \A p \in Proc : fds[p] = {}
    <3>1. \A p \in Proc : fds[p] = {} <=> "read" \notin fds[p] /\ "write" \notin fds[p]
      BY DEF TypeOK
    <3> QED
      BY <3>1 DEF EndsInv
  <2>2. ASSUME freed = 1 PROVE \A p \in Proc : pc[p] = "user"
    BY <2>1, <2>2 DEF CallInv
  <2>3. ASSUME freed = 1 PROVE lock = NoProc
    BY <2>2, <2>3 DEF TypeOK, LockInv
  <2> QED
    BY <2>1, <2>2, <2>3 DEF FreedAtTheEnd
<1> QED
  BY <1>1, PipeInvariant, PTL

\* No wakeup is missed, by readers or by writers: what a sleeper waits for comes only
\* from somebody who has p->lock until it has called wakeup.
THEOREM PipeSleepersWokenUp == Spec => []SleepersWokenUp
<1>1. ASSUME IInv PROVE SleepersWokenUp
  <2> USE <1>1, Numbers DEF IInv
  <2>1. ReadersWokenUp
    BY DEF ReadersWokenUp, AsleepInv
  <2>2. WritersWokenUp
    BY DEF WritersWokenUp, AsleepInv
  <2> QED
    BY <2>1, <2>2 DEF SleepersWokenUp
<1> QED
  BY <1>1, PipeInvariant, PTL
-----------------------------------------------------------------------------
(* The pipe is a queue                                                         *)

\* Where the byte at a counter is, past the wrap too.
LEMMA NextPlace ==
  ASSUME NEW r \in Index, NEW k \in Nat
  PROVE  (((r + 1) % Wrap) + k) % PipeSize = (r + 1 + k) % PipeSize
<1>1. CASE r + 1 < Wrap
  BY <1>1, NextIndex
<1>2. CASE r + 1 = Wrap
  <2>1. (r + 1) % Wrap = 0
    BY <1>2, NextIndex, Numbers
  <2>2. (k + Wrap) % PipeSize = k % PipeSize
    BY PipeAssumption, WrapKeepsPlace DEF PipeAssumption
  <2>3. r + 1 + k = k + Wrap /\ 0 + k = k
    BY <1>2, Numbers
  <2> QED
    BY <2>1, <2>2, <2>3
<1> QED
  BY <1>1, <1>2, Numbers DEF Index

\* The next byte to write goes right behind the contents.
LEMMA LastPlace ==
  ASSUME nread \in Index, nwrite \in Index
  PROVE  (nread + Size) % PipeSize = nwrite % PipeSize
<1>1. Size = IF nwrite >= nread THEN nwrite - nread ELSE nwrite + Wrap - nread
  BY Sizes DEF Size
<1>2. CASE nwrite >= nread
  <2>1. nread + Size = nwrite
    BY <1>1, <1>2 DEF Index
  <2> QED
    BY <2>1
<1>3. CASE ~(nwrite >= nread)
  <2>1. nread + Size = nwrite + Wrap
    BY <1>1, <1>3, Numbers DEF Index
  <2>2. nwrite \in Nat
    BY DEF Index
  <2>3. (nwrite + Wrap) % PipeSize = nwrite % PipeSize
    BY <2>2, PipeAssumption, WrapKeepsPlace DEF PipeAssumption
  <2> QED
    BY <2>1, <2>3
<1> QED
  BY <1>2, <1>3

Held(d, r, size) == [k \in 1..size |-> d[(r + k - 1) % PipeSize]]

\* The contents are as many bytes as the counters say.
LEMMA HeldBytes ==
  ASSUME NEW r \in Index, NEW size \in Nat, NEW d \in [0..(PipeSize - 1) -> Byte]
  PROVE  /\ Held(d, r, size) \in Seq(Byte) /\ Len(Held(d, r, size)) = size
         /\ \A k \in 1..size : Held(d, r, size)[k] = d[(r + k - 1) % PipeSize]
<1>1. ASSUME NEW k \in 1..size
      PROVE  d[(r + k - 1) % PipeSize] \in Byte
  <2>1. r + k - 1 \in Nat
    BY DEF Index
  <2>2. (r + k - 1) % PipeSize \in 0..(PipeSize - 1)
    BY <2>1, Numbers, Division
  <2> QED
    BY <2>2
<1>2. Held(d, r, size) \in [1..size -> Byte]
  BY <1>1 DEF Held
<1> QED
  BY <1>2 DEF Held

\* So it is before and after a step.
LEMMA ContentsSeq ==
  /\ TypeOK => /\ Contents \in Seq(Byte) /\ Len(Contents) = Size
               /\ \A k \in 1..Size : Contents[k] = data[(nread + k - 1) % PipeSize]
  /\ TypeOK' => /\ Contents' \in Seq(Byte) /\ Len(Contents') = Size'
                /\ \A k \in 1..Size' : Contents'[k] = data'[(nread' + k - 1) % PipeSize]
<1>1. ASSUME TypeOK
      PROVE  /\ Contents \in Seq(Byte) /\ Len(Contents) = Size
             /\ \A k \in 1..Size : Contents[k] = data[(nread + k - 1) % PipeSize]
  <2>1. nread \in Index /\ nwrite \in Index /\ data \in [0..(PipeSize - 1) -> Byte]
    BY <1>1 DEF TypeOK
  <2>2. Contents = Held(data, nread, Size)
    BY DEF Held, Contents
  <2>3. Size \in Nat
    BY <2>1, Sizes DEF Size, Index
  <2> QED
    BY <2>1, <2>2, <2>3, HeldBytes
<1>2. ASSUME TypeOK'
      PROVE  /\ Contents' \in Seq(Byte) /\ Len(Contents') = Size'
             /\ \A k \in 1..Size' : Contents'[k] = data'[(nread' + k - 1) % PipeSize]
  <2>1. nread' \in Index /\ nwrite' \in Index /\ data' \in [0..(PipeSize - 1) -> Byte]
    BY <1>2 DEF TypeOK
  <2>2. Contents' = Held(data', nread', Size')
    BY DEF Held, Contents
  <2>3. Size' \in Nat
    BY <2>1, Sizes DEF Size, Index
  <2> QED
    BY <2>1, <2>2, <2>3, HeldBytes
<1> QED
  BY <1>1, <1>2

\* Nothing is queued in a new pipe.
LEMMA InitIsEmpty == Init => Queue!Init
<1> SUFFICES ASSUME Init PROVE Contents = <<>>
  BY DEF Queue!Init
<1>1. TypeOK
  BY InitInv DEF IInv
<1>2. Size = 0
  BY <1>1, SizeFacts DEF TypeOK, Init, Empty
<1>3. Contents \in Seq(Byte) /\ Len(Contents) = 0
  BY <1>1, <1>2, ContentsSeq
<1> QED
  BY <1>3, EmptySeq

\* pipewrite's byte goes to the end, and overwrites none of those before it.
LEMMA WriteBytePuts ==
  ASSUME IInv, NEW p \in Proc, NEW b \in Byte, WriteByte(p, b)
  PROVE  Queue!Put(b)
<1>1. TypeOK /\ TypeOK' /\ SizeInv
  BY WriteByteKeeps DEF IInv
<1>2. Size \in Index /\ Size < PipeSize
  <2>1. Size \in Index /\ Size # PipeSize
    BY <1>1, SizeFacts DEF TypeOK, WriteByte
  <2> QED
    BY <1>1, <2>1, Numbers DEF SizeInv, Index
<1>3. Size' = Size + 1 /\ nread' = nread
  BY <1>1, <1>2, Steps DEF TypeOK, Size, WriteByte, ends, call
<1>4. /\ Len(Contents) = Size /\ Contents \in Seq(Byte)
      /\ Len(Contents') = Size + 1 /\ Contents' \in Seq(Byte)
      /\ \A k \in 1..Size : Contents[k] = data[(nread + k - 1) % PipeSize]
      /\ \A k \in 1..(Size + 1) : Contents'[k] = data'[(nread + k - 1) % PipeSize]
  BY <1>1, <1>3, ContentsSeq
<1>5. (nread + Size) % PipeSize = nwrite % PipeSize
  BY <1>1, LastPlace DEF TypeOK
<1>6. Contents'[Size + 1] = b
  <2>1. nwrite % PipeSize \in 0..(PipeSize - 1)
    BY <1>1, Numbers, Division DEF TypeOK, Index
  <2>2. data'[nwrite % PipeSize] = b
    BY <1>1, <2>1 DEF TypeOK, WriteByte
  <2>3. Size + 1 \in 1..(Size + 1) /\ nread + (Size + 1) - 1 = nread + Size
    BY <1>1, <1>2 DEF TypeOK, Index
  <2>4. Contents'[Size + 1] = data'[(nread + Size) % PipeSize]
    BY <1>4, <2>3
  <2> QED
    BY <1>5, <2>2, <2>4
<1>7. ASSUME NEW k \in 1..Size PROVE Contents'[k] = Contents[k]
  <2>1. /\ nread + k - 1 \in Nat /\ nread + Size \in Nat
        /\ nread + k - 1 < nread + Size /\ nread + Size < nread + k - 1 + PipeSize
        /\ k \in 1..(Size + 1)
    BY <1>1, <1>2, Numbers DEF TypeOK, Index
  <2>2. (nread + k - 1) % PipeSize # (nread + Size) % PipeSize
    BY <2>1, Numbers, PlacesDiffer
  <2>3. (nread + k - 1) % PipeSize # nwrite % PipeSize
    BY <1>5, <2>2
  <2>4. data'[(nread + k - 1) % PipeSize] = data[(nread + k - 1) % PipeSize]
    BY <1>1, <2>3 DEF TypeOK, WriteByte
  <2> QED
    BY <1>4, <2>1, <2>4
<1>8. Contents' = Append(Contents, b)
  <2>1. /\ Append(Contents, b) \in Seq(Byte) /\ Len(Append(Contents, b)) = Size + 1
        /\ \A k \in 1..(Size + 1) :
             Append(Contents, b)[k] = IF k = Size + 1 THEN b ELSE Contents[k]
    BY <1>2, <1>4 DEF Index
  <2>2. \A k \in 1..(Size + 1) : Contents'[k] = Append(Contents, b)[k]
    BY <1>2, <1>6, <1>7, <2>1 DEF Index
  <2> QED
    BY <1>4, <2>1, <2>2, SeqEqual
<1> QED
  BY <1>2, <1>4, <1>8 DEF Queue!Put

\* piperead takes the oldest byte; the others stay where they are.
LEMMA ReadByteTakes ==
  ASSUME IInv, NEW p \in Proc, ReadByte(p)
  PROVE  Queue!Take
<1>1. TypeOK /\ TypeOK'
  BY ReadByteKeeps DEF IInv
<1>2. Size \in Index /\ Size # 0
  BY <1>1, SizeFacts DEF TypeOK, ReadByte
<1>3. Size' = Size - 1 /\ nread' = (nread + 1) % Wrap /\ data' = data
  BY <1>1, <1>2, Steps DEF TypeOK, Size, ReadByte, ends, call
<1>4. /\ Len(Contents) = Size /\ Contents \in Seq(Byte)
      /\ Len(Contents') = Size - 1 /\ Contents' \in Seq(Byte)
      /\ \A k \in 1..Size : Contents[k] = data[(nread + k - 1) % PipeSize]
      /\ \A k \in 1..(Size - 1) : Contents'[k] = data[(nread' + k - 1) % PipeSize]
  BY <1>1, <1>3, ContentsSeq
<1>5. ASSUME NEW k \in 1..(Size - 1) PROVE Contents'[k] = Contents[k + 1]
  <2>1. /\ k - 1 \in Nat /\ k + 1 \in 1..Size /\ nread + 1 + (k - 1) = nread + (k + 1) - 1
        /\ nread' + (k - 1) = nread' + k - 1
    BY <1>1, <1>2 DEF TypeOK, Index
  <2>2. (nread' + (k - 1)) % PipeSize = (nread + 1 + (k - 1)) % PipeSize
    BY <1>1, <1>3, <2>1, NextPlace DEF TypeOK
  <2> QED
    BY <1>4, <2>1, <2>2
<1>6. Contents # <<>>
  BY <1>2, <1>4, EmptySeq
<1>7. /\ Tail(Contents) \in Seq(Byte) /\ Len(Tail(Contents)) = Size - 1
      /\ \A k \in 1..(Size - 1) : Tail(Contents)[k] = Contents[k + 1]
  BY <1>4, <1>6, HeadTailProperties
<1>8. Contents' = Tail(Contents)
  BY <1>4, <1>5, <1>7, SeqEqual
<1> QED
  BY <1>6, <1>8 DEF Queue!Take

\* Every other step leaves the contents alone.
LEMMA StepsAreQueueSteps == IInv /\ [Next]_vars => [Queue!Next]_Contents
<1> SUFFICES ASSUME IInv, [Next]_vars PROVE [Queue!Next]_Contents
  OBVIOUS
<1>1. CASE UNCHANGED pipe
  BY <1>1, SameBytes
<1>2. ASSUME NEW p \in Proc, NEW b \in Byte, WriteByte(p, b) PROVE Queue!Next
  BY <1>2, WriteBytePuts DEF Queue!Next
<1>3. ASSUME NEW p \in Proc, ReadByte(p) PROVE Queue!Next
  BY <1>3, ReadByteTakes DEF Queue!Next
<1>4. \/ UNCHANGED pipe
      \/ \E p \in Proc : ReadByte(p) \/ \E b \in Byte : WriteByte(p, b)
  BY DEF Next, Work, vars, pipe, Call, Acquire, Close, Kill, WriteFails, WriteWaits, WriteEnds,
         Sleep, ReadFails, ReadWaits, ReadStarts, ReadEnds
<1> QED
  BY <1>1, <1>2, <1>3, <1>4

\* The pipe implements the queue: every byte that is written comes out once and in its
\* turn, at every size of the buffer and wherever the counters wrap around.
THEOREM PipeIsFifo == Spec => IsFifo
<1>1. Spec => Queue!Init /\ [][Queue!Next]_Contents
  BY PipeInvariant, InitIsEmpty, StepsAreQueueSteps, PTL DEF Spec
<1> QED
  BY <1>1 DEF IsFifo, Queue!Spec

=============================================================================
