---------------------------- MODULE MemoryProofs ----------------------------
(***************************************************************************)
(* Pages and their owners: what kalloc.c, vm.c and each step of a process  *)
(* do to them.                                                             *)
(*                                                                         *)
(* Each page has an owner: a process or processor, a place in a directory  *)
(* or in a table, the free list, or nobody, where it is lost.  Each        *)
(* operation of kalloc.c and vm.c has a lemma that says how owners change, *)
(* and each action of Memory one (NextWorks collects them) that says that  *)
(* what the processes have agrees with the owners.                         *)
(***************************************************************************)
EXTENDS Memory, FiniteSetTheorems, SequenceTheorems, WellFoundedInduction, TLAPS

(***************************************************************************)
(* Loops.                                                                  *)
(***************************************************************************)

LEMMA Induct ==
  ASSUME NEW S, 0 \in S, \A n \in Nat : n \in S => n + 1 \in S
  PROVE  Nat \subseteq S
<1> DEFINE T == Nat \ S
<1> SUFFICES ASSUME T # {} PROVE FALSE
  OBVIOUS
<1>1. PICK x \in T : \A y \in T : <<y, x>> \notin OpToRel(<, Nat)
  <2> HIDE DEF T
  <2>1. T \subseteq Nat  BY DEF T
  <2> QED BY <2>1, WFMin, NatLessThanWellFounded
<1>2. x \in Nat /\ x # 0 /\ x \notin S
  OBVIOUS
<1>3. x - 1 \in Nat /\ x - 1 + 1 = x /\ x - 1 < x
  BY <1>2
<1>4. x - 1 \notin S
  BY <1>2, <1>3
<1>5. <<x - 1, x>> \in OpToRel(<, Nat)
  BY <1>2, <1>3 DEF OpToRel
<1> QED
  BY <1>1, <1>3, <1>4, <1>5

(***************************************************************************)
(* The free list: each of a set of pages, once.                            *)
(***************************************************************************)

IsList(s, F) ==
  /\ s \in Seq(F)
  /\ \A i, j \in 1..Len(s) : s[i] = s[j] => i = j
  /\ \A x \in F : \E i \in 1..Len(s) : s[i] = x

LEMMA Pop ==
  ASSUME NEW F, NEW s, IsList(s, F), s # <<>>
  PROVE  Head(s) \in F /\ IsList(Tail(s), F \ {Head(s)})
<1>1. /\ s \in Seq(F) /\ Len(s) \in Nat \ {0} /\ Head(s) = s[1] /\ s[1] \in F
      /\ Tail(s) \in Seq(F) /\ Len(Tail(s)) = Len(s) - 1
      /\ \A i \in 1..Len(Tail(s)) : Tail(s)[i] = s[i + 1]
  BY HeadTailProperties, LenProperties, ElementOfSeq DEF IsList
<1>2. \A i \in 1..Len(Tail(s)) : Tail(s)[i] \in F \ {Head(s)}
  BY <1>1, ElementOfSeq DEF IsList
<1>3. Tail(s) \in Seq(F \ {Head(s)})
  <2> DEFINE t == Tail(s)
  <2>1. t \in [1..Len(t) -> F] /\ Len(t) \in Nat
    BY <1>1, LenProperties
  <2>2. t \in [1..Len(t) -> F \ {Head(s)}]
    BY <1>2, <2>1
  <2> HIDE DEF t
  <2>3. t \in Seq(F \ {Head(s)})
    BY <2>1, <2>2
  <2> QED
    BY <2>3 DEF t
<1>4. \A i, j \in 1..Len(Tail(s)) : Tail(s)[i] = Tail(s)[j] => i = j
  BY <1>1 DEF IsList
<1>5. ASSUME NEW x \in F \ {Head(s)} PROVE \E i \in 1..Len(Tail(s)) : Tail(s)[i] = x
  <2>1. PICK i \in 1..Len(s) : s[i] = x
    BY DEF IsList
  <2>2. i # 1 /\ i - 1 \in 1..Len(Tail(s)) /\ Tail(s)[i - 1] = x
    BY <1>1, <2>1
  <2> QED BY <2>2
<1> QED
  BY <1>1, <1>3, <1>4, <1>5 DEF IsList

LEMMA Push ==
  ASSUME NEW F, NEW s, IsList(s, F), NEW p, p \notin F
  PROVE  IsList(<<p>> \o s, F \cup {p})
<1> DEFINE t == <<p>> \o s
<1>1. s \in Seq(F \cup {p}) /\ <<p>> \in Seq(F \cup {p}) /\ Len(<<p>>) = 1 /\ Len(s) \in Nat
  BY SeqMonotonic, LenProperties DEF IsList
<1>2. /\ t \in Seq(F \cup {p}) /\ Len(t) = Len(s) + 1 /\ t[1] = p
      /\ \A i \in 2..Len(t) : t[i] = s[i - 1]
  BY <1>1, ConcatProperties
<1> HIDE DEF t
<1>3. \A i \in 1..Len(s) : s[i] \in F
  BY ElementOfSeq DEF IsList
<1>4. \A i \in 1..Len(t) : i = 1 \/ (i \in 2..Len(t) /\ i - 1 \in 1..Len(s))
  BY <1>1, <1>2
<1>5. \A i, j \in 1..Len(t) : t[i] = t[j] => i = j
  <2> SUFFICES ASSUME NEW i \in 1..Len(t), NEW j \in 1..Len(t), t[i] = t[j] PROVE i = j
    OBVIOUS
  <2>1. CASE i = 1 /\ j = 1  BY <2>1
  <2>2. CASE i = 1 /\ j # 1  BY <1>2, <1>3, <1>4, <2>2
  <2>3. CASE i # 1 /\ j = 1  BY <1>2, <1>3, <1>4, <2>3
  <2>4. CASE i # 1 /\ j # 1
    <3>1. s[i - 1] = s[j - 1]  BY <1>2, <1>4, <2>4
    <3>2. i - 1 = j - 1  BY <1>4, <2>4, <3>1 DEF IsList
    <3> QED BY <3>2
  <2> QED BY <2>1, <2>2, <2>3, <2>4
<1>6. ASSUME NEW x \in F PROVE \E i \in 1..Len(t) : t[i] = x
  <2>1. PICK i \in 1..Len(s) : s[i] = x
    BY DEF IsList
  <2>2. i + 1 \in 2..Len(t) /\ i + 1 - 1 = i
    BY <1>1, <1>2
  <2>3. t[i + 1] = x /\ i + 1 \in 1..Len(t)
    BY <1>2, <2>1, <2>2
  <2> QED BY <2>3
<1>7. 1 \in 1..Len(t)
  BY <1>1, <1>2
<1> QED
  BY <1>2, <1>5, <1>6, <1>7 DEF IsList, t

(***************************************************************************)
(* Memory and the owners of its pages.  A table is owned by the cell of a  *)
(* directory, <<"table", d, k>>, a page of memory by that of a table,      *)
(* <<"page", t, j>>; D are the directories.                                *)
(***************************************************************************)

Index == 0..(PGSIZE - 1)
Kinds == {"", "P", "PU", "data", "text", "argv"}
Cell == Int \X Kinds
Contents == [Index -> Cell]
Ram == [free : Seq(Nat), mem : Seq(Contents), lost : SUBSET Nat, panic : {""}, kpgdir : Nat, stacks : SUBSET Nat]
All(M) == 1..Len(M.mem)

Owner == {"free", "lost", "table", "page", "kstack", "pgdir", "new", "kpgdir", "stack", "taken"} \X Nat \X Nat
Free == <<"free", 0, 0>>
Lost == <<"lost", 0, 0>>
Taken == <<"taken", 0, 0>>   \* in the middle of an operation
Held(o) == o[1] \notin {"free", "lost", "table", "page"}
Of(own, M, kind) == {p \in All(M) : own[p][1] = kind}
User(k, j) == k * PGSIZE + j < KERNBASE

TableCells(M, own, D) ==
  /\ \A d \in D : \A k \in Index : Present(M.mem[d][k]) =>
        M.mem[d][k][1] \in All(M) /\ own[M.mem[d][k][1]] = <<"table", d, k>>
  /\ \A t \in Of(own, M, "table") :
        /\ own[t][2] \in D /\ own[t][3] \in Index
        /\ Present(M.mem[own[t][2]][own[t][3]]) /\ M.mem[own[t][2]][own[t][3]][1] = t
PageCells(M, own) ==
  /\ \A t \in Of(own, M, "table") : \A j \in Index : (User(own[t][3], j) /\ Present(M.mem[t][j])) =>
        M.mem[t][j][1] \in All(M) /\ own[M.mem[t][j][1]] = <<"page", t, j>>
  /\ \A p \in Of(own, M, "page") :
        /\ own[p][2] \in Of(own, M, "table") /\ own[p][3] \in Index /\ User(own[own[p][2]][3], own[p][3])
        /\ Present(M.mem[own[p][2]][own[p][3]]) /\ M.mem[own[p][2]][own[p][3]][1] = p
KernelCells(M, own) ==
  \A t \in Of(own, M, "table") : \A j \in Index : ~User(own[t][3], j) => M.mem[t][j][2] # "PU"

Owned(M, own, D) ==
  /\ M \in Ram /\ own \in [All(M) -> Owner]
  /\ IsList(M.free, Of(own, M, "free"))
  /\ M.lost = Of(own, M, "lost")
  /\ D \subseteq {p \in All(M) : Held(own[p])}
  /\ TableCells(M, own, D)
  /\ PageCells(M, own)
  /\ KernelCells(M, own)

LEMMA Sizes == PGSIZE \in Nat \ {0} /\ KERNBASE \in Nat \ {0} /\ Index \subseteq Nat /\ 0 \in Index
  BY MemoryAssumption DEF Index

LEMMA Triple == \A a, b, c : <<a, b, c>>[1] = a /\ <<a, b, c>>[2] = b /\ <<a, b, c>>[3] = c
  OBVIOUS

LEMMA Both == ASSUME NEW x, NEW a, NEW b, x = <<a, b>> PROVE x[1] = a /\ x[2] = b
  OBVIOUS

LEMMA Pair == \A S, T : \A a \in S, b \in T : <<a, b>> \in S \X T
  BY SMT

LEMMA Cells == Filled(ZERO) \in Contents /\ Filled(JUNK) \in Contents /\ ZERO \in Cell /\ JUNK \in Cell
              /\ \A k \in Index : Filled(ZERO)[k] = ZERO
<1>1. ZERO \in Cell /\ JUNK \in Cell
  <2>1. 0 \in Int /\ 1 \in Int /\ "" \in Kinds /\ "P" \in Kinds
    BY DEF Kinds
  <2> QED BY <2>1, Pair, Zenon DEF ZERO, JUNK, Cell
<1>2. \A c \in Cell : Filled(c) \in Contents /\ \A k \in Index : Filled(c)[k] = c
  BY DEF Filled, Contents, Index
<1> QED
  BY <1>1, <1>2

\* The changes that are made to memory and to owners.
SetPage(M, p, c) == [M EXCEPT !.mem[p] = c]
SetCell(M, t, j, c) == [M EXCEPT !.mem[t][j] = c]
Popped(M) == [M EXCEPT !.free = Tail(@)]
Losing(M, S) == [M EXCEPT !.lost = @ \cup S]
Now(own, p, o) == [own EXCEPT ![p] = o]

LEMMA NowIs ==
  ASSUME NEW A, NEW own \in [A -> Owner], NEW p \in A, NEW o \in Owner
  PROVE  Now(own, p, o) \in [A -> Owner] /\ Now(own, p, o)[p] = o /\ \A q \in A : q # p => Now(own, p, o)[q] = own[q]
  BY DEF Now

\* What is written to one page.
LEMMA Written ==
  ASSUME NEW M \in Ram, NEW p \in All(M), NEW c \in Contents
  PROVE  LET N == SetPage(M, p, c)
         IN /\ N \in Ram /\ All(N) = All(M) /\ Len(N.mem) = Len(M.mem)
            /\ \A q \in All(M) : N.mem[q] = IF q = p THEN c ELSE M.mem[q]
            /\ N.free = M.free /\ N.lost = M.lost /\ N.panic = M.panic /\ N.kpgdir = M.kpgdir /\ N.stacks = M.stacks
<1>1. M.mem \in Seq(Contents) /\ p \in 1..Len(M.mem)
  BY DEF Ram, All
<1>2. /\ [M.mem EXCEPT ![p] = c] \in Seq(Contents) /\ Len([M.mem EXCEPT ![p] = c]) = Len(M.mem)
      /\ \A q \in 1..Len(M.mem) : [M.mem EXCEPT ![p] = c][q] = IF q = p THEN c ELSE M.mem[q]
  BY <1>1, ExceptSeq
<1> QED
  BY <1>2 DEF Ram, All, SetPage

\* What a page holds.
LEMMA MemType ==
  ASSUME NEW M \in Ram
  PROVE  /\ Len(M.mem) \in Nat /\ All(M) \subseteq Nat \ {0}
         /\ \A p \in All(M) : M.mem[p] \in Contents /\ \A k \in Index : M.mem[p][k] \in Cell
<1>1. M.mem \in Seq(Contents)
  BY DEF Ram
<1>2. Len(M.mem) \in Nat /\ \A p \in 1..Len(M.mem) : M.mem[p] \in Contents
  BY <1>1, LenProperties, ElementOfSeq
<1> QED
  BY <1>2 DEF All, Contents

\* Where directories, tables and pages of users keep owners and contents, they still point to one another.
LEMMA CellsPass ==
  ASSUME NEW M, NEW N, NEW own, NEW new, NEW D, TableCells(M, own, D), PageCells(M, own), KernelCells(M, own),
         All(M) \subseteq All(N), Of(new, N, "table") = Of(own, M, "table"), Of(new, N, "page") = Of(own, M, "page"),
         \A q \in Of(own, M, "table") \cup Of(own, M, "page") : new[q] = own[q] /\ N.mem[q] = M.mem[q],
         \A d \in D : N.mem[d] = M.mem[d]
  PROVE  TableCells(N, new, D) /\ PageCells(N, new) /\ KernelCells(N, new)
<1>1. TableCells(N, new, D)
  <2>1. ASSUME NEW d \in D, NEW k \in Index, Present(N.mem[d][k])
        PROVE  N.mem[d][k][1] \in All(N) /\ new[N.mem[d][k][1]] = <<"table", d, k>>
    <3> DEFINE x == M.mem[d][k][1]
    <3>1. N.mem[d][k] = M.mem[d][k] /\ x \in All(M) /\ own[x] = <<"table", d, k>>
      BY <2>1 DEF TableCells
    <3> HIDE DEF x
    <3>2. x \in Of(own, M, "table")
      BY <3>1, Triple DEF Of
    <3> QED BY <3>1, <3>2 DEF x
  <2>2. ASSUME NEW t \in Of(new, N, "table")
        PROVE  /\ new[t][2] \in D /\ new[t][3] \in Index
               /\ Present(N.mem[new[t][2]][new[t][3]]) /\ N.mem[new[t][2]][new[t][3]][1] = t
    <3>1. t \in Of(own, M, "table") /\ new[t] = own[t]
      OBVIOUS
    <3>2. /\ own[t][2] \in D /\ own[t][3] \in Index
          /\ Present(M.mem[own[t][2]][own[t][3]]) /\ M.mem[own[t][2]][own[t][3]][1] = t
      BY <3>1 DEF TableCells
    <3> QED BY <3>1, <3>2
  <2> QED BY <2>1, <2>2 DEF TableCells
<1>2. PageCells(N, new)
  <2>1. ASSUME NEW t \in Of(new, N, "table"), NEW j \in Index, User(new[t][3], j), Present(N.mem[t][j])
        PROVE  N.mem[t][j][1] \in All(N) /\ new[N.mem[t][j][1]] = <<"page", t, j>>
    <3> DEFINE x == M.mem[t][j][1]
    <3>1. t \in Of(own, M, "table") /\ new[t] = own[t] /\ N.mem[t] = M.mem[t]
      OBVIOUS
    <3>2. x \in All(M) /\ own[x] = <<"page", t, j>>
      BY <2>1, <3>1 DEF PageCells
    <3> HIDE DEF x
    <3>3. x \in Of(own, M, "page")
      BY <3>2, Triple DEF Of
    <3> QED BY <3>1, <3>2, <3>3 DEF x
  <2>2. ASSUME NEW p \in Of(new, N, "page")
        PROVE  /\ new[p][2] \in Of(new, N, "table") /\ new[p][3] \in Index /\ User(new[new[p][2]][3], new[p][3])
               /\ Present(N.mem[new[p][2]][new[p][3]]) /\ N.mem[new[p][2]][new[p][3]][1] = p
    <3>1. p \in Of(own, M, "page") /\ new[p] = own[p]
      OBVIOUS
    <3>2. /\ own[p][2] \in Of(own, M, "table") /\ own[p][3] \in Index /\ User(own[own[p][2]][3], own[p][3])
          /\ Present(M.mem[own[p][2]][own[p][3]]) /\ M.mem[own[p][2]][own[p][3]][1] = p
      BY <3>1 DEF PageCells
    <3>3. new[own[p][2]] = own[own[p][2]] /\ N.mem[own[p][2]] = M.mem[own[p][2]]
      BY <3>2
    <3> QED BY <3>1, <3>2, <3>3
  <2> QED BY <2>1, <2>2 DEF PageCells
<1>3. KernelCells(N, new)
  <2>1. \A t \in Of(own, M, "table") : new[t] = own[t] /\ N.mem[t] = M.mem[t]
    OBVIOUS
  <2> QED BY <2>1 DEF KernelCells
<1> QED
  BY <1>1, <1>2, <1>3

\* kalloc: a free page is somebody's.
LEMMA Take ==
  ASSUME NEW M, NEW own, NEW D, Owned(M, own, D), M.free # <<>>,
         NEW o \in Owner, Held(o)
  PROVE  LET p == Head(M.free)
             N == Popped(M)
         IN /\ p \in All(M) /\ own[p][1] = "free" /\ All(N) = All(M)
            /\ Owned(N, Now(own, p, o), D)
<1> DEFINE p == Head(M.free)
           N == Popped(M)
           new == Now(own, p, o)
<1>0. M \in Ram /\ own \in [All(M) -> Owner]
  BY DEF Owned
<1>1. p \in Of(own, M, "free") /\ IsList(Tail(M.free), Of(own, M, "free") \ {p})
  BY Pop DEF Owned
<1>2. N \in Ram /\ All(N) = All(M) /\ N.mem = M.mem /\ N.free = Tail(M.free) /\ N.lost = M.lost
  BY <1>0, <1>1, MemType, HeadTailProperties DEF Ram, All, Of, Popped
<1>3. /\ new \in [All(M) -> Owner] /\ new[p] = o /\ p \in All(M) /\ own[p][1] = "free"
      /\ \A q \in All(M) : q # p => new[q] = own[q]
  BY <1>0, <1>1 DEF Of, Now
<1> HIDE DEF new, N, p
<1>4. /\ Of(new, N, "free") = Of(own, M, "free") \ {p} /\ Of(new, N, "lost") = Of(own, M, "lost")
      /\ Of(new, N, "table") = Of(own, M, "table") /\ Of(new, N, "page") = Of(own, M, "page")
  BY <1>2, <1>3 DEF Of, Held
<1>5. \A q \in Of(own, M, "table") \cup Of(own, M, "page") : new[q] = own[q]
  BY <1>3 DEF Of
<1>6. TableCells(M, own, D) /\ PageCells(M, own) /\ KernelCells(M, own)
  BY DEF Owned
<1>7. TableCells(N, new, D) /\ PageCells(N, new) /\ KernelCells(N, new)
  BY <1>2, <1>4, <1>5, <1>6, CellsPass
<1>8. D \subseteq {q \in All(N) : Held(new[q])}
  BY <1>2, <1>3 DEF Owned
<1>9. Owned(N, new, D)
  BY <1>1, <1>2, <1>3, <1>4, <1>7, <1>8 DEF Owned
<1> QED
  BY <1>2, <1>3, <1>9 DEF new, N, p

\* What is written to a page that is neither a directory nor a table.
LEMMA Fill ==
  ASSUME NEW M, NEW own, NEW D, Owned(M, own, D),
         NEW p \in All(M), p \notin D, own[p][1] # "table", NEW c \in Contents
  PROVE  LET N == SetPage(M, p, c)
         IN Owned(N, own, D) /\ All(N) = All(M)
<1> DEFINE N == SetPage(M, p, c)
<1>0. M \in Ram /\ own \in [All(M) -> Owner]
  BY DEF Owned
<1>1. /\ N \in Ram /\ All(N) = All(M) /\ N.free = M.free /\ N.lost = M.lost
      /\ \A q \in All(M) : q # p => N.mem[q] = M.mem[q]
  BY <1>0, Written
<1> HIDE DEF N
<1>2. \A kind : Of(own, N, kind) = Of(own, M, kind)
  BY <1>1 DEF Of
<1>3. TableCells(N, own, D)
  BY <1>1, <1>2 DEF Owned, TableCells, Of
<1>4. PageCells(N, own) /\ KernelCells(N, own)
  BY <1>1, <1>2 DEF Owned, PageCells, KernelCells, Of
<1> QED
  BY <1>0, <1>1, <1>2, <1>3, <1>4 DEF Owned, N

\* A page changes hands.
LEMMA Rename ==
  ASSUME NEW M, NEW own, NEW D, Owned(M, own, D),
         NEW p \in All(M), Held(own[p]), NEW o \in Owner, Held(o)
  PROVE  Owned(M, Now(own, p, o), D)
<1> DEFINE new == Now(own, p, o)
<1>1. /\ M \in Ram /\ new \in [All(M) -> Owner] /\ new[p] = o
      /\ \A q \in All(M) : q # p => new[q] = own[q]
  BY DEF Owned, Now
<1> HIDE DEF new
<1>2. \A kind \in {"free", "lost", "table", "page"} : Of(new, M, kind) = Of(own, M, kind)
  BY <1>1 DEF Of, Held
<1>3. TableCells(M, new, D)
  BY <1>1, <1>2 DEF Owned, TableCells, Of, Held
<1>4. PageCells(M, new) /\ KernelCells(M, new)
  BY <1>1, <1>2 DEF Owned, PageCells, KernelCells, Of, Held
<1> QED
  BY <1>1, <1>2, <1>3, <1>4 DEF Owned, new

\* kfree, of a page nobody refers to.
LEMMA Release ==
  ASSUME NEW M, NEW own, NEW D, Owned(M, own, D),
         NEW p \in All(M), p \notin D, Held(own[p])
  PROVE  Owned(kfree(M, p), Now(own, p, Free), D) /\ All(kfree(M, p)) = All(M)
<1> DEFINE L == SetPage(M, p, Filled(JUNK))
           N == kfree(M, p)
           new == Now(own, p, Free)
<1>1. Owned(L, own, D) /\ All(L) = All(M) /\ L.free = M.free /\ M \in Ram /\ own \in [All(M) -> Owner]
  BY Fill, Cells, Written DEF Held, Owned
<1>2. N = [L EXCEPT !.free = <<p>> \o @]
  BY <1>1 DEF kfree, Owned, Ram, SetPage
<1>3. /\ new \in [All(M) -> Owner] /\ new[p] = Free /\ Free[1] = "free"
      /\ \A q \in All(M) : q # p => new[q] = own[q]
  BY <1>1 DEF Free, Owner, Now
<1>4. L \in Ram /\ L.free \in Seq(Nat) /\ <<p>> \in Seq(Nat)
  <2>1. p \in Nat
    BY <1>1, MemType
  <2>2. L \in Ram
    BY <1>1 DEF Owned
  <2>3. <<p>> \in Seq(Nat)
    BY <2>1
  <2> HIDE DEF L
  <2> QED
    BY <2>2, <2>3 DEF Ram
<1>5. N \in Ram /\ All(N) = All(M) /\ N.mem = L.mem /\ N.lost = L.lost /\ N.free = <<p>> \o L.free
  <2>1. <<p>> \o L.free \in Seq(Nat)
    BY <1>4, ConcatProperties
  <2>2. N = [L EXCEPT !.free = <<p>> \o L.free]
    BY <1>2
  <2> HIDE DEF L, N
  <2>3. N \in Ram /\ N.mem = L.mem /\ N.lost = L.lost /\ N.free = <<p>> \o L.free
    BY <1>4, <2>1, <2>2 DEF Ram
  <2> QED
    BY <1>1, <2>3 DEF All
<1> HIDE DEF new, N, L
<1>6. /\ Of(new, N, "free") = Of(own, L, "free") \cup {p} /\ Of(new, N, "lost") = Of(own, L, "lost")
      /\ Of(new, N, "table") = Of(own, L, "table") /\ Of(new, N, "page") = Of(own, L, "page")
      /\ p \notin Of(own, L, "free")
  BY <1>1, <1>3, <1>5 DEF Of, Held
<1>7. IsList(N.free, Of(new, N, "free"))
  BY <1>1, <1>5, <1>6, Push DEF Owned
<1>8. /\ \A q \in Of(own, L, "table") \cup Of(own, L, "page") : new[q] = own[q] /\ N.mem[q] = L.mem[q]
      /\ \A d \in D : N.mem[d] = L.mem[d]
  BY <1>1, <1>3, <1>5 DEF Of, Held
<1>9. TableCells(N, new, D) /\ PageCells(N, new) /\ KernelCells(N, new)
  <2>1. TableCells(L, own, D) /\ PageCells(L, own) /\ KernelCells(L, own)
    BY <1>1 DEF Owned
  <2>2. All(L) \subseteq All(N)
    BY <1>1, <1>5
  <2> QED BY <1>6, <1>8, <2>1, <2>2, CellsPass
<1>10. Owned(N, new, D)
  BY <1>1, <1>3, <1>5, <1>6, <1>7, <1>9 DEF Owned
<1> QED
  BY <1>5, <1>10 DEF N, new

\* What is written to one cell.
Wrote(M, t, j, c, N) ==
  /\ N \in Ram /\ All(N) = All(M) /\ Len(N.mem) = Len(M.mem)
  /\ \A q \in All(M) : q # t => N.mem[q] = M.mem[q]
  /\ N.mem[t][j] = c
  /\ \A i \in Index : i # j => N.mem[t][i] = M.mem[t][i]
  /\ N.free = M.free /\ N.lost = M.lost /\ N.panic = M.panic /\ N.kpgdir = M.kpgdir /\ N.stacks = M.stacks
LEMMA CellWritten ==
  ASSUME NEW M \in Ram, NEW t \in All(M), NEW j \in Index, NEW c \in Cell
  PROVE  Wrote(M, t, j, c, SetCell(M, t, j, c))
<1> DEFINE x == [M.mem[t] EXCEPT ![j] = c]
           N == SetPage(M, t, x)
<1>1. M.mem[t] \in [Index -> Cell]
  BY MemType DEF Contents
<1>2. x \in Contents /\ x[j] = c /\ \A i \in Index : i # j => x[i] = M.mem[t][i]
  BY <1>1 DEF Contents
<1>3. N = SetCell(M, t, j, c)
  BY DEF SetCell, SetPage
<1> HIDE DEF x
<1>4. /\ N \in Ram /\ All(N) = All(M) /\ Len(N.mem) = Len(M.mem)
      /\ \A q \in All(M) : N.mem[q] = IF q = t THEN x ELSE M.mem[q]
      /\ N.free = M.free /\ N.lost = M.lost /\ N.panic = M.panic /\ N.kpgdir = M.kpgdir /\ N.stacks = M.stacks
  BY <1>2, Written
<1> HIDE DEF N
<1> QED
  BY <1>2, <1>3, <1>4 DEF Wrote

\* An entry of a table is written that says the same of users' pages as before.
LEMMA Relabel ==
  ASSUME NEW M, NEW own, NEW D, Owned(M, own, D),
         NEW t \in Of(own, M, "table"), NEW j \in Index, NEW c \in Cell,
         User(own[t][3], j) => /\ Present(c) <=> Present(M.mem[t][j])
                               /\ Present(c) => c[1] = M.mem[t][j][1],
         ~User(own[t][3], j) => c[2] # "PU"
  PROVE  LET N == SetCell(M, t, j, c)
         IN Owned(N, own, D) /\ All(N) = All(M) /\ N.kpgdir = M.kpgdir /\ N.stacks = M.stacks
<1> DEFINE N == SetCell(M, t, j, c)
<1>0. M \in Ram /\ own \in [All(M) -> Owner] /\ t \in All(M) /\ own[t][1] = "table" /\ t \notin D
  BY DEF Owned, Of, Held
<1>1. /\ N \in Ram /\ All(N) = All(M) /\ N.free = M.free /\ N.lost = M.lost /\ N.kpgdir = M.kpgdir /\ N.stacks = M.stacks
      /\ \A q \in All(M) : q # t => N.mem[q] = M.mem[q]
      /\ N.mem[t][j] = c
      /\ \A i \in Index : i # j => N.mem[t][i] = M.mem[t][i]
  <2>1. Wrote(M, t, j, c, N)
    BY <1>0, CellWritten
  <2> HIDE DEF N
  <2> QED BY <2>1 DEF Wrote
<1> HIDE DEF N
<1>2. \A kind : Of(own, N, kind) = Of(own, M, kind)
  BY <1>1 DEF Of
<1>3. TableCells(N, own, D)
  BY <1>0, <1>1, <1>2 DEF Owned, TableCells, Of
<1>4. PageCells(N, own)
  <2>1. ASSUME NEW s \in Of(own, N, "table"), NEW i \in Index, User(own[s][3], i), Present(N.mem[s][i])
        PROVE  N.mem[s][i][1] \in All(N) /\ own[N.mem[s][i][1]] = <<"page", s, i>>
    <3>1. CASE s = t /\ i = j
      BY <1>0, <1>1, <1>2, <2>1, <3>1 DEF Owned, PageCells
    <3>2. CASE ~(s = t /\ i = j)
      <4>1. N.mem[s][i] = M.mem[s][i] /\ s \in Of(own, M, "table")
        BY <1>1, <1>2, <2>1, <3>2 DEF Of
      <4> QED BY <1>1, <2>1, <4>1 DEF Owned, PageCells
    <3> QED BY <3>1, <3>2
  <2>2. ASSUME NEW p \in Of(own, N, "page")
        PROVE  /\ own[p][2] \in Of(own, N, "table") /\ own[p][3] \in Index /\ User(own[own[p][2]][3], own[p][3])
               /\ Present(N.mem[own[p][2]][own[p][3]]) /\ N.mem[own[p][2]][own[p][3]][1] = p
    <3> DEFINE s == own[p][2]
               i == own[p][3]
    <3>1. /\ s \in Of(own, M, "table") /\ i \in Index /\ User(own[s][3], i)
          /\ Present(M.mem[s][i]) /\ M.mem[s][i][1] = p
      BY <1>2, <2>2 DEF Owned, PageCells
    <3> HIDE DEF s, i
    <3>2. Present(N.mem[s][i]) /\ N.mem[s][i][1] = p
      <4>1. CASE s = t /\ i = j
        BY <1>1, <3>1, <4>1
      <4>2. CASE ~(s = t /\ i = j)
        BY <1>1, <3>1, <4>2 DEF Of
      <4> QED BY <4>1, <4>2
    <3> QED BY <1>2, <3>1, <3>2 DEF s, i
  <2> QED BY <2>1, <2>2 DEF PageCells
<1>5. KernelCells(N, own)
  BY <1>0, <1>1, <1>2 DEF Owned, KernelCells, Of
<1>6. Owned(N, own, D)
  BY <1>0, <1>1, <1>2, <1>3, <1>4, <1>5 DEF Owned
<1> QED
  BY <1>1, <1>6 DEF N

\* A page is mapped for users where nothing is mapped.
LEMMA EnterPage ==
  ASSUME NEW M, NEW own, NEW D, Owned(M, own, D),
         NEW t \in Of(own, M, "table"), NEW j \in Index, User(own[t][3], j), ~Present(M.mem[t][j]),
         NEW p \in All(M), Held(own[p]), p \notin D,
         NEW c, c = <<p, "PU">>, NEW o, o = <<"page", t, j>>
  PROVE  LET N == SetCell(M, t, j, c)
         IN Owned(N, Now(own, p, o), D) /\ All(N) = All(M) /\ N.kpgdir = M.kpgdir /\ N.stacks = M.stacks
<1> DEFINE N == SetCell(M, t, j, c)
           new == Now(own, p, o)
<1>0. M \in Ram /\ own \in [All(M) -> Owner] /\ t \in All(M) /\ own[t][1] = "table" /\ t \notin D /\ t \in Nat /\ p \in Int /\ j \in Nat
  BY MemType, Sizes DEF Owned, Of, Held
<1>1. c \in Cell /\ c[1] = p /\ Present(c)
  <2>1. "PU" \in Kinds
    BY DEF Kinds
  <2> QED BY <1>0, <2>1, Pair DEF Cell, Present
<1>2. /\ N \in Ram /\ All(N) = All(M) /\ N.free = M.free /\ N.lost = M.lost /\ N.kpgdir = M.kpgdir /\ N.stacks = M.stacks
      /\ \A q \in All(M) : q # t => N.mem[q] = M.mem[q]
      /\ N.mem[t][j] = c
      /\ \A i \in Index : i # j => N.mem[t][i] = M.mem[t][i]
  <2>1. Wrote(M, t, j, c, N)
    BY <1>0, <1>1, CellWritten
  <2> HIDE DEF N
  <2> QED BY <2>1 DEF Wrote
<1>3. /\ new \in [All(M) -> Owner] /\ new[p] = <<"page", t, j>>
      /\ \A q \in All(M) : q # p => new[q] = own[q]
  BY <1>0 DEF Owner, Now
<1> HIDE DEF N, new
<1>4. /\ Of(new, N, "free") = Of(own, M, "free") /\ Of(new, N, "lost") = Of(own, M, "lost")
      /\ Of(new, N, "table") = Of(own, M, "table") /\ Of(new, N, "page") = Of(own, M, "page") \cup {p}
      /\ p # t
  <2>1. new[p][1] = "page"
    BY <1>3, Triple
  <2>2. /\ \A q \in All(M) : q # p => new[q][1] = own[q][1]
        /\ own[p][1] # "free" /\ own[p][1] # "lost" /\ own[p][1] # "table" /\ own[p][1] # "page"
    BY <1>3 DEF Held
  <2>3. Of(new, N, "free") = Of(own, M, "free")
    BY <1>2, <2>1, <2>2 DEF Of
  <2>4. Of(new, N, "lost") = Of(own, M, "lost")
    BY <1>2, <2>1, <2>2 DEF Of
  <2>5. Of(new, N, "table") = Of(own, M, "table")
    BY <1>2, <2>1, <2>2 DEF Of
  <2>6. Of(new, N, "page") = Of(own, M, "page") \cup {p}
    BY <1>2, <2>1, <2>2 DEF Of
  <2>7. p # t
    BY <1>0, <2>2
  <2> QED BY <2>3, <2>4, <2>5, <2>6, <2>7
<1>5. TableCells(N, new, D)
  <2>1. \A d \in D : d \in All(M) /\ N.mem[d] = M.mem[d] /\ d # p /\ d # t
    BY <1>0, <1>2 DEF Owned
  <2>2. \A q \in Of(own, M, "table") : q \in All(M) /\ q # p /\ new[q] = own[q]
    BY <1>3 DEF Of, Held
  <2>3. \A q \in All(M) : own[q][1] = "table" => q \in Of(own, M, "table")
    BY DEF Of
  <2>4. TableCells(M, own, D)
    BY DEF Owned
  <2>5. ASSUME NEW d \in D, NEW k \in Index, Present(N.mem[d][k])
        PROVE  N.mem[d][k][1] \in All(N) /\ new[N.mem[d][k][1]] = <<"table", d, k>>
    <3> DEFINE x == M.mem[d][k][1]
    <3>1. N.mem[d][k] = M.mem[d][k] /\ x \in All(M) /\ own[x] = <<"table", d, k>>
      BY <2>1, <2>4, <2>5 DEF TableCells
    <3> HIDE DEF x
    <3>2. x \in Of(own, M, "table")
      BY <2>3, <3>1, Triple
    <3> QED BY <1>2, <2>2, <3>1, <3>2 DEF x
  <2>6. \A q \in Of(new, N, "table") : /\ new[q][2] \in D /\ new[q][3] \in Index
           /\ Present(N.mem[new[q][2]][new[q][3]]) /\ N.mem[new[q][2]][new[q][3]][1] = q
    <3>1. \A q \in Of(own, M, "table") : /\ own[q][2] \in D /\ own[q][3] \in Index
             /\ Present(M.mem[own[q][2]][own[q][3]]) /\ M.mem[own[q][2]][own[q][3]][1] = q
      BY <2>4 DEF TableCells
    <3> QED BY <1>4, <2>1, <2>2, <3>1
  <2> QED BY <2>5, <2>6 DEF TableCells
<1>6. PageCells(N, new)
  <2>1. ASSUME NEW s \in Of(new, N, "table"), NEW i \in Index, User(new[s][3], i), Present(N.mem[s][i])
        PROVE  N.mem[s][i][1] \in All(N) /\ new[N.mem[s][i][1]] = <<"page", s, i>>
    <3>1. CASE s = t /\ i = j
      BY <1>1, <1>2, <1>3, <3>1
    <3>2. CASE ~(s = t /\ i = j)
      <4>1. N.mem[s][i] = M.mem[s][i] /\ s \in Of(own, M, "table") /\ s # p /\ s \in All(M) /\ new[s] = own[s]
        BY <1>2, <1>3, <1>4, <2>1, <3>2 DEF Of, Held
      <4>2. M.mem[s][i][1] \in All(M) /\ own[M.mem[s][i][1]] = <<"page", s, i>>
        BY <2>1, <4>1 DEF Owned, PageCells
      <4>3. M.mem[s][i][1] # p
        BY <4>2 DEF Held
      <4> QED BY <1>2, <1>3, <4>1, <4>2, <4>3
    <3> QED BY <3>1, <3>2
  <2>2. ASSUME NEW q \in Of(new, N, "page")
        PROVE  /\ new[q][2] \in Of(new, N, "table") /\ new[q][3] \in Index /\ User(new[new[q][2]][3], new[q][3])
               /\ Present(N.mem[new[q][2]][new[q][3]]) /\ N.mem[new[q][2]][new[q][3]][1] = q
    <3>1. CASE q = p
      <4>1. new[q][2] = t /\ new[q][3] = j /\ new[t] = own[t] /\ t \in Of(new, N, "table")
        BY <1>0, <1>3, <1>4, <3>1
      <4> QED BY <1>1, <1>2, <3>1, <4>1
    <3>2. CASE q # p
      <4> DEFINE s == new[q][2]
                 i == new[q][3]
      <4>1. q \in Of(own, M, "page") /\ new[q] = own[q]
        BY <1>2, <1>3, <1>4, <2>2, <3>2 DEF Of
      <4>2. /\ s \in Of(own, M, "table") /\ i \in Index /\ User(own[s][3], i)
            /\ Present(M.mem[s][i]) /\ M.mem[s][i][1] = q
        BY <4>1 DEF Owned, PageCells
      <4> HIDE DEF s, i
      <4>3. ~(s = t /\ i = j) /\ s # p /\ s \in All(M)
        BY <4>2 DEF Of, Held
      <4>4. N.mem[s][i] = M.mem[s][i] /\ new[s] = own[s]
        BY <1>2, <1>3, <4>2, <4>3
      <4>5. /\ s \in Of(new, N, "table") /\ i \in Index /\ User(new[s][3], i)
            /\ Present(N.mem[s][i]) /\ N.mem[s][i][1] = q
        BY <1>4, <4>2, <4>4
      <4> QED BY <4>5 DEF s, i
    <3> QED BY <3>1, <3>2
  <2> QED BY <2>1, <2>2 DEF PageCells
<1>7. KernelCells(N, new)
  BY <1>0, <1>2, <1>3, <1>4 DEF Owned, KernelCells, Of
<1>8. D \subseteq {q \in All(N) : Held(new[q])}
  BY <1>2, <1>3 DEF Owned
<1>9. Owned(N, new, D)
  BY <1>2, <1>3, <1>4, <1>5, <1>6, <1>7, <1>8 DEF Owned
<1> QED
  BY <1>2, <1>9 DEF N, new

\* A page that is mapped for users is no longer mapped.
LEMMA LeavePage ==
  ASSUME NEW M, NEW own, NEW D, Owned(M, own, D),
         NEW p \in Of(own, M, "page"), NEW t, NEW j, own[p] = <<"page", t, j>>
  PROVE  LET N == SetCell(M, t, j, ZERO)
         IN Owned(N, Now(own, p, Taken), D) /\ All(N) = All(M) /\ N.kpgdir = M.kpgdir /\ N.stacks = M.stacks
<1> DEFINE N == SetCell(M, t, j, ZERO)
           new == Now(own, p, Taken)
<1>0. /\ M \in Ram /\ own \in [All(M) -> Owner] /\ p \in All(M) /\ p \notin D
      /\ t \in Of(own, M, "table") /\ t \in All(M) /\ own[t][1] = "table" /\ t \notin D /\ j \in Index /\ User(own[t][3], j)
      /\ own[p][1] = "page" /\ t # p /\ M.mem[t][j][1] = p /\ Present(M.mem[t][j])
  BY Triple DEF Owned, PageCells, Of, Held
<1>1. /\ N \in Ram /\ All(N) = All(M) /\ N.free = M.free /\ N.lost = M.lost /\ N.kpgdir = M.kpgdir /\ N.stacks = M.stacks
      /\ \A q \in All(M) : q # t => N.mem[q] = M.mem[q]
      /\ N.mem[t][j] = ZERO /\ ~Present(ZERO)
      /\ \A i \in Index : i # j => N.mem[t][i] = M.mem[t][i]
  <2>1. ~Present(ZERO)
    BY DEF Present, ZERO
  <2>2. Wrote(M, t, j, ZERO, N)
    BY <1>0, Cells, CellWritten
  <2> HIDE DEF N
  <2> QED BY <2>1, <2>2 DEF Wrote
<1>2. /\ new \in [All(M) -> Owner] /\ new[p] = Taken /\ Taken[1] = "taken"
      /\ \A q \in All(M) : q # p => new[q] = own[q]
  BY <1>0 DEF Owner, Taken, Now
<1> HIDE DEF N, new
<1>3. /\ Of(new, N, "free") = Of(own, M, "free") /\ Of(new, N, "lost") = Of(own, M, "lost")
      /\ Of(new, N, "table") = Of(own, M, "table") /\ Of(new, N, "page") = Of(own, M, "page") \ {p}
  <2>1. /\ \A q \in All(M) : q # p => new[q][1] = own[q][1]
        /\ new[p][1] = "taken" /\ own[p][1] = "page"
    BY <1>0, <1>2
  <2>2. Of(new, N, "free") = Of(own, M, "free")
    BY <1>1, <2>1 DEF Of
  <2>3. Of(new, N, "lost") = Of(own, M, "lost")
    BY <1>1, <2>1 DEF Of
  <2>4. Of(new, N, "table") = Of(own, M, "table")
    BY <1>1, <2>1 DEF Of
  <2>5. Of(new, N, "page") = Of(own, M, "page") \ {p}
    BY <1>1, <2>1 DEF Of
  <2> QED BY <2>2, <2>3, <2>4, <2>5
<1>4. TableCells(N, new, D)
  <2>1. \A d \in D : d \in All(M) /\ N.mem[d] = M.mem[d] /\ d # p /\ d # t
    BY <1>0, <1>1 DEF Owned
  <2>2. \A q \in Of(own, M, "table") : q \in All(M) /\ q # p /\ new[q] = own[q]
    BY <1>0, <1>2 DEF Of
  <2>3. \A q \in All(M) : own[q][1] = "table" => q \in Of(own, M, "table")
    BY DEF Of
  <2>5. TableCells(M, own, D)
    BY DEF Owned
  <2>6. ASSUME NEW d \in D, NEW k \in Index, Present(N.mem[d][k])
        PROVE  N.mem[d][k][1] \in All(N) /\ new[N.mem[d][k][1]] = <<"table", d, k>>
    <3> DEFINE x == M.mem[d][k][1]
    <3>1. N.mem[d][k] = M.mem[d][k] /\ x \in All(M) /\ own[x] = <<"table", d, k>>
      BY <2>1, <2>5, <2>6 DEF TableCells
    <3> HIDE DEF x
    <3>2. x \in Of(own, M, "table")
      BY <2>3, <3>1, Triple
    <3> QED BY <1>1, <2>2, <3>1, <3>2 DEF x
  <2>7. \A q \in Of(new, N, "table") : /\ new[q][2] \in D /\ new[q][3] \in Index
           /\ Present(N.mem[new[q][2]][new[q][3]]) /\ N.mem[new[q][2]][new[q][3]][1] = q
    <3>1. \A q \in Of(own, M, "table") : /\ own[q][2] \in D /\ own[q][3] \in Index
             /\ Present(M.mem[own[q][2]][own[q][3]]) /\ M.mem[own[q][2]][own[q][3]][1] = q
      BY <2>5 DEF TableCells
    <3> QED BY <1>3, <2>1, <2>2, <3>1
  <2> QED BY <2>6, <2>7 DEF TableCells
<1>5. PageCells(N, new)
  <2>1. ASSUME NEW s \in Of(new, N, "table"), NEW i \in Index, User(new[s][3], i), Present(N.mem[s][i])
        PROVE  N.mem[s][i][1] \in All(N) /\ new[N.mem[s][i][1]] = <<"page", s, i>>
    <3>1. N.mem[s][i] = M.mem[s][i] /\ s \in Of(own, M, "table") /\ s # p /\ s \in All(M) /\ new[s] = own[s] /\ ~(s = t /\ i = j)
      BY <1>0, <1>1, <1>2, <1>3, <2>1 DEF Of
    <3>2. M.mem[s][i][1] \in All(M) /\ own[M.mem[s][i][1]] = <<"page", s, i>>
      BY <2>1, <3>1 DEF Owned, PageCells
    <3>3. M.mem[s][i][1] # p
      BY <3>1, <3>2, Triple
    <3> QED BY <1>1, <1>2, <3>1, <3>2, <3>3
  <2>2. ASSUME NEW q \in Of(new, N, "page")
        PROVE  /\ new[q][2] \in Of(new, N, "table") /\ new[q][3] \in Index /\ User(new[new[q][2]][3], new[q][3])
               /\ Present(N.mem[new[q][2]][new[q][3]]) /\ N.mem[new[q][2]][new[q][3]][1] = q
    <3> DEFINE s == new[q][2]
               i == new[q][3]
    <3>1. q \in Of(own, M, "page") /\ q # p /\ new[q] = own[q]
      BY <1>1, <1>2, <1>3, <2>2 DEF Of
    <3>2. /\ s \in Of(own, M, "table") /\ i \in Index /\ User(own[s][3], i)
          /\ Present(M.mem[s][i]) /\ M.mem[s][i][1] = q
      BY <3>1 DEF Owned, PageCells
    <3> HIDE DEF s, i
    <3>3. ~(s = t /\ i = j) /\ s # p /\ s \in All(M)
      BY <1>0, <3>1, <3>2 DEF Of
    <3>4. N.mem[s][i] = M.mem[s][i] /\ new[s] = own[s]
      BY <1>1, <1>2, <3>2, <3>3
    <3>5. /\ s \in Of(new, N, "table") /\ i \in Index /\ User(new[s][3], i)
          /\ Present(N.mem[s][i]) /\ N.mem[s][i][1] = q
      BY <1>3, <3>2, <3>4
    <3> QED BY <3>5 DEF s, i
  <2> QED BY <2>1, <2>2 DEF PageCells
<1>6. KernelCells(N, new)
  BY <1>0, <1>1, <1>2, <1>3 DEF Owned, KernelCells, Of
<1>7. D \subseteq {q \in All(N) : Held(new[q])}
  BY <1>0, <1>1, <1>2 DEF Owned
<1>8. Owned(N, new, D)
  BY <1>1, <1>2, <1>3, <1>4, <1>5, <1>6, <1>7 DEF Owned
<1> QED
  BY <1>1, <1>8 DEF N, new

\* A cleared page becomes a table.
LEMMA EnterTable ==
  ASSUME NEW M, NEW own, NEW D, Owned(M, own, D),
         NEW d \in D, NEW k \in Index, ~Present(M.mem[d][k]),
         NEW t \in All(M), Held(own[t]), t \notin D, M.mem[t] = Filled(ZERO),
         NEW c, c = <<t, "P">>, NEW o, o = <<"table", d, k>>
  PROVE  LET N == SetCell(M, d, k, c)
         IN Owned(N, Now(own, t, o), D) /\ All(N) = All(M) /\ N.kpgdir = M.kpgdir /\ N.stacks = M.stacks
<1> DEFINE N == SetCell(M, d, k, c)
           new == Now(own, t, o)
<1>0. M \in Ram /\ own \in [All(M) -> Owner] /\ d \in All(M) /\ Held(own[d]) /\ d # t /\ d \in Nat /\ t \in Int /\ k \in Nat
  BY MemType, Sizes DEF Owned
<1>1. c \in Cell /\ c[1] = t /\ Present(c)
  <2>1. "P" \in Kinds
    BY DEF Kinds
  <2> QED BY <1>0, <2>1, Pair DEF Cell, Present
<1>2. /\ N \in Ram /\ All(N) = All(M) /\ N.free = M.free /\ N.lost = M.lost /\ N.kpgdir = M.kpgdir /\ N.stacks = M.stacks
      /\ \A q \in All(M) : q # d => N.mem[q] = M.mem[q]
      /\ N.mem[d][k] = c
      /\ \A i \in Index : i # k => N.mem[d][i] = M.mem[d][i]
  <2>1. Wrote(M, d, k, c, N)
    BY <1>0, <1>1, CellWritten
  <2> HIDE DEF N
  <2> QED BY <2>1 DEF Wrote
<1>3. /\ new \in [All(M) -> Owner] /\ new[t] = <<"table", d, k>>
      /\ \A q \in All(M) : q # t => new[q] = own[q]
  BY <1>0 DEF Owner, Now
<1>z. \A j \in Index : N.mem[t][j] = ZERO /\ ~Present(ZERO) /\ ZERO[2] # "PU"
  BY <1>0, <1>2, Cells DEF Present, ZERO
<1> HIDE DEF N, new
<1>4. /\ Of(new, N, "free") = Of(own, M, "free") /\ Of(new, N, "lost") = Of(own, M, "lost")
      /\ Of(new, N, "table") = Of(own, M, "table") \cup {t} /\ Of(new, N, "page") = Of(own, M, "page")
  <2>1. new[t][1] = "table"
    BY <1>3, Triple
  <2>2. /\ \A q \in All(M) : q # t => new[q][1] = own[q][1]
        /\ own[t][1] # "free" /\ own[t][1] # "lost" /\ own[t][1] # "table" /\ own[t][1] # "page"
    BY <1>3 DEF Held
  <2>3. Of(new, N, "free") = Of(own, M, "free")
    BY <1>2, <2>1, <2>2 DEF Of
  <2>4. Of(new, N, "lost") = Of(own, M, "lost")
    BY <1>2, <2>1, <2>2 DEF Of
  <2>5. Of(new, N, "table") = Of(own, M, "table") \cup {t}
    BY <1>2, <2>1, <2>2 DEF Of
  <2>6. Of(new, N, "page") = Of(own, M, "page")
    BY <1>2, <2>1, <2>2 DEF Of
  <2> QED BY <2>3, <2>4, <2>5, <2>6
<1>5. TableCells(N, new, D)
  <2>1. ASSUME NEW e \in D, NEW i \in Index, Present(N.mem[e][i])
        PROVE  N.mem[e][i][1] \in All(N) /\ new[N.mem[e][i][1]] = <<"table", e, i>>
    <3>1. CASE e = d /\ i = k
      BY <1>1, <1>2, <1>3, <3>1
    <3>2. CASE ~(e = d /\ i = k)
      <4>1. N.mem[e][i] = M.mem[e][i] /\ e \in All(M)
        BY <1>2, <2>1, <3>2 DEF Owned
      <4>2. M.mem[e][i][1] \in All(M) /\ own[M.mem[e][i][1]] = <<"table", e, i>>
        BY <2>1, <4>1 DEF Owned, TableCells
      <4>3. M.mem[e][i][1] # t
        BY <4>2, Triple DEF Held
      <4> QED BY <1>2, <1>3, <4>1, <4>2, <4>3
    <3> QED BY <3>1, <3>2
  <2>2. ASSUME NEW q \in Of(new, N, "table")
        PROVE  /\ new[q][2] \in D /\ new[q][3] \in Index
               /\ Present(N.mem[new[q][2]][new[q][3]]) /\ N.mem[new[q][2]][new[q][3]][1] = q
    <3>1. CASE q = t
      <4>1. new[q][2] = d /\ new[q][3] = k
        BY <1>3, <3>1, Triple
      <4> QED BY <1>1, <1>2, <3>1, <4>1
    <3>2. CASE q # t
      <4> DEFINE e == new[q][2]
                 i == new[q][3]
      <4>1. q \in Of(own, M, "table") /\ new[q] = own[q]
        BY <1>2, <1>3, <1>4, <2>2, <3>2 DEF Of
      <4>2. e \in D /\ i \in Index /\ Present(M.mem[e][i]) /\ M.mem[e][i][1] = q
        BY <4>1 DEF Owned, TableCells
      <4> HIDE DEF e, i
      <4>3. ~(e = d /\ i = k) /\ e \in All(M)
        BY <4>2 DEF Owned
      <4>4. N.mem[e][i] = M.mem[e][i]
        BY <1>2, <4>2, <4>3
      <4>5. e \in D /\ i \in Index /\ Present(N.mem[e][i]) /\ N.mem[e][i][1] = q
        BY <4>2, <4>4
      <4> QED BY <4>5 DEF e, i
    <3> QED BY <3>1, <3>2
  <2> QED BY <2>1, <2>2 DEF TableCells
<1>6. PageCells(N, new)
  <2>1. \A s \in Of(own, M, "table") : s \in All(M) /\ s # t /\ s # d /\ new[s] = own[s] /\ N.mem[s] = M.mem[s]
    BY <1>0, <1>2, <1>3 DEF Of, Held
  <2>2. \A q \in Of(own, M, "page") : q \in All(M) /\ q # t /\ new[q] = own[q]
    BY <1>3 DEF Of, Held
  <2>3. \A s \in Of(own, M, "table") : \A j \in Index : (User(own[s][3], j) /\ Present(M.mem[s][j])) =>
           M.mem[s][j][1] \in Of(own, M, "page") /\ own[M.mem[s][j][1]] = <<"page", s, j>>
    BY Triple DEF Owned, PageCells, Of
  <2>4. \A s \in Of(new, N, "table") : s = t \/ s \in Of(own, M, "table")
    BY <1>4
  <2>5. \A s \in Of(new, N, "table") : \A j \in Index : (User(new[s][3], j) /\ Present(N.mem[s][j])) =>
           N.mem[s][j][1] \in All(N) /\ new[N.mem[s][j][1]] = <<"page", s, j>>
    <3> SUFFICES ASSUME NEW s \in Of(new, N, "table"), NEW j \in Index, User(new[s][3], j), Present(N.mem[s][j])
                 PROVE  N.mem[s][j][1] \in All(N) /\ new[N.mem[s][j][1]] = <<"page", s, j>>
      OBVIOUS
    <3>1. s \in Of(own, M, "table")
      BY <1>z, <2>4
    <3>2. new[s] = own[s] /\ N.mem[s] = M.mem[s]
      BY <2>1, <3>1
    <3>3. M.mem[s][j][1] \in Of(own, M, "page") /\ own[M.mem[s][j][1]] = <<"page", s, j>>
      BY <2>3, <3>1, <3>2
    <3> QED BY <1>2, <2>2, <3>2, <3>3
  <2>6. \A q \in Of(new, N, "page") :
        /\ new[q][2] \in Of(new, N, "table") /\ new[q][3] \in Index /\ User(new[new[q][2]][3], new[q][3])
        /\ Present(N.mem[new[q][2]][new[q][3]]) /\ N.mem[new[q][2]][new[q][3]][1] = q
    BY <1>4, <2>1, <2>2 DEF Owned, PageCells
  <2> QED BY <2>5, <2>6 DEF PageCells
<1>7. KernelCells(N, new)
  <2>1. \A s \in Of(own, M, "table") : s \in All(M) /\ s # t /\ s # d /\ new[s] = own[s] /\ N.mem[s] = M.mem[s]
    BY <1>0, <1>2, <1>3 DEF Of, Held
  <2> QED BY <1>z, <1>4, <2>1 DEF Owned, KernelCells
<1>8. D \subseteq {q \in All(N) : Held(new[q])}
  BY <1>2, <1>3 DEF Owned
<1>9. Owned(N, new, D)
  BY <1>2, <1>3, <1>4, <1>5, <1>6, <1>7, <1>8 DEF Owned
<1> QED
  BY <1>0, <1>2, <1>9 DEF N, new

\* A cleared page becomes a directory.
LEMMA NewRoot ==
  ASSUME NEW M, NEW own, NEW D, Owned(M, own, D),
         NEW p \in All(M), Held(own[p]), p \notin D, M.mem[p] = Filled(ZERO)
  PROVE  Owned(M, own, D \cup {p})
<1>1. \A k \in Index : ~Present(M.mem[p][k])
  <2>1. ~Present(ZERO)
    BY DEF Present, ZERO
  <2> QED BY <2>1, Cells
<1>2. TableCells(M, own, D \cup {p})
  BY <1>1 DEF Owned, TableCells
<1> QED
  BY <1>2 DEF Owned

\* Pages are lost.
LEMMA LoseSet ==
  ASSUME NEW M, NEW own, NEW D, Owned(M, own, D),
         NEW S \in SUBSET All(M), \A q \in S : Held(own[q]) /\ q \notin D
  PROVE  LET N == Losing(M, S)
         IN /\ Owned(N, [q \in All(M) |-> IF q \in S THEN Lost ELSE own[q]], D)
            /\ All(N) = All(M) /\ N.kpgdir = M.kpgdir /\ N.stacks = M.stacks
<1> DEFINE N == Losing(M, S)
           new == [q \in All(M) |-> IF q \in S THEN Lost ELSE own[q]]
<1>0. M \in Ram /\ own \in [All(M) -> Owner] /\ All(M) \subseteq Nat
  BY MemType DEF Owned
<1>1. N \in Ram /\ All(N) = All(M) /\ N.mem = M.mem /\ N.free = M.free /\ N.lost = M.lost \cup S /\ N.kpgdir = M.kpgdir /\ N.stacks = M.stacks
  BY <1>0 DEF Ram, All, Losing
<1>2. /\ new \in [All(M) -> Owner]
      /\ \A q \in All(M) : q \in S => new[q][1] = "lost"
      /\ \A q \in All(M) : q \notin S => new[q] = own[q]
  BY <1>0, Triple DEF Owner, Lost
<1>3. \A q \in S : q \in All(M) /\ own[q][1] # "free" /\ own[q][1] # "lost" /\ own[q][1] # "table" /\ own[q][1] # "page"
  BY DEF Held
<1> HIDE DEF N, new
<1>4. /\ Of(new, N, "free") = Of(own, M, "free") /\ Of(new, N, "lost") = Of(own, M, "lost") \cup S
      /\ Of(new, N, "table") = Of(own, M, "table") /\ Of(new, N, "page") = Of(own, M, "page")
  <2>1. Of(new, N, "free") = Of(own, M, "free")
    BY <1>1, <1>2, <1>3 DEF Of
  <2>2. Of(new, N, "lost") = Of(own, M, "lost") \cup S
    BY <1>1, <1>2, <1>3 DEF Of
  <2>3. Of(new, N, "table") = Of(own, M, "table")
    BY <1>1, <1>2, <1>3 DEF Of
  <2>4. Of(new, N, "page") = Of(own, M, "page")
    BY <1>1, <1>2, <1>3 DEF Of
  <2> QED BY <2>1, <2>2, <2>3, <2>4
<1>5. /\ \A q \in Of(own, M, "table") : q \in All(M) /\ q \notin S /\ new[q] = own[q]
      /\ \A q \in Of(own, M, "page") : q \in All(M) /\ q \notin S /\ new[q] = own[q]
      /\ \A q \in D : q \in All(M) /\ q \notin S /\ new[q] = own[q]
  BY <1>2, <1>3 DEF Of, Owned
<1>6. TableCells(N, new, D)
  <2>1. \A d \in D : \A k \in Index : Present(M.mem[d][k]) => M.mem[d][k][1] \in Of(own, M, "table") /\ own[M.mem[d][k][1]] = <<"table", d, k>>
    BY Triple DEF Owned, TableCells, Of
  <2> QED BY <1>1, <1>4, <1>5, <2>1 DEF Owned, TableCells
<1>7. PageCells(N, new)
  <2>1. \A s \in Of(own, M, "table") : \A j \in Index : (User(own[s][3], j) /\ Present(M.mem[s][j])) =>
           M.mem[s][j][1] \in Of(own, M, "page") /\ own[M.mem[s][j][1]] = <<"page", s, j>>
    BY Triple DEF Owned, PageCells, Of
  <2> QED BY <1>1, <1>4, <1>5, <2>1 DEF Owned, PageCells
<1>8. KernelCells(N, new)
  BY <1>1, <1>4, <1>5 DEF Owned, KernelCells
<1>9. D \subseteq {q \in All(N) : Held(new[q])}
  BY <1>1, <1>5 DEF Owned
<1>10. Owned(N, new, D)
  BY <1>1, <1>2, <1>4, <1>6, <1>7, <1>8, <1>9 DEF Owned
<1> QED
  BY <1>1, <1>10 DEF N, new

\* A directory that has no pages of users is given up, with its tables.
NoUser(M, own, d) == \A p \in Of(own, M, "page") : own[own[p][2]][2] # d
Parts(M, own, d) == {t \in Of(own, M, "table") : own[t][2] = d}
Dropped(M, own, d) == [q \in All(M) |-> IF q = d \/ q \in Parts(M, own, d) THEN Taken ELSE own[q]]
LEMMA DropRoot ==
  ASSUME NEW M, NEW own, NEW D, Owned(M, own, D), NEW d \in D, NoUser(M, own, d)
  PROVE  Owned(M, Dropped(M, own, d), D \ {d}) /\ Tables(M, d) = Parts(M, own, d)
<1> DEFINE S == Parts(M, own, d) \cup {d}
           new == Dropped(M, own, d)
<1>0. M \in Ram /\ own \in [All(M) -> Owner] /\ d \in All(M) /\ S \subseteq All(M) /\ Held(own[d])
  BY DEF Owned, Of, Parts
<1>1. Tables(M, d) = Parts(M, own, d)
  <2>1. \A k \in Index : Present(M.mem[d][k]) => M.mem[d][k][1] \in Of(own, M, "table") /\ own[M.mem[d][k][1]] = <<"table", d, k>>
    BY Triple DEF Owned, TableCells, Of
  <2>2. Tables(M, d) \subseteq Parts(M, own, d)
    BY <2>1, Triple DEF Tables, Parts, Index
  <2>3. Parts(M, own, d) \subseteq Tables(M, d)
    BY DEF Owned, TableCells, Tables, Parts, Index
  <2> QED BY <2>2, <2>3
<1>2. /\ new \in [All(M) -> Owner]
      /\ \A q \in All(M) : q \in S => new[q][1] = "taken"
      /\ \A q \in All(M) : q \notin S => new[q] = own[q]
  BY <1>0, Triple DEF Owner, Taken, Dropped
<1>3. \A q \in S : q = d \/ (own[q][1] = "table" /\ own[q][2] = d)
  BY DEF Of, Parts
<1>4. /\ Of(new, M, "free") = Of(own, M, "free") /\ Of(new, M, "lost") = Of(own, M, "lost")
      /\ Of(new, M, "table") = Of(own, M, "table") \ S /\ Of(new, M, "page") = Of(own, M, "page")
  <2> HIDE DEF S, new
  <2>0. \A q \in S : own[q][1] # "free" /\ own[q][1] # "lost" /\ own[q][1] # "page"
    BY <1>0, <1>3 DEF Held
  <2>1. Of(new, M, "free") = Of(own, M, "free")
    BY <1>2, <2>0 DEF Of
  <2>2. Of(new, M, "lost") = Of(own, M, "lost")
    BY <1>2, <2>0 DEF Of
  <2>3. Of(new, M, "table") = Of(own, M, "table") \ S
    BY <1>2, <2>0 DEF Of
  <2>4. Of(new, M, "page") = Of(own, M, "page")
    BY <1>2, <2>0 DEF Of
  <2> QED BY <2>1, <2>2, <2>3, <2>4
<1>5. /\ \A q \in Of(own, M, "table") \ S : q \in All(M) /\ own[q][2] # d /\ new[q] = own[q]
      /\ \A q \in Of(own, M, "page") : q \in All(M) /\ q \notin S /\ new[q] = own[q]
      /\ \A q \in D \ {d} : q \in All(M) /\ q \notin S /\ new[q] = own[q]
  <2>1. \A q \in Of(own, M, "table") \ S : q \in All(M) /\ own[q][2] # d
    BY DEF Of, Parts
  <2>2. \A q \in Of(own, M, "page") : q \in All(M) /\ q \notin S
    BY <1>0, <1>3 DEF Of, Held
  <2>3. \A q \in D \ {d} : q \in All(M) /\ q \notin S
    BY <1>3 DEF Held, Owned
  <2> HIDE DEF S, new
  <2> QED BY <1>2, <2>1, <2>2, <2>3 DEF Of
<1>6. TableCells(M, new, D \ {d})
  <2>1. \A e \in D : \A k \in Index : Present(M.mem[e][k]) => M.mem[e][k][1] \in Of(own, M, "table") /\ own[M.mem[e][k][1]] = <<"table", e, k>>
    BY Triple DEF Owned, TableCells, Of
  <2>2. \A e \in D \ {d} : \A k \in Index : Present(M.mem[e][k]) => M.mem[e][k][1] \notin S
    <3>1. \A q \in D : Held(own[q])
      BY DEF Owned
    <3> QED BY <1>0, <1>3, <2>1, Triple DEF Of, Held
  <2>3. \A t \in Of(own, M, "table") : own[t][2] \in D /\ own[t][3] \in Index /\ Present(M.mem[own[t][2]][own[t][3]]) /\ M.mem[own[t][2]][own[t][3]][1] = t
    BY DEF Owned, TableCells
  <2> HIDE DEF S, new
  <2>4. \A t \in Of(new, M, "table") : t \in Of(own, M, "table") \ S
    BY <1>4
  <2>5. \A e \in D \ {d} : \A k \in Index : Present(M.mem[e][k]) => M.mem[e][k][1] \in All(M) /\ new[M.mem[e][k][1]] = <<"table", e, k>>
    BY <1>5, <2>1, <2>2
  <2>6. \A t \in Of(new, M, "table") : new[t][2] \in D \ {d} /\ new[t][3] \in Index /\ Present(M.mem[new[t][2]][new[t][3]]) /\ M.mem[new[t][2]][new[t][3]][1] = t
    BY <1>5, <2>3, <2>4
  <2> QED BY <2>5, <2>6 DEF TableCells
<1>7. PageCells(M, new)
  <2>1. \A s \in Of(own, M, "table") : \A j \in Index : (User(own[s][3], j) /\ Present(M.mem[s][j])) =>
           M.mem[s][j][1] \in Of(own, M, "page") /\ own[M.mem[s][j][1]] = <<"page", s, j>>
    BY Triple DEF Owned, PageCells, Of
  <2>2. \A p \in Of(own, M, "page") : own[p][2] \in Of(own, M, "table") \ S
    BY <1>0, <1>3 DEF Owned, PageCells, NoUser, Held, Of
  <2>3. \A p \in Of(own, M, "page") : /\ own[p][3] \in Index /\ User(own[own[p][2]][3], own[p][3])
               /\ Present(M.mem[own[p][2]][own[p][3]]) /\ M.mem[own[p][2]][own[p][3]][1] = p
    BY DEF Owned, PageCells
  <2> HIDE DEF S, new
  <2>4. \A t \in Of(new, M, "table") : t \in Of(own, M, "table") \ S /\ new[t] = own[t]
    BY <1>4, <1>5
  <2>5. \A t \in Of(new, M, "table") : \A j \in Index : (User(new[t][3], j) /\ Present(M.mem[t][j])) =>
           M.mem[t][j][1] \in All(M) /\ new[M.mem[t][j][1]] = <<"page", t, j>>
    BY <1>5, <2>1, <2>4
  <2>6. \A p \in Of(new, M, "page") : p \in Of(own, M, "page") /\ new[p] = own[p] /\ new[own[p][2]] = own[own[p][2]]
    BY <1>4, <1>5, <2>2
  <2>7. \A p \in Of(new, M, "page") : /\ new[p][2] \in Of(new, M, "table") /\ new[p][3] \in Index /\ User(new[new[p][2]][3], new[p][3])
               /\ Present(M.mem[new[p][2]][new[p][3]]) /\ M.mem[new[p][2]][new[p][3]][1] = p
    BY <1>4, <2>2, <2>3, <2>6
  <2> QED BY <2>5, <2>7 DEF PageCells
<1>8. KernelCells(M, new)
  <2> HIDE DEF S, new
  <2> QED BY <1>4, <1>5 DEF Owned, KernelCells
<1>9. D \ {d} \subseteq {q \in All(M) : Held(new[q])}
  BY <1>5 DEF Owned
<1>10. Owned(M, new, D \ {d})
  <2> HIDE DEF S, new
  <2> QED BY <1>0, <1>2, <1>4, <1>6, <1>7, <1>8, <1>9 DEF Owned
<1> QED
  BY <1>1, <1>10

(***************************************************************************)
(* Addresses.                                                              *)
(***************************************************************************)

Vpn == 0..(PGSIZE * PGSIZE - 1)

LEMMA Split ==
  ASSUME NEW v \in Vpn
  PROVE  PDX(v) \in Index /\ PTX(v) \in Index /\ PDX(v) * PGSIZE + PTX(v) = v /\ (User(PDX(v), PTX(v)) <=> v < KERNBASE)
<1>0. PGSIZE \in Nat \ {0} /\ v \in Nat
  BY MemoryAssumption DEF Vpn
<1>1. v = PGSIZE * (v \div PGSIZE) + (v % PGSIZE) /\ v % PGSIZE \in 0..(PGSIZE - 1) /\ v \div PGSIZE \in Nat
  BY <1>0
<1>2. v \div PGSIZE \in 0..(PGSIZE - 1)
  BY <1>0 DEF Vpn
<1>3. PDX(v) * PGSIZE + PTX(v) = v
  BY <1>0, <1>1 DEF PDX, PTX
<1> QED
  BY <1>1, <1>2, <1>3 DEF PDX, PTX, Index, User

LEMMA Join ==
  ASSUME NEW k \in Index, NEW j \in Index
  PROVE  k * PGSIZE + j \in Vpn /\ PDX(k * PGSIZE + j) = k /\ PTX(k * PGSIZE + j) = j
<1>0. PGSIZE \in Nat \ {0} /\ k \in 0..(PGSIZE - 1) /\ j \in 0..(PGSIZE - 1)
  BY MemoryAssumption DEF Index
<1>1. (k * PGSIZE + j) \div PGSIZE = k /\ (k * PGSIZE + j) % PGSIZE = j
  BY <1>0
<1>2. k * PGSIZE + j \in 0..(PGSIZE * PGSIZE - 1)
  BY <1>0
<1> QED
  BY <1>1, <1>2 DEF Vpn, PDX, PTX

LEMMA Below ==
  /\ KERNBASE \in 1..(PGSIZE * PGSIZE)
  /\ \A v \in 0..(KERNBASE - 1) : v \in Vpn /\ v < KERNBASE
  /\ \A i \in 1..Len(kmap) : kmap[i] \in Vpn /\ kmap[i] >= KERNBASE
  /\ Len(kmap) \in Nat
<1>1. PGSIZE \in Nat \ {0} /\ KERNBASE \in 1..(PGSIZE * PGSIZE) /\ kmap \in Seq(KERNBASE..(PGSIZE * PGSIZE - 1))
  BY MemoryAssumption
<1>2. Len(kmap) \in Nat /\ \A i \in 1..Len(kmap) : kmap[i] \in KERNBASE..(PGSIZE * PGSIZE - 1)
  BY <1>1, LenProperties, ElementOfSeq
<1>3. PGSIZE * PGSIZE \in Nat
  BY <1>1
<1> QED
  BY <1>1, <1>2, <1>3 DEF Vpn

(***************************************************************************)
(* Operations.  But for the pages X, what somebody holds he keeps, and     *)
(* nobody gets anything.                                                   *)
(***************************************************************************)

Same(M, own, N, new, X) ==
  /\ All(N) = All(M) /\ N.kpgdir = M.kpgdir /\ N.stacks = M.stacks
  /\ \A q \in All(M) : q \notin X => ((Held(own[q]) \/ Held(new[q])) => new[q] = own[q])

\* kalloc, and what the page is filled with.
Filling(a, c) == IF a[2] = NULL THEN a ELSE <<SetPage(a[1], a[2], c), a[2]>>
Gets(M, own, D, o, c, a) ==
  \/ M.free = <<>> /\ a[1] = M /\ a[2] = NULL
  \/ /\ M.free # <<>> /\ a[2] = Head(M.free) /\ a[2] \in All(M) /\ a[2] # NULL /\ a[2] \notin D /\ own[a[2]][1] = "free"
     /\ LET new == Now(own, a[2], o)
        IN /\ Owned(a[1], new, D) /\ Same(M, own, a[1], new, {a[2]}) /\ new[a[2]] = o
           /\ \A q \in All(M) : q # a[2] => new[q] = own[q] /\ a[1].mem[q] = M.mem[q]
     /\ a[1].mem[a[2]] = c
LEMMA Allocated ==
  ASSUME NEW M, NEW own, NEW D, Owned(M, own, D), NEW o \in Owner, Held(o), NEW c \in Contents
  PROVE  Gets(M, own, D, o, c, Filling(kalloc(M), c))
<1> DEFINE p == Head(M.free)
           N == Popped(M)
           L == SetPage(N, p, c)
           new == Now(own, p, o)
           a == Filling(kalloc(M), c)
<1>1. CASE M.free = <<>>
  <2>1. kalloc(M)[1] = M /\ kalloc(M)[2] = NULL
    BY <1>1 DEF kalloc
  <2> QED BY <1>1, <2>1 DEF Filling, Gets
<1>2. CASE M.free # <<>>
  <2>0. M \in Ram /\ own \in [All(M) -> Owner]
    BY DEF Owned
  <2>1. p \in All(M) /\ own[p][1] = "free" /\ All(N) = All(M) /\ Owned(N, new, D)
    BY <1>2, Take
  <2>2. p # NULL /\ p \notin D /\ new[p] = o /\ \A q \in All(M) : q # p => new[q] = own[q]
    <3>1. p # NULL
      BY <2>0, <2>1, MemType DEF NULL
    <3>2. ~Held(own[p])
      BY <2>1 DEF Held
    <3>3. p \notin D
      BY <3>2 DEF Owned
    <3> QED BY <2>0, <2>1, <3>1, <3>3 DEF Now
  <2>3. N.kpgdir = M.kpgdir /\ N.stacks = M.stacks /\ N.mem = M.mem
    BY <2>0 DEF Ram, Popped
  <2>4. kalloc(M)[1] = N /\ kalloc(M)[2] = p
    BY <1>2 DEF kalloc, Popped
  <2> HIDE DEF N, p, new
  <2>5. new[p][1] # "table" /\ p \in All(N) /\ N \in Ram
    BY <2>1, <2>2 DEF Held, Owned
  <2>6. Owned(L, new, D) /\ All(L) = All(N)
    BY <2>1, <2>2, <2>5, Fill
  <2>7. L.kpgdir = N.kpgdir /\ L.stacks = N.stacks /\ \A q \in All(N) : L.mem[q] = IF q = p THEN c ELSE N.mem[q]
    BY <2>5, Written
  <2>7a. L.mem[p] = c
    BY <2>5, <2>7
  <2> HIDE DEF L
  <2>8. a = <<L, p>>
    BY <2>2, <2>4 DEF Filling, L
  <2>9. Same(M, own, L, new, {p})
    BY <2>1, <2>2, <2>3, <2>6, <2>7 DEF Same
  <2>9a. \A q \in All(M) : q # p => L.mem[q] = M.mem[q]
    BY <2>1, <2>3, <2>7
  <2> HIDE DEF a
  <2>10. a[1] = L /\ a[2] = p
    BY <2>8
  <2> QED BY <1>2, <2>1, <2>2, <2>6, <2>7a, <2>9, <2>9a, <2>10 DEF a, p, new, Gets
<1> QED
  BY <1>1, <1>2

\* walkpgdir, that finds a table;
Finds(M, own, d, v, t) ==
  \/ ~Present(M.mem[d][PDX(v)]) /\ t = NULL
  \/ /\ Present(M.mem[d][PDX(v)]) /\ t = M.mem[d][PDX(v)][1]
     /\ t # NULL /\ t \in Of(own, M, "table") /\ own[t] = <<"table", d, PDX(v)>>
LEMMA Walked ==
  ASSUME NEW M, NEW own, NEW D, Owned(M, own, D), NEW d \in D, NEW v \in Vpn
  PROVE  Finds(M, own, d, v, walkpgdir(M, d, v, FALSE)[2])
<1>1. PDX(v) \in Index
  BY Split
<1>2. CASE ~Present(M.mem[d][PDX(v)])
  BY <1>2 DEF walkpgdir, Finds
<1>3. CASE Present(M.mem[d][PDX(v)])
  <2> DEFINE t == M.mem[d][PDX(v)][1]
  <2>1. t \in All(M) /\ own[t] = <<"table", d, PDX(v)>>
    BY <1>1, <1>3 DEF Owned, TableCells
  <2>2. t # NULL
    BY <2>1, MemType DEF NULL, Owned
  <2>3. walkpgdir(M, d, v, FALSE)[2] = t
    BY <1>3 DEF walkpgdir
  <2>4. t \in Of(own, M, "table")
    BY <2>1, Triple DEF Of
  <2> QED BY <1>3, <2>1, <2>2, <2>3, <2>4 DEF Finds
<1> QED
  BY <1>2, <1>3

\* and that makes one.
Makes(M, own, D, d, v, w) ==
  \/ w[1] = M /\ w[2] = NULL
  \/ /\ w[2] # NULL
     /\ \E new : /\ Owned(w[1], new, D) /\ Same(M, own, w[1], new, {})
                 /\ w[2] \in Of(new, w[1], "table") /\ new[w[2]] = <<"table", d, PDX(v)>>
                 /\ \A e : NoUser(M, own, e) => NoUser(w[1], new, e)
LEMMA Made ==
  ASSUME NEW M, NEW own, NEW D, Owned(M, own, D), NEW d \in D, NEW v \in Vpn
  PROVE  Makes(M, own, D, d, v, walkpgdir(M, d, v, TRUE))
<1> DEFINE w == walkpgdir(M, d, v, TRUE)
           k == PDX(v)
<1>0. M \in Ram /\ own \in [All(M) -> Owner] /\ k \in Index /\ d \in All(M) /\ Held(own[d])
  BY Split DEF Owned
<1>1. CASE Present(M.mem[d][k])
  <2>1. w[1] = M /\ w[2] = walkpgdir(M, d, v, FALSE)[2]
    BY <1>1 DEF walkpgdir
  <2>2. Same(M, own, M, own, {})
    BY DEF Same
  <2>3. w[2] # NULL /\ w[2] \in Of(own, M, "table") /\ own[w[2]] = <<"table", d, k>>
    <3>1. Finds(M, own, d, v, w[2])
      BY <2>1, Walked
    <3> QED BY <1>1, <3>1 DEF Finds
  <2>4. /\ Owned(w[1], own, D) /\ Same(M, own, w[1], own, {})
        /\ w[2] \in Of(own, w[1], "table") /\ own[w[2]] = <<"table", d, k>>
        /\ \A e : NoUser(M, own, e) => NoUser(w[1], own, e)
    BY <2>1, <2>2, <2>3
  <2> HIDE DEF w, k
  <2> QED BY <2>3, <2>4 DEF w, k, Makes
<1>2. CASE ~Present(M.mem[d][k])
  <2> DEFINE a == Filling(kalloc(M), Filled(ZERO))
             t == a[2]
             N == a[1]
             mid == Now(own, t, Taken)
  <2>1. Filled(ZERO) \in Contents
    BY Cells
  <2>2. Taken \in Owner /\ Held(Taken)
    BY Triple DEF Taken, Owner, Held
  <2>0. Gets(M, own, D, Taken, Filled(ZERO), a)
    BY <2>1, <2>2, Allocated
  <2>3. \/ N = M /\ t = NULL
        \/ /\ t \in All(M) /\ t # NULL /\ t \notin D /\ own[t][1] = "free"
           /\ Owned(N, mid, D) /\ Same(M, own, N, mid, {t}) /\ mid[t] = Taken
           /\ N.mem[t] = Filled(ZERO)
           /\ \A q \in All(M) : q # t => mid[q] = own[q] /\ N.mem[q] = M.mem[q]
    BY <2>0 DEF Gets
  <2>4. w = Enter(d, v, a)
    BY <1>2 DEF walkpgdir, Clear, Filling, SetPage
  <2>5. CASE t = NULL
    <3>1. w = a
      BY <2>4, <2>5 DEF Enter
    <3> QED BY <2>3, <2>5, <3>1 DEF Makes
  <2>6. CASE t # NULL
    <3> DEFINE L == SetCell(N, d, k, <<t, "P">>)
               new == Now(mid, t, <<"table", d, k>>)
    <3>1. w = <<L, t>>
      BY <2>4, <2>6 DEF Enter, SetCell
    <3> HIDE DEF N, mid, t, a, w
    <3>2. ~Present(N.mem[d][k])
      <4>1. N.mem[d] = M.mem[d]
        BY <1>0, <2>3, <2>6
      <4> QED BY <1>2, <4>1
    <3>3. t \in All(N) /\ Held(mid[t])
      BY <2>2, <2>3, <2>6 DEF Same
    <3>4. /\ Owned(L, new, D) /\ All(L) = All(N) /\ L.kpgdir = N.kpgdir /\ L.stacks = N.stacks
      <4>1. Owned(N, mid, D) /\ t \notin D /\ N.mem[t] = Filled(ZERO)
        BY <2>3, <2>6
      <4> HIDE DEF k
      <4> DEFINE c == <<t, "P">>
                 o == <<"table", d, k>>
      <4>2. c = <<t, "P">> /\ o = <<"table", d, k>> /\ L = SetCell(N, d, k, c) /\ new = Now(mid, t, o)
        OBVIOUS
      <4> HIDE DEF c, o, L, new
      <4>3. k \in Index
        BY <1>0
      <4> QED BY <3>2, <3>3, <4>1, <4>2, <4>3, EnterTable
    <3>5. /\ new[t] = <<"table", d, k>> /\ \A q \in All(M) : q # t => new[q] = own[q]
      BY <1>0, <2>3, <2>6 DEF mid, Now
    <3> HIDE DEF L, new, k
    <3>6. new[t][1] = "table" /\ ~Held(own[t]) /\ t \in All(M) /\ All(L) = All(M) /\ t \in Of(new, L, "table")
      <4>1. new[t][1] = "table"
        BY <3>5, Triple
      <4>2. All(L) = All(M) /\ t \in All(M) /\ own[t][1] = "free"
        BY <2>3, <2>6, <3>4 DEF Same
      <4> QED BY <4>1, <4>2 DEF Of, Held
    <3>7. Same(M, own, L, new, {})
      <4>1. ~Held(new[t])
        BY <3>6 DEF Held
      <4> QED BY <2>3, <2>6, <3>4, <3>5, <3>6, <4>1 DEF Same
    <3>8. ASSUME NEW e, NoUser(M, own, e) PROVE NoUser(L, new, e)
      <4> SUFFICES ASSUME NEW p \in Of(new, L, "page") PROVE new[new[p][2]][2] # e
        BY DEF NoUser
      <4>1. p \in Of(own, M, "page") /\ p # t /\ new[p] = own[p]
        BY <3>5, <3>6 DEF Of
      <4>2. own[p][2] # t /\ own[p][2] \in All(M)
        BY <2>3, <2>6, <4>1 DEF Owned, PageCells, Of
      <4>3. new[own[p][2]] = own[own[p][2]] /\ own[own[p][2]][2] # e
        BY <3>5, <3>8, <4>1, <4>2 DEF NoUser
      <4> QED BY <4>1, <4>3
    <3>9. w[1] = L /\ w[2] = t
      BY <3>1
    <3> QED BY <2>6, <3>4, <3>5, <3>6, <3>7, <3>8, <3>9 DEF w, k, Makes
  <2> QED BY <2>5, <2>6
<1> QED
  BY <1>1, <1>2

\* mappages, of a page for users,
Maps(M, own, D, p, w) ==
  \/ w[1] = M /\ w[2] = FALSE
  \/ w[2] = TRUE /\ w[1].panic # ""
  \/ w[2] = TRUE /\ \E new : Owned(w[1], new, D) /\ Same(M, own, w[1], new, {p}) /\ ~Held(new[p])
LEMMA MappedPage ==
  ASSUME NEW M, NEW own, NEW D, Owned(M, own, D), NEW d \in D, NEW v \in Vpn, v < KERNBASE,
         NEW p \in All(M), Held(own[p]), p \notin D, NEW c, c = <<p, "PU">>
  PROVE  Maps(M, own, D, p, mappages(M, d, v, c))
<1> DEFINE w == walkpgdir(M, d, v, TRUE)
           t == w[2]
           L == w[1]
           j == PTX(v)
<1>1. Makes(M, own, D, d, v, w)
  BY Made
<1>2. mappages(M, d, v, c) = Put(w, v, c)
  BY DEF mappages
<1>3. CASE t = NULL
  <2>1. Put(w, v, c) = <<L, FALSE>>
    BY <1>3 DEF Put
  <2>2. L = M
    BY <1>1, <1>3 DEF Makes
  <2>3. mappages(M, d, v, c)[1] = M /\ mappages(M, d, v, c)[2] = FALSE
    BY <1>2, <2>1, <2>2, Both, Zenon
  <2> QED BY <2>3 DEF Maps
<1>4. CASE t # NULL
  <2>1. PICK new : /\ Owned(L, new, D) /\ Same(M, own, L, new, {})
                   /\ t \in Of(new, L, "table") /\ new[t] = <<"table", d, PDX(v)>>
    BY <1>1, <1>4 DEF Makes
  <2>2. new[t][3] = PDX(v) /\ j \in Index /\ User(new[t][3], j)
    BY <2>1, Triple, Split
  <2>3. p \in All(L) /\ new[p] = own[p] /\ Held(new[p])
    BY <2>1 DEF Same
  <2>4. CASE Present(L.mem[t][j])
    <3> DEFINE K == [Panic(L, "remap") EXCEPT !.mem[t][j] = c]
    <3>1. Put(w, v, c) = <<K, TRUE>>
      BY <1>4, <2>4 DEF Put
    <3>2. L.panic = "" /\ L \in Ram
      BY <2>1 DEF Owned, Ram
    <3>3. Panic(L, "remap") = [L EXCEPT !.panic = "remap"]
      BY <3>2 DEF Panic
    <3> HIDE DEF L, t, j
    <3>4. K.panic # ""
      BY <3>2, <3>3 DEF Ram
    <3> HIDE DEF K
    <3>5. mappages(M, d, v, c)[1] = K /\ mappages(M, d, v, c)[2] = TRUE
      BY <1>2, <3>1, Both, Zenon
    <3> QED BY <3>4, <3>5 DEF Maps
  <2>5. CASE ~Present(L.mem[t][j])
    <3> DEFINE N == SetCell(L, t, j, c)
               o == <<"page", t, j>>
               last == Now(new, p, o)
    <3>1. Put(w, v, c) = <<N, TRUE>>
      BY <1>4, <2>5 DEF Put, SetCell
    <3>2. o = <<"page", t, j>>
      OBVIOUS
    <3> HIDE DEF t, L, w, j, o
    <3>3. Owned(N, last, D) /\ All(N) = All(L) /\ N.kpgdir = L.kpgdir /\ N.stacks = L.stacks
      BY <2>1, <2>2, <2>3, <2>5, <3>2, EnterPage
    <3>4. last[p] = o /\ \A q \in All(L) : q # p => last[q] = new[q]
      BY <2>1, <2>3 DEF Owned, Now
    <3>5. ~Held(last[p])
      BY <3>2, <3>4, Triple DEF Held
    <3> HIDE DEF last, N
    <3>6. Same(M, own, N, last, {p})
      BY <2>1, <3>3, <3>4 DEF Same
    <3>7. \E x : Owned(N, x, D) /\ Same(M, own, N, x, {p}) /\ ~Held(x[p])
      BY <3>3, <3>5, <3>6
    <3>8. mappages(M, d, v, c)[1] = N /\ mappages(M, d, v, c)[2] = TRUE
      BY <1>2, <3>1, Both, Zenon
    <3> QED BY <3>7, <3>8 DEF Maps
  <2> QED BY <2>4, <2>5
<1> QED
  BY <1>3, <1>4

\* and of one of the kernel's.
Broken(N) == N.panic # "" /\ "panic" \in DOMAIN N
KernelMaps(M, own, D, w) ==
  \/ w[1] = M /\ w[2] = FALSE
  \/ w[2] = TRUE /\ Broken(w[1])
  \/ w[2] = TRUE /\ \E new : /\ Owned(w[1], new, D) /\ Same(M, own, w[1], new, {})
                             /\ \A e : NoUser(M, own, e) => NoUser(w[1], new, e)
LEMMA MappedKernel ==
  ASSUME NEW M, NEW own, NEW D, Owned(M, own, D), NEW d \in D, NEW v \in Vpn, v >= KERNBASE
  PROVE  KernelMaps(M, own, D, mappages(M, d, v, <<0, "P">>))
<1> DEFINE w == walkpgdir(M, d, v, TRUE)
           t == w[2]
           L == w[1]
           j == PTX(v)
           c == <<0, "P">>
<1>1. Makes(M, own, D, d, v, w)
  BY Made
<1>2. mappages(M, d, v, c) = Put(w, v, c)
  BY DEF mappages
<1>3. CASE t = NULL
  <2>1. Put(w, v, c) = <<L, FALSE>>
    BY <1>3 DEF Put
  <2>2. L = M
    BY <1>1, <1>3 DEF Makes
  <2>3. mappages(M, d, v, c)[1] = M /\ mappages(M, d, v, c)[2] = FALSE
    BY <1>2, <2>1, <2>2, Both, Zenon
  <2> QED BY <2>3 DEF KernelMaps
<1>4. CASE t # NULL
  <2>1. PICK new : /\ Owned(L, new, D) /\ Same(M, own, L, new, {})
                   /\ t \in Of(new, L, "table") /\ new[t] = <<"table", d, PDX(v)>>
                   /\ \A e : NoUser(M, own, e) => NoUser(L, new, e)
    BY <1>1, <1>4 DEF Makes
  <2>2. new[t][3] = PDX(v) /\ j \in Index /\ ~User(new[t][3], j)
    <3>1. ~User(PDX(v), j) /\ j \in Index
      BY Split, Sizes DEF Vpn
    <3> QED BY <2>1, <3>1, Triple
  <2>4. CASE Present(L.mem[t][j])
    <3> DEFINE K == [Panic(L, "remap") EXCEPT !.mem[t][j] = c]
    <3>1. Put(w, v, c) = <<K, TRUE>>
      BY <1>4, <2>4 DEF Put
    <3>2. L.panic = "" /\ L \in Ram
      BY <2>1 DEF Owned, Ram
    <3>3. Panic(L, "remap") = [L EXCEPT !.panic = "remap"]
      BY <3>2 DEF Panic
    <3> HIDE DEF L, t, j, c
    <3>4. Broken(K)
      BY <3>2, <3>3 DEF Ram, Broken
    <3> HIDE DEF K
    <3>5. mappages(M, d, v, c)[1] = K /\ mappages(M, d, v, c)[2] = TRUE
      BY <1>2, <3>1, Both, Zenon
    <3> QED BY <3>4, <3>5 DEF KernelMaps, c
  <2>5. CASE ~Present(L.mem[t][j])
    <3> DEFINE N == SetCell(L, t, j, c)
    <3>1. Put(w, v, c) = <<N, TRUE>>
      BY <1>4, <2>5 DEF Put, SetCell
    <3>2. c \in Cell /\ c[2] # "PU"
      <4>1. 0 \in Int /\ "P" \in Kinds /\ "P" # "PU"
        BY DEF Kinds
      <4>2. c \in Cell
        BY <4>1, Pair DEF Cell
      <4> QED BY <4>2
    <3> HIDE DEF t, L, w, j, c
    <3>3. Owned(N, new, D) /\ All(N) = All(L) /\ N.kpgdir = L.kpgdir /\ N.stacks = L.stacks
      BY <2>1, <2>2, <3>2, Relabel
    <3> HIDE DEF N
    <3>6. Same(M, own, N, new, {})
      BY <2>1, <3>3 DEF Same
    <3>7. \A e : NoUser(M, own, e) => NoUser(N, new, e)
      BY <2>1, <3>3 DEF NoUser, Of
    <3>8. \E x : /\ Owned(N, x, D) /\ Same(M, own, N, x, {})
                 /\ \A e : NoUser(M, own, e) => NoUser(N, x, e)
      BY <3>3, <3>6, <3>7
    <3>9. mappages(M, d, v, c)[1] = N /\ mappages(M, d, v, c)[2] = TRUE
      BY <1>2, <3>1, Both, Zenon
    <3> QED BY <3>8, <3>9 DEF KernelMaps, c
  <2> QED BY <2>4, <2>5
<1> QED
  BY <1>3, <1>4

(***************************************************************************)
(* setupkvm.                                                               *)
(***************************************************************************)

MapTurns(x0, d, n, w) == w = [k \in 0..n |-> IF k = 0 THEN x0 ELSE MapNext(w[k - 1], d, kmap[k])]
LEMMA MapTurnsExist ==
  ASSUME NEW x0, NEW d
  PROVE  \A n \in Nat : \E w : MapTurns(x0, d, n, w)
<1> DEFINE S == {n \in Nat : \E w : MapTurns(x0, d, n, w)}
<1>1. 0 \in S
  <2> DEFINE w == [k \in 0..0 |-> x0]
  <2>1. MapTurns(x0, d, 0, w)
    BY DEF MapTurns
  <2> HIDE DEF w
  <2> QED BY <2>1
<1>2. ASSUME NEW n \in Nat, n \in S
      PROVE  n + 1 \in S
  <2>1. PICK g : MapTurns(x0, d, n, g)
    BY <1>2
  <2> DEFINE w == [k \in 0..(n + 1) |-> IF k = n + 1 THEN MapNext(g[n], d, kmap[n + 1]) ELSE g[k]]
  <2>2. \A k \in 0..n : w[k] = g[k] /\ g[k] = IF k = 0 THEN x0 ELSE MapNext(g[k - 1], d, kmap[k])
    BY <2>1 DEF MapTurns
  <2>3. \A k \in 0..n : w[k] = IF k = 0 THEN x0 ELSE MapNext(w[k - 1], d, kmap[k])
    BY <2>2
  <2>4. w[n + 1] = MapNext(w[n], d, kmap[n + 1])
    BY <2>2
  <2>5. w = [k \in 0..(n + 1) |-> w[k]]
    OBVIOUS
  <2> HIDE DEF w
  <2>6. \A k \in 0..(n + 1) : k \in 0..n \/ k = n + 1
    OBVIOUS
  <2>7. n + 1 # 0 /\ n + 1 - 1 = n
    OBVIOUS
  <2>8. \A k \in 0..(n + 1) : w[k] = IF k = 0 THEN x0 ELSE MapNext(w[k - 1], d, kmap[k])
    BY <2>3, <2>4, <2>6, <2>7
  <2>9. MapTurns(x0, d, n + 1, w)
    BY <2>5, <2>8 DEF MapTurns
  <2> QED BY <2>9
<1> HIDE DEF S
<1>3. Nat \subseteq S
  BY <1>1, <1>2, Induct
<1> QED
  BY <1>3 DEF S

\* So far the kernel is mapped, with nothing for users, or that has failed.
MapsSoFar(M, own, D, d, w) ==
  \/ Broken(w[1]) /\ w[2] = TRUE
  \/ w[2] \in BOOLEAN /\ \E new : Owned(w[1], new, D) /\ Same(M, own, w[1], new, {}) /\ NoUser(w[1], new, d)
LEMMA MapTurn ==
  ASSUME NEW M, NEW own, NEW D, NEW d \in D, NEW w, MapsSoFar(M, own, D, d, w), NEW v \in Vpn, v >= KERNBASE
  PROVE  MapsSoFar(M, own, D, d, MapNext(w, d, v))
<1>1. CASE w[2] /\ w[1].panic = ""
  <2> DEFINE x == mappages(w[1], d, v, <<0, "P">>)
  <2>1. MapNext(w, d, v) = x
    BY <1>1 DEF MapNext
  <2>2. PICK new : Owned(w[1], new, D) /\ Same(M, own, w[1], new, {}) /\ NoUser(w[1], new, d)
    BY <1>1 DEF MapsSoFar, Broken
  <2>3. KernelMaps(w[1], new, D, x)
    BY <2>2, MappedKernel
  <2> HIDE DEF x
  <2>4. CASE x[1] = w[1] /\ x[2] = FALSE
    BY <2>1, <2>2, <2>4 DEF MapsSoFar
  <2>5. CASE x[2] = TRUE /\ Broken(x[1])
    BY <2>1, <2>5 DEF MapsSoFar
  <2>6. CASE x[2] = TRUE /\ \E last : /\ Owned(x[1], last, D) /\ Same(w[1], new, x[1], last, {})
                                      /\ \A e : NoUser(w[1], new, e) => NoUser(x[1], last, e)
    <3>1. PICK last : /\ Owned(x[1], last, D) /\ Same(w[1], new, x[1], last, {})
                      /\ \A e : NoUser(w[1], new, e) => NoUser(x[1], last, e)
      BY <2>6
    <3>2. Same(M, own, x[1], last, {})
      BY <2>2, <3>1 DEF Same
    <3>3. NoUser(x[1], last, d)
      BY <2>2, <3>1
    <3> QED BY <2>1, <2>6, <3>1, <3>2, <3>3 DEF MapsSoFar
  <2> QED BY <2>3, <2>4, <2>5, <2>6 DEF KernelMaps
<1>2. CASE ~(w[2] /\ w[1].panic = "")
  BY <1>2 DEF MapNext
<1> QED
  BY <1>1, <1>2

Sets(M, own, D, o, r) ==
  \/ Broken(r[1])
  \/ r[2] = NULL /\ \E new : Owned(r[1], new, D) /\ Same(M, own, r[1], new, {})
  \/ /\ r[2] # NULL /\ r[2] \in All(M) /\ r[2] \notin D /\ own[r[2]][1] = "free" /\ M.free # <<>>
     /\ \E new : Owned(r[1], new, D \cup {r[2]}) /\ Same(M, own, r[1], new, {r[2]}) /\ new[r[2]] = o
LEMMA SetUp ==
  ASSUME NEW M, NEW own, NEW D, Owned(M, own, D), NEW o \in Owner, Held(o)
  PROVE  Sets(M, own, D, o, setupkvm(M))
<1> DEFINE a == Filling(kalloc(M), Filled(ZERO))
           r == setupkvm(M)
           d == a[2]
           x0 == <<a[1], TRUE>>
<1>1. Gets(M, own, D, o, Filled(ZERO), a)
  BY Allocated, Cells
<1>2. r = MapKernel(a)
  BY DEF setupkvm, Clear, Filling, SetPage
<1>3. CASE d = NULL
  <2>1. r = a
    BY <1>2, <1>3 DEF MapKernel
  <2>2. r[1] = M /\ r[2] = NULL
    BY <1>1, <1>3, <2>1 DEF Gets
  <2>3. Same(M, own, M, own, {})
    BY DEF Same
  <2>4. Owned(r[1], own, D) /\ Same(M, own, r[1], own, {})
    BY <2>2, <2>3
  <2> HIDE DEF r
  <2> QED BY <2>2, <2>4 DEF Sets, r
<1>4. CASE d # NULL
  <2> DEFINE L == a[1]
             E == D \cup {d}
             mid == Now(own, d, o)
             f == CHOOSE w : MapTurns(x0, d, Len(kmap), w)
             x == f[Len(kmap)]
  <2>1. /\ M.free # <<>> /\ d \in All(M) /\ d \notin D /\ own[d][1] = "free"
        /\ Owned(L, mid, D) /\ Same(M, own, L, mid, {d}) /\ mid[d] = o
        /\ \A q \in All(M) : q # d => mid[q] = own[q]
        /\ L.mem[d] = Filled(ZERO)
    BY <1>1, <1>4 DEF Gets
  <2>2. r = Mapped(x, d)
    BY <1>2, <1>4 DEF MapKernel, MapTurns
  <2>3. MapTurns(x0, d, Len(kmap), f)
    BY Below, MapTurnsExist
  <2>3a. x0 = <<L, TRUE>>
    OBVIOUS
  <2> HIDE DEF x0
  <2>3b. x0[1] = L /\ x0[2] = TRUE
    BY <2>3a, Both, Zenon
  <2> HIDE DEF f, L, mid, d, a, r
  <2>4. Owned(L, mid, E)
    BY <2>1, NewRoot DEF Same
  <2>5. NoUser(L, mid, d)
    <3>1. \A p \in Of(mid, L, "page") : mid[p][2] \in Of(mid, L, "table")
      BY <2>1 DEF Owned, PageCells
    <3>2. \A t \in Of(mid, L, "table") : mid[t][2] \in D
      BY <2>1 DEF Owned, TableCells
    <3> QED BY <2>1, <3>1, <3>2 DEF NoUser
  <2>6. \A k \in Nat : k <= Len(kmap) => MapsSoFar(L, mid, E, d, f[k])
    <3> DEFINE S == {k \in Nat : k <= Len(kmap) => MapsSoFar(L, mid, E, d, f[k])}
    <3>0. \A k \in 0..Len(kmap) : f[k] = IF k = 0 THEN x0 ELSE MapNext(f[k - 1], d, kmap[k])
      BY <2>3 DEF MapTurns
    <3>1. 0 \in S
      <4>1. f[0] = x0
        BY <3>0, Below
      <4>2. f[0][1] = L /\ f[0][2] = TRUE
        BY <2>3b, <4>1, Zenon
      <4>3. Same(L, mid, L, mid, {})
        BY DEF Same
      <4> QED BY <2>4, <2>5, <4>2, <4>3 DEF MapsSoFar
    <3>2. ASSUME NEW k \in Nat, k \in S PROVE k + 1 \in S
      <4> SUFFICES ASSUME k + 1 <= Len(kmap) PROVE MapsSoFar(L, mid, E, d, f[k + 1])
        OBVIOUS
      <4>1. k <= Len(kmap) /\ k + 1 \in 1..Len(kmap) /\ k + 1 \in 0..Len(kmap) /\ k + 1 # 0 /\ k + 1 - 1 = k
        BY Below
      <4>2. f[k + 1] = MapNext(f[k], d, kmap[k + 1])
        BY <3>0, <4>1
      <4>3. MapsSoFar(L, mid, E, d, f[k])
        BY <3>2, <4>1
      <4>4. kmap[k + 1] \in Vpn /\ kmap[k + 1] >= KERNBASE
        BY <4>1, Below
      <4> QED BY <4>2, <4>3, <4>4, MapTurn
    <3> HIDE DEF S
    <3>3. Nat \subseteq S
      BY <3>1, <3>2, Induct
    <3> QED BY <3>3 DEF S
  <2>7. MapsSoFar(L, mid, E, d, x)
    <3>1. Len(kmap) \in Nat /\ Len(kmap) <= Len(kmap)
      BY Below
    <3> QED BY <2>6, <3>1
  <2> HIDE DEF x
  <2>8. CASE Broken(x[1]) /\ x[2] = TRUE
    <3>1. r = <<x[1], d>>
      BY <2>2, <2>8 DEF Mapped
    <3>2. r[1] = x[1]
      BY <3>1
    <3> HIDE DEF r
    <3> QED BY <2>8, <3>2 DEF Sets, r
  <2>9. CASE x[2] \in BOOLEAN /\ \E new : Owned(x[1], new, E) /\ Same(L, mid, x[1], new, {}) /\ NoUser(x[1], new, d)
    <3>1. PICK new : Owned(x[1], new, E) /\ Same(L, mid, x[1], new, {}) /\ NoUser(x[1], new, d)
      BY <2>9
    <3>2. Same(M, own, x[1], new, {d}) /\ new[d] = o /\ All(x[1]) = All(M)
      BY <2>1, <3>1 DEF Same
    <3>3. CASE x[2]
      <4>1. r = <<x[1], d>>
        BY <2>2, <3>3 DEF Mapped
      <4>2. r[1] = x[1] /\ r[2] = d
        BY <4>1
      <4> QED BY <1>4, <2>1, <3>1, <3>2, <4>2 DEF Sets, r
    <3>4. CASE ~x[2]
      <4> DEFINE P == {d} \cup Tables(x[1], d)
                 N == Losing(x[1], P)
                 drop == Dropped(x[1], new, d)
                 last == [q \in All(x[1]) |-> IF q \in P THEN Lost ELSE drop[q]]
      <4>1. r = <<N, NULL>>
        <5>1. N = [x[1] EXCEPT !.lost = @ \cup {d} \cup Tables(x[1], d)]
          BY DEF Losing
        <5> HIDE DEF N
        <5> QED BY <2>2, <3>4, <5>1 DEF Mapped
      <4>2. r[1] = N /\ r[2] = NULL
        BY <4>1
      <4>3. Owned(x[1], drop, E \ {d}) /\ Tables(x[1], d) = Parts(x[1], new, d)
        BY <3>1, DropRoot
      <4>4. E \ {d} = D
        BY <2>1
      <4>5. P \in SUBSET All(x[1]) /\ \A q \in P : Held(drop[q]) /\ q \notin D
        <5>1. P \subseteq All(x[1]) /\ d \in P
          BY <2>1, <3>2, <4>3 DEF Parts, Of
        <5>2. \A q \in P : drop[q] = Taken
          BY <4>3, <5>1 DEF Dropped
        <5>3. Held(Taken)
          BY Triple DEF Taken, Held
        <5>4. \A q \in P : q # d => new[q][1] = "table"
          BY <4>3 DEF Parts, Of
        <5>5. \A q \in D : Held(new[q])
          BY <3>1 DEF Owned
        <5>6. \A q \in P : q \notin D
          BY <2>1, <5>4, <5>5 DEF Held
        <5> QED BY <5>1, <5>2, <5>3, <5>6
      <4> HIDE DEF drop
      <4>6. Owned(N, last, D) /\ All(N) = All(x[1]) /\ N.kpgdir = x[1].kpgdir /\ N.stacks = x[1].stacks
        BY <4>3, <4>4, <4>5, LoseSet
      <4>7. \A q \in All(M) : (q \in P => last[q] = Lost) /\ (q \notin P => last[q] = new[q])
        BY <3>2, <4>3 DEF drop, Dropped
      <4>8. \A q \in P : q # d => ~Held(new[q])
        BY <4>3 DEF Parts, Of, Held
      <4>9. ~Held(Lost) /\ ~Held(own[d])
        BY <2>1, Triple DEF Held, Lost
      <4> HIDE DEF last, N, P
      <4>10. d \in P
        BY DEF P
      <4>11. Same(M, own, N, last, {})
        <5>1. ASSUME NEW q \in All(M), Held(own[q]) \/ Held(last[q]) PROVE last[q] = own[q]
          <6>1. CASE q \in P
            <7>1. last[q] = Lost /\ Held(own[q]) /\ q # d
              BY <4>7, <4>9, <5>1, <6>1
            <7>2. new[q] = own[q]
              BY <3>2, <7>1 DEF Same
            <7> QED BY <4>8, <6>1, <7>1, <7>2
          <6>2. CASE q \notin P
            BY <3>2, <4>7, <4>10, <5>1, <6>2 DEF Same
          <6> QED BY <6>1, <6>2
        <5> QED BY <3>2, <4>6, <5>1 DEF Same
      <4> QED BY <4>2, <4>6, <4>11 DEF Sets, r
    <3> QED BY <3>3, <3>4
  <2> QED BY <2>7, <2>8, <2>9 DEF MapsSoFar
<1> QED
  BY <1>3, <1>4

(***************************************************************************)
(* deallocuvm.                                                             *)
(***************************************************************************)

LEMMA Commute ==
  ASSUME NEW M \in Ram, NEW t \in All(M), NEW p \in All(M), t # p, NEW j, NEW c
  PROVE  SetCell(kfree(M, p), t, j, c) = kfree(SetCell(M, t, j, c), p)
<1> DEFINE F == Filled(JUNK)
           x == [M.mem[t] EXCEPT ![j] = c]
           X == [[M.mem EXCEPT ![p] = F] EXCEPT ![t] = x]
           Y == [[M.mem EXCEPT ![t] = x] EXCEPT ![p] = F]
           l == <<p>> \o M.free
<1>1. M.mem \in Seq(Contents) /\ DOMAIN M.mem = 1..Len(M.mem)
  BY LenProperties DEF Ram
<1>2. X = Y
  <2> HIDE DEF x, F
  <2> QED BY <1>1 DEF All
<1>3. [M.mem EXCEPT ![p] = F][t] = M.mem[t] /\ [M.mem EXCEPT ![t] = x][p] = M.mem[p]
  <2> HIDE DEF x, F
  <2> QED BY <1>1 DEF All
<1>4. kfree(M, p) = [M EXCEPT !.mem = [M.mem EXCEPT ![p] = F], !.free = l]
  BY DEF kfree
<1>5. SetCell(kfree(M, p), t, j, c) = [M EXCEPT !.mem = X, !.free = l]
  <2>1. kfree(M, p).mem = [M.mem EXCEPT ![p] = F]
    <3> HIDE DEF F, l
    <3> QED BY <1>4 DEF Ram
  <2>2. SetCell(kfree(M, p), t, j, c) = [kfree(M, p) EXCEPT !.mem = [kfree(M, p).mem EXCEPT ![t] = [kfree(M, p).mem[t] EXCEPT ![j] = c]]]
    BY DEF SetCell
  <2>3. kfree(M, p).mem[t] = M.mem[t]
    <3> HIDE DEF F
    <3> QED BY <1>3, <2>1
  <2>4. [kfree(M, p).mem EXCEPT ![t] = [kfree(M, p).mem[t] EXCEPT ![j] = c]] = X
    BY <2>1, <2>3
  <2>5. SetCell(kfree(M, p), t, j, c) = [kfree(M, p) EXCEPT !.mem = X]
    <3> HIDE DEF X
    <3> QED BY <2>2, <2>4
  <2> HIDE DEF X, F, l
  <2> QED BY <1>4, <2>5 DEF Ram
<1>6. kfree(SetCell(M, t, j, c), p) = [M EXCEPT !.mem = Y, !.free = l]
  <2> DEFINE N == SetCell(M, t, j, c)
  <2>1. N = [M EXCEPT !.mem = [M.mem EXCEPT ![t] = x]]
    BY DEF SetCell
  <2>2. N.mem = [M.mem EXCEPT ![t] = x] /\ N.free = M.free
    <3> HIDE DEF x, N
    <3> QED BY <2>1 DEF Ram
  <2>3. kfree(N, p) = [N EXCEPT !.mem = [N.mem EXCEPT ![p] = F], !.free = <<p>> \o N.free]
    BY DEF kfree
  <2>4. kfree(N, p) = [N EXCEPT !.mem = Y, !.free = l]
    <3> HIDE DEF N, F, x
    <3> QED BY <2>2, <2>3
  <2> HIDE DEF Y, l, x
  <2>5. [N EXCEPT !.mem = Y, !.free = l] = [M EXCEPT !.mem = Y, !.free = l]
    BY <2>1 DEF Ram
  <2> QED BY <2>4, <2>5 DEF N
<1> HIDE DEF X, Y, l
<1> QED
  BY <1>2, <1>5, <1>6

\* One entry of a table that is for users is cleared, and the page is freed.
FreesPage(M, own, D, t, j, N) ==
  \E new : /\ Owned(N, new, D) /\ Same(M, own, N, new, {})
           /\ \A q \in Of(new, N, "page") : q \in Of(own, M, "page") /\ new[q] = own[q]
           /\ \A q \in Of(new, N, "table") : q \in Of(own, M, "table") /\ new[q] = own[q]
           /\ \A q \in D : N.mem[q] = M.mem[q]
           /\ \A q \in Of(own, M, "table") : \A i \in Index : N.mem[q][i] = IF q = t /\ i = j THEN ZERO ELSE M.mem[q][i]
LEMMA FreedPage ==
  ASSUME NEW M, NEW own, NEW D, Owned(M, own, D), NEW t, NEW j, NEW p \in Of(own, M, "page"), own[p] = <<"page", t, j>>
  PROVE  FreesPage(M, own, D, t, j, SetCell(kfree(M, p), t, j, ZERO))
<1> DEFINE L == SetCell(M, t, j, ZERO)
           mid == Now(own, p, Taken)
           N == kfree(L, p)
           new == Now(mid, p, Free)
<1>1. /\ M \in Ram /\ own \in [All(M) -> Owner] /\ p \in All(M) /\ p \notin D /\ t \in Of(own, M, "table") /\ t \in All(M) /\ t # p /\ j \in Index /\ t \notin D
      /\ own[p][1] = "page" /\ \A q \in D : q \in All(M)
  BY Triple DEF Owned, PageCells, Of, Held
<1>2. N = SetCell(kfree(M, p), t, j, ZERO)
  BY <1>1, Commute
<1>3. Owned(L, mid, D) /\ All(L) = All(M) /\ L.kpgdir = M.kpgdir /\ L.stacks = M.stacks
  BY <1>1, LeavePage
<1>4. Taken \in Owner /\ Free \in Owner /\ Held(Taken) /\ ~Held(Free) /\ Free[1] = "free"
  BY Triple DEF Taken, Free, Owner, Held
<1>5. mid \in [All(M) -> Owner] /\ mid[p] = Taken /\ \A q \in All(M) : q # p => mid[q] = own[q]
  BY <1>1, <1>4, NowIs
<1>6. Wrote(M, t, j, ZERO, L)
  BY <1>1, Cells, CellWritten
<1> HIDE DEF L, mid
<1>7. Owned(N, new, D) /\ All(N) = All(L)
  BY <1>1, <1>3, <1>4, <1>5, Release
<1>8. new[p] = Free /\ \A q \in All(M) : q # p => new[q] = own[q]
  BY <1>1, <1>4, <1>5, NowIs
<1>9. N.kpgdir = L.kpgdir /\ N.stacks = L.stacks /\ \A q \in All(M) : q # p => N.mem[q] = L.mem[q]
  <2>1. L \in Ram
    BY <1>3 DEF Owned
  <2>2. SetPage(L, p, Filled(JUNK)).mem = kfree(L, p).mem /\ N.kpgdir = L.kpgdir /\ N.stacks = L.stacks
    <3> DEFINE F == Filled(JUNK)
               l == <<p>> \o L.free
    <3>1. SetPage(L, p, F) = [L EXCEPT !.mem = [L.mem EXCEPT ![p] = F]]
      BY DEF SetPage
    <3>2. N = [L EXCEPT !.mem = [L.mem EXCEPT ![p] = F], !.free = l]
      BY DEF kfree
    <3>3. SetPage(L, p, F).mem = [L.mem EXCEPT ![p] = F]
      <4> HIDE DEF L, F, l
      <4> QED BY <2>1, <3>1 DEF Ram
    <3>4. N.mem = [L.mem EXCEPT ![p] = F] /\ N.kpgdir = L.kpgdir /\ N.stacks = L.stacks
      <4> HIDE DEF L, F, l, N
      <4> QED BY <2>1, <3>2 DEF Ram
    <3>5. N = kfree(L, p) /\ F = Filled(JUNK)
      OBVIOUS
    <3> HIDE DEF L, F, N
    <3> QED BY <3>3, <3>4, <3>5
  <2>3. \A q \in All(L) : SetPage(L, p, Filled(JUNK)).mem[q] = IF q = p THEN Filled(JUNK) ELSE L.mem[q]
    BY <1>1, <1>3, <2>1, Cells, Written
  <2> QED BY <1>3, <2>2, <2>3
<1> HIDE DEF N, new
<1>10. Same(M, own, N, new, {})
  <2>1. ~Held(own[p]) /\ ~Held(new[p])
    BY <1>1, <1>4, <1>8 DEF Held
  <2> QED BY <1>3, <1>7, <1>8, <1>9, <2>1 DEF Same
<1>11. /\ \A q \in Of(new, N, "page") : q \in Of(own, M, "page") /\ new[q] = own[q]
       /\ \A q \in Of(new, N, "table") : q \in Of(own, M, "table") /\ new[q] = own[q]
  BY <1>3, <1>4, <1>7, <1>8 DEF Of
<1>12. \A q \in D : N.mem[q] = M.mem[q]
  BY <1>1, <1>6, <1>9 DEF Wrote
<1>13. \A q \in Of(own, M, "table") : \A i \in Index : N.mem[q][i] = IF q = t /\ i = j THEN ZERO ELSE M.mem[q][i]
  <2>1. \A q \in Of(own, M, "table") : q \in All(M) /\ q # p
    BY <1>1 DEF Of
  <2> QED BY <1>6, <1>9, <2>1 DEF Wrote
<1>14. FreesPage(M, own, D, t, j, N)
  BY <1>7, <1>10, <1>11, <1>12, <1>13 DEF FreesPage
<1> QED
  BY <1>2, <1>14

\* What an entry says.
IsEntry(M, own, d, v, c) ==
  \/ ~Present(M.mem[d][PDX(v)]) /\ c = ZERO
  \/ LET t == M.mem[d][PDX(v)][1]
     IN /\ Present(M.mem[d][PDX(v)]) /\ t \in Of(own, M, "table") /\ own[t] = <<"table", d, PDX(v)>>
        /\ walkpgdir(M, d, v, FALSE)[2] = t /\ c = M.mem[t][PTX(v)]
        /\ (Present(c) /\ v < KERNBASE) => c[1] \in Of(own, M, "page") /\ own[c[1]] = <<"page", t, PTX(v)>>
        /\ v >= KERNBASE => c[2] # "PU"
LEMMA Entries ==
  ASSUME NEW M, NEW own, NEW D, Owned(M, own, D), NEW d \in D, NEW v \in Vpn
  PROVE  IsEntry(M, own, d, v, PTE(M, d, v))
<1> DEFINE t == walkpgdir(M, d, v, FALSE)[2]
           c == PTE(M, d, v)
<1>1. Finds(M, own, d, v, t)
  BY Walked
<1>2. c = IF t = NULL THEN ZERO ELSE M.mem[t][PTX(v)]
  BY DEF PTE
<1>3. CASE ~Present(M.mem[d][PDX(v)]) /\ t = NULL
  BY <1>2, <1>3 DEF IsEntry
<1>4. CASE Present(M.mem[d][PDX(v)]) /\ t = M.mem[d][PDX(v)][1] /\ t # NULL /\ t \in Of(own, M, "table") /\ own[t] = <<"table", d, PDX(v)>>
  <2>1. PTX(v) \in Index /\ own[t][3] = PDX(v) /\ (User(own[t][3], PTX(v)) <=> v < KERNBASE)
    BY <1>4, Split, Triple
  <2>2. (Present(c) /\ v < KERNBASE) => c[1] \in All(M) /\ own[c[1]] = <<"page", t, PTX(v)>>
    <3> HIDE DEF t, c
    <3> QED BY <1>2, <1>4, <2>1 DEF Owned, PageCells
  <2>3. (Present(c) /\ v < KERNBASE) => c[1] \in Of(own, M, "page")
    <3> HIDE DEF t, c
    <3> QED BY <2>2, Triple DEF Of
  <2>4. v >= KERNBASE => c[2] # "PU"
    <3>1. v >= KERNBASE => ~(v < KERNBASE)
      BY Sizes DEF Vpn
    <3> HIDE DEF t, c
    <3> QED BY <1>2, <1>4, <2>1, <3>1 DEF Owned, KernelCells
  <2>5. c = M.mem[t][PTX(v)]
    BY <1>2, <1>4
  <2> HIDE DEF c
  <2>6. IsEntry(M, own, d, v, c)
    BY <1>4, <2>2, <2>3, <2>4, <2>5 DEF IsEntry
  <2> QED BY <2>6 DEF c
<1> QED
  BY <1>1, <1>3, <1>4 DEF Finds

\* The entries of a directory d as they are after that of v has been cleared.
FewerEntries(M, d, v, N) ==
  /\ N.mem[d] = M.mem[d]
  /\ \A u \in Vpn : Present(PTE(N, d, u)) => u # v /\ Present(PTE(M, d, u))
Unmaps(M, own, D, d, v, w, x) ==
  \/ v < w[2] /\ x = w
  \/ v >= w[2] /\ ~Present(M.mem[d][PDX(v)]) /\ x[1] = M /\ x[2] = v + PGSIZE
  \/ v >= w[2] /\ Present(M.mem[d][PDX(v)]) /\ ~Present(PTE(M, d, v)) /\ x = w
  \/ /\ v >= w[2] /\ Present(M.mem[d][PDX(v)]) /\ x[2] = v + 1 /\ FewerEntries(M, d, v, x[1])
     /\ \E new : Owned(x[1], new, D) /\ Same(M, own, x[1], new, {})
LEMMA Unmapped ==
  ASSUME NEW M, NEW own, NEW D, Owned(M, own, D), NEW d \in D, NEW v \in Vpn, v < KERNBASE,
         NEW w, w[1] = M, w[2] \in Nat
  PROVE  Unmaps(M, own, D, d, v, w, UnmapNext(w, d, v))
<1> DEFINE x == UnmapNext(w, d, v)
           c == PTE(M, d, v)
           t == M.mem[d][PDX(v)][1]
           j == PTX(v)
<1>0. v \in Nat
  BY MemoryAssumption DEF Vpn
<1>1. CASE v < w[2]
  <2>1. x = w
    BY <1>1 DEF UnmapNext
  <2> HIDE DEF x
  <2> QED BY <1>1, <2>1 DEF Unmaps, x
<1>2. CASE v >= w[2] /\ walkpgdir(M, d, v, FALSE)[2] = NULL
  <2>1. ~Present(M.mem[d][PDX(v)])
    BY <1>2, Walked DEF Finds
  <2>2. x = <<M, v + PGSIZE>>
    BY <1>0, <1>2 DEF UnmapNext
  <2>3. x[1] = M /\ x[2] = v + PGSIZE
    BY <2>2
  <2> HIDE DEF x
  <2> QED BY <1>2, <2>1, <2>3 DEF Unmaps, x
<1>3. CASE v >= w[2] /\ walkpgdir(M, d, v, FALSE)[2] # NULL /\ ~Present(c)
  <2>1. Present(M.mem[d][PDX(v)])
    BY <1>3, Walked DEF Finds
  <2>2. x = w
    BY <1>0, <1>3 DEF UnmapNext
  <2> HIDE DEF x
  <2> QED BY <1>3, <2>1, <2>2 DEF Unmaps, x
<1>4. CASE v >= w[2] /\ walkpgdir(M, d, v, FALSE)[2] # NULL /\ Present(c)
  <2>1. Present(M.mem[d][PDX(v)])
    BY <1>4, Walked DEF Finds
  <2>2. IsEntry(M, own, d, v, c)
    BY Entries
  <2>3. /\ t \in Of(own, M, "table") /\ own[t] = <<"table", d, PDX(v)>> /\ c = M.mem[t][j] /\ walkpgdir(M, d, v, FALSE)[2] = t
        /\ c[1] \in Of(own, M, "page") /\ own[c[1]] = <<"page", t, j>>
    <3> HIDE DEF c
    <3> QED BY <1>4, <2>1, <2>2 DEF IsEntry
  <2> DEFINE p == c[1]
             N == SetCell(kfree(M, p), t, j, ZERO)
  <2>4. kfree(M, p).mem[d] = M.mem[d]
    <3>1. M \in Ram /\ p # d /\ d \in All(M) /\ p \in All(M)
      <4>1. M \in Ram /\ d \in All(M) /\ Held(own[d])
        BY DEF Owned
      <4>2. p \in All(M) /\ own[p] = <<"page", t, j>>
        BY <2>3 DEF Of
      <4> HIDE DEF p, t, j
      <4>3. ~Held(own[p])
        BY <4>2, Triple DEF Held
      <4> QED BY <4>1, <4>2, <4>3
    <3>2. kfree(M, p).mem = [M.mem EXCEPT ![p] = Filled(JUNK)]
      <4> HIDE DEF p
      <4> QED BY <3>1 DEF kfree, Ram
    <3>3. d \in DOMAIN M.mem
      <4>1. M.mem \in Seq(Contents)
        BY <3>1 DEF Ram
      <4> QED BY <3>1, <4>1, LenProperties DEF All
    <3> HIDE DEF p
    <3> QED BY <3>1, <3>2, <3>3
  <2>5. walkpgdir(kfree(M, p), d, v, FALSE)[2] = t
    BY <2>1, <2>4 DEF walkpgdir
  <2>6. x = <<N, v + 1>>
    <3>1. x = <<SetPTE(kfree(M, p), d, v, ZERO), v + 1>>
      BY <1>0, <1>4 DEF UnmapNext
    <3>2. SetPTE(kfree(M, p), d, v, ZERO) = N
      BY <2>5 DEF SetPTE, SetCell
    <3> QED BY <3>1, <3>2
  <2>7. FreesPage(M, own, D, t, j, N)
    BY <2>3, FreedPage
  <2> HIDE DEF N, p, x, c
  <2>8. FewerEntries(M, d, v, N)
    <3>1. N.mem[d] = M.mem[d]
      BY <2>7 DEF FreesPage
    <3>2. ASSUME NEW u \in Vpn, Present(PTE(N, d, u)) PROVE u # v /\ Present(PTE(M, d, u))
      <4>1. Finds(M, own, d, u, walkpgdir(M, d, u, FALSE)[2])
        BY Walked
      <4>2. walkpgdir(N, d, u, FALSE)[2] = walkpgdir(M, d, u, FALSE)[2]
        BY <3>1 DEF walkpgdir
      <4> DEFINE s == walkpgdir(M, d, u, FALSE)[2]
      <4> HIDE DEF s
      <4>3. s # NULL
        BY <3>2, <4>2 DEF PTE, s, Present, ZERO
      <4>4. s \in Of(own, M, "table") /\ s = M.mem[d][PDX(u)][1]
        BY <4>1, <4>3 DEF Finds, s
      <4>5. PTE(N, d, u) = N.mem[s][PTX(u)] /\ PTE(M, d, u) = M.mem[s][PTX(u)]
        BY <4>2, <4>3 DEF PTE, s
      <4>6. PTX(u) \in Index
        BY Split
      <4>7. N.mem[s][PTX(u)] = IF s = t /\ PTX(u) = j THEN ZERO ELSE M.mem[s][PTX(u)]
        BY <2>7, <4>4, <4>6 DEF FreesPage
      <4>8. ~Present(ZERO)
        BY DEF Present, ZERO
      <4>9. ~(s = t /\ PTX(u) = j)
        BY <3>2, <4>5, <4>7, <4>8
      <4>10. u # v
        BY <4>4, <4>9
      <4> QED BY <3>2, <4>5, <4>7, <4>9, <4>10
    <3> QED BY <3>1, <3>2 DEF FewerEntries
  <2>9. x[1] = N /\ x[2] = v + 1
    BY <2>6
  <2>10. \E new : Owned(N, new, D) /\ Same(M, own, N, new, {})
    BY <2>7 DEF FreesPage
  <2> QED BY <1>4, <2>1, <2>8, <2>9, <2>10 DEF Unmaps, x
<1>5. v < w[2] \/ v >= w[2]
  BY <1>0
<1> HIDE DEF x, c
<1> QED
  BY <1>1, <1>2, <1>3, <1>4, <1>5 DEF x, c

\* What is true when the entries below v have been gone through, from 0 on: a table that is missing is
\* met at its first entry, so what is passed over is that table's, and nothing else.
Cleared(d, v, w) ==
  /\ \A u \in Vpn : (u < KERNBASE /\ (u < v \/ u < w[2])) => ~Present(PTE(w[1], d, u))
  /\ w[2] > v => w[2] % PGSIZE = 0
  /\ w[2] <= v /\ v < KERNBASE => v % PGSIZE = 0 \/ Present(w[1].mem[d][PDX(v)])
LEMMA Multiple ==
  ASSUME NEW v \in Nat, v % PGSIZE = 0
  PROVE  (v + PGSIZE) % PGSIZE = 0
<1>0. PGSIZE \in Nat \ {0}
  BY MemoryAssumption
<1>1. v = PGSIZE * (v \div PGSIZE) /\ v \div PGSIZE \in Nat
  BY <1>0
<1>2. v + PGSIZE = PGSIZE * ((v \div PGSIZE) + 1)
  BY <1>0, <1>1
<1>3. \A n \in Nat : (PGSIZE * n) % PGSIZE = 0
  BY <1>0
<1> QED
  BY <1>1, <1>2, <1>3
LEMMA ClearedMore ==
  ASSUME NEW M, NEW own, NEW D, Owned(M, own, D), NEW d \in D, NEW v \in Vpn, v < KERNBASE,
         NEW w, w[1] = M, w[2] \in Nat, Cleared(d, v, w),
         NEW x, Unmaps(M, own, D, d, v, w, x)
  PROVE  Cleared(d, v + 1, x)
<1>0. PGSIZE \in Nat \ {0} /\ v \in Nat /\ KERNBASE \in Nat /\ Vpn \subseteq Nat
  BY MemoryAssumption DEF Vpn
<1>n. (v + 1) % PGSIZE = 0 \/ PDX(v + 1) = PDX(v)
  BY <1>0 DEF PDX
<1>s. \A u \in Vpn : u < v + 1 => u = v \/ u < v
  BY <1>0
<1>c. \A u \in Vpn : (u < KERNBASE /\ (u < v \/ u < w[2])) => ~Present(PTE(M, d, u))
  BY DEF Cleared
<1>1. CASE v < w[2] /\ x = w
  <2>1. w[2] % PGSIZE = 0
    BY <1>0, <1>1 DEF Cleared
  <2>2. w[2] <= v + 1 => w[2] = v + 1
    BY <1>0, <1>1
  <2>3. \A u \in Vpn : (u < KERNBASE /\ (u < v + 1 \/ u < w[2])) => ~Present(PTE(M, d, u))
    BY <1>1, <1>s, <1>c
  <2>4. w[2] <= v + 1 => (v + 1) % PGSIZE = 0
    BY <2>1, <2>2
  <2> QED BY <1>1, <2>1, <2>3, <2>4 DEF Cleared
<1>2. CASE v >= w[2] /\ ~Present(M.mem[d][PDX(v)]) /\ x[1] = M /\ x[2] = v + PGSIZE
  <2>1. v % PGSIZE = 0
    BY <1>0, <1>2 DEF Cleared
  <2>2. (v + PGSIZE) % PGSIZE = 0
    BY <1>0, <2>1, Multiple
  <2>3. ASSUME NEW u \in Vpn, u < v + PGSIZE, u >= v PROVE ~Present(PTE(M, d, u))
    <3>1. PDX(u) = PDX(v)
      BY <1>0, <2>1, <2>3 DEF PDX
    <3>2. PTE(M, d, u) = ZERO
      <4>1. walkpgdir(M, d, u, FALSE)[2] = NULL
        BY <1>2, <3>1 DEF walkpgdir
      <4> QED BY <4>1 DEF PTE
    <3>3. ~Present(ZERO)
      BY DEF Present, ZERO
    <3> QED BY <3>2, <3>3
  <2>4. \A u \in Vpn : (u < KERNBASE /\ (u < v + 1 \/ u < x[2])) => ~Present(PTE(M, d, u))
    <3> SUFFICES ASSUME NEW u \in Vpn, u < KERNBASE, u < v + 1 \/ u < x[2] PROVE ~Present(PTE(M, d, u))
      OBVIOUS
    <3>1. CASE u < v
      BY <1>c, <3>1
    <3>2. CASE ~(u < v)
      <4>1. u >= v /\ u < v + PGSIZE
        BY <1>0, <1>2, <3>2
      <4> QED BY <2>3, <4>1
    <3> QED BY <3>1, <3>2
  <2>5. x[2] <= v + 1 => (v + 1) % PGSIZE = 0
    <3>1. x[2] <= v + 1 => v + 1 = v + PGSIZE
      BY <1>0, <1>2
    <3> QED BY <2>2, <3>1
  <2> QED BY <1>2, <2>2, <2>4, <2>5 DEF Cleared
<1>3. CASE v >= w[2] /\ Present(M.mem[d][PDX(v)]) /\ ~Present(PTE(M, d, v)) /\ x = w
  <2>1. \A u \in Vpn : (u < KERNBASE /\ (u < v + 1 \/ u < w[2])) => ~Present(PTE(M, d, u))
    BY <1>3, <1>s, <1>c
  <2>2. ~(w[2] > v + 1)
    BY <1>0, <1>3
  <2>3. (v + 1) % PGSIZE = 0 \/ Present(M.mem[d][PDX(v + 1)])
    BY <1>3, <1>n
  <2> QED BY <1>3, <2>1, <2>2, <2>3 DEF Cleared
<1>4. CASE v >= w[2] /\ Present(M.mem[d][PDX(v)]) /\ x[2] = v + 1 /\ FewerEntries(M, d, v, x[1])
  <2>1. \A u \in Vpn : Present(PTE(x[1], d, u)) => u # v /\ Present(PTE(M, d, u))
    BY <1>4 DEF FewerEntries
  <2>2. \A u \in Vpn : (u < KERNBASE /\ u < v + 1) => ~Present(PTE(x[1], d, u))
    BY <1>s, <1>c, <2>1
  <2>3. ~(x[2] > v + 1)
    BY <1>0, <1>4
  <2>4. (v + 1) % PGSIZE = 0 \/ Present(x[1].mem[d][PDX(v + 1)])
    BY <1>4, <1>n DEF FewerEntries
  <2> QED BY <1>4, <2>2, <2>3, <2>4 DEF Cleared
<1> QED
  BY <1>1, <1>2, <1>3, <1>4 DEF Unmaps

UnmapTurns(x0, d, from, n, w) == w = [k \in 0..n |-> IF k = 0 THEN x0 ELSE UnmapNext(w[k - 1], d, from + k - 1)]
LEMMA UnmapTurnsExist ==
  ASSUME NEW x0, NEW d, NEW from \in Nat
  PROVE  \A n \in Nat : \E w : UnmapTurns(x0, d, from, n, w)
<1> DEFINE S == {n \in Nat : \E w : UnmapTurns(x0, d, from, n, w)}
<1>1. 0 \in S
  <2> DEFINE w == [k \in 0..0 |-> x0]
  <2>1. UnmapTurns(x0, d, from, 0, w)
    BY DEF UnmapTurns
  <2> HIDE DEF w
  <2> QED BY <2>1
<1>2. ASSUME NEW n \in Nat, n \in S
      PROVE  n + 1 \in S
  <2>1. PICK g : UnmapTurns(x0, d, from, n, g)
    BY <1>2
  <2> DEFINE w == [k \in 0..(n + 1) |-> IF k = n + 1 THEN UnmapNext(g[n], d, from + n) ELSE g[k]]
  <2>2. \A k \in 0..n : w[k] = g[k] /\ g[k] = IF k = 0 THEN x0 ELSE UnmapNext(g[k - 1], d, from + k - 1)
    BY <2>1 DEF UnmapTurns
  <2>3. \A k \in 0..n : w[k] = IF k = 0 THEN x0 ELSE UnmapNext(w[k - 1], d, from + k - 1)
    <3> SUFFICES ASSUME NEW k \in 0..n
                 PROVE  w[k] = IF k = 0 THEN x0 ELSE UnmapNext(w[k - 1], d, from + k - 1)
      OBVIOUS
    <3> HIDE DEF w
    <3>1. CASE k = 0
      BY <2>2, <3>1
    <3>2. CASE k # 0
      <4>1. k - 1 \in 0..n
        BY <3>2
      <4>2. w[k] = g[k] /\ g[k] = UnmapNext(g[k - 1], d, from + k - 1) /\ w[k - 1] = g[k - 1]
        BY <2>2, <3>2, <4>1
      <4> QED BY <3>2, <4>2
    <3> QED BY <3>1, <3>2
  <2>4. w[n + 1] = UnmapNext(w[n], d, from + n)
    BY <2>2
  <2>5. w = [k \in 0..(n + 1) |-> w[k]]
    OBVIOUS
  <2> HIDE DEF w
  <2>6. \A k \in 0..(n + 1) : k \in 0..n \/ k = n + 1
    OBVIOUS
  <2>7. n + 1 # 0 /\ n + 1 - 1 = n /\ from + (n + 1) - 1 = from + n
    OBVIOUS
  <2>8. \A k \in 0..(n + 1) : w[k] = IF k = 0 THEN x0 ELSE UnmapNext(w[k - 1], d, from + k - 1)
    BY <2>3, <2>4, <2>6, <2>7
  <2>9. UnmapTurns(x0, d, from, n + 1, w)
    BY <2>5, <2>8 DEF UnmapTurns
  <2> QED BY <2>9
<1> HIDE DEF S
<1>3. Nat \subseteq S
  BY <1>1, <1>2, Induct
<1> QED
  BY <1>3 DEF S

\* Pages are freed; all of those for users, if it is from 0 on and there are no others.
Frees(M, own, D, d, all, N) ==
  \E new : Owned(N, new, D) /\ Same(M, own, N, new, {}) /\ (all => NoUser(N, new, d))
LEMMA UnmappedAll ==
  ASSUME NEW M, NEW own, NEW D, Owned(M, own, D), NEW d \in D, NEW from \in Nat, NEW to \in Nat, from <= to, to <= KERNBASE
  PROVE  Frees(M, own, D, d, from = 0 /\ to = KERNBASE, Unmap(M, d, from, to))
<1> DEFINE x0 == <<M, from>>
           m == to - from
           f == CHOOSE w : UnmapTurns(x0, d, from, m, w)
           P(k) == /\ f[k][2] \in Nat
                   /\ \E new : Owned(f[k][1], new, D) /\ Same(M, own, f[k][1], new, {})
                   /\ from = 0 => Cleared(d, k, f[k])
           S == {k \in Nat : k <= m => P(k)}
<1>1. m \in Nat /\ KERNBASE \in Nat /\ \A k \in Nat : k + 1 <= m => from + k \in Vpn /\ from + k < KERNBASE /\ k <= m
  BY Below DEF Vpn
<1>2. Unmap(M, d, from, to) = f[m][1]
  BY DEF Unmap, UnmapTurns
<1>3. UnmapTurns(x0, d, from, m, f)
  BY <1>1, UnmapTurnsExist
<1>4. x0[1] = M /\ x0[2] = from
  BY Both, Zenon
<1> HIDE DEF x0, f, m
<1>5. \A k \in 0..m : f[k] = IF k = 0 THEN x0 ELSE UnmapNext(f[k - 1], d, from + k - 1)
  BY <1>3 DEF UnmapTurns
<1>6. 0 \in S
  <2>1. f[0] = x0
    BY <1>1, <1>5
  <2>2. Same(M, own, M, own, {})
    BY DEF Same
  <2>3. from = 0 => Cleared(d, 0, x0)
    <3>1. PGSIZE \in Nat \ {0}
      BY Sizes
    <3>2. 0 % PGSIZE = 0
      BY <3>1
    <3>3. \A u \in Vpn : ~(u < 0)
      BY DEF Vpn
    <3> QED BY <1>4, <3>2, <3>3 DEF Cleared
  <2>4. P(0)
    BY <1>4, <2>1, <2>2, <2>3
  <2> QED BY <2>4
<1>7. ASSUME NEW k \in Nat, k \in S PROVE k + 1 \in S
  <2> SUFFICES ASSUME k + 1 <= m PROVE P(k + 1)
    OBVIOUS
  <2>1. P(k) /\ from + k \in Vpn /\ from + k < KERNBASE
    BY <1>1, <1>7
  <2>2. k + 1 \in 0..m /\ k + 1 # 0 /\ k + 1 - 1 = k /\ from + (k + 1) - 1 = from + k
    BY <1>1
  <2>3. f[k + 1] = UnmapNext(f[k], d, from + k)
    BY <1>5, <2>2
  <2>4. PICK new : Owned(f[k][1], new, D) /\ Same(M, own, f[k][1], new, {})
    BY <2>1
  <2>5. Unmaps(f[k][1], new, D, d, from + k, f[k], f[k + 1])
    BY <2>1, <2>3, <2>4, Unmapped
  <2>6. f[k + 1][2] \in Nat /\ \E last : Owned(f[k + 1][1], last, D) /\ Same(f[k][1], new, f[k + 1][1], last, {})
    <3>1. PGSIZE \in Nat
      BY Sizes
    <3>2. Same(f[k][1], new, f[k][1], new, {})
      BY DEF Same
    <3>3. f[k + 1][2] \in Nat
      BY <2>1, <2>5, <3>1 DEF Unmaps
    <3>4. f[k + 1][1] = f[k][1] \/ \E last : Owned(f[k + 1][1], last, D) /\ Same(f[k][1], new, f[k + 1][1], last, {})
      BY <2>5 DEF Unmaps
    <3> QED BY <2>4, <3>2, <3>3, <3>4
  <2>7. \E last : Owned(f[k + 1][1], last, D) /\ Same(M, own, f[k + 1][1], last, {})
    <3>1. PICK last : Owned(f[k + 1][1], last, D) /\ Same(f[k][1], new, f[k + 1][1], last, {})
      BY <2>6
    <3>2. Same(M, own, f[k + 1][1], last, {})
      BY <2>4, <3>1 DEF Same
    <3> QED BY <3>1, <3>2
  <2>8. from = 0 => Cleared(d, k + 1, f[k + 1])
    <3> SUFFICES ASSUME from = 0 PROVE Cleared(d, k + 1, f[k + 1])
      OBVIOUS
    <3>1. from + k = k
      OBVIOUS
    <3> QED BY <2>1, <2>4, <2>5, <3>1, ClearedMore
  <2> QED BY <2>6, <2>7, <2>8
<1>8. m \in S
  <2> HIDE DEF S
  <2> QED BY <1>1, <1>6, <1>7, Induct
<1>9. P(m)
  BY <1>1, <1>8
<1>10. PICK new : Owned(f[m][1], new, D) /\ Same(M, own, f[m][1], new, {})
  BY <1>9
<1>11. ASSUME from = 0, to = KERNBASE PROVE NoUser(f[m][1], new, d)
  <2> DEFINE N == f[m][1]
  <2>1. m = KERNBASE /\ Cleared(d, m, f[m])
    BY <1>1, <1>9, <1>11 DEF m
  <2>2. \A u \in Vpn : u < KERNBASE => ~Present(PTE(N, d, u))
    BY <2>1 DEF Cleared
  <2> SUFFICES ASSUME NEW p \in Of(new, N, "page"), new[new[p][2]][2] = d PROVE FALSE
    BY DEF NoUser
  <2> DEFINE t == new[p][2]
             j == new[p][3]
             k == new[t][3]
             u == k * PGSIZE + j
  <2> HIDE DEF N
  <2>3. t \in Of(new, N, "table") /\ j \in Index /\ User(k, j) /\ Present(N.mem[t][j])
    BY <1>10 DEF Owned, PageCells, N
  <2>4. k \in Index /\ Present(N.mem[d][k]) /\ N.mem[d][k][1] = t
    BY <1>10, <2>3 DEF Owned, TableCells, N
  <2> HIDE DEF t, j, k
  <2>5. u \in Vpn /\ PDX(u) = k /\ PTX(u) = j /\ u < KERNBASE
    BY <2>3, <2>4, Join DEF User
  <2> HIDE DEF u
  <2>6. Finds(N, new, d, u, walkpgdir(N, d, u, FALSE)[2])
    BY <1>10, <2>5, Walked DEF N
  <2>7. walkpgdir(N, d, u, FALSE)[2] = t /\ t # NULL
    BY <2>4, <2>5, <2>6 DEF Finds
  <2>8. PTE(N, d, u) = N.mem[t][j]
    BY <2>5, <2>7 DEF PTE
  <2> QED BY <2>2, <2>3, <2>5, <2>8
<1> HIDE DEF P, S
<1> QED
  BY <1>2, <1>10, <1>11 DEF Frees
LEMMA SizeBounds ==
  ASSUME NEW n \in 0..(KERNBASE * PGSIZE)
  PROVE  n \in Nat /\ PGROUNDUP(n) \in 0..KERNBASE /\ PGROUNDUP(0) = 0 /\ PGROUNDUP(KERNBASE * PGSIZE) = KERNBASE
         /\ KERNBASE * PGSIZE \in Nat \ {0} /\ \A v \in Nat : v * PGSIZE < n => v < KERNBASE
<1> DEFINE P == PGSIZE
           K == KERNBASE
<1>0. P \in Nat \ {0} /\ K \in Nat \ {0}
  BY Sizes
<1>1. K * P \in Nat \ {0} /\ n \in Nat
  BY <1>0
<1>2. \A m \in Nat : m <= K * P => (m + P - 1) \div P \in 0..K
  BY <1>0
<1>3. (0 + P - 1) \div P = 0 /\ (K * P + P - 1) \div P = K
  BY <1>0
<1>4. \A v \in Nat : v * P < n => v < K
  BY <1>0, <1>1
<1> QED
  BY <1>0, <1>1, <1>2, <1>3, <1>4 DEF PGROUNDUP
LEMMA Deallocated ==
  ASSUME NEW M, NEW own, NEW D, Owned(M, own, D), NEW d \in D,
         NEW oldsz \in 0..(KERNBASE * PGSIZE), NEW newsz \in 0..(KERNBASE * PGSIZE)
  PROVE  Frees(M, own, D, d, newsz = 0 /\ oldsz = KERNBASE * PGSIZE, deallocuvm(M, d, oldsz, newsz))
<1> DEFINE a == PGROUNDUP(newsz)
           b == PGROUNDUP(oldsz)
           all == newsz = 0 /\ oldsz = KERNBASE * PGSIZE
<1>1. CASE newsz >= oldsz
  <2>1. deallocuvm(M, d, oldsz, newsz) = M
    BY <1>1 DEF deallocuvm
  <2>2. Same(M, own, M, own, {})
    BY DEF Same
  <2>3. ~all
    BY <1>1, SizeBounds
  <2> HIDE DEF all
  <2> QED BY <2>1, <2>2, <2>3 DEF Frees, all
<1>2. CASE ~(newsz >= oldsz)
  <2>1. deallocuvm(M, d, oldsz, newsz) = Unmap(M, d, a, b)
    BY <1>2 DEF deallocuvm
  <2>2. a \in Nat /\ b \in Nat /\ b <= KERNBASE
    BY SizeBounds, Sizes
  <2>3. a <= b
    <3>1. PGSIZE \in Nat \ {0} /\ newsz \in Nat /\ oldsz \in Nat /\ newsz < oldsz
      BY <1>2, SizeBounds, Sizes
    <3> QED BY <3>1 DEF PGROUNDUP
  <2>4. all => a = 0 /\ b = KERNBASE
    BY SizeBounds
  <2> HIDE DEF a, b, all
  <2>5. Frees(M, own, D, d, a = 0 /\ b = KERNBASE, Unmap(M, d, a, b))
    BY <2>2, <2>3, UnmappedAll
  <2>6. Frees(M, own, D, d, all, Unmap(M, d, a, b))
    BY <2>4, <2>5 DEF Frees
  <2> QED BY <2>1, <2>6 DEF all
<1> QED
  BY <1>1, <1>2
LEMMA FreedMem ==
  ASSUME NEW M \in Ram, NEW p \in All(M)
  PROVE  LET N == kfree(M, p)
         IN /\ \A q \in All(M) : q # p => N.mem[q] = M.mem[q]
            /\ N.kpgdir = M.kpgdir /\ N.stacks = M.stacks /\ N.panic = M.panic
<1> DEFINE F == Filled(JUNK)
           l == <<p>> \o M.free
           N == kfree(M, p)
<1>1. M.mem \in Seq(Contents) /\ DOMAIN M.mem = 1..Len(M.mem)
  BY LenProperties DEF Ram
<1>2. N = [M EXCEPT !.mem = [M.mem EXCEPT ![p] = F], !.free = l]
  BY DEF kfree
<1> HIDE DEF N, F, l
<1>3. N.mem = [M.mem EXCEPT ![p] = F] /\ N.kpgdir = M.kpgdir /\ N.stacks = M.stacks /\ N.panic = M.panic
  BY <1>2 DEF Ram
<1>4. \A q \in All(M) : q # p => N.mem[q] = M.mem[q]
  BY <1>1, <1>3 DEF All
<1> QED
  BY <1>3, <1>4 DEF N

\* The tables of a directory d, which nobody has any more, up to k are freed.
TablesTo(M, own, D, d, k, N) ==
  \E new : /\ Owned(N, new, D) /\ Same(M, own, N, new, Tables(M, d)) /\ N.mem[d] = M.mem[d]
           /\ \A j \in Index : Present(M.mem[d][j]) => new[M.mem[d][j][1]] = IF j < k THEN Free ELSE Taken
LEMMA TableFreed ==
  ASSUME NEW M, NEW own, NEW D, NEW d \in All(M), d \notin Tables(M, d), Tables(M, d) \subseteq All(M) \ D,
         \A i, j \in Index : (Present(M.mem[d][i]) /\ Present(M.mem[d][j]) /\ M.mem[d][i][1] = M.mem[d][j][1]) => i = j,
         NEW k \in Index, NEW N, TablesTo(M, own, D, d, k, N)
  PROVE  TablesTo(M, own, D, d, k + 1, FreeTable(N, d, k))
<1> DEFINE t == M.mem[d][k][1]
           L == FreeTable(N, d, k)
<1>0. \A j \in Index : j < k + 1 <=> j < k \/ j = k
  BY DEF Index
<1>1. PICK new : /\ Owned(N, new, D) /\ Same(M, own, N, new, Tables(M, d)) /\ N.mem[d] = M.mem[d]
                 /\ \A j \in Index : Present(M.mem[d][j]) => new[M.mem[d][j][1]] = IF j < k THEN Free ELSE Taken
  BY DEF TablesTo
<1>2. CASE ~Present(M.mem[d][k])
  <2>1. L = N
    BY <1>1, <1>2 DEF FreeTable
  <2>2. \A j \in Index : Present(M.mem[d][j]) => new[M.mem[d][j][1]] = IF j < k + 1 THEN Free ELSE Taken
    BY <1>0, <1>1, <1>2
  <2> HIDE DEF L
  <2> QED BY <1>1, <2>1, <2>2 DEF TablesTo, L
<1>3. CASE Present(M.mem[d][k])
  <2>1. L = kfree(N, t)
    BY <1>1, <1>3 DEF FreeTable
  <2>2. t \in Tables(M, d)
    BY <1>3 DEF Tables, Index
  <2>3. Held(Taken) /\ ~Held(Free)
    BY Triple DEF Taken, Held, Free
  <2>4. t \in All(N) /\ t \notin D /\ t # d /\ new[t] = Taken /\ All(N) = All(M)
    <3>1. ~(k < k)
      BY DEF Index
    <3> QED BY <1>1, <1>3, <2>2, <3>1 DEF Same
  <2> DEFINE last == Now(new, t, Free)
  <2> HIDE DEF t
  <2>5. Owned(L, last, D) /\ All(L) = All(N)
    BY <1>1, <2>1, <2>3, <2>4, Release
  <2>6. last[t] = Free /\ \A q \in All(M) : q # t => last[q] = new[q]
    BY <1>1, <2>4 DEF Now, Owned
  <2>7. L.mem[d] = N.mem[d] /\ L.kpgdir = N.kpgdir /\ L.stacks = N.stacks
    <3>1. N \in Ram
      BY <1>1 DEF Owned
    <3> QED BY <2>1, <2>4, <3>1, FreedMem
  <2> HIDE DEF L, last
  <2>8. Same(M, own, L, last, Tables(M, d))
    BY <1>1, <2>2, <2>4, <2>5, <2>6, <2>7 DEF Same
  <2>9. \A j \in Index : Present(M.mem[d][j]) => last[M.mem[d][j][1]] = IF j < k + 1 THEN Free ELSE Taken
    <3> SUFFICES ASSUME NEW j \in Index, Present(M.mem[d][j]) PROVE last[M.mem[d][j][1]] = IF j < k + 1 THEN Free ELSE Taken
      OBVIOUS
    <3>1. CASE j = k
      BY <1>0, <2>6, <3>1 DEF t
    <3>2. CASE j # k
      <4>1. M.mem[d][j][1] # t
        BY <1>3, <3>2 DEF t
      <4>2. M.mem[d][j][1] \in All(M)
        BY DEF Tables, Index
      <4> QED BY <1>0, <1>1, <2>6, <3>2, <4>1, <4>2
    <3> QED BY <3>1, <3>2
  <2> QED BY <1>1, <2>5, <2>7, <2>8, <2>9 DEF TablesTo, L
<1> QED
  BY <1>2, <1>3

FreeTurns(x0, d, n, w) == w = [k \in 0..n |-> IF k = 0 THEN x0 ELSE FreeTable(w[k - 1], d, k - 1)]
LEMMA FreeTurnsExist ==
  ASSUME NEW x0, NEW d
  PROVE  \A n \in Nat : \E w : FreeTurns(x0, d, n, w)
<1> DEFINE S == {n \in Nat : \E w : FreeTurns(x0, d, n, w)}
<1>1. 0 \in S
  <2> DEFINE w == [k \in 0..0 |-> x0]
  <2>1. FreeTurns(x0, d, 0, w)
    BY DEF FreeTurns
  <2> HIDE DEF w
  <2> QED BY <2>1
<1>2. ASSUME NEW n \in Nat, n \in S
      PROVE  n + 1 \in S
  <2>1. PICK g : FreeTurns(x0, d, n, g)
    BY <1>2
  <2> DEFINE w == [k \in 0..(n + 1) |-> IF k = n + 1 THEN FreeTable(g[n], d, n) ELSE g[k]]
  <2>2. \A k \in 0..n : w[k] = g[k] /\ g[k] = IF k = 0 THEN x0 ELSE FreeTable(g[k - 1], d, k - 1)
    BY <2>1 DEF FreeTurns
  <2>3. \A k \in 0..n : w[k] = IF k = 0 THEN x0 ELSE FreeTable(w[k - 1], d, k - 1)
    BY <2>2
  <2>4. w[n + 1] = FreeTable(w[n], d, n)
    BY <2>2
  <2>5. w = [k \in 0..(n + 1) |-> w[k]]
    OBVIOUS
  <2> HIDE DEF w
  <2>6. \A k \in 0..(n + 1) : k \in 0..n \/ k = n + 1
    OBVIOUS
  <2>7. n + 1 # 0 /\ n + 1 - 1 = n
    OBVIOUS
  <2>8. \A k \in 0..(n + 1) : w[k] = IF k = 0 THEN x0 ELSE FreeTable(w[k - 1], d, k - 1)
    BY <2>3, <2>4, <2>6, <2>7
  <2>9. FreeTurns(x0, d, n + 1, w)
    BY <2>5, <2>8 DEF FreeTurns
  <2> QED BY <2>9
<1> HIDE DEF S
<1>3. Nat \subseteq S
  BY <1>1, <1>2, Induct
<1> QED
  BY <1>3 DEF S

\* freevm: all that is reached from a directory is free, and so is the directory.
Freed(M, own, D, d, N) ==
  \E new : Owned(N, new, D \ {d}) /\ Same(M, own, N, new, {d}) /\ new[d] = Free
LEMMA FreedAll ==
  ASSUME NEW M, NEW own, NEW D, Owned(M, own, D), NEW d \in D
  PROVE  Freed(M, own, D, d, freevm(M, d))
<1> DEFINE L == deallocuvm(M, d, KERNBASE * PGSIZE, 0)
           f == CHOOSE w : FreeTurns(L, d, PGSIZE, w)
           E == D \ {d}
<1>0. PGSIZE \in Nat \ {0} /\ KERNBASE * PGSIZE \in 0..(KERNBASE * PGSIZE) /\ 0 \in 0..(KERNBASE * PGSIZE)
  <2>1. PGSIZE \in Nat \ {0} /\ KERNBASE \in Nat \ {0}
    BY Sizes
  <2> QED BY <2>1
<1>1. freevm(M, d) = kfree(f[PGSIZE], d)
  BY DEF freevm, FreeTurns
<1>2. FreeTurns(L, d, PGSIZE, f)
  BY <1>0, FreeTurnsExist
<1>3. Frees(M, own, D, d, TRUE, L)
  <2>1. Frees(M, own, D, d, 0 = 0 /\ KERNBASE * PGSIZE = KERNBASE * PGSIZE, L)
    BY <1>0, Deallocated
  <2> HIDE DEF L
  <2> QED BY <2>1 DEF Frees
<1> HIDE DEF f, L
<1>4. PICK mid : Owned(L, mid, D) /\ Same(M, own, L, mid, {}) /\ NoUser(L, mid, d)
  BY <1>3 DEF Frees
<1> DEFINE drop == Dropped(L, mid, d)
           T == Tables(L, d)
<1>5. Owned(L, drop, E) /\ T = Parts(L, mid, d)
  BY <1>4, DropRoot
<1>6. /\ All(L) = All(M) /\ d \in All(M) /\ Held(mid[d]) /\ mid[d] = own[d]
      /\ T \subseteq All(L) /\ \A q \in T : mid[q][1] = "table" /\ ~Held(mid[q]) /\ q # d
  <2>1. All(L) = All(M) /\ d \in All(M) /\ Held(mid[d])
    BY <1>4 DEF Same, Owned
  <2>2. mid[d] = own[d]
    BY <1>4, <2>1 DEF Same
  <2>3. T \subseteq All(L) /\ \A q \in T : mid[q][1] = "table"
    BY <1>5 DEF Parts, Of
  <2>4. \A q \in T : ~Held(mid[q])
    BY <2>3 DEF Held
  <2> HIDE DEF T
  <2> QED BY <2>1, <2>2, <2>3, <2>4
<1>7. drop[d] = Taken /\ \A q \in All(L) : drop[q] = IF q = d \/ q \in T THEN Taken ELSE mid[q]
  BY <1>5, <1>6 DEF Dropped
<1>8. T \subseteq All(L) \ E
  <2>1. \A q \in E : Held(mid[q])
    BY <1>4 DEF Owned
  <2> HIDE DEF T, E
  <2> QED BY <1>6, <2>1
<1>9. \A i, j \in Index : (Present(L.mem[d][i]) /\ Present(L.mem[d][j]) /\ L.mem[d][i][1] = L.mem[d][j][1]) => i = j
  <2> SUFFICES ASSUME NEW i \in Index, NEW j \in Index, Present(L.mem[d][i]), Present(L.mem[d][j]), L.mem[d][i][1] = L.mem[d][j][1]
               PROVE  i = j
    OBVIOUS
  <2>1. mid[L.mem[d][i][1]] = <<"table", d, i>> /\ mid[L.mem[d][j][1]] = <<"table", d, j>>
    BY <1>4 DEF Owned, TableCells
  <2>2. <<"table", d, i>>[3] = <<"table", d, j>>[3]
    BY <2>1
  <2> QED BY <2>2, Triple
<1> HIDE DEF drop
<1>10. \A k \in Nat : k <= PGSIZE => TablesTo(L, drop, E, d, k, f[k])
  <2> DEFINE S == {k \in Nat : k <= PGSIZE => TablesTo(L, drop, E, d, k, f[k])}
  <2>0. \A k \in 0..PGSIZE : f[k] = IF k = 0 THEN L ELSE FreeTable(f[k - 1], d, k - 1)
    BY <1>2 DEF FreeTurns
  <2>1. 0 \in S
    <3>1. f[0] = L
      BY <1>0, <2>0
    <3>2. \A j \in Index : Present(L.mem[d][j]) => L.mem[d][j][1] \in T
      BY DEF Tables, Index
    <3>3. \A j \in Index : ~(j < 0)
      BY DEF Index
    <3>4. \A j \in Index : Present(L.mem[d][j]) => drop[L.mem[d][j][1]] = IF j < 0 THEN Free ELSE Taken
      <4> HIDE DEF T
      <4> QED BY <1>6, <1>7, <3>2, <3>3
    <3>5. Same(L, drop, L, drop, Tables(L, d))
      BY DEF Same
    <3>6. TablesTo(L, drop, E, d, 0, L)
      BY <1>5, <3>4, <3>5 DEF TablesTo
    <3> QED BY <3>1, <3>6
  <2>2. ASSUME NEW k \in Nat, k \in S PROVE k + 1 \in S
    <3> SUFFICES ASSUME k + 1 <= PGSIZE PROVE TablesTo(L, drop, E, d, k + 1, f[k + 1])
      OBVIOUS
    <3>1. k <= PGSIZE /\ k \in Index /\ k + 1 \in 0..PGSIZE /\ k + 1 # 0 /\ k + 1 - 1 = k
      BY <1>0 DEF Index
    <3>2. f[k + 1] = FreeTable(f[k], d, k)
      BY <2>0, <3>1
    <3>3. TablesTo(L, drop, E, d, k, f[k])
      BY <2>2, <3>1
    <3>4. d \in All(L) /\ d \notin T
      BY <1>6
    <3> QED BY <1>8, <1>9, <3>1, <3>2, <3>3, <3>4, TableFreed
  <2> HIDE DEF S
  <2>3. Nat \subseteq S
    BY <2>1, <2>2, Induct
  <2> QED BY <2>3 DEF S
<1>11. TablesTo(L, drop, E, d, PGSIZE, f[PGSIZE])
  <2>1. PGSIZE <= PGSIZE
    BY <1>0
  <2> QED BY <1>0, <1>10, <2>1
<1> DEFINE N == f[PGSIZE]
<1>12. PICK new : /\ Owned(N, new, E) /\ Same(L, drop, N, new, T)
                  /\ \A j \in Index : Present(L.mem[d][j]) => new[L.mem[d][j][1]] = IF j < PGSIZE THEN Free ELSE Taken
  BY <1>11 DEF TablesTo
<1>13. \A q \in T : new[q] = Free
  <2>1. \A j \in Index : j < PGSIZE
    BY <1>0 DEF Index
  <2> QED BY <1>12, <2>1 DEF Tables, Index
<1>14. Held(Taken) /\ ~Held(Free)
  BY Triple DEF Taken, Held, Free
<1>15. new[d] = Taken /\ d \in All(N) /\ d \notin E /\ All(N) = All(M)
  BY <1>6, <1>7, <1>12, <1>14 DEF Same
<1> DEFINE K == kfree(N, d)
           last == Now(new, d, Free)
<1>16. Owned(K, last, E) /\ All(K) = All(N)
  BY <1>12, <1>14, <1>15, Release
<1>17. K.kpgdir = N.kpgdir /\ K.stacks = N.stacks
  <2>1. N \in Ram
    BY <1>12 DEF Owned
  <2> QED BY <1>15, <2>1, FreedMem
<1>18. last[d] = Free /\ \A q \in All(M) : q # d => last[q] = new[q]
  BY <1>12, <1>15 DEF Now, Owned
<1> HIDE DEF K, last, N, T
<1>19. Same(M, own, K, last, {d})
  <2>1. ASSUME NEW q \in All(M), q # d, Held(own[q]) \/ Held(last[q]) PROVE last[q] = own[q]
    <3>1. q \notin T
      <4> SUFFICES ASSUME q \in T PROVE FALSE
        OBVIOUS
      <4>1. ~Held(last[q])
        BY <1>13, <1>14, <1>18, <2>1
      <4>2. Held(own[q]) /\ ~Held(mid[q])
        BY <1>6, <2>1, <4>1
      <4> QED BY <1>4, <4>2 DEF Same
    <3>2. drop[q] = mid[q]
      BY <1>6, <1>7, <2>1, <3>1
    <3>3. Held(last[q]) => last[q] = mid[q]
      BY <1>6, <1>12, <1>18, <2>1, <3>1, <3>2 DEF Same
    <3>4. Held(mid[q]) => last[q] = mid[q]
      BY <1>6, <1>12, <1>18, <2>1, <3>1, <3>2 DEF Same
    <3>5. Held(own[q]) \/ Held(mid[q]) => mid[q] = own[q]
      BY <1>4 DEF Same
    <3> QED BY <2>1, <3>3, <3>4, <3>5
  <2> QED BY <1>4, <1>12, <1>15, <1>16, <1>17, <2>1 DEF Same
<1>20. freevm(M, d) = K
  BY <1>1 DEF K, N
<1> QED
  BY <1>16, <1>18, <1>19, <1>20 DEF Freed
(***************************************************************************)
(* allocuvm, copyuvm, loaduvm, clearpteu, and what processes write.        *)
(***************************************************************************)

LEMMA NotPresent == ~Present(ZERO) /\ ZERO[2] # "PU"
  BY DEF Present, ZERO

Grows(M, own, D, r) ==
  \/ r[2] = "none" /\ r[1] = M
  \/ r[2] = "ok" /\ r[1].panic # ""
  \/ r[2] \in {"ok", "torn"} /\ \E new : Owned(r[1], new, D) /\ Same(M, own, r[1], new, {})
LEMMA GrownPage ==
  ASSUME NEW M, NEW own, NEW D, Owned(M, own, D), NEW d \in D, NEW v \in Vpn, v < KERNBASE,
         NEW c, NEW a, Gets(M, own, D, Taken, c, a)
  PROVE  Grows(M, own, D, NewPage(a, d, v))
<1> DEFINE p == a[2]
           L == a[1]
           mid == Now(own, p, Taken)
           e == <<p, "PU">>
           w == mappages(L, d, v, e)
           r == NewPage(a, d, v)
<1>0. Held(Taken) /\ ~Held(Lost)
  BY Triple DEF Taken, Lost, Held
<1>1. CASE p = NULL
  <2>1. r[1] = M /\ r[2] = "none"
    BY <1>1 DEF NewPage, Gets
  <2> HIDE DEF r
  <2> QED BY <2>1 DEF Grows, r
<1>2. CASE p # NULL
  <2>1. /\ p \in All(M) /\ p \notin D /\ own[p][1] = "free"
        /\ Owned(L, mid, D) /\ Same(M, own, L, mid, {p}) /\ mid[p] = Taken
    BY <1>2 DEF Gets
  <2>2. r = Grown(w, p)
    BY <1>2 DEF NewPage
  <2>3. e = <<p, "PU">>
    OBVIOUS
  <2> HIDE DEF mid, p, L, e, r
  <2>4. p \in All(L) /\ Held(mid[p]) /\ ~Held(own[p])
    BY <1>0, <2>1 DEF Same, Held
  <2>5. Maps(L, mid, D, p, w)
    BY <2>1, <2>3, <2>4, MappedPage
  <2> HIDE DEF w
  <2>6. CASE w[1] = L /\ w[2] = FALSE
    <3> DEFINE S == {p}
               N == Losing(L, S)
               last == [q \in All(L) |-> IF q \in S THEN Lost ELSE mid[q]]
    <3>1. r = <<Lose(L, p), "torn">>
      BY <2>2, <2>6 DEF Grown
    <3>2. r[1] = Lose(L, p) /\ r[2] = "torn"
      BY <3>1
    <3>3. Lose(L, p) = N
      BY DEF Lose, Losing
    <3>4. Owned(N, last, D) /\ All(N) = All(L) /\ N.kpgdir = L.kpgdir /\ N.stacks = L.stacks
      BY <2>1, <2>4, LoseSet
    <3>5. last[p] = Lost /\ \A q \in All(L) : q # p => last[q] = mid[q]
      BY <2>4
    <3> HIDE DEF N, last
    <3>6. Same(M, own, N, last, {})
      BY <1>0, <2>1, <2>4, <3>4, <3>5 DEF Same
    <3> QED BY <3>2, <3>3, <3>4, <3>6 DEF Grows, r
  <2>7. CASE w[2] = TRUE /\ w[1].panic # ""
    <3>1. r = <<w[1], "ok">>
      BY <2>2, <2>7 DEF Grown
    <3>2. r[1] = w[1] /\ r[2] = "ok"
      BY <3>1
    <3> QED BY <2>7, <3>2 DEF Grows, r
  <2>8. CASE w[2] = TRUE /\ \E new : Owned(w[1], new, D) /\ Same(L, mid, w[1], new, {p}) /\ ~Held(new[p])
    <3>1. r = <<w[1], "ok">>
      BY <2>2, <2>8 DEF Grown
    <3>2. r[1] = w[1] /\ r[2] = "ok"
      BY <3>1
    <3>3. PICK new : Owned(w[1], new, D) /\ Same(L, mid, w[1], new, {p}) /\ ~Held(new[p])
      BY <2>8
    <3>4. Same(M, own, w[1], new, {})
      BY <2>1, <2>4, <3>3 DEF Same
    <3> QED BY <3>2, <3>3, <3>4 DEF Grows, r
  <2> QED BY <2>5, <2>6, <2>7, <2>8 DEF Maps
<1> QED
  BY <1>1, <1>2
LEMMA GrownByAllocuvm ==
  ASSUME NEW M, NEW own, NEW D, Owned(M, own, D), NEW d \in D, NEW v \in Vpn, v < KERNBASE
  PROVE  Grows(M, own, D, allocuvm(M, d, v))
<1> DEFINE c == Filled(ZERO)
           a == Filling(kalloc(M), c)
<1>1. Taken \in Owner /\ Held(Taken) /\ c \in Contents
  BY Cells, Triple DEF Taken, Owner, Held
<1>2. allocuvm(M, d, v) = NewPage(a, d, v)
  BY DEF allocuvm, Clear, Filling, SetPage
<1> HIDE DEF c
<1>3. Gets(M, own, D, Taken, c, a)
  BY <1>1, Allocated
<1> HIDE DEF a
<1> QED
  BY <1>2, <1>3, GrownPage
LEMMA GrownByCopyuvm ==
  ASSUME NEW M, NEW own, NEW D, Owned(M, own, D), NEW d \in D, NEW old \in D, NEW v \in Vpn, v < KERNBASE,
         Present(PTE(M, old, v))
  PROVE  Grows(M, own, D, copyuvm(M, old, d, v))
<1> DEFINE c == M.mem[PTE(M, old, v)[1]]
           a == Filling(kalloc(M), c)
<1>1. Taken \in Owner /\ Held(Taken)
  BY Triple DEF Taken, Owner, Held
<1>2. c \in Contents
  <2>1. IsEntry(M, own, old, v, PTE(M, old, v))
    BY Entries
  <2>2. PTE(M, old, v)[1] \in All(M)
    <3> DEFINE e == PTE(M, old, v)
    <3> HIDE DEF e
    <3>1. IsEntry(M, own, old, v, e) /\ Present(e)
      BY <2>1 DEF e
    <3>2. e[1] \in All(M)
      BY <3>1, NotPresent DEF IsEntry, Of
    <3> QED BY <3>2 DEF e
  <2>3. M \in Ram
    BY DEF Owned
  <2> QED BY <2>2, <2>3, MemType
<1>3. copyuvm(M, old, d, v) = NewPage(a, d, v)
  BY DEF copyuvm, Copied, Filling, SetPage
<1> HIDE DEF c
<1>4. Gets(M, own, D, Taken, c, a)
  BY <1>1, <1>2, Allocated
<1> HIDE DEF a
<1> QED
  BY <1>3, <1>4, GrownPage

\* What is written to pages that are neither directories nor tables.
Leaves(M, own, D, N) == N.panic # "" \/ (Owned(N, own, D) /\ Same(M, own, N, own, {}))
LEMMA FillAll ==
  ASSUME NEW M, NEW own, NEW D, Owned(M, own, D),
         NEW s \in Seq(Contents), Len(s) = Len(M.mem),
         \A q \in All(M) : (q \in D \/ own[q][1] = "table") => s[q] = M.mem[q]
  PROVE  Leaves(M, own, D, [M EXCEPT !.mem = s])
<1> DEFINE N == [M EXCEPT !.mem = s]
<1>0. M \in Ram /\ own \in [All(M) -> Owner]
  BY DEF Owned
<1>1. N \in Ram /\ N.mem = s /\ N.free = M.free /\ N.lost = M.lost /\ N.kpgdir = M.kpgdir /\ N.stacks = M.stacks
  BY <1>0 DEF Ram
<1> HIDE DEF N
<1>2. All(N) = All(M)
  BY <1>1 DEF All
<1>3. \A kind : Of(own, N, kind) = Of(own, M, kind)
  BY <1>2 DEF Of
<1>4. \A d \in D : d \in All(M) /\ N.mem[d] = M.mem[d]
  BY <1>1 DEF Owned
<1>5. \A t \in Of(own, M, "table") : N.mem[t] = M.mem[t]
  BY <1>1 DEF Of
<1>6. TableCells(N, own, D)
  BY <1>2, <1>3, <1>4 DEF Owned, TableCells
<1>7. PageCells(N, own) /\ KernelCells(N, own)
  BY <1>2, <1>3, <1>5 DEF Owned, PageCells, KernelCells
<1>8. Owned(N, own, D)
  BY <1>0, <1>1, <1>2, <1>3, <1>6, <1>7 DEF Owned
<1>9. Same(M, own, N, own, {})
  BY <1>1, <1>2 DEF Same
<1> QED
  BY <1>8, <1>9 DEF Leaves, N
LEMMA LoadedText ==
  ASSUME NEW M, NEW own, NEW D, Owned(M, own, D), NEW d \in D, NEW n \in Nat, n <= KERNBASE
  PROVE  Leaves(M, own, D, loaduvm(M, d, n))
<1> DEFINE Text(p) == {v \in 0..(n - 1) : Present(PTE(M, d, v)) /\ PTE(M, d, v)[1] = p}
           s == [p \in DOMAIN M.mem |-> IF Text(p) = {} THEN M.mem[p] ELSE [M.mem[p] EXCEPT ![0] = <<CHOOSE v \in Text(p) : TRUE, "text">>]]
<1>0. M \in Ram /\ M.mem \in Seq(Contents) /\ DOMAIN M.mem = 1..Len(M.mem) /\ Len(M.mem) \in Nat
  <2>1. M \in Ram
    BY DEF Owned
  <2>2. M.mem \in Seq(Contents)
    BY <2>1 DEF Ram
  <2> QED BY <2>1, <2>2, LenProperties
<1>1. CASE \E v \in 0..(n - 1) : walkpgdir(M, d, v, FALSE)[2] = NULL
  <2> DEFINE why == "loaduvm: address should exist"
  <2>1. loaduvm(M, d, n) = Panic(M, why)
    BY <1>1 DEF loaduvm
  <2>2. Panic(M, why) = [M EXCEPT !.panic = why]
    BY <1>0 DEF Panic, Ram
  <2>3. [M EXCEPT !.panic = why].panic # ""
    BY <1>0 DEF Ram
  <2> QED BY <2>1, <2>2, <2>3 DEF Leaves
<1>2. CASE ~\E v \in 0..(n - 1) : walkpgdir(M, d, v, FALSE)[2] = NULL
  <2>1. loaduvm(M, d, n) = [M EXCEPT !.mem = s]
    BY <1>2 DEF loaduvm
  <2>2. \A p : Text(p) # {} => p \in Of(own, M, "page")
    <3> SUFFICES ASSUME NEW p, NEW v \in Text(p) PROVE p \in Of(own, M, "page")
      OBVIOUS
    <3>1. v \in Vpn /\ v < KERNBASE /\ Present(PTE(M, d, v)) /\ PTE(M, d, v)[1] = p
      BY Below DEF Vpn
    <3> DEFINE e == PTE(M, d, v)
    <3> HIDE DEF e
    <3>2. IsEntry(M, own, d, v, e)
      BY <3>1, Entries DEF e
    <3>3. e[1] = p /\ Present(e)
      BY <3>1 DEF e
    <3> QED BY <3>1, <3>2, <3>3, NotPresent DEF IsEntry
  <2>3. \A p \in 1..Len(M.mem) : s[p] \in Contents
    <3> SUFFICES ASSUME NEW p \in 1..Len(M.mem) PROVE s[p] \in Contents
      OBVIOUS
    <3>1. M.mem[p] \in [Index -> Cell]
      BY <1>0, ElementOfSeq DEF Contents
    <3>2. CASE Text(p) = {}
      BY <1>0, <3>1, <3>2 DEF Contents
    <3>3. CASE Text(p) # {}
      <4> DEFINE v == CHOOSE v \in Text(p) : TRUE
                 e == <<v, "text">>
      <4>1. v \in Int
        BY <3>3
      <4>2. "text" \in Kinds
        BY DEF Kinds
      <4>3. e \in Cell
        BY <4>1, <4>2, Pair DEF Cell
      <4>4. s[p] = [M.mem[p] EXCEPT ![0] = e]
        BY <1>0, <3>3
      <4> HIDE DEF e, s
      <4> QED BY <3>1, <4>3, <4>4, Sizes DEF Contents
    <3> QED BY <3>2, <3>3
  <2>4. s \in Seq(Contents) /\ Len(s) = Len(M.mem)
    <3>1. s = [p \in 1..Len(M.mem) |-> s[p]]
      BY <1>0
    <3> HIDE DEF s
    <3>2. s \in [1..Len(M.mem) -> Contents]
      BY <2>3, <3>1
    <3> QED BY <1>0, <3>2, LenProperties
  <2>5. \A q \in All(M) : (q \in D \/ own[q][1] = "table") => s[q] = M.mem[q]
    <3> SUFFICES ASSUME NEW q \in All(M), q \in D \/ own[q][1] = "table" PROVE s[q] = M.mem[q]
      OBVIOUS
    <3>1. q \notin Of(own, M, "page")
      <4>1. q \in D => Held(own[q])
        BY DEF Owned
      <4> QED BY <4>1 DEF Of, Held
    <3>2. Text(q) = {}
      BY <2>2, <3>1
    <3> QED BY <1>0, <3>2 DEF All
  <2> HIDE DEF s
  <2> QED BY <2>1, <2>4, <2>5, FillAll
<1> QED
  BY <1>1, <1>2
LEMMA StoredCell ==
  ASSUME NEW M, NEW own, NEW D, Owned(M, own, D), NEW d \in D, NEW v \in Vpn,
         NEW e, e = PTE(M, d, v), e[2] = "PU" \/ (Present(e) /\ v < KERNBASE), NEW j \in Index, NEW c \in Cell
  PROVE  Leaves(M, own, D, SetCell(M, e[1], j, c))
<1>1. IsEntry(M, own, d, v, e)
  BY Entries
<1>2. e[1] \in Of(own, M, "page")
  <2>1. KERNBASE \in Nat /\ v \in Nat
    BY Below DEF Vpn
  <2>2. Present(e)
    BY DEF Present
  <2>3. v < KERNBASE
    <3>1. v < KERNBASE \/ v >= KERNBASE
      BY <2>1
    <3> QED BY <1>1, <3>1, <2>2, NotPresent DEF IsEntry
  <2> QED BY <1>1, <2>2, <2>3, NotPresent DEF IsEntry
<1> DEFINE p == e[1]
           x == [M.mem[p] EXCEPT ![j] = c]
<1>3. p \in All(M) /\ p \notin D /\ own[p][1] # "table" /\ M \in Ram
  BY <1>2 DEF Of, Owned, Held
<1> HIDE DEF p
<1>4. x \in Contents
  <2>1. M.mem[p] \in [Index -> Cell]
    BY <1>3, MemType DEF Contents
  <2> QED BY <2>1 DEF Contents
<1>5. SetCell(M, p, j, c) = SetPage(M, p, x)
  BY DEF SetCell, SetPage
<1> HIDE DEF x
<1>6. Owned(SetPage(M, p, x), own, D) /\ All(SetPage(M, p, x)) = All(M)
  BY <1>3, <1>4, Fill
<1>7. Same(M, own, SetPage(M, p, x), own, {})
  BY <1>3, <1>4, Written DEF Same
<1> QED
  BY <1>5, <1>6, <1>7 DEF Leaves, p
LEMMA ClearedUser ==
  ASSUME NEW M, NEW own, NEW D, Owned(M, own, D), NEW d \in D, NEW v \in Vpn, v < KERNBASE
  PROVE  Leaves(M, own, D, clearpteu(M, d, v))
<1> DEFINE e == PTE(M, d, v)
           t == walkpgdir(M, d, v, FALSE)[2]
           j == PTX(v)
           c == <<e[1], IF Present(e) THEN "P" ELSE "">>
<1>0. M \in Ram /\ Finds(M, own, d, v, t) /\ j \in Index
  BY Walked, Split DEF Owned
<1>1. CASE t = NULL
  <2> DEFINE why == "clearpteu"
  <2>1. clearpteu(M, d, v) = Panic(M, why)
    BY <1>1 DEF clearpteu
  <2>2. Panic(M, why) = [M EXCEPT !.panic = why]
    BY <1>0 DEF Panic, Ram
  <2>3. [M EXCEPT !.panic = why].panic # ""
    BY <1>0 DEF Ram
  <2> QED BY <2>1, <2>2, <2>3 DEF Leaves
<1>2. CASE t # NULL
  <2>1. clearpteu(M, d, v) = SetCell(M, t, j, c)
    BY <1>2 DEF clearpteu, SetPTE, SetCell
  <2>2. e = M.mem[t][j]
    BY <1>2 DEF PTE
  <2>3. t \in Of(own, M, "table") /\ own[t][3] = PDX(v) /\ User(PDX(v), j)
    <3>1. t \in Of(own, M, "table") /\ own[t] = <<"table", d, PDX(v)>>
      BY <1>0, <1>2 DEF Finds
    <3>2. User(PDX(v), j)
      BY Split
    <3> HIDE DEF t, j
    <3> QED BY <3>1, <3>2, Triple
  <2> HIDE DEF e, t, j
  <2>4. c \in Cell /\ c[1] = e[1] /\ (Present(c) <=> Present(e))
    <3>1. e \in Cell
      BY <1>0, <2>2, <2>3, MemType DEF Of
    <3>2. e[1] \in Int
      BY <3>1 DEF Cell
    <3>3. (IF Present(e) THEN "P" ELSE "") \in Kinds
      BY DEF Kinds
    <3>4. c \in Cell
      BY <3>2, <3>3, Pair DEF Cell
    <3>5. c[1] = e[1] /\ c[2] = IF Present(e) THEN "P" ELSE ""
      OBVIOUS
    <3> QED BY <3>4, <3>5 DEF Present
  <2> HIDE DEF c
  <2>5. Owned(SetCell(M, t, j, c), own, D) /\ All(SetCell(M, t, j, c)) = All(M)
        /\ SetCell(M, t, j, c).kpgdir = M.kpgdir /\ SetCell(M, t, j, c).stacks = M.stacks
    BY <1>0, <2>2, <2>3, <2>4, Relabel
  <2>6. Same(M, own, SetCell(M, t, j, c), own, {})
    BY <2>5 DEF Same
  <2> QED BY <2>1, <2>5, <2>6 DEF Leaves
<1> QED
  BY <1>1, <1>2
(***************************************************************************)
(* Who holds pages: the slots of processes, V[s] being the page in slot s, *)
(* and the stacks of processors.                                           *)
(***************************************************************************)

Slots == ({"kstack", "pgdir", "new"} \X Procs) \cup {<<"kpgdir", 0>>}
Use(s) == <<s[1], s[2], 0>>
Stack == <<"stack", 0, 0>>
Dirs(V) == {V[s] : s \in {r \in Slots : r[1] # "kstack"}} \ {NULL}
Roles(M, V, own) ==
  /\ \A s \in Slots : V[s] # NULL => V[s] \in All(M) /\ own[V[s]] = Use(s)
  /\ \A p \in M.stacks : p # NULL => p \in All(M) /\ own[p] = Stack
  /\ \A q \in All(M) : Held(own[q]) => q \in M.stacks \/ \E s \in Slots : V[s] = q
Accounts(M, V) == V \in [Slots -> Nat] /\ \E own : Owned(M, own, Dirs(V)) /\ Roles(M, V, own)

LEMMA UseIs ==
  /\ \A s \in Slots : Use(s) \in Owner /\ Held(Use(s)) /\ Use(s) # Stack
  /\ \A s, r \in Slots : Use(s) = Use(r) => s = r
  /\ Stack \in Owner /\ Held(Stack)
<1>1. \A s \in Slots : s[1] \in {"kstack", "pgdir", "new", "kpgdir"} /\ s[2] \in Nat /\ s = <<s[1], s[2]>>
  <2>1. \A s \in {"kstack", "pgdir", "new"} \X Procs : s[1] \in {"kstack", "pgdir", "new"} /\ s[2] \in Procs /\ s = <<s[1], s[2]>>
    BY SMT
  <2>2. \A p \in Procs : p \in Nat
    BY MemoryAssumption
  <2>3. ASSUME NEW s, s = <<"kpgdir", 0>> PROVE s[1] = "kpgdir" /\ s[2] = 0 /\ s = <<s[1], s[2]>>
    BY <2>3
  <2>4. \A s \in Slots : s \in {"kstack", "pgdir", "new"} \X Procs \/ s = <<"kpgdir", 0>>
    BY DEF Slots
  <2> QED BY <2>1, <2>2, <2>3, <2>4
<1>2. \A s \in Slots : Use(s)[1] = s[1] /\ Use(s)[2] = s[2]
  BY Triple DEF Use
<1>3. \A s \in Slots : Use(s) \in Owner
  BY <1>1 DEF Use, Owner
<1>4. \A s \in Slots : Held(Use(s)) /\ Use(s)[1] # "stack"
  BY <1>1, <1>2 DEF Held
<1>5. Stack[1] = "stack" /\ Stack \in Owner /\ Held(Stack)
  BY Triple DEF Stack, Owner, Held
<1>6. \A s, r \in Slots : Use(s) = Use(r) => s = r
  <2> SUFFICES ASSUME NEW s \in Slots, NEW r \in Slots, Use(s) = Use(r) PROVE s = r
    OBVIOUS
  <2>1. s[1] = r[1] /\ s[2] = r[2]
    BY <1>2
  <2> QED BY <1>1, <2>1
<1> QED
  BY <1>3, <1>4, <1>5, <1>6

\* Slots after a step by which the pages X change hands.
LEMMA Regard ==
  ASSUME NEW M, NEW own, NEW V, Roles(M, V, own), NEW N, NEW new, NEW X, Same(M, own, N, new, X),
         NEW W,
         \A s \in Slots : W[s] # NULL => (W[s] = V[s] /\ W[s] \notin X) \/ (W[s] \in All(N) /\ new[W[s]] = Use(s)),
         \A s \in Slots : V[s] # NULL => W[s] = V[s] \/ V[s] \in X,
         \A p \in M.stacks : p # NULL => p \notin X,
         \A q \in X : (q \in All(N) /\ Held(new[q])) => \E s \in Slots : W[s] = q
  PROVE  Roles(N, W, new)
<1>1. All(N) = All(M) /\ N.stacks = M.stacks /\ \A q \in All(M) : q \notin X => ((Held(own[q]) \/ Held(new[q])) => new[q] = own[q])
  BY DEF Same
<1>2. \A s \in Slots : W[s] # NULL => W[s] \in All(N) /\ new[W[s]] = Use(s)
  BY <1>1, UseIs DEF Roles
<1>3. \A p \in N.stacks : p # NULL => p \in All(N) /\ new[p] = Stack
  BY <1>1, UseIs DEF Roles
<1>4. ASSUME NEW q \in All(N), Held(new[q]) PROVE q \in N.stacks \/ \E s \in Slots : W[s] = q
  <2>1. CASE q \in X
    BY <1>4, <2>1
  <2>2. CASE q \notin X
    <3>1. Held(own[q]) /\ q \in All(M)
      BY <1>1, <1>4, <2>2
    <3>2. q \in M.stacks \/ \E s \in Slots : V[s] = q
      BY <3>1 DEF Roles
    <3>3. CASE q \in M.stacks
      BY <1>1, <3>3
    <3>4. CASE \E s \in Slots : V[s] = q
      <4>1. PICK s \in Slots : V[s] = q
        BY <3>4
      <4>2. CASE q = NULL
        BY <4>1, <4>2, <3>1 DEF NULL, All
      <4>3. CASE q # NULL
        BY <2>2, <4>1, <4>3
      <4> QED BY <4>2, <4>3
    <3> QED BY <3>2, <3>3, <3>4
  <2> QED BY <2>1, <2>2
<1> QED
  BY <1>2, <1>3, <1>4 DEF Roles

\* No page is in two slots, and what is in none is not held.
LEMMA Alone ==
  ASSUME NEW M, NEW V, NEW own, Roles(M, V, own)
  PROVE  /\ \A s, r \in Slots : V[s] # NULL /\ V[s] = V[r] => s = r
         /\ \A s \in Slots, p \in M.stacks : V[s] # NULL => V[s] # p
         /\ \A x \in All(M) : ~Held(own[x]) => (\A s \in Slots : V[s] # NULL => V[s] # x) /\ (\A p \in M.stacks : p # NULL => p # x)
<1>1. \A s, r \in Slots : V[s] # NULL /\ V[s] = V[r] => s = r
  BY UseIs DEF Roles
<1>2. \A s \in Slots, p \in M.stacks : V[s] # NULL => V[s] # p
  BY UseIs DEF Roles
<1>3. \A x \in All(M) : ~Held(own[x]) => (\A s \in Slots : V[s] # NULL => V[s] # x) /\ (\A p \in M.stacks : p # NULL => p # x)
  BY UseIs DEF Roles
<1> QED
  BY <1>1, <1>2, <1>3

Has(V, s, x) == [V EXCEPT ![s] = x]
LEMMA HasIs ==
  ASSUME NEW V \in [Slots -> Nat], NEW s \in Slots, NEW x \in Nat, NEW W, W = Has(V, s, x)
  PROVE  /\ W \in [Slots -> Nat] /\ W[s] = x /\ \A r \in Slots : r # s => W[r] = V[r]
         /\ s[1] = "kstack" => Dirs(W) = Dirs(V)
         /\ (s[1] # "kstack" /\ V[s] = NULL /\ x # NULL) => Dirs(W) = Dirs(V) \cup {x}
<1>1. W \in [Slots -> Nat] /\ W[s] = x /\ \A r \in Slots : r # s => W[r] = V[r]
  BY DEF Has
<1>2. ASSUME s[1] = "kstack" PROVE Dirs(W) = Dirs(V)
  BY <1>1, <1>2 DEF Dirs
<1>3. ASSUME s[1] # "kstack", V[s] = NULL, x # NULL PROVE Dirs(W) = Dirs(V) \cup {x}
  <2>1. \A y : y \in Dirs(W) <=> y # NULL /\ \E r \in Slots : r[1] # "kstack" /\ y = W[r]
    BY DEF Dirs
  <2>2. \A y : y \in Dirs(V) <=> y # NULL /\ \E r \in Slots : r[1] # "kstack" /\ y = V[r]
    BY DEF Dirs
  <2> QED BY <1>1, <1>3, <2>1, <2>2
<1> QED
  BY <1>1, <1>2, <1>3
LEMMA HasNone ==
  ASSUME NEW V \in [Slots -> Nat], NEW s \in Slots, NEW W, W = Has(V, s, NULL), s[1] # "kstack", V[s] # NULL,
         \A r \in Slots : V[r] = V[s] => r = s
  PROVE  Dirs(W) = Dirs(V) \ {V[s]}
<1>1. W[s] = NULL /\ \A r \in Slots : r # s => W[r] = V[r]
  BY DEF Has
<1>2. \A y : y \in Dirs(W) <=> y # NULL /\ \E r \in Slots : r[1] # "kstack" /\ y = W[r]
  BY DEF Dirs
<1>3. \A y : y \in Dirs(V) <=> y # NULL /\ \E r \in Slots : r[1] # "kstack" /\ y = V[r]
  BY DEF Dirs
<1> QED
  BY <1>1, <1>2, <1>3

\* A page that was free is in a slot that was empty.
LEMMA SlotFilled ==
  ASSUME NEW M, NEW own, NEW V \in [Slots -> Nat], Roles(M, V, own), NEW s \in Slots, V[s] = NULL,
         NEW x \in All(M), x \in Nat, own[x][1] = "free",
         NEW N, NEW new, Same(M, own, N, new, {x}), new[x] = Use(s)
  PROVE  Roles(N, Has(V, s, x), new)
<1> DEFINE W == Has(V, s, x)
<1>1. W \in [Slots -> Nat] /\ W[s] = x /\ \A r \in Slots : r # s => W[r] = V[r]
  BY HasIs
<1>2. ~Held(own[x]) /\ x \in All(N)
  BY DEF Held, Same
<1>3. (\A r \in Slots : V[r] # NULL => V[r] # x) /\ (\A p \in M.stacks : p # NULL => p # x)
  BY <1>2, Alone
<1> HIDE DEF W
<1>4. Roles(N, W, new)
  BY <1>1, <1>2, <1>3, Regard
<1> QED
  BY <1>4 DEF W
\* What was in a slot is free.
LEMMA SlotCleared ==
  ASSUME NEW M, NEW own, NEW V \in [Slots -> Nat], Roles(M, V, own), NEW s \in Slots, V[s] # NULL,
         NEW x, x = V[s], NEW N, NEW new, Same(M, own, N, new, {x}), new[x] = Free
  PROVE  Roles(N, Has(V, s, NULL), new)
<1> DEFINE W == Has(V, s, NULL)
<1>1. W \in [Slots -> Nat] /\ W[s] = NULL /\ \A r \in Slots : r # s => W[r] = V[r]
  BY HasIs DEF NULL
<1>2. ~Held(new[x])
  BY Triple DEF Held, Free
<1>3. (\A r \in Slots : V[r] = x => r = s) /\ (\A p \in M.stacks : p # x)
  BY Alone
<1> HIDE DEF W
<1>4. Roles(N, W, new)
  BY <1>1, <1>2, <1>3, Regard
<1> QED
  BY <1>4 DEF W

After(M, N, W) == Accounts(N, W) /\ N.kpgdir = M.kpgdir
LEMMA AccountsType ==
  ASSUME NEW M, NEW V, Accounts(M, V)
  PROVE  M \in Ram /\ M.panic = "" /\ V \in [Slots -> Nat] /\ All(M) \subseteq Nat \ {0}
<1>1. M \in Ram /\ V \in [Slots -> Nat]
  BY DEF Accounts, Owned
<1> QED
  BY <1>1, MemType DEF Ram
LEMMA Stays ==
  ASSUME NEW M, NEW own, NEW V \in [Slots -> Nat], Roles(M, V, own), NEW N, NEW new, Same(M, own, N, new, {}), Owned(N, new, Dirs(V))
  PROVE  After(M, N, V)
<1>1. Roles(N, V, new)
  BY Regard
<1> QED
  BY <1>1 DEF After, Accounts, Same

\* kalloc and kfree of a kernel stack.
LEMMA StackGot ==
  ASSUME NEW M, NEW V, Accounts(M, V), NEW s \in Slots, s[1] = "kstack", V[s] = NULL
  PROVE  LET a == kalloc(M)
         IN \/ a[1] = M /\ a[2] = NULL /\ M.free = <<>>
            \/ a[2] # NULL /\ a[2] \in Nat /\ After(M, a[1], Has(V, s, a[2]))
<1> DEFINE p == Head(M.free)
           N == Popped(M)
           o == Use(s)
<1>1. CASE M.free = <<>>
  <2>1. kalloc(M)[1] = M /\ kalloc(M)[2] = NULL
    BY <1>1 DEF kalloc
  <2> QED BY <1>1, <2>1
<1>2. CASE M.free # <<>>
  <2>1. PICK own : Owned(M, own, Dirs(V)) /\ Roles(M, V, own)
    BY DEF Accounts
  <2> DEFINE new == Now(own, p, o)
  <2>2. o \in Owner /\ Held(o)
    BY UseIs
  <2>3. p \in All(M) /\ own[p][1] = "free" /\ All(N) = All(M) /\ Owned(N, new, Dirs(V))
    BY <1>2, <2>1, <2>2, Take
  <2>4. p \in Nat /\ p # NULL
    BY <2>3, AccountsType DEF NULL
  <2>5. kalloc(M)[1] = N /\ kalloc(M)[2] = p
    BY <1>2 DEF kalloc, Popped
  <2>6. N.kpgdir = M.kpgdir /\ N.stacks = M.stacks
    <3>1. M \in Ram
      BY AccountsType
    <3> QED BY <3>1 DEF Ram, Popped
  <2>7. new[p] = o /\ \A q \in All(M) : q # p => new[q] = own[q]
    BY <2>1, <2>2, <2>3 DEF Owned, Now
  <2> HIDE DEF p, N, new, o
  <2>8. Same(M, own, N, new, {p})
    BY <2>3, <2>6, <2>7 DEF Same
  <2>9. V \in [Slots -> Nat]
    BY AccountsType
  <2>10. Roles(N, Has(V, s, p), new)
    <3>1. new[p] = Use(s)
      BY <2>7 DEF o
    <3> QED BY <2>1, <2>3, <2>4, <2>8, <2>9, <3>1, SlotFilled
  <2>11. Dirs(Has(V, s, p)) = Dirs(V) /\ Has(V, s, p) \in [Slots -> Nat]
    BY <2>4, <2>9, HasIs
  <2>12. After(M, N, Has(V, s, p))
    BY <2>3, <2>6, <2>10, <2>11 DEF After, Accounts
  <2> QED BY <2>4, <2>5, <2>12
<1> QED
  BY <1>1, <1>2
LEMMA StackFreed ==
  ASSUME NEW M, NEW V, Accounts(M, V), NEW s \in Slots, s[1] = "kstack", V[s] # NULL
  PROVE  After(M, kfree(M, V[s]), Has(V, s, NULL))
<1> DEFINE p == V[s]
           N == kfree(M, p)
<1>1. PICK own : Owned(M, own, Dirs(V)) /\ Roles(M, V, own)
  BY DEF Accounts
<1> DEFINE new == Now(own, p, Free)
<1>2. V \in [Slots -> Nat] /\ M \in Ram
  BY AccountsType
<1>3. p \in All(M) /\ Held(own[p])
  BY <1>1, UseIs DEF Roles
<1>4. p \notin Dirs(V)
  <2>1. \A r \in Slots : V[r] = p => r = s
    BY <1>1, Alone
  <2> QED BY <2>1 DEF Dirs
<1>5. Owned(N, new, Dirs(V)) /\ All(N) = All(M)
  BY <1>1, <1>3, <1>4, Release
<1>6. N.kpgdir = M.kpgdir /\ N.stacks = M.stacks
  BY <1>2, <1>3, FreedMem
<1>7. new[p] = Free /\ \A q \in All(M) : q # p => new[q] = own[q]
  BY <1>1, <1>3 DEF Owned, Now
<1> HIDE DEF N, new
<1>8. Same(M, own, N, new, {p})
  BY <1>5, <1>6, <1>7 DEF Same
<1>9. Roles(N, Has(V, s, NULL), new)
  BY <1>1, <1>2, <1>7, <1>8, SlotCleared
<1>10. Dirs(Has(V, s, NULL)) = Dirs(V) /\ Has(V, s, NULL) \in [Slots -> Nat]
  BY <1>2, HasIs DEF NULL
<1>11. After(M, N, Has(V, s, NULL))
  BY <1>5, <1>6, <1>9, <1>10 DEF After, Accounts
<1> QED
  BY <1>11 DEF N

\* setupkvm and freevm of a directory.
LEMMA DirSetUp ==
  ASSUME NEW M, NEW V, Accounts(M, V), NEW s \in Slots, s[1] # "kstack", V[s] = NULL
  PROVE  LET d == setupkvm(M)
         IN \/ Broken(d[1])
            \/ d[2] = NULL /\ After(M, d[1], V)
            \/ d[2] # NULL /\ d[2] \in Nat /\ M.free # <<>> /\ After(M, d[1], Has(V, s, d[2]))
<1> DEFINE d == setupkvm(M)
           p == d[2]
           N == d[1]
           o == Use(s)
<1>1. PICK own : Owned(M, own, Dirs(V)) /\ Roles(M, V, own)
  BY DEF Accounts
<1>2. V \in [Slots -> Nat] /\ M \in Ram
  BY AccountsType
<1>3. o \in Owner /\ Held(o)
  BY UseIs
<1>4. Sets(M, own, Dirs(V), o, d)
  BY <1>1, <1>3, SetUp
<1> HIDE DEF d
<1>5. CASE Broken(N)
  BY <1>5 DEF d
<1>6. CASE p = NULL /\ \E new : Owned(N, new, Dirs(V)) /\ Same(M, own, N, new, {})
  <2>1. After(M, N, V)
    BY <1>1, <1>2, <1>6, Stays
  <2> QED BY <1>6, <2>1 DEF d
<1>7. CASE /\ p # NULL /\ p \in All(M) /\ p \notin Dirs(V) /\ own[p][1] = "free" /\ M.free # <<>>
           /\ \E new : Owned(N, new, Dirs(V) \cup {p}) /\ Same(M, own, N, new, {p}) /\ new[p] = o
  <2>1. PICK new : Owned(N, new, Dirs(V) \cup {p}) /\ Same(M, own, N, new, {p}) /\ new[p] = Use(s)
    BY <1>7
  <2>2. p \in Nat
    BY <1>7, AccountsType
  <2> HIDE DEF p, N
  <2>3. Roles(N, Has(V, s, p), new)
    BY <1>1, <1>2, <1>7, <2>1, <2>2, SlotFilled
  <2>4. Dirs(Has(V, s, p)) = Dirs(V) \cup {p} /\ Has(V, s, p) \in [Slots -> Nat]
    <3>1. V \in [Slots -> Nat] /\ s \in Slots /\ p \in Nat /\ p # NULL /\ s[1] # "kstack" /\ V[s] = NULL
      BY <1>2, <1>7, <2>2
    <3> QED BY <3>1, HasIs
  <2>5. After(M, N, Has(V, s, p))
    BY <2>1, <2>3, <2>4 DEF After, Accounts, Same
  <2> QED BY <1>7, <2>2, <2>5 DEF d, p, N
<1> QED
  BY <1>4, <1>5, <1>6, <1>7 DEF Sets
LEMMA DirHeld ==
  ASSUME NEW M, NEW V, Accounts(M, V), NEW s \in Slots, s[1] # "kstack", V[s] # NULL
  PROVE  V[s] \in Dirs(V)
  BY DEF Dirs
LEMMA DirFreed ==
  ASSUME NEW M, NEW V, Accounts(M, V), NEW s \in Slots, s[1] # "kstack", V[s] # NULL
  PROVE  After(M, freevm(M, V[s]), Has(V, s, NULL))
<1> DEFINE p == V[s]
           N == freevm(M, p)
<1>1. PICK own : Owned(M, own, Dirs(V)) /\ Roles(M, V, own)
  BY DEF Accounts
<1>2. V \in [Slots -> Nat] /\ M \in Ram
  BY AccountsType
<1>3. Freed(M, own, Dirs(V), p, N)
  BY <1>1, DirHeld, FreedAll
<1> HIDE DEF N
<1>4. PICK new : Owned(N, new, Dirs(V) \ {p}) /\ Same(M, own, N, new, {p}) /\ new[p] = Free
  BY <1>3 DEF Freed
<1>5. Roles(N, Has(V, s, NULL), new)
  BY <1>1, <1>2, <1>4, SlotCleared
<1>6. Dirs(Has(V, s, NULL)) = Dirs(V) \ {p} /\ Has(V, s, NULL) \in [Slots -> Nat]
  <2> DEFINE W == Has(V, s, NULL)
  <2>w. W = Has(V, s, NULL)
    OBVIOUS
  <2> HIDE DEF W
  <2>1. \A r \in Slots : V[r] = V[s] => r = s
    BY <1>1, Alone
  <2>2. NULL \in Nat
    BY DEF NULL
  <2>3. W \in [Slots -> Nat]
    BY <1>2, <2>w, <2>2, HasIs
  <2>4. Dirs(W) = Dirs(V) \ {V[s]}
    BY <1>2, <2>w, <2>1, HasNone
  <2> QED BY <2>3, <2>4 DEF W
<1>7. After(M, N, Has(V, s, NULL))
  BY <1>4, <1>5, <1>6 DEF After, Accounts, Same
<1> QED
  BY <1>7 DEF N

\* A directory that was new is the process's.
LEMMA DirMoved ==
  ASSUME NEW M, NEW V, Accounts(M, V), NEW s \in Slots, s[1] # "kstack", V[s] # NULL,
         NEW r \in Slots, r[1] # "kstack", V[r] = NULL
  PROVE  After(M, M, Has(Has(V, s, NULL), r, V[s]))
<1> DEFINE p == V[s]
           U == Has(V, s, NULL)
           W == Has(U, r, p)
           o == Use(r)
<1>1. PICK own : Owned(M, own, Dirs(V)) /\ Roles(M, V, own)
  BY DEF Accounts
<1> DEFINE new == Now(own, p, o)
<1>2. V \in [Slots -> Nat] /\ M \in Ram /\ r # s /\ p \in Nat /\ p # NULL /\ NULL \in Nat
  BY AccountsType DEF NULL
<1>3. p \in All(M) /\ Held(own[p]) /\ (\A x \in Slots : V[x] = p => x = s) /\ (\A q \in M.stacks : q # p)
  BY <1>1, UseIs, Alone DEF Roles
<1>u. U = Has(V, s, NULL) /\ W = Has(U, r, p)
  OBVIOUS
<1> HIDE DEF U, W
<1>4. U \in [Slots -> Nat] /\ U[s] = NULL /\ (\A x \in Slots : x # s => U[x] = V[x]) /\ Dirs(U) = Dirs(V) \ {p}
  <2>1. U \in [Slots -> Nat] /\ U[s] = NULL /\ (\A x \in Slots : x # s => U[x] = V[x])
    BY <1>2, <1>u, HasIs
  <2>2. Dirs(U) = Dirs(V) \ {V[s]}
    BY <1>2, <1>3, <1>u, HasNone
  <2> QED BY <2>1, <2>2
<1>5. W \in [Slots -> Nat] /\ W[r] = p /\ (\A x \in Slots : x # r => W[x] = U[x]) /\ Dirs(W) = Dirs(U) \cup {p}
  <2> HIDE DEF p
  <2> QED BY <1>2, <1>4, <1>u, HasIs
<1>6. Dirs(W) = Dirs(V)
  BY <1>4, <1>5, DirHeld
<1>7. o \in Owner /\ Held(o)
  BY UseIs
<1>8. Owned(M, new, Dirs(V))
  BY <1>1, <1>3, <1>7, Rename
<1>9. new[p] = o /\ \A q \in All(M) : q # p => new[q] = own[q]
  BY <1>1, <1>3, <1>7 DEF Owned, Now
<1> HIDE DEF new
<1>10. Same(M, own, M, new, {p})
  BY <1>9 DEF Same
<1>11. Roles(M, W, new)
  <2>1. \A x \in Slots : W[x] # NULL => (W[x] = V[x] /\ W[x] \notin {p}) \/ (W[x] \in All(M) /\ new[W[x]] = Use(x))
    BY <1>2, <1>3, <1>4, <1>5, <1>9
  <2>2. \A x \in Slots : V[x] # NULL => W[x] = V[x] \/ V[x] \in {p}
    BY <1>2, <1>4, <1>5
  <2>3. \A q \in {p} : \E x \in Slots : W[x] = q
    BY <1>5
  <2> HIDE DEF p
  <2> QED BY <1>1, <1>3, <1>10, <2>1, <2>2, <2>3, Regard
<1> QED
  BY <1>5, <1>6, <1>8, <1>11 DEF After, Accounts, U, W

\* What leaves every slot as it is: pages are mapped, freed or written.
LEMMA DirGrown ==
  ASSUME NEW M, NEW V, Accounts(M, V), NEW s \in Slots, s[1] # "kstack", V[s] # NULL, NEW v \in Vpn, v < KERNBASE,
         NEW r, \/ r = allocuvm(M, V[s], v)
                \/ \E u \in Slots : /\ u[1] # "kstack" /\ V[u] # NULL /\ Present(PTE(M, V[u], v))
                                    /\ r = copyuvm(M, V[u], V[s], v)
  PROVE  \/ r[2] = "none" /\ r[1] = M
         \/ r[2] = "ok" /\ r[1].panic # ""
         \/ r[2] \in {"ok", "torn"} /\ After(M, r[1], V)
<1>1. PICK own : Owned(M, own, Dirs(V)) /\ Roles(M, V, own)
  BY DEF Accounts
<1>2. V \in [Slots -> Nat]
  BY AccountsType
<1>3. Grows(M, own, Dirs(V), r)
  <2>1. CASE r = allocuvm(M, V[s], v)
    BY <1>1, <2>1, DirHeld, GrownByAllocuvm
  <2>2. ASSUME NEW u \in Slots, u[1] # "kstack", V[u] # NULL, Present(PTE(M, V[u], v)), r = copyuvm(M, V[u], V[s], v)
        PROVE  Grows(M, own, Dirs(V), r)
    <3>1. V[s] \in Dirs(V) /\ V[u] \in Dirs(V)
      BY <2>2, DirHeld
    <3> QED BY <1>1, <2>2, <3>1, GrownByCopyuvm
  <2> QED BY <2>1, <2>2
<1>4. \A new : (Owned(r[1], new, Dirs(V)) /\ Same(M, own, r[1], new, {})) => After(M, r[1], V)
  BY <1>1, <1>2, Stays
<1> QED
  BY <1>3, <1>4 DEF Grows
LEMMA DirShrunk ==
  ASSUME NEW M, NEW V, Accounts(M, V), NEW s \in Slots, s[1] # "kstack", V[s] # NULL,
         NEW oldsz \in 0..(KERNBASE * PGSIZE), NEW newsz \in 0..(KERNBASE * PGSIZE)
  PROVE  After(M, deallocuvm(M, V[s], oldsz, newsz), V)
<1> DEFINE N == deallocuvm(M, V[s], oldsz, newsz)
<1>1. PICK own : Owned(M, own, Dirs(V)) /\ Roles(M, V, own)
  BY DEF Accounts
<1>2. V \in [Slots -> Nat]
  BY AccountsType
<1>3. Frees(M, own, Dirs(V), V[s], newsz = 0 /\ oldsz = KERNBASE * PGSIZE, N)
  BY <1>1, DirHeld, Deallocated
<1> HIDE DEF N
<1>4. PICK new : Owned(N, new, Dirs(V)) /\ Same(M, own, N, new, {})
  BY <1>3 DEF Frees
<1>5. After(M, N, V)
  BY <1>1, <1>2, <1>4, Stays
<1> QED
  BY <1>5 DEF N
LEMMA LeavesStays ==
  ASSUME NEW M, NEW V, Accounts(M, V), NEW N, \A own : Owned(M, own, Dirs(V)) => Leaves(M, own, Dirs(V), N)
  PROVE  N.panic # "" \/ After(M, N, V)
<1>1. PICK own : Owned(M, own, Dirs(V)) /\ Roles(M, V, own)
  BY DEF Accounts
<1>2. V \in [Slots -> Nat]
  BY AccountsType
<1> QED
  BY <1>1, <1>2, Stays DEF Leaves
LEMMA DirLoaded ==
  ASSUME NEW M, NEW V, Accounts(M, V), NEW s \in Slots, s[1] # "kstack", V[s] # NULL, NEW n \in Nat, n <= KERNBASE
  PROVE  loaduvm(M, V[s], n).panic # "" \/ After(M, loaduvm(M, V[s], n), V)
<1>1. V[s] \in Dirs(V)
  BY DirHeld
<1> DEFINE N == loaduvm(M, V[s], n)
<1>2. \A own : Owned(M, own, Dirs(V)) => Leaves(M, own, Dirs(V), N)
  BY <1>1, LoadedText
<1> HIDE DEF N
<1>3. N.panic # "" \/ After(M, N, V)
  BY <1>2, LeavesStays
<1> QED
  BY <1>3 DEF N
LEMMA DirCleared ==
  ASSUME NEW M, NEW V, Accounts(M, V), NEW s \in Slots, s[1] # "kstack", V[s] # NULL, NEW v \in Vpn, v < KERNBASE
  PROVE  clearpteu(M, V[s], v).panic # "" \/ After(M, clearpteu(M, V[s], v), V)
<1>1. V[s] \in Dirs(V)
  BY DirHeld
<1> DEFINE N == clearpteu(M, V[s], v)
<1>2. \A own : Owned(M, own, Dirs(V)) => Leaves(M, own, Dirs(V), N)
  BY <1>1, ClearedUser
<1> HIDE DEF N
<1>3. N.panic # "" \/ After(M, N, V)
  BY <1>2, LeavesStays
<1> QED
  BY <1>3 DEF N
LEMMA PageWritten ==
  ASSUME NEW M, NEW V, Accounts(M, V), NEW s \in Slots, s[1] # "kstack", V[s] # NULL, NEW v \in Vpn,
         NEW e, e = PTE(M, V[s], v), e[2] = "PU" \/ (Present(e) /\ v < KERNBASE), NEW j \in Index, NEW c \in Cell
  PROVE  SetCell(M, e[1], j, c).panic # "" \/ After(M, SetCell(M, e[1], j, c), V)
<1>1. V[s] \in Dirs(V)
  BY DirHeld
<1> DEFINE N == SetCell(M, e[1], j, c)
<1>2. \A own : Owned(M, own, Dirs(V)) => Leaves(M, own, Dirs(V), N)
  BY <1>1, StoredCell
<1> HIDE DEF N
<1>3. N.panic # "" \/ After(M, N, V)
  BY <1>2, LeavesStays
<1> QED
  BY <1>3 DEF N

(***************************************************************************)
(* Processes: what each of them has and is doing.                          *)
(***************************************************************************)

Kstack(p) == <<"kstack", p>>
Pgdir(p) == <<"pgdir", p>>
New(p) == <<"new", p>>
Kpgdir == <<"kpgdir", 0>>
View(M, P) == [s \in Slots |-> IF s[1] = "kpgdir" THEN M.kpgdir ELSE IF s[1] = "kstack" THEN P[s[2]].kstack
                               ELSE IF s[1] = "pgdir" THEN P[s[2]].pgdir ELSE P[s[2]].new]

Sz == 0..(KERNBASE * PGSIZE)
Fields == {"st", "parent", "kid", "at", "todo", "kstack", "pgdir", "new", "sz", "short", "torn", "killed", "oops"}

\* The calls of a process that was forked in call kid of program t, or is the first.
Calling(t, kid) == IF kid = 0 THEN Programs[t] ELSE Programs[t][kid].child
Born(t, kid) == kid = 0 \/ (kid \in 1..Len(Programs[t]) /\ Programs[t][kid].call = "fork")
In(t, r, name) == r.at <= Len(Calling(t, r.kid)) /\ Calling(t, r.kid)[r.at].call = name
Image(t, r) == Calling(t, r.kid)[r.at].pages

State(r) ==
  \/ r.st = "UNUSED" /\ r.kstack = NULL /\ r.pgdir = NULL /\ r.new = NULL /\ r.todo = <<>>
  \/ r.st = "EMBRYO" /\ r.kstack # NULL /\ r.pgdir = NULL /\ r.new = NULL /\ r.todo = <<>>
  \/ r.st = "RUNNABLE" /\ r.kstack # NULL /\ r.pgdir # NULL
  \/ r.st = "ZOMBIE" /\ r.kstack # NULL /\ r.pgdir # NULL /\ r.new = NULL /\ r.todo = <<>>
Forks(r, q) == r.todo = <<<<"setupkvm", q>>>> \/ \E v \in Nat : r.todo = <<<<"copyuvm", q, v>>>>
Busy(t, r) ==
  \/ r.todo = <<>> /\ r.new = NULL
  \/ r.new = NULL /\ r.kid = 0 /\ In(t, r, "fork") /\ \E q \in Procs : r.todo = <<<<"setupkvm", q>>>>
  \/ r.new # NULL /\ r.kid = 0 /\ In(t, r, "fork") /\ \E q \in Procs, v \in Nat : r.todo = <<<<"copyuvm", q, v>>>>
  \/ r.new = NULL /\ \E v \in Nat, n \in Sz : r.todo = <<<<"allocuvm", v, n>>>>
  \/ r.new # NULL /\ In(t, r, "exec")
     /\ \E v \in Nat, b \in BOOLEAN : /\ r.todo = <<<<"exec", v, b>>>>
                                      /\ v > 0 => Image(t, r) < KERNBASE
                                      /\ v > Image(t, r) => Image(t, r) + 2 < KERNBASE
Rec(t, r) ==
  /\ DOMAIN r = Fields /\ r.kstack \in Nat /\ r.pgdir \in Nat /\ r.new \in Nat /\ r.sz \in Sz /\ r.at \in Nat \ {0}
  /\ Born(t, r.kid) /\ State(r) /\ Busy(t, r)
Good(t, P) ==
  /\ P = [p \in Procs |-> P[p]]
  /\ \A p \in Procs : Rec(t, P[p])
  /\ \A p, q \in Procs : Forks(P[p], q) => P[q].st = "EMBRYO"
  /\ \A p, r, q \in Procs : Forks(P[p], q) /\ Forks(P[r], q) => p = r

LEMMA SlotIs ==
  /\ \A p \in Procs : /\ Kstack(p) \in Slots /\ Kstack(p)[1] = "kstack" /\ Kstack(p)[2] = p
                      /\ Pgdir(p) \in Slots /\ Pgdir(p)[1] = "pgdir" /\ Pgdir(p)[2] = p
                      /\ New(p) \in Slots /\ New(p)[1] = "new" /\ New(p)[2] = p
  /\ Kpgdir \in Slots /\ Kpgdir[1] = "kpgdir"
  /\ \A s \in Slots : s = Kpgdir \/ \E p \in Procs : s \in {Kstack(p), Pgdir(p), New(p)}
  /\ \A p, q \in Procs : /\ p # q => Kstack(p) # Kstack(q) /\ Pgdir(p) # Pgdir(q) /\ New(p) # New(q)
                         /\ Kstack(p) # Pgdir(q) /\ Kstack(p) # New(q) /\ Pgdir(p) # New(q)
                         /\ Kpgdir # Kstack(p) /\ Kpgdir # Pgdir(p) /\ Kpgdir # New(p)
<1>1. \A p \in Procs : /\ Kstack(p)[1] = "kstack" /\ Kstack(p)[2] = p /\ Pgdir(p)[1] = "pgdir" /\ Pgdir(p)[2] = p
                       /\ New(p)[1] = "new" /\ New(p)[2] = p
  BY DEF Kstack, Pgdir, New
<1>2. \A p \in Procs : Kstack(p) \in Slots /\ Pgdir(p) \in Slots /\ New(p) \in Slots
  BY DEF Kstack, Pgdir, New, Slots
<1>3. Kpgdir \in Slots /\ Kpgdir[1] = "kpgdir"
  BY DEF Kpgdir, Slots
<1>4. \A s \in Slots : s = Kpgdir \/ \E p \in Procs : s \in {Kstack(p), Pgdir(p), New(p)}
  <2>1. \A s \in Slots : s = Kpgdir \/ \E k \in {"kstack", "pgdir", "new"}, p \in Procs : s = <<k, p>>
    BY DEF Slots, Kpgdir
  <2> QED BY <2>1 DEF Kstack, Pgdir, New
<1> QED
  BY <1>1, <1>2, <1>3, <1>4

\* The slots of M and P are these.
LEMMA ViewIs ==
  ASSUME NEW M, NEW P
  PROVE  /\ \A p \in Procs : /\ View(M, P)[Kstack(p)] = P[p].kstack /\ View(M, P)[Pgdir(p)] = P[p].pgdir
                             /\ View(M, P)[New(p)] = P[p].new
         /\ View(M, P)[Kpgdir] = M.kpgdir
  BY SlotIs DEF View
LEMMA ViewThis ==
  ASSUME NEW M, NEW P, NEW W, W = [s \in Slots |-> W[s]], W[Kpgdir] = M.kpgdir,
         \A p \in Procs : W[Kstack(p)] = P[p].kstack /\ W[Pgdir(p)] = P[p].pgdir /\ W[New(p)] = P[p].new
  PROVE  W = View(M, P)
<1> DEFINE U == View(M, P)
<1>1. U = [s \in Slots |-> U[s]]
  BY DEF View
<1>2. /\ U[Kpgdir] = M.kpgdir
      /\ \A p \in Procs : U[Kstack(p)] = P[p].kstack /\ U[Pgdir(p)] = P[p].pgdir /\ U[New(p)] = P[p].new
  BY ViewIs
<1> HIDE DEF U
<1>4. ASSUME NEW s \in Slots PROVE W[s] = U[s]
  <2>1. CASE s = Kpgdir
    BY <1>2, <2>1
  <2>2. ASSUME NEW p \in Procs, s \in {Kstack(p), Pgdir(p), New(p)} PROVE W[s] = U[s]
    BY <1>2, <2>2
  <2> QED BY <2>1, <2>2, SlotIs
<1>3. W = U
  BY <1>1, <1>4
<1> QED
  BY <1>3 DEF U

\* The call of a process is as the programs have it.
LEMMA Calls0 ==
  ASSUME NEW t \in DOMAIN Programs, NEW kid, Born(t, kid)
  PROVE  /\ Len(Calling(t, kid)) \in Nat
         /\ \A i \in 1..Len(Calling(t, kid)) : /\ WellFormed(Calling(t, kid)[i])
                                               /\ Calling(t, kid)[i].call = "fork" => kid = 0
<1>1. CASE kid = 0
  BY <1>1, ProgramsAssumption DEF Calling
<1>2. CASE kid # 0
  <2>1. kid \in 1..Len(Programs[t]) /\ Programs[t][kid].call = "fork" /\ Calling(t, kid) = Programs[t][kid].child
    BY <1>2 DEF Born, Calling
  <2>2. /\ Len(Programs[t][kid].child) \in Nat
        /\ \A j \in 1..Len(Programs[t][kid].child) : Programs[t][kid].child[j].call # "fork" /\ WellFormed(Programs[t][kid].child[j])
    BY <2>1, ProgramsAssumption
  <2> QED BY <2>1, <2>2
<1> QED
  BY <1>1, <1>2
LEMMA CodeIs ==
  ASSUME NEW p \in Procs, Rec(test, proc[p]), test \in DOMAIN Programs
  PROVE  /\ Code(p) = Calling(test, proc[p].kid) /\ Instr(p) = Calling(test, proc[p].kid)[proc[p].at] /\ Len(Code(p)) \in Nat
         /\ proc[p].at <= Len(Code(p)) => WellFormed(Instr(p)) /\ (Instr(p).call = "fork" => proc[p].kid = 0)
<1>1. Code(p) = Calling(test, proc[p].kid) /\ Instr(p) = Calling(test, proc[p].kid)[proc[p].at]
  BY DEF Code, Instr, Calling
<1>2. Born(test, proc[p].kid) /\ proc[p].at \in Nat \ {0}
  BY DEF Rec
<1> QED
  BY <1>1, <1>2, Calls0

\* Whom a process forks.
LEMMA ForkOf ==
  ASSUME NEW r
  PROVE  /\ r.todo = <<>> => \A q : ~Forks(r, q)
         /\ \A v, n : r.todo = <<<<"allocuvm", v, n>>>> => \A q : ~Forks(r, q)
         /\ \A v, b : r.todo = <<<<"exec", v, b>>>> => \A q : ~Forks(r, q)
         /\ \A z : r.todo = <<<<"setupkvm", z>>>> => Forks(r, z) /\ \A q : Forks(r, q) => q = z
         /\ \A z, v \in Nat : r.todo = <<<<"copyuvm", z, v>>>> => Forks(r, z) /\ \A q : Forks(r, q) => q = z
<1>1. ASSUME NEW q, Forks(r, q) PROVE r.todo # <<>> /\ r.todo[1][1] \in {"setupkvm", "copyuvm"} /\ r.todo[1][2] = q
  <2>1. CASE r.todo = <<<<"setupkvm", q>>>>
    BY <2>1
  <2>2. ASSUME NEW v \in Nat, r.todo = <<<<"copyuvm", q, v>>>> PROVE r.todo # <<>> /\ r.todo[1][1] \in {"setupkvm", "copyuvm"} /\ r.todo[1][2] = q
    BY <2>2
  <2> QED BY <1>1, <2>1, <2>2 DEF Forks
<1>2. r.todo = <<>> => \A q : ~Forks(r, q)
  BY <1>1
<1>3. \A v, n : r.todo = <<<<"allocuvm", v, n>>>> => r.todo[1][1] = "allocuvm"
  OBVIOUS
<1>4. \A v, b : r.todo = <<<<"exec", v, b>>>> => r.todo[1][1] = "exec"
  OBVIOUS
<1>5. \A z : r.todo = <<<<"setupkvm", z>>>> => Forks(r, z) /\ r.todo[1][2] = z
  BY DEF Forks
<1>6. \A z, v \in Nat : r.todo = <<<<"copyuvm", z, v>>>> => Forks(r, z) /\ r.todo[1][2] = z
  BY DEF Forks
<1> QED
  BY <1>1, <1>2, <1>3, <1>4, <1>5, <1>6

\* A step of one process, and of one and its child.
Puts(P, p, r) == [P EXCEPT ![p] = r]
LEMMA Mine ==
  ASSUME NEW t, NEW P, Good(t, P), NEW p \in Procs, P[p].st # "EMBRYO", NEW r, Rec(t, r), \A q \in Procs : ~Forks(r, q),
         NEW Q, Q = Puts(P, p, r)
  PROVE  Good(t, Q) /\ Q[p] = r /\ \A q \in Procs : q # p => Q[q] = P[q]
<1>1. Q = [q \in Procs |-> IF q = p THEN r ELSE P[q]]
  BY DEF Good, Puts
<1>2. Q[p] = r /\ (\A q \in Procs : q # p => Q[q] = P[q]) /\ Q = [q \in Procs |-> Q[q]]
  BY <1>1
<1>3. \A q \in Procs : Rec(t, Q[q])
  BY <1>2 DEF Good
<1>4. \A a, q \in Procs : Forks(Q[a], q) => Forks(P[a], q) /\ a # p
  BY <1>2
<1>5. \A a, q \in Procs : Forks(Q[a], q) => Q[q].st = "EMBRYO"
  BY <1>2, <1>4 DEF Good
<1>6. \A a, b, q \in Procs : Forks(Q[a], q) /\ Forks(Q[b], q) => a = b
  BY <1>4 DEF Good
<1> QED
  BY <1>2, <1>3, <1>5, <1>6 DEF Good
LEMMA Ours ==
  ASSUME NEW t, NEW P, Good(t, P), NEW p \in Procs, P[p].st # "EMBRYO", NEW q \in Procs, q # p,
         \A a \in Procs : Forks(P[a], q) => a = p,
         NEW r, Rec(t, r), NEW x, Rec(t, x), \A z \in Procs : ~Forks(x, z),
         \A z \in Procs : Forks(r, z) => z = q /\ x.st = "EMBRYO",
         NEW Q, Q = [z \in Procs |-> IF z = p THEN r ELSE IF z = q THEN x ELSE P[z]]
  PROVE  Good(t, Q)
<1>2. Q[p] = r /\ Q[q] = x /\ (\A z \in Procs : z # p /\ z # q => Q[z] = P[z]) /\ Q = [z \in Procs |-> Q[z]]
  OBVIOUS
<1>3. \A z \in Procs : Rec(t, Q[z])
  BY <1>2 DEF Good
<1>4. \A a, z \in Procs : Forks(Q[a], z) => (a = p /\ z = q /\ x.st = "EMBRYO") \/ (a # p /\ a # q /\ Forks(P[a], z) /\ z # q)
  BY <1>2
<1>5. \A a, z \in Procs : Forks(P[a], z) => z # p
  BY DEF Good
<1>6. \A a, z \in Procs : Forks(Q[a], z) => Q[z].st = "EMBRYO"
  BY <1>2, <1>4, <1>5 DEF Good
<1>7. \A a, b, z \in Procs : Forks(Q[a], z) /\ Forks(Q[b], z) => a = b
  BY <1>4 DEF Good
<1> QED
  BY <1>2, <1>3, <1>6, <1>7 DEF Good
\* Marks that a process puts on others.
LEMMA Marked ==
  ASSUME NEW t, NEW P, Good(t, P), NEW Q, Q = [z \in Procs |-> Q[z]],
         \A z \in Procs : /\ DOMAIN Q[z] = Fields
                          /\ \A f \in Fields \ {"killed", "parent"} : Q[z][f] = P[z][f]
  PROVE  Good(t, Q)
<1>1. \A z \in Procs : /\ Q[z].st = P[z].st /\ Q[z].kid = P[z].kid /\ Q[z].at = P[z].at /\ Q[z].todo = P[z].todo
                       /\ Q[z].kstack = P[z].kstack /\ Q[z].pgdir = P[z].pgdir /\ Q[z].new = P[z].new /\ Q[z].sz = P[z].sz
  BY DEF Fields
<1>2. \A z \in Procs : Rec(t, P[z])
  BY DEF Good
<1>3. \A z \in Procs : State(Q[z])
  BY <1>1, <1>2 DEF Rec, State
<1>4. \A z \in Procs : Busy(t, Q[z])
  BY <1>1, <1>2 DEF Rec, Busy, In, Image
<1>5. \A z \in Procs : Rec(t, Q[z])
  BY <1>1, <1>2, <1>3, <1>4 DEF Rec
<1>6. \A a, z \in Procs : Forks(Q[a], z) <=> Forks(P[a], z)
  BY <1>1 DEF Forks
<1> QED
  BY <1>1, <1>5, <1>6 DEF Good

\* A process that is back from its call.
LEMMA BackIs ==
  ASSUME NEW p \in Procs, test \in DOMAIN Programs, Rec(test, proc[p]), NEW ok, NEW short, NEW r, r = Back(p, ok, short)
  PROVE  /\ DOMAIN r = Fields /\ r.st = proc[p].st /\ r.kid = proc[p].kid /\ r.kstack = proc[p].kstack
         /\ r.pgdir = proc[p].pgdir /\ r.sz = proc[p].sz /\ r.todo = <<>> /\ r.new = NULL /\ r.at \in Nat \ {0}
<1>1. DOMAIN proc[p] = Fields /\ proc[p].at \in Nat \ {0} /\ Len(Code(p)) \in Nat
  BY CodeIs DEF Rec
<1> QED
  BY <1>1 DEF Back, Fields
LEMMA Rests ==
  ASSUME NEW t, NEW r, DOMAIN r = Fields, r.kstack \in Nat, r.pgdir \in Nat, r.sz \in Sz, r.at \in Nat \ {0}, Born(t, r.kid),
         r.todo = <<>>, r.new = NULL, State(r)
  PROVE  Rec(t, r) /\ \A q : ~Forks(r, q)
  BY ForkOf DEF Rec, Busy, NULL
LEMMA BackRests ==
  ASSUME NEW p \in Procs, test \in DOMAIN Programs, Rec(test, proc[p]), proc[p].st = "RUNNABLE", NEW ok, NEW short, NEW r, r = Back(p, ok, short)
  PROVE  Rec(test, r) /\ \A q : ~Forks(r, q)
<1>1. /\ DOMAIN r = Fields /\ r.st = proc[p].st /\ r.kid = proc[p].kid /\ r.kstack = proc[p].kstack
      /\ r.pgdir = proc[p].pgdir /\ r.sz = proc[p].sz /\ r.todo = <<>> /\ r.new = NULL /\ r.at \in Nat \ {0}
  BY BackIs
<1>2. State(r)
  BY <1>1 DEF Rec, State
<1> HIDE <1>1
<1> QED
  BY <1>1, <1>2, Rests DEF Rec

\* The slots after a step.
LEMMA ViewSame ==
  ASSUME NEW M, NEW P, NEW N, NEW Q, N.kpgdir = M.kpgdir,
         \A q \in Procs : Q[q].kstack = P[q].kstack /\ Q[q].pgdir = P[q].pgdir /\ Q[q].new = P[q].new
  PROVE  View(N, Q) = View(M, P)
<1> DEFINE W == View(M, P)
<1>1. W = [s \in Slots |-> W[s]]
  BY DEF View
<1>2. /\ W[Kpgdir] = M.kpgdir
      /\ \A p \in Procs : W[Kstack(p)] = P[p].kstack /\ W[Pgdir(p)] = P[p].pgdir /\ W[New(p)] = P[p].new
  BY ViewIs
<1> HIDE DEF W
<1>3. W = View(N, Q)
  BY <1>1, <1>2, ViewThis
<1> QED
  BY <1>3 DEF W
LEMMA ViewHas ==
  ASSUME NEW M, NEW P, NEW V, V = View(M, P), V \in [Slots -> Nat], NEW p \in Procs, NEW x \in Nat, NEW N, NEW Q, N.kpgdir = M.kpgdir,
         \A q \in Procs : q # p => Q[q].kstack = P[q].kstack /\ Q[q].pgdir = P[q].pgdir /\ Q[q].new = P[q].new
  PROVE  /\ (Q[p].kstack = x /\ Q[p].pgdir = P[p].pgdir /\ Q[p].new = P[p].new) => View(N, Q) = Has(V, Kstack(p), x)
         /\ (Q[p].kstack = P[p].kstack /\ Q[p].pgdir = x /\ Q[p].new = P[p].new) => View(N, Q) = Has(V, Pgdir(p), x)
         /\ (Q[p].kstack = P[p].kstack /\ Q[p].pgdir = P[p].pgdir /\ Q[p].new = x) => View(N, Q) = Has(V, New(p), x)
<1>1. /\ V[Kpgdir] = M.kpgdir
      /\ \A q \in Procs : V[Kstack(q)] = P[q].kstack /\ V[Pgdir(q)] = P[q].pgdir /\ V[New(q)] = P[q].new
  BY ViewIs
<1>2. \A s \in Slots : /\ Has(V, s, x) = [r \in Slots |-> Has(V, s, x)[r]] /\ Has(V, s, x)[s] = x
                       /\ \A r \in Slots : r # s => Has(V, s, x)[r] = V[r]
  BY DEF Has
<1>3. ASSUME Q[p].kstack = x /\ Q[p].pgdir = P[p].pgdir /\ Q[p].new = P[p].new PROVE View(N, Q) = Has(V, Kstack(p), x)
  <2> DEFINE W == Has(V, Kstack(p), x)
  <2>1. W = [r \in Slots |-> W[r]] /\ W[Kstack(p)] = x /\ \A r \in Slots : r # Kstack(p) => W[r] = V[r]
    BY <1>2, SlotIs
  <2> HIDE DEF W
  <2>2. W[Kpgdir] = N.kpgdir /\ \A q \in Procs : W[Kstack(q)] = Q[q].kstack /\ W[Pgdir(q)] = Q[q].pgdir /\ W[New(q)] = Q[q].new
    BY <1>1, <1>3, <2>1, SlotIs
  <2>3. W = View(N, Q)
    BY <2>1, <2>2, ViewThis
  <2> QED BY <2>3 DEF W
<1>4. ASSUME Q[p].kstack = P[p].kstack /\ Q[p].pgdir = x /\ Q[p].new = P[p].new PROVE View(N, Q) = Has(V, Pgdir(p), x)
  <2> DEFINE W == Has(V, Pgdir(p), x)
  <2>1. W = [r \in Slots |-> W[r]] /\ W[Pgdir(p)] = x /\ \A r \in Slots : r # Pgdir(p) => W[r] = V[r]
    BY <1>2, SlotIs
  <2> HIDE DEF W
  <2>2. W[Kpgdir] = N.kpgdir /\ \A q \in Procs : W[Kstack(q)] = Q[q].kstack /\ W[Pgdir(q)] = Q[q].pgdir /\ W[New(q)] = Q[q].new
    BY <1>1, <1>4, <2>1, SlotIs
  <2>3. W = View(N, Q)
    <3>1. W = [s \in Slots |-> W[s]]
      BY <2>1
    <3>2. W[Kpgdir] = N.kpgdir
      BY <2>2
    <3> QED BY <2>2, <3>1, <3>2, ViewThis, SMTT(60)
  <2> QED BY <2>3 DEF W
<1>5. ASSUME Q[p].kstack = P[p].kstack /\ Q[p].pgdir = P[p].pgdir /\ Q[p].new = x PROVE View(N, Q) = Has(V, New(p), x)
  <2> DEFINE W == Has(V, New(p), x)
  <2>1. W = [r \in Slots |-> W[r]] /\ W[New(p)] = x /\ \A r \in Slots : r # New(p) => W[r] = V[r]
    BY <1>2, SlotIs
  <2> HIDE DEF W
  <2>2. W[Kpgdir] = N.kpgdir /\ \A q \in Procs : W[Kstack(q)] = Q[q].kstack /\ W[Pgdir(q)] = Q[q].pgdir /\ W[New(q)] = Q[q].new
    BY <1>1, <1>5, <2>1, SlotIs
  <2>3. W = View(N, Q)
    BY <2>1, <2>2, ViewThis
  <2> QED BY <2>3 DEF W
<1> QED
  BY <1>3, <1>4, <1>5

(***************************************************************************)
(* Each step of a process.                                                 *)
(***************************************************************************)

Working(t, M, P) == M.panic = "" => Accounts(M, View(M, P)) /\ Good(t, P)

\* What a process is that is between two calls,
LEMMA IdleIs ==
  ASSUME test \in DOMAIN Programs, Good(test, proc), NEW p \in Procs, Idle(p)
  PROVE  /\ proc[p].st = "RUNNABLE" /\ proc[p].todo = <<>> /\ proc[p].new = NULL /\ proc[p].kstack # NULL /\ proc[p].pgdir # NULL
         /\ ram.panic = "" /\ Rec(test, proc[p])
         /\ \A name : Calls(p, name) => WellFormed(Instr(p)) /\ Instr(p).call = name /\ In(test, proc[p], name)
                                        /\ proc[p].at \in 1..Len(Code(p)) /\ (name = "fork" => proc[p].kid = 0)
<1>1. proc[p].st = "RUNNABLE" /\ proc[p].todo = <<>> /\ ram.panic = "" /\ Rec(test, proc[p])
  BY DEF Idle, Good
<1>2. proc[p].new = NULL
  <2>1. Busy(test, proc[p])
    BY <1>1 DEF Rec
  <2>2. \A x : <<x>> # <<>>
    OBVIOUS
  <2> QED BY <1>1, <2>1, <2>2 DEF Busy
<1>3. proc[p].kstack # NULL /\ proc[p].pgdir # NULL
  BY <1>1 DEF Rec, State
<1>4. /\ Code(p) = Calling(test, proc[p].kid) /\ Instr(p) = Calling(test, proc[p].kid)[proc[p].at] /\ Len(Code(p)) \in Nat
      /\ proc[p].at <= Len(Code(p)) => WellFormed(Instr(p)) /\ (Instr(p).call = "fork" => proc[p].kid = 0)
  BY <1>1, CodeIs
<1>5. proc[p].at \in Nat \ {0}
  BY <1>1 DEF Rec
<1>6. \A name : Calls(p, name) => WellFormed(Instr(p)) /\ Instr(p).call = name /\ In(test, proc[p], name)
                                  /\ proc[p].at \in 1..Len(Code(p)) /\ (name = "fork" => proc[p].kid = 0)
  BY <1>4, <1>5 DEF Calls, In
<1> QED
  BY <1>1, <1>2, <1>3, <1>6

\* and in the middle of one.
LEMMA DoesIs ==
  ASSUME Good(test, proc), NEW p \in Procs, NEW name, Does(p, name)
  PROVE  /\ proc[p].st = "RUNNABLE" /\ proc[p].todo # <<>> /\ proc[p].kstack # NULL /\ proc[p].pgdir # NULL
         /\ ram.panic = "" /\ Rec(test, proc[p])
<1>1. proc[p].todo # <<>> /\ ram.panic = "" /\ Rec(test, proc[p])
  BY DEF Does, Good
<1>2. proc[p].st = "RUNNABLE" /\ proc[p].kstack # NULL /\ proc[p].pgdir # NULL
  BY <1>1 DEF Rec, State
<1> QED
  BY <1>1, <1>2
LEMMA OpIs ==
  ASSUME NEW p \in Procs, NEW x, proc[p].todo = <<x>>
  PROVE  Op(p) = x
  BY DEF Op
LEMMA DoesFork ==
  ASSUME Good(test, proc), NEW p \in Procs, Does(p, "setupkvm")
  PROVE  /\ proc[p].new = NULL /\ proc[p].kid = 0 /\ In(test, proc[p], "fork")
         /\ \E q \in Procs : Op(p) = <<"setupkvm", q>> /\ proc[p].todo = <<Op(p)>>
<1>1. proc[p].todo # <<>> /\ Op(p)[1] = "setupkvm" /\ Busy(test, proc[p])
  BY DEF Does, Good, Rec
<1>2. ASSUME NEW q, NEW v, proc[p].todo = <<<<"copyuvm", q, v>>>> PROVE FALSE
  BY <1>1, <1>2, OpIs
<1>3. ASSUME NEW v, NEW n, proc[p].todo = <<<<"allocuvm", v, n>>>> PROVE FALSE
  BY <1>1, <1>3, OpIs
<1>4. ASSUME NEW v, NEW b, proc[p].todo = <<<<"exec", v, b>>>> PROVE FALSE
  BY <1>1, <1>4, OpIs
<1>5. proc[p].new = NULL /\ proc[p].kid = 0 /\ In(test, proc[p], "fork") /\ \E q \in Procs : proc[p].todo = <<<<"setupkvm", q>>>>
  BY <1>1, <1>2, <1>3, <1>4 DEF Busy
<1> QED
  BY <1>5, OpIs
LEMMA DoesCopy ==
  ASSUME Good(test, proc), NEW p \in Procs, Does(p, "copyuvm")
  PROVE  /\ proc[p].new # NULL /\ proc[p].kid = 0 /\ In(test, proc[p], "fork")
         /\ \E q \in Procs, v \in Nat : Op(p) = <<"copyuvm", q, v>> /\ proc[p].todo = <<Op(p)>>
<1>1. proc[p].todo # <<>> /\ Op(p)[1] = "copyuvm" /\ Busy(test, proc[p])
  BY DEF Does, Good, Rec
<1>2. ASSUME NEW q, proc[p].todo = <<<<"setupkvm", q>>>> PROVE FALSE
  BY <1>1, <1>2, OpIs
<1>3. ASSUME NEW v, NEW n, proc[p].todo = <<<<"allocuvm", v, n>>>> PROVE FALSE
  BY <1>1, <1>3, OpIs
<1>4. ASSUME NEW v, NEW b, proc[p].todo = <<<<"exec", v, b>>>> PROVE FALSE
  BY <1>1, <1>4, OpIs
<1>5. proc[p].new # NULL /\ proc[p].kid = 0 /\ In(test, proc[p], "fork") /\ \E q \in Procs, v \in Nat : proc[p].todo = <<<<"copyuvm", q, v>>>>
  BY <1>1, <1>2, <1>3, <1>4 DEF Busy
<1> QED
  BY <1>5, OpIs
LEMMA DoesGrow ==
  ASSUME Good(test, proc), NEW p \in Procs, Does(p, "allocuvm")
  PROVE  /\ proc[p].new = NULL
         /\ \E v \in Nat, n \in Sz : Op(p) = <<"allocuvm", v, n>> /\ proc[p].todo = <<Op(p)>>
<1>1. proc[p].todo # <<>> /\ Op(p)[1] = "allocuvm" /\ Busy(test, proc[p])
  BY DEF Does, Good, Rec
<1>2. ASSUME NEW q, proc[p].todo = <<<<"setupkvm", q>>>> PROVE FALSE
  BY <1>1, <1>2, OpIs
<1>3. ASSUME NEW q, NEW v, proc[p].todo = <<<<"copyuvm", q, v>>>> PROVE FALSE
  BY <1>1, <1>3, OpIs
<1>4. ASSUME NEW v, NEW b, proc[p].todo = <<<<"exec", v, b>>>> PROVE FALSE
  BY <1>1, <1>4, OpIs
<1>5. proc[p].new = NULL /\ \E v \in Nat, n \in Sz : proc[p].todo = <<<<"allocuvm", v, n>>>>
  BY <1>1, <1>2, <1>3, <1>4 DEF Busy
<1> QED
  BY <1>5, OpIs
LEMMA DoesExec ==
  ASSUME test \in DOMAIN Programs, Good(test, proc), NEW p \in Procs, Does(p, "exec")
  PROVE  /\ proc[p].new # NULL /\ In(test, proc[p], "exec")
         /\ Instr(p).pages \in Nat /\ Image(test, proc[p]) = Instr(p).pages
         /\ \E v \in Nat, b \in BOOLEAN : /\ Op(p) = <<"exec", v, b>> /\ proc[p].todo = <<Op(p)>>
                                          /\ v > 0 => Instr(p).pages < KERNBASE
                                          /\ v > Instr(p).pages => Instr(p).pages + 2 < KERNBASE
<1>1. proc[p].todo # <<>> /\ Op(p)[1] = "exec" /\ Busy(test, proc[p]) /\ Rec(test, proc[p]) /\ proc[p].at \in Nat \ {0}
  BY DEF Does, Good, Rec
<1>2. ASSUME NEW q, proc[p].todo = <<<<"setupkvm", q>>>> PROVE FALSE
  BY <1>1, <1>2, OpIs
<1>3. ASSUME NEW q, NEW v, proc[p].todo = <<<<"copyuvm", q, v>>>> PROVE FALSE
  BY <1>1, <1>3, OpIs
<1>4. ASSUME NEW v, NEW n, proc[p].todo = <<<<"allocuvm", v, n>>>> PROVE FALSE
  BY <1>1, <1>4, OpIs
<1>5. /\ proc[p].new # NULL /\ In(test, proc[p], "exec")
      /\ \E v \in Nat, b \in BOOLEAN : /\ proc[p].todo = <<<<"exec", v, b>>>>
                                       /\ v > 0 => Image(test, proc[p]) < KERNBASE
                                       /\ v > Image(test, proc[p]) => Image(test, proc[p]) + 2 < KERNBASE
  BY <1>1, <1>2, <1>3, <1>4 DEF Busy
<1>6. /\ Instr(p) = Calling(test, proc[p].kid)[proc[p].at]
      /\ proc[p].at <= Len(Code(p)) => WellFormed(Instr(p))
      /\ Code(p) = Calling(test, proc[p].kid)
  BY <1>1, CodeIs
<1>7. Instr(p).pages \in Nat /\ Image(test, proc[p]) = Instr(p).pages
  BY <1>1, <1>5, <1>6 DEF In, WellFormed, Image
<1> QED
  BY <1>5, <1>7, OpIs

\* Memory and processes after a step of p alone.
Moves(M, P, p, x, N) ==
  \/ N.panic # ""
  \/ x = P[p].new /\ After(M, N, View(M, P))
  \/ After(M, N, Has(View(M, P), New(p), x))
LEMMA MineWorks ==
  ASSUME NEW t, NEW P, Good(t, P), NEW p \in Procs, P[p].st # "EMBRYO", NEW r, Rec(t, r), \A q \in Procs : ~Forks(r, q),
         r.kstack = P[p].kstack, r.pgdir = P[p].pgdir,
         NEW M, Accounts(M, View(M, P)), NEW N, Moves(M, P, p, r.new, N),
         NEW Q, Q = Puts(P, p, r)
  PROVE  Working(t, N, Q)
<1> DEFINE V == View(M, P)
<1>1. Good(t, Q) /\ Q[p] = r /\ \A q \in Procs : q # p => Q[q] = P[q]
  BY Mine
<1>2. V \in [Slots -> Nat]
  BY AccountsType
<1>3. CASE N.panic # ""
  BY <1>3 DEF Working
<1>4. CASE r.new = P[p].new /\ After(M, N, V)
  <2>1. \A q \in Procs : Q[q].kstack = P[q].kstack /\ Q[q].pgdir = P[q].pgdir /\ Q[q].new = P[q].new
    BY <1>1, <1>4
  <2>2. N.kpgdir = M.kpgdir
    BY <1>4 DEF After
  <2>3. View(N, Q) = View(M, P)
    BY <2>1, <2>2, ViewSame
  <2> QED BY <1>1, <1>4, <2>3 DEF Working, After
<1>5. CASE After(M, N, Has(V, New(p), r.new))
  <2>1. r.new \in Nat
    BY DEF Rec
  <2>v. V = View(M, P)
    OBVIOUS
  <2> HIDE DEF V
  <2>3. \A q \in Procs : q # p => Q[q].kstack = P[q].kstack /\ Q[q].pgdir = P[q].pgdir /\ Q[q].new = P[q].new
    BY <1>1
  <2>4. Q[p].kstack = P[p].kstack /\ Q[p].pgdir = P[p].pgdir /\ Q[p].new = r.new
    BY <1>1
  <2>5. N.kpgdir = M.kpgdir
    BY <1>5 DEF After
  <2>2. View(N, Q) = Has(V, New(p), r.new)
    BY <1>2, <2>1, <2>v, <2>3, <2>4, <2>5, ViewHas
  <2> QED BY <1>1, <1>5, <2>2 DEF Working, After
<1> QED
  BY <1>3, <1>4, <1>5 DEF Moves

LEMMA Between ==
  ASSUME test \in DOMAIN Programs, Working(test, ram, proc), NEW p \in Procs, Idle(p)
  PROVE  /\ Good(test, proc) /\ Accounts(ram, View(ram, proc)) /\ After(ram, ram, View(ram, proc)) /\ ram.panic = ""
         /\ Rec(test, proc[p]) /\ proc[p].st = "RUNNABLE" /\ proc[p].todo = <<>> /\ proc[p].new = NULL
         /\ proc[p].kstack # NULL /\ proc[p].pgdir # NULL /\ Moves(ram, proc, p, NULL, ram)
<1>1. ram.panic = ""
  BY DEF Idle
<1>2. Good(test, proc) /\ Accounts(ram, View(ram, proc)) /\ After(ram, ram, View(ram, proc))
  BY <1>1 DEF Working, After
<1>3. /\ Rec(test, proc[p]) /\ proc[p].st = "RUNNABLE" /\ proc[p].todo = <<>> /\ proc[p].new = NULL
      /\ proc[p].kstack # NULL /\ proc[p].pgdir # NULL
  BY <1>2, IdleIs
<1>4. Moves(ram, proc, p, NULL, ram)
  BY <1>2, <1>3 DEF Moves
<1> QED
  BY <1>1, <1>2, <1>3, <1>4
LEMMA Within ==
  ASSUME Working(test, ram, proc), NEW p \in Procs, NEW name, Does(p, name)
  PROVE  /\ Good(test, proc) /\ Accounts(ram, View(ram, proc)) /\ After(ram, ram, View(ram, proc)) /\ ram.panic = ""
         /\ Rec(test, proc[p]) /\ proc[p].st = "RUNNABLE" /\ proc[p].todo # <<>>
         /\ proc[p].kstack # NULL /\ proc[p].pgdir # NULL
<1>1. ram.panic = ""
  BY DEF Does
<1>2. Good(test, proc) /\ Accounts(ram, View(ram, proc)) /\ After(ram, ram, View(ram, proc))
  BY <1>1 DEF Working, After
<1> QED
  BY <1>1, <1>2, DoesIs

\* A call that returns, with memory as it may be then.
LEMMA ReturnWorks ==
  ASSUME test \in DOMAIN Programs, Good(test, proc), Accounts(ram, View(ram, proc)), NEW p \in Procs, proc[p].st = "RUNNABLE",
         NEW ok, NEW short, Returns(p, ok, short), NEW N, Moves(ram, proc, p, NULL, N)
  PROVE  Working(test, N, proc')
<1> DEFINE r == Back(p, ok, short)
<1>1. proc' = Puts(proc, p, r)
  BY DEF Returns, Puts
<1>2. Rec(test, proc[p])
  BY DEF Good
<1>e. r = Back(p, ok, short)
  OBVIOUS
<1> HIDE DEF r
<1>3. Rec(test, r) /\ \A q : ~Forks(r, q)
  BY <1>2, <1>e, BackRests
<1>4. r.kstack = proc[p].kstack /\ r.pgdir = proc[p].pgdir /\ r.new = NULL
  BY <1>2, <1>e, BackIs
<1>5. Moves(ram, proc, p, r.new, N)
  BY <1>4
<1>6. proc[p].st # "EMBRYO"
  OBVIOUS
<1> QED
  BY <1>1, <1>3, <1>4, <1>5, <1>6, MineWorks
LEMMA MarksWork ==
  ASSUME NEW t, NEW M, NEW P, Good(t, P), Accounts(M, View(M, P)), NEW Q, Q = [z \in Procs |-> Q[z]],
         \A z \in Procs : /\ DOMAIN Q[z] = Fields
                          /\ \A f \in Fields \ {"killed", "parent"} : Q[z][f] = P[z][f]
  PROVE  Good(t, Q) /\ View(M, Q) = View(M, P) /\ Working(t, M, Q)
<1>1. Good(t, Q)
  BY Marked
<1>2. \A q \in Procs : Q[q].kstack = P[q].kstack /\ Q[q].pgdir = P[q].pgdir /\ Q[q].new = P[q].new
  BY DEF Fields
<1>3. View(M, Q) = View(M, P)
  BY <1>2, ViewSame
<1> QED
  BY <1>1, <1>3 DEF Working
\* The address of an instruction.
LEMMA Division ==
  ASSUME NEW x \in Nat, NEW P \in Nat \ {0}
  PROVE  x = P * (x \div P) + (x % P) /\ x % P \in 0..(P - 1) /\ x \div P \in Nat
  OBVIOUS
LEMMA Quotient ==
  ASSUME NEW x \in Nat, NEW P \in Nat \ {0}, NEW n \in Nat \ {0}, x < n * P
  PROVE  x \div P \in 0..(n - 1) /\ x % P \in 0..(P - 1)
<1> DEFINE y == x \div P
<1>1. x = P * y + (x % P) /\ x % P \in 0..(P - 1) /\ y \in Nat
  BY Division
<1> DEFINE r == x % P
<1>a. x = P * y + r /\ r \in Nat
  BY <1>1
<1> HIDE DEF y, r
<1>b. P * y \in Nat
  BY <1>1
<1>2. P * y <= x
  BY <1>a, <1>b
<1>3. y >= n => P * y >= n * P
  BY <1>1
<1>4. P * y \in Nat /\ n * P \in Nat
  BY <1>1
<1>5. y < n
  BY <1>1, <1>2, <1>3, <1>4
<1> QED
  BY <1>1, <1>5 DEF y, r
LEMMA AddressIs ==
  ASSUME NEW p \in Procs, Rec(test, proc[p]), WellFormed(Instr(p)), Instr(p).call \in {"store", "load", "int", "string"}
  PROVE  Address(p) \in 0..(SPACE - 1) /\ Address(p) \div PGSIZE \in Vpn /\ Address(p) % PGSIZE \in Index
<1>1. SPACE \in Nat \ {0}
  <2>1. PGSIZE * PGSIZE \in Nat \ {0}
    BY Sizes
  <2> QED BY <2>1, Sizes DEF SPACE
<1>2. proc[p].sz \in Int
  BY Sizes DEF Rec, Sz
<1>3. \/ Instr(p).at = "kernel"
      \/ Instr(p).at = "page" /\ Instr(p).page \in Nat
      \/ Instr(p).at = "end" /\ Instr(p).back \in Int
  BY DEF WellFormed
<1>4. \E a \in Int : Address(p) = a % SPACE
  <2>1. KERNBASE * PGSIZE \in Int
    BY Sizes
  <2>2. CASE Instr(p).at = "kernel"
    BY <2>1, <2>2 DEF Address
  <2>3. CASE Instr(p).at = "page" /\ Instr(p).page \in Nat
    <3>1. Instr(p).page * PGSIZE \in Int
      BY <2>3, Sizes
    <3> QED BY <2>3, <3>1 DEF Address
  <2>4. CASE Instr(p).at = "end" /\ Instr(p).back \in Int
    <3>1. proc[p].sz - Instr(p).back \in Int
      BY <1>2, <2>4
    <3> QED BY <2>4, <3>1 DEF Address
  <2> QED BY <1>3, <2>2, <2>3, <2>4
<1>5. Address(p) \in 0..(SPACE - 1)
  BY <1>1, <1>4
<1> DEFINE a == Address(p)
<1> HIDE DEF a
<1>6. ASSUME NEW x \in 0..(SPACE - 1) PROVE x \div PGSIZE \in Vpn /\ x % PGSIZE \in Index
  <2> DEFINE n == PGSIZE * PGSIZE
  <2>1. n \in Nat \ {0} /\ SPACE = n * PGSIZE
    BY Sizes DEF SPACE
  <2> HIDE DEF n
  <2>2. x \in Nat /\ x < n * PGSIZE
    BY <2>1, <1>1
  <2>3. x \div PGSIZE \in 0..(n - 1) /\ x % PGSIZE \in 0..(PGSIZE - 1)
    BY <2>1, <2>2, Sizes, Quotient
  <2> QED BY <2>3 DEF Vpn, Index, n
<1> QED
  BY <1>5, <1>6

LEMMA PanicIs ==
  ASSUME NEW M \in Ram, NEW why, why # ""
  PROVE  Panic(M, why).panic # ""
<1>1. Panic(M, why) = [M EXCEPT !.panic = why]
  BY DEF Ram, Panic
<1> QED
  BY <1>1 DEF Ram

\* The directory of a process.
LEMMA PgdirIs ==
  ASSUME NEW M, NEW P, NEW p \in Procs
  PROVE  /\ Pgdir(p) \in Slots /\ Pgdir(p)[1] # "kstack" /\ View(M, P)[Pgdir(p)] = P[p].pgdir
         /\ New(p) \in Slots /\ New(p)[1] # "kstack" /\ View(M, P)[New(p)] = P[p].new
         /\ Kstack(p) \in Slots /\ Kstack(p)[1] = "kstack" /\ View(M, P)[Kstack(p)] = P[p].kstack
  BY SlotIs, ViewIs

LEMMA TrapWorks ==
  ASSUME test \in DOMAIN Programs, Working(test, ram, proc), NEW p \in Procs, Idle(p), Trap(p)
  PROVE  Working(test, ram', proc')
<1>1. Good(test, proc) /\ Accounts(ram, View(ram, proc)) /\ ram' = ram
  BY Between DEF Trap
<1>2. proc = [q \in Procs |-> proc[q]] /\ \A q \in Procs : DOMAIN proc[q] = Fields
  BY <1>1 DEF Good, Rec
<1>3. proc' = [proc EXCEPT ![p].killed = TRUE]
  BY DEF Trap
<1>4. proc' = [q \in Procs |-> IF q = p THEN [proc[p] EXCEPT !.killed = TRUE] ELSE proc[q]]
  BY <1>2, <1>3
<1>5. proc' = [q \in Procs |-> proc'[q]] /\ proc'[p] = [proc[p] EXCEPT !.killed = TRUE] /\ \A q \in Procs : q # p => proc'[q] = proc[q]
  BY <1>4
<1>6. \A z \in Procs : DOMAIN proc'[z] = Fields /\ \A f \in Fields \ {"killed", "parent"} : proc'[z][f] = proc[z][f]
  BY <1>2, <1>5
<1>7. Working(test, ram, proc')
  BY <1>1, <1>5, <1>6, MarksWork
<1> QED
  BY <1>1, <1>7

LEMMA LoadWorks ==
  ASSUME test \in DOMAIN Programs, Working(test, ram, proc), NEW p \in Procs, Load(p)
  PROVE  Working(test, ram', proc')
<1>1. Idle(p)
  BY DEF Load, Calls
<1>2. CASE Trap(p)
  BY <1>1, <1>2, TrapWorks
<1>3. ASSUME NEW ok, Returns(p, ok, FALSE), UNCHANGED ram PROVE Working(test, ram', proc')
  <2>1. /\ Good(test, proc) /\ Accounts(ram, View(ram, proc)) /\ proc[p].st = "RUNNABLE" /\ Moves(ram, proc, p, NULL, ram)
    BY <1>1, Between
  <2>2. Working(test, ram, proc')
    BY <1>3, <2>1, ReturnWorks
  <2> QED BY <1>3, <2>2
<1> QED
  BY <1>2, <1>3 DEF Load

LEMMA StoreWorks ==
  ASSUME test \in DOMAIN Programs, Working(test, ram, proc), NEW p \in Procs, Store(p)
  PROVE  Working(test, ram', proc')
<1>1. Idle(p) /\ Calls(p, "store")
  BY DEF Store, Calls
<1>2. CASE Trap(p)
  BY <1>1, <1>2, TrapWorks
<1>3. CASE ~Trap(p)
  <2> DEFINE e == Reaches(p)
             j == Address(p) % PGSIZE
             v == Address(p) \div PGSIZE
             c == <<Instr(p).v, "data">>
             N == SetCell(ram, e[1], j, c)
             V == View(ram, proc)
  <2>1. e[2] = "PU" /\ ram' = N /\ Returns(p, TRUE, FALSE)
    BY <1>3 DEF Store, SetCell
  <2>2. /\ Good(test, proc) /\ Accounts(ram, V) /\ proc[p].st = "RUNNABLE" /\ Rec(test, proc[p]) /\ proc[p].pgdir # NULL /\ proc[p].new = NULL
    BY <1>1, Between
  <2>3. WellFormed(Instr(p)) /\ Instr(p).call = "store"
    BY <1>1, <2>2, IdleIs
  <2>4. v \in Vpn /\ j \in Index
    BY <2>2, <2>3, AddressIs
  <2>5. c \in Cell
    <3>1. Instr(p).v \in Int /\ "data" \in Kinds
      BY <2>3 DEF WellFormed, Kinds
    <3> QED BY <3>1, Pair, Zenon DEF Cell
  <2>6. Pgdir(p) \in Slots /\ Pgdir(p)[1] # "kstack" /\ V[Pgdir(p)] = proc[p].pgdir
    BY PgdirIs
  <2>7. e = PTE(ram, V[Pgdir(p)], v)
    BY <2>6 DEF Reaches
  <2> HIDE DEF e, j, v, c, V
  <2>8. N.panic # "" \/ After(ram, N, V)
    BY <2>1, <2>2, <2>4, <2>5, <2>6, <2>7, PageWritten
  <2> HIDE DEF N
  <2>9. Moves(ram, proc, p, NULL, N)
    BY <2>2, <2>8 DEF Moves, V
  <2>10. Working(test, N, proc')
    BY <2>1, <2>2, <2>9, ReturnWorks DEF V
  <2> QED BY <2>1, <2>10
<1> QED
  BY <1>2, <1>3

LEMMA ReadsWork ==
  ASSUME test \in DOMAIN Programs, Working(test, ram, proc), NEW p \in Procs, Idle(p), NEW ok, Returns(p, ok, FALSE),
         UNCHANGED ram \/ \E a : Traps(p, a)
  PROVE  Working(test, ram', proc')
<1>1. /\ Good(test, proc) /\ Accounts(ram, View(ram, proc)) /\ proc[p].st = "RUNNABLE" /\ Moves(ram, proc, p, NULL, ram) /\ ram.panic = ""
  BY Between
<1>2. ram' = ram \/ ram'.panic # ""
  <2>1. ram \in Ram
    BY <1>1, AccountsType
  <2>2. Panic(ram, "trap").panic # ""
    BY <2>1, PanicIs
  <2> QED BY <2>2 DEF Traps
<1>3. Moves(ram, proc, p, NULL, ram')
  BY <1>1, <1>2 DEF Moves
<1> QED
  BY <1>1, <1>3, ReturnWorks
LEMMA FetchintWorks ==
  ASSUME test \in DOMAIN Programs, Working(test, ram, proc), NEW p \in Procs, fetchint(p)
  PROVE  Working(test, ram', proc')
<1>1. Idle(p)
  BY DEF fetchint, Calls
<1>2. \E ok : Returns(p, ok, FALSE) /\ (UNCHANGED ram \/ \E a : Traps(p, a))
  BY DEF fetchint
<1> QED
  BY <1>1, <1>2, ReadsWork
LEMMA FetchstrWorks ==
  ASSUME test \in DOMAIN Programs, Working(test, ram, proc), NEW p \in Procs, fetchstr(p)
  PROVE  Working(test, ram', proc')
<1>1. Idle(p)
  BY DEF fetchstr, Calls
<1>2. \E ok : Returns(p, ok, FALSE) /\ (UNCHANGED ram \/ \E a : Traps(p, a))
  BY DEF fetchstr
<1> QED
  BY <1>1, <1>2, ReadsWork
LEMMA AwaitWorks ==
  ASSUME test \in DOMAIN Programs, Working(test, ram, proc), NEW p \in Procs, Await(p)
  PROVE  Working(test, ram', proc')
<1>1. Idle(p) /\ Returns(p, TRUE, FALSE) /\ UNCHANGED ram
  BY DEF Await, Calls
<1> QED
  BY <1>1, ReadsWork

LEMMA KillWorks ==
  ASSUME test \in DOMAIN Programs, Working(test, ram, proc), NEW p \in Procs, Kill(p)
  PROVE  Working(test, ram', proc')
<1> DEFINE V == View(ram, proc)
           yes == TRUE
           no == FALSE
           r == Back(p, yes, no)
           Q == [q \in Procs |-> IF q = p THEN proc[p] ELSE [proc[q] EXCEPT !.killed = @ \/ q \in Children(p)]]
<1>1. Idle(p) /\ ram' = ram
  BY DEF Kill, Calls
<1>2. proc' = [q \in Procs |-> IF q = p THEN r ELSE [proc[q] EXCEPT !.killed = @ \/ q \in Children(p)]]
  BY DEF Kill
<1>3. /\ Good(test, proc) /\ Accounts(ram, V) /\ proc[p].st = "RUNNABLE" /\ Rec(test, proc[p]) /\ proc[p].new = NULL
  BY <1>1, Between
<1>e. r = Back(p, yes, no)
  OBVIOUS
<1> HIDE DEF r, yes, no
<1>f. Rec(test, proc[p])
  BY <1>3
<1> HIDE DEF V, Q
<1>4. r.kstack = proc[p].kstack /\ r.pgdir = proc[p].pgdir /\ r.new = NULL
  BY <1>f, <1>e, BackIs
<1>5. Rec(test, r) /\ \A q : ~Forks(r, q)
  BY <1>3, <1>e, BackRests
<1>6. proc' = Puts(Q, p, r) /\ Q[p] = proc[p]
  BY <1>2, <1>e DEF Puts, Q
<1>7. \A z \in Procs : DOMAIN proc[z] = Fields
  BY <1>3 DEF Good, Rec
<1>8. Q = [q \in Procs |-> Q[q]]
  BY DEF Q
<1>9. \A z \in Procs : DOMAIN Q[z] = Fields /\ \A f \in Fields \ {"killed", "parent"} : Q[z][f] = proc[z][f]
  <2>1. \A z \in Procs : z = p \/ Q[z] = [proc[z] EXCEPT !.killed = @ \/ z \in Children(p)]
    BY DEF Q
  <2>2. Q[p] = proc[p]
    BY DEF Q
  <2> HIDE DEF Q
  <2> QED BY <1>7, <2>1, <2>2
<1> HIDE DEF Q
<1>10. Good(test, Q) /\ View(ram, Q) = V
  BY <1>3, <1>8, <1>9, MarksWork DEF V
<1>11. Moves(ram, Q, p, r.new, ram)
  BY <1>3, <1>4, <1>6, <1>10 DEF Moves, After
<1>12. Accounts(ram, View(ram, Q))
  BY <1>3, <1>10 DEF V
<1>13. Q[p].st # "EMBRYO" /\ r.kstack = Q[p].kstack /\ r.pgdir = Q[p].pgdir
  BY <1>3, <1>4, <1>6
<1>14. Working(test, ram, proc')
  BY <1>5, <1>6, <1>10, <1>11, <1>12, <1>13, MineWorks
<1> QED
  BY <1>1, <1>14

LEMMA ExitWorks ==
  ASSUME test \in DOMAIN Programs, Working(test, ram, proc), NEW p \in Procs, Exit(p)
  PROVE  Working(test, ram', proc')
<1> DEFINE V == View(ram, proc)
           r == [proc[p] EXCEPT !.st = "ZOMBIE"]
           Q == [q \in Procs |-> IF q = p THEN proc[p] ELSE IF proc[q].parent = p THEN [proc[q] EXCEPT !.parent = 1] ELSE proc[q]]
<1>1. Idle(p) /\ ram' = ram
  BY DEF Exit
<1>2. proc' = [q \in Procs |-> IF q = p THEN r ELSE IF proc[q].parent = p THEN [proc[q] EXCEPT !.parent = 1] ELSE proc[q]]
  BY DEF Exit
<1>3. /\ Good(test, proc) /\ Accounts(ram, V) /\ proc[p].st = "RUNNABLE" /\ Rec(test, proc[p]) /\ proc[p].new = NULL /\ proc[p].todo = <<>>
      /\ proc[p].kstack # NULL /\ proc[p].pgdir # NULL
  BY <1>1, Between
<1>7. \A z \in Procs : DOMAIN proc[z] = Fields
  BY <1>3 DEF Good, Rec
<1>4. /\ r.kstack = proc[p].kstack /\ r.pgdir = proc[p].pgdir /\ r.new = NULL /\ r.todo = <<>> /\ r.st = "ZOMBIE"
      /\ DOMAIN r = Fields /\ r.at = proc[p].at /\ r.sz = proc[p].sz /\ r.kid = proc[p].kid
  BY <1>3, <1>7 DEF Fields
<1> HIDE DEF r
<1>s. State(r)
  BY <1>3, <1>4 DEF State
<1>t. /\ r.kstack \in Nat /\ r.pgdir \in Nat /\ r.sz \in Sz /\ r.at \in Nat \ {0} /\ Born(test, r.kid)
  BY <1>3, <1>4 DEF Rec
<1>5. Rec(test, r) /\ \A q : ~Forks(r, q)
  BY <1>4, <1>s, <1>t, Rests
<1>6. proc' = Puts(Q, p, r) /\ Q[p] = proc[p]
  BY <1>2 DEF Puts
<1>8. Q = [q \in Procs |-> Q[q]]
  OBVIOUS
<1>9. \A z \in Procs : DOMAIN Q[z] = Fields /\ \A f \in Fields \ {"killed", "parent"} : Q[z][f] = proc[z][f]
  <2>1. \A z \in Procs : Q[z] = proc[z] \/ Q[z] = [proc[z] EXCEPT !.parent = 1]
    OBVIOUS
  <2> HIDE DEF Q
  <2> QED BY <1>7, <2>1
<1> HIDE DEF Q
<1>10. Good(test, Q) /\ View(ram, Q) = V
  BY <1>3, <1>8, <1>9, MarksWork
<1>11. Moves(ram, Q, p, r.new, ram)
  BY <1>3, <1>4, <1>6, <1>10 DEF Moves, After
<1>12. Accounts(ram, View(ram, Q))
  BY <1>3, <1>10
<1>13. Q[p].st # "EMBRYO" /\ r.kstack = Q[p].kstack /\ r.pgdir = Q[p].pgdir
  BY <1>3, <1>4, <1>6
<1>14. Working(test, ram, proc')
  BY <1>5, <1>6, <1>10, <1>11, <1>12, <1>13, MineWorks
<1> QED
  BY <1>1, <1>14

LEMMA AfterAlso ==
  ASSUME NEW M, NEW N, NEW V, After(M, N, V), NEW L, NEW W, After(N, L, W)
  PROVE  After(M, L, W)
  BY DEF After

\* A process that goes on with its call, and one that is back from it with another size.
Doing(r, op) == [r EXCEPT !.todo = <<op>>]
Sized(r, x) == [r EXCEPT !.sz = x]
LEMMA DoWorks ==
  ASSUME Good(test, proc), Accounts(ram, View(ram, proc)), NEW p \in Procs, proc[p].st = "RUNNABLE",
         NEW op, Do(p, op), NEW r, r = Doing(proc[p], op), Busy(test, r), \A q : ~Forks(r, q),
         NEW N, Moves(ram, proc, p, proc[p].new, N)
  PROVE  Working(test, N, proc')
<1>1. proc' = Puts(proc, p, r)
  BY DEF Do, Puts, Doing
<1>2. Rec(test, proc[p])
  BY DEF Good
<1>3. /\ DOMAIN r = Fields /\ r.kstack = proc[p].kstack /\ r.pgdir = proc[p].pgdir /\ r.new = proc[p].new /\ r.sz = proc[p].sz
      /\ r.at = proc[p].at /\ r.kid = proc[p].kid /\ r.st = proc[p].st
  BY <1>2 DEF Rec, Doing, Fields
<1>4. State(r)
  BY <1>2, <1>3 DEF Rec, State
<1>5. Rec(test, r)
  BY <1>2, <1>3, <1>4 DEF Rec
<1>6. Moves(ram, proc, p, r.new, N) /\ proc[p].st # "EMBRYO"
  BY <1>3
<1>7. r.kstack = proc[p].kstack /\ r.pgdir = proc[p].pgdir
  BY <1>3
<1> QED
  BY <1>1, <1>5, <1>6, <1>7, MineWorks
LEMMA SizedWorks ==
  ASSUME test \in DOMAIN Programs, Good(test, proc), Accounts(ram, View(ram, proc)), NEW p \in Procs, proc[p].st = "RUNNABLE",
         NEW ok, NEW short, NEW x \in Sz, NEW r, r = Sized(Back(p, ok, short), x), proc' = Puts(proc, p, r),
         NEW N, Moves(ram, proc, p, NULL, N)
  PROVE  Working(test, N, proc')
<1> DEFINE b == Back(p, ok, short)
<1>2. Rec(test, proc[p])
  BY DEF Good
<1>e. b = Back(p, ok, short)
  OBVIOUS
<1> HIDE DEF b
<1>3. /\ DOMAIN b = Fields /\ b.st = proc[p].st /\ b.kid = proc[p].kid /\ b.kstack = proc[p].kstack
      /\ b.pgdir = proc[p].pgdir /\ b.sz = proc[p].sz /\ b.todo = <<>> /\ b.new = NULL /\ b.at \in Nat \ {0}
  BY <1>2, <1>e, BackIs
<1>s. r = Sized(b, x)
  BY DEF b
<1>4. /\ DOMAIN r = Fields /\ r.st = "RUNNABLE" /\ r.kid = proc[p].kid /\ r.kstack = proc[p].kstack
      /\ r.pgdir = proc[p].pgdir /\ r.sz = x /\ r.todo = <<>> /\ r.new = NULL /\ r.at \in Nat \ {0}
  BY <1>3, <1>s DEF Sized, Fields
<1>5. State(r) /\ Born(test, r.kid) /\ r.kstack \in Nat /\ r.pgdir \in Nat
  BY <1>2, <1>4 DEF Rec, State
<1>6. Rec(test, r) /\ \A q : ~Forks(r, q)
  BY <1>4, <1>5, Rests
<1>7. Moves(ram, proc, p, r.new, N) /\ proc[p].st # "EMBRYO" /\ r.kstack = proc[p].kstack /\ r.pgdir = proc[p].pgdir
  BY <1>4
<1> QED
  BY <1>6, <1>7, MineWorks

\* The new size of a process.
LEMMA NewSize ==
  ASSUME NEW p \in Procs, Rec(test, proc[p]), WellFormed(Instr(p)), Instr(p).call = "sbrk", NEW n,
         n = IF "to" \in DOMAIN Instr(p) THEN Instr(p).to - proc[p].sz ELSE Instr(p).n
  PROVE  n \in Int /\ (proc[p].sz + n) % SPACE \in Nat
<1>1. proc[p].sz \in Nat
  BY Sizes DEF Rec, Sz
<1>2. n \in Int
  BY <1>1 DEF WellFormed
<1>3. SPACE \in Nat \ {0}
  <2>1. PGSIZE * PGSIZE \in Nat \ {0}
    BY Sizes
  <2> QED BY <2>1, Sizes DEF SPACE
<1>4. proc[p].sz + n \in Int
  BY <1>1, <1>2
<1> QED
  BY <1>2, <1>3, <1>4

LEMMA SbrkWorks ==
  ASSUME test \in DOMAIN Programs, Working(test, ram, proc), NEW p \in Procs, Sbrk(p)
  PROVE  Working(test, ram', proc')
<1> DEFINE sz == proc[p].sz
           n == IF "to" \in DOMAIN Instr(p) THEN Instr(p).to - sz ELSE Instr(p).n
           newsz == (sz + n) % SPACE
           V == View(ram, proc)
<1>1. Idle(p) /\ Calls(p, "sbrk")
  BY DEF Sbrk, Calls
<1>2. /\ Good(test, proc) /\ Accounts(ram, V) /\ proc[p].st = "RUNNABLE" /\ Rec(test, proc[p]) /\ proc[p].pgdir # NULL /\ proc[p].new = NULL
      /\ Moves(ram, proc, p, NULL, ram)
  BY <1>1, Between
<1>3. WellFormed(Instr(p)) /\ Instr(p).call = "sbrk"
  BY <1>1, <1>2, IdleIs
<1>4. n \in Int /\ newsz \in Nat
  BY <1>2, <1>3, NewSize
<1>5. sz \in Sz /\ KERNBASE * PGSIZE \in Nat
  BY <1>2, Sizes DEF Rec
<1>6. \/ \E ok : Returns(p, ok, FALSE) /\ UNCHANGED ram
      \/ newsz < KERNBASE * PGSIZE /\ Do(p, <<"allocuvm", PGROUNDUP(sz), newsz>>) /\ UNCHANGED ram
      \/ /\ newsz < sz /\ ram' = deallocuvm(ram, proc[p].pgdir, sz, newsz)
         /\ proc' = [proc EXCEPT ![p] = [Back(p, newsz > 0, FALSE) EXCEPT !.sz = IF newsz > 0 THEN newsz ELSE @]]
  <2> DEFINE x == newsz
  <2>1. x = (sz + n) % SPACE
    OBVIOUS
  <2>2. /\ IF n > 0 /\ x >= KERNBASE * PGSIZE THEN Returns(p, FALSE, FALSE) /\ UNCHANGED ram
           ELSE IF n > 0 /\ x > sz THEN Do(p, <<"allocuvm", PGROUNDUP(sz), x>>) /\ UNCHANGED ram
           ELSE IF n > 0 \/ x >= sz THEN Returns(p, TRUE, FALSE) /\ UNCHANGED ram
           ELSE /\ ram' = deallocuvm(ram, proc[p].pgdir, sz, x)
                /\ proc' = [proc EXCEPT ![p] = [Back(p, x > 0, FALSE) EXCEPT !.sz = IF x > 0 THEN x ELSE @]]
    BY DEF Sbrk
  <2>3. sz \in Nat /\ x \in Nat
    BY <1>4, <1>5 DEF Sz
  <2> HIDE DEF x, n
  <2>4. CASE n > 0 /\ x >= KERNBASE * PGSIZE
    <3>1. Returns(p, FALSE, FALSE) /\ UNCHANGED ram
      BY <2>2, <2>4
    <3> QED BY <3>1
  <2>5. CASE n > 0 /\ ~(x >= KERNBASE * PGSIZE) /\ x > sz
    <3>1. Do(p, <<"allocuvm", PGROUNDUP(sz), x>>) /\ UNCHANGED ram
      BY <2>2, <2>5
    <3>2. x < KERNBASE * PGSIZE
      BY <1>5, <2>3, <2>5
    <3> QED BY <3>1, <3>2 DEF x
  <2>6. CASE ~(n > 0 /\ x >= KERNBASE * PGSIZE) /\ ~(n > 0 /\ x > sz) /\ (n > 0 \/ x >= sz)
    <3>1. Returns(p, TRUE, FALSE) /\ UNCHANGED ram
      BY <2>2, <2>6
    <3> QED BY <3>1
  <2>7. CASE ~(n > 0) /\ ~(x >= sz)
    <3>1. /\ ram' = deallocuvm(ram, proc[p].pgdir, sz, x)
          /\ proc' = [proc EXCEPT ![p] = [Back(p, x > 0, FALSE) EXCEPT !.sz = IF x > 0 THEN x ELSE @]]
      BY <2>2, <2>7
    <3>2. x < sz
      BY <2>3, <2>7
    <3> QED BY <3>1, <3>2 DEF x
  <2> QED BY <2>4, <2>5, <2>6, <2>7
<1> HIDE DEF n, newsz
<1>7. ASSUME NEW ok, Returns(p, ok, FALSE), UNCHANGED ram PROVE Working(test, ram', proc')
  BY <1>1, <1>7, ReadsWork
<1>8. CASE newsz < KERNBASE * PGSIZE /\ Do(p, <<"allocuvm", PGROUNDUP(sz), newsz>>) /\ UNCHANGED ram
  <2> DEFINE op == <<"allocuvm", PGROUNDUP(sz), newsz>>
             r == Doing(proc[p], op)
  <2>1. PGROUNDUP(sz) \in Nat
    BY <1>5, SizeBounds DEF Sz
  <2>2. newsz \in Sz
    BY <1>4, <1>5, <1>8 DEF Sz
  <2>3. r.todo = <<op>> /\ r.new = NULL
    BY <1>2 DEF Rec, Doing, Fields
  <2>e. r = Doing(proc[p], op) /\ Do(p, op)
    BY <1>8
  <2> HIDE DEF r
  <2>4. Busy(test, r)
    BY <2>1, <2>2, <2>3 DEF Busy
  <2>5. \A q : ~Forks(r, q)
    BY <2>3, ForkOf
  <2>6. Moves(ram, proc, p, proc[p].new, ram)
    BY <1>2
  <2> HIDE DEF op
  <2>7. Working(test, ram, proc')
    BY <1>2, <2>e, <2>4, <2>5, <2>6, DoWorks
  <2> QED BY <1>8, <2>7
<1>9. CASE /\ newsz < sz /\ ram' = deallocuvm(ram, proc[p].pgdir, sz, newsz)
           /\ proc' = [proc EXCEPT ![p] = [Back(p, newsz > 0, FALSE) EXCEPT !.sz = IF newsz > 0 THEN newsz ELSE @]]
  <2> DEFINE N == deallocuvm(ram, proc[p].pgdir, sz, newsz)
             ok == newsz > 0
             no == FALSE
             x == IF newsz > 0 THEN newsz ELSE sz
             b == Back(p, ok, no)
             r == Sized(b, x)
  <2>0. ram' = N
    BY <1>9
  <2>1. newsz \in Sz
    BY <1>4, <1>5, <1>9 DEF Sz
  <2>2. x \in Sz
    BY <1>5, <2>1
  <2>3. After(ram, N, V)
    <3>1. Pgdir(p) \in Slots /\ Pgdir(p)[1] # "kstack" /\ V[Pgdir(p)] = proc[p].pgdir
      BY PgdirIs
    <3> HIDE DEF V
    <3>2. After(ram, deallocuvm(ram, V[Pgdir(p)], sz, newsz), V)
      BY <1>2, <1>5, <2>1, <3>1, DirShrunk DEF Sz
    <3> QED BY <3>1, <3>2
  <2>4. Moves(ram, proc, p, NULL, N)
    BY <1>2, <2>3 DEF Moves
  <2>5. proc' = Puts(proc, p, r)
    <3>1. [b EXCEPT !.sz = IF newsz > 0 THEN newsz ELSE @] = Sized(b, x)
      <4>1. b.sz = sz
        <5> HIDE DEF ok, no
        <5> HIDE DEF b
        <5>1. b = Back(p, ok, no)
          BY DEF b
        <5> QED BY <1>2, <5>1, BackIs
      <4> HIDE DEF b
      <4> QED BY <4>1 DEF Sized
    <3> HIDE DEF b
    <3>2. proc' = [proc EXCEPT ![p] = [b EXCEPT !.sz = IF newsz > 0 THEN newsz ELSE @]]
      BY <1>9 DEF b
    <3> QED BY <3>1, <3>2 DEF Puts
  <2> HIDE DEF N, ok, no, x
  <2>e. r = Sized(Back(p, ok, no), x)
    OBVIOUS
  <2> HIDE DEF r
  <2>6. Working(test, N, proc')
    BY <1>2, <2>2, <2>4, <2>5, <2>e, SizedWorks
  <2> QED BY <2>0, <2>6
<1> QED
  BY <1>6, <1>7, <1>8, <1>9

LEMMA SbrkPageWorks ==
  ASSUME test \in DOMAIN Programs, Working(test, ram, proc), NEW p \in Procs, SbrkPage(p)
  PROVE  Working(test, ram', proc')
<1> DEFINE V == View(ram, proc)
<1>1. Does(p, "allocuvm")
  BY DEF SbrkPage
<1>2. /\ Good(test, proc) /\ Accounts(ram, V) /\ proc[p].st = "RUNNABLE" /\ Rec(test, proc[p]) /\ proc[p].pgdir # NULL /\ After(ram, ram, V)
  BY <1>1, Within
<1>3. proc[p].new = NULL
  BY <1>1, <1>2, DoesGrow
<1>4. PICK v \in Nat, newsz \in Sz : Op(p) = <<"allocuvm", v, newsz>> /\ proc[p].todo = <<Op(p)>>
  BY <1>1, <1>2, DoesGrow
<1>5. Pgdir(p) \in Slots /\ Pgdir(p)[1] # "kstack" /\ V[Pgdir(p)] = proc[p].pgdir
  BY PgdirIs
<1> DEFINE w == allocuvm(ram, proc[p].pgdir, v)
<1>6. Op(p)[2] = v /\ Op(p)[3] = newsz
  BY <1>4, Triple
<1>7. IF v * PGSIZE >= newsz
      THEN proc' = [proc EXCEPT ![p] = [Back(p, TRUE, FALSE) EXCEPT !.sz = newsz]] /\ UNCHANGED ram
      ELSE IF w[2] = "none"
      THEN ram' = deallocuvm(ram, proc[p].pgdir, newsz, proc[p].sz) /\ Returns(p, FALSE, TRUE)
      ELSE /\ ram' = w[1]
           /\ proc' = [proc EXCEPT ![p].todo = <<<<"allocuvm", v + 1, newsz>>>>, ![p].torn = @ \/ w[2] = "torn"]
  BY <1>6 DEF SbrkPage
<1>w. w = allocuvm(ram, V[Pgdir(p)], v)
  BY <1>5
<1> HIDE DEF V, w
<1>8. CASE v * PGSIZE >= newsz
  <2> DEFINE yes == TRUE
             no == FALSE
             r == Sized(Back(p, yes, no), newsz)
  <2>1. proc' = Puts(proc, p, r) /\ ram' = ram
    BY <1>7, <1>8 DEF Puts, Sized
  <2>2. r = Sized(Back(p, yes, no), newsz)
    OBVIOUS
  <2> HIDE DEF r, yes, no
  <2>3. Moves(ram, proc, p, NULL, ram)
    BY <1>2, <1>3 DEF Moves, V
  <2>4. Working(test, ram, proc')
    BY <1>2, <2>1, <2>2, <2>3, SizedWorks DEF V
  <2> QED BY <2>1, <2>4
<1>9. CASE ~(v * PGSIZE >= newsz) /\ w[2] = "none"
  <2> DEFINE N == deallocuvm(ram, proc[p].pgdir, newsz, proc[p].sz)
             yes == TRUE
             no == FALSE
  <2>1. ram' = N /\ Returns(p, no, yes)
    BY <1>7, <1>9
  <2>2. proc[p].sz \in Sz
    BY <1>2 DEF Rec
  <2>3. After(ram, deallocuvm(ram, V[Pgdir(p)], newsz, proc[p].sz), V)
    BY <1>2, <1>5, <2>2, DirShrunk DEF Sz
  <2>4. After(ram, N, V)
    BY <1>5, <2>3
  <2> HIDE DEF N, yes, no
  <2>5. Moves(ram, proc, p, NULL, N)
    BY <1>3, <2>4 DEF Moves, V
  <2>6. Working(test, N, proc')
    BY <1>2, <2>1, <2>5, ReturnWorks DEF V
  <2> QED BY <2>1, <2>6
<1>10. CASE ~(v * PGSIZE >= newsz) /\ ~(w[2] = "none")
  <2> DEFINE N == w[1]
             op == <<"allocuvm", v + 1, newsz>>
             r == [proc[p] EXCEPT !.todo = <<op>>, !.torn = @ \/ w[2] = "torn"]
  <2>1. ram' = N /\ proc' = [proc EXCEPT ![p].todo = <<op>>, ![p].torn = @ \/ w[2] = "torn"]
    BY <1>7, <1>10
  <2>2. proc' = Puts(proc, p, r)
    <3>1. proc = [q \in Procs |-> proc[q]] /\ DOMAIN proc[p] = Fields
      BY <1>2 DEF Good, Rec
    <3> QED BY <2>1, <3>1 DEF Puts
  <2>3. v < KERNBASE /\ v \in Vpn
    <3>1. v * PGSIZE \in Nat /\ newsz \in Nat
      BY Sizes DEF Sz
    <3>2. v * PGSIZE < newsz
      BY <1>10, <3>1
    <3>3. v < KERNBASE
      BY <3>2, SizeBounds DEF Sz
    <3>4. v \in 0..(KERNBASE - 1)
      BY <3>3, Sizes
    <3> QED BY <3>3, <3>4, Below
  <2>4. \/ w[2] = "none" /\ w[1] = ram
        \/ w[2] = "ok" /\ w[1].panic # ""
        \/ w[2] \in {"ok", "torn"} /\ After(ram, w[1], V)
    BY <1>2, <1>5, <1>w, <2>3, DirGrown
  <2>5. N.panic # "" \/ After(ram, N, V)
    BY <1>10, <2>4
  <2>6. /\ r.todo = <<op>> /\ r.new = NULL /\ DOMAIN r = Fields /\ r.kstack = proc[p].kstack /\ r.pgdir = proc[p].pgdir /\ r.sz = proc[p].sz
        /\ r.at = proc[p].at /\ r.kid = proc[p].kid /\ r.st = proc[p].st
    BY <1>2, <1>3 DEF Rec, Fields
  <2> HIDE DEF r, N
  <2>7. Busy(test, r)
    <3>1. v + 1 \in Nat
      OBVIOUS
    <3> QED BY <2>6, <3>1 DEF Busy
  <2>8. \A q : ~Forks(r, q)
    BY <2>6, ForkOf
  <2> HIDE DEF op
  <2>9. State(r)
    BY <1>2, <2>6 DEF Rec, State
  <2>10. Rec(test, r)
    BY <1>2, <1>3, <2>6, <2>7, <2>9 DEF Rec
  <2>11. Moves(ram, proc, p, r.new, N)
    BY <1>3, <2>5, <2>6 DEF Moves, V
  <2>12. proc[p].st # "EMBRYO" /\ r.kstack = proc[p].kstack /\ r.pgdir = proc[p].pgdir
    BY <1>2, <2>6
  <2>13. Working(test, N, proc')
    BY <1>2, <2>2, <2>8, <2>10, <2>11, <2>12, MineWorks DEF V
  <2> QED BY <2>1, <2>13
<1> QED
  BY <1>8, <1>9, <1>10

LEMMA ExecWorks ==
  ASSUME test \in DOMAIN Programs, Working(test, ram, proc), NEW p \in Procs, Exec(p)
  PROVE  Working(test, ram', proc')
<1> DEFINE V == View(ram, proc)
           d == setupkvm(ram)
<1>1. Idle(p) /\ Calls(p, "exec")
  BY DEF Exec, Calls
<1>2. /\ Good(test, proc) /\ Accounts(ram, V) /\ proc[p].st = "RUNNABLE" /\ Rec(test, proc[p]) /\ proc[p].new = NULL
  BY <1>1, Between
<1>3. In(test, proc[p], "exec")
  BY <1>1, <1>2, IdleIs
<1>4. New(p) \in Slots /\ New(p)[1] # "kstack" /\ V[New(p)] = NULL
  BY <1>2, PgdirIs
<1>5. ram' = d[1] /\ IF d[2] = NULL THEN Returns(p, FALSE, TRUE)
                     ELSE proc' = [proc EXCEPT ![p].todo = <<<<"exec", 0, FALSE>>>>, ![p].new = d[2]]
  BY DEF Exec
<1>6. \/ Broken(d[1])
      \/ d[2] = NULL /\ After(ram, d[1], V)
      \/ d[2] # NULL /\ d[2] \in Nat /\ ram.free # <<>> /\ After(ram, d[1], Has(V, New(p), d[2]))
  <2> HIDE DEF V
  <2> QED BY <1>2, <1>4, DirSetUp
<1> HIDE DEF d, V
<1>7. CASE Broken(d[1])
  BY <1>5, <1>7 DEF Broken, Working
<1>8. CASE d[2] = NULL /\ After(ram, d[1], V)
  <2> DEFINE N == d[1]
             yes == TRUE
             no == FALSE
  <2>1. Returns(p, no, yes) /\ ram' = N
    BY <1>5, <1>8
  <2>2. Moves(ram, proc, p, NULL, N)
    BY <1>2, <1>8 DEF Moves, V
  <2> HIDE DEF N, yes, no
  <2>3. Working(test, N, proc')
    BY <1>2, <2>1, <2>2, ReturnWorks DEF V
  <2> QED BY <2>1, <2>3
<1>9. CASE d[2] # NULL /\ d[2] \in Nat /\ After(ram, d[1], Has(V, New(p), d[2]))
  <2> DEFINE N == d[1]
             no == FALSE
             op == <<"exec", 0, no>>
             r == [proc[p] EXCEPT !.todo = <<op>>, !.new = d[2]]
  <2>1. ram' = N /\ proc' = [proc EXCEPT ![p].todo = <<op>>, ![p].new = d[2]]
    BY <1>5, <1>9
  <2>2. proc' = Puts(proc, p, r)
    <3>1. proc = [q \in Procs |-> proc[q]] /\ DOMAIN proc[p] = Fields
      BY <1>2 DEF Good, Rec
    <3> QED BY <2>1, <3>1 DEF Puts
  <2>6. /\ r.todo = <<op>> /\ r.new = d[2] /\ DOMAIN r = Fields /\ r.kstack = proc[p].kstack /\ r.pgdir = proc[p].pgdir /\ r.sz = proc[p].sz
        /\ r.at = proc[p].at /\ r.kid = proc[p].kid /\ r.st = proc[p].st
    BY <1>2 DEF Rec, Fields
  <2>i. no \in BOOLEAN
    OBVIOUS
  <2> HIDE DEF r, N, no
  <2>7. Busy(test, r)
    <3>1. In(test, r, "exec")
      BY <1>3, <2>6 DEF In
    <3>2. /\ 0 \in Nat /\ ~(0 > 0)
      OBVIOUS
    <3>3. ~(0 > Image(test, r))
      <4>1. Image(test, r) = Instr(p).pages
        <5>1. Instr(p) = Calling(test, proc[p].kid)[proc[p].at]
          BY <1>2, CodeIs
        <5> QED BY <2>6, <5>1 DEF Image
      <4>2. Instr(p).pages \in Nat
        <5>1. WellFormed(Instr(p)) /\ Instr(p).call = "exec"
          BY <1>1, <1>2, IdleIs
        <5> QED BY <5>1 DEF WellFormed
      <4> QED BY <4>1, <4>2
    <3> QED BY <1>9, <2>6, <2>i, <3>1, <3>2, <3>3 DEF Busy
  <2>8. \A q : ~Forks(r, q)
    BY <2>6, ForkOf
  <2> HIDE DEF op
  <2>9. State(r)
    BY <1>2, <2>6 DEF Rec, State
  <2>10. Rec(test, r)
    BY <1>2, <1>9, <2>6, <2>7, <2>9 DEF Rec
  <2>11. Moves(ram, proc, p, r.new, N)
    BY <1>9, <2>6 DEF Moves, V, N
  <2>12. proc[p].st # "EMBRYO" /\ r.kstack = proc[p].kstack /\ r.pgdir = proc[p].pgdir
    BY <1>2, <2>6
  <2>13. Working(test, N, proc')
    BY <1>2, <2>2, <2>8, <2>10, <2>11, <2>12, MineWorks DEF V
  <2> QED BY <2>1, <2>13
<1> QED
  BY <1>6, <1>7, <1>8, <1>9

\* exec gives the new directory up.
LEMMA GivesUp ==
  ASSUME test \in DOMAIN Programs, Good(test, proc), NEW V, V = View(ram, proc), Accounts(ram, V), NEW p \in Procs, proc[p].st = "RUNNABLE",
         proc[p].new # NULL, NEW M, After(ram, M, V), NEW ok, NEW short, Returns(p, ok, short)
  PROVE  Working(test, freevm(M, proc[p].new), proc')
<1> DEFINE N == freevm(M, proc[p].new)
<1>1. New(p) \in Slots /\ New(p)[1] # "kstack" /\ V[New(p)] = proc[p].new
  BY PgdirIs
<1>2. Accounts(M, V)
  BY DEF After
<1>3. After(M, freevm(M, V[New(p)]), Has(V, New(p), NULL))
  BY <1>1, <1>2, DirFreed
<1>4. After(ram, N, Has(V, New(p), NULL))
  BY <1>1, <1>3, AfterAlso
<1> HIDE DEF N
<1>5. Moves(ram, proc, p, NULL, N)
  BY <1>4 DEF Moves
<1>6. Working(test, N, proc')
  BY <1>5, ReturnWorks
<1> QED
  BY <1>6 DEF N

LEMMA ExecPageWorks ==
  ASSUME test \in DOMAIN Programs, Working(test, ram, proc), NEW p \in Procs, ExecPage(p)
  PROVE  Working(test, ram', proc')
<1> DEFINE V == View(ram, proc)
           n == Instr(p).pages
           d == proc[p].new
<1>1. Does(p, "exec")
  BY DEF ExecPage
<1>2. /\ Good(test, proc) /\ Accounts(ram, V) /\ proc[p].st = "RUNNABLE" /\ Rec(test, proc[p]) /\ proc[p].pgdir # NULL /\ After(ram, ram, V)
      /\ ram.panic = ""
  BY <1>1, Within
<1>3. d # NULL /\ In(test, proc[p], "exec") /\ n \in Nat /\ Image(test, proc[p]) = n
  BY <1>1, <1>2, DoesExec
<1>4. PICK v \in Nat, b \in BOOLEAN : /\ Op(p) = <<"exec", v, b>> /\ proc[p].todo = <<Op(p)>>
                                      /\ v > 0 => n < KERNBASE
                                      /\ v > n => n + 2 < KERNBASE
  BY <1>1, <1>2, DoesExec
<1>5. New(p) \in Slots /\ New(p)[1] # "kstack" /\ V[New(p)] = d
  BY PgdirIs
<1>6. Op(p)[2] = v
  BY <1>4, Triple
<1> DEFINE M == IF v = n THEN loaduvm(ram, d, n) ELSE ram
           newsz == IF v < n THEN n ELSE n + 2
           w == allocuvm(M, d, v)
           mark == Op(p)[3] \/ w[2] = "torn"
<1>7. /\ v < n + 2
      /\ IF M.panic # "" THEN ram' = M /\ UNCHANGED proc
         ELSE IF newsz >= KERNBASE THEN ram' = freevm(M, d) /\ Returns(p, FALSE, FALSE)
         ELSE IF w[2] = "none" THEN ram' = freevm(w[1], d) /\ Returns(p, FALSE, TRUE)
         ELSE ram' = w[1] /\ Do(p, <<"exec", v + 1, mark>>)
  BY <1>6 DEF ExecPage
<1>7a. v < n + 2
  BY <1>6 DEF ExecPage
<1>8. M.panic # "" \/ After(ram, M, V)
  <2>1. CASE v # n
    BY <1>2, <2>1
  <2>2. CASE v = n
    <3>1. n <= KERNBASE
      BY <1>3, <1>4, <2>2, Sizes
    <3>2. loaduvm(ram, V[New(p)], n).panic # "" \/ After(ram, loaduvm(ram, V[New(p)], n), V)
      <4> HIDE DEF V, n
      <4> QED BY <1>2, <1>3, <1>5, <3>1, DirLoaded
    <3> QED BY <1>5, <2>2, <3>2
  <2> QED BY <2>1, <2>2
<1>v. V = View(ram, proc)
  OBVIOUS
<1>w. w = allocuvm(M, V[New(p)], v)
  BY <1>5
<1>m. mark \in BOOLEAN
  BY <1>4, Triple
<1>n. newsz = IF v < n THEN n ELSE n + 2
  OBVIOUS
<1> HIDE DEF M, V, n, w, mark, newsz
<1>t. n \in Nat /\ newsz \in Nat /\ KERNBASE \in Nat /\ v \in Nat
  <2>1. n \in Nat
    BY <1>3
  <2>2. newsz \in Nat
    BY <1>n, <2>1
  <2> QED BY <2>1, <2>2, Sizes
<1>u. ~(newsz >= KERNBASE) => /\ newsz < KERNBASE /\ v < KERNBASE /\ n < KERNBASE /\ (v + 1 > n => n + 2 < KERNBASE)
  BY <1>n, <1>t, <1>7a
<1>9. CASE M.panic # ""
  <2>1. ram' = M
    BY <1>7, <1>9
  <2> QED BY <1>9, <2>1 DEF Working
<1>10. CASE M.panic = "" /\ newsz >= KERNBASE
  <2> DEFINE no == FALSE
  <2>1. ram' = freevm(M, d) /\ Returns(p, no, no)
    BY <1>7, <1>10
  <2> HIDE DEF no
  <2>2. After(ram, M, V)
    BY <1>8, <1>10
  <2>3. Working(test, freevm(M, proc[p].new), proc')
    BY <1>2, <1>3, <1>v, <2>1, <2>2, GivesUp
  <2> QED BY <2>1, <2>3
<1>11. CASE M.panic = "" /\ ~(newsz >= KERNBASE)
  <2>1. After(ram, M, V) /\ Accounts(M, V)
    BY <1>8, <1>11 DEF After
  <2>2. v < KERNBASE /\ v \in Vpn
    <3>2. v < KERNBASE
      BY <1>11, <1>u
    <3>3. v \in 0..(KERNBASE - 1)
      BY <3>2, Sizes
    <3> QED BY <3>2, <3>3, Below
  <2>3. \/ w[2] = "none" /\ w[1] = M
        \/ w[2] = "ok" /\ w[1].panic # ""
        \/ w[2] \in {"ok", "torn"} /\ After(M, w[1], V)
    BY <1>3, <1>5, <1>w, <2>1, <2>2, DirGrown
  <2>4. CASE w[2] = "none"
    <3> DEFINE yes == TRUE
               no == FALSE
    <3>1. ram' = freevm(w[1], d) /\ Returns(p, no, yes)
      BY <1>7, <1>11, <2>4
    <3>2. w[1] = M
      BY <2>3, <2>4
    <3> HIDE DEF yes, no
    <3>3. Working(test, freevm(M, proc[p].new), proc')
      BY <1>2, <1>3, <1>v, <2>1, <3>1, GivesUp
    <3> QED BY <3>1, <3>2, <3>3
  <2>5. CASE w[2] # "none"
    <3> DEFINE N == w[1]
               op == <<"exec", v + 1, mark>>
               r == Doing(proc[p], op)
    <3>1. ram' = N /\ Do(p, op)
      BY <1>7, <1>11, <2>5
    <3>2. N.panic # "" \/ After(ram, N, V)
      BY <2>1, <2>3, <2>5, AfterAlso
    <3>3. r.todo = <<op>> /\ r.new = d /\ r.kid = proc[p].kid /\ r.at = proc[p].at
      BY <1>2 DEF Rec, Doing, Fields
    <3>e. r = Doing(proc[p], op)
      OBVIOUS
    <3> HIDE DEF r, N
    <3>4. Busy(test, r)
      <4>1. In(test, r, "exec") /\ Image(test, r) = n
        BY <1>3, <3>3 DEF In, Image
      <4>2. v + 1 \in Nat
        OBVIOUS
      <4>3. n < KERNBASE /\ (v + 1 > n => n + 2 < KERNBASE)
        BY <1>11, <1>u
      <4> QED BY <1>3, <1>m, <3>3, <4>1, <4>2, <4>3 DEF Busy
    <3>5. \A q : ~Forks(r, q)
      BY <3>3, ForkOf
    <3> HIDE DEF op
    <3>6. Moves(ram, proc, p, proc[p].new, N)
      BY <1>v, <3>2 DEF Moves
    <3>7. Working(test, N, proc')
      BY <1>2, <1>v, <3>1, <3>e, <3>4, <3>5, <3>6, DoWorks
    <3> QED BY <3>1, <3>7
  <2> QED BY <2>4, <2>5
<1> QED
  BY <1>9, <1>10, <1>11

LEMMA ImageSize ==
  ASSUME NEW n \in Nat, n + 2 < KERNBASE
  PROVE  (n + 2) * PGSIZE \in Sz /\ n \in Vpn /\ n < KERNBASE /\ n + 1 \in Vpn /\ n + 1 < KERNBASE
<1> DEFINE m == n + 2
           K == KERNBASE
           P == PGSIZE
<1>1. m \in Nat /\ K \in Nat /\ P \in Nat /\ m < K
  BY Sizes
<1> HIDE DEF m, K, P
<1>2. m * P \in Nat /\ m * P <= K * P /\ K * P \in Nat
  BY <1>1
<1>3. m * P \in 0..(K * P)
  BY <1>2
<1>4. n < KERNBASE /\ n + 1 < KERNBASE /\ n \in 0..(KERNBASE - 1) /\ n + 1 \in 0..(KERNBASE - 1)
  BY Sizes
<1> QED
  BY <1>3, <1>4, Below DEF Sz, m, K, P

\* The directory that exec has made takes the place of the old one.
LEMMA Replaced ==
  ASSUME NEW M, NEW P, NEW V, V = View(M, P), Accounts(M, V), NEW p \in Procs, P[p].pgdir # NULL, P[p].new # NULL,
         NEW N, N = freevm(M, P[p].pgdir), NEW Q,
         \A q \in Procs : q # p => Q[q].kstack = P[q].kstack /\ Q[q].pgdir = P[q].pgdir /\ Q[q].new = P[q].new,
         Q[p].kstack = P[p].kstack, Q[p].pgdir = P[p].new, Q[p].new = NULL
  PROVE  Accounts(N, View(N, Q)) /\ N.kpgdir = M.kpgdir
<1> DEFINE s == New(p)
           r == Pgdir(p)
           W == Has(V, r, NULL)
           U == Has(W, s, NULL)
           X == Has(U, r, W[s])
<1>1. /\ r \in Slots /\ r[1] # "kstack" /\ V[r] = P[p].pgdir
      /\ s \in Slots /\ s[1] # "kstack" /\ V[s] = P[p].new /\ s # r
  BY PgdirIs, SlotIs
<1>2. V \in [Slots -> Nat] /\ NULL \in Nat
  BY AccountsType DEF NULL
<1>w. W = Has(V, r, NULL)
  OBVIOUS
<1>u. U = Has(W, s, NULL)
  OBVIOUS
<1>x. X = Has(U, r, W[s])
  OBVIOUS
<1> HIDE DEF s, r, W, U, X
<1>3. W \in [Slots -> Nat] /\ W[r] = NULL /\ \A z \in Slots : z # r => W[z] = V[z]
  BY <1>1, <1>2, <1>w, HasIs
<1>4. After(M, N, W)
  <2>1. After(M, freevm(M, V[r]), W)
    BY <1>1, <1>w, DirFreed
  <2> QED BY <1>1, <2>1
<1>5. After(N, N, X)
  <2>1. Accounts(N, W) /\ W[s] # NULL /\ W[r] = NULL
    BY <1>1, <1>3, <1>4 DEF After
  <2> QED BY <1>1, <1>u, <1>x, <2>1, DirMoved
<1>6. U \in [Slots -> Nat] /\ U[s] = NULL /\ \A z \in Slots : z # s => U[z] = W[z]
  <2>1. W \in [Slots -> Nat] /\ s \in Slots /\ NULL \in Nat
    BY <1>1, <1>2, <1>3
  <2> QED BY <1>u, <2>1, HasIs
<1>7. X \in [Slots -> Nat] /\ X[r] = W[s] /\ \A z \in Slots : z # r => X[z] = U[z]
  <2>1. U \in [Slots -> Nat] /\ r \in Slots /\ W[s] \in Nat
    BY <1>1, <1>3, <1>6
  <2> QED BY <1>x, <2>1, HasIs
<1>8. X[r] = P[p].new /\ X[s] = NULL /\ \A z \in Slots : (z # r /\ z # s) => X[z] = V[z]
  BY <1>1, <1>3, <1>6, <1>7
<1>9. X = View(N, Q)
  <2>1. N.kpgdir = M.kpgdir
    BY <1>4 DEF After
  <2>2. /\ V[Kpgdir] = M.kpgdir
        /\ \A q \in Procs : V[Kstack(q)] = P[q].kstack /\ V[Pgdir(q)] = P[q].pgdir /\ V[New(q)] = P[q].new
    BY ViewIs
  <2>3. Kpgdir # r /\ Kpgdir # s /\ Kpgdir \in Slots
    BY SlotIs DEF r, s
  <2>4. X[Kpgdir] = N.kpgdir
    BY <1>8, <2>1, <2>2, <2>3
  <2>5. ASSUME NEW q \in Procs PROVE X[Kstack(q)] = Q[q].kstack /\ X[Pgdir(q)] = Q[q].pgdir /\ X[New(q)] = Q[q].new
    <3>1. Kstack(q) \in Slots /\ Kstack(q) # r /\ Kstack(q) # s /\ Pgdir(q) \in Slots /\ New(q) \in Slots /\ Pgdir(q) # s /\ New(q) # r
      BY SlotIs DEF r, s
    <3>2. CASE q = p
      BY <1>8, <2>2, <3>1, <3>2 DEF r, s
    <3>3. CASE q # p
      <4>1. Pgdir(q) # r /\ New(q) # s
        BY <3>3, SlotIs DEF r, s
      <4>2. X[Kstack(q)] = V[Kstack(q)] /\ X[Pgdir(q)] = V[Pgdir(q)] /\ X[New(q)] = V[New(q)]
        BY <1>8, <3>1, <4>1
      <4> QED BY <2>2, <3>3, <4>2
    <3> QED BY <3>2, <3>3
  <2>6. X = [z \in Slots |-> X[z]]
    BY <1>7
  <2> QED BY <2>4, <2>5, <2>6, ViewThis
<1> QED
  BY <1>4, <1>5, <1>9 DEF After

LEMMA ExecCommitWorks ==
  ASSUME test \in DOMAIN Programs, Working(test, ram, proc), NEW p \in Procs, ExecCommit(p)
  PROVE  Working(test, ram', proc')
<1> DEFINE V == View(ram, proc)
           n == Instr(p).pages
           d == proc[p].new
           M == clearpteu(ram, d, n)
           stack == PTE(M, d, n + 1)
<1>1. Does(p, "exec")
  BY DEF ExecCommit
<1>2. /\ Good(test, proc) /\ Accounts(ram, V) /\ proc[p].st = "RUNNABLE" /\ Rec(test, proc[p]) /\ proc[p].pgdir # NULL /\ proc[p].kstack # NULL
      /\ ram.panic = ""
  BY <1>1, Within
<1>3. d # NULL /\ n \in Nat
  BY <1>1, <1>2, DoesExec
<1>4. PICK v \in Nat, b \in BOOLEAN : /\ Op(p) = <<"exec", v, b>> /\ proc[p].todo = <<Op(p)>>
                                      /\ v > 0 => n < KERNBASE
                                      /\ v > n => n + 2 < KERNBASE
  BY <1>1, <1>2, DoesExec
<1>5. New(p) \in Slots /\ New(p)[1] # "kstack" /\ V[New(p)] = d
  BY PgdirIs
<1>6. Op(p)[2] = v /\ Op(p)[3] = b
  BY <1>4, Triple
<1>7. IF M.panic # "" THEN ram' = M /\ UNCHANGED proc
      ELSE IF walkpgdir(M, d, n + 1, FALSE)[2] = NULL
      THEN \/ ram' = Panic(M, "trap") /\ UNCHANGED proc
           \/ ram' = freevm(M, d) /\ Returns(p, FALSE, TRUE)
      ELSE IF ~Present(stack) \/ ~Instr(p).fits THEN ram' = freevm(M, d) /\ Returns(p, FALSE, ~Present(stack))
      ELSE /\ ram' = freevm([M EXCEPT !.mem[stack[1]][PGSIZE - 1] = <<0, "argv">>], proc[p].pgdir)
           /\ proc' = [proc EXCEPT ![p] = [Back(p, TRUE, FALSE) EXCEPT !.pgdir = d, !.sz = (n + 2) * PGSIZE, !.torn = b]]
  BY <1>6 DEF ExecCommit
<1>8. v = n + 2
  BY <1>6 DEF ExecCommit
<1>9. n + 2 < KERNBASE
  BY <1>3, <1>4, <1>8
<1>10. (n + 2) * PGSIZE \in Sz /\ n \in Vpn /\ n < KERNBASE /\ n + 1 \in Vpn /\ n + 1 < KERNBASE
  BY <1>3, <1>9, ImageSize
<1>11. M.panic # "" \/ After(ram, M, V)
  <2> HIDE DEF V, n
  <2>1. clearpteu(ram, V[New(p)], n).panic # "" \/ After(ram, clearpteu(ram, V[New(p)], n), V)
    BY <1>2, <1>3, <1>5, <1>10, DirCleared
  <2> QED BY <1>5, <2>1
<1>v. V = View(ram, proc)
  OBVIOUS
<1>s. stack = PTE(M, V[New(p)], n + 1)
  BY <1>5
<1> HIDE DEF M, V, stack, n
<1>12. CASE M.panic # ""
  <2>1. ram' = M
    BY <1>7, <1>12
  <2> QED BY <1>12, <2>1 DEF Working
<1>13. CASE M.panic = "" /\ walkpgdir(M, d, n + 1, FALSE)[2] = NULL
  <2> DEFINE no == FALSE
             short == TRUE
  <2>1. ram' = Panic(M, "trap") \/ (ram' = freevm(M, d) /\ Returns(p, no, short))
    BY <1>7, <1>13
  <2> HIDE DEF no, short
  <2>2. After(ram, M, V) /\ M \in Ram
    BY <1>11, <1>13, AccountsType DEF After
  <2>3. CASE ram' = Panic(M, "trap")
    <3>1. Panic(M, "trap").panic # ""
      BY <2>2, PanicIs
    <3> QED BY <2>3, <3>1 DEF Working
  <2>4. CASE ram' = freevm(M, d) /\ Returns(p, no, short)
    <3>1. Working(test, freevm(M, proc[p].new), proc')
      BY <1>2, <1>3, <1>v, <2>2, <2>4, GivesUp
    <3> QED BY <2>4, <3>1
  <2> QED BY <2>1, <2>3, <2>4
<1>14. CASE M.panic = "" /\ walkpgdir(M, d, n + 1, FALSE)[2] # NULL /\ (~Present(stack) \/ ~Instr(p).fits)
  <2> DEFINE no == FALSE
             short == ~Present(stack)
  <2>1. ram' = freevm(M, d) /\ Returns(p, no, short)
    BY <1>7, <1>14
  <2> HIDE DEF no, short
  <2>2. After(ram, M, V)
    BY <1>11, <1>14
  <2>3. Working(test, freevm(M, proc[p].new), proc')
    BY <1>2, <1>3, <1>v, <2>1, <2>2, GivesUp
  <2> QED BY <2>1, <2>3
<1>15. CASE M.panic = "" /\ walkpgdir(M, d, n + 1, FALSE)[2] # NULL /\ Present(stack) /\ Instr(p).fits
  <2> DEFINE j == PGSIZE - 1
             c == <<0, "argv">>
             N == SetCell(M, stack[1], j, c)
             L == freevm(N, proc[p].pgdir)
             yes == TRUE
             no == FALSE
             k == Back(p, yes, no)
             r == [k EXCEPT !.pgdir = d, !.sz = (n + 2) * PGSIZE, !.torn = b]
  <2>1. ram' = L /\ proc' = Puts(proc, p, r)
    BY <1>7, <1>15 DEF SetCell, Puts
  <2>2. After(ram, M, V) /\ Accounts(M, V) /\ M \in Ram
    BY <1>11, <1>15, AccountsType DEF After
  <2>3. c \in Cell /\ j \in Index
    <3>1. 0 \in Int /\ "argv" \in Kinds
      BY DEF Kinds
    <3>2. c \in Cell
      BY <3>1, Pair, Zenon DEF Cell
    <3> QED BY <3>2, Sizes DEF Index
  <2>4. N.panic = ""
    BY <1>15, <2>2 DEF SetCell, Ram
  <2>k. k = Back(p, yes, no)
    OBVIOUS
  <2>e. r = [k EXCEPT !.pgdir = d, !.sz = (n + 2) * PGSIZE, !.torn = b] /\ L = freevm(N, proc[p].pgdir)
    OBVIOUS
  <2> HIDE DEF j, c, k, r, yes, no, L
  <2>5. N.panic # "" \/ After(M, N, V)
    BY <1>3, <1>5, <1>10, <1>15, <1>s, <2>2, <2>3, PageWritten
  <2> HIDE DEF N
  <2>6. After(ram, N, V) /\ Accounts(N, V)
    BY <2>2, <2>4, <2>5 DEF After
  <2>7. /\ DOMAIN k = Fields /\ k.st = proc[p].st /\ k.kid = proc[p].kid /\ k.kstack = proc[p].kstack
        /\ k.pgdir = proc[p].pgdir /\ k.sz = proc[p].sz /\ k.todo = <<>> /\ k.new = NULL /\ k.at \in Nat \ {0}
    <3>1. Rec(test, proc[p])
      BY <1>2
    <3> QED BY <2>k, <3>1, BackIs
  <2>8. /\ DOMAIN r = Fields /\ r.st = "RUNNABLE" /\ r.kid = proc[p].kid /\ r.kstack = proc[p].kstack
        /\ r.pgdir = d /\ r.sz = (n + 2) * PGSIZE /\ r.todo = <<>> /\ r.new = NULL /\ r.at \in Nat \ {0}
    BY <1>2, <2>7, <2>e DEF Fields
  <2>9. State(r) /\ Born(test, r.kid) /\ r.kstack \in Nat /\ r.pgdir \in Nat /\ r.sz \in Sz
    BY <1>2, <1>3, <1>10, <2>8 DEF Rec, State
  <2>10. Rec(test, r) /\ \A q : ~Forks(r, q)
    BY <2>8, <2>9, Rests
  <2>11. proc[p].st # "EMBRYO"
    BY <1>2
  <2> DEFINE Q == proc'
  <2> HIDE DEF Q
  <2>12. Q = Puts(proc, p, r)
    BY <2>1 DEF Q
  <2>13. Good(test, Q) /\ Q[p] = r /\ \A q \in Procs : q # p => Q[q] = proc[q]
    <3>1. Good(test, proc) /\ \A q \in Procs : ~Forks(r, q)
      BY <1>2, <2>10
    <3> QED BY <2>10, <2>11, <2>12, <3>1, Mine
  <2>14. Accounts(L, View(L, Q))
    <3>1. /\ \A q \in Procs : q # p => Q[q].kstack = proc[q].kstack /\ Q[q].pgdir = proc[q].pgdir /\ Q[q].new = proc[q].new
          /\ Q[p].kstack = proc[p].kstack /\ Q[p].pgdir = proc[p].new /\ Q[p].new = NULL
      BY <2>8, <2>13
    <3>2. V = View(N, proc)
      <4>1. N.kpgdir = ram.kpgdir
        BY <2>6 DEF After
      <4> QED BY <1>v, <4>1, ViewSame
    <3>3. Accounts(N, V) /\ proc[p].pgdir # NULL /\ proc[p].new # NULL /\ L = freevm(N, proc[p].pgdir)
      BY <1>2, <1>3, <2>6, <2>e
    <3> HIDE DEF d
    <3> QED BY <3>1, <3>2, <3>3, Replaced
  <2> QED BY <2>1, <2>13, <2>14 DEF Working, Q
<1> QED
  BY <1>12, <1>13, <1>14, <1>15

\* The slots after a step of a process and its child: the child's stack and the new directory are
\* given up, the new directory is the child's, and the child's stack and directory are given up.
LEMMA HasTwo ==
  ASSUME NEW V \in [Slots -> Nat], NEW s \in Slots, NEW x \in Nat, NEW r \in Slots, NEW y \in Nat, NEW W, W = Has(V, s, x), NEW U, U = Has(W, r, y)
  PROVE  U \in [Slots -> Nat] /\ U[r] = y /\ (s # r => U[s] = x) /\ \A z \in Slots : (z # s /\ z # r) => U[z] = V[z]
<1>1. W \in [Slots -> Nat] /\ W[s] = x /\ \A z \in Slots : z # s => W[z] = V[z]
  BY HasIs
<1>2. U \in [Slots -> Nat] /\ U[r] = y /\ \A z \in Slots : z # r => U[z] = W[z]
  BY <1>1, HasIs
<1> QED
  BY <1>1, <1>2
Others(P, Q, p, q) == \A z \in Procs : (z # p /\ z # q) => Q[z].kstack = P[z].kstack /\ Q[z].pgdir = P[z].pgdir /\ Q[z].new = P[z].new
LEMMA ViewTwo ==
  ASSUME NEW M, NEW P, NEW V, V = View(M, P), V \in [Slots -> Nat], NEW p \in Procs, NEW q \in Procs, q # p, NEW x \in Nat, NEW y \in Nat,
         NEW N, NEW Q, N.kpgdir = M.kpgdir, Others(P, Q, p, q), Q[p].kstack = P[p].kstack, Q[p].pgdir = P[p].pgdir
  PROVE  /\ (Q[p].new = x /\ Q[q].kstack = y /\ Q[q].pgdir = P[q].pgdir /\ Q[q].new = P[q].new) => View(N, Q) = Has(Has(V, New(p), x), Kstack(q), y)
         /\ (Q[p].new = x /\ Q[q].kstack = P[q].kstack /\ Q[q].pgdir = y /\ Q[q].new = P[q].new) => View(N, Q) = Has(Has(V, New(p), x), Pgdir(q), y)
         /\ (Q[p].new = P[p].new /\ Q[q].kstack = x /\ Q[q].pgdir = y /\ Q[q].new = P[q].new) => View(N, Q) = Has(Has(V, Kstack(q), x), Pgdir(q), y)
<1>1. /\ V[Kpgdir] = M.kpgdir
      /\ \A z \in Procs : V[Kstack(z)] = P[z].kstack /\ V[Pgdir(z)] = P[z].pgdir /\ V[New(z)] = P[z].new
  BY ViewIs
<1>2. ASSUME Q[p].new = x /\ Q[q].kstack = y /\ Q[q].pgdir = P[q].pgdir /\ Q[q].new = P[q].new
      PROVE  View(N, Q) = Has(Has(V, New(p), x), Kstack(q), y)
  <2> DEFINE W == Has(V, New(p), x)
             U == Has(W, Kstack(q), y)
  <2>e. W = Has(V, New(p), x) /\ U = Has(W, Kstack(q), y)
    OBVIOUS
  <2>s. New(p) \in Slots /\ Kstack(q) \in Slots /\ New(p) # Kstack(q)
    BY SlotIs
  <2> HIDE DEF W, U
  <2>1. U \in [Slots -> Nat] /\ U[Kstack(q)] = y /\ U[New(p)] = x /\ \A z \in Slots : (z # New(p) /\ z # Kstack(q)) => U[z] = V[z]
    BY <2>e, <2>s, HasTwo
  <2>2. ASSUME NEW z \in Procs PROVE U[Kstack(z)] = Q[z].kstack /\ U[Pgdir(z)] = Q[z].pgdir /\ U[New(z)] = Q[z].new
    <3>1. CASE z = p
      BY <1>1, <1>2, <2>1, <3>1, SlotIs
    <3>2. CASE z = q
      BY <1>1, <1>2, <2>1, <3>2, SlotIs
    <3>3. CASE z # p /\ z # q
      BY <1>1, <2>1, <3>3, SlotIs DEF Others
    <3> QED BY <3>1, <3>2, <3>3
  <2>3. U[Kpgdir] = N.kpgdir /\ U = [z \in Slots |-> U[z]]
    BY <1>1, <2>1, SlotIs
  <2>4. U = View(N, Q)
    BY <2>2, <2>3, ViewThis
  <2> QED BY <2>4 DEF U, W
<1>3. ASSUME Q[p].new = x /\ Q[q].kstack = P[q].kstack /\ Q[q].pgdir = y /\ Q[q].new = P[q].new
      PROVE  View(N, Q) = Has(Has(V, New(p), x), Pgdir(q), y)
  <2> DEFINE W == Has(V, New(p), x)
             U == Has(W, Pgdir(q), y)
  <2>e. W = Has(V, New(p), x) /\ U = Has(W, Pgdir(q), y)
    OBVIOUS
  <2>s. New(p) \in Slots /\ Pgdir(q) \in Slots /\ New(p) # Pgdir(q)
    BY SlotIs
  <2> HIDE DEF W, U
  <2>1. U \in [Slots -> Nat] /\ U[Pgdir(q)] = y /\ U[New(p)] = x /\ \A z \in Slots : (z # New(p) /\ z # Pgdir(q)) => U[z] = V[z]
    BY <2>e, <2>s, HasTwo
  <2>2. ASSUME NEW z \in Procs PROVE U[Kstack(z)] = Q[z].kstack /\ U[Pgdir(z)] = Q[z].pgdir /\ U[New(z)] = Q[z].new
    <3>1. CASE z = p
      BY <1>1, <1>3, <2>1, <3>1, SlotIs
    <3>2. CASE z = q
      BY <1>1, <1>3, <2>1, <3>2, SlotIs
    <3>3. CASE z # p /\ z # q
      BY <1>1, <2>1, <3>3, SlotIs DEF Others
    <3> QED BY <3>1, <3>2, <3>3
  <2>3. U[Kpgdir] = N.kpgdir /\ U = [z \in Slots |-> U[z]]
    BY <1>1, <2>1, SlotIs
  <2>4. U = View(N, Q)
    BY <2>2, <2>3, ViewThis
  <2> QED BY <2>4 DEF U, W
<1>4. ASSUME Q[p].new = P[p].new /\ Q[q].kstack = x /\ Q[q].pgdir = y /\ Q[q].new = P[q].new
      PROVE  View(N, Q) = Has(Has(V, Kstack(q), x), Pgdir(q), y)
  <2> DEFINE W == Has(V, Kstack(q), x)
             U == Has(W, Pgdir(q), y)
  <2>e. W = Has(V, Kstack(q), x) /\ U = Has(W, Pgdir(q), y)
    OBVIOUS
  <2>s. Kstack(q) \in Slots /\ Pgdir(q) \in Slots /\ Kstack(q) # Pgdir(q)
    BY SlotIs
  <2> HIDE DEF W, U
  <2>1. U \in [Slots -> Nat] /\ U[Pgdir(q)] = y /\ U[Kstack(q)] = x /\ \A z \in Slots : (z # Kstack(q) /\ z # Pgdir(q)) => U[z] = V[z]
    BY <2>e, <2>s, HasTwo
  <2>2. ASSUME NEW z \in Procs PROVE U[Kstack(z)] = Q[z].kstack /\ U[Pgdir(z)] = Q[z].pgdir /\ U[New(z)] = Q[z].new
    <3>1. CASE z = p
      BY <1>1, <1>4, <2>1, <3>1, SlotIs
    <3>2. CASE z = q
      BY <1>1, <1>4, <2>1, <3>2, SlotIs
    <3>3. CASE z # p /\ z # q
      BY <1>1, <2>1, <3>3, SlotIs DEF Others
    <3> QED BY <3>1, <3>2, <3>3
  <2>3. U[Kpgdir] = N.kpgdir /\ U = [z \in Slots |-> U[z]]
    BY <1>1, <2>1, SlotIs
  <2>4. U = View(N, Q)
    BY <2>2, <2>3, ViewThis
  <2> QED BY <2>4 DEF U, W
<1> QED
  BY <1>2, <1>3, <1>4

\* A slot that nobody has.
LEMMA NoProcIs ==
  ASSUME NEW t
  PROVE  Rec(t, NoProc) /\ \A q : ~Forks(NoProc, q)
<1>1. /\ DOMAIN NoProc = Fields /\ NoProc.st = "UNUSED" /\ NoProc.kid = 0 /\ NoProc.kstack = NULL /\ NoProc.pgdir = NULL /\ NoProc.new = NULL
      /\ NoProc.sz = 0 /\ NoProc.at = 1 /\ NoProc.todo = <<>>
  BY DEF NoProc, Fields
<1>2. 0 \in Sz /\ NULL \in Nat /\ 1 \in Nat \ {0}
  BY SizeBounds, Sizes DEF Sz, NULL
<1>3. State(NoProc) /\ Born(t, NoProc.kid)
  BY <1>1 DEF State, Born
<1> QED
  BY <1>1, <1>2, <1>3, Rests

Two(P, p, r, q, x) == [z \in Procs |-> IF z = p THEN r ELSE IF z = q THEN x ELSE P[z]]
LEMMA OursIs ==
  ASSUME NEW t, NEW P, Good(t, P), NEW p \in Procs, P[p].st # "EMBRYO", NEW q \in Procs, q # p,
         \A a \in Procs : Forks(P[a], q) => a = p,
         NEW r, Rec(t, r), NEW x, Rec(t, x), \A z \in Procs : ~Forks(x, z),
         \A z \in Procs : Forks(r, z) => z = q /\ x.st = "EMBRYO",
         NEW Q, Q = Two(P, p, r, q, x)
  PROVE  Good(t, Q) /\ Q[p] = r /\ Q[q] = x /\ (\A z \in Procs : (z # p /\ z # q) => Q[z] = P[z]) /\ Others(P, Q, p, q)
<1>1. Good(t, Q)
  BY Ours DEF Two
<1>2. Q[p] = r /\ Q[q] = x /\ \A z \in Procs : (z # p /\ z # q) => Q[z] = P[z]
  BY DEF Two
<1> QED
  BY <1>1, <1>2 DEF Others

LEMMA ForkWorks ==
  ASSUME test \in DOMAIN Programs, Working(test, ram, proc), NEW p \in Procs, Fork(p)
  PROVE  Working(test, ram', proc')
<1> DEFINE V == View(ram, proc)
           a == kalloc(ram)
           free == {q \in Procs : proc[q].st = "UNUSED"}
<1>1. Idle(p) /\ Calls(p, "fork")
  BY DEF Fork, Calls
<1>2. /\ Good(test, proc) /\ Accounts(ram, V) /\ proc[p].st = "RUNNABLE" /\ Rec(test, proc[p]) /\ proc[p].new = NULL
      /\ Moves(ram, proc, p, NULL, ram)
  BY <1>1, Between
<1>3. In(test, proc[p], "fork") /\ proc[p].kid = 0
  BY <1>1, <1>2, IdleIs
<1>v. V = View(ram, proc)
  OBVIOUS
<1>4. \/ free = {} /\ Returns(p, FALSE, FALSE) /\ ram' = ram
      \/ a[2] = NULL /\ Returns(p, FALSE, TRUE) /\ ram' = ram
      \/ a[2] # NULL /\ \E q \in free :
             /\ ram' = a[1]
             /\ proc' = [proc EXCEPT ![q] = [NoProc EXCEPT !.st = "EMBRYO", !.kstack = a[2]], ![p].todo = <<<<"setupkvm", q>>>>]
  BY DEF Fork
<1> HIDE DEF V, a
<1>5. CASE Returns(p, FALSE, FALSE) /\ ram' = ram
  <2> DEFINE no == FALSE
  <2>1. Returns(p, no, no)
    BY <1>5
  <2> HIDE DEF no
  <2>2. Working(test, ram, proc')
    BY <1>2, <1>v, <2>1, ReturnWorks
  <2> QED BY <1>5, <2>2
<1>6. CASE Returns(p, FALSE, TRUE) /\ ram' = ram
  <2> DEFINE no == FALSE
             yes == TRUE
  <2>1. Returns(p, no, yes)
    BY <1>6
  <2> HIDE DEF no, yes
  <2>2. Working(test, ram, proc')
    BY <1>2, <1>v, <2>1, ReturnWorks
  <2> QED BY <1>6, <2>2
<1>7. ASSUME a[2] # NULL, NEW q \in free, ram' = a[1],
             proc' = [proc EXCEPT ![q] = [NoProc EXCEPT !.st = "EMBRYO", !.kstack = a[2]], ![p].todo = <<<<"setupkvm", q>>>>]
      PROVE  Working(test, ram', proc')
  <2> DEFINE op == <<"setupkvm", q>>
             r == Doing(proc[p], op)
             x == [NoProc EXCEPT !.st = "EMBRYO", !.kstack = a[2]]
             N == a[1]
  <2>1. q \in Procs /\ q # p /\ proc[q].st = "UNUSED" /\ Rec(test, proc[q])
    BY <1>2 DEF Good
  <2>2. proc[q].kstack = NULL /\ proc[q].pgdir = NULL /\ proc[q].new = NULL
    BY <2>1 DEF Rec, State
  <2>3. proc' = Two(proc, p, r, q, x)
    <3>1. proc = [z \in Procs |-> proc[z]]
      BY <1>2 DEF Good
    <3> HIDE DEF x, op
    <3>2. proc' = [proc EXCEPT ![q] = x, ![p].todo = <<op>>]
      BY <1>7 DEF x, op
    <3> QED BY <2>1, <3>1, <3>2 DEF Two, Doing
  <2>4. a[2] \in Nat /\ After(ram, N, Has(V, Kstack(q), a[2]))
    <3>1. Kstack(q) \in Slots /\ Kstack(q)[1] = "kstack" /\ V[Kstack(q)] = NULL
      BY <1>v, <2>1, <2>2, PgdirIs
    <3>2. \/ kalloc(ram)[1] = ram /\ kalloc(ram)[2] = NULL /\ ram.free = <<>>
          \/ kalloc(ram)[2] # NULL /\ kalloc(ram)[2] \in Nat /\ After(ram, kalloc(ram)[1], Has(V, Kstack(q), kalloc(ram)[2]))
      BY <1>2, <3>1, StackGot
    <3> QED BY <1>7, <3>2 DEF a
  <2>5. /\ r.todo = <<op>> /\ DOMAIN r = Fields /\ r.kstack = proc[p].kstack /\ r.pgdir = proc[p].pgdir /\ r.new = proc[p].new /\ r.sz = proc[p].sz
        /\ r.at = proc[p].at /\ r.kid = proc[p].kid /\ r.st = proc[p].st
    BY <1>2 DEF Rec, Doing, Fields
  <2>6. /\ x.todo = <<>> /\ DOMAIN x = Fields /\ x.kstack = a[2] /\ x.pgdir = NULL /\ x.new = NULL /\ x.sz = 0 /\ x.at = 1 /\ x.kid = 0 /\ x.st = "EMBRYO"
    BY DEF NoProc, Fields
  <2>o. op = <<"setupkvm", q>>
    OBVIOUS
  <2> HIDE DEF r, x, N
  <2>7. Rec(test, r)
    <3>1. State(r) /\ In(test, r, "fork")
      BY <1>2, <1>3, <2>5 DEF Rec, State, In
    <3>2. Busy(test, r)
      BY <1>2, <1>3, <2>1, <2>5, <3>1 DEF Busy
    <3> QED BY <1>2, <2>5, <3>1, <3>2 DEF Rec
  <2>8. Rec(test, x) /\ \A z : ~Forks(x, z)
    <3>1. State(x) /\ Born(test, x.kid)
      BY <1>7, <2>6 DEF State, Born
    <3>2. 0 \in Sz /\ NULL \in Nat /\ 1 \in Nat \ {0}
      BY SizeBounds, Sizes DEF Sz, NULL
    <3>3. /\ DOMAIN x = Fields /\ x.kstack \in Nat /\ x.pgdir \in Nat /\ x.sz \in Sz /\ x.at \in Nat \ {0} /\ x.todo = <<>> /\ x.new = NULL
      BY <2>4, <2>6, <3>2
    <3> QED BY <3>1, <3>3, Rests
  <2>9. \A z \in Procs : Forks(r, z) => z = q /\ x.st = "EMBRYO"
    BY <2>5, <2>6, ForkOf
  <2>10. \A b \in Procs : Forks(proc[b], q) => b = p
    BY <1>2, <2>1 DEF Good
  <2> DEFINE Q == proc'
  <2>11. Q = Two(proc, p, r, q, x)
    BY <2>3
  <2>12. proc[p].st # "EMBRYO" /\ (\A z \in Procs : ~Forks(x, z)) /\ Good(test, proc)
    BY <1>2, <2>8
  <2> HIDE DEF Q, op
  <2>13. Good(test, Q) /\ Q[p] = r /\ Q[q] = x /\ \A z \in Procs : (z # p /\ z # q) => Q[z] = proc[z]
    BY <2>1, <2>7, <2>8, <2>9, <2>10, <2>11, <2>12, OursIs
  <2>14. View(N, Q) = Has(V, Kstack(q), a[2])
    <3>1. \A z \in Procs : z # q => Q[z].kstack = proc[z].kstack /\ Q[z].pgdir = proc[z].pgdir /\ Q[z].new = proc[z].new
      BY <2>5, <2>13
    <3>2. Q[q].kstack = a[2] /\ Q[q].pgdir = proc[q].pgdir /\ Q[q].new = proc[q].new
      BY <2>2, <2>6, <2>13
    <3>3. N.kpgdir = ram.kpgdir /\ V \in [Slots -> Nat]
      BY <1>2, <2>4, AccountsType DEF After
    <3> QED BY <1>v, <2>1, <2>4, <3>1, <3>2, <3>3, ViewHas
  <2>15. Working(test, N, Q)
    BY <2>4, <2>13, <2>14 DEF Working, After
  <2> QED BY <1>7, <2>15 DEF N, Q
<1> QED
  BY <1>4, <1>5, <1>6, <1>7

\* The child that a process is forking.
LEMMA ChildIs ==
  ASSUME Good(test, proc), NEW p \in Procs, NEW q \in Procs, proc[p].st = "RUNNABLE", Forks(proc[p], q)
  PROVE  /\ q # p /\ proc[q].st = "EMBRYO" /\ Rec(test, proc[q]) /\ proc[q].kstack # NULL /\ proc[q].pgdir = NULL /\ proc[q].new = NULL
         /\ proc[q].todo = <<>> /\ (\A a \in Procs : Forks(proc[a], q) => a = p) /\ \A z : ~Forks(proc[q], z)
<1>1. proc[q].st = "EMBRYO" /\ Rec(test, proc[q]) /\ \A a \in Procs : Forks(proc[a], q) => a = p
  BY DEF Good
<1>2. proc[q].kstack # NULL /\ proc[q].pgdir = NULL /\ proc[q].new = NULL /\ proc[q].todo = <<>>
  BY <1>1 DEF Rec, State
<1>3. q # p
  BY <1>1
<1> QED
  BY <1>1, <1>2, <1>3, ForkOf

\* A fork that is undone: the child's stack is freed, and the new directory has been.
LEMMA UnforkWorks ==
  ASSUME test \in DOMAIN Programs, Good(test, proc), NEW V, V = View(ram, proc), V \in [Slots -> Nat], NEW p \in Procs, NEW q \in Procs,
         proc[p].st = "RUNNABLE", Forks(proc[p], q), Unfork(p, q),
         NEW M, After(ram, M, Has(V, New(p), NULL)), NEW N, N = kfree(M, proc[q].kstack)
  PROVE  Working(test, N, proc')
<1> DEFINE yes == TRUE
           no == FALSE
           r == Back(p, no, yes)
           W == Has(V, New(p), NULL)
           Q == proc'
<1>1. /\ q # p /\ proc[q].st = "EMBRYO" /\ Rec(test, proc[q]) /\ proc[q].kstack # NULL /\ proc[q].pgdir = NULL /\ proc[q].new = NULL
      /\ \A a \in Procs : Forks(proc[a], q) => a = p
  BY ChildIs
<1>2. Rec(test, proc[p])
  BY DEF Good
<1>3. Q = Two(proc, p, r, q, NoProc)
  <2>1. proc = [z \in Procs |-> proc[z]]
    BY DEF Good
  <2>2. proc' = [proc EXCEPT ![p] = r, ![q] = NoProc]
    BY DEF Unfork
  <2> HIDE DEF r
  <2> QED BY <1>1, <2>1, <2>2 DEF Two
<1>e. r = Back(p, no, yes)
  OBVIOUS
<1>w. W = Has(V, New(p), NULL)
  OBVIOUS
<1> HIDE DEF r, yes, no, W, Q
<1>4. /\ r.kstack = proc[p].kstack /\ r.pgdir = proc[p].pgdir /\ r.new = NULL
  BY <1>2, <1>e, BackIs
<1>5. Rec(test, r) /\ \A z : ~Forks(r, z)
  BY <1>2, <1>e, BackRests
<1>6. Rec(test, NoProc) /\ \A z : ~Forks(NoProc, z)
  BY NoProcIs
<1>7. proc[p].st # "EMBRYO" /\ (\A z \in Procs : ~Forks(NoProc, z)) /\ \A z \in Procs : Forks(r, z) => z = q /\ NoProc.st = "EMBRYO"
  BY <1>5, <1>6
<1>8. Good(test, Q) /\ Q[p] = r /\ Q[q] = NoProc /\ Others(proc, Q, p, q)
  BY <1>1, <1>3, <1>5, <1>6, <1>7, OursIs
<1>9. Kstack(q) \in Slots /\ Kstack(q)[1] = "kstack" /\ W[Kstack(q)] = proc[q].kstack /\ NULL \in Nat
  <2>1. Kstack(q) \in Slots /\ Kstack(q)[1] = "kstack" /\ V[Kstack(q)] = proc[q].kstack /\ New(p) \in Slots /\ Kstack(q) # New(p)
    BY PgdirIs, SlotIs
  <2>2. NULL \in Nat
    BY DEF NULL
  <2>3. W[Kstack(q)] = V[Kstack(q)]
    BY <1>w, <2>1, <2>2, HasIs
  <2> QED BY <2>1, <2>2, <2>3
<1>10. Accounts(M, W)
  BY <1>w DEF After
<1>11. After(M, kfree(M, W[Kstack(q)]), Has(W, Kstack(q), NULL))
  BY <1>1, <1>9, <1>10, StackFreed
<1>12. After(ram, N, Has(W, Kstack(q), NULL))
  BY <1>9, <1>11, <1>w, AfterAlso
<1>13. View(N, Q) = Has(W, Kstack(q), NULL)
  <2>1. Q[p].kstack = proc[p].kstack /\ Q[p].pgdir = proc[p].pgdir /\ Q[p].new = NULL
    BY <1>4, <1>8
  <2>2. Q[q].kstack = NULL /\ Q[q].pgdir = proc[q].pgdir /\ Q[q].new = proc[q].new
    BY <1>1, <1>8 DEF NoProc
  <2>3. N.kpgdir = ram.kpgdir
    BY <1>12 DEF After
  <2> QED BY <1>1, <1>8, <1>9, <1>w, <2>1, <2>2, <2>3, ViewTwo
<1> QED
  BY <1>8, <1>12, <1>13 DEF Working, After, Q

\* To set an empty slot to NULL changes nothing.
LEMMA HasNothing ==
  ASSUME NEW V \in [Slots -> Nat], NEW s \in Slots, V[s] = NULL
  PROVE  Has(V, s, NULL) = V
  BY DEF Has

LEMMA ForkKernelWorks ==
  ASSUME test \in DOMAIN Programs, Working(test, ram, proc), NEW p \in Procs, ForkKernel(p)
  PROVE  Working(test, ram', proc')
<1> DEFINE V == View(ram, proc)
           d == setupkvm(ram)
<1>1. Does(p, "setupkvm")
  BY DEF ForkKernel
<1>2. /\ Good(test, proc) /\ Accounts(ram, V) /\ proc[p].st = "RUNNABLE" /\ Rec(test, proc[p])
  BY <1>1, Within
<1>3. proc[p].new = NULL /\ proc[p].kid = 0 /\ In(test, proc[p], "fork")
  BY <1>1, <1>2, DoesFork
<1>4. PICK q \in Procs : Op(p) = <<"setupkvm", q>> /\ proc[p].todo = <<Op(p)>>
  BY <1>1, <1>2, DoesFork
<1>5. Op(p)[2] = q
  BY <1>4
<1>6. Forks(proc[p], q)
  BY <1>4 DEF Forks
<1>7. IF d[2] = NULL THEN ram' = kfree(d[1], proc[q].kstack) /\ Unfork(p, q)
      ELSE ram' = d[1] /\ proc' = [proc EXCEPT ![p].todo = <<<<"copyuvm", q, 0>>>>, ![p].new = d[2]]
  BY <1>5 DEF ForkKernel
<1>8. New(p) \in Slots /\ New(p)[1] # "kstack" /\ V[New(p)] = NULL
  BY <1>3, PgdirIs
<1>9. \/ Broken(d[1])
      \/ d[2] = NULL /\ After(ram, d[1], V)
      \/ d[2] # NULL /\ d[2] \in Nat /\ ram.free # <<>> /\ After(ram, d[1], Has(V, New(p), d[2]))
  <2> HIDE DEF V
  <2>1. Accounts(ram, V)
    BY <1>2
  <2> QED BY <1>8, <2>1, DirSetUp
<1>v. V = View(ram, proc) /\ V \in [Slots -> Nat]
  BY <1>2, AccountsType
<1> HIDE DEF d, V
<1>10. CASE Broken(d[1])
  <2>1. CASE d[2] = NULL
    <3>1. ram'.panic = d[1].panic
      BY <1>7, <1>10, <2>1 DEF kfree, Broken
    <3> QED BY <1>10, <3>1 DEF Broken, Working
  <2>2. CASE d[2] # NULL
    BY <1>7, <1>10, <2>2 DEF Broken, Working
  <2> QED BY <2>1, <2>2
<1>11. CASE d[2] = NULL /\ After(ram, d[1], V)
  <2> DEFINE M == d[1]
             N == kfree(M, proc[q].kstack)
  <2>1. ram' = N /\ Unfork(p, q)
    BY <1>7, <1>11
  <2>2. After(ram, M, Has(V, New(p), NULL))
    <3>1. Has(V, New(p), NULL) = V
      BY <1>8, <1>v, HasNothing
    <3> QED BY <1>11, <3>1
  <2>n. N = kfree(M, proc[q].kstack)
    OBVIOUS
  <2> HIDE DEF M, N
  <2>3. Working(test, N, proc')
    BY <1>2, <1>6, <1>v, <2>1, <2>2, <2>n, UnforkWorks
  <2> QED BY <2>1, <2>3
<1>12. CASE d[2] # NULL /\ d[2] \in Nat /\ After(ram, d[1], Has(V, New(p), d[2]))
  <2> DEFINE N == d[1]
             op == <<"copyuvm", q, 0>>
             r == [proc[p] EXCEPT !.todo = <<op>>, !.new = d[2]]
             x == proc[q]
             Q == proc'
  <2>1. ram' = N /\ proc' = [proc EXCEPT ![p].todo = <<op>>, ![p].new = d[2]]
    BY <1>7, <1>12
  <2>2. /\ q # p /\ proc[q].st = "EMBRYO" /\ Rec(test, proc[q]) /\ (\A a \in Procs : Forks(proc[a], q) => a = p)
        /\ \A z : ~Forks(proc[q], z)
    BY <1>2, <1>6, ChildIs
  <2>3. proc' = Two(proc, p, r, q, x)
    <3>1. proc = [z \in Procs |-> proc[z]] /\ DOMAIN proc[p] = Fields
      BY <1>2 DEF Good, Rec
    <3> HIDE DEF op
    <3> QED BY <2>1, <2>2, <3>1 DEF Two
  <2>6. /\ r.todo = <<op>> /\ r.new = d[2] /\ DOMAIN r = Fields /\ r.kstack = proc[p].kstack /\ r.pgdir = proc[p].pgdir /\ r.sz = proc[p].sz
        /\ r.at = proc[p].at /\ r.kid = proc[p].kid /\ r.st = proc[p].st
    BY <1>2 DEF Rec, Fields
  <2>7. x = proc[q]
    OBVIOUS
  <2> HIDE DEF r, N, x, Q
  <2>8. State(r) /\ In(test, r, "fork")
    BY <1>2, <1>3, <2>6 DEF Rec, State, In
  <2>9. Busy(test, r)
    BY <1>3, <1>12, <2>6, <2>8 DEF Busy
  <2>10. Rec(test, r)
    BY <1>2, <1>12, <2>6, <2>8, <2>9 DEF Rec
  <2>11. Rec(test, x) /\ (\A z : ~Forks(x, z)) /\ x.st = "EMBRYO"
    BY <2>2, <2>7
  <2>12. \A z \in Procs : Forks(r, z) => z = q /\ x.st = "EMBRYO"
    <3>1. r.todo = <<<<"copyuvm", q, 0>>>> /\ q \in Nat /\ 0 \in Nat
      BY <2>6, MemoryAssumption
    <3> HIDE DEF op
    <3> QED BY <2>11, <3>1, ForkOf
  <2> HIDE DEF op
  <2>13. Q = Two(proc, p, r, q, x)
    BY <2>3 DEF Q
  <2>14. proc[p].st # "EMBRYO" /\ \A z \in Procs : ~Forks(x, z)
    BY <1>2, <2>11
  <2>15. Good(test, Q) /\ Q[p] = r /\ Q[q] = x /\ \A z \in Procs : (z # p /\ z # q) => Q[z] = proc[z]
    BY <1>2, <2>2, <2>10, <2>11, <2>12, <2>13, <2>14, OursIs
  <2>16. View(N, Q) = Has(V, New(p), d[2])
    <3>1. \A z \in Procs : z # p => Q[z].kstack = proc[z].kstack /\ Q[z].pgdir = proc[z].pgdir /\ Q[z].new = proc[z].new
      BY <2>7, <2>15
    <3>2. Q[p].kstack = proc[p].kstack /\ Q[p].pgdir = proc[p].pgdir /\ Q[p].new = d[2]
      BY <2>6, <2>15
    <3>3. N.kpgdir = ram.kpgdir
      BY <1>12 DEF N, After
    <3>4. d[2] \in Nat
      BY <1>12
    <3> QED BY <1>v, <3>1, <3>2, <3>3, <3>4, ViewHas
  <2>17. After(ram, N, Has(V, New(p), d[2]))
    BY <1>12 DEF N
  <2>18. Working(test, N, Q)
    BY <2>15, <2>16, <2>17 DEF Working, After
  <2> QED BY <2>1, <2>18 DEF Q
<1> QED
  BY <1>9, <1>10, <1>11, <1>12

\* A fork that is done: the child has the new directory.
Settled(t, r, kstack, pgdir) == Rec(t, r) /\ (\A z : ~Forks(r, z)) /\ r.kstack = kstack /\ r.pgdir = pgdir /\ r.new = NULL
LEMMA ForkDone ==
  ASSUME Good(test, proc), NEW V, V = View(ram, proc), Accounts(ram, V), NEW p \in Procs, NEW q \in Procs,
         proc[p].st = "RUNNABLE", NEW d, d = proc[p].new, d # NULL, Forks(proc[p], q),
         NEW r, Settled(test, r, proc[p].kstack, proc[p].pgdir), NEW x, Settled(test, x, proc[q].kstack, d),
         NEW Q, Q = Two(proc, p, r, q, x)
  PROVE  Working(test, ram, Q)
<1>0. /\ Rec(test, r) /\ (\A z : ~Forks(r, z)) /\ r.kstack = proc[p].kstack /\ r.pgdir = proc[p].pgdir /\ r.new = NULL
      /\ Rec(test, x) /\ (\A z : ~Forks(x, z)) /\ x.kstack = proc[q].kstack /\ x.pgdir = d /\ x.new = NULL
  BY DEF Settled
<1>1. /\ q # p /\ proc[q].pgdir = NULL /\ proc[q].new = NULL
      /\ \A a \in Procs : Forks(proc[a], q) => a = p
  BY ChildIs
<1>2. proc[p].st # "EMBRYO" /\ (\A z \in Procs : ~Forks(x, z)) /\ \A z \in Procs : Forks(r, z) => z = q /\ x.st = "EMBRYO"
  BY <1>0
<1>3. Good(test, Q) /\ Q[p] = r /\ Q[q] = x /\ Others(proc, Q, p, q)
  BY <1>0, <1>1, <1>2, OursIs
<1>4. /\ Pgdir(q) \in Slots /\ Pgdir(q)[1] # "kstack" /\ V[Pgdir(q)] = NULL
      /\ New(p) \in Slots /\ New(p)[1] # "kstack" /\ V[New(p)] = d
  BY <1>1, PgdirIs
<1>5. After(ram, ram, Has(Has(V, New(p), NULL), Pgdir(q), V[New(p)]))
  BY <1>4, DirMoved
<1>6. View(ram, Q) = Has(Has(V, New(p), NULL), Pgdir(q), d)
  <2>1. Q[p].kstack = proc[p].kstack /\ Q[p].pgdir = proc[p].pgdir /\ Q[p].new = NULL
    BY <1>0, <1>3
  <2>2. Q[q].kstack = proc[q].kstack /\ Q[q].pgdir = d /\ Q[q].new = proc[q].new
    BY <1>0, <1>1, <1>3
  <2>3. V \in [Slots -> Nat] /\ NULL \in Nat /\ d \in Nat
    BY AccountsType DEF NULL, Rec, Good
  <2> QED BY <1>1, <1>3, <2>1, <2>2, <2>3, ViewTwo
<1> QED
  BY <1>3, <1>4, <1>5, <1>6 DEF Working, After

LEMMA ChildStarts ==
  ASSUME test \in DOMAIN Programs, Good(test, proc), NEW p \in Procs, NEW q \in Procs,
         proc[p].st = "RUNNABLE", proc[p].new # NULL, proc[p].kid = 0, In(test, proc[p], "fork"), Forks(proc[p], q),
         NEW x, x = [NoProc EXCEPT !.st = "RUNNABLE", !.parent = p, !.kid = proc[p].at, !.kstack = proc[q].kstack,
                                   !.pgdir = proc[p].new, !.sz = proc[p].sz]
  PROVE  Settled(test, x, proc[q].kstack, proc[p].new)
<1>1. q # p /\ Rec(test, proc[q]) /\ proc[q].kstack # NULL
  BY ChildIs
<1>2. Rec(test, proc[p])
  BY DEF Good
<1>6. /\ x.todo = <<>> /\ DOMAIN x = Fields /\ x.kstack = proc[q].kstack /\ x.pgdir = proc[p].new /\ x.new = NULL /\ x.sz = proc[p].sz
      /\ x.at = 1 /\ x.kid = proc[p].at /\ x.st = "RUNNABLE"
  BY DEF NoProc, Fields
<1>7. Rec(test, x) /\ \A z : ~Forks(x, z)
  <2>1. State(x)
    BY <1>1, <1>6 DEF State
  <2>2. Born(test, x.kid)
    <3>1. proc[p].at <= Len(Programs[test]) /\ Programs[test][proc[p].at].call = "fork"
      BY DEF In, Calling
    <3>2. proc[p].at \in Nat \ {0} /\ Len(Programs[test]) \in Nat
      BY <1>2, ProgramsAssumption DEF Rec
    <3> QED BY <1>6, <3>1, <3>2 DEF Born
  <2>3. 1 \in Nat \ {0} /\ proc[q].kstack \in Nat /\ proc[p].new \in Nat /\ proc[p].sz \in Sz
    BY <1>1, <1>2 DEF Rec
  <2>4. DOMAIN x = Fields /\ x.kstack \in Nat /\ x.pgdir \in Nat /\ x.sz \in Sz /\ x.at \in Nat \ {0} /\ x.todo = <<>> /\ x.new = NULL
    BY <1>6, <2>3
  <2> QED BY <2>1, <2>2, <2>4, Rests
<1> QED
  BY <1>6, <1>7 DEF Settled

LEMMA ForkPageWorks ==
  ASSUME test \in DOMAIN Programs, Working(test, ram, proc), NEW p \in Procs, ForkPage(p)
  PROVE  Working(test, ram', proc')
<1> DEFINE V == View(ram, proc)
           d == proc[p].new
<1>1. Does(p, "copyuvm")
  BY DEF ForkPage
<1>2. /\ Good(test, proc) /\ Accounts(ram, V) /\ proc[p].st = "RUNNABLE" /\ Rec(test, proc[p]) /\ proc[p].pgdir # NULL
  BY <1>1, Within
<1>3. d # NULL /\ proc[p].kid = 0 /\ In(test, proc[p], "fork")
  BY <1>1, <1>2, DoesCopy
<1>4. PICK q \in Procs, v \in Nat : Op(p) = <<"copyuvm", q, v>> /\ proc[p].todo = <<Op(p)>>
  BY <1>1, <1>2, DoesCopy
<1>5. Op(p)[2] = q /\ Op(p)[3] = v
  BY <1>4, Triple
<1>6. Forks(proc[p], q)
  BY <1>4 DEF Forks
<1> DEFINE w == copyuvm(ram, proc[p].pgdir, d, v)
<1>7. IF v * PGSIZE >= proc[p].sz
      THEN /\ proc' = [proc EXCEPT ![p] = Back(p, TRUE, FALSE),
                                   ![q] = [NoProc EXCEPT !.st = "RUNNABLE", !.parent = p, !.kid = proc[p].at, !.kstack = proc[q].kstack,
                                                         !.pgdir = d, !.sz = proc[p].sz]]
           /\ UNCHANGED ram
      ELSE IF ~Present(PTE(ram, proc[p].pgdir, v))
      THEN ram' = Panic(ram, "copyuvm: page not present") /\ UNCHANGED proc
      ELSE IF w[2] = "ok" THEN ram' = w[1] /\ Do(p, <<"copyuvm", q, v + 1>>)
      ELSE ram' = kfree(freevm(w[1], d), proc[q].kstack) /\ Unfork(p, q)
  BY <1>5 DEF ForkPage
<1>8. /\ New(p) \in Slots /\ New(p)[1] # "kstack" /\ V[New(p)] = d
      /\ Pgdir(p) \in Slots /\ Pgdir(p)[1] # "kstack" /\ V[Pgdir(p)] = proc[p].pgdir
  BY PgdirIs
<1>v. V = View(ram, proc) /\ V \in [Slots -> Nat] /\ ram \in Ram
  BY <1>2, AccountsType
<1>w. w = copyuvm(ram, V[Pgdir(p)], V[New(p)], v)
  BY <1>8
<1> HIDE DEF V, w
<1>9. CASE v * PGSIZE >= proc[p].sz
  <2> DEFINE yes == TRUE
             no == FALSE
             r == Back(p, yes, no)
             x == [NoProc EXCEPT !.st = "RUNNABLE", !.parent = p, !.kid = proc[p].at, !.kstack = proc[q].kstack,
                                 !.pgdir = d, !.sz = proc[p].sz]
             Q == proc'
  <2>1. Q = [proc EXCEPT ![p] = r, ![q] = x] /\ ram' = ram
    BY <1>7, <1>9
  <2>2. Settled(test, x, proc[q].kstack, d)
    BY <1>2, <1>3, <1>6, ChildStarts
  <2>3. r = Back(p, yes, no)
    OBVIOUS
  <2>q. q # p /\ proc = [z \in Procs |-> proc[z]]
    BY <1>2, <1>6, ChildIs DEF Good
  <2>d. d = proc[p].new
    OBVIOUS
  <2> HIDE DEF r, x, yes, no, Q, d
  <2>5. Settled(test, r, proc[p].kstack, proc[p].pgdir)
    <3>1. r.kstack = proc[p].kstack /\ r.pgdir = proc[p].pgdir /\ r.new = NULL
      BY <1>2, <2>3, BackIs
    <3>2. Rec(test, r) /\ \A z : ~Forks(r, z)
      BY <1>2, <2>3, BackRests
    <3> QED BY <3>1, <3>2 DEF Settled
  <2>6. Q = Two(proc, p, r, q, x)
    BY <2>1, <2>q DEF Two
  <2>4. Working(test, ram, Q)
    BY <1>2, <1>3, <1>6, <1>v, <2>d, <2>2, <2>5, <2>6, ForkDone
  <2> QED BY <2>1, <2>4 DEF Q
<1>10. CASE ~(v * PGSIZE >= proc[p].sz) /\ ~Present(PTE(ram, proc[p].pgdir, v))
  <2>1. ram' = Panic(ram, "copyuvm: page not present")
    BY <1>7, <1>10
  <2>2. ram'.panic # ""
    BY <1>v, <2>1, PanicIs
  <2> QED BY <2>2 DEF Working
<1>11. CASE ~(v * PGSIZE >= proc[p].sz) /\ Present(PTE(ram, proc[p].pgdir, v))
  <2>1. v < KERNBASE /\ v \in Vpn
    <3>0. proc[p].sz \in Sz
      BY <1>2 DEF Rec
    <3>1. v * PGSIZE \in Nat /\ proc[p].sz \in Nat
      BY <3>0, Sizes DEF Sz
    <3>2. v * PGSIZE < proc[p].sz
      BY <1>11, <3>1
    <3>3. v < KERNBASE
      BY <3>0, <3>2, SizeBounds DEF Sz
    <3>4. v \in 0..(KERNBASE - 1)
      BY <3>3, Sizes
    <3> QED BY <3>3, <3>4, Below
  <2>2. \/ w[2] = "none" /\ w[1] = ram
        \/ w[2] = "ok" /\ w[1].panic # ""
        \/ w[2] \in {"ok", "torn"} /\ After(ram, w[1], V)
    <3>1. V[New(p)] # NULL /\ V[Pgdir(p)] # NULL /\ Present(PTE(ram, V[Pgdir(p)], v))
      BY <1>2, <1>3, <1>8, <1>11
    <3>2. \E u \in Slots : /\ u[1] # "kstack" /\ V[u] # NULL /\ Present(PTE(ram, V[u], v)) /\ w = copyuvm(ram, V[u], V[New(p)], v)
      BY <1>8, <1>w, <3>1
    <3> QED BY <1>2, <1>8, <2>1, <3>1, <3>2, DirGrown
  <2>3. CASE w[2] = "ok"
    <3> DEFINE op == <<"copyuvm", q, v + 1>>
               r == Doing(proc[p], op)
               x == proc[q]
               Q == proc'
               N == w[1]
    <3>1. ram' = N /\ proc' = [proc EXCEPT ![p].todo = <<op>>]
      BY <1>7, <1>11, <2>3 DEF Do
    <3>2. /\ q # p /\ proc[q].st = "EMBRYO" /\ Rec(test, proc[q]) /\ (\A a \in Procs : Forks(proc[a], q) => a = p)
          /\ \A z : ~Forks(proc[q], z)
      BY <1>2, <1>6, ChildIs
    <3>3. Q = Two(proc, p, r, q, x)
      <4>1. proc = [z \in Procs |-> proc[z]]
        BY <1>2 DEF Good
      <4> HIDE DEF op
      <4> QED BY <3>1, <3>2, <4>1 DEF Two, Doing
    <3>4. /\ r.todo = <<op>> /\ r.new = d /\ DOMAIN r = Fields /\ r.kstack = proc[p].kstack /\ r.pgdir = proc[p].pgdir /\ r.sz = proc[p].sz
          /\ r.at = proc[p].at /\ r.kid = proc[p].kid /\ r.st = proc[p].st
      BY <1>2 DEF Rec, Fields, Doing
    <3>5. x = proc[q]
      OBVIOUS
    <3>n. N.panic # "" \/ After(ram, N, V)
      BY <2>2, <2>3
    <3> HIDE DEF r, x, Q, N
    <3>6. State(r) /\ In(test, r, "fork")
      BY <1>2, <1>3, <3>4 DEF Rec, State, In
    <3>7. Busy(test, r)
      <4>1. v + 1 \in Nat
        OBVIOUS
      <4> QED BY <1>3, <3>4, <3>6, <4>1 DEF Busy
    <3>8. Rec(test, r)
      BY <1>2, <3>4, <3>6, <3>7 DEF Rec
    <3>9. Rec(test, x) /\ (\A z : ~Forks(x, z)) /\ x.st = "EMBRYO"
      BY <3>2, <3>5
    <3>10. \A z \in Procs : Forks(r, z) => z = q /\ x.st = "EMBRYO"
      <4>1. r.todo = <<<<"copyuvm", q, v + 1>>>> /\ q \in Nat /\ v + 1 \in Nat
        BY <3>4, MemoryAssumption
      <4> HIDE DEF op
      <4> QED BY <3>9, <4>1, ForkOf
    <3> HIDE DEF op
    <3>11. proc[p].st # "EMBRYO" /\ \A z \in Procs : ~Forks(x, z)
      BY <1>2, <3>9
    <3>12. Good(test, Q) /\ Q[p] = r /\ Q[q] = x /\ \A z \in Procs : (z # p /\ z # q) => Q[z] = proc[z]
      BY <1>2, <3>2, <3>3, <3>8, <3>9, <3>10, <3>11, OursIs
    <3>13. CASE N.panic # ""
      BY <3>1, <3>13 DEF Working
    <3>14. CASE After(ram, N, V)
      <4>1. \A z \in Procs : Q[z].kstack = proc[z].kstack /\ Q[z].pgdir = proc[z].pgdir /\ Q[z].new = proc[z].new
        BY <3>4, <3>5, <3>12
      <4>2. N.kpgdir = ram.kpgdir
        BY <3>14 DEF After
      <4>3. View(N, Q) = View(ram, proc)
        BY <4>1, <4>2, ViewSame
      <4>4. Working(test, N, Q)
        BY <1>v, <3>12, <3>14, <4>3 DEF Working, After
      <4> QED BY <3>1, <4>4 DEF Q
    <3> QED BY <3>n, <3>13, <3>14
  <2>4. CASE w[2] # "ok"
    <3> DEFINE L == w[1]
               M == freevm(L, d)
               N == kfree(M, proc[q].kstack)
    <3>1. ram' = N /\ Unfork(p, q)
      BY <1>7, <1>11, <2>4
    <3>2. After(ram, L, V)
      <4>1. After(ram, ram, V)
        BY <1>2 DEF After
      <4> QED BY <2>2, <2>4, <4>1
    <3>3. Accounts(L, V)
      BY <3>2 DEF After
    <3> HIDE DEF L
    <3>4. After(L, freevm(L, V[New(p)]), Has(V, New(p), NULL))
      BY <1>3, <1>8, <3>3, DirFreed
    <3>5. M = freevm(L, V[New(p)])
      BY <1>8
    <3> HIDE DEF M
    <3>6. After(ram, M, Has(V, New(p), NULL))
      BY <3>2, <3>4, <3>5, AfterAlso
    <3>n. N = kfree(M, proc[q].kstack)
      OBVIOUS
    <3> HIDE DEF N
    <3>7. Working(test, N, proc')
      BY <1>2, <1>6, <1>v, <3>1, <3>6, <3>n, UnforkWorks
    <3> QED BY <3>1, <3>7
  <2> QED BY <2>3, <2>4
<1> QED
  BY <1>9, <1>10, <1>11

LEMMA WaitDone ==
  ASSUME Good(test, proc), NEW V, V = View(ram, proc), Accounts(ram, V), NEW p \in Procs, NEW q \in Procs, q # p,
         proc[p].st = "RUNNABLE", proc[p].new = NULL, proc[q].st = "ZOMBIE",
         NEW r, Settled(test, r, proc[p].kstack, proc[p].pgdir),
         NEW Q, Q = Two(proc, p, r, q, NoProc), NEW M, M = kfree(ram, proc[q].kstack)
  PROVE  Working(test, freevm(M, proc[q].pgdir), Q)
<1> DEFINE d == proc[q].pgdir
           N == freevm(M, d)
           W == Has(V, Kstack(q), NULL)
<1>0. Rec(test, r) /\ (\A z : ~Forks(r, z)) /\ r.kstack = proc[p].kstack /\ r.pgdir = proc[p].pgdir /\ r.new = NULL
  BY DEF Settled
<1>1. proc[q].kstack # NULL /\ proc[q].pgdir # NULL /\ proc[q].new = NULL /\ proc[q].pgdir \in Nat
  <2>1. Rec(test, proc[q])
    BY DEF Good
  <2> QED BY <2>1 DEF Rec, State
<1>2. \A a \in Procs : Forks(proc[a], q) => a = p
  BY DEF Good
<1>3. Rec(test, NoProc) /\ \A z : ~Forks(NoProc, z)
  BY NoProcIs
<1>4. proc[p].st # "EMBRYO" /\ (\A z \in Procs : ~Forks(NoProc, z)) /\ \A z \in Procs : Forks(r, z) => z = q /\ NoProc.st = "EMBRYO"
  BY <1>0, <1>3
<1>5. Good(test, Q) /\ Q[p] = r /\ Q[q] = NoProc /\ Others(proc, Q, p, q)
  BY <1>0, <1>2, <1>3, <1>4, OursIs
<1>6. /\ Pgdir(q) \in Slots /\ Pgdir(q)[1] # "kstack" /\ V[Pgdir(q)] = d
      /\ Kstack(q) \in Slots /\ Kstack(q)[1] = "kstack" /\ V[Kstack(q)] = proc[q].kstack /\ Kstack(q) # Pgdir(q)
  BY PgdirIs, SlotIs
<1>7. V \in [Slots -> Nat] /\ NULL \in Nat
  BY AccountsType DEF NULL
<1>w. W = Has(V, Kstack(q), NULL)
  OBVIOUS
<1>n. N = freevm(M, d)
  OBVIOUS
<1>d. d = proc[q].pgdir
  OBVIOUS
<1> HIDE DEF W, N, d
<1>8. After(ram, M, W)
  <2>1. After(ram, kfree(ram, V[Kstack(q)]), Has(V, Kstack(q), NULL))
    BY <1>1, <1>6, StackFreed
  <2> QED BY <1>6, <1>w, <2>1
<1>9. W[Pgdir(q)] = d
  BY <1>6, <1>7, <1>w, HasIs
<1>10. After(ram, N, Has(W, Pgdir(q), NULL))
  <2>1. Accounts(M, W)
    BY <1>8 DEF After
  <2>2. After(M, freevm(M, W[Pgdir(q)]), Has(W, Pgdir(q), NULL))
    BY <1>1, <1>6, <1>9, <1>d, <2>1, DirFreed
  <2> QED BY <1>8, <1>9, <1>n, <2>2, AfterAlso
<1>11. View(N, Q) = Has(Has(V, Kstack(q), NULL), Pgdir(q), NULL)
  <2>1. Q[p].kstack = proc[p].kstack /\ Q[p].pgdir = proc[p].pgdir /\ Q[p].new = proc[p].new
    BY <1>0, <1>5
  <2>2. Q[q].kstack = NULL /\ Q[q].pgdir = NULL /\ Q[q].new = proc[q].new
    BY <1>1, <1>5 DEF NoProc
  <2>3. N.kpgdir = ram.kpgdir
    BY <1>10 DEF After
  <2> QED BY <1>5, <1>7, <2>1, <2>2, <2>3, ViewTwo
<1>12. Working(test, N, Q)
  BY <1>5, <1>10, <1>11, <1>w DEF Working, After
<1> QED
  BY <1>12 DEF N, d

LEMMA WaitWorks ==
  ASSUME test \in DOMAIN Programs, Working(test, ram, proc), NEW p \in Procs, Wait(p)
  PROVE  Working(test, ram', proc')
<1> DEFINE V == View(ram, proc)
<1>1. Idle(p) /\ Calls(p, "wait")
  BY DEF Wait, Calls
<1>2. /\ Good(test, proc) /\ Accounts(ram, V) /\ proc[p].st = "RUNNABLE" /\ Rec(test, proc[p]) /\ proc[p].new = NULL
      /\ Moves(ram, proc, p, NULL, ram)
  BY <1>1, Between
<1>3. \/ Returns(p, FALSE, FALSE) /\ ram' = ram
      \/ \E q \in Children(p) :
            /\ proc[q].st = "ZOMBIE"
            /\ ram' = freevm(kfree(ram, proc[q].kstack), proc[q].pgdir)
            /\ proc' = [proc EXCEPT ![p] = [Back(p, TRUE, FALSE) EXCEPT !.oops = @ \/ proc[q].oops], ![q] = NoProc]
  BY DEF Wait
<1>v. V = View(ram, proc)
  OBVIOUS
<1> HIDE DEF V
<1>4. CASE Returns(p, FALSE, FALSE) /\ ram' = ram
  <2> DEFINE no == FALSE
  <2>1. Returns(p, no, no)
    BY <1>4
  <2> HIDE DEF no
  <2>2. Working(test, ram, proc')
    BY <1>2, <1>v, <2>1, ReturnWorks
  <2> QED BY <1>4, <2>2
<1>5. ASSUME NEW q \in Children(p), proc[q].st = "ZOMBIE", ram' = freevm(kfree(ram, proc[q].kstack), proc[q].pgdir),
             proc' = [proc EXCEPT ![p] = [Back(p, TRUE, FALSE) EXCEPT !.oops = @ \/ proc[q].oops], ![q] = NoProc]
      PROVE  Working(test, ram', proc')
  <2> DEFINE yes == TRUE
             no == FALSE
             b == Back(p, yes, no)
             r == [b EXCEPT !.oops = @ \/ proc[q].oops]
             Q == proc'
             M == kfree(ram, proc[q].kstack)
  <2>1. q \in Procs /\ q # p
    BY <1>2, <1>5 DEF Children
  <2>2. Q = Two(proc, p, r, q, NoProc)
    <3>1. proc = [z \in Procs |-> proc[z]]
      BY <1>2 DEF Good
    <3>2. proc' = [proc EXCEPT ![p] = r, ![q] = NoProc]
      BY <1>5
    <3> HIDE DEF r
    <3> QED BY <2>1, <3>1, <3>2 DEF Two
  <2>3. b = Back(p, yes, no)
    OBVIOUS
  <2>4. r = [b EXCEPT !.oops = @ \/ proc[q].oops]
    OBVIOUS
  <2>5. M = kfree(ram, proc[q].kstack) /\ ram' = freevm(M, proc[q].pgdir)
    BY <1>5
  <2> HIDE DEF r, b, yes, no, Q, M
  <2>6. Settled(test, r, proc[p].kstack, proc[p].pgdir)
    <3>1. /\ DOMAIN b = Fields /\ b.st = proc[p].st /\ b.kid = proc[p].kid /\ b.kstack = proc[p].kstack
          /\ b.pgdir = proc[p].pgdir /\ b.sz = proc[p].sz /\ b.todo = <<>> /\ b.new = NULL /\ b.at \in Nat \ {0}
      BY <1>2, <2>3, BackIs
    <3>2. /\ DOMAIN r = Fields /\ r.st = "RUNNABLE" /\ r.kid = proc[p].kid /\ r.kstack = proc[p].kstack
          /\ r.pgdir = proc[p].pgdir /\ r.sz = proc[p].sz /\ r.todo = <<>> /\ r.new = NULL /\ r.at \in Nat \ {0}
      BY <1>2, <2>4, <3>1 DEF Fields
    <3>3. State(r) /\ Born(test, r.kid) /\ r.kstack \in Nat /\ r.pgdir \in Nat /\ r.sz \in Sz
      BY <1>2, <3>2 DEF Rec, State
    <3>4. Rec(test, r) /\ \A z : ~Forks(r, z)
      BY <3>2, <3>3, Rests
    <3> QED BY <3>2, <3>4 DEF Settled
  <2>7. proc[q].st = "ZOMBIE"
    BY <1>5
  <2>8. Working(test, freevm(M, proc[q].pgdir), Q)
    BY <1>2, <1>v, <2>1, <2>2, <2>5, <2>6, <2>7, WaitDone
  <2> QED BY <2>5, <2>8 DEF Q
<1> QED
  BY <1>3, <1>4, <1>5

\* Each step of the processes.
LEMMA NextWorks ==
  ASSUME test \in DOMAIN Programs, Working(test, ram, proc), Next
  PROVE  Working(test, ram', proc') /\ test' = test
<1>1. CASE Halted /\ UNCHANGED vars
  BY <1>1 DEF vars, Working
<1>2. ASSUME NEW p \in Procs, Fork(p) \/ ForkKernel(p) \/ ForkPage(p) PROVE Working(test, ram', proc') /\ test' = test
  BY <1>2, ForkWorks, ForkKernelWorks, ForkPageWorks DEF Fork, ForkKernel, ForkPage
<1>3. ASSUME NEW p \in Procs, Sbrk(p) \/ SbrkPage(p) PROVE Working(test, ram', proc') /\ test' = test
  BY <1>3, SbrkWorks, SbrkPageWorks DEF Sbrk, SbrkPage
<1>4. ASSUME NEW p \in Procs, Exec(p) \/ ExecPage(p) \/ ExecCommit(p) PROVE Working(test, ram', proc') /\ test' = test
  BY <1>4, ExecWorks, ExecPageWorks, ExecCommitWorks DEF Exec, ExecPage, ExecCommit
<1>5. ASSUME NEW p \in Procs, Store(p) \/ Load(p) \/ fetchint(p) \/ fetchstr(p) PROVE Working(test, ram', proc') /\ test' = test
  BY <1>5, StoreWorks, LoadWorks, FetchintWorks, FetchstrWorks DEF Store, Load, fetchint, fetchstr
<1>6. ASSUME NEW p \in Procs, Await(p) \/ Kill(p) \/ Exit(p) \/ Wait(p) PROVE Working(test, ram', proc') /\ test' = test
  BY <1>6, AwaitWorks, KillWorks, ExitWorks, WaitWorks DEF Await, Kill, Exit, Wait
<1> QED
  BY <1>1, <1>2, <1>3, <1>4, <1>5, <1>6 DEF Next
=============================================================================
