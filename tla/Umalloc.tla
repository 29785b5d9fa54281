------------------------------- MODULE Umalloc -------------------------------
(***************************************************************************)
(* malloc and free of the user library (umalloc.c): a circular list of     *)
(* free blocks in the order of their addresses, each with a header of one  *)
(* unit.  Addresses and sizes are counted in units; base, the header the   *)
(* list starts with, lies below the heap.  sbrk may fail at any time.      *)
(***************************************************************************)
EXTENDS Integers, FiniteSets

CONSTANTS MINUNITS,   \* the least that morecore asks for, 4096 in the code
          HEAP,       \* the end of memory
          Requests    \* what is asked for, in units with the header

ASSUME UmallocAssumption == MINUNITS \in Nat \ {0} /\ HEAP \in Nat /\ Requests \subseteq (Nat \ {0})

VARIABLE heap   \* freep; hdr: the headers; brk: the end of the heap; used: the blocks the program has

base == 0
Start == 2
Heap0 == [freep |-> -1, hdr |-> [a \in 0..HEAP |-> [ptr |-> 0, size |-> 0]], brk |-> Start, used |-> {}]

\* The block after which bp belongs: before it and after the next, or at either end of the list.
RECURSIVE Place(_, _, _)
Place(H, p, bp) ==
    IF (bp > p /\ bp < H.hdr[p].ptr) \/ (p >= H.hdr[p].ptr /\ (bp > p \/ bp < H.hdr[p].ptr)) THEN p ELSE Place(H, H.hdr[p].ptr, bp)
JoinUp(H, p, bp, next) ==
    [H EXCEPT !.hdr[bp] = IF bp + @.size = next THEN [ptr |-> H.hdr[next].ptr, size |-> @.size + H.hdr[next].size] ELSE [@ EXCEPT !.ptr = next]]
\* Mutant: a block is not joined to the one below it.
JoinDownNever(H, p, bp) == [H EXCEPT !.hdr[p].ptr = bp, !.freep = p]
JoinDown(H, p, bp) ==
    [H EXCEPT !.hdr[p] = IF p + @.size = bp THEN [ptr |-> H.hdr[bp].ptr, size |-> @.size + H.hdr[bp].size] ELSE [@ EXCEPT !.ptr = bp],
              !.freep = p]
FreeAfter(H, p, bp) == JoinDown(JoinUp(H, p, bp, H.hdr[p].ptr), p, bp)
free(H, bp) == FreeAfter(H, Place(H, H.freep, bp), bp)

Units(nu) == IF nu < MINUNITS THEN MINUNITS ELSE nu
morecore(H, nu) == free([H EXCEPT !.brk = @ + Units(nu), !.hdr[H.brk].size = Units(nu)], H.brk)

\* First fit, from the block after prevp on; all of a block, or the end of it.
Given(H, prevp, p, n) ==
    IF H.hdr[p].size = n THEN [H EXCEPT !.hdr[prevp].ptr = H.hdr[p].ptr, !.freep = prevp, !.used = @ \cup {[at |-> p, size |-> n]}]
    ELSE LET q == p + H.hdr[p].size - n
         IN [H EXCEPT !.hdr[p].size = @ - n, !.hdr[q].size = n, !.freep = prevp, !.used = @ \cup {[at |-> q, size |-> n]}]
RECURSIVE Search(_, _, _, _)
Search(H, prevp, n, core) ==
    LET p == H.hdr[prevp].ptr
    IN IF H.hdr[p].size >= n THEN Given(H, prevp, p, n)
       ELSE IF p # H.freep THEN Search(H, p, n, core)
       ELSE IF core /\ H.brk + Units(n) <= HEAP THEN LET G == morecore(H, n) IN Search(G, G.freep, n, core)
       ELSE H
Started(H) == IF H.freep = -1 THEN [H EXCEPT !.freep = base, !.hdr[base] = [ptr |-> base, size |-> 0]] ELSE H

Malloc == \E n \in Requests, core \in BOOLEAN : heap' = Search(Started(heap), Started(heap).freep, n, core)
Free == \E b \in heap.used : heap' = [free(heap, b.at) EXCEPT !.used = @ \ {b}]
HeapNext == Malloc \/ Free

-----------------------------------------------------------------------------
(* Properties.                                                                                     *)

RECURSIVE FreeList(_, _)
FreeList(p, seen) == IF p \in seen THEN seen ELSE FreeList(heap.hdr[p].ptr, seen \cup {p})

\* Whatever is allocated, freed and refused in whatever order: blocks that are used and blocks that are
\* free share no unit and leave none out, so the headers are where the arithmetic of free expects them;
\* the list is sorted and closed, and no two neighbours in it are free: everything freed can be had again.
HeapSound ==
    heap.freep # -1 =>
        LET list == FreeList(base, {})
            blocks == {[at |-> p, size |-> heap.hdr[p].size] : p \in list \ {base}} \cup heap.used
            Next(p) == heap.hdr[p].ptr
        IN /\ heap.freep \in list
           /\ \A p \in list : Next(p) = base \/ (Next(p) > p /\ p + heap.hdr[p].size < Next(p))
           /\ Cardinality({p \in list : Next(p) = base}) = 1
           /\ \A u \in Start..(heap.brk - 1) : Cardinality({b \in blocks : b.at <= u /\ u < b.at + b.size}) = 1
           /\ \A b \in blocks : b.at >= Start /\ b.size > 0 /\ b.at + b.size <= heap.brk
=============================================================================
