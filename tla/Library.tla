------------------------------- MODULE Library -------------------------------
(***************************************************************************)
(* Memory and strings, kernel side (string.c) and user side (ulib.c), and  *)
(* the two printfs (printf.c; cprintf of console.c) with their numbers.    *)
(*                                                                         *)
(* A function gets the memory, M, and returns it, or a value.  A pointer   *)
(* is an address; 0 is the cell that ends a string.  Cells are unsigned,   *)
(* as the comparisons make them.  Integers have WIDTH bits.  malloc and    *)
(* free are in Umalloc.                                                    *)
(***************************************************************************)
EXTENDS Umalloc, Sequences, SequencesExt

CONSTANTS CELLS,    \* of memory
          BYTES,    \* values of a cell, 256 in the code
          WORD,     \* cells of a word, 4
          WIDTH     \* 32

ASSUME LibraryAssumption == CELLS \in Nat /\ BYTES \in Nat \ {0, 1} /\ WORD \in Nat \ {0} /\ WIDTH \in Nat \ {0, 1}

VARIABLE cells
Cells0 == [a \in 0..(CELLS - 1) |-> 0]

UpTo(n) == [k \in 1..n |-> k - 1]
DownFrom(n) == Reverse(UpTo(n))
CopyCells(M, d, s, order) == FoldLeft(LAMBDA N, k : [N EXCEPT ![d + k] = N[s + k]], M, order)
\* The user's memmove.
MoveUp(M, d, s, n) == CopyCells(M, d, s, UpTo(n))
\* Mutant: the kernel's is like the user's, without a thought for places that overlap.
memmoveUp(M, d, s, n) == MoveUp(M, d, s, n)
memmove(M, d, s, n) == IF s < d /\ s + n > d THEN CopyCells(M, d, s, DownFrom(n)) ELSE MoveUp(M, d, s, n)

stos(M, d, w, n) == [a \in DOMAIN M |-> IF d <= a /\ a < d + n * Len(w) THEN w[((a - d) % Len(w)) + 1] ELSE M[a]]
memset(M, d, c, n) ==
    IF d % WORD = 0 /\ n % WORD = 0 THEN stos(M, d, [k \in 1..WORD |-> c % BYTES], n \div WORD) ELSE stos(M, d, <<c % BYTES>>, n)
RECURSIVE memcmp(_, _, _, _)
memcmp(M, p, q, n) == IF n = 0 THEN 0 ELSE IF M[p] # M[q] THEN M[p] - M[q] ELSE memcmp(M, p + 1, q + 1, n - 1)

\* At most n cells of the string at t, its end included: where the copy got to, and what is left of n.
RECURSIVE CopyString(_, _, _, _)
CopyString(M, s, t, n) ==
    IF n <= 0 THEN [mem |-> M, s |-> s, n |-> 0]
    ELSE LET N == [M EXCEPT ![s] = M[t]]
         IN IF M[t] = 0 THEN [mem |-> N, s |-> s + 1, n |-> n - 1] ELSE CopyString(N, s + 1, t + 1, n - 1)
strncpy(M, s, t, n) == LET c == CopyString(M, s, t, n) IN stos(c.mem, c.s, <<0>>, c.n)
safestrcpy(M, s, t, n) == IF n <= 0 THEN M ELSE LET c == CopyString(M, s, t, n - 1) IN [c.mem EXCEPT ![c.s] = 0]
strcpy(M, s, t) == CopyString(M, s, t, CELLS).mem
strcat(M, dest, p, q) == LET c == CopyString(M, dest, p, CELLS) IN strcpy(c.mem, c.s - 1, q)

RECURSIVE strlen(_, _)
strlen(M, s) == IF M[s] = 0 THEN 0 ELSE 1 + strlen(M, s + 1)

RECURSIVE strncmp(_, _, _, _)
strncmp(M, p, q, n) ==
    IF n = 0 THEN 0 ELSE IF M[p] # 0 /\ M[p] = M[q] THEN strncmp(M, p + 1, q + 1, n - 1) ELSE M[p] - M[q]
strcmp(M, p, q) == strncmp(M, p, q, CELLS)

-----------------------------------------------------------------------------
(* Numbers and formats.  Output is a sequence of characters; an argument, which may be read as any *)
(* type, has a field for each.  The lock that cprintf holds meanwhile is in LockOrder.             *)

DIGITS == <<"0", "1", "2", "3", "4", "5", "6", "7", "8", "9", "A", "B", "C", "D", "E", "F">>
digits == <<"0", "1", "2", "3", "4", "5", "6", "7", "8", "9", "a", "b", "c", "d", "e", "f">>
UINTS == 2^WIDTH
Ints == -(UINTS \div 2)..(UINTS \div 2 - 1)

RECURSIVE Numeral(_, _, _)
Numeral(table, x, radix) ==
    (IF x \div radix = 0 THEN <<>> ELSE Numeral(table, x \div radix, radix)) \o <<table[(x % radix) + 1]>>
printint(table, xx, radix, sgn) ==
    IF sgn /\ xx < 0 THEN <<"-">> \o Numeral(table, (-xx) % UINTS, radix) ELSE Numeral(table, xx % UINTS, radix)
\* What would overflow, which C leaves undefined, is not among the inputs.
Value(c) == CHOOSE v \in 0..9 : c = DIGITS[v + 1]
atoi(s) ==
    LET stop == SelectInSeq(Append(s, ""), LAMBDA c : \A v \in 1..10 : c # DIGITS[v])
    IN FoldLeft(LAMBDA n, c : n * 10 + Value(c), 0, SubSeq(s, 1, stop - 1))

NullPointer == <<0>>
Text(arg) == IF arg.s = NullPointer THEN <<"(", "n", "u", "l", "l", ")">> ELSE arg.s
Put1(P, c) == [P EXCEPT !.out = Append(@, c)]
PutArg(P, text) == [P EXCEPT !.out = @ \o text, !.ap = @ + 1]
Formatted(P, c, args) ==
    CASE c = "d" -> PutArg(P, printint(DIGITS, args[P.ap].d, 10, TRUE))
      [] c \in {"x", "p"} -> PutArg(P, printint(DIGITS, args[P.ap].d, 16, FALSE))
      [] c = "s" -> PutArg(P, Text(args[P.ap]))
      [] c = "c" -> PutArg(P, <<args[P.ap].c>>)
      [] c = "%" -> Put1(P, c)
      [] OTHER -> Put1(Put1(P, "%"), c)
printf(fmt, args) ==
    FoldLeft(LAMBDA P, c : IF P.state = "%" THEN [Formatted(P, c, args) EXCEPT !.state = ""]
                           ELSE IF c = "%" THEN [P EXCEPT !.state = "%"] ELSE Put1(P, c),
             [state |-> "", ap |-> 1, out |-> <<>>], fmt).out

cprintint(xx, radix, sign) == printint(digits, xx, radix, sign)
RECURSIVE cprintf(_, _)
cprintf(fmt, args) ==
    IF fmt = <<>> \/ fmt = <<"%">> THEN <<>>
    ELSE IF fmt[1] # "%" THEN <<fmt[1]>> \o cprintf(Tail(fmt), args)
    ELSE LET rest == SubSeq(fmt, 3, Len(fmt))
         IN CASE fmt[2] = "d" -> cprintint(args[1].d, 10, TRUE) \o cprintf(rest, Tail(args))
              [] fmt[2] \in {"x", "p"} -> cprintint(args[1].d, 16, FALSE) \o cprintf(rest, Tail(args))
              [] fmt[2] = "s" -> Text(args[1]) \o cprintf(rest, Tail(args))
              [] fmt[2] = "%" -> <<"%">> \o cprintf(rest, args)
              [] OTHER -> <<"%", fmt[2]>> \o cprintf(rest, args)
-----------------------------------------------------------------------------
(* Any sequence of calls that stay inside of memory.                                               *)

Room(a, n) == a >= 0 /\ a + n <= CELLS
IsString(a) == \E k \in a..(CELLS - 1) : cells[k] = 0
Ends(a, n) == Room(a, n) \/ IsString(a)
Apart(a, b, n) == a + n <= b \/ b + n <= a

Set == \E d \in DOMAIN cells, c \in 0..BYTES, n \in 1..CELLS : Room(d, n) /\ cells' = memset(cells, d, c, n)
Move == \E d, s \in DOMAIN cells, n \in 1..CELLS : Room(d, n) /\ Room(s, n) /\ cells' = memmove(cells, d, s, n)
CopyName ==
    \E s, t \in DOMAIN cells, n \in 1..CELLS :
        /\ Room(s, n) /\ Ends(t, n) /\ Apart(s, t, n)
        /\ \/ cells' = strncpy(cells, s, t, n)
           \/ cells' = safestrcpy(cells, s, t, n)
Join ==
    \E d, p, q \in DOMAIN cells :
        /\ IsString(p) /\ IsString(q)
        /\ LET n == strlen(cells, p) + strlen(cells, q) + 1
           IN Room(d, n) /\ Apart(d, p, n) /\ Apart(d, q, n) /\ cells' = strcat(cells, d, p, q)
LibraryNext == Set \/ Move \/ CopyName \/ Join

-----------------------------------------------------------------------------
(* Properties.                                                                                     *)

Same(M, d, n) == \A a \in DOMAIN M \ (d..(d + n - 1)) : M[a] = cells[a]

\* What is moved arrives whole, however the two places overlap, and nothing beside it changes; so it
\* does with the user's memmove when it is moved down, as grep and the scrolling screen do.
MovesArriveWhole ==
    \A d, s \in DOMAIN cells : \A n \in 0..CELLS :
        LET Arrives(M) == Same(M, d, n) /\ \A k \in 0..(n - 1) : M[d + k] = cells[s + k]
        IN Room(d, n) /\ Room(s, n) => Arrives(memmove(cells, d, s, n)) /\ (d <= s \/ Apart(d, s, n) => Arrives(MoveUp(cells, d, s, n)))

\* A name that dirlink has put into an entry, which may fill it without an end, is what dirlookup finds
\* there, and it is found under no other name; process names always have an end, inside of their place.
NamesFoundAgain ==
    \A d, s \in DOMAIN cells : \A n \in 1..CELLS :
        Room(d, n) /\ Ends(s, n) /\ Apart(d, s, n) =>
            LET M == strncpy(cells, d, s, n)
                N == safestrcpy(cells, d, s, n)
                prefix == {k \in 0..(n - 1) : \A j \in 0..(k - 1) : cells[s + j] # 0}
            IN /\ Same(M, d, n) /\ Same(N, d, n)
               /\ strncmp(M, s, d, n) = 0
               /\ \A t \in DOMAIN M : (Ends(t, n) /\ Apart(d, t, n) /\ strncmp(M, t, d, n) = 0) => \A k \in prefix : cells[t + k] = cells[s + k]
               /\ \A k \in 0..(n - 1) \ prefix : M[d + k] = 0
               /\ \E k \in 0..(n - 1) : N[d + k] = 0 /\ strncmp(N, s, d, k) = 0 /\ (k = n - 1 \/ cells[s + k] = 0)

\* strcmp orders the strings there are, and tells two apart unless they are the same.
StringsOrdered ==
    LET S == {a \in DOMAIN cells : IsString(a)}
        Str(a) == [k \in 0..strlen(cells, a) |-> cells[a + k]]
    IN \A p, q \in S : /\ strcmp(cells, p, q) = -strcmp(cells, q, p)
                       /\ strcmp(cells, p, q) = 0 <=> Str(p) = Str(q)
                       /\ strcmp(cells, p, q) = 0 => memcmp(cells, p, q, strlen(cells, p) + 1) = 0
                       /\ \A r \in S : strcmp(cells, p, q) < 0 /\ strcmp(cells, q, r) < 0 => strcmp(cells, p, r) < 0

\* A number that is printed and read back is the same number, the least of all too, whose negation
\* overflows; and a negative number printed in hexadecimal is what it is as an unsigned one.
HexValue(s) == FoldLeft(LAMBDA n, c : 16 * n + (CHOOSE v \in 0..15 : c = DIGITS[v + 1]), 0, s)
NumbersReadBack ==
    \A x \in Ints :
        /\ IF x >= 0 THEN atoi(printint(DIGITS, x, 10, TRUE)) = x
           ELSE LET s == printint(DIGITS, x, 10, TRUE) IN s[1] = "-" /\ atoi(Tail(s)) = -x
        /\ LET s == printint(DIGITS, x, 16, FALSE) IN HexValue(s) = x % UINTS /\ (s[1] = "0" => s = <<"0">>)

\* The kernel and the programs, each with a loop of its own, write the same for the same format, what
\* is wrong in it included, but for %c, which only programs have, and the case of hexadecimal digits.
Arguments == {<<[d |-> x, s |-> s, c |-> "c"], [d |-> 0, s |-> NullPointer, c |-> "d"]>> : x \in {-9, 7}, s \in {<<>>, <<"%", "d">>}}
Upper(out) == [k \in DOMAIN out |-> IF \E v \in 11..16 : out[k] = digits[v] THEN DIGITS[CHOOSE v \in 11..16 : out[k] = digits[v]] ELSE out[k]]
FormatsAgree ==
    \A fmt \in UNION {[1..n -> {"%", "d", "x", "s", "z"}] : n \in 0..4}, args \in Arguments :
        Upper(printf(fmt, args)) = Upper(cprintf(fmt, args))

\* All that the library promises.
LibrarySound == HeapSound /\ MovesArriveWhole /\ NamesFoundAgain /\ StringsOrdered /\ NumbersReadBack /\ FormatsAgree
=============================================================================
