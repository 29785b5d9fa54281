------------------------------- MODULE Filters -------------------------------
(***************************************************************************)
(* grep.c and wc.c, as operators on what a read returns: grep keeps the    *)
(* beginning of a line for the next read, wc its counters.  A text is a    *)
(* sequence of characters; NUL is the character 0.                         *)
(***************************************************************************)
EXTENDS Integers, Sequences, FiniteSets, SequencesExt

CONSTANT GBUF   \* cells of grep's buffer, 1024 in the code

LOCAL NL == "\n"
LOCAL NUL == ""
LOCAL Spaces == {" ", "\r", "\t", NL}
LOCAL Rest(s, n) == SubSeq(s, n + 1, Len(s))

RECURSIVE matchhere(_, _), matchstar(_, _, _)
matchhere(re, text) ==
    \/ re = <<>>
    \/ Len(re) > 1 /\ re[2] = "*" /\ matchstar(re[1], Rest(re, 2), text)
    \/ re # <<>> /\ ~(Len(re) > 1 /\ re[2] = "*")
       /\ IF re = <<"$">> THEN text = <<>> ELSE text # <<>> /\ re[1] \in {".", text[1]} /\ matchhere(Tail(re), Tail(text))
matchstar(c, re, text) ==
    \/ matchhere(re, text)
    \/ text # <<>> /\ (text[1] = c \/ c = ".") /\ matchstar(c, re, Tail(text))
\* Mutant: the end of the text is not tried.
matchNonEmpty(re, text) == IF re # <<>> /\ re[1] = "^" THEN matchhere(Tail(re), text) ELSE \E i \in 0..(Len(text) - 1) : matchhere(re, Rest(text, i))
match(re, text) == IF re # <<>> /\ re[1] = "^" THEN matchhere(Tail(re), text) ELSE \E i \in 0..Len(text) : matchhere(re, Rest(text, i))

\* The buffer is a function; what lies beyond what was read is left from before.
Grep0 == [buf |-> [i \in (-GBUF)..(GBUF - 1) |-> NUL], m |-> 0, out |-> <<>>]
Text(b, p, q) == [k \in 1..(q - p) |-> b[p + k - 1]]
\* strchr: the next newline, if there is no NUL before it.
Newline(b, p) == {q \in p..(GBUF - 1) : b[q] = NL /\ \A j \in p..(q - 1) : b[j] \notin {NL, NUL}}
\* A newline of an earlier read lies behind the n bytes of this one.
Stale(g, n) == \E q \in (g.m + n)..(GBUF - 1) : g.buf[q] = NL
GrepLine(re, g, p, q) ==
    IF match(re, Text(g.buf, p, q)) THEN [g EXCEPT !.out = @ \o Text(g.buf, p, q + 1)] ELSE [g EXCEPT !.buf[q] = NUL]
RECURSIVE GrepLines(_, _, _)
GrepLines(re, g, p) ==
    IF Newline(g.buf, p) = {} THEN <<g, p>>
    ELSE LET q == CHOOSE x \in Newline(g.buf, p) : TRUE IN GrepLines(re, GrepLine(re, g, p, q), q + 1)
\* What is left moves to the front.
Kept(g, p) ==
    IF p = 0 THEN [g EXCEPT !.m = 0]
    ELSE IF g.m <= 0 THEN g
    ELSE [g EXCEPT !.m = @ - p, !.buf = [i \in DOMAIN @ |-> IF i >= 0 /\ i < g.m - p THEN @[i + p] ELSE @[i]]]
After(gp) == Kept(gp[1], gp[2])
grep(re, g, bytes) ==
    After(GrepLines(re, [g EXCEPT !.m = @ + Len(bytes),
                                  !.buf = [i \in DOMAIN @ |-> IF i >= g.m /\ i < g.m + Len(bytes) THEN bytes[i - g.m + 1] ELSE @[i]]], 0))

Wc0 == [l |-> 0, w |-> 0, c |-> 0, inword |-> FALSE]
\* Mutant: every read begins a word.
wcChunks(s, bytes) == FoldLeft(LAMBDA t, b : [l |-> t.l + (IF b = NL THEN 1 ELSE 0), c |-> t.c + 1, inword |-> b \notin Spaces,
                                              w |-> t.w + (IF b \notin Spaces /\ ~t.inword THEN 1 ELSE 0)], [s EXCEPT !.inword = FALSE], bytes)
wc(s, bytes) == FoldLeft(LAMBDA t, b : [l |-> t.l + (IF b = NL THEN 1 ELSE 0), c |-> t.c + 1, inword |-> b \notin Spaces,
                                        w |-> t.w + (IF b \notin Spaces /\ ~t.inword THEN 1 ELSE 0)], s, bytes)

-----------------------------------------------------------------------------
(* What they are for.                                                                              *)

\* The items of an expression: what, and whether starred.
RECURSIVE Items(_)
Items(re) ==
    IF re = <<>> THEN <<>>
    ELSE IF Len(re) > 1 /\ re[2] = "*" THEN <<<<re[1], "*">>>> \o Items(Rest(re, 2))
    ELSE IF re = <<"$">> THEN <<<<"$", "end">>>> ELSE <<<<re[1], "once">>>> \o Items(Tail(re))
\* A text matches if it can be cut so that each item gets its piece.
Matches(re, text) ==
    LET anchored == re # <<>> /\ re[1] = "^"
        items == Items(IF anchored THEN Tail(re) ELSE re)
    IN \E cut \in [1..(Len(items) + 1) -> 0..Len(text)] :
          /\ anchored => cut[1] = 0
          /\ \A k \in DOMAIN items :
                /\ cut[k] <= cut[k + 1]
                /\ items[k][2] = "once" => cut[k + 1] = cut[k] + 1
                /\ items[k][2] = "end" => cut[k] = Len(text)
                /\ items[k][2] # "end" => \A i \in (cut[k] + 1)..cut[k + 1] : items[k][1] \in {".", text[i]}

Ends(s) == {i \in DOMAIN s : s[i] = NL}
\* The lines of s that match, with their newlines.
MatchingLines(re, s) ==
    FoldLeft(LAMBDA out, i : LET before == {j \in Ends(s) : j < i}
                                 start == IF before = {} THEN 1 ELSE (CHOOSE j \in before : \A k \in before : k <= j) + 1
                             IN IF i \in Ends(s) /\ Matches(re, SubSeq(s, start, i - 1)) THEN out \o SubSeq(s, start, i) ELSE out,
             <<>>, [i \in 1..Len(s) |-> i])
Counts(s) == [l |-> Cardinality(Ends(s)), c |-> Len(s),
              w |-> Cardinality({i \in DOMAIN s : s[i] \notin Spaces /\ (i = 1 \/ s[i - 1] \in Spaces)})]
=============================================================================
