------------------------------ MODULE Terminal ------------------------------
(***************************************************************************)
(* A user at the keyboard, the console, and the programs that read from    *)
(* it (consoleread): sh, cat, wc and grep.  One step is a keystroke with   *)
(* its interrupt, a turn of consoleread under input.lock, or what a        *)
(* program does with what it has read.                                     *)
(***************************************************************************)
EXTENDS Console, FiniteSets

CONSTANTS Readers,    \* processes
          Strokes,    \* what the user can press: the bytes of the keyboard
          CATBUF, NBUF, GBUF, MAXARGS,
          Readable,   \* see Shell
          Starts      \* [typed: unread, from: counter, pos, left: events to come, progs: by reader <<name, path or pattern>>]

VARIABLES term,   \* shift, buf, r, w, e, a, crt, pos, holder (of input.lock), wakeup, strayed
          prog,   \* by reader
          left    \* keystrokes and kills to come

vars == <<term, prog, left>>

Sh == INSTANCE Shell
F == INSTANCE Filters

EOF == "^D"

-----------------------------------------------------------------------------
Key ==
    /\ left > 0 /\ term.holder = 0
    /\ \E bytes \in Strokes :
          LET T == Interrupt(term, bytes)
          IN /\ term' = [T EXCEPT !.wakeup = FALSE]
             /\ prog' = [p \in Readers |-> IF T.wakeup /\ prog[p].pc = "asleep" THEN [prog[p] EXCEPT !.pc = "loop"] ELSE prog[p]]
    /\ left' = left - 1

\* The loop of consoleread, until there is nothing to read or the read is over.
RECURSIVE Reading(_, _, _)
Put(T, c, got, n) ==
    IF c = EOF THEN [T |-> IF got = <<>> THEN T ELSE [T EXCEPT !.r = Sub(@, 1)], got |-> got, over |-> TRUE]
    ELSE IF c = NL THEN [T |-> T, got |-> Append(got, c), over |-> TRUE]
    ELSE Reading(T, Append(got, c), n)
Reading(T, got, n) ==
    IF Len(got) = n \/ T.r = T.w THEN [T |-> T, got |-> got, over |-> Len(got) = n]
    ELSE Put([T EXCEPT !.r = Add(@, 1)], T.buf[T.r % INPUT_BUF], got, n)
Loop(p) ==
    /\ prog[p].pc = "loop" /\ term.holder = 0
    /\ LET R == Reading(term, prog[p].got, prog[p].n)
       IN /\ term' = [R.T EXCEPT !.holder = IF R.over \/ prog[p].killed THEN 0 ELSE p]
          /\ prog' = [prog EXCEPT ![p].got = R.got,
                                  ![p].pc = IF R.over THEN "back" ELSE IF prog[p].killed THEN "failed" ELSE "sleep"]
    /\ UNCHANGED left
Sleep(p) ==
    /\ prog[p].pc = "sleep"
    /\ prog' = [prog EXCEPT ![p].pc = "asleep"] /\ term' = [term EXCEPT !.holder = 0]
    /\ UNCHANGED left
Kill(p) ==
    /\ left > 0 /\ ~prog[p].killed /\ prog[p].pc # "done"
    /\ prog' = [prog EXCEPT ![p].killed = TRUE, ![p].pc = IF @ = "asleep" THEN "loop" ELSE @]
    /\ left' = left - 1
    /\ UNCHANGED term

\* The next read of a program.
Size(p) == CASE prog[p].name = "sh" -> 1
             [] prog[p].name = "grep" -> GBUF - prog[p].mem.m
             [] OTHER -> CATBUF
Call(p) ==
    /\ prog[p].pc = "run" /\ ~prog[p].killed
    /\ prog' = [prog EXCEPT ![p].pc = "loop", ![p].got = <<>>, ![p].n = Size(p)]
    /\ UNCHANGED <<term, left>>

\* sh: gets, and main with the line.
UpToNul(s) == IF Contains(s, NUL) THEN SubSeq(s, 1, (CHOOSE i \in DOMAIN s : s[i] = NUL /\ \A j \in 1..(i - 1) : s[j] # NUL) - 1) ELSE s
Gets(P) ==
    LET buf == P.mem.buf \o P.got
    IN IF P.got # <<>> /\ P.got[1] # NL /\ Len(buf) + 1 < NBUF THEN [P EXCEPT !.mem.buf = buf, !.pc = "run"]
       ELSE IF UpToNul(buf) = <<>> THEN [P EXCEPT !.pc = "done"]
       ELSE [P EXCEPT !.mem = [Sh!Line(P.mem, UpToNul(buf)) EXCEPT !.buf = <<>>, !.line = UpToNul(buf)], !.pc = "run"]
Filter(P) ==
    IF P.got = <<>> THEN [P EXCEPT !.pc = "done"]
    ELSE [P EXCEPT !.pc = "run", !.seen = @ \o P.got, !.whole = @ /\ P.got[Len(P.got)] = NL /\ (P.name = "grep" => ~F!Stale(P.mem, Len(P.got))),
                   !.mem = CASE P.name = "grep" -> F!grep(P.arg, @, P.got)
                             [] P.name = "wc" -> F!wc(@, P.got)
                             [] P.name = "cat" -> @]
Back(p) ==
    /\ prog[p].pc = "back"
    /\ prog' = [prog EXCEPT ![p] = IF prog[p].name = "sh" THEN Gets(prog[p]) ELSE Filter(prog[p])]
    /\ UNCHANGED <<term, left>>
\* The killed die on their way out of the kernel.
Die(p) ==
    /\ prog[p].pc \in {"failed", "run"} /\ prog[p].killed
    /\ prog' = [prog EXCEPT ![p].pc = "done"]
    /\ UNCHANGED <<term, left>>

Mem0(name, arg) == CASE name = "sh" -> [buf |-> <<>>, line |-> <<>>, path |-> arg, cwd |-> <<>>, ran |-> <<>>]
                     [] name = "grep" -> F!Grep0
                     [] name = "wc" -> F!Wc0
                     [] OTHER -> 0
Term0(start) ==
    [shift |-> {}, holder |-> 0, wakeup |-> FALSE, strayed |-> FALSE, pos |-> start.pos, a |-> 0,
     buf |-> [i \in Buffer |-> IF i >= 0 /\ Sub(i, start.from) % INPUT_BUF < Len(start.typed) THEN start.typed[(Sub(i, start.from) % INPUT_BUF) + 1] ELSE NUL],
     r |-> start.from, w |-> start.from + Len(start.typed), e |-> start.from + Len(start.typed),
     crt |-> [i \in 0..(ROWS * COLS) |-> " "]]
Init ==
    \E start \in Starts :
        /\ term = Term0(start)
        /\ left = start.left
        /\ prog = [p \in Readers |-> [name |-> start.progs[p][1], arg |-> start.progs[p][2], pc |-> IF start.progs[p][1] = "" THEN "done" ELSE "run",
                                      n |-> 0, got |-> <<>>, killed |-> FALSE, seen |-> <<>>, whole |-> TRUE, mem |-> Mem0(start.progs[p][1], start.progs[p][2])]]
Next == Key \/ \E p \in Readers : Loop(p) \/ Sleep(p) \/ Kill(p) \/ Call(p) \/ Back(p) \/ Die(p)
Spec == Init /\ [][Next]_vars

-----------------------------------------------------------------------------
(* Properties.                                                                                     *)

Cells(i, n) == [k \in 1..n |-> term.buf[Add(i, k - 1) % INPUT_BUF]]
LineBefore == Cells(term.w, Sub(Sub(term.e, term.w), term.a))
LineAfter == Cells(Sub(term.e, term.a), term.a)

\* Whatever is typed, and whoever reads, the console is a line editor, until one of the keys that Strays
\* names: the line is what its keys say, and each character of it is read once and in order.
Editor == INSTANCE LineEditor WITH
    before <- IF term.strayed THEN <<>> ELSE LineBefore,
    after <- IF term.strayed THEN <<>> ELSE LineAfter,
    sent <- IF term.strayed THEN <<>> ELSE Cells(term.r, Sub(term.w, term.r)),
    got <- [p \in Readers |-> IF term.strayed THEN <<>> ELSE prog[p].got],
    lost <- term.strayed,
    Chars <- {"a", "b", "u", "d", "A", "B", "U", "D", "^A", "^B", "4", "6", NL, EOF},
    CAP <- INPUT_BUF
EditsLines == Editor!Spec

\* The screen shows the line around the cursor, wherever the cursor is in it and however it scrolled.
ScreenShowsLine ==
    ~term.strayed =>
        /\ \A k \in 1..Len(LineBefore) : term.pos - k >= 0 => term.crt[term.pos - k] = LineBefore[Len(LineBefore) + 1 - k]
        /\ \A k \in 1..Len(LineAfter) : term.crt[term.pos + k - 1] = LineAfter[k]

\* Nobody sleeps while there is something to read, strayed or not; and what is to be read fits the buffer.
NobodySleepsOnInput ==
    /\ \A p \in Readers : prog[p].pc \in {"sleep", "asleep"} => term.r = term.w
    /\ Sub(term.e, term.r) <= INPUT_BUF /\ Sub(term.w, term.r) <= Sub(term.e, term.r)

\* A line runs what it means, and one with an error in it runs nothing.
RunsTheLine ==
    \A p \in Readers :
        LET mem == prog[p].mem
        IN (prog[p].name = "sh" /\ mem.line # <<>> /\ mem.line[1] \notin {Sh!CD, Sh!EXPORT}) =>
              /\ (Sh!parsecmd(mem.line) = Sh!Panic) <=> ~Sh!IsLine(Sh!Kinds(Sh!Tokens(mem.line, 1)))
              /\ ~Contains(mem.line, "(") => Sh!Same(mem.path, mem.ran, Sh!Meaning(mem.path, Sh!Tokens(mem.line, 1)))

\* grep prints the lines that match, and wc counts what it has seen, however the input is cut into
\* reads; but grep drops a read without a newline, and when a read is shorter than one before it, finds
\* the newlines that were left behind: whole says that neither has happened.
FiltersAgree ==
    \A p \in Readers :
        /\ (prog[p].name = "grep" /\ prog[p].whole) => prog[p].mem.out = F!MatchingLines(prog[p].arg, prog[p].seen)
        /\ prog[p].name = "wc" => \A k \in {"l", "w", "c"} : prog[p].mem[k] = F!Counts(prog[p].seen)[k]
=============================================================================
