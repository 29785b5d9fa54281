------------------------------- MODULE Console -------------------------------
(***************************************************************************)
(* The keyboard (kbd.c), the line that is being edited and its image on    *)
(* the screen (consoleintr and cgaputc of console.c), as operators on a    *)
(* record: shift flags, input buffer with its counters, screen, cursor.    *)
(*                                                                         *)
(* Counters are unsigned numbers modulo UINT.  The shifts of the buffer    *)
(* index it without a modulo: cells below 0 are the bytes of input.lock    *)
(* in front of it.  What the serial line gets, ^P's process listing and    *)
(* the output of programs are left out.                                    *)
(***************************************************************************)
EXTENDS Integers, Sequences, SequencesExt, TLC

CONSTANTS INPUT_BUF,   \* 128 in the code, a power of two
          COLS, ROWS   \* 80 and 24 there

ASSUME ConsoleAssumption == INPUT_BUF \in {2, 4, 8, 16} /\ COLS \in Nat \ {0} /\ ROWS \in Nat \ {0, 1}

UINT == INPUT_BUF * INPUT_BUF
Sub(x, y) == (x + UINT - y) % UINT
Add(x, y) == (x + y) % UINT
Index(i) == IF i >= UINT \div 2 THEN i - UINT ELSE i
Buffer == (-2 * INPUT_BUF)..(INPUT_BUF - 1)

NUL == ""
NL == "\n"
-----------------------------------------------------------------------------
(* kbdgetc: the bytes the keyboard sends, make codes below 128, break codes above, 224 before the  *)
(* codes of the arrows.                                                                            *)

E0 == 224
shiftcode == [k \in {29, 157} |-> "CTL"] @@ [k \in {42, 54} |-> "SHIFT"]
togglecode == [k \in {58} |-> "CAPSLOCK"]
Arrows == (203 :> "KEY_LF") @@ (205 :> "KEY_RT")
normalmap == Arrows @@ (30 :> "a") @@ (48 :> "b") @@ (22 :> "u") @@ (32 :> "d") @@ (14 :> "^H") @@ (28 :> NL) @@ (75 :> "4") @@ (77 :> "6")
shiftmap == Arrows @@ (30 :> "A") @@ (48 :> "B") @@ (22 :> "U") @@ (32 :> "D") @@ (14 :> "^H") @@ (28 :> NL) @@ (75 :> "4") @@ (77 :> "6")
ctlmap == Arrows @@ (30 :> "^A") @@ (48 :> "^B") @@ (22 :> "^U") @@ (32 :> "^D") @@ (28 :> "\r")

Of(map, k) == IF k \in DOMAIN map THEN {map[k]} ELSE {}
CharOf(map, k) == IF k \in DOMAIN map THEN map[k] ELSE NUL
Toggle(set, flags) == (set \cup flags) \ (set \cap flags)
Letters == [c \in {"a", "b", "u", "d", "A", "B", "U", "D"} |->
              CASE c = "a" -> "A" [] c = "b" -> "B" [] c = "u" -> "U" [] c = "d" -> "D"
                [] c = "A" -> "a" [] c = "B" -> "b" [] c = "U" -> "u" [] OTHER -> "d"]
Cased(set, c) == IF "CAPSLOCK" \in set /\ c \in DOMAIN Letters THEN Letters[c] ELSE c
Make(set, k) == [shift |-> set, c |-> Cased(set, CharOf(IF "CTL" \in set THEN ctlmap ELSE IF "SHIFT" \in set THEN shiftmap ELSE normalmap, k))]
Escaped(set, k) == IF "E0ESC" \in set THEN IF k < 128 THEN k + 128 ELSE k ELSE k
kbdgetc(shift, k) ==
    IF k = E0 THEN [shift |-> shift \cup {"E0ESC"}, c |-> NUL]
    ELSE IF k >= 128 THEN [shift |-> shift \ (Of(shiftcode, IF "E0ESC" \in shift THEN k ELSE k - 128) \cup {"E0ESC"}), c |-> NUL]
    ELSE LET code == Escaped(shift, k)
             down == (shift \ {"E0ESC"}) \cup Of(shiftcode, code)
         IN Make(Toggle(down, Of(togglecode, code)), code)

-----------------------------------------------------------------------------
(* cgaputc: one character on the screen.                                                           *)

Scrolled(T) ==
    IF T.pos \div COLS < ROWS THEN T
    ELSE [T EXCEPT !.pos = @ - COLS,
                   !.crt = [i \in DOMAIN @ |-> IF i >= T.pos - COLS THEN " " ELSE IF i < (ROWS - 1) * COLS THEN @[i + COLS] ELSE @[i]]]
Moves(T, c) ==
    CASE c = NL -> [T EXCEPT !.pos = @ + COLS - (@ % COLS)]
      [] c \in {"BACKSPACE", "KEY_LF"} -> [T EXCEPT !.pos = IF @ > 0 THEN @ - 1 ELSE @]
      [] c = "KEY_RT" -> [T EXCEPT !.pos = @ + 1]
      [] OTHER -> [T EXCEPT !.crt[T.pos] = c, !.pos = @ + 1]
Blanked(T, c) == IF c \in {"KEY_LF", "KEY_RT"} THEN T ELSE [T EXCEPT !.crt[T.pos] = " "]
consputc(T, c) == Blanked(Scrolled(Moves(T, c)), c)

\* The characters of the buffer, and steps to the left, while i is below end.
Turns(i, end) == [j \in 1..(IF i < end THEN end - i ELSE 0) |-> i + j - 1]
Echo(T, i, end) == FoldLeft(LAMBDA t, j : consputc(t, t.buf[j % INPUT_BUF]), T, Turns(i, end))
\* Mutant: one step less.
GoLeftShort(T, i, end) == FoldLeft(LAMBDA t, j : consputc(t, "KEY_LF"), T, Turns(i + 1, end))
GoLeft(T, i, end) == FoldLeft(LAMBDA t, j : consputc(t, "KEY_LF"), T, Turns(i, end))

-----------------------------------------------------------------------------
(* consoleintr: one character typed.                                                               *)

shiftRightBuf(T, e, k) ==
    [T EXCEPT !.buf = FoldLeft(LAMBDA b, j : [b EXCEPT ![Index(Sub(e, j - 1))] = b[Index(Sub(e, j))]], @, [j \in 1..k |-> j])]
\* Mutant: one cell less.
shiftLeftBufShort(T, e, k) ==
    [T EXCEPT !.buf = [FoldLeft(LAMBDA b, j : [b EXCEPT ![Index(Add(Sub(e, k), j))] = b[Index(Add(Sub(e, k), j + 1))]], @, [j \in 1..(k - 1) |-> j]) EXCEPT ![e] = " "]]
shiftLeftBuf(T, e, k) ==
    [T EXCEPT !.buf = [FoldLeft(LAMBDA b, j : [b EXCEPT ![Index(Add(Sub(e, k), j - 1))] = b[Index(Add(Sub(e, k), j))]], @, [j \in 1..k |-> j]) EXCEPT ![e] = " "]]

\* ^U: back to the beginning of the line.
KillLine(T) ==
    FoldLeft(LAMBDA t, j : IF t.e = t.w \/ t.buf[Sub(t.e, 1) % INPUT_BUF] = NL THEN t
                           ELSE consputc([t EXCEPT !.e = Sub(@, 1)], "BACKSPACE"),
             T, [j \in 1..INPUT_BUF |-> j])

\* The character to the left of the cursor goes, on the screen and in the buffer.
RubbedOut(T) ==
    IF T.a > 0
    THEN GoLeft(Echo(consputc(shiftLeftBuf(T, Sub(T.e, 1) % INPUT_BUF, T.a), "KEY_LF"), Sub(Sub(T.e, T.a), 1), T.e), Sub(T.e, T.a), Add(T.e, 1))
    ELSE consputc(T, "BACKSPACE")
Backspace(T) == IF T.e = T.w THEN T ELSE [RubbedOut(T) EXCEPT !.e = Sub(@, 1)]

KeyLeft(T) == IF Sub(T.e, T.a) > T.w THEN [consputc(T, "KEY_LF") EXCEPT !.a = @ + 1] ELSE T
KeyRight(T) == IF T.a > 0 /\ T.e % INPUT_BUF < INPUT_BUF - 1 THEN [consputc(T, "KEY_RT") EXCEPT !.a = @ - 1] ELSE T

\* A character before the cursor, or at the end.
Inserted(T, c, k) ==
    GoLeft(Echo([shiftRightBuf(T, T.e % INPUT_BUF, k) EXCEPT !.buf[Sub(T.e, k) % INPUT_BUF] = c], Sub(T.e, k), Add(T.e, 1)), Sub(T.e, k), T.e)
Appended(T, c) == consputc([T EXCEPT !.buf[T.e % INPUT_BUF] = c], c)
\* Mutant: ^D wakes nobody.
SentQuiet(T, c) == IF c \in {NL, "^D"} \/ T.e = Add(T.r, INPUT_BUF) THEN [T EXCEPT !.w = T.e, !.a = 0, !.wakeup = c # "^D"] ELSE T
Sent(T, c) == IF c \in {NL, "^D"} \/ T.e = Add(T.r, INPUT_BUF) THEN [T EXCEPT !.w = T.e, !.a = 0, !.wakeup = TRUE] ELSE T
Typed(T, c) ==
    IF c = NUL \/ Sub(T.e, T.r) >= INPUT_BUF THEN T
    ELSE Sent([(IF c # NL /\ T.a > 0 THEN Inserted(T, c, T.a) ELSE Appended(T, c)) EXCEPT !.e = Add(@, 1)], c)

Handled(T, c) ==
    CASE c = "^U" -> KillLine(T)
      [] c = "^H" -> Backspace(T)
      [] c = "KEY_LF" -> KeyLeft(T)
      [] c = "KEY_RT" -> KeyRight(T)
      [] OTHER -> Typed(T, IF c = "\r" THEN NL ELSE c)

\* Keys after which the line is no longer what the user has in mind: ^U leaves input.a as it was; a
\* backspace at the beginning of the line shifts the end of the line before it; a line that goes
\* around the end of the buffer is shifted over its lock; KEY_RT stops at the end of the buffer; ^D
\* lands in the middle of the line.
Strays(T, c) ==
    /\ T.a > 0
    /\ \/ c \in {"^U", "^D"}
       \/ c = "^H" /\ (T.a = Sub(T.e, T.w) \/ Sub(T.e, 1) % INPUT_BUF < T.a)
       \/ c = "KEY_RT" /\ T.e % INPUT_BUF = INPUT_BUF - 1
       \/ c \notin {"^U", "^D", "^H", "KEY_LF", "KEY_RT", NUL, NL, "\r"} /\ T.e % INPUT_BUF < T.a /\ Sub(T.e, T.r) < INPUT_BUF

consoleintr(T, c) == [Handled(T, c) EXCEPT !.strayed = @ \/ Strays(T, c)]

\* The bytes of one keystroke, in the loop of one interrupt.
Interrupt(T, bytes) ==
    FoldLeft(LAMBDA t, k : LET got == kbdgetc(t.shift, k) IN consoleintr([t EXCEPT !.shift = got.shift], got.c), T, bytes)
=============================================================================
