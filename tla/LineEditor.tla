----------------------------- MODULE LineEditor -----------------------------
(***************************************************************************)
(* What a terminal promises: a line with a cursor, which is edited until   *)
(* it is sent; lines that are read in the order in which they were sent,   *)
(* no more than one at a time, every character once; and ^D at the         *)
(* beginning of a line, which one reader sees as the end of its input.     *)
(***************************************************************************)
EXTENDS Integers, Sequences

CONSTANTS Readers,   \* the processes that read
          Chars,     \* what can be typed
          NL, EOF,   \* those that send a line
          CAP        \* how many characters there may be that nobody has read

VARIABLES before, after,  \* the line, on either side of the cursor
          sent,           \* what has not been read
          got,            \* what each reader has got in its present read
          lost            \* the terminal makes no promise any more

vars == <<before, after, sent, got, lost>>

Room == Len(sent) + Len(before) + Len(after) < CAP
Line == before \o after

\* A character at the cursor (a newline at the end); it sends the line if it must.
Type(c) ==
    /\ Room
    /\ LET b == IF c = NL THEN Line ELSE before
           f == IF c = NL THEN <<>> ELSE after
           full == Len(sent) + Len(Line) + 1 = CAP
       IN IF c \in {NL, EOF} \/ full
          THEN sent' = sent \o Append(b, c) \o f /\ before' = <<>> /\ after' = <<>>
          ELSE before' = Append(b, c) /\ after' = f /\ UNCHANGED sent
    /\ UNCHANGED <<got, lost>>
RubOut == before # <<>> /\ before' = SubSeq(before, 1, Len(before) - 1) /\ UNCHANGED <<after, sent, got, lost>>
Kill == before' = <<>> /\ after' = <<>> /\ UNCHANGED <<sent, got, lost>>
Left ==
    /\ before # <<>>
    /\ before' = SubSeq(before, 1, Len(before) - 1) /\ after' = <<before[Len(before)]>> \o after
    /\ UNCHANGED <<sent, got, lost>>
Right == after # <<>> /\ before' = Append(before, after[1]) /\ after' = Tail(after) /\ UNCHANGED <<sent, got, lost>>

Call(p) == got' = [got EXCEPT ![p] = <<>>] /\ UNCHANGED <<before, after, sent, lost>>
\* Characters of one line; the end of file is taken by a reader that has got nothing.
Take(p) ==
    /\ \E k \in 1..Len(sent) :
          /\ \A i \in 1..k : sent[i] # EOF /\ (sent[i] = NL => i = k)
          /\ sent' = SubSeq(sent, k + 1, Len(sent))
          /\ got' = [got EXCEPT ![p] = @ \o SubSeq(sent, 1, k)]
    /\ (got[p] # <<>> => got[p][Len(got[p])] # NL)
    /\ UNCHANGED <<before, after, lost>>
End(p) == sent # <<>> /\ sent[1] = EOF /\ got[p] = <<>> /\ sent' = Tail(sent) /\ UNCHANGED <<before, after, got, lost>>

GiveUp == lost' /\ before' = <<>> /\ after' = <<>> /\ sent' = <<>> /\ got' = [p \in Readers |-> <<>>]

Init == before = <<>> /\ after = <<>> /\ sent \in Seq(STRING) /\ got = [p \in Readers |-> <<>>] /\ lost = FALSE
Next == (\E c \in Chars : Type(c)) \/ RubOut \/ Kill \/ Left \/ Right \/ (\E p \in Readers : Call(p) \/ Take(p) \/ End(p)) \/ GiveUp
Spec == Init /\ [][~lost /\ Next]_vars
=============================================================================
