----------------------------- MODULE MCTerminal -----------------------------
(***************************************************************************)
(* Terminal: five or six keys at every position of the buffer and of the   *)
(* screen, with two readers; and all short lines for sh, grep and wc.      *)
(***************************************************************************)
EXTENDS Terminal

CONSTANT Events

Press(k) == <<k, k + 128>>
Ctl(k) == <<29, k, k + 128, 157>>
Arrow(k) == <<E0, k, E0, k + 128>>
StrokesDef == {Press(30), <<42, 30, 170, 158>>, Press(14), Press(28), Arrow(75), Arrow(77), Ctl(22), Ctl(32)}

Start(typed, from, pos, n, p1, p2) == [typed |-> typed, from |-> from, pos |-> pos, left |-> n, progs |-> (1 :> p1) @@ (2 :> p2)]
None == <<"", <<>>>>
Editing ==
    {Start(<<>>, 0, 0, Events, <<"sh", <<>>>>, None), Start(<<>>, 5, 9, Events, <<"cat", <<>>>>, None)}
    \cup {Start(<<"a", "a", "a", NL>>, 2, 4, Events - 1, <<"wc", <<>>>>, <<"cat", <<>>>>)}

Up(n, S) == UNION {[1..k -> S] : k \in 1..n}
ShellLines == Up(4, {"a", "b", " ", "|", ";", "&", "<", ">", "(", ")"})
              \cup {<<"a", ">", "a", ">", "b">>, <<"a", "<", "a", "|", "a">>, <<"(", "a", ";", "a", ")", "&">>, <<"a", "|", "a", "|", "a", "&">>,
                    <<"a", ";", "a", "&", ";", "a">>, <<"a", " ", "a", " ", "a", " ">>, <<"(", "a", ")", ">", "a", "a">>,
                    <<Sh!CD, "a">>, <<Sh!EXPORT, "a", ":", "b", ":">>, <<Sh!EXPORT, "a", ":", ":", "b">>}
Shells == {Start(Append(l, NL), 0, 0, 0, <<"sh", p>>, None) : l \in ShellLines, p \in {<<>>, <<<<"c">>, <<"d">>>>}}
Texts == Up(3, {"a", "b"}) \cup {<<>>}
Filters == {Start(Append(l, NL), 3, 0, 0, <<"grep", re>>, None) : l \in Texts, re \in Up(3, {"a", ".", "*", "^", "$"})}
           \cup {Start(Append(l, NL) \o Append(m, NL), 6, 0, 0, <<name, re>>, None) :
                    l \in Up(2, {"a", "b", " "}), m \in Up(3, {"a", "b", " "}), name \in {"grep", "wc"}, re \in {<<"a", "*", "$">>}}
StartsDef == Editing \cup Shells \cup Filters
ReadableDef == {<<"a">>, <<"d", "b">>}
=============================================================================
