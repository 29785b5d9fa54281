-------------------------------- MODULE Shell --------------------------------
(***************************************************************************)
(* The shell (sh.c): how it cuts a line into tokens, parses it and runs    *)
(* it, as operators on sequences of characters.  A tree is a record; the   *)
(* errors on which the parser calls panic are the tree Panic.  The literal *)
(* prefixes "cd " and "export PATH " are one character each.               *)
(***************************************************************************)
EXTENDS Integers, Sequences, FiniteSets, SequencesExt

CONSTANTS MAXARGS,   \* 10 in the code
          Readable   \* the names that can be opened for reading, and programs that exist

Whitespace == {" ", "\t", "\r", "\n"}
Symbols == {"<", "|", ">", "&", ";", "(", ")"}
CD == "cd "
EXPORT == "export PATH "

FirstOf(S) == CHOOSE i \in S : \A j \in S : i <= j
At(s, i) == IF i <= Len(s) THEN s[i] ELSE ""
\* The first position from i on that is in set, or not.
From(s, i, Test(_)) == CHOOSE k \in i..(Len(s) + 1) : (k > Len(s) \/ Test(s[k])) /\ \A j \in i..(k - 1) : ~Test(s[j])
Skip(s, i) == From(s, i, LAMBDA c : c \notin Whitespace)
peek(s, i, toks) == At(s, Skip(s, i)) \in toks

\* gettoken: its kind, its text and where that is, and where the next one begins.
Token(s, i, k) == [tok |-> IF At(s, i) \in Symbols \cup {""} THEN IF k = i + 2 THEN "+" ELSE At(s, i) ELSE "a",
                   text |-> SubSeq(s, i, k - 1), at |-> <<i, k>>, next |-> Skip(s, k)]
Ends(s, i) ==
    CASE At(s, i) = "" -> i
      [] At(s, i) = ">" /\ At(s, i + 1) = ">" -> i + 2
      [] At(s, i) \in Symbols -> i + 1
      [] OTHER -> From(s, i, LAMBDA c : c \in Whitespace \cup Symbols)
gettoken(s, i) == Token(s, Skip(s, i), Ends(s, Skip(s, i)))

-----------------------------------------------------------------------------
(* The parser: <<tree, position>>.                                                                 *)

Panic == [type |-> "panic"]
Fails(r) == r[2] = 0
execcmd(argv) == [type |-> "EXEC", argv |-> argv]
redircmd(cmd, file, tok) == [type |-> "REDIR", cmd |-> cmd, file |-> file, fd |-> IF tok = "<" THEN 0 ELSE 1]
pipecmd(left, right) == [type |-> "PIPE", left |-> left, right |-> right]
listcmd(left, right) == [type |-> "LIST", left |-> left, right |-> right]
backcmd(cmd) == [type |-> "BACK", cmd |-> cmd]

RECURSIVE parseline(_, _), parsepipe(_, _), parseexec(_, _, _, _), Redirections(_, _, _)

\* parseredirs: a list of <<token, file>>, or Panic, and the position.
Redirection(s, redirs, tok, name) ==
    IF name.tok # "a" THEN <<Panic, 0>> ELSE Redirections(s, Append(redirs, <<tok, name.at>>), name.next)
Redirections(s, redirs, i) ==
    IF ~peek(s, i, {"<", ">"}) THEN <<redirs, Skip(s, i)>>
    ELSE Redirection(s, redirs, gettoken(s, i).tok, gettoken(s, gettoken(s, i).next))
Redirected(cmd, redirs) == FoldLeft(LAMBDA c, r : redircmd(c, r[2], r[1]), cmd, redirs)
parseredirs(cmd, r) == IF Fails(r) THEN r ELSE <<Redirected(cmd, r[1]), r[2]>>

parseblock(s, r) ==
    IF Fails(r) \/ ~peek(s, r[2], {")"}) THEN <<Panic, 0>>
    ELSE parseredirs(r[1], Redirections(s, <<>>, gettoken(s, r[2]).next))

\* A simple command with the words and the redirections it has so far.
Word(s, argv, redirs, t) ==
    IF t.tok = "" THEN <<Redirected(execcmd(argv), redirs), t.next>>
    ELSE IF t.tok # "a" \/ Len(argv) + 1 >= MAXARGS THEN <<Panic, 0>>
    ELSE LET r == Redirections(s, redirs, t.next) IN IF Fails(r) THEN r ELSE parseexec(s, r[2], Append(argv, t.at), r[1])
parseexec(s, i, argv, redirs) ==
    IF peek(s, i, {"|", ")", "&", ";"}) THEN <<Redirected(execcmd(argv), redirs), Skip(s, i)>>
    ELSE Word(s, argv, redirs, gettoken(s, i))
Command(s, i) ==
    IF peek(s, i, {"("}) THEN parseblock(s, parseline(s, gettoken(s, i).next))
    ELSE LET r == Redirections(s, <<>>, i) IN IF Fails(r) THEN r ELSE parseexec(s, r[2], <<>>, r[1])

Both(l, r, cmd(_, _)) == IF Fails(r) THEN r ELSE <<cmd(l[1], r[1]), r[2]>>
PipeOf(s, l) == IF Fails(l) \/ ~peek(s, l[2], {"|"}) THEN l ELSE Both(l, parsepipe(s, gettoken(s, l[2]).next), pipecmd)
parsepipe(s, i) == PipeOf(s, Command(s, i))

RECURSIVE Backed(_, _)
Backed(s, l) == IF Fails(l) \/ ~peek(s, l[2], {"&"}) THEN l ELSE Backed(s, <<backcmd(l[1]), gettoken(s, l[2]).next>>)
ListOf(s, l) == IF Fails(l) \/ ~peek(s, l[2], {";"}) THEN l ELSE Both(l, parseline(s, gettoken(s, l[2]).next), listcmd)
\* Mutant: & after ; is not looked for.
parselineNoBack(s, i) == ListOf(s, parsepipe(s, i))
parseline(s, i) == ListOf(s, Backed(s, parsepipe(s, i)))

Whole(s, r) == IF Fails(r) \/ Skip(s, r[2]) # Len(s) + 1 THEN Panic ELSE r[1]
parsecmd(s) == Whole(s, parseline(s, 1))

\* The positions at which nulterminate cuts the line: the ends of all words.
RECURSIVE Cuts(_)
Cuts(cmd) ==
    CASE cmd.type = "EXEC" -> {cmd.argv[i][2] : i \in DOMAIN cmd.argv}
      [] cmd.type = "REDIR" -> Cuts(cmd.cmd) \cup {cmd.file[2]}
      [] cmd.type \in {"PIPE", "LIST"} -> Cuts(cmd.left) \cup Cuts(cmd.right)
      [] cmd.type = "BACK" -> Cuts(cmd.cmd)
nulterminate(s, cmd) == [i \in DOMAIN s |-> IF i \in Cuts(cmd) THEN "" ELSE s[i]]
CString(z, at) == SubSeq(z, at[1], From(z, at[1], LAMBDA c : c = "") - 1)

-----------------------------------------------------------------------------
(* runcmd: the programs that are run, in the order in which they are started where that is fixed:  *)
(* argv, where descriptors 0 and 1 lead, and whether the shell goes on without it.  A pipe is      *)
(* named by the way to its command in the tree.                                                    *)

\* exec tries the name, then the directories of PATH.
Candidates(path, name) == <<name>> \o [i \in 1..Len(path) |-> path[i] \o name]
Found(path, name) == {i \in 1..(Len(path) + 1) : Candidates(path, name)[i] \in Readable}
Started(path, argv, fds, bg) ==
    IF argv = <<>> \/ Found(path, argv[1]) = {} THEN <<>>
    ELSE <<[argv |-> [argv EXCEPT ![1] = Candidates(path, @)[FirstOf(Found(path, argv[1]))]], fds |-> fds, bg |-> bg]>>

RECURSIVE runcmd(_, _, _, _, _, _)
runcmd(path, z, cmd, fds, bg, at) ==
    CASE cmd.type = "EXEC" -> Started(path, [i \in DOMAIN cmd.argv |-> CString(z, cmd.argv[i])], fds, bg)
      [] cmd.type = "REDIR" -> IF cmd.fd = 0 /\ CString(z, cmd.file) \notin Readable THEN <<>>
                               ELSE runcmd(path, z, cmd.cmd, [fds EXCEPT ![cmd.fd + 1] = <<"file", CString(z, cmd.file)>>], bg, at)
      [] cmd.type = "LIST" -> runcmd(path, z, cmd.left, fds, bg, at \o <<1>>) \o runcmd(path, z, cmd.right, fds, bg, at \o <<2>>)
      [] cmd.type = "PIPE" -> runcmd(path, z, cmd.left, [fds EXCEPT ![2] = <<"pipe", at>>], bg, at \o <<1>>)
                              \o runcmd(path, z, cmd.right, [fds EXCEPT ![1] = <<"pipe", at>>], bg, at \o <<2>>)
      [] cmd.type = "BACK" -> runcmd(path, z, cmd.cmd, fds, TRUE, at \o <<1>>)

Inherited == <<<<"console">>, <<"console">>>>
Ran(path, s, tree) == IF tree = Panic THEN <<>> ELSE runcmd(path, nulterminate(s, tree), tree, Inherited, FALSE, <<>>)

\* export PATH: strtok finds what ends in a colon.
RECURSIVE strtok(_, _, _)
strtok(s, begin, path) ==
    LET k == From(s, begin, LAMBDA c : c = ":")
    IN IF begin > Len(s) - 1 THEN path
       ELSE strtok(s, k + 1, IF k <= Len(s) /\ k > begin THEN Append(path, SubSeq(s, begin, k - 1)) ELSE path)

\* main: a line.  The last character of a cd is dropped, whatever it is.
Line(sh, line) ==
    CASE At(line, 1) = CD -> [sh EXCEPT !.cwd = SubSeq(line, 2, Len(line) - 1)]
      [] At(line, 1) = EXPORT -> [sh EXCEPT !.path = strtok(Tail(line), 1, <<>>)]
      [] OTHER -> [sh EXCEPT !.ran = Ran(sh.path, line, parsecmd(line))]

-----------------------------------------------------------------------------
(* What a line means, said of its tokens and not by recursive descent.                             *)

RECURSIVE Tokens(_, _)
Tokens(s, i) == IF gettoken(s, i).tok = "" THEN <<>> ELSE <<gettoken(s, i)>> \o Tokens(s, gettoken(s, i).next)
Kinds(ts) == [i \in DOMAIN ts |-> ts[i].tok]
Redirs == {"<", ">", "+"}

\* The grammar.
Words(ks) == \A i \in DOMAIN ks : /\ ks[i] \in Redirs \cup {"a"}
                                  /\ ks[i] \in Redirs => i < Len(ks) /\ ks[i + 1] = "a"
Argument(ks, i) == ks[i] = "a" /\ (i = 1 \/ ks[i - 1] \notin Redirs)
Simple(ks) == Words(ks) /\ Cardinality({i \in DOMAIN ks : Argument(ks, i)}) < MAXARGS
RECURSIVE IsLine(_), IsPipe(_)
IsCommand(ks) ==
    \/ Simple(ks)
    \/ /\ ks # <<>> /\ ks[1] = "("
       /\ \E j \in 2..Len(ks) :
             LET rest == SubSeq(ks, j + 1, Len(ks))
             IN ks[j] = ")" /\ IsLine(SubSeq(ks, 2, j - 1)) /\ Words(rest) /\ \A i \in DOMAIN rest : ~Argument(rest, i)
IsPipe(ks) == IsCommand(ks) \/ \E i \in DOMAIN ks : ks[i] = "|" /\ IsCommand(SubSeq(ks, 1, i - 1)) /\ IsPipe(SubSeq(ks, i + 1, Len(ks)))
IsLine(ks) ==
    \E i \in 0..Len(ks) : \E j \in i..Len(ks) :
        /\ IsPipe(SubSeq(ks, 1, i))
        /\ \A k \in (i + 1)..j : ks[k] = "&"
        /\ j < Len(ks) => ks[j + 1] = ";" /\ IsLine(SubSeq(ks, j + 2, Len(ks)))

\* Of a line without parentheses: the command around token i is between separators; the first
\* redirection of a descriptor counts, and one that cannot be opened anywhere in the command stops it.
Between(ks, i) == {j \in DOMAIN ks : \A k \in DOMAIN ks : ((i <= k /\ k <= j) \/ (j <= k /\ k <= i)) => ks[k] \notin {"|", ";", "&"}}
LastOf(S) == CHOOSE i \in S : \A j \in S : j <= i
Piped(ks, k) == k \in DOMAIN ks /\ ks[k] = "|"
Says(ts, ks, i) ==
    LET own == Between(ks, i)
        To(signs) == {j \in own : ks[j] \in signs}
        Into(signs, dflt) == IF To(signs) = {} THEN dflt ELSE <<"file", ts[FirstOf(To(signs)) + 1].text>>
        next == {k \in DOMAIN ks : k > LastOf(own) /\ ks[k] # "|" /\ ks[k] \in {";", "&"}}
    IN [argv |-> [n \in 1..Cardinality({j \in own : Argument(ks, j)}) |->
                    ts[CHOOSE j \in own : Argument(ks, j) /\ Cardinality({k \in own : k <= j /\ Argument(ks, k)}) = n].text],
        fds |-> <<Into({"<"}, IF Piped(ks, FirstOf(own) - 1) THEN <<"pipe", FirstOf(own) - 1>> ELSE <<"console">>),
                  Into({">", "+"}, IF Piped(ks, LastOf(own) + 1) THEN <<"pipe", LastOf(own) + 1>> ELSE <<"console">>)>>,
        bg |-> next # {} /\ ks[FirstOf(next)] = "&"]
Runs(path, ts, ks, i) ==
    /\ ks[i] = "a" /\ Argument(ks, i) /\ \A j \in Between(ks, i) : j < i => ~Argument(ks, j)
    /\ Found(path, ts[i].text) # {}
    /\ \A j \in Between(ks, i) : ks[j] = "<" => ts[j + 1].text \in Readable
Meaning(path, ts) ==
    LET ks == Kinds(ts)
        starts == {i \in DOMAIN ks : Runs(path, ts, ks, i)}
    IN IF ~IsLine(ks) THEN <<>>
       ELSE [n \in 1..Cardinality(starts) |-> Says(ts, ks, CHOOSE i \in starts : Cardinality({k \in starts : k <= i}) = n)]

\* The same programs with the same arguments, descriptors and pipes between them.
Same(path, x, y) ==
    /\ Len(x) = Len(y)
    /\ \A m \in DOMAIN x :
          /\ Tail(x[m].argv) = Tail(y[m].argv) /\ x[m].bg = y[m].bg
          /\ x[m].argv[1] = Candidates(path, y[m].argv[1])[FirstOf(Found(path, y[m].argv[1]))]
          /\ \A d \in {1, 2} : x[m].fds[d][1] = y[m].fds[d][1] /\ (y[m].fds[d][1] = "file" => x[m].fds[d] = y[m].fds[d])
          /\ \A n \in DOMAIN x : (x[m].fds[2] = x[n].fds[1]) <=> (y[m].fds[2] = y[n].fds[1])
=============================================================================
