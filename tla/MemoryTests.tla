----------------------------- MODULE MemoryTests -----------------------------
(***************************************************************************)
(* The tests of usertests.c that are about memory and processes, as        *)
(* sequences of calls with the outcome each insists on (see UserTests).    *)
(* PAGE stands for 4096 bytes and BIG for 100 MB; addresses are counted    *)
(* back from the end of memory.  Memory may run out in any of them.        *)
(***************************************************************************)
EXTENDS Integers, Sequences, SequencesExt

LOCAL Times(n, c) == [k \in 1..n |-> c]
LOCAL Loop(n, Body) == FlattenSeq([k \in 1..n |-> Body])

PAGE == 4
BIG == 20

Fork(child, want) == [call |-> "fork", child |-> child, want |-> want]
Wait(want) == [call |-> "wait", want |-> want]
Sbrk(n, want) == [call |-> "sbrk", n |-> n, want |-> want]
SbrkTo(size, want) == [call |-> "sbrk", to |-> size, want |-> want]
Exec(pages, fits, want) == [call |-> "exec", pages |-> pages, fits |-> fits, want |-> want]
Store(back, v) == [call |-> "store", at |-> "end", back |-> back, v |-> v, want |-> "ok"]
Load(back, v) == [call |-> "load", at |-> "end", back |-> back, v |-> v, want |-> "ok"]
LoadKernel == [call |-> "load", at |-> "kernel", v |-> <<0, "">>, want |-> "fail"]
Passes(call, page) == [call |-> call, at |-> "page", page |-> page, want |-> "any"]
Sit == [call |-> "sit", want |-> "any"]
Await == [call |-> "await", want |-> "ok"]
Kill == [call |-> "kill", want |-> "ok"]
Data(v) == <<v, "data">>
Zero == <<0, "">>

\* fork until it fails, then wait for every child and for one more.
forktest == Loop(4, <<Fork(<<>>, "any")>>) \o Times(3, Wait("any")) \o <<Wait("fail")>>

exitwait == Loop(3, <<Fork(<<>>, "ok"), Wait("ok")>>)

preempt == <<Fork(<<Sit>>, "any"), Fork(<<Sit>>, "any"), Await, Kill, Wait("any"), Wait("any")>>

\* Grow a byte at a time, in parent and child; grow to something big; shrink and grow again.
sbrktest1 ==
    Loop(5, <<Sbrk(1, "ok"), Store(1, 1)>>)
    \o <<Fork(<<Sbrk(1, "ok"), Sbrk(1, "ok"), Load(3, Data(1)), Store(3, 2)>>, "ok"),
         Sbrk(1, "ok"), Sbrk(1, "ok"), Load(3, Data(1)), Wait("ok"), Load(3, Data(1)),
         SbrkTo(BIG, "ok"), Store(1, 99), Sbrk(-PAGE, "ok"), Sbrk(PAGE, "ok"), Load(1, Zero), SbrkTo(PAGE, "ok")>>
\* The kernel's memory cannot be read; a growth that fails gives back what it has taken.
sbrktest2 ==
    <<Fork(<<LoadKernel>>, "ok"), Wait("ok")>>
    \o Loop(2, <<Fork(<<SbrkTo(BIG \div 2, "any"), Sit>>, "any")>>) \o <<Await, Sbrk(PAGE, "any"), Kill, Wait("any"), Wait("any"), SbrkTo(PAGE, "any")>>

\* malloc until memory runs out, in a child, and then once more from what was freed.
mem == <<Fork(Loop(6, <<Sbrk(PAGE + 1, "any")>>), "ok"), Wait("ok")>>

\* A program that grows with malloc while its child runs another, and forks again.
grow == <<Fork(<<Exec(1, TRUE, "any")>>, "any"), Sbrk(4 * PAGE, "any"), Wait("any"), Fork(<<>>, "any"), Wait("any"), Store(1, 3), Load(1, Data(3))>>

exectest == <<Exec(3, TRUE, "ok")>>
\* A new image starts with zeroes, and one whose arguments do not fit leaves the old one.
bsstest == <<Exec(2, TRUE, "ok"), Load(2, Zero)>>
bigargtest == <<Sbrk(2, "ok"), Store(1, 7), Fork(<<Exec(2, FALSE, "fail"), Load(1, Data(7)), Exec(1, TRUE, "ok")>>, "ok"), Wait("ok"), Load(1, Data(7))>>

\* Every page is passed as the place of an int, by a child that may be killed over it, and of a name.
validatetest == FlattenSeq([v \in 1..6 |-> <<Fork(<<Passes("int", v - 1)>>, "any"), Kill, Wait("any"), Passes("string", v - 1)>>])
=============================================================================
