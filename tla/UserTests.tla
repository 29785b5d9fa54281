----------------------------- MODULE UserTests -----------------------------
(***************************************************************************)
(* The file system tests of usertests.c, init and the small user programs, *)
(* as sequences of calls with the outcome each test insists on: "ok",      *)
(* "fail" or "any", and what is read.  A loop is unrolled, its counts      *)
(* scaled to files of a few blocks of a few cells; a fork carries the      *)
(* child's calls.  What the programs print is left out.                    *)
(***************************************************************************)
EXTENDS Integers, Sequences, SequencesExt, TLC

LOCAL Chars(s) == [k \in DOMAIN s |-> <<1, s[k]>>]
LOCAL Rel(names) == [abs |-> FALSE, names |-> names]
LOCAL Abs(names) == [abs |-> TRUE, names |-> names]
LOCAL Loop(n, Body(_)) == FlattenSeq([k \in 1..n |-> Body(k - 1)])
LOCAL Times(n, c) == [k \in 1..n |-> c]

Open(path, mode, v, want) == [call |-> "open", create |-> FALSE, path |-> path, mode |-> mode, v |-> v, want |-> want]
Creat(path, mode, v, want) == [Open(path, mode, v, want) EXCEPT !.create = TRUE]
Close(v) == [call |-> "close", v |-> v, want |-> "any"]
Write(v, data, want) == [call |-> "write", v |-> v, data |-> Chars(data), want |-> want]
Read(v, n, data) == [call |-> "read", v |-> v, n |-> n, data |-> {Chars(data)}, want |-> "ok"]
ReadAll(v, n, datas) == [call |-> "readall", v |-> v, n |-> n, data |-> {Chars(d) : d \in datas}, want |-> "ok"]
List(v, names) == [call |-> "list", v |-> v, n |-> 1, data |-> names, want |-> "ok"]
On(call, path, want) == [call |-> call, path |-> path, want |-> want]
Link(old, new, want) == [call |-> "link", path |-> old, new |-> new, want |-> want]
Unlink(path, want) == On("unlink", path, want)
Mkdir(path, want) == On("mkdir", path, want)
Chdir(path, want) == On("chdir", path, want)
Exec(path, fits, want) == [call |-> "exec", path |-> path, fits |-> fits, want |-> want]
Fork(child) == [call |-> "fork", child |-> child, want |-> "ok"]
Wait == [call |-> "wait", want |-> "ok"]
OneOf(calls) == [call |-> "oneof", calls |-> calls, want |-> "any"]
Stat(v, nlink, type, n) == [call |-> "fstat", v |-> v, data |-> {<<<<nlink, type>>, <<n, "">>>>}, want |-> "ok"]

BLOCK == 4   \* cells of a block: 512 bytes
MAXBLOCKS == 12

opentest == <<Open(Rel(<<"echo">>), "O_RDONLY", "fd", "ok"), Close("fd"),
              Open(Rel(<<"doesnotexist">>), "O_RDONLY", "fd", "fail")>>

writetest ==
    LET small == Rel(<<"small">>)
    IN <<Creat(small, "O_RDWR", "fd", "ok")>>
       \o Loop(3, LAMBDA i : <<Write("fd", Times(2, "a"), "ok"), Write("fd", Times(2, "b"), "ok")>>)
       \o <<Close("fd"), Open(small, "O_RDONLY", "fd", "ok"),
            Read("fd", 12, <<"a", "a", "b", "b", "a", "a", "b", "b", "a", "a", "b", "b">>),
            Close("fd"), Unlink(small, "ok")>>

\* As many blocks as a file can have.
writetest1 ==
    LET big == Rel(<<"big">>)
    IN <<Creat(big, "O_RDWR", "fd", "ok")>>
       \o Loop(MAXBLOCKS, LAMBDA i : <<Write("fd", Times(BLOCK, ToString(i)), "ok")>>)
       \o <<Close("fd"), Open(big, "O_RDONLY", "fd", "ok")>>
       \o Loop(MAXBLOCKS, LAMBDA i : <<Read("fd", BLOCK, Times(BLOCK, ToString(i)))>>)
       \o <<Read("fd", BLOCK, <<>>), Close("fd"), Unlink(big, "ok")>>

createtest ==
    LET file(i) == Rel(<<"a" \o ToString(i)>>)
    IN Loop(4, LAMBDA i : <<Creat(file(i), "O_RDWR", "fd", "any"), Close("fd")>>)
       \o Loop(4, LAMBDA i : <<Unlink(file(i), "any")>>)

dirtest == <<Mkdir(Rel(<<"dir0">>), "ok"), Chdir(Rel(<<"dir0">>), "ok"), Chdir(Rel(<<"..">>), "ok"),
             Unlink(Rel(<<"dir0">>), "ok")>>

exectest == <<Exec(Rel(<<"echo">>), TRUE, "ok")>>

\* A pipe that is shorter than what goes through it; the reader asks for more each time.
pipe1 ==
    <<[call |-> "pipe", want |-> "ok"],
      Fork(<<Close("fd"), Write("fd1", <<"0", "1", "2">>, "ok"), Write("fd1", <<"3", "4", "5">>, "ok")>>),
      Close("fd1"), ReadAll("fd", 2, {<<"0", "1", "2", "3", "4", "5">>}), Close("fd"), Wait>>

\* Two processes write to the same descriptor: the offset is shared.
sharedfd ==
    LET shared == Rel(<<"sharedfd">>)
        c == <<"c", "c">>
        p == <<"p", "p">>
    IN <<Unlink(shared, "any"), Creat(shared, "O_RDWR", "fd", "ok"),
         Fork(<<Write("fd", c, "ok"), Write("fd", c, "ok")>>), Write("fd", p, "ok"), Write("fd", p, "ok"), Wait,
         Close("fd"), Open(shared, "O_RDONLY", "fd", "ok"),
         ReadAll("fd", 3, {c \o c \o p \o p, c \o p \o c \o p, c \o p \o p \o c, p \o c \o c \o p, p \o c \o p \o c, p \o p \o c \o c}),
         Close("fd"), Unlink(shared, "any")>>

\* Two processes write two files: block allocation.
twofiles ==
    LET f1 == Rel(<<"f1">>)
        f2 == Rel(<<"f2">>)
        Fill(f, ch) == <<Creat(f, "O_RDWR", "fd", "ok"), Write("fd", Times(3, ch), "ok"), Write("fd", Times(3, ch), "ok"), Close("fd")>>
        Check(f, ch) == <<Open(f, "O_RDONLY", "fd", "ok"), ReadAll("fd", 6, {Times(6, ch)}), Close("fd")>>
    IN <<Unlink(f1, "any"), Unlink(f2, "any"), Fork(Fill(f2, "c"))>> \o Fill(f1, "p") \o <<Wait>>
       \o Check(f2, "c") \o Check(f1, "p") \o <<Unlink(f1, "any"), Unlink(f2, "any")>>

\* Two processes create and delete different files in the same directory.
createdelete ==
    LET N == 3
        file(c, i) == Rel(<<c \o ToString(i)>>)
        Work(c) == Loop(N, LAMBDA i : <<Creat(file(c, i), "O_RDWR", "fd", "ok"), Close("fd")>>
                                        \o IF i > 0 /\ i % 2 = 0 THEN <<Unlink(file(c, i \div 2), "ok")>> ELSE <<>>)
        There(i) == IF i = 0 \/ i >= N - 1 THEN "ok" ELSE "fail"
        Check(c, i) == <<Open(file(c, i), "O_RDONLY", "fd", There(i)), Close("fd")>>
    IN <<Fork(Work("c"))>> \o Work("p") \o <<Wait>>
       \o Loop(N, LAMBDA i : Check("p", i) \o Check("c", i))
       \o Loop(N, LAMBDA i : <<Unlink(file("p", i), "any"), Unlink(file("c", i), "any")>>)

\* Unlink a file and still read it.
unlinkread ==
    LET f == Rel(<<"unlinkread">>)
        hello == <<"h", "e", "l", "l", "o">>
    IN <<Creat(f, "O_RDWR", "fd", "ok"), Write("fd", hello, "any"), Close("fd"), Open(f, "O_RDWR", "fd", "ok"),
         Unlink(f, "ok"), Creat(f, "O_RDWR", "fd1", "any"), Write("fd1", <<"y", "y", "y">>, "any"), Close("fd1"),
         Read("fd", 8, hello), Write("fd", hello, "ok"), Close("fd"), Unlink(f, "any")>>

linktest ==
    LET lf1 == Rel(<<"lf1">>)
        lf2 == Rel(<<"lf2">>)
        hello == <<"h", "e", "l", "l", "o">>
    IN <<Unlink(lf1, "any"), Unlink(lf2, "any"), Creat(lf1, "O_RDWR", "fd", "ok"), Write("fd", hello, "ok"), Close("fd"),
         Link(lf1, lf2, "ok"), Unlink(lf1, "any"), Open(lf1, "O_RDONLY", "fd", "fail"),
         Open(lf2, "O_RDONLY", "fd", "ok"), Read("fd", 8, hello), Close("fd"), Link(lf2, lf2, "fail"),
         Unlink(lf2, "any"), Link(lf2, lf1, "fail"), Link(Rel(<<".">>), lf1, "fail")>>

\* Two processes at a time create, link and unlink files of one directory.
concreate ==
    LET N == 5
        name(i) == "C" \o ToString(i)
        file(i) == Rel(<<name(i)>>)
        Make(i, links) == IF links THEN <<Link(file(0), file(i), "any")>>
                          ELSE <<Creat(file(i), "O_RDWR", "fd", "ok"), Close("fd")>>
        Use(i, opens) == IF opens THEN Loop(2, LAMBDA k : <<Open(file(i), "O_RDONLY", "fd", "any"), Close("fd")>>)
                         ELSE Times(2, Unlink(file(i), "any"))
    IN Loop(N, LAMBDA i : <<Unlink(file(i), "any"), Fork(Make(i, i % 5 = 1))>> \o Make(i, i % 3 = 1) \o <<Wait>>)
       \o <<Open(Rel(<<".">>), "O_RDONLY", "fd", "ok"), List("fd", {name(i) : i \in 0..(N - 1)}), Close("fd")>>
       \o Loop(N, LAMBDA i : <<Fork(Use(i, i % 3 = 0))>> \o Use(i, i % 3 = 1) \o <<Wait>>)

\* Two processes open, link and unlink one name, in any order.
linkunlink ==
    LET x == Rel(<<"x">>)
        Turns == Loop(2, LAMBDA i : <<OneOf({Creat(x, "O_RDWR", "fd", "any"), Link(Rel(<<"cat">>), x, "any"), Unlink(x, "any")}),
                                      Close("fd")>>)
    IN <<Unlink(x, "any"), Fork(Turns)>> \o Turns \o <<Wait>>

\* A directory that uses its indirect block.
bigdir ==
    LET bd == Rel(<<"bd">>)
        name(i) == Rel(<<"x" \o ToString(i)>>)
        N == 29
    IN <<Unlink(bd, "any"), Creat(bd, "O_RDONLY", "fd", "ok"), Close("fd")>>
       \o Loop(N, LAMBDA i : <<Link(bd, name(i), "ok")>>) \o <<Unlink(bd, "any")>>
       \o Loop(N, LAMBDA i : <<Unlink(name(i), "ok")>>)

\* Directories in directories: what can be found, and then what must not be.
subdir1 ==
    <<Unlink(Rel(<<"ff">>), "any"), Mkdir(Rel(<<"dd">>), "ok"),
      Creat(Rel(<<"dd", "ff">>), "O_RDWR", "fd", "ok"), Write("fd", <<"f", "f">>, "any"), Close("fd"),
      Unlink(Rel(<<"dd">>), "fail"), Mkdir(Abs(<<"dd", "dd">>), "ok"),
      Creat(Rel(<<"dd", "dd", "ff">>), "O_RDWR", "fd", "ok"), Write("fd", <<"F", "F">>, "any"), Close("fd"),
      Open(Rel(<<"dd", "dd", "..", "ff">>), "O_RDONLY", "fd", "ok"), Read("fd", 8, <<"f", "f">>), Close("fd"),
      Link(Rel(<<"dd", "dd", "ff">>), Rel(<<"dd", "dd", "ffff">>), "ok"), Unlink(Rel(<<"dd", "dd", "ff">>), "ok"),
      Open(Rel(<<"dd", "dd", "ff">>), "O_RDONLY", "fd", "fail"),
      Chdir(Rel(<<"dd">>), "ok"), Chdir(Rel(<<"dd", "..", "..", "dd">>), "ok"),
      Chdir(Rel(<<"dd", "..", "..", "..", "dd">>), "ok"), Chdir(Rel(<<".", "..">>), "ok"),
      Open(Rel(<<"dd", "dd", "ffff">>), "O_RDONLY", "fd", "ok"), Read("fd", 8, <<"F", "F">>), Close("fd"),
      Open(Rel(<<"dd", "dd", "ff">>), "O_RDONLY", "fd", "fail")>>
subdir2 ==
    LET file == Rel(<<"dd", "ff", "ff">>)     \* below a file
        none == Rel(<<"dd", "xx", "ff">>)     \* below nothing
        dd == Rel(<<"dd">>)
        ffff == Rel(<<"dd", "dd", "ffff">>)
        xx == Rel(<<"dd", "dd", "xx">>)
    IN <<Creat(file, "O_RDWR", "fd", "fail"), Creat(none, "O_RDWR", "fd", "fail"), Creat(dd, "O_RDONLY", "fd", "fail"),
         Open(dd, "O_RDWR", "fd", "fail"), Open(dd, "O_WRONLY", "fd", "fail"),
         Link(file, xx, "fail"), Link(none, xx, "fail"), Link(Rel(<<"dd", "ff">>), ffff, "fail"),
         Mkdir(file, "fail"), Mkdir(none, "fail"), Mkdir(ffff, "fail"), Unlink(none, "fail"), Unlink(file, "fail"),
         Chdir(Rel(<<"dd", "ff">>), "fail"), Chdir(Rel(<<"dd", "xx">>), "fail"),
         Unlink(ffff, "ok"), Unlink(Rel(<<"dd", "ff">>), "ok"), Unlink(dd, "fail"),
         Unlink(Rel(<<"dd", "dd">>), "ok"), Unlink(dd, "ok")>>

\* Writes that are larger than the log.
bigwrite ==
    LET big == Rel(<<"bigwrite">>)
        Size(k) == 3 + 10 * k
    IN <<Unlink(big, "any")>>
       \o Loop(3, LAMBDA k : <<Creat(big, "O_RDWR", "fd", "ok")>> \o Times(2, Write("fd", Times(Size(k), "z"), "ok"))
                              \o <<Close("fd"), Unlink(big, "any")>>)

\* Writes and reads that do not begin or end with a block.
bigfile ==
    LET big == Rel(<<"bigfile">>)
        N == 7
    IN <<Unlink(big, "any"), Creat(big, "O_RDWR", "fd", "ok")>>
       \o Loop(N, LAMBDA i : <<Write("fd", Times(6, ToString(i)), "ok")>>)
       \o <<Close("fd"), Open(big, "O_RDONLY", "fd", "ok")>>
       \o Loop(2 * N, LAMBDA i : <<Read("fd", 3, Times(3, ToString(i \div 2)))>>)
       \o <<Read("fd", 3, <<>>), Close("fd"), Unlink(big, "any")>>

\* Only the first DIRSIZ characters of a name count.
fourteen ==
    LET n14 == "12345678901234"
        n15 == "123456789012345"
    IN <<Mkdir(Rel(<<n14>>), "ok"), Mkdir(Rel(<<n14, n15>>), "ok"),
         Creat(Rel(<<n15, n15, n15>>), "O_RDONLY", "fd", "ok"), Close("fd"),
         Open(Rel(<<n14, n14, n14>>), "O_RDONLY", "fd", "ok"), Close("fd"),
         Mkdir(Rel(<<n14, n14>>), "fail"), Mkdir(Rel(<<n15, n14>>), "fail")>>

rmdot ==
    <<Mkdir(Rel(<<"dots">>), "ok"), Chdir(Rel(<<"dots">>), "ok"), Unlink(Rel(<<".">>), "fail"), Unlink(Rel(<<"..">>), "fail"),
      Chdir(Abs(<<>>), "ok"), Unlink(Rel(<<"dots", ".">>), "fail"), Unlink(Rel(<<"dots", "..">>), "fail"),
      Unlink(Rel(<<"dots">>), "ok")>>

dirfile ==
    LET file == Rel(<<"dirfile">>)
        below == Rel(<<"dirfile", "xx">>)
    IN <<Creat(file, "O_RDONLY", "fd", "ok"), Close("fd"), Chdir(file, "fail"),
         Open(below, "O_RDONLY", "fd", "fail"), Creat(below, "O_RDONLY", "fd", "fail"), Mkdir(below, "fail"),
         Unlink(below, "fail"), Link(Rel(<<"README">>), below, "fail"), Unlink(file, "ok"),
         Open(Rel(<<".">>), "O_RDWR", "fd", "fail"), Open(Rel(<<".">>), "O_RDONLY", "fd", "any"),
         Write("fd", <<"x">>, "fail"), Close("fd")>>

\* More directories, one in the other, than there are in-memory inodes; the empty path names nothing.
LEVELS == 7
iref ==
    Loop(LEVELS, LAMBDA i :
        <<Mkdir(Rel(<<"irefd">>), "ok"), Chdir(Rel(<<"irefd">>), "ok"), Mkdir(Rel(<<>>), "any"),
          Link(Rel(<<"README">>), Rel(<<>>), "any"), Creat(Rel(<<>>), "O_RDONLY", "fd", "any"), Close("fd"),
          Creat(Rel(<<"xx">>), "O_RDONLY", "fd", "any"), Close("fd"), Unlink(Rel(<<"xx">>), "any")>>)
    \o <<Chdir(Abs(<<>>), "any")>>

\* exec of a program whose arguments do not fit returns, and the child goes on.
bigargtest ==
    LET ok == Rel(<<"bigarg-ok">>)
    IN <<Unlink(ok, "any"), Fork(<<Exec(Rel(<<"echo">>), FALSE, "fail"), Creat(ok, "O_RDONLY", "fd", "any"), Close("fd")>>),
         Wait, Open(ok, "O_RDONLY", "fd", "ok"), Close("fd"), Unlink(ok, "any")>>

\* What happens when the file system runs out of blocks?
fsfull ==
    Loop(8, LAMBDA i : <<Creat(Rel(<<"f" \o ToString(i)>>), "O_RDWR", "fd", "any")>>
                       \o Times(MAXBLOCKS + 1, Write("fd", Times(BLOCK, "z"), "any")) \o <<Close("fd")>>)

\* Each test after the check that they have not run before.
main ==
    LET ran == Rel(<<"usertests.ran">>)
        After(tests) == <<Open(ran, "O_RDONLY", "fd", "fail"), Creat(ran, "O_RDONLY", "fd", "any"), Close("fd")>> \o tests
    IN [bigargtest |-> After(bigargtest), bigwrite |-> After(bigwrite), opentest |-> After(opentest),
        writetest |-> After(writetest), writetest1 |-> After(writetest1), createtest |-> After(createtest),
        pipe1 |-> After(pipe1), rmdot |-> After(rmdot), fourteen |-> After(fourteen), bigfile |-> After(bigfile),
        subdir |-> After(subdir1 \o subdir2), concreate |-> After(concreate), linkunlink |-> After(linkunlink),
        linktest |-> After(linktest), unlinkread |-> After(unlinkread), createdelete |-> After(createdelete),
        twofiles |-> After(twofiles), sharedfd |-> After(sharedfd), dirfile |-> After(dirfile \o dirtest),
        iref |-> After(iref), bigdir |-> After(bigdir), exectest |-> After(exectest), fsfull |-> fsfull]

-----------------------------------------------------------------------------
(* The other programs.                                                                             *)

\* init makes the console device the first time, and has it as descriptors 0, 1 and 2.
init ==
    LET console == Rel(<<"console">>)
        dup == [call |-> "dup", v |-> "fd", want |-> "ok"]
    IN <<Open(console, "O_RDWR", "fd", "fail"), On("mknod", console, "ok"), Open(console, "O_RDWR", "fd", "ok"),
         dup, dup, Fork(<<Exec(Rel(<<"sh">>), TRUE, "fail")>>), Wait>>

\* Parent and child write and read a file each.
stressfs ==
    LET Work(path) == <<Creat(path, "O_RDWR", "fd", "ok")>> \o Times(2, Write("fd", Times(BLOCK, "a"), "ok"))
                      \o <<Close("fd"), Open(path, "O_RDONLY", "fd", "ok")>> \o Times(2, Read("fd", BLOCK, Times(BLOCK, "a")))
                      \o <<Close("fd")>>
    IN <<Fork(Work(Rel(<<"stressfs1">>)))>> \o Work(Rel(<<"stressfs0">>)) \o <<Wait>>

\* ls opens the directory, and every entry of it to stat it.
ls == LET stat(name, nlink, type, n) == <<Open(Rel(<<name>>), "O_RDONLY", "fd1", "ok"), Stat("fd1", nlink, type, n), Close("fd1")>>
      IN <<Open(Rel(<<".">>), "O_RDONLY", "fd", "ok"), Stat("fd", 1, "T_DIR", 2 * BLOCK)>>
         \o stat(".", 1, "T_DIR", 2 * BLOCK) \o stat("..", 1, "T_DIR", 2 * BLOCK) \o stat("README", 1, "T_FILE", 5)
         \o <<List("fd", {".", "..", "echo", "cat", "README"}), Close("fd")>>
cat == <<Open(Rel(<<"README">>), "O_RDONLY", "fd", "ok"), ReadAll("fd", BLOCK, {<<"r", "e", "a", "d", "!">>}), Close("fd")>>
mkdir(path) == <<Mkdir(path, "any")>>
rm(path) == <<Unlink(path, "any")>>
ln(old, new) == <<Link(old, new, "any")>>
commands == mkdir(Rel(<<"d">>)) \o ln(Rel(<<"README">>), Rel(<<"d", "r">>)) \o rm(Rel(<<"README">>)) \o rm(Rel(<<"d">>))
            \o ln(Rel(<<"d", "r">>), Rel(<<"README">>)) \o rm(Rel(<<"d", "r">>)) \o rm(Rel(<<"d">>))
\* A directory is removed while a file is linked into it, and another is made in it.
race == mkdir(Rel(<<"d">>)) \o <<Fork(rm(Rel(<<"d">>)) \o mkdir(Rel(<<"d", "e">>)))>> \o ln(Rel(<<"README">>), Rel(<<"d", "r">>))
        \o rm(Rel(<<"d", "e">>)) \o <<Wait>>
\* A working directory is removed, and then its parent, which its entry .. still names.
dotdot == mkdir(Rel(<<"d">>)) \o mkdir(Rel(<<"d", "e">>)) \o <<Chdir(Rel(<<"d", "e">>), "ok")>> \o rm(Abs(<<"d", "e">>))
          \o rm(Abs(<<"d">>)) \o mkdir(Rel(<<"..", "f">>))
\* The shell changes its directory away from one that is no longer there.
cd == mkdir(Rel(<<"d">>)) \o <<Chdir(Rel(<<"d">>), "ok")>> \o rm(Abs(<<"d">>)) \o <<Chdir(Abs(<<>>), "any")>>
=============================================================================
