----------------------------- MODULE FileSystem -----------------------------
(***************************************************************************)
(* Blocks, inodes, directories, path names (fs.c), files and descriptors   *)
(* (file.c) and the system calls on them (sysfile.c), for processes that   *)
(* run programs: sequences of calls, each with the outcome it wants.       *)
(*                                                                         *)
(* A call is a list of operations, kept in todo: the handlers below put    *)
(* the operations of a call there, and each operation is a step.  What a   *)
(* process does from ilock to iunlock is one step, unless it waits in      *)
(* between for another inode or for the log; iput, which may free the      *)
(* inode, is up to four.  A process that waits for an inode or for the log *)
(* is not enabled.                                                         *)
(*                                                                         *)
(* fs is what the buffer cache shows, disk what a crash would leave: Log   *)
(* shows that the two agree whenever a transaction commits.                *)
(***************************************************************************)
EXTENDS Layout, FiniteSets, TLC

CONSTANTS Procs,     \* process slots; 1 runs the program itself, the others its children
          NINODE,    \* in-memory inodes
          NFILE, NOFILE, \* open files, descriptors of a process
          LOGSIZE,   \* blocks of a transaction
          PIPESIZE,
          Image,     \* the disk at boot
          Programs   \* by name: the calls of a program

ASSUME FileSystemAssumption ==
    /\ 1 \in Procs /\ NINODE \in Nat \ {0} /\ NFILE \in Nat \ {0} /\ NOFILE \in Nat \ {0}
    /\ LOGSIZE \in Nat /\ PIPESIZE \in Nat \ {0}

VARIABLES disk,    \* committed: inodes, blocks, allocated blocks
          fs,      \* the same through the cache; log: blocks in the transaction; owner: log.busy and by whom;
                   \* stray: somebody else has written into a transaction; panic
          icache,  \* by inode number: references, I_BUSY, I_VALID, copy of the dinode
          ftable,  \* open files
          pipes,   \* by open file of the read end
          test,    \* the program that runs
          proc     \* processes

vars == <<disk, fs, icache, ftable, pipes, test, proc>>

NoInode == [ref |-> 0, busy |-> FALSE, valid |-> FALSE, d |-> FreeInode]
NoFile == [ref |-> 0, type |-> "FD_NONE", readable |-> FALSE, writable |-> FALSE, ip |-> 0, off |-> 0]
NoPipe == [q |-> <<>>, readopen |-> FALSE, writeopen |-> FALSE]
Fds == 0..(NOFILE - 1)
NoCall == [call |-> "none"]
\* kid: 0, or the call of the program that forked this process; r: what the last operation returned;
\* got: cells read; fd: the program's variables; oops: a call had an outcome the program does not want.
NoProc == [st |-> "UNUSED", kid |-> 0, at |-> 1, todo |-> <<>>, r |-> 0, name |-> "", got |-> <<>>,
           call |-> NoCall, fd |-> [v \in {"fd", "fd1"} |-> -1], ofile |-> [k \in Fds |-> 0], cwd |-> 0, oops |-> FALSE]

MinOf(S) == CHOOSE x \in S : \A y \in S : x <= y

-----------------------------------------------------------------------------
(* Operators on fs.  After a panic the rest of an operation has no effect that is looked at.       *)

Panic(F, why) == IF F.panic = "" THEN [F EXCEPT !.panic = why] ELSE F

log_write(F, b) ==
    IF Cardinality(F.log) >= LOGSIZE \/ Cardinality(F.log) >= nlog - 1 THEN Panic(F, "too big a transaction")
    ELSE IF F.owner = 0 THEN Panic(F, "write outside of trans")
    ELSE [F EXCEPT !.log = @ \cup {b}]

\* The file system with a block more in use, and the block.
Allocated(F, b) == <<log_write(log_write([F EXCEPT !.used = @ \cup {b}, !.data[b] = Zeroes], BBLOCK(b)), b), b>>
balloc(F) ==
    LET free == Blocks \ F.used
    IN IF free = {} THEN <<Panic(F, "balloc: out of blocks"), 0>> ELSE Allocated(F, MinOf(free))

bfree(F, b) ==
    IF b \in F.used THEN log_write([F EXCEPT !.used = @ \ {b}], BBLOCK(b))
    ELSE Panic(F, "freeing free block")

iupdate(F, i, d) == log_write([F EXCEPT !.inode[i] = d], IBLOCK(i))

\* Block bn of an inode with contents d, allocated if need be: the file system, the contents, the block.
Direct(d, bn, new) == [fs |-> new[1], d |-> [d EXCEPT !.addrs[bn] = new[2]], b |-> new[2]]
InTable(d, bn, ind, new) ==
    [fs |-> log_write([new[1] EXCEPT !.data[ind][bn - NDIRECT] = <<new[2], "">>], ind),
     d |-> [d EXCEPT !.addrs[NDIRECT] = ind], b |-> new[2]]
Indirect(d, bn, ind) == InTable(d, bn, ind[2], balloc(ind[1]))
bmap(F, d, bn) ==
    IF Address(F.data, d, bn) # 0 THEN [fs |-> F, d |-> d, b |-> Address(F.data, d, bn)]
    ELSE IF bn < NDIRECT THEN Direct(d, bn, balloc(F))
    ELSE Indirect(d, bn, IF d.addrs[NDIRECT] = 0 THEN balloc(F) ELSE <<F, d.addrs[NDIRECT]>>)

readi(F, d, off, n) ==
    IF off > d.size THEN <<>>
    ELSE [k \in 1..(IF off + n > d.size THEN d.size - off ELSE n) |-> Cell(F.data, d, off + k - 1)]

\* Write the cells s at off; r is what the caller sees.
Stored(m, off, c) ==
    [fs |-> log_write([m.fs EXCEPT !.data[m.b][off % BSIZE] = c], m.b), d |-> m.d, off |-> off + 1]
Grown(w, i, d, n) ==
    IF n > 0 /\ w.off > d.size
    THEN [fs |-> iupdate(w.fs, i, [w.d EXCEPT !.size = w.off]), d |-> [w.d EXCEPT !.size = w.off], r |-> n]
    ELSE [fs |-> w.fs, d |-> w.d, r |-> n]
writei(F, i, d, off, s) ==
    IF d.type = "T_DEV" THEN [fs |-> F, d |-> d, r |-> Len(s)]
    ELSE IF off > d.size \/ off + Len(s) > MAXFILE * BSIZE THEN [fs |-> F, d |-> d, r |-> -1]
    ELSE Grown(FoldLeft(LAMBDA w, c : Stored(bmap(w.fs, w.d, w.off \div BSIZE), w.off, c), [fs |-> F, d |-> d, off |-> off], s),
               i, d, Len(s))

\* Directories: the place of the first entry with a name, -1 if there is none; the first empty place.
Entries(F, d) == [k \in 0..(d.size - 1) |-> Cell(F.data, d, k)]
dirlookup(F, d, name) ==
    LET hits == {k \in 0..(d.size - 1) : Entries(F, d)[k][1] # 0 /\ Entries(F, d)[k][2] = name}
    IN IF hits = {} THEN -1 ELSE MinOf(hits)
dirlink(F, i, d, name, inum) ==
    writei(F, i, d, MinOf({k \in 0..(d.size - 1) : Entries(F, d)[k][1] = 0} \cup {d.size}), <<<<inum, name>>>>)
\* Mutant: the first entry after . and .. is not looked at.
isdirempty3(F, d) == \A k \in 3..(d.size - 1) : Entries(F, d)[k][1] = 0
isdirempty(F, d) == \A k \in 2..(d.size - 1) : Entries(F, d)[k][1] = 0

\* The name namex compares: the first DIRSIZ characters of a path element.
\* Mutant: the whole name counts.
skipelemWhole(s) == s
skipelem(s) == IF Len(s) > DIRSIZ THEN SubSeq(s, 1, DIRSIZ) ELSE s

-----------------------------------------------------------------------------
(* The inode cache.                                                                                *)

\* No entry is left for an inode that is not in the cache.
NoSlot(i) == icache[i].ref = 0 /\ Cardinality({j \in Inums : icache[j].ref > 0}) >= NINODE
iget(ic, i) ==
    [ic EXCEPT ![i] = IF @.ref > 0 THEN [@ EXCEPT !.ref = @ + 1] ELSE [NoInode EXCEPT !.ref = 1]]
idup(ic, i) == [ic EXCEPT ![i].ref = @ + 1]
\* The first inode that is free on disk; 0 and a panic if there is none.
ialloc(F, type) ==
    LET free == {i \in Inums : F.inode[i].type = "none"}
    IN IF free = {} THEN [fs |-> Panic(F, "ialloc: no inodes"), inum |-> 0]
       ELSE [fs |-> iupdate(F, MinOf(free), Dinode(type, 0)), inum |-> MinOf(free)]
\* The contents after ilock, and the cache with that inode locked or given back with new contents.
Locked(i) == IF icache[i].valid THEN icache[i].d ELSE fs.inode[i]
ilock(ic, i, d) == [ic EXCEPT ![i].busy = TRUE, ![i].valid = TRUE, ![i].d = d]
iunlock(ic, i, d) == [ic EXCEPT ![i].busy = FALSE, ![i].valid = TRUE, ![i].d = d]

-----------------------------------------------------------------------------
(* Processes.                                                                                      *)

Code(p) == IF proc[p].kid = 0 THEN Programs[test] ELSE Programs[test][proc[p].kid].child
Instr(p) == Code(p)[proc[p].at]
Op(p) == Head(proc[p].todo)
Does(p, name) == fs.panic = "" /\ proc[p].todo # <<>> /\ Op(p)[1] = name
\* The inode an operation is about: the one it names, or the one just looked up.
Ip(p) == IF Op(p)[2] = 0 THEN proc[p].r ELSE Op(p)[2]
\* Operations that begin with ilock, and those that have something to do when the lookup failed.
Locking == {"walk", "create", "createold", "createnew", "open", "linkold", "linknew", "linkbad", "unlinkdir",
            "unlinkfile", "chdir", "exec", "fileread", "writechunk", "filestat"}
Finding == {"create", "open", "linkold", "linknew", "unlinkdir", "chdir", "exec"}
Ilocks(p, name) ==
    /\ Does(p, name) /\ Ip(p) # 0
    /\ ~icache[Ip(p)].busy
    /\ icache[Ip(p)].valid \/ fs.inode[Ip(p)].type # "none"

\* Replace the operation by others, with a result.
Do(p, ops, r) == proc' = [proc EXCEPT ![p].todo = ops \o Tail(@), ![p].r = r]
Then(p, ops) == Do(p, ops, proc[p].r)
\* Give up the rest of the call.
Instead(p, ops) == proc' = [proc EXCEPT ![p].todo = ops]
Stop(why) == fs' = Panic(fs, why) /\ UNCHANGED <<disk, icache, ftable, pipes, test, proc>>

Begin(p) ==
    /\ Does(p, "begin_trans") /\ fs.owner = 0
    /\ fs' = [fs EXCEPT !.owner = p]
    /\ Then(p, <<>>)
    /\ UNCHANGED <<disk, icache, ftable, pipes, test>>

Commit(p) ==
    /\ Does(p, "commit_trans")
    /\ disk' = IF fs.log = {} THEN disk ELSE [inode |-> fs.inode, data |-> fs.data, used |-> fs.used]
    /\ fs' = [fs EXCEPT !.owner = 0, !.log = {}]
    /\ Then(p, <<>>)
    /\ UNCHANGED <<icache, ftable, pipes, test>>

\* ilock finds an inode that is free on disk.
IlockNoType(p) ==
    /\ fs.panic = "" /\ proc[p].todo # <<>> /\ Op(p)[1] \in Locking
    /\ IF Op(p)[1] = "walk" THEN Op(p)[3] # <<>> ELSE TRUE
    /\ Ip(p) # 0
    /\ ~icache[Ip(p)].busy /\ ~icache[Ip(p)].valid /\ fs.inode[Ip(p)].type = "none"
    /\ Stop("ilock: no type")

\* namex: from the root or the working directory.
namei(path) == <<"namex", path, FALSE>>
nameiparent(path) == <<"namex", path, TRUE>>
Namex(p) ==
    /\ Does(p, "namex")
    /\ LET abs == Op(p)[2].abs
           i == IF abs THEN ROOTINO ELSE proc[p].cwd
       IN IF abs /\ NoSlot(i) THEN Stop("iget: no inodes")
          ELSE /\ icache' = IF abs THEN iget(icache, i) ELSE idup(icache, i)
               /\ Do(p, <<<<"walk", 0, Op(p)[2].names, Op(p)[3]>>>>, i)
               /\ UNCHANGED <<disk, fs, ftable, pipes, test>>

\* One path element; the last one too, unless it is the parent that is asked for.
Walk(p) ==
    /\ Ilocks(p, "walk") /\ Op(p)[3] # <<>>
    /\ LET i == Ip(p)
           d == Locked(i)
           names == Op(p)[3]
           name == skipelem(names[1])
           k == IF d.type = "T_DIR" THEN dirlookup(fs, d, name) ELSE -1
           next == IF k = -1 THEN 0 ELSE Entries(fs, d)[k][1]
           there == d.type = "T_DIR" /\ Op(p)[4] /\ Len(names) = 1
       IN IF there
          THEN /\ icache' = iunlock(icache, i, d)
               /\ proc' = [proc EXCEPT ![p].todo = Tail(@), ![p].r = i, ![p].name = name]
               /\ UNCHANGED <<disk, fs, ftable, pipes, test>>
          ELSE IF next = 0
          THEN /\ icache' = iunlock(icache, i, d)
               /\ Do(p, <<<<"iput", i>>>>, 0)
               /\ UNCHANGED <<disk, fs, ftable, pipes, test>>
          ELSE IF NoSlot(next) THEN Stop("iget: no inodes")
          ELSE /\ icache' = iget(iunlock(icache, i, d), next)
               /\ Do(p, <<<<"iput", i>>, <<"walk", 0, Tail(names), Op(p)[4]>>>>, next)
               /\ UNCHANGED <<disk, fs, ftable, pipes, test>>

WalkEnd(p) ==
    /\ Does(p, "walk") /\ Op(p)[3] = <<>>
    /\ IF Op(p)[4] THEN Do(p, <<<<"iput", Ip(p)>>>>, 0) ELSE Then(p, <<>>)
    /\ UNCHANGED <<disk, fs, icache, ftable, pipes, test>>

\* iput: the last reference of an inode without links frees it, with icache.lock released in between.
Iput(p) ==
    /\ Does(p, "iput")
    /\ LET i == Op(p)[2]
           e == icache[i]
       IN IF e.ref = 1 /\ e.valid /\ e.d.nlink = 0
          THEN IF e.busy THEN Stop("iput busy")
               ELSE /\ icache' = [icache EXCEPT ![i].busy = TRUE]
                    /\ Then(p, <<<<"itrunc", i>>, <<"iupdate", i>>, <<"ifree", i>>>>)
                    /\ UNCHANGED <<disk, fs, ftable, pipes, test>>
          ELSE /\ icache' = [icache EXCEPT ![i] = IF @.ref = 1 THEN NoInode ELSE [@ EXCEPT !.ref = @ - 1]]
               /\ Then(p, <<>>)
               /\ UNCHANGED <<disk, fs, ftable, pipes, test>>

Itrunc(p) ==
    /\ Does(p, "itrunc")
    /\ LET i == Op(p)[2]
           freed == FoldSet(LAMBDA b, F : bfree(F, b), fs, BlocksOf(fs.data, icache[i].d))
       IN /\ fs' = [freed EXCEPT !.stray = @ \/ fs.owner # p]
          /\ icache' = [icache EXCEPT ![i].d.addrs = NoAddrs]
    /\ Then(p, <<>>)
    /\ UNCHANGED <<disk, ftable, pipes, test>>

\* The two iupdates at the end: no blocks, then no type.
Iupdate(p) ==
    /\ Does(p, "iupdate")
    /\ LET i == Op(p)[2]
           d == [icache[i].d EXCEPT !.size = 0, !.type = "none"]
       IN fs' = iupdate(fs, i, d) /\ icache' = [icache EXCEPT ![i].d = d]
    /\ Then(p, <<>>)
    /\ UNCHANGED <<disk, ftable, pipes, test>>

Ifree(p) ==
    /\ Does(p, "ifree")
    /\ icache' = [icache EXCEPT ![Op(p)[2]] = IF @.ref = 1 THEN NoInode ELSE [NoInode EXCEPT !.ref = icache[Op(p)[2]].ref - 1]]
    /\ Then(p, <<>>)
    /\ UNCHANGED <<disk, fs, ftable, pipes, test>>

Iunlock(p) ==
    /\ Does(p, "iunlock")
    /\ icache' = [icache EXCEPT ![Op(p)[2]].busy = FALSE]
    /\ Then(p, <<>>)
    /\ UNCHANGED <<disk, fs, ftable, pipes, test>>

\* What each caller of namei and nameiparent does with 0.
NotFound(p) ==
    /\ fs.panic = "" /\ proc[p].todo # <<>> /\ Op(p)[1] \in Finding /\ Ip(p) = 0
    /\ CASE Op(p)[1] = "create" -> Then(p, <<>>)
         [] Op(p)[1] = "linknew" -> Instead(p, <<<<"linkbad", Op(p)[3]>>, <<"iput", Op(p)[3]>>, <<"commit_trans">>, <<"ret", -1>>>>)
         [] OTHER -> Instead(p, <<<<"ret", -1>>>>)
    /\ UNCHANGED <<disk, fs, icache, ftable, pipes, test>>

-----------------------------------------------------------------------------
(* sysfile.c.  r is the parent directory, then the inode; name the last path element.              *)

\* Look the name up in the parent: an inode that is there already, or a new one.
Create(p) ==
    /\ Ilocks(p, "create")
    /\ LET dp == Ip(p)
           d == Locked(dp)
           k == dirlookup(fs, d, proc[p].name)
           old == Entries(fs, d)[k][1]
           new == ialloc(fs, Op(p)[3])
       IN IF k # -1
          THEN IF NoSlot(old) THEN Stop("iget: no inodes")
               ELSE /\ icache' = iget(iunlock(icache, dp, d), old)
                    /\ Do(p, <<<<"iput", dp>>, <<"createold", old, Op(p)[3]>>>>, old)
                    /\ UNCHANGED <<disk, fs, ftable, pipes, test>>
          ELSE IF new.inum = 0 THEN Stop(new.fs.panic)
          ELSE IF NoSlot(new.inum) THEN Stop("iget: no inodes")
          ELSE /\ fs' = new.fs
               /\ icache' = iget(ilock(icache, dp, d), new.inum)
               /\ Do(p, <<<<"createnew", new.inum, Op(p)[3], dp>>>>, new.inum)
               /\ UNCHANGED <<disk, ftable, pipes, test>>

\* Only open may find the file there already.
CreateOld(p) ==
    /\ Ilocks(p, "createold")
    /\ LET i == Ip(p)
           d == Locked(i)
       IN IF Op(p)[3] = "T_FILE" /\ d.type = "T_FILE"
          THEN icache' = ilock(icache, i, d) /\ Then(p, <<>>)
          ELSE icache' = iunlock(icache, i, d) /\ Do(p, <<<<"iput", i>>>>, 0)
    /\ UNCHANGED <<disk, fs, ftable, pipes, test>>

CreateNew(p) ==
    /\ Ilocks(p, "createnew")
    /\ LET i == Ip(p)
           dp == Op(p)[4]
           d == [Locked(i) EXCEPT !.nlink = 1]
           up == IF Op(p)[3] = "T_DIR" THEN [icache[dp].d EXCEPT !.nlink = @ + 1] ELSE icache[dp].d
           \* . and ..
           linked == iupdate(iupdate(fs, i, d), dp, up)
           dot == dirlink(linked, i, d, ".", i)
           dots == dirlink(dot.fs, i, dot.d, "..", dp)
           new == IF Op(p)[3] = "T_DIR" THEN dots ELSE [fs |-> iupdate(fs, i, d), d |-> d]
           entry == dirlink(new.fs, dp, up, proc[p].name, i)
       IN /\ fs' = entry.fs
          /\ icache' = iunlock(ilock(icache, i, new.d), dp, entry.d)
          /\ Then(p, <<<<"iput", dp>>>>)
    /\ UNCHANGED <<disk, ftable, pipes, test>>

\* mkdir and mknod put the inode down again.
Made(p) ==
    /\ Does(p, "made")
    /\ IF proc[p].r = 0 THEN Instead(p, <<<<"commit_trans">>, <<"ret", -1>>>>)
       ELSE Then(p, <<<<"iunlock", proc[p].r>>, <<"iput", proc[p].r>>>>)
    /\ UNCHANGED <<disk, fs, icache, ftable, pipes, test>>

\* open without O_CREATE.
OpenLock(p) ==
    /\ Ilocks(p, "open")
    /\ LET i == Ip(p)
           d == Locked(i)
       IN IF d.type = "T_DIR" /\ Op(p)[3] # "O_RDONLY"
          THEN icache' = iunlock(icache, i, d) /\ Instead(p, <<<<"iput", i>>, <<"ret", -1>>>>)
          ELSE icache' = ilock(icache, i, d) /\ Then(p, <<>>)
    /\ UNCHANGED <<disk, fs, ftable, pipes, test>>

FreeFiles == {f \in 1..NFILE : ftable[f].ref = 0}
FreeFds(p) == {k \in Fds : proc[p].ofile[k] = 0}

\* A file and a descriptor for the inode; the inode is put down, outside a transaction, if there is none.
Opened(p) ==
    /\ Does(p, "opened")
    /\ IF proc[p].r = 0 THEN Instead(p, <<<<"ret", -1>>>>) /\ UNCHANGED <<icache, ftable>>
       ELSE /\ icache' = [icache EXCEPT ![proc[p].r].busy = FALSE]
            /\ IF FreeFiles = {} \/ FreeFds(p) = {}
               THEN Instead(p, <<<<"iput", proc[p].r>>, <<"ret", -1>>>>) /\ UNCHANGED ftable
               ELSE LET f == MinOf(FreeFiles)
                        k == MinOf(FreeFds(p))
                    IN /\ ftable' = [ftable EXCEPT ![f] =
                              [ref |-> 1, type |-> "FD_INODE", ip |-> proc[p].r, off |-> 0,
                               readable |-> Op(p)[2] # "O_WRONLY", writable |-> Op(p)[2] # "O_RDONLY"]]
                       /\ proc' = [proc EXCEPT ![p].todo = <<<<"ret", k>>>>, ![p].ofile[k] = f]
    /\ UNCHANGED <<disk, fs, pipes, test>>

\* link counts the new name first.
LinkOld(p) ==
    /\ Ilocks(p, "linkold")
    /\ LET i == Ip(p)
           d == Locked(i)
           more == [d EXCEPT !.nlink = @ + 1]
       IN IF d.type = "T_DIR"
          THEN /\ icache' = iunlock(icache, i, d) /\ UNCHANGED fs
               /\ Instead(p, <<<<"iput", i>>, <<"commit_trans">>, <<"ret", -1>>>>)
          ELSE /\ icache' = iunlock(icache, i, more) /\ fs' = iupdate(fs, i, more)
               /\ Then(p, <<nameiparent(Op(p)[3]), <<"linknew", 0, i>>>>)
    /\ UNCHANGED <<disk, ftable, pipes, test>>

LinkNew(p) ==
    /\ Ilocks(p, "linknew")
    /\ LET dp == Ip(p)
           d == Locked(dp)
           i == Op(p)[3]
           entry == dirlink(fs, dp, d, proc[p].name, i)
       IN IF dirlookup(fs, d, proc[p].name) # -1
          THEN /\ icache' = iunlock(icache, dp, d) /\ UNCHANGED fs
               /\ Instead(p, <<<<"iput", dp>>, <<"linkbad", i>>, <<"iput", i>>, <<"commit_trans">>, <<"ret", -1>>>>)
          ELSE /\ icache' = iunlock(icache, dp, entry.d) /\ fs' = entry.fs
               /\ Then(p, <<<<"iput", dp>>, <<"iput", i>>>>)
    /\ UNCHANGED <<disk, ftable, pipes, test>>

LinkBad(p) ==
    /\ Ilocks(p, "linkbad")
    /\ LET i == Ip(p)
           fewer == [Locked(i) EXCEPT !.nlink = @ - 1]
       IN icache' = iunlock(icache, i, fewer) /\ fs' = iupdate(fs, i, fewer)
    /\ Then(p, <<>>)
    /\ UNCHANGED <<disk, ftable, pipes, test>>

\* unlink: the directory stays locked while the file is.
UnlinkDir(p) ==
    /\ Ilocks(p, "unlinkdir")
    /\ LET dp == Ip(p)
           d == Locked(dp)
           k == dirlookup(fs, d, proc[p].name)
           i == Entries(fs, d)[k][1]
       IN IF proc[p].name \in {".", ".."} \/ k = -1
          THEN /\ icache' = iunlock(icache, dp, d)
               /\ Instead(p, <<<<"iput", dp>>, <<"commit_trans">>, <<"ret", -1>>>>)
               /\ UNCHANGED <<disk, fs, ftable, pipes, test>>
          ELSE IF NoSlot(i) THEN Stop("iget: no inodes")
          ELSE /\ icache' = iget(ilock(icache, dp, d), i)
               /\ Then(p, <<<<"unlinkfile", i, dp, k>>>>)
               /\ UNCHANGED <<disk, fs, ftable, pipes, test>>

UnlinkFile(p) ==
    /\ Ilocks(p, "unlinkfile")
    /\ LET i == Ip(p)
           d == Locked(i)
           dp == Op(p)[3]
           gone == writei(fs, dp, icache[dp].d, Op(p)[4], <<NUL>>)
           fewer == [gone.d EXCEPT !.nlink = @ - 1]
       IN IF d.nlink < 1 THEN Stop("unlink: nlink < 1")
          ELSE IF d.type = "T_DIR" /\ ~isdirempty(fs, d)
          THEN /\ icache' = iunlock(icache, i, d) /\ UNCHANGED <<disk, fs, ftable, pipes, test>>
               /\ Instead(p, <<<<"iput", i>>, <<"iunlock", dp>>, <<"iput", dp>>, <<"commit_trans">>, <<"ret", -1>>>>)
          ELSE /\ fs' = IF d.type = "T_DIR" THEN iupdate(gone.fs, dp, fewer) ELSE gone.fs
               /\ icache' = iunlock(ilock(icache, i, d), dp, IF d.type = "T_DIR" THEN fewer ELSE gone.d)
               /\ Then(p, <<<<"iput", dp>>, <<"unlinked", i>>, <<"iput", i>>>>)
               /\ UNCHANGED <<disk, ftable, pipes, test>>

Unlinked(p) ==
    /\ Does(p, "unlinked")
    /\ LET i == Op(p)[2]
           fewer == [icache[i].d EXCEPT !.nlink = @ - 1]
       IN fs' = iupdate(fs, i, fewer) /\ icache' = iunlock(icache, i, fewer)
    /\ Then(p, <<>>)
    /\ UNCHANGED <<disk, ftable, pipes, test>>

\* chdir puts the old directory down outside a transaction.
Chdir(p) ==
    /\ Ilocks(p, "chdir")
    /\ LET i == Ip(p)
           d == Locked(i)
       IN /\ icache' = iunlock(icache, i, d)
          /\ IF d.type = "T_DIR" THEN Then(p, <<<<"iput", proc[p].cwd>>, <<"setcwd", i>>>>)
             ELSE Instead(p, <<<<"iput", i>>, <<"ret", -1>>>>)
    /\ UNCHANGED <<disk, fs, ftable, pipes, test>>

SetCwd(p) ==
    /\ Does(p, "setcwd")
    /\ proc' = [proc EXCEPT ![p].cwd = Op(p)[2], ![p].todo = Tail(@)]
    /\ UNCHANGED <<disk, fs, icache, ftable, pipes, test>>

\* exec reads the file and puts it down; arguments that do not fit are found out afterwards.
Exec(p) ==
    /\ Ilocks(p, "exec")
    /\ icache' = iunlock(icache, Ip(p), Locked(Ip(p)))
    /\ Then(p, <<<<"iput", Ip(p)>>>>)
    /\ UNCHANGED <<disk, fs, ftable, pipes, test>>

-----------------------------------------------------------------------------
(* file.c and what sysfile.c does with descriptors.                                                *)

File(p, v) == proc[p].ofile[proc[p].fd[v]]
\* argfd: the variable holds an open descriptor.
Argfd(p, v) == proc[p].fd[v] \in Fds /\ File(p, v) # 0

\* The last reference of a file gives the inode, or the end of the pipe, back.
FileClose(p) ==
    /\ Does(p, "fileclose")
    /\ LET k == Op(p)[2]
           f == proc[p].ofile[k]
           e == ftable[f]
           last == e.ref = 1
       IN /\ ftable' = [ftable EXCEPT ![f] = IF last THEN NoFile ELSE [@ EXCEPT !.ref = @ - 1]]
          /\ proc' = [proc EXCEPT ![p].ofile[k] = 0, ![p].todo =
                        (IF last /\ e.type = "FD_INODE"
                         THEN <<<<"begin_trans">>, <<"iput", e.ip>>, <<"commit_trans">>>> ELSE <<>>) \o Tail(@)]
          /\ pipes' = IF last /\ e.type = "FD_PIPE"
                      THEN [pipes EXCEPT ![e.ip] = IF e.writable THEN [@ EXCEPT !.writeopen = FALSE]
                                                   ELSE [@ EXCEPT !.readopen = FALSE]]
                      ELSE pipes
    /\ UNCHANGED <<disk, fs, icache, test>>

FileRead(p) ==
    /\ Ilocks(p, "fileread")
    /\ LET i == Ip(p)
           d == Locked(i)
           f == Op(p)[3]
           got == readi(fs, d, ftable[f].off, Op(p)[4])
       IN /\ icache' = iunlock(icache, i, d)
          /\ ftable' = [ftable EXCEPT ![f].off = @ + Len(got)]
          /\ proc' = [proc EXCEPT ![p].todo = <<<<"ret", Len(got)>>>>, ![p].got = @ \o got]
    /\ UNCHANGED <<disk, fs, pipes, test>>

\* A few blocks at a time: the loop of filewrite, and one turn of it.
\* Mutant: data blocks only are reckoned with.
MaxWriteData == (LOGSIZE - 1 - 1 - 2) * BSIZE
MaxWrite == ((LOGSIZE - 1 - 1 - 2) \div 2) * BSIZE
FileWrite(p) ==
    /\ Does(p, "filewrite")
    /\ LET f == Op(p)[2]
           s == Op(p)[3]
           n1 == IF Len(s) > MaxWrite THEN MaxWrite ELSE Len(s)
       IN IF proc[p].r < 0 \/ s = <<>> THEN Then(p, <<<<"ret", IF proc[p].r < 0 THEN -1 ELSE Op(p)[4]>>>>)
          ELSE Then(p, <<<<"begin_trans">>, <<"writechunk", ftable[f].ip, f, SubSeq(s, 1, n1)>>, <<"commit_trans">>,
                         <<"filewrite", f, SubSeq(s, n1 + 1, Len(s)), Op(p)[4]>>>>)
    /\ UNCHANGED <<disk, fs, icache, ftable, pipes, test>>
WriteChunk(p) ==
    /\ Ilocks(p, "writechunk")
    /\ LET i == Ip(p)
           f == Op(p)[3]
           w == writei(fs, i, Locked(i), ftable[f].off, Op(p)[4])
       IN /\ fs' = w.fs
          /\ icache' = iunlock(icache, i, w.d)
          /\ ftable' = [ftable EXCEPT ![f].off = IF w.r > 0 THEN @ + w.r ELSE @]
          /\ Do(p, <<>>, w.r)
    /\ UNCHANGED <<disk, pipes, test>>

stati(d) == <<<<d.nlink, d.type>>, <<d.size, "">>>>
FileStat(p) ==
    /\ Ilocks(p, "filestat")
    /\ icache' = iunlock(icache, Ip(p), Locked(Ip(p)))
    /\ proc' = [proc EXCEPT ![p].todo = <<<<"ret", 0>>>>, ![p].got = stati(Locked(Ip(p)))]
    /\ UNCHANGED <<disk, fs, ftable, pipes, test>>

\* A pipe end, as Fifo promises it: as many bytes as fit, and wait for room or for bytes. A full ring
\* without readers ends a write.
PipeWrite(p) ==
    /\ Does(p, "pipewrite")
    /\ LET k == Op(p)[2]
           s == Op(p)[3]
           room == PIPESIZE - Len(pipes[k].q)
           n == IF Len(s) > room THEN room ELSE Len(s)
       IN IF room = 0 /\ s # <<>> THEN ~pipes[k].readopen /\ Instead(p, <<<<"ret", -1>>>>) /\ UNCHANGED pipes
          ELSE /\ pipes' = [pipes EXCEPT ![k].q = @ \o SubSeq(s, 1, n)]
               /\ Instead(p, IF n = Len(s) THEN <<<<"ret", Op(p)[4]>>>>
                             ELSE <<<<"pipewrite", k, SubSeq(s, n + 1, Len(s)), Op(p)[4]>>>>)
    /\ UNCHANGED <<disk, fs, icache, ftable, test>>
PipeRead(p) ==
    /\ Does(p, "piperead")
    /\ LET k == Op(p)[2]
           q == pipes[k].q
           n == IF Op(p)[3] < Len(q) THEN Op(p)[3] ELSE Len(q)
       IN /\ q # <<>> \/ ~pipes[k].writeopen
          /\ pipes' = [pipes EXCEPT ![k].q = SubSeq(q, n + 1, Len(q))]
          /\ proc' = [proc EXCEPT ![p].todo = <<<<"ret", n>>>>, ![p].got = @ \o SubSeq(q, 1, n)]
    /\ UNCHANGED <<disk, fs, icache, ftable, test>>

-----------------------------------------------------------------------------
(* The calls.  A call with a wrong descriptor, or on the wrong end, returns -1 at once.            *)

Fail == <<<<"ret", -1>>>>
create(path, type) == <<nameiparent(path), <<"create", 0, type>>>>
sys_open(c) ==
    (IF c.create THEN <<<<"begin_trans">>>> \o create(c.path, "T_FILE") \o <<<<"commit_trans">>>> ELSE <<namei(c.path), <<"open", 0, c.mode>>>>)
    \o <<<<"opened", c.mode>>>>
sys_mkdir(c) == <<<<"begin_trans">>>> \o create(c.path, "T_DIR") \o <<<<"made">>, <<"commit_trans">>, <<"ret", 0>>>>
sys_mknod(c) == <<<<"begin_trans">>>> \o create(c.path, "T_DEV") \o <<<<"made">>, <<"commit_trans">>, <<"ret", 0>>>>
sys_chdir(c) == <<namei(c.path), <<"chdir", 0>>, <<"ret", 0>>>>
Handler(p, c) ==
    CASE c.call = "open" -> sys_open(c)
      [] c.call = "mkdir" -> sys_mkdir(c)
      [] c.call = "mknod" -> sys_mknod(c)
      [] c.call = "link" -> <<namei(c.path), <<"linkbegin", 0, c.new>>>>
      [] c.call = "unlink" -> <<nameiparent(c.path), <<"unlinkbegin", 0>>>>
      [] c.call = "chdir" -> sys_chdir(c)
      [] c.call = "exec" -> <<namei(c.path), <<"exec", 0>>, <<"ret", IF c.fits THEN 0 ELSE -1>>>>
      [] c.call = "close" -> IF Argfd(p, c.v) THEN <<<<"fileclose", proc[p].fd[c.v]>>, <<"ret", 0>>>> ELSE Fail
      [] c.call \in {"read", "readall", "list"} ->
            IF ~Argfd(p, c.v) \/ ~ftable[File(p, c.v)].readable THEN Fail
            ELSE IF ftable[File(p, c.v)].type = "FD_PIPE" THEN <<<<"piperead", ftable[File(p, c.v)].ip, c.n>>>>
            ELSE <<<<"fileread", ftable[File(p, c.v)].ip, File(p, c.v), c.n>>>>
      [] c.call = "write" ->
            IF ~Argfd(p, c.v) \/ ~ftable[File(p, c.v)].writable THEN Fail
            ELSE IF ftable[File(p, c.v)].type = "FD_PIPE" THEN <<<<"pipewrite", ftable[File(p, c.v)].ip, c.data, Len(c.data)>>>>
            ELSE <<<<"filewrite", File(p, c.v), c.data, Len(c.data)>>>>
      [] c.call = "fstat" -> IF Argfd(p, c.v) /\ ftable[File(p, c.v)].type = "FD_INODE" THEN <<<<"filestat", ftable[File(p, c.v)].ip>>>> ELSE Fail

\* link and unlink begin their transaction after the first lookup.
LookedUp(p) ==
    /\ Does(p, "linkbegin") \/ Does(p, "unlinkbegin")
    /\ IF proc[p].r = 0 THEN Instead(p, Fail)
       ELSE IF Op(p)[1] = "linkbegin"
       THEN Then(p, <<<<"begin_trans">>, <<"linkold", proc[p].r, Op(p)[3]>>, <<"commit_trans">>, <<"ret", 0>>>>)
       ELSE Then(p, <<<<"begin_trans">>, <<"unlinkdir", proc[p].r>>, <<"commit_trans">>, <<"ret", 0>>>>)
    /\ UNCHANGED <<disk, fs, icache, ftable, pipes, test>>

Idle(p) == fs.panic = "" /\ proc[p].st = "RUNNING" /\ proc[p].todo = <<>>
Calls(p, name) == Idle(p) /\ proc[p].at <= Len(Code(p)) /\ Instr(p).call = name

\* The call of a program, or one of several.
Alternatives(p) == IF Instr(p).call = "oneof" THEN Instr(p).calls ELSE {Instr(p)}
Call(p) ==
    /\ Idle(p) /\ proc[p].at <= Len(Code(p))
    /\ Instr(p).call \notin {"dup", "pipe", "fork", "wait"}
    /\ \E c \in Alternatives(p) : proc' = [proc EXCEPT ![p].todo = Handler(p, c), ![p].call = c]
    /\ UNCHANGED <<disk, fs, icache, ftable, pipes, test>>

\* Back in the program: is it what the program wants?  A loop that reads goes on until nothing comes.
Ret(p) ==
    /\ Does(p, "ret")
    /\ LET c == proc[p].call
           n == Op(p)[2]
           again == c.call \in {"readall", "list"} /\ n > 0
           as == CASE c.want = "ok" -> n >= 0 [] c.want = "fail" -> n < 0 [] c.want = "any" -> TRUE
           data == CASE c.call \in {"read", "fstat", "readall"} -> proc[p].got \in c.data
                     [] c.call = "list" ->
                           LET seen == SelectSeq(proc[p].got, LAMBDA e : e[1] # 0 /\ e[2] \in c.data)
                           IN Len(seen) = Cardinality(c.data) /\ {seen[k][2] : k \in DOMAIN seen} = c.data
                     [] OTHER -> TRUE
       IN proc' = [proc EXCEPT ![p].todo = <<>>, ![p].call = NoCall, ![p].r = 0, ![p].name = "",
                               ![p].at = IF again THEN @ ELSE @ + 1,
                               ![p].got = IF again THEN @ ELSE <<>>,
                               ![p].fd = IF c.call = "open" THEN [@ EXCEPT ![c.v] = n] ELSE @,
                               ![p].oops = @ \/ ~(again \/ (as /\ data))]
    /\ UNCHANGED <<disk, fs, icache, ftable, pipes, test>>

Returns(p, ok) ==
    [proc EXCEPT ![p].at = @ + 1, ![p].oops = @ \/ (Instr(p).want = "ok" /\ ~ok) \/ (Instr(p).want = "fail" /\ ok)]

Dup(p) ==
    /\ Calls(p, "dup")
    /\ IF Argfd(p, Instr(p).v) /\ FreeFds(p) # {}
       THEN /\ ftable' = [ftable EXCEPT ![File(p, Instr(p).v)].ref = @ + 1]
            /\ proc' = [Returns(p, TRUE) EXCEPT ![p].ofile[MinOf(FreeFds(p))] = File(p, Instr(p).v)]
       ELSE proc' = Returns(p, FALSE) /\ UNCHANGED ftable
    /\ UNCHANGED <<disk, fs, icache, pipes, test>>

\* Two files, then two descriptors; all is undone if there are not enough.
MakePipe(p) ==
    /\ Calls(p, "pipe")
    /\ LET rf == MinOf(FreeFiles)
           wf == MinOf(FreeFiles \ {rf})
           k == MinOf(FreeFds(p))
           l == MinOf(FreeFds(p) \ {k})
           End(w) == [NoFile EXCEPT !.ref = 1, !.type = "FD_PIPE", !.readable = ~w, !.writable = w, !.ip = rf]
       IN IF Cardinality(FreeFiles) < 2 \/ Cardinality(FreeFds(p)) < 2
          THEN proc' = Returns(p, FALSE) /\ UNCHANGED <<ftable, pipes>>
          ELSE /\ ftable' = [ftable EXCEPT ![rf] = End(FALSE), ![wf] = End(TRUE)]
               /\ pipes' = [pipes EXCEPT ![rf] = [q |-> <<>>, readopen |-> TRUE, writeopen |-> TRUE]]
               /\ proc' = [Returns(p, TRUE) EXCEPT ![p].ofile[k] = rf, ![p].ofile[l] = wf,
                                                   ![p].fd = [@ EXCEPT !["fd"] = k, !["fd1"] = l]]
    /\ UNCHANGED <<disk, fs, icache, test>>

\* The child has the descriptors, the directory and the variables of its parent.
Fork(p) ==
    /\ Calls(p, "fork")
    /\ LET free == {q \in Procs : proc[q].st = "UNUSED"}
           q == MinOf(free)
           child == [proc[p] EXCEPT !.kid = proc[p].at, !.at = 1]
       IN IF free = {} THEN proc' = Returns(p, FALSE) /\ UNCHANGED <<icache, ftable>>
          ELSE /\ proc' = [Returns(p, TRUE) EXCEPT ![q] = child]
               /\ ftable' = [f \in DOMAIN ftable |->
                    [ftable[f] EXCEPT !.ref = @ + Cardinality({k \in Fds : proc[p].ofile[k] = f})]]
               /\ icache' = idup(icache, proc[p].cwd)
    /\ UNCHANGED <<disk, fs, pipes, test>>

\* exit: descriptors, then the directory outside a transaction.
Exit(p) ==
    /\ Idle(p) /\ proc[p].at > Len(Code(p))
    /\ LET open == SetToSortSeq({k \in Fds : proc[p].ofile[k] # 0}, <)
       IN Instead(p, [k \in DOMAIN open |-> <<"fileclose", open[k]>>] \o <<<<"iput", proc[p].cwd>>, <<"zombie">>>>)
    /\ UNCHANGED <<disk, fs, icache, ftable, pipes, test>>
Zombie(p) ==
    /\ Does(p, "zombie")
    /\ proc' = [proc EXCEPT ![p] = [NoProc EXCEPT !.st = "ZOMBIE", !.oops = proc[p].oops]]
    /\ UNCHANGED <<disk, fs, icache, ftable, pipes, test>>

Wait(p) ==
    /\ Calls(p, "wait")
    /\ LET zombies == {q \in Procs \ {1} : proc[q].st = "ZOMBIE"}
           none == p # 1 \/ \A q \in Procs \ {1} : proc[q].st = "UNUSED"
       IN IF none THEN proc' = Returns(p, FALSE)
          ELSE \E q \in zombies :
               proc' = [Returns(p, TRUE) EXCEPT ![q] = NoProc, ![p].oops = @ \/ proc[q].oops]
    /\ UNCHANGED <<disk, fs, icache, ftable, pipes, test>>

Init ==
    /\ disk = Image
    /\ fs = [inode |-> Image.inode, data |-> Image.data, used |-> Image.used,
             log |-> {}, owner |-> 0, stray |-> FALSE, panic |-> ""]
    /\ icache = [i \in Inums |-> IF i = ROOTINO THEN [NoInode EXCEPT !.ref = 1] ELSE NoInode]
    /\ ftable = [f \in 1..NFILE |-> NoFile]
    /\ pipes = [f \in 1..NFILE |-> NoPipe]
    /\ test \in DOMAIN Programs
    /\ proc = [p \in Procs |-> IF p = 1 THEN [NoProc EXCEPT !.st = "RUNNING", !.cwd = ROOTINO] ELSE NoProc]

Halted == fs.panic # "" \/ proc[1].st = "ZOMBIE"
Next ==
    \/ \E p \in Procs :
        \/ Call(p) \/ Ret(p) \/ Dup(p) \/ MakePipe(p) \/ Fork(p) \/ Exit(p) \/ Zombie(p) \/ Wait(p)
        \/ Begin(p) \/ Commit(p) \/ Namex(p) \/ Walk(p) \/ WalkEnd(p) \/ IlockNoType(p) \/ NotFound(p) \/ LookedUp(p)
        \/ Iput(p) \/ Itrunc(p) \/ Iupdate(p) \/ Ifree(p) \/ Iunlock(p)
        \/ Create(p) \/ CreateOld(p) \/ CreateNew(p) \/ Made(p) \/ OpenLock(p) \/ Opened(p)
        \/ LinkOld(p) \/ LinkNew(p) \/ LinkBad(p) \/ UnlinkDir(p) \/ UnlinkFile(p) \/ Unlinked(p)
        \/ Chdir(p) \/ SetCwd(p) \/ Exec(p)
        \/ FileClose(p) \/ FileRead(p) \/ FileWrite(p) \/ WriteChunk(p) \/ FileStat(p) \/ PipeWrite(p) \/ PipeRead(p)
    \/ Halted /\ UNCHANGED vars
Spec == Init /\ [][Next]_vars

-----------------------------------------------------------------------------
(* Properties.  What is on the disk changes when a transaction commits, so it is looked at then.   *)

\* Every test passes: each call has the outcome, and each read the cells, that usertests.c insists
\* on, in every interleaving of the processes of a test.
TestsPass == \A p \in Procs : ~proc[p].oops

\* Whatever is written is written in a transaction of one's own that fits the log (filewrite's
\* reckoning of blocks, and every iput that frees an inode), and no call panics the kernel but one
\* that asks for .. where the parent is gone, and the one that finds no block free.
WritesInTransactions == ~fs.stray /\ fs.panic \in {"", "ilock: no type", "balloc: out of blocks"}

\* The places for a block number of inode i on a disk D, and the number there.
Places == 0..(NDIRECT + NINDIRECT)
Held(D, i) == [k \in Places |-> LET d == D.inode[i]
                                IN IF k <= NDIRECT THEN d.addrs[k]
                                   ELSE IF d.addrs[NDIRECT] = 0 THEN 0 ELSE D.data[d.addrs[NDIRECT]][k - NDIRECT - 1][1]]

\* A crash between any two commits leaves a disk on which each block in use is held in exactly one
\* place, and the bitmap says so: balloc and bmap, itrunc with its indirect block, and iput.
BlocksOwnedOnce ==
    fs.owner = 0 =>
        LET slots == {s \in Inums \X Places : disk.inode[s[1]].type # "none" /\ Held(disk, s[1])[s[2]] # 0}
            blocks == {Held(disk, s[1])[s[2]] : s \in slots}
            meta == 0..(ninodes \div IPB + 3 + size \div BPB)
        IN Cardinality(blocks) = Cardinality(slots) /\ meta \cap blocks = {} /\ disk.used = meta \cup blocks

\* A crash leaves link counts that are the number of names of an inode: entries of directories, of
\* which . does not count and .. only as long as its directory has a name.  So no entry names a
\* free inode.  create, link with its way back, and unlink of a directory have to agree on it.
LinkCounts ==
    fs.owner = 0 =>
        LET dirs == {j \in Inums : disk.inode[j].type = "T_DIR"}
            names == {s \in dirs \X (0..(MAXFILE * BSIZE - 1)) :
                        /\ s[2] < disk.inode[s[1]].size
                        /\ LET e == Cell(disk.data, disk.inode[s[1]], s[2])
                           IN e[1] # 0 /\ e[2] # "." /\ (e[2] = ".." => disk.inode[s[1]].nlink > 0)}
        IN \A i \in Inums :
              Cardinality({s \in names : Cell(disk.data, disk.inode[s[1]], s[2])[1] = i}) =
                 IF disk.inode[i].type = "none" THEN 0 ELSE disk.inode[i].nlink

\* Between calls every in-memory inode and every open file has as many references as there are open
\* files, working directories and descriptors that are it, and none is locked: no path through
\* namex, create, link, unlink, open, chdir, exec, fork or exit loses or keeps one.
RefsMatch ==
    (fs.panic = "" /\ \A p \in Procs : proc[p].todo = <<>>) =>
        /\ \A i \in Inums :
              /\ icache[i].ref = Cardinality({f \in 1..NFILE : ftable[f].type = "FD_INODE" /\ ftable[f].ip = i})
                               + Cardinality({p \in Procs : proc[p].cwd = i})
              /\ ~icache[i].busy
        /\ \A f \in 1..NFILE : ftable[f].ref = Cardinality({s \in Procs \X Fds : proc[s[1]].ofile[s[2]] = f})

\* Every inode has as many names as its link count says, on disk and after any crash, and
\* every reference in memory is held by somebody: none is lost, none is counted twice.
CountsMatch == LinkCounts /\ RefsMatch
=============================================================================
