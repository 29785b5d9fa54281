------------------------------- MODULE Layout -------------------------------
(***************************************************************************)
(* The file system's format (fs.h, stat.h) and the image that mkfs.c       *)
(* writes.  A block holds BSIZE cells.  A cell is a pair: a directory      *)
(* entry <<inum, name>>, a block number <<b, "">> in an indirect block, a  *)
(* character <<1, c>>, or NUL, the cell of zeroes.                         *)
(***************************************************************************)
EXTENDS Integers, Sequences, SequencesExt

CONSTANTS BSIZE,    \* cells of a block: directory entries, block numbers or characters
          NDIRECT,  \* direct blocks of an inode
          ninodes, size, nlog,   \* the super block: inodes, blocks, blocks of the log
          BPB,      \* blocks that a block of the bitmap stands for
          DIRSIZ    \* characters of a name that count

ASSUME LayoutAssumption ==
    /\ BSIZE \in Nat \ {0} /\ NDIRECT \in Nat \ {0} /\ DIRSIZ \in Nat \ {0} /\ BPB \in Nat \ {0}
    /\ ninodes \in Nat \ {0} /\ size \in Nat \ {0} /\ nlog \in Nat

NINDIRECT == BSIZE
MAXFILE == NDIRECT + NINDIRECT
IPB == 8                    \* inodes of a block
ROOTINO == 1
IBLOCK(i) == i \div IPB + 2
BBLOCK(b) == b \div BPB + ninodes \div IPB + 3

Inums == 1..(ninodes - 1)
Blocks == 0..(size - 1)
LogBlocks == (size - nlog)..(size - 1)
NUL == <<0, "">>
Zeroes == [k \in 0..(BSIZE - 1) |-> NUL]
NoAddrs == [k \in 0..NDIRECT |-> 0]
Dinode(type, nlink) == [type |-> type, nlink |-> nlink, size |-> 0, addrs |-> NoAddrs]
FreeInode == Dinode("none", 0)
Chars(s) == [k \in DOMAIN s |-> <<1, s[k]>>]

\* The block that holds block bn of the inode d, 0 if there is none yet.
Address(data, d, bn) ==
    IF bn < NDIRECT THEN d.addrs[bn]
    ELSE IF d.addrs[NDIRECT] = 0 THEN 0 ELSE data[d.addrs[NDIRECT]][bn - NDIRECT][1]

Cell(data, d, off) == data[Address(data, d, off \div BSIZE)][off % BSIZE]

\* Mutant: the blocks that the indirect block names are forgotten.
BlocksOfDirect(data, d) == {d.addrs[k] : k \in 0..NDIRECT} \ {0}

\* Every block an inode holds, its indirect block included.
BlocksOf(data, d) ==
    ({d.addrs[k] : k \in 0..NDIRECT}
        \cup IF d.addrs[NDIRECT] = 0 THEN {}
             ELSE {data[d.addrs[NDIRECT]][k][1] : k \in 0..(NINDIRECT - 1)}) \ {0}

-----------------------------------------------------------------------------
(* mkfs.c.  m: inodes, data, the next free block and the next free inode.  *)

mkfs_ialloc(m, type) ==
    [m EXCEPT !.inode[m.freeinode] = Dinode(type, 1), !.freeinode = @ + 1]

\* The next free block becomes block fbn of the inode, after an indirect block where one is needed.
AddBlock(m, inum, fbn) ==
    LET d == m.inode[inum]
        ind == IF d.addrs[NDIRECT] = 0 THEN m.freeblock ELSE d.addrs[NDIRECT]
        next == IF fbn >= NDIRECT /\ d.addrs[NDIRECT] = 0 THEN m.freeblock + 1 ELSE m.freeblock
    IN IF fbn < NDIRECT
       THEN [m EXCEPT !.inode[inum].addrs[fbn] = m.freeblock, !.freeblock = @ + 1]
       ELSE [m EXCEPT !.inode[inum].addrs[NDIRECT] = ind,
                      !.data[ind][fbn - NDIRECT] = <<next, "">>, !.freeblock = next + 1]

iappend(m, inum, cells) ==
    LET Put(acc, c) ==
            LET off == acc.inode[inum].size
                fbn == off \div BSIZE
                t == IF Address(acc.data, acc.inode[inum], fbn) = 0 THEN AddBlock(acc, inum, fbn) ELSE acc
            IN [t EXCEPT !.data[Address(t.data, t.inode[inum], fbn)][off % BSIZE] = c,
                         !.inode[inum].size = @ + 1]
    IN FoldLeft(Put, m, cells)

\* The image of a list of files <<name, characters>>; its bitmap marks the first blocks.
mkfs(files) ==
    LET empty == [inode |-> [i \in Inums |-> FreeInode], data |-> [b \in Blocks |-> Zeroes],
                  freeblock |-> ninodes \div IPB + 3 + size \div BPB + 1, freeinode |-> ROOTINO]
        root == iappend(mkfs_ialloc(empty, "T_DIR"), ROOTINO, <<<<ROOTINO, ".">>, <<ROOTINO, "..">>>>)
        AddFile(m, f) == iappend(iappend(mkfs_ialloc(m, "T_FILE"), ROOTINO, <<<<m.freeinode, f[1]>>>>),
                                 m.freeinode, Chars(f[2]))
        m == FoldLeft(AddFile, root, files)
    IN [inode |-> [m.inode EXCEPT ![ROOTINO].size = (@ \div BSIZE + 1) * BSIZE],
        data |-> m.data,
        used |-> 0..(m.freeblock - 1)]
=============================================================================
