------------------------------- MODULE MCMemory -------------------------------
(***************************************************************************)
(* Machines to boot, with the programs of MemoryTests to run on them; and, *)
(* beside them, as the programs "heap" and "library" of one machine, the   *)
(* heap of Umalloc and the memory of Library.                              *)
(***************************************************************************)
EXTENDS Boot, Library

T == INSTANCE MemoryTests

kmapDef == <<8, 9, 12>>
Tests == [forktest |-> T!forktest, exitwait |-> T!exitwait, preempt |-> T!preempt, sbrktest |-> T!sbrktest1, exhaust |-> T!sbrktest2,
          mem |-> T!mem, grow |-> T!grow, exectest |-> T!exectest, bsstest |-> T!bsstest, bigargtest |-> T!bigargtest,
          validatetest |-> T!validatetest, validate_exec |-> <<T!Exec(2, TRUE, "ok")>> \o T!validatetest,
          validate_big |-> <<T!SbrkTo(T!BIG, "any"), T!Passes("int", 4)>>,
          validate_name |-> <<T!SbrkTo(T!BIG, "any"), T!Passes("string", 3), T!Passes("string", 4)>>,
          heap |-> <<>>, library |-> <<>>]
RamsDef == 9..39

NoAreas == [ebda |-> <<>>, base |-> <<>>, rom |-> <<>>]
OneSegment == <<[paddr |-> 1, filesz |-> 3, memsz |-> 5, off |-> 3]>>
Pc == [cpus |-> {0}, bsp |-> 0, ebda |-> FALSE, areas |-> NoAreas, pages |-> 20, uart |-> TRUE, memory |-> -1..9,
       segments |-> OneSegment, programs |-> {"exitwait"}]

\* What the BIOS may say of processors, and where.
Cpu(id, bsp) == [type |-> "MPPROC", apicid |-> id, boot |-> id = bsp]
Conf(entries) == [signature |-> "PCMP", version |-> 4, sum |-> TRUE, entries |-> entries]
Mp(conf, imcrp) == [sum |-> TRUE, physaddr |-> TRUE, imcrp |-> imcrp, conf |-> conf]
Smp(n, bsp) == [k \in 1..n |-> Cpu(k - 1, bsp)] \o <<[type |-> "MPBUS"], [type |-> "MPIOAPIC"], [type |-> "MPIOINTR"]>>
Says(mp, cpus, bsp) == [Pc EXCEPT !.cpus = cpus, !.bsp = bsp, !.areas.rom = <<mp>>]
Multiprocessors ==
    {Says(Mp(Conf(Smp(n, b)), i), 0..(n - 1), b) : n \in 1..3, b \in {0}, i \in BOOLEAN} \cup {Says(Mp(Conf(Smp(3, 1)), TRUE), 0..2, 1)}
    \cup {[Pc EXCEPT !.cpus = {0, 1}, !.ebda = e, !.areas.ebda = <<[Mp(Conf(Smp(1, 0)), TRUE) EXCEPT !.sum = FALSE], Mp(Conf(Smp(2, 0)), TRUE)>>,
                     !.areas.base = <<Mp(Conf(Smp(2, 0)), TRUE)>>, !.uart = e] : e \in BOOLEAN}
Doubtful == {Says(Mp(Conf(<<Cpu(0, 0), Cpu(2, 0)>>), TRUE), {0, 2}, 0), Says([Mp(Conf(Smp(2, 0)), TRUE) EXCEPT !.physaddr = FALSE], {0, 1}, 0),
             Says(Mp([Conf(Smp(2, 0)) EXCEPT !.signature = "OEM"], TRUE), {0, 1}, 1), Says(Mp([Conf(Smp(2, 0)) EXCEPT !.version = 2], TRUE), {0, 1}, 0),
             Says(Mp([Conf(Smp(2, 0)) EXCEPT !.sum = FALSE], TRUE), {0, 1}, 0),
             Says(Mp(Conf(<<[type |-> "MPEXT"]>> \o Smp(1, 0)), TRUE), {0}, 0), Says(Mp(Conf(Smp(2, 0)), TRUE), {0}, 0)}

\* Two segments one above the other, at the place in a sector at which they are in the file, and no
\* sector with bytes of both, unless the file has them next to each other too.
Segments(lo, f, m, up, g, gap) ==
    <<[paddr |-> lo, filesz |-> f, memsz |-> m, off |-> lo + 3], [paddr |-> up, filesz |-> g, memsz |-> g + 2, off |-> up + 3 * gap]>>
Loads == {[Pc EXCEPT !.segments = s] :
             s \in {Segments(lo, f, m, up, g, gap) : lo \in 0..2, f \in 0..3, m \in 0..4, up \in 2..7, g \in 0..2, gap \in {1, 2}}}
Linked(m) ==
    LET a == m.segments[1]
        b == m.segments[2]
    IN /\ a.filesz <= a.memsz /\ a.paddr + a.memsz <= b.paddr /\ b.paddr + b.memsz <= 10
       /\ a.memsz = 0 \/ (a.paddr + a.memsz - 1) \div SECTSIZE < b.paddr \div SECTSIZE
          \/ (a.memsz = a.filesz /\ b.off - a.off = b.paddr - a.paddr)
MachinesDef ==
    {[Pc EXCEPT !.pages = n, !.programs = DOMAIN Tests \ {"heap", "library"}] : n \in RamsDef} \cup {[Pc EXCEPT !.programs = {"heap", "library"}]}
    \cup Multiprocessors \cup Doubtful \cup {m \in Loads : Linked(m)}

MCInit == BootInit /\ heap = Heap0 /\ cells = <<>>
MCNext ==
    \/ test \notin {"heap", "library"} /\ BootNext /\ UNCHANGED heap /\ cells' = IF test' = "library" THEN Cells0 ELSE cells
    \/ test = "heap" /\ HeapNext /\ UNCHANGED <<vars, bootvars, cells>>
    \/ test = "library" /\ LibraryNext /\ UNCHANGED <<vars, bootvars, heap>>
MCSpec == MCInit /\ [][MCNext]_<<vars, bootvars, heap, cells>> /\ Fairness
===============================================================================
