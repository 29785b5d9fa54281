--------------------------------- MODULE Boot ---------------------------------
(***************************************************************************)
(* From the boot sector to the first process, on machines with any number  *)
(* of processors: the loader (bootmain.c), main and the start of the other *)
(* processors (main.c, entryother.S), what the BIOS says of the machine    *)
(* (mp.c), the interrupt controllers (picirq.c, ioapic.c, lapic.c), the    *)
(* two phases of the page allocator (kalloc.c) and userinit (proc.c).      *)
(* From then on the system is that of Memory.                              *)
(*                                                                         *)
(* A processor is named by its local APIC's number.  at is the routine it  *)
(* is about to enter; what can be seen by nobody else is one step.         *)
(***************************************************************************)
EXTENDS Memory, Folds

CONSTANTS Machines,  \* what the kernel may find itself on, see MCMemory
          LOW,       \* the pages below 4 MB: all that entrypgdir maps
          SECTSIZE   \* bytes of a sector

ASSUME BootAssumption ==
    /\ LOW \in Nat /\ SECTSIZE \in Nat \ {0}
    /\ \A m \in Machines : m.programs \subseteq DOMAIN Programs
    /\ \A m \in Machines : m.bsp \in m.cpus /\ m.cpus \subseteq Nat /\ m.pages >= LOW
    /\ \A m \in Machines : \A a \in {"ebda", "base", "rom"} :
          \A i \in DOMAIN m.areas[a] : i \in Nat /\ Len(m.areas[a][i].conf.entries) \in Nat

VARIABLES machine, \* the one it is
          cpu,     \* processors
          boot     \* what they share

bootvars == <<machine, cpu, boot>>

IRQ == [TIMER |-> 0, KBD |-> 1, COM1 |-> 4, IDE |-> 14]
IRQ_SLAVE == 2
T_IRQ0 == 32
B == machine.bsp
At(c, l) == cpu[c].at = l
Goto(c, l) == [cpu EXCEPT ![c].at = l]
Nobody == -1
Off == [at |-> "off", dir |-> "none", stack |-> NULL, self |-> Nobody, timer |-> FALSE, masked |-> FALSE, idt |-> FALSE, sti |-> FALSE]

-----------------------------------------------------------------------------
(* bootmain.c: the memory M after the reads, from a disk whose byte n is <<n>>; zeroes are 0.      *)

readsect(M, pa, n) == [a \in DOMAIN M |-> IF pa <= a /\ a < pa + SECTSIZE THEN <<(n - 1) * SECTSIZE + a - pa>> ELSE M[a]]
readseg(M, pa, epa, n) ==
    LET turns == IF pa < epa THEN (epa - pa + SECTSIZE - 1) \div SECTSIZE ELSE 0
        w[k \in 0..turns] == IF k = 0 THEN M ELSE readsect(w[k - 1], pa + (k - 1) * SECTSIZE, n + k - 1)
    IN w[turns]
stosb(M, from, to) == [a \in DOMAIN M |-> IF from <= a /\ a < to THEN 0 ELSE M[a]]
\* Mutant: a segment is read from the start of its first sector on, and put at its address.
LoadSegmentUp(M, ph) ==
    stosb(readseg(M, ph.paddr, ph.paddr + ph.filesz, (ph.off \div SECTSIZE) + 1), ph.paddr + ph.filesz, ph.paddr + ph.memsz)
LoadSegment(M, ph) ==
    stosb(readseg(M, ph.paddr - (ph.off % SECTSIZE), ph.paddr + ph.filesz, (ph.off \div SECTSIZE) + 1), ph.paddr + ph.filesz, ph.paddr + ph.memsz)
bootmain ==
    /\ At(B, "bootmain")
    /\ boot' = [boot EXCEPT !.image = FoldLeft(LoadSegment, [a \in machine.memory |-> 0], machine.segments)]
    /\ cpu' = Goto(B, "kinit1")
    /\ UNCHANGED <<vars, machine>>

-----------------------------------------------------------------------------
(* mp.c.  In each place a sequence of structures; sum says whether its bytes add up to zero.       *)

Valid(a) == {i \in DOMAIN machine.areas[a] : machine.areas[a][i].sum}
mpsearch1(a) == IF Valid(a) = {} THEN <<>> ELSE <<machine.areas[a][First(Valid(a))]>>
mpsearch ==
    IF machine.ebda /\ mpsearch1("ebda") # <<>> THEN mpsearch1("ebda")
    ELSE IF ~machine.ebda /\ mpsearch1("base") # <<>> THEN mpsearch1("base")
    ELSE mpsearch1("rom")
mpconfig ==
    IF mpsearch = <<>> \/ ~mpsearch[1].physaddr \/ mpsearch[1].conf.signature # "PCMP"
       \/ mpsearch[1].conf.version \notin {1, 4} \/ ~mpsearch[1].conf.sum
    THEN <<>> ELSE <<mpsearch[1].conf>>

NoTable == [ismp |-> FALSE, ncpu |-> 0, bcpu |-> 0, lapic |-> FALSE, stuck |-> FALSE, imcr |-> FALSE]
Entry(S, e) ==
    IF S.stuck THEN S
    ELSE IF e.type = "MPPROC"
    THEN [S EXCEPT !.ismp = @ /\ S.ncpu = e.apicid, !.bcpu = IF e.boot THEN S.ncpu ELSE @, !.ncpu = @ + 1]
    ELSE [S EXCEPT !.stuck = e.type \notin {"MPIOAPIC", "MPBUS", "MPIOINTR", "MPLINTR"}]
FallBack(S) == IF S.ismp THEN [S EXCEPT !.imcr = mpsearch[1].imcrp] ELSE [S EXCEPT !.ncpu = 1, !.lapic = FALSE]
Table(conf) ==
    LET w[k \in 0..Len(conf.entries)] == IF k = 0 THEN [NoTable EXCEPT !.ismp = TRUE, !.lapic = TRUE] ELSE Entry(w[k - 1], conf.entries[k])
    IN w[Len(conf.entries)]
\* An entry of a type it does not know is looked at again and again.
mpinit ==
    /\ At(B, "mpinit")
    /\ IF mpconfig = <<>> THEN boot' = [boot EXCEPT !.mp = NoTable] /\ cpu' = Goto(B, "lapicinit")
       ELSE IF Table(mpconfig[1]).stuck THEN UNCHANGED <<boot, cpu>>
       ELSE boot' = [boot EXCEPT !.mp = FallBack(Table(mpconfig[1]))] /\ cpu' = Goto(B, "lapicinit")
    /\ UNCHANGED <<vars, machine>>

-----------------------------------------------------------------------------
(* The interrupt controllers.                                                                      *)

cpunum(c) == IF boot.mp.lapic THEN c ELSE 0
\* lapicinit, with the timer, and with the lines of the old controllers masked; then seginit.
LapicSet(c) == [cpu[c] EXCEPT !.timer = boot.mp.lapic, !.masked = boot.mp.lapic, !.self = cpunum(c)]
lapicinit(c) ==
    /\ At(c, "lapicinit")
    /\ cpu' = [cpu EXCEPT ![c] = [LapicSet(c) EXCEPT !.at = IF c = B THEN "picinit" ELSE "idtinit"]]
    /\ UNCHANGED <<vars, machine, boot>>

\* External: an 8259A.  Of the four words that begin with ICW1 the second is the vector, and all but
\* the first go to the other port; a word there is a mask otherwise.
outb(pic, k, port, v) ==
    IF port = 0 THEN IF v = "ICW1" THEN [pic EXCEPT ![k].icw = 2, ![k].mask = {}] ELSE pic
    ELSE IF pic[k].icw = 0 THEN [pic EXCEPT ![k].mask = v]
    ELSE [pic EXCEPT ![k].icw = IF @ = 4 THEN 0 ELSE @ + 1, ![k].vector = IF pic[k].icw = 2 THEN v ELSE @]
Out(pic, w) == outb(pic, w[1], w[2], w[3])
Masked(mask, k) == {i \in 0..7 : i + 8 * (k - 1) \in mask}
picsetmask(b, mask) == [b EXCEPT !.irqmask = mask, !.pic = FoldLeft(Out, @, <<<<1, 1, Masked(mask, 1)>>, <<2, 1, Masked(mask, 2)>>>>)]
picenable(b, irq) == picsetmask(b, b.irqmask \ {irq})
Words == <<<<1, 1, 0..7>>, <<2, 1, 0..7>>,
           <<1, 0, "ICW1">>, <<1, 1, T_IRQ0>>, <<1, 1, "ICW3">>, <<1, 1, "ICW4">>,
           <<2, 0, "ICW1">>, <<2, 1, T_IRQ0 + 8>>, <<2, 1, "ICW3">>, <<2, 1, "ICW4">>,
           <<1, 0, "OCW3">>, <<1, 0, "OCW3">>, <<2, 0, "OCW3">>, <<2, 0, "OCW3">>>>
picinit ==
    /\ At(B, "picinit")
    /\ LET b == [boot EXCEPT !.pic = FoldLeft(Out, @, Words)]
       IN boot' = IF b.irqmask # 0..15 THEN picsetmask(b, b.irqmask) ELSE b
    /\ cpu' = Goto(B, "ioapicinit")
    /\ UNCHANGED <<vars, machine>>

Redirection == [enabled |-> FALSE, vector |-> 0, dest |-> 0]
ioapicinit ==
    /\ At(B, "ioapicinit")
    /\ boot' = IF ~boot.mp.ismp THEN boot ELSE [boot EXCEPT !.ioapic = [i \in DOMAIN @ |-> [Redirection EXCEPT !.vector = T_IRQ0 + i]]]
    /\ cpu' = Goto(B, "consoleinit")
    /\ UNCHANGED <<vars, machine>>
ioapicenable(b, irq, cpunumber) ==
    IF ~b.mp.ismp THEN b ELSE [b EXCEPT !.ioapic[irq] = [enabled |-> TRUE, vector |-> T_IRQ0 + irq, dest |-> cpunumber]]

consoleinit ==
    /\ At(B, "consoleinit")
    /\ boot' = ioapicenable(picenable(boot, IRQ.KBD), IRQ.KBD, 0)
    /\ cpu' = Goto(B, "uartinit")
    /\ UNCHANGED <<vars, machine>>
uartinit ==
    /\ At(B, "uartinit")
    /\ boot' = IF machine.uart THEN ioapicenable(picenable(boot, IRQ.COM1), IRQ.COM1, 0) ELSE boot
    /\ cpu' = Goto(B, "tvinit")
    /\ UNCHANGED <<vars, machine>>
tvinit ==
    /\ At(B, "tvinit")
    /\ boot' = [boot EXCEPT !.idt = TRUE]
    /\ cpu' = Goto(B, "ideinit")
    /\ UNCHANGED <<vars, machine>>
\* Mutant: the processors are counted from one.
IdeCpuNext(b) == b.mp.ncpu
IdeCpu(b) == b.mp.ncpu - 1
ideinit ==
    /\ At(B, "ideinit")
    /\ boot' = ioapicenable(picenable(boot, IRQ.IDE), IRQ.IDE, IdeCpu(boot))
    /\ cpu' = Goto(B, IF boot.mp.ismp THEN "startothers" ELSE "timerinit")
    /\ UNCHANGED <<vars, machine>>
timerinit ==
    /\ At(B, "timerinit")
    /\ boot' = picenable(boot, IRQ.TIMER)
    /\ cpu' = Goto(B, "startothers")
    /\ UNCHANGED <<vars, machine>>

-----------------------------------------------------------------------------
(* Memory in two phases (kalloc.c, main.c, vm.c).  Without use_lock kalloc and kfree are not safe. *)

Give(M, p) == kfree([M EXCEPT !.mem = Append(@, Filled(JUNK))], p)
kinit1 ==
    /\ At(B, "kinit1")
    /\ IF Len(ram.mem) < LOW
       THEN ram' = Give(ram, Len(ram.mem) + 1) /\ UNCHANGED <<boot, cpu>>
       ELSE /\ boot' = [boot EXCEPT !.image = <<>>]
            /\ cpu' = Goto(B, "kvmalloc")
            /\ UNCHANGED ram
    /\ UNCHANGED <<test, proc, machine>>
kvmalloc ==
    /\ At(B, "kvmalloc")
    /\ LET d == setupkvm(ram) IN ram' = [d[1] EXCEPT !.kpgdir = d[2]]
    /\ cpu' = [cpu EXCEPT ![B].at = "mpinit", ![B].dir = "kpgdir"]
    /\ UNCHANGED <<test, proc, machine, boot>>
kinit2 ==
    /\ At(B, "kinit2")
    /\ IF Len(ram.mem) < machine.pages
       THEN ram' = Give(ram, Len(ram.mem) + 1) /\ UNCHANGED <<boot, cpu>>
       ELSE /\ boot' = [boot EXCEPT !.use_lock = TRUE]
            /\ cpu' = Goto(B, "allocproc")
            /\ UNCHANGED ram
    /\ UNCHANGED <<test, proc, machine>>

-----------------------------------------------------------------------------
(* The other processors: low memory holds entryother and, below it, the stack it is to use.        *)

\* Mutant: the kernel is taken to have started on the first processor.
ItselfFirst(c) == c = 0
Itself(c) == c = cpunum(B)
startothers ==
    /\ At(B, "startothers")
    /\ IF boot.next >= boot.mp.ncpu THEN cpu' = Goto(B, "kinit2") /\ UNCHANGED <<ram, boot>>
       ELSE IF Itself(boot.next) THEN boot' = [boot EXCEPT !.next = @ + 1] /\ UNCHANGED <<ram, cpu>>
       ELSE LET a == kalloc(ram)
            IN /\ ram' = [a[1] EXCEPT !.stacks = @ \cup {a[2]}]
               /\ boot' = [boot EXCEPT !.stack = a[2]]
               /\ cpu' = Goto(B, "init")
    /\ UNCHANGED <<test, proc, machine>>
\* External: a processor starts over when it is told INIT, and heeds STARTUP only after that.
Told(c, ipi) ==
    IF c \notin machine.cpus \/ c = B THEN cpu
    ELSE IF ipi = "INIT" THEN [cpu EXCEPT ![c] = [Off EXCEPT !.at = "reset"]]
    ELSE IF cpu[c].at = "reset" THEN [cpu EXCEPT ![c].at = "entryother"] ELSE cpu
Signal(c, ipi, l) == cpu' = [Told(c, ipi) EXCEPT ![B].at = l]
lapicstartap ==
    /\ \/ At(B, "init") /\ Signal(boot.next, "INIT", "startup")
       \/ At(B, "startup") /\ Signal(boot.next, "STARTUP", "again")
       \/ At(B, "again") /\ Signal(boot.next, "STARTUP", "started")
    /\ UNCHANGED <<vars, machine, boot>>
\* Mutant: it does not wait.
AnsweredAlways(c) == TRUE
Answered(c) == c \in boot.started
waitstarted ==
    /\ At(B, "started") /\ Answered(boot.next)
    /\ boot' = [boot EXCEPT !.next = @ + 1]
    /\ cpu' = Goto(B, "startothers")
    /\ UNCHANGED <<vars, machine>>
entryother(c) ==
    /\ At(c, "entryother")
    /\ cpu' = [cpu EXCEPT ![c].at = "mpenter", ![c].dir = "entrypgdir", ![c].stack = boot.stack]
    /\ UNCHANGED <<vars, machine, boot>>
mpenter(c) ==
    /\ At(c, "mpenter")
    /\ cpu' = [cpu EXCEPT ![c].at = "lapicinit", ![c].dir = "kpgdir"]
    /\ UNCHANGED <<vars, machine, boot>>
idtinit(c) ==
    /\ At(c, "idtinit")
    /\ cpu' = [cpu EXCEPT ![c].at = "xchg", ![c].idt = boot.idt]
    /\ UNCHANGED <<vars, machine, boot>>
xchg(c) ==
    /\ At(c, "xchg")
    /\ boot' = [boot EXCEPT !.started = @ \cup {cpu[c].self}]
    /\ cpu' = Goto(c, "scheduler")
    /\ UNCHANGED <<vars, machine>>

-----------------------------------------------------------------------------
(* The first process, step by step, while the other processors look for one to run.                *)

allocproc ==
    /\ At(B, "allocproc")
    /\ LET a == kalloc(ram)
       IN /\ ram' = a[1]
          /\ proc' = [proc EXCEPT ![1] = [NoProc EXCEPT !.st = "EMBRYO", !.kstack = a[2]]]
    /\ boot' = [boot EXCEPT !.made = {"context"}]
    /\ cpu' = Goto(B, "setupkvm")
    /\ UNCHANGED <<test, machine>>
UserKernel ==
    /\ At(B, "setupkvm")
    /\ LET d == setupkvm(ram)
       IN /\ ram' = IF d[2] = NULL THEN Panic(d[1], "userinit: out of memory?") ELSE d[1]
          /\ proc' = [proc EXCEPT ![1].pgdir = d[2]]
    /\ cpu' = Goto(B, "inituvm")
    /\ UNCHANGED <<test, machine, boot>>
inituvm ==
    /\ At(B, "inituvm") /\ ram.panic = ""
    /\ ram' = allocuvm(ram, proc[1].pgdir, 0)[1]
    /\ proc' = [proc EXCEPT ![1].sz = PGSIZE]
    /\ boot' = [boot EXCEPT !.made = @ \cup {"text"}]
    /\ cpu' = Goto(B, "userinit")
    /\ UNCHANGED <<test, machine>>
userinit ==
    /\ At(B, "userinit")
    /\ IF "tf" \notin boot.made THEN boot' = [boot EXCEPT !.made = @ \cup {"tf"}] /\ UNCHANGED <<proc, cpu>>
       ELSE IF "cwd" \notin boot.made THEN boot' = [boot EXCEPT !.made = @ \cup {"cwd"}] /\ UNCHANGED <<proc, cpu>>
       ELSE /\ proc' = [proc EXCEPT ![1].st = "RUNNABLE"]
            /\ cpu' = Goto(B, "idtinit")
            /\ UNCHANGED boot
    /\ UNCHANGED <<ram, test, machine>>

\* The scheduler turns interrupts on, and runs the process once somebody has made it RUNNABLE.
scheduler(c) ==
    /\ At(c, "scheduler")
    /\ \/ ~cpu[c].sti /\ cpu' = [cpu EXCEPT ![c].sti = TRUE] /\ UNCHANGED <<test, boot>>
       \/ /\ cpu[c].sti /\ proc[1].st = "RUNNABLE" /\ boot.runs = Nobody
          /\ boot' = [boot EXCEPT !.runs = c]
          /\ test' \in machine.programs
          /\ UNCHANGED cpu
    /\ UNCHANGED <<ram, proc, machine>>

-----------------------------------------------------------------------------
BootInit ==
    /\ machine \in Machines
    /\ test = ""
    /\ ram = [free |-> <<>>, mem |-> <<>>, lost |-> {}, panic |-> "", kpgdir |-> NULL, stacks |-> {}]
    /\ proc = [p \in Procs |-> NoProc]
    /\ cpu = [c \in machine.cpus |-> IF c = machine.bsp THEN [Off EXCEPT !.at = "bootmain", !.dir = "entrypgdir"] ELSE Off]
    /\ boot = [image |-> <<>>, mp |-> NoTable, irqmask |-> 0..15 \ {IRQ_SLAVE},
               pic |-> [k \in 1..2 |-> [icw |-> 0, vector |-> 0, mask |-> {}]],
               ioapic |-> [i \in {1, 4, 14} |-> Redirection], idt |-> FALSE, use_lock |-> FALSE,
               next |-> 0, stack |-> NULL, started |-> {}, made |-> {}, runs |-> Nobody]

Boots(c) == lapicinit(c) \/ entryother(c) \/ mpenter(c) \/ idtinit(c) \/ xchg(c) \/ scheduler(c)
BootMain ==
    \/ bootmain \/ kinit1 \/ kvmalloc \/ mpinit \/ picinit \/ ioapicinit \/ consoleinit \/ uartinit \/ tvinit \/ ideinit \/ timerinit
    \/ startothers \/ lapicstartap \/ waitstarted \/ kinit2 \/ allocproc \/ UserKernel \/ inituvm \/ userinit
\* Where the program waits for ever: at an entry of the table, or for a processor.
Spins == (At(B, "mpinit") \/ At(B, "started")) /\ UNCHANGED <<vars, bootvars>>
Runs == boot.runs # Nobody /\ Next /\ UNCHANGED bootvars
BootNext == (ram.panic = "" /\ BootMain) \/ (\E c \in machine.cpus : Boots(c)) \/ Spins \/ Runs
\* No processor stops of itself.  For main this is weak fairness, with what enables BootMain spelled out.
Stuck == \/ At(B, "mpinit") /\ mpconfig # <<>> /\ Table(mpconfig[1]).stuck
         \/ At(B, "started") /\ ~Answered(boot.next)
         \/ ram.panic # ""
InMain == cpu[B].at \notin {"lapicinit", "idtinit", "xchg", "scheduler"}
Fairness ==
    /\ []<>(~InMain \/ Stuck) \/ []<><<BootMain>>_<<vars, bootvars>>
    /\ \A c \in UNION {m.cpus : m \in Machines} : WF_<<vars, bootvars>>(c \in machine.cpus /\ Boots(c))
BootSpec == BootInit /\ [][BootNext]_<<vars, bootvars>> /\ Fairness

-----------------------------------------------------------------------------
(* Properties.                                                                                     *)

\* The kernel is in memory as the linker laid it out: reading whole sectors has not overwritten a
\* segment that was there, nor zeroes that were to be zero.
KernelLoaded ==
    At(B, "kinit1") =>
        \A k \in DOMAIN machine.segments :
            LET ph == machine.segments[k]
            IN \A i \in 0..(ph.memsz - 1) : boot.image[ph.paddr + i] = IF i < ph.filesz THEN <<ph.off + i>> ELSE 0

\* Processors that start one after the other over the same bytes of low memory get stacks of their own,
\* which they can reach with the page table they have at first; and no process runs, on whatever
\* processor finds it, before userinit has finished with it and the allocator takes its lock.
StartedWhole ==
    /\ \A c \in machine.cpus : (c # B /\ cpu[c].stack # NULL) =>
          /\ cpu[c].dir = "entrypgdir" => cpu[c].stack <= LOW
          /\ \A d \in machine.cpus \ {c} : cpu[d].stack # cpu[c].stack
          /\ cpu[c].stack \in ram.stacks
    /\ boot.runs # Nobody => /\ boot.made = {"context", "text", "tf", "cwd"} /\ boot.use_lock
                             /\ cpu[boot.runs].idt /\ cpu[boot.runs].dir = "kpgdir"

\* The ways in which a device's interrupt gets to a processor.  The old controllers are wired to the
\* first one, where lapicinit has not masked them; imcr cuts them off.
Ways(irq) ==
    (IF (irq % 8) \notin boot.pic[(irq \div 8) + 1].mask /\ ~cpu[B].masked /\ ~boot.mp.imcr
        /\ (irq < 8 \/ IRQ_SLAVE \notin boot.pic[1].mask)
     THEN {<<"pic", B, boot.pic[(irq \div 8) + 1].vector + (irq % 8)>>} ELSE {})
    \cup (IF irq # 0 /\ boot.ioapic[irq].enabled THEN {<<"ioapic", boot.ioapic[irq].dest, boot.ioapic[irq].vector>>} ELSE {})
    \cup {<<"lapic", c, T_IRQ0>> : c \in IF irq = 0 THEN {d \in machine.cpus : cpu[d].timer /\ cpu[d].self = 0} ELSE {}}
\* When the first process runs, each device interrupts one processor in one way, with the vector trap
\* knows it by: one that has been started and has interrupts on, or that is about to.  The clock
\* interrupts processor 0, which counts the ticks.
InterruptsArrive ==
    boot.runs # Nobody =>
        \A irq \in {IRQ.TIMER, IRQ.KBD, IRQ.IDE} \cup (IF machine.uart THEN {IRQ.COM1} ELSE {}) :
            /\ Cardinality(Ways(irq)) = 1
            /\ \A w \in Ways(irq) : /\ w[2] \in machine.cpus /\ w[3] = T_IRQ0 + irq
                                    /\ cpu[w[2]].at \in {"idtinit", "xchg", "scheduler"}
                                    /\ irq = IRQ.TIMER => cpu[w[2]].self = 0

\* Whatever the BIOS says, if it names no processor that is not there and nothing mpinit does not know,
\* every processor it names comes up and the first process is run.
Honest ==
    mpconfig # <<>> =>
        LET S == Table(mpconfig[1]) IN ~S.stuck /\ (S.ismp => 0..(S.ncpu - 1) \subseteq machine.cpus)
Named(c) == c = B \/ (boot.mp.ismp /\ c < boot.mp.ncpu)
AllUp == boot.runs # Nobody /\ \A c \in machine.cpus : Named(c) => (At(c, "scheduler") /\ cpu[c].sti)
BootsUp == Honest => <>AllUp
=============================================================================
