------------------------------- MODULE Memory -------------------------------
(***************************************************************************)
(* Physical pages (kalloc.c), page tables and address spaces (vm.c), and   *)
(* what fork, sbrk, exec, exit and wait do with them (proc.c, exec.c), for *)
(* processes that run programs on any number of pages.  Boot comes first:  *)
(* it says how the system starts, and when these steps are taken.          *)
(*                                                                         *)
(* A page is PGSIZE cells: of a directory, of a page table or of memory.   *)
(* A cell is a pair: <<p, "P">> and <<p, "PU">> name a page, the second    *)
(* one for users too; JUNK, with which kfree fills a page, names one as    *)
(* well, so a page that is used without being cleared is noticed.          *)
(* One turn of a loop over pages is a step; only the free list is shared.  *)
(***************************************************************************)
EXTENDS Integers, Sequences, FiniteSets, SequencesExt

CONSTANTS Procs,     \* process slots; 1 runs the program itself
          PGSIZE,    \* cells of a page
          KERNBASE,  \* the first page of the kernel's half of the address space
          kmap,      \* the pages there that are mapped, in the order of their ranges
          Programs   \* by name: the calls of a program

ASSUME MemoryAssumption ==
    /\ Procs \subseteq Nat \ {0} /\ 1 \in Procs
    /\ PGSIZE \in Nat \ {0} /\ KERNBASE \in 1..(PGSIZE * PGSIZE)
    /\ kmap \in Seq(KERNBASE..(PGSIZE * PGSIZE - 1))

\* What the calls are given; only a program's first process forks children that do something.
WellFormed(c) ==
    /\ c.call = "exec" => c.pages \in Nat
    /\ c.call = "sbrk" => IF "to" \in DOMAIN c THEN c.to \in Nat ELSE c.n \in Int
    /\ c.call \in {"store", "load", "int", "string"} => c.at = "kernel" \/ (c.at = "page" /\ c.page \in Nat) \/ (c.at = "end" /\ c.back \in Int)
    /\ c.call = "store" => c.v \in Int
ASSUME ProgramsAssumption ==
    \A n \in DOMAIN Programs :
        /\ Len(Programs[n]) \in Nat
        /\ \A i \in 1..Len(Programs[n]) :
              LET c == Programs[n][i]
              IN /\ WellFormed(c)
                 /\ c.call = "fork" => /\ Len(c.child) \in Nat
                                       /\ \A j \in 1..Len(c.child) : c.child[j].call # "fork" /\ WellFormed(c.child[j])

VARIABLES ram,   \* free: kmem.freelist; mem: contents; lost: pages nobody has any more; panic;
              \* kpgdir; stacks: of the processors but the first
          test,  \* the program that runs
          proc   \* processes

vars == <<ram, test, proc>>

ZERO == <<0, "">>
JUNK == <<1, "P">>
NULL == 0
Pages == 1..Len(ram.mem)
Filled(c) == [k \in 0..(PGSIZE - 1) |-> c]
Present(c) == c[2] # ""
PGROUNDUP(n) == (n + PGSIZE - 1) \div PGSIZE   \* in pages
SPACE == PGSIZE * PGSIZE * PGSIZE              \* addresses wrap around there
PDX(v) == v \div PGSIZE
PTX(v) == v % PGSIZE

\* new: the page directory that is being made; at: the next call; short: an allocation of this
\* process has failed; torn: it has grown by a page that is not mapped; oops: as in FileSystem.
NoProc == [st |-> "UNUSED", parent |-> 0, kid |-> 0, at |-> 1, todo |-> <<>>, kstack |-> NULL, pgdir |-> NULL,
           new |-> NULL, sz |-> 0, short |-> FALSE, torn |-> FALSE, killed |-> FALSE, oops |-> FALSE]

-----------------------------------------------------------------------------
(* kalloc.c: operators on ram, and results <<ram, page>>.                                          *)

Panic(M, why) == IF M.panic = "" THEN [M EXCEPT !.panic = why] ELSE M
kfree(M, p) == [M EXCEPT !.mem[p] = Filled(JUNK), !.free = <<p>> \o @]
kalloc(M) == IF M.free = <<>> THEN <<M, NULL>> ELSE <<[M EXCEPT !.free = Tail(@)], Head(M.free)>>
Clear(a) == IF a[2] = NULL THEN a ELSE <<[a[1] EXCEPT !.mem[a[2]] = Filled(ZERO)], a[2]>>
Lose(M, p) == [M EXCEPT !.lost = @ \cup {p}]

(* vm.c: page tables.                                                                              *)

\* The table of virtual page v, made if it is not there and alloc says so; or NULL.
Enter(d, v, a) == IF a[2] = NULL THEN a ELSE <<[a[1] EXCEPT !.mem[d][PDX(v)] = <<a[2], "P">>], a[2]>>
\* Mutant: a new table is not cleared.
walkpgdirDirty(M, d, v, alloc) ==
    IF Present(M.mem[d][PDX(v)]) THEN <<M, M.mem[d][PDX(v)][1]>>
    ELSE IF alloc THEN Enter(d, v, kalloc(M)) ELSE <<M, NULL>>
walkpgdir(M, d, v, alloc) ==
    IF Present(M.mem[d][PDX(v)]) THEN <<M, M.mem[d][PDX(v)][1]>>
    ELSE IF alloc THEN Enter(d, v, Clear(kalloc(M))) ELSE <<M, NULL>>
PTE(M, d, v) == LET t == walkpgdir(M, d, v, FALSE)[2] IN IF t = NULL THEN ZERO ELSE M.mem[t][PTX(v)]
SetPTE(M, d, v, c) == [M EXCEPT !.mem[walkpgdir(M, d, v, FALSE)[2]][PTX(v)] = c]

\* Map one page: <<ram, whether it worked>>.
Put(w, v, c) ==
    IF w[2] = NULL THEN <<w[1], FALSE>>
    ELSE <<[(IF Present(w[1].mem[w[2]][PTX(v)]) THEN Panic(w[1], "remap") ELSE w[1]) EXCEPT !.mem[w[2]][PTX(v)] = c], TRUE>>
mappages(M, d, v, c) == Put(walkpgdir(M, d, v, TRUE), v, c)

\* The kernel's half of an address space.  Where that fails, what it has so far is lost.
Tables(M, d) == {M.mem[d][k][1] : k \in {j \in 0..(PGSIZE - 1) : Present(M.mem[d][j])}}
Mapped(w, d) == IF w[2] THEN <<w[1], d>> ELSE <<[w[1] EXCEPT !.lost = @ \cup {d} \cup Tables(w[1], d)], NULL>>
MapNext(w, d, v) == IF w[2] /\ w[1].panic = "" THEN mappages(w[1], d, v, <<0, "P">>) ELSE w
MapKernel(a) ==
    LET w[k \in 0..Len(kmap)] == IF k = 0 THEN <<a[1], TRUE>> ELSE MapNext(w[k - 1], a[2], kmap[k])
    IN IF a[2] = NULL THEN a ELSE Mapped(w[Len(kmap)], a[2])
setupkvm(M) == MapKernel(Clear(kalloc(M)))

\* Free the pages mapped from one size (in cells) down to another; where a table is missing, PGSIZE
\* pages are passed over.
UnmapNext(w, d, v) ==
    IF v < w[2] THEN w
    ELSE IF walkpgdir(w[1], d, v, FALSE)[2] = NULL THEN <<w[1], v + PGSIZE>>
    ELSE IF ~Present(PTE(w[1], d, v)) THEN w
    ELSE <<SetPTE(kfree(w[1], PTE(w[1], d, v)[1]), d, v, ZERO), v + 1>>
Unmap(M, d, from, to) ==
    LET w[k \in 0..(to - from)] == IF k = 0 THEN <<M, from>> ELSE UnmapNext(w[k - 1], d, from + k - 1)
    IN w[to - from][1]
\* Mutant: a page that is still needed in part is freed.
deallocuvmDown(M, d, oldsz, newsz) == IF newsz >= oldsz THEN M ELSE Unmap(M, d, newsz \div PGSIZE, PGROUNDUP(oldsz))
deallocuvm(M, d, oldsz, newsz) == IF newsz >= oldsz THEN M ELSE Unmap(M, d, PGROUNDUP(newsz), PGROUNDUP(oldsz))

\* Mutant: the tables are left.
freevmPages(M, d) == kfree(deallocuvm(M, d, KERNBASE * PGSIZE, 0), d)
FreeTable(M, d, k) == IF Present(M.mem[d][k]) THEN kfree(M, M.mem[d][k][1]) ELSE M
freevm(M, d) ==
    LET w[k \in 0..PGSIZE] == IF k = 0 THEN deallocuvm(M, d, KERNBASE * PGSIZE, 0) ELSE FreeTable(w[k - 1], d, k - 1)
    IN kfree(w[PGSIZE], d)

\* One page more, at v: "ok", "none" if there is none, "torn" if it is there and cannot be mapped.
\* allocuvm goes on then, copyuvm gives up, and both lose the page.
Grown(w, p) == IF w[2] THEN <<w[1], "ok">> ELSE <<Lose(w[1], p), "torn">>
NewPage(a, d, v) == IF a[2] = NULL THEN <<a[1], "none">> ELSE Grown(mappages(a[1], d, v, <<a[2], "PU">>), a[2])
\* Mutant: the page is as it was left.
allocuvmDirty(M, d, v) == NewPage(kalloc(M), d, v)
allocuvm(M, d, v) == NewPage(Clear(kalloc(M)), d, v)
Copied(a, from) == IF a[2] = NULL THEN a ELSE <<[a[1] EXCEPT !.mem[a[2]] = from], a[2]>>
copyuvm(M, old, d, v) == NewPage(Copied(kalloc(M), M.mem[PTE(M, old, v)[1]]), d, v)

clearpteu(M, d, v) ==
    IF walkpgdir(M, d, v, FALSE)[2] = NULL THEN Panic(M, "clearpteu") ELSE SetPTE(M, d, v, <<PTE(M, d, v)[1], IF Present(PTE(M, d, v)) THEN "P" ELSE "">>)
\* The text of a program: loaduvm wants the tables to be there, and does not ask whether the page is.
loaduvm(M, d, n) ==
    LET Text(p) == {v \in 0..(n - 1) : Present(PTE(M, d, v)) /\ PTE(M, d, v)[1] = p}
    IN IF \E v \in 0..(n - 1) : walkpgdir(M, d, v, FALSE)[2] = NULL THEN Panic(M, "loaduvm: address should exist")
       ELSE [M EXCEPT !.mem = [p \in DOMAIN @ |-> IF Text(p) = {} THEN @[p] ELSE [@[p] EXCEPT ![0] = <<CHOOSE v \in Text(p) : TRUE, "text">>]]]

-----------------------------------------------------------------------------
(* Processes.                                                                                      *)

Code(p) == IF proc[p].kid = 0 THEN Programs[test] ELSE Programs[test][proc[p].kid].child
Instr(p) == Code(p)[proc[p].at]
Op(p) == Head(proc[p].todo)
Does(p, name) == ram.panic = "" /\ proc[p].todo # <<>> /\ Op(p)[1] = name
Idle(p) == ram.panic = "" /\ proc[p].st = "RUNNABLE" /\ proc[p].todo = <<>>
Calls(p, name) == Idle(p) /\ ~proc[p].killed /\ proc[p].at <= Len(Code(p)) /\ Instr(p).call = name

\* The record of a process back from its call: where memory has run out, it gives up.
Back(p, ok, short) ==
    LET bad == (Instr(p).want = "ok" /\ ~ok) \/ (Instr(p).want = "fail" /\ ok)
    IN [proc[p] EXCEPT !.todo = <<>>, !.short = @ \/ short, !.new = NULL,
                       !.at = IF bad THEN Len(Code(p)) + 1 ELSE @ + 1,
                       !.oops = @ \/ (bad /\ ~short /\ ~proc[p].short)]
Returns(p, ok, short) == proc' = [proc EXCEPT ![p] = Back(p, ok, short)]
Do(p, op) == proc' = [proc EXCEPT ![p].todo = <<op>>]

\* fork: a slot and a kernel stack, the kernel's half, then a page at a time.
Fork(p) ==
    /\ Calls(p, "fork")
    /\ LET free == {q \in Procs : proc[q].st = "UNUSED"}
           a == kalloc(ram)
       IN IF free = {} THEN Returns(p, FALSE, FALSE) /\ UNCHANGED ram
          ELSE IF a[2] = NULL THEN Returns(p, FALSE, TRUE) /\ UNCHANGED ram
          ELSE \E q \in free :
               /\ \A r \in free : q <= r
               /\ ram' = a[1]
               /\ proc' = [proc EXCEPT ![q] = [NoProc EXCEPT !.st = "EMBRYO", !.kstack = a[2]], ![p].todo = <<<<"setupkvm", q>>>>]
    /\ UNCHANGED test

\* Undo what fork has so far.
Unfork(p, q) == proc' = [proc EXCEPT ![p] = Back(p, FALSE, TRUE), ![q] = NoProc]
ForkKernel(p) ==
    /\ Does(p, "setupkvm")
    /\ LET q == Op(p)[2]
           d == setupkvm(ram)
       IN IF d[2] = NULL THEN ram' = kfree(d[1], proc[q].kstack) /\ Unfork(p, q)
          ELSE ram' = d[1] /\ proc' = [proc EXCEPT ![p].todo = <<<<"copyuvm", q, 0>>>>, ![p].new = d[2]]
    /\ UNCHANGED test
ForkPage(p) ==
    /\ Does(p, "copyuvm")
    /\ LET q == Op(p)[2]
           v == Op(p)[3]
           d == proc[p].new
           w == copyuvm(ram, proc[p].pgdir, d, v)
       IN IF v * PGSIZE >= proc[p].sz
          THEN /\ proc' = [proc EXCEPT ![p] = Back(p, TRUE, FALSE),
                                       ![q] = [NoProc EXCEPT !.st = "RUNNABLE", !.parent = p, !.kid = proc[p].at, !.kstack = proc[q].kstack,
                                                             !.pgdir = d, !.sz = proc[p].sz]]
               /\ UNCHANGED ram
          ELSE IF ~Present(PTE(ram, proc[p].pgdir, v))
          THEN ram' = Panic(ram, "copyuvm: page not present") /\ UNCHANGED proc
          ELSE IF w[2] = "ok" THEN ram' = w[1] /\ Do(p, <<"copyuvm", q, v + 1>>)
          ELSE ram' = kfree(freevm(w[1], d), proc[q].kstack) /\ Unfork(p, q)
    /\ UNCHANGED test

\* sbrk: to shrink is one step, to grow one for each page.
Sbrk(p) ==
    /\ Calls(p, "sbrk")
    /\ LET sz == proc[p].sz
           n == IF "to" \in DOMAIN Instr(p) THEN Instr(p).to - sz ELSE Instr(p).n
           newsz == (sz + n) % SPACE
       IN IF n > 0 /\ newsz >= KERNBASE * PGSIZE THEN Returns(p, FALSE, FALSE) /\ UNCHANGED ram
          ELSE IF n > 0 /\ newsz > sz THEN Do(p, <<"allocuvm", PGROUNDUP(sz), newsz>>) /\ UNCHANGED ram
          ELSE IF n > 0 \/ newsz >= sz THEN Returns(p, TRUE, FALSE) /\ UNCHANGED ram
          ELSE /\ ram' = deallocuvm(ram, proc[p].pgdir, sz, newsz)
               /\ proc' = [proc EXCEPT ![p] = [Back(p, newsz > 0, FALSE) EXCEPT !.sz = IF newsz > 0 THEN newsz ELSE @]]
    /\ UNCHANGED test
SbrkPage(p) ==
    /\ Does(p, "allocuvm")
    /\ LET v == Op(p)[2]
           newsz == Op(p)[3]
           w == allocuvm(ram, proc[p].pgdir, v)
       IN IF v * PGSIZE >= newsz
          THEN proc' = [proc EXCEPT ![p] = [Back(p, TRUE, FALSE) EXCEPT !.sz = newsz]] /\ UNCHANGED ram
          ELSE IF w[2] = "none"
          THEN ram' = deallocuvm(ram, proc[p].pgdir, newsz, proc[p].sz) /\ Returns(p, FALSE, TRUE)
          ELSE /\ ram' = w[1]
               /\ proc' = [proc EXCEPT ![p].todo = <<<<"allocuvm", v + 1, newsz>>>>, ![p].torn = @ \/ w[2] = "torn"]
    /\ UNCHANGED test

\* exec of a program of n pages, with a page that is not accessible and a page of stack above it.
Exec(p) ==
    /\ Calls(p, "exec")
    /\ LET d == setupkvm(ram)
       IN /\ ram' = d[1]
          /\ IF d[2] = NULL THEN Returns(p, FALSE, TRUE)
             ELSE proc' = [proc EXCEPT ![p].todo = <<<<"exec", 0, FALSE>>>>, ![p].new = d[2]]
    /\ UNCHANGED test
ExecPage(p) ==
    /\ Does(p, "exec")
    /\ LET v == Op(p)[2]
           n == Instr(p).pages
           d == proc[p].new
           M == IF v = n THEN loaduvm(ram, d, n) ELSE ram
           newsz == IF v < n THEN n ELSE n + 2
           w == allocuvm(M, d, v)
       IN /\ v < n + 2
          /\ IF M.panic # "" THEN ram' = M /\ UNCHANGED proc
             ELSE IF newsz >= KERNBASE THEN ram' = freevm(M, d) /\ Returns(p, FALSE, FALSE)
             ELSE IF w[2] = "none" THEN ram' = freevm(w[1], d) /\ Returns(p, FALSE, TRUE)
             ELSE ram' = w[1] /\ Do(p, <<"exec", v + 1, Op(p)[3] \/ w[2] = "torn">>)
    /\ UNCHANGED test
\* The arguments go to the stack; then the old image is freed. A growth that was torn leaves the stack
\* without a table, and uva2ka reads its entry at address 0, where the old image is: that traps, or the
\* word there is no entry and exec fails, or it names a page, and what follows is not modelled ("trap").
ExecCommit(p) ==
    /\ Does(p, "exec")
    /\ LET n == Instr(p).pages
           d == proc[p].new
           M == clearpteu(ram, d, n)
           stack == PTE(M, d, n + 1)
       IN /\ Op(p)[2] = n + 2
          /\ IF M.panic # "" THEN ram' = M /\ UNCHANGED proc
             ELSE IF walkpgdir(M, d, n + 1, FALSE)[2] = NULL
             THEN \/ ram' = Panic(M, "trap") /\ UNCHANGED proc
                  \/ Present(PTE(ram, proc[p].pgdir, 0)) /\ ram' = freevm(M, d) /\ Returns(p, FALSE, TRUE)
             ELSE IF ~Present(stack) \/ ~Instr(p).fits THEN ram' = freevm(M, d) /\ Returns(p, FALSE, ~Present(stack))
             ELSE /\ ram' = freevm([M EXCEPT !.mem[stack[1]][PGSIZE - 1] = <<0, "argv">>], proc[p].pgdir)
                  /\ proc' = [proc EXCEPT ![p] = [Back(p, TRUE, FALSE) EXCEPT !.pgdir = d, !.sz = (n + 2) * PGSIZE, !.torn = Op(p)[3]]]
    /\ UNCHANGED test

\* The address an instruction is about; nothing of the kernel's half may be touched.
Address(p) ==
    (IF Instr(p).at = "kernel" THEN KERNBASE * PGSIZE ELSE IF Instr(p).at = "page" THEN Instr(p).page * PGSIZE ELSE proc[p].sz - Instr(p).back) % SPACE
Reaches(p) == PTE(ram, proc[p].pgdir, Address(p) \div PGSIZE)
Trap(p) == Reaches(p)[2] # "PU" /\ proc' = [proc EXCEPT ![p].killed = TRUE] /\ UNCHANGED ram
Store(p) ==
    /\ Calls(p, "store")
    /\ \/ Trap(p)
       \/ /\ Reaches(p)[2] = "PU"
          /\ ram' = [ram EXCEPT !.mem[Reaches(p)[1]][Address(p) % PGSIZE] = <<Instr(p).v, "data">>]
          /\ Returns(p, TRUE, FALSE)
    /\ UNCHANGED test
Load(p) ==
    /\ Calls(p, "load")
    /\ \/ Trap(p)
       \/ /\ Reaches(p)[2] = "PU"
          /\ Returns(p, ram.mem[Reaches(p)[1]][Address(p) % PGSIZE] = Instr(p).v, FALSE)
          /\ UNCHANGED ram
    /\ UNCHANGED test

\* What a call is given (syscall.c): an address is compared with sz, and then the kernel reads there
\* itself, for users or not, an int or up to the end of a string.  Its first byte that stops it:
Stops(p) == {a \in Address(p)..(proc[p].sz - 1) : ~Present(PTE(ram, proc[p].pgdir, a \div PGSIZE))
                                                \/ ram.mem[PTE(ram, proc[p].pgdir, a \div PGSIZE)[1]][a % PGSIZE] = ZERO}
First(A) == CHOOSE a \in A : \A b \in A : a <= b
Traps(p, a) == IF Present(PTE(ram, proc[p].pgdir, a \div PGSIZE)) THEN UNCHANGED ram ELSE ram' = Panic(ram, "trap")
fetchint(p) ==
    /\ Calls(p, "int")
    /\ IF Address(p) >= proc[p].sz THEN Returns(p, FALSE, FALSE) /\ UNCHANGED ram
       ELSE Returns(p, TRUE, FALSE) /\ Traps(p, Address(p))
    /\ UNCHANGED test
fetchstr(p) ==
    /\ Calls(p, "string")
    /\ IF Stops(p) = {} THEN Returns(p, FALSE, FALSE) /\ UNCHANGED ram
       ELSE Returns(p, TRUE, FALSE) /\ Traps(p, First(Stops(p)))
    /\ UNCHANGED test

\* Children that sit around until they are killed, and the parent that waits until they do.
Children(p) == {q \in Procs : proc[q].parent = p /\ proc[q].st \in {"RUNNABLE", "ZOMBIE"}}
Await(p) ==
    /\ Calls(p, "await")
    /\ \A q \in Children(p) : proc[q].st = "ZOMBIE" \/ Calls(q, "sit")
    /\ Returns(p, TRUE, FALSE)
    /\ UNCHANGED <<ram, test>>
Kill(p) ==
    /\ Calls(p, "kill")
    /\ proc' = [q \in Procs |-> IF q = p THEN Back(p, TRUE, FALSE) ELSE [proc[q] EXCEPT !.killed = @ \/ q \in Children(p)]]
    /\ UNCHANGED <<ram, test>>

Exit(p) ==
    /\ Idle(p) /\ (proc[p].killed \/ proc[p].at > Len(Code(p)))
    /\ proc' = [q \in Procs |-> IF q = p THEN [proc[p] EXCEPT !.st = "ZOMBIE"]
                                ELSE IF proc[q].parent = p THEN [proc[q] EXCEPT !.parent = 1] ELSE proc[q]]
    /\ UNCHANGED <<ram, test>>

\* The parent frees the stack and the memory of its child.
Wait(p) ==
    /\ Calls(p, "wait")
    /\ IF Children(p) = {} THEN Returns(p, FALSE, FALSE) /\ UNCHANGED ram
       ELSE \E q \in Children(p) :
            /\ proc[q].st = "ZOMBIE"
            /\ ram' = freevm(kfree(ram, proc[q].kstack), proc[q].pgdir)
            /\ proc' = [proc EXCEPT ![p] = [Back(p, TRUE, FALSE) EXCEPT !.oops = @ \/ proc[q].oops], ![q] = NoProc]
    /\ UNCHANGED test

Halted == ram.panic # "" \/ proc[1].st = "ZOMBIE"
Next ==
    \/ \E p \in Procs :
          \/ Fork(p) \/ ForkKernel(p) \/ ForkPage(p) \/ Sbrk(p) \/ SbrkPage(p) \/ Exec(p) \/ ExecPage(p) \/ ExecCommit(p)
          \/ Store(p) \/ Load(p) \/ fetchint(p) \/ fetchstr(p) \/ Await(p) \/ Kill(p) \/ Exit(p) \/ Wait(p)
    \/ Halted /\ UNCHANGED vars

-----------------------------------------------------------------------------
(* Properties.                                                                                     *)

\* What is reached from a page directory that x has: <<x, where, page>>.
Reached(x, d) ==
    IF d = NULL THEN {}
    ELSE {<<x, "dir", 0, d>>}
         \cup {<<x, "table", k, ram.mem[d][k][1]>> : k \in {j \in 0..(PGSIZE - 1) : Present(ram.mem[d][j])}}
         \cup {<<x, "page", v, PTE(ram, d, v)[1]>> : v \in {w \in 0..(KERNBASE - 1) : Present(PTE(ram, d, w))}}
InUse == (UNION {Reached(<<p, "pgdir">>, proc[p].pgdir) \cup Reached(<<p, "new">>, proc[p].new) : p \in Procs})
         \cup Reached(<<0, "kpgdir">>, ram.kpgdir) \cup {<<<<0, "cpu">>, "stack", 0, p>> : p \in ram.stacks \ {NULL}}
         \cup {<<<<p, "proc">>, "kstack", 0, proc[p].kstack>> : p \in {q \in Procs : proc[q].kstack # NULL}}

\* At every moment each page is free, in use in one place, or was lost at one of three places
\* (setupkvm, copyuvm and allocuvm when memory runs out under them), and never two of these: the
\* undoing of a fork, of a sbrk and of an exec that fail half way frees all the rest, once.
PagesAccounted ==
    ram.panic = "" =>
        /\ {u[4] : u \in InUse} \cup ToSet(ram.free) \cup ram.lost = Pages
        /\ Cardinality(InUse) + Len(ram.free) + Cardinality(ram.lost) = Cardinality(Pages)

\* Between calls a process can reach exactly the pages below its size, the one below its stack
\* excepted, and the kernel is mapped in all of them; where a growth was torn, nothing more than that.
AddressSpaces ==
    ram.panic = "" =>
        \A p \in Procs : (proc[p].st = "RUNNABLE" /\ proc[p].todo = <<>>) =>
            LET There(v) == Present(PTE(ram, proc[p].pgdir, v))
            IN /\ \A v \in 0..(KERNBASE - 1) : IF v * PGSIZE >= proc[p].sz THEN ~There(v) ELSE There(v) \/ proc[p].torn
               /\ \A k \in DOMAIN kmap : There(kmap[k])
               /\ Cardinality({v \in 0..(KERNBASE - 1) : PTE(ram, proc[p].pgdir, v)[2] = "P"}) <= 1

\* The tests of usertests.c that are about memory pass, unless memory runs out: what was written is
\* read, in parent and child, and what is new is zero.
TestsPass == \A p \in Procs : ~proc[p].oops

\* The kernel panics over memory only where a page was not mapped because the memory for its table
\* ran out, and allocuvm went on.
OnlyTornPanics ==
    ram.panic # "" => /\ ram.panic # "remap"
                      /\ \E p \in Procs : proc[p].torn \/ (proc[p].todo # <<>> /\ Op(p)[1] = "exec" /\ Op(p)[3])
=============================================================================
