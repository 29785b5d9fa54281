----------------------------- MODULE BootProofs -----------------------------
(***************************************************************************)
(* What is proved of memory and of the start, from the boot sector on.     *)
(*                                                                         *)
(* EachPageOnce: each page is free, in use in one place, or lost where the *)
(* code is known to lose it.  Each step of the start has a lemma that says *)
(* that its pages have owners; those of the processes are in MemoryProofs. *)
(*                                                                         *)
(* EachStartsWhole: processors have stacks of their own and start with all *)
(* they need, as does the first process.  The proof says which processor   *)
(* may be under way while main.c is where it is.                           *)
(***************************************************************************)
EXTENDS Boot, MemoryProofs

(***************************************************************************)
(* What happens to memory while the system starts.                         *)
(***************************************************************************)
\* A page more.
LEMMA Given ==
  ASSUME NEW M, NEW own, NEW D, Owned(M, own, D)
  PROVE  LET p == Len(M.mem) + 1
             N == Give(M, p)
         IN \E new : /\ Owned(N, new, D) /\ All(N) = All(M) \cup {p} /\ Len(N.mem) = p /\ N.kpgdir = M.kpgdir /\ N.stacks = M.stacks
                     /\ new[p] = Free /\ \A q \in All(M) : new[q] = own[q]
<1> DEFINE p == Len(M.mem) + 1
           L == [M EXCEPT !.mem = Append(@, Filled(JUNK))]
           N == Give(M, p)
           mid == [q \in All(M) \cup {p} |-> IF q = p THEN Taken ELSE own[q]]
<1>0. M \in Ram /\ own \in [All(M) -> Owner] /\ Len(M.mem) \in Nat /\ p \notin All(M) /\ M.mem \in Seq(Contents)
  <2>1. M \in Ram /\ own \in [All(M) -> Owner]
    BY DEF Owned
  <2>2. Len(M.mem) \in Nat /\ M.mem \in Seq(Contents)
    BY <2>1, MemType DEF Ram
  <2> QED BY <2>1, <2>2 DEF All
<1>1. /\ L.mem \in Seq(Contents) /\ Len(L.mem) = p
      /\ \A q \in All(M) : L.mem[q] = M.mem[q]
      /\ L.mem[p] = Filled(JUNK)
  <2> DEFINE s == Append(M.mem, Filled(JUNK))
  <2>1. /\ s \in Seq(Contents) /\ Len(s) = p
        /\ \A q \in 1..Len(M.mem) : s[q] = M.mem[q]
        /\ s[p] = Filled(JUNK)
    BY <1>0, Cells, AppendProperties
  <2>2. L.mem = s
    BY <1>0 DEF Ram
  <2> HIDE DEF s, L
  <2> QED BY <2>1, <2>2 DEF All
<1>2. /\ L \in Ram /\ All(L) = All(M) \cup {p} /\ L.free = M.free /\ L.lost = M.lost /\ L.kpgdir = M.kpgdir /\ L.stacks = M.stacks
  <2>1. L \in Ram /\ L.free = M.free /\ L.lost = M.lost /\ L.kpgdir = M.kpgdir /\ L.stacks = M.stacks
    <3> DEFINE s == L.mem
    <3>1. L = [M EXCEPT !.mem = s] /\ s \in Seq(Contents)
      BY <1>0, <1>1 DEF Ram
    <3> HIDE DEF s
    <3> QED BY <1>0, <3>1 DEF Ram
  <2>2. All(L) = All(M) \cup {p}
    <3> HIDE DEF L
    <3> QED BY <1>0, <1>1 DEF All
  <2> QED BY <2>1, <2>2
<1>3. /\ mid \in [All(L) -> Owner] /\ mid[p][1] = "taken" /\ \A q \in All(M) : mid[q] = own[q]
  BY <1>0, <1>2, Triple DEF Taken, Owner
<1> HIDE DEF L, mid
<1>4. /\ Of(mid, L, "free") = Of(own, M, "free") /\ Of(mid, L, "lost") = Of(own, M, "lost")
      /\ Of(mid, L, "table") = Of(own, M, "table") /\ Of(mid, L, "page") = Of(own, M, "page")
  <2>1. Of(mid, L, "free") = Of(own, M, "free")
    BY <1>2, <1>3 DEF Of
  <2>2. Of(mid, L, "lost") = Of(own, M, "lost")
    BY <1>2, <1>3 DEF Of
  <2>3. Of(mid, L, "table") = Of(own, M, "table")
    BY <1>2, <1>3 DEF Of
  <2>4. Of(mid, L, "page") = Of(own, M, "page")
    BY <1>2, <1>3 DEF Of
  <2> QED BY <2>1, <2>2, <2>3, <2>4
<1>5. \A kind : \A q \in Of(own, M, kind) : q \in All(M) /\ mid[q] = own[q] /\ L.mem[q] = M.mem[q]
  BY <1>1, <1>3 DEF Of
<1>6. \A d \in D : d \in All(M) /\ mid[d] = own[d] /\ L.mem[d] = M.mem[d] /\ Held(mid[d])
  BY <1>1, <1>3 DEF Owned
<1>7. TableCells(M, own, D) /\ PageCells(M, own) /\ KernelCells(M, own)
  BY DEF Owned
<1>8. All(M) \subseteq All(L)
  BY <1>2
<1>9. TableCells(L, mid, D) /\ PageCells(L, mid) /\ KernelCells(L, mid)
  BY <1>4, <1>5, <1>6, <1>7, <1>8, CellsPass
<1>10. Owned(L, mid, D)
  BY <1>2, <1>3, <1>4, <1>6, <1>9 DEF Owned
<1>11. p \in All(L) /\ p \notin D /\ Held(mid[p])
  BY <1>0, <1>2, <1>3 DEF Owned, Held
<1>12. N = kfree(L, p)
  BY DEF Give, L
<1> DEFINE new == Now(mid, p, Free)
<1>13. Owned(N, new, D) /\ All(N) = All(L)
  BY <1>10, <1>11, <1>12, Release
<1>14. new[p] = Free /\ \A q \in All(M) : new[q] = own[q]
  BY <1>0, <1>2, <1>3 DEF Now
<1>15. N.kpgdir = M.kpgdir /\ N.stacks = M.stacks /\ Len(N.mem) = p
  <2>1. N.kpgdir = L.kpgdir /\ N.stacks = L.stacks
    BY <1>2, <1>12 DEF kfree, Ram
  <2>2. N \in Ram /\ L \in Ram
    BY <1>10, <1>13 DEF Owned
  <2>3. Len(N.mem) \in Nat /\ Len(L.mem) \in Nat
    BY <2>2, MemType
  <2>4. Len(N.mem) = Len(L.mem)
    BY <1>13, <2>3 DEF All
  <2> QED BY <1>1, <1>2, <2>1, <2>4
<1> QED
  BY <1>2, <1>13, <1>14, <1>15

\* Memory while kinit1 and kinit2 give pages, and a page for a processor's stack.
LEMMA NoneBelow == 1..0 = {}
  OBVIOUS
LEMMA NothingYet ==
  ASSUME NEW M, M = [free |-> <<>>, mem |-> <<>>, lost |-> {}, panic |-> "", kpgdir |-> NULL, stacks |-> {}],
         NEW V, V = [s \in Slots |-> NULL]
  PROVE  Accounts(M, V)
<1> DEFINE own == [q \in {} |-> Free]
<1>1. V \in [Slots -> Nat] /\ Dirs(V) = {}
  BY DEF Dirs, NULL
<1>0. \A S : <<>> \in Seq(S)
  BY EmptySeq
<1>e. Len(<<>>) = 0
  BY EmptySeq
<1>r. 1..0 = {}
  BY NoneBelow
<1>2. M \in Ram
  <2>1. <<>> \in Seq(Nat) /\ <<>> \in Seq(Contents) /\ {} \in SUBSET Nat /\ 0 \in Nat
    BY <1>0
  <2> QED BY <2>1 DEF Ram, NULL
<1>3. M.mem = <<>> /\ M.free = <<>> /\ M.lost = {} /\ M.stacks = {}
  OBVIOUS
<1>4. All(M) = {}
  <2>1. Len(<<>>) = 0 /\ 1..0 = {}
    BY <1>e, <1>r, Zenon
  <2> HIDE DEF own
  <2> QED BY <1>3, <2>1 DEF All
<1> HIDE DEF own
<1>5. \A kind : Of(own, M, kind) = {}
  BY <1>4 DEF Of
<1>6. IsList(<<>>, {})
  <2>1. Len(<<>>) = 0 /\ 1..0 = {} /\ <<>> \in Seq({})
    BY <1>0, <1>e, <1>r, Zenon
  <2> QED BY <2>1 DEF IsList
<1>7. TableCells(M, own, {}) /\ PageCells(M, own) /\ KernelCells(M, own)
  BY <1>5 DEF TableCells, PageCells, KernelCells
<1>8. own \in [{} -> Owner]
  BY DEF own
<1>9. Owned(M, own, {})
  BY <1>2, <1>3, <1>4, <1>5, <1>6, <1>7, <1>8 DEF Owned
<1>10. Roles(M, V, own)
  BY <1>3, <1>4 DEF Roles
<1> QED
  BY <1>1, <1>9, <1>10 DEF Accounts
LEMMA PageGiven ==
  ASSUME NEW M, NEW V, Accounts(M, V)
  PROVE  LET N == Give(M, Len(M.mem) + 1)
         IN After(M, N, V) /\ Len(N.mem) = Len(M.mem) + 1 /\ N.stacks = M.stacks
<1> DEFINE N == Give(M, Len(M.mem) + 1)
           p == Len(M.mem) + 1
<1>1. PICK own : Owned(M, own, Dirs(V)) /\ Roles(M, V, own)
  BY DEF Accounts
<1>2. V \in [Slots -> Nat]
  BY AccountsType
<1>3. PICK new : /\ Owned(N, new, Dirs(V)) /\ All(N) = All(M) \cup {p} /\ Len(N.mem) = p /\ N.kpgdir = M.kpgdir /\ N.stacks = M.stacks
                 /\ new[p] = Free /\ \A q \in All(M) : new[q] = own[q]
  BY <1>1, Given
<1>4. ~Held(Free)
  BY Triple DEF Held, Free
<1> HIDE DEF N, p
<1>5. Roles(N, V, new)
  BY <1>1, <1>3, <1>4 DEF Roles
<1>6. After(M, N, V) /\ Len(N.mem) = p /\ N.stacks = M.stacks
  BY <1>2, <1>3, <1>5 DEF After, Accounts
<1> QED
  BY <1>6 DEF N, p
LEMMA Renamed ==
  ASSUME NEW M, NEW V, Accounts(M, V), NEW x \in Nat
  PROVE  Accounts([M EXCEPT !.kpgdir = x], V) /\ [M EXCEPT !.kpgdir = x].kpgdir = x
<1> DEFINE N == [M EXCEPT !.kpgdir = x]
<1>1. PICK own : Owned(M, own, Dirs(V)) /\ Roles(M, V, own)
  BY DEF Accounts
<1>2. V \in [Slots -> Nat] /\ M \in Ram
  BY AccountsType
<1>3. N \in Ram /\ N.kpgdir = x /\ N.free = M.free /\ N.mem = M.mem /\ N.lost = M.lost /\ N.stacks = M.stacks
  BY <1>2 DEF Ram
<1> HIDE DEF N
<1>4. All(N) = All(M) /\ \A kind : Of(own, N, kind) = Of(own, M, kind)
  BY <1>3 DEF All, Of
<1>5. TableCells(N, own, Dirs(V)) /\ PageCells(N, own) /\ KernelCells(N, own)
  <2>1. TableCells(M, own, Dirs(V)) /\ PageCells(M, own) /\ KernelCells(M, own)
    BY <1>1 DEF Owned
  <2> QED BY <1>3, <1>4, <2>1, CellsPass
<1>6. Owned(N, own, Dirs(V))
  BY <1>1, <1>3, <1>4, <1>5 DEF Owned
<1>7. Roles(N, V, own)
  BY <1>1, <1>3, <1>4 DEF Roles
<1>8. Accounts(N, V)
  BY <1>2, <1>6, <1>7 DEF Accounts
<1> QED
  BY <1>3, <1>8 DEF N
LEMMA CpuStackGot ==
  ASSUME NEW M, NEW V, Accounts(M, V)
  PROVE  LET a == kalloc(M)
             N == [a[1] EXCEPT !.stacks = @ \cup {a[2]}]
         IN /\ After(M, N, V) /\ Len(N.mem) = Len(M.mem) /\ N.stacks = M.stacks \cup {a[2]}
            /\ a[2] # NULL => a[2] \in All(M) /\ a[2] \notin M.stacks
<1> DEFINE a == kalloc(M)
           p == Head(M.free)
           L == Popped(M)
           N == [a[1] EXCEPT !.stacks = @ \cup {a[2]}]
<1>1. PICK own : Owned(M, own, Dirs(V)) /\ Roles(M, V, own)
  BY DEF Accounts
<1>2. V \in [Slots -> Nat] /\ M \in Ram
  BY AccountsType
<1>3. CASE M.free = <<>>
  <2>1. a[1] = M /\ a[2] = NULL
    BY <1>3 DEF kalloc
  <2> HIDE DEF a
  <2>2. /\ N \in Ram /\ N.free = M.free /\ N.mem = M.mem /\ N.lost = M.lost /\ N.kpgdir = M.kpgdir
        /\ N.stacks = M.stacks \cup {NULL}
    <3>1. N = [M EXCEPT !.stacks = @ \cup {NULL}]
      BY <2>1
    <3> HIDE DEF N
    <3>2. M.stacks \in SUBSET Nat /\ NULL \in Nat
      BY <1>2 DEF Ram, NULL
    <3>3. M.stacks \cup {NULL} \in SUBSET Nat
      BY <3>2
    <3> QED BY <1>2, <3>1, <3>3 DEF Ram
  <2> HIDE DEF N
  <2>3. All(N) = All(M) /\ \A kind : Of(own, N, kind) = Of(own, M, kind)
    BY <2>2 DEF All, Of
  <2>4. TableCells(N, own, Dirs(V)) /\ PageCells(N, own) /\ KernelCells(N, own)
    <3>1. TableCells(M, own, Dirs(V)) /\ PageCells(M, own) /\ KernelCells(M, own)
      BY <1>1 DEF Owned
    <3> QED BY <2>2, <2>3, <3>1, CellsPass
  <2>5. Owned(N, own, Dirs(V))
    BY <1>1, <2>2, <2>3, <2>4 DEF Owned
  <2>6. Roles(N, V, own)
    BY <1>1, <2>1, <2>2, <2>3 DEF Roles
  <2>7. After(M, N, V)
    BY <1>2, <2>2, <2>5, <2>6 DEF After, Accounts
  <2> QED BY <2>1, <2>2, <2>7 DEF a, N
<1>4. CASE M.free # <<>>
  <2> DEFINE new == Now(own, p, Stack)
  <2>1. a[1] = L /\ a[2] = p
    BY <1>4 DEF kalloc, Popped
  <2>2. p \in All(M) /\ own[p][1] = "free" /\ All(L) = All(M) /\ Owned(L, new, Dirs(V))
    BY <1>1, <1>4, UseIs, Take
  <2>3. p \in Nat
    BY <2>2, AccountsType
  <2>4. L \in Ram /\ L.mem = M.mem /\ L.kpgdir = M.kpgdir /\ L.stacks = M.stacks
    <3>1. L.mem = M.mem /\ L.kpgdir = M.kpgdir /\ L.stacks = M.stacks
      BY <1>2 DEF Ram, Popped
    <3> QED BY <2>2, <3>1 DEF Owned
  <2> HIDE DEF a, L, p
  <2>5. N \in Ram /\ N.free = L.free /\ N.mem = L.mem /\ N.lost = L.lost /\ N.kpgdir = L.kpgdir /\ N.stacks = M.stacks \cup {p}
    BY <2>1, <2>3, <2>4 DEF Ram
  <2>6. new[p] = Stack /\ \A q \in All(M) : q # p => new[q] = own[q]
    BY <1>1, <2>2 DEF Owned, Now
  <2> HIDE DEF N, new
  <2>7. All(N) = All(M) /\ \A kind : Of(new, N, kind) = Of(new, L, kind)
    BY <2>4, <2>5 DEF All, Of
  <2>8. TableCells(N, new, Dirs(V)) /\ PageCells(N, new) /\ KernelCells(N, new)
    <3>1. TableCells(L, new, Dirs(V)) /\ PageCells(L, new) /\ KernelCells(L, new)
      BY <2>2 DEF Owned
    <3> QED BY <2>2, <2>5, <2>7, <3>1, CellsPass
  <2>9. Owned(N, new, Dirs(V))
    BY <2>2, <2>5, <2>7, <2>8 DEF Owned
  <2>10. ~Held(own[p])
    BY <2>2 DEF Held
  <2>11. (\A s \in Slots : V[s] # NULL => V[s] # p) /\ (\A q \in M.stacks : q # NULL => q # p)
    BY <1>1, <2>2, <2>10, Alone
  <2>12. Roles(N, V, new)
    BY <1>1, <2>2, <2>5, <2>6, <2>7, <2>11 DEF Roles
  <2>13. After(M, N, V)
    BY <1>2, <2>4, <2>5, <2>9, <2>12 DEF After, Accounts
  <2>14. p # NULL => p \notin M.stacks
    BY <2>11
  <2> QED BY <2>1, <2>2, <2>4, <2>5, <2>13, <2>14 DEF a, N
<1> QED
  BY <1>3, <1>4

(***************************************************************************)
(* How the system starts, whatever becomes of memory: where the first      *)
(* processor is, what the first process is by then, and what a processor   *)
(* has that goes for a process.                                            *)
(***************************************************************************)

Regs == {"at", "dir", "stack", "self", "timer", "masked", "idt", "sti"}
Shared == {"image", "mp", "irqmask", "pic", "ioapic", "idt", "use_lock", "next", "stack", "started", "made", "runs"}
Before == {"bootmain", "kinit1", "kvmalloc"}
Devices == {"mpinit", "lapicinit", "picinit", "ioapicinit", "consoleinit", "uartinit", "tvinit"}
Late == {"ideinit", "timerinit", "startothers", "init", "startup", "again", "started", "kinit2"}
Main == Before \cup Devices \cup Late \cup {"allocproc"}
Making == {"setupkvm", "inituvm", "userinit"}
Ready == {"idtinit", "xchg", "scheduler"}
Whole == {"context", "text", "tf", "cwd"}

Nothing(P) == P = [p \in Procs |-> NoProc]
Begun(P) ==
  /\ P = [p \in Procs |-> IF p = 1 THEN P[1] ELSE NoProc]
  /\ DOMAIN P[1] = Fields /\ P[1].st = "EMBRYO" /\ P[1].todo = <<>> /\ P[1].new = NULL /\ P[1].kid = 0 /\ P[1].at = 1
Quiet(P) == \A p \in Procs : P[p].todo = <<>> /\ P[p].kid = 0

Types ==
  /\ machine \in Machines /\ cpu = [c \in machine.cpus |-> cpu[c]] /\ \A c \in machine.cpus : DOMAIN cpu[c] = Regs
  /\ DOMAIN boot = Shared
FirstAt(l) ==
  /\ l \in Main \cup Making \cup Ready
  /\ l \in Main => Nothing(proc)
  /\ l \in Making => Begun(proc)
  /\ l \notin Ready => boot.runs = Nobody
  /\ (l \in Ready /\ boot.runs = Nobody) => Quiet(proc)
  /\ boot.runs # Nobody => test \in DOMAIN Programs
FirstHas(l) ==
  /\ l \notin Before => cpu[B].dir = "kpgdir"
  /\ l \notin Before \cup Devices => boot.idt = TRUE
  /\ l \notin Before \cup Devices \cup Late => boot.use_lock = TRUE
  /\ l \in {"setupkvm", "inituvm"} => boot.made = {"context"}
  /\ l = "userinit" => boot.made \in {{"context", "text"}, {"context", "text", "tf"}, Whole}
  /\ l \in Ready => boot.made = Whole
  /\ l \in {"xchg", "scheduler"} => cpu[B].idt = TRUE
OtherHas(r) ==
  /\ r.at \in {"off", "reset", "entryother", "mpenter", "lapicinit"} \cup Ready
  /\ r.at # "off" => boot.idt = TRUE
  /\ r.at \in {"lapicinit"} \cup Ready => r.dir = "kpgdir"
  /\ r.at \in {"xchg", "scheduler"} => r.idt = TRUE
RunsWhole == boot.runs # Nobody => /\ boot.runs \in machine.cpus /\ cpu[boot.runs].at = "scheduler"
                                   /\ cpu[boot.runs].idt = TRUE /\ cpu[boot.runs].dir = "kpgdir"
Booting ==
  /\ Types /\ FirstAt(cpu[B].at) /\ FirstHas(cpu[B].at)
  /\ \A c \in machine.cpus : c # B => OtherHas(cpu[c])
  /\ RunsWhole

\* A step of one processor.
Only(c) == /\ cpu' = [d \in machine.cpus |-> cpu'[d]] /\ (\A d \in machine.cpus : DOMAIN cpu'[d] = Regs)
           /\ \A d \in machine.cpus : d # c => cpu'[d] = cpu[d]
Shaped == cpu' = [d \in machine.cpus |-> cpu'[d]] /\ \A d \in machine.cpus : DOMAIN cpu'[d] = Regs
Same6(c) == /\ cpu'[c].dir = cpu[c].dir /\ cpu'[c].stack = cpu[c].stack /\ cpu'[c].self = cpu[c].self /\ cpu'[c].idt = cpu[c].idt
            /\ cpu'[c].sti = cpu[c].sti
LEMMA BIs ==
  ASSUME machine \in Machines
  PROVE  B \in machine.cpus /\ machine.cpus \subseteq Nat /\ (\A c \in machine.cpus : c # Nobody) /\ machine.pages >= LOW /\ LOW \in Nat
<1>1. B \in machine.cpus /\ machine.cpus \subseteq Nat /\ machine.pages >= LOW /\ LOW \in Nat
  BY BootAssumption DEF B
<1>2. \A c \in Nat : c # -1
  OBVIOUS
<1> QED
  BY <1>1, <1>2 DEF Nobody
LEMMA GotoIs ==
  ASSUME Types, NEW c \in machine.cpus, NEW l, cpu' = Goto(c, l)
  PROVE  Only(c) /\ cpu'[c].at = l /\ Same6(c)
<1>1. cpu = [d \in machine.cpus |-> cpu[d]] /\ DOMAIN cpu[c] = Regs /\ \A d \in machine.cpus : DOMAIN cpu[d] = Regs
  BY DEF Types
<1> DEFINE r == [cpu[c] EXCEPT !.at = l]
           Q == cpu'
<1>2. Q = [cpu EXCEPT ![c] = r]
  BY DEF Goto
<1>3. DOMAIN r = Regs /\ r.at = l /\ r.dir = cpu[c].dir /\ r.stack = cpu[c].stack /\ r.self = cpu[c].self /\ r.idt = cpu[c].idt /\ r.sti = cpu[c].sti
  BY <1>1 DEF Regs
<1> HIDE DEF r, Q
<1>4. Q = [d \in machine.cpus |-> Q[d]] /\ Q[c] = r /\ \A d \in machine.cpus : d # c => Q[d] = cpu[d]
  BY <1>1, <1>2
<1> QED
  BY <1>1, <1>3, <1>4 DEF Only, Same6, Q
LEMMA PutIs ==
  ASSUME Types, NEW c \in machine.cpus, NEW r, DOMAIN r = Regs, cpu' = [cpu EXCEPT ![c] = r]
  PROVE  Only(c) /\ cpu'[c] = r
<1>1. cpu = [d \in machine.cpus |-> cpu[d]] /\ \A d \in machine.cpus : DOMAIN cpu[d] = Regs
  BY DEF Types
<1> DEFINE Q == cpu'
<1>2. Q = [cpu EXCEPT ![c] = r]
  OBVIOUS
<1> HIDE DEF Q
<1>4. Q = [d \in machine.cpus |-> Q[d]] /\ Q[c] = r /\ \A d \in machine.cpus : d # c => Q[d] = cpu[d]
  BY <1>1, <1>2
<1> QED
  BY <1>1, <1>4 DEF Only, Q

\* The first processor goes on to l, and leaves processes alone.
LEMMA MainSteps ==
  ASSUME Booting, cpu[B].at \in Main, machine' = machine, proc' = proc, test' = test, boot'.runs = boot.runs, DOMAIN boot' = Shared,
         Shaped, (\A c \in machine.cpus : c # B => OtherHas(cpu[c]))', NEW l, l \in Main, cpu'[B].at = l,
         l \notin Before => cpu'[B].dir = "kpgdir", boot.idt = TRUE => boot'.idt = TRUE,
         l \notin Before \cup Devices => boot'.idt = TRUE,
         l = "allocproc" => boot'.use_lock = TRUE
  PROVE  Booting'
<1>b. B' = B
  BY DEF B
<1>1. Types'
  BY DEF Booting, Types, Shaped
<1>2. Nothing(proc) /\ boot.runs = Nobody
  BY DEF Booting, FirstAt, Main, Before, Devices, Late, Ready
<1>3. FirstAt(l)'
  <2>1. l \notin Ready /\ l \notin Making
    BY DEF Main, Before, Devices, Late, Ready, Making
  <2>2. Nothing(proc') /\ boot'.runs = Nobody
    BY <1>2
  <2> QED BY <2>1, <2>2 DEF FirstAt
<1>4. FirstHas(l)'
  <2>1. l \notin Ready /\ l \notin Making /\ l \notin {"setupkvm", "inituvm"} /\ l # "userinit" /\ l \notin {"xchg", "scheduler"}
    BY DEF Main, Before, Devices, Late, Ready, Making
  <2>2. l \notin Before \cup Devices \cup Late => boot'.use_lock = TRUE
    BY DEF Main
  <2> QED BY <1>b, <2>1, <2>2 DEF FirstHas
<1>6. RunsWhole'
  BY <1>2 DEF RunsWhole
<1> QED
  BY <1>b, <1>1, <1>3, <1>4, <1>6 DEF Booting

LEMMA MainGoes ==
  ASSUME Booting, cpu[B].at \in Main, machine' = machine, proc' = proc, test' = test, boot'.runs = boot.runs, DOMAIN boot' = Shared,
         Only(B), NEW l, l \in Main, cpu'[B].at = l,
         l \notin Before => cpu'[B].dir = "kpgdir", boot.idt = TRUE => boot'.idt = TRUE,
         l \notin Before \cup Devices => boot'.idt = TRUE,
         l = "allocproc" => boot'.use_lock = TRUE
  PROVE  Booting'
<1>1. (\A c \in machine.cpus : c # B => OtherHas(cpu[c]))'
  <2>1. \A c \in machine.cpus : c # B => OtherHas(cpu[c]) /\ cpu'[c] = cpu[c]
    BY DEF Booting, Only
  <2>b. B' = B
    BY DEF B
  <2> QED BY <2>1, <2>b DEF OtherHas
<1>2. Shaped
  BY DEF Only, Shaped
<1> QED
  BY <1>1, <1>2, MainSteps

\* What the devices do not change.
Still(b, x) ==
  /\ DOMAIN x = Shared /\ x.runs = b.runs /\ x.made = b.made /\ x.idt = b.idt /\ x.use_lock = b.use_lock
  /\ x.next = b.next /\ x.stack = b.stack /\ x.started = b.started /\ x.mp = b.mp
LEMMA StillIs ==
  ASSUME NEW b, DOMAIN b = Shared
  PROVE  /\ Still(b, b)
         /\ \A v : Still(b, [b EXCEPT !.image = v]) /\ Still(b, [b EXCEPT !.pic = v]) /\ Still(b, [b EXCEPT !.ioapic = v])
         /\ \A v : Still(b, picenable(b, v))
         /\ \A v : Still(b, picsetmask(b, v))
         /\ \A v, c : Still(b, ioapicenable(b, v, c))
<1>1. Still(b, b) /\ \A v : Still(b, [b EXCEPT !.image = v]) /\ Still(b, [b EXCEPT !.pic = v]) /\ Still(b, [b EXCEPT !.ioapic = v])
  BY DEF Still, Shared
<1>2. \A v, w : Still(b, [b EXCEPT !.irqmask = v, !.pic = w])
  BY DEF Still, Shared
<1>3. \A v : Still(b, picsetmask(b, v))
  BY <1>2 DEF picsetmask
<1>4. \A v : Still(b, picenable(b, v))
  BY <1>3 DEF picenable
<1>5. \A v, w : Still(b, [b EXCEPT !.ioapic[v] = w])
  BY DEF Still, Shared
<1>6. \A v, c : Still(b, ioapicenable(b, v, c))
  BY <1>1, <1>5 DEF ioapicenable
<1> QED
  BY <1>1, <1>3, <1>4, <1>6
LEMMA StillAlso ==
  ASSUME NEW b, NEW x, NEW y, Still(b, x), Still(x, y)
  PROVE  Still(b, y)
  BY DEF Still

\* A step within main up to the first process.
LEMMA StillGoes ==
  ASSUME Booting, NEW k \in Main, cpu[B].at = k, machine' = machine, proc' = proc, test' = test, Still(boot, boot'),
         NEW l \in Main, cpu' = Goto(B, l), k \notin Before \/ l \in Before, l \notin Before \cup Devices => k \notin Before \cup Devices,
         l # "allocproc"
  PROVE  Booting' /\ Only(B) /\ cpu'[B].at = l /\ Same6(B)
<1>1. Types /\ B \in machine.cpus
  BY BIs DEF Booting, Types
<1>2. Only(B) /\ cpu'[B].at = l /\ Same6(B)
  BY <1>1, GotoIs
<1>3. l \notin Before => cpu'[B].dir = "kpgdir"
  BY <1>2 DEF Booting, FirstHas, Same6
<1>4. boot'.runs = boot.runs /\ DOMAIN boot' = Shared /\ boot'.idt = boot.idt
  BY DEF Still
<1>5. l \notin Before \cup Devices => boot'.idt = TRUE
  BY <1>4 DEF Booting, FirstHas
<1> QED
  BY <1>2, <1>3, <1>4, <1>5, MainGoes

LEMMA Labels ==
  /\ {"bootmain", "kinit1", "kvmalloc"} \subseteq Main
  /\ {"mpinit", "lapicinit", "picinit", "ioapicinit", "consoleinit", "uartinit", "tvinit"} \subseteq Main \ Before
  /\ {"ideinit", "timerinit", "startothers", "init", "startup", "again", "started", "kinit2"} \subseteq Main \ (Before \cup Devices)
  /\ {"bootmain", "kinit1", "kvmalloc"} \subseteq Before
  /\ "allocproc" \in Main \ (Before \cup Devices \cup Late) /\ "allocproc" \notin Late
  /\ {"mpinit", "lapicinit", "picinit", "ioapicinit", "consoleinit", "uartinit", "tvinit"} \subseteq Devices
  /\ Main \cap Making = {} /\ Main \cap Ready = {} /\ Making \cap Ready = {}
  BY DEF Main, Before, Devices, Late, Making, Ready

LEMMA BootRests ==
  ASSUME Booting, machine' = machine, proc' = proc, test' = test, boot' = boot, cpu' = cpu
  PROVE  Booting'
<1>b. B' = B
  BY DEF B
<1>1. Types'
  BY DEF Booting, Types
<1>2. FirstAt(cpu[B].at)'
  <2>1. FirstAt(cpu[B].at)
    BY DEF Booting
  <2> QED BY <1>b, <2>1 DEF FirstAt
<1>3. FirstHas(cpu[B].at)'
  <2>1. FirstHas(cpu[B].at)
    BY DEF Booting
  <2> QED BY <1>b, <2>1 DEF FirstHas
<1>4. (\A c \in machine.cpus : c # B => OtherHas(cpu[c]))'
  <2>1. \A c \in machine.cpus : c # B => OtherHas(cpu[c])
    BY DEF Booting
  <2> QED BY <1>b, <2>1 DEF OtherHas
<1>5. RunsWhole'
  BY DEF Booting, RunsWhole
<1> QED
  BY <1>1, <1>2, <1>3, <1>4, <1>5 DEF Booting

LEMMA LoadBoots == ASSUME Booting, bootmain PROVE Booting'
<1>1. /\ cpu[B].at = "bootmain" /\ cpu' = Goto(B, "kinit1") /\ machine' = machine /\ proc' = proc /\ test' = test
  BY DEF bootmain, At, vars
<1>2. Still(boot, boot')
  BY StillIs DEF bootmain, Booting, Types
<1> QED
  BY <1>1, <1>2, Labels, StillGoes
LEMMA KinitBoots == ASSUME Booting, kinit1 PROVE Booting'
<1>1. cpu[B].at = "kinit1" /\ machine' = machine /\ proc' = proc /\ test' = test
  BY DEF kinit1, At
<1>2. CASE boot' = boot /\ cpu' = cpu
  BY <1>1, <1>2, BootRests
<1>3. CASE boot' = [boot EXCEPT !.image = <<>>] /\ cpu' = Goto(B, "kvmalloc")
  <2>1. Still(boot, boot')
    BY <1>3, StillIs DEF Booting, Types
  <2> QED BY <1>1, <1>3, <2>1, Labels, StillGoes
<1> QED
  BY <1>2, <1>3 DEF kinit1
LEMMA KvmBoots == ASSUME Booting, kvmalloc PROVE Booting'
<1>1. /\ cpu[B].at = "kvmalloc" /\ machine' = machine /\ proc' = proc /\ test' = test /\ boot' = boot
      /\ cpu' = [cpu EXCEPT ![B].at = "mpinit", ![B].dir = "kpgdir"]
  BY DEF kvmalloc, At
<1> DEFINE r == [cpu[B] EXCEPT !.at = "mpinit", !.dir = "kpgdir"]
<1>2. cpu = [c \in machine.cpus |-> cpu[c]] /\ DOMAIN cpu[B] = Regs /\ Types /\ B \in machine.cpus
  BY BIs DEF Booting, Types
<1>3. cpu' = [cpu EXCEPT ![B] = r]
  BY <1>1, <1>2
<1>4. DOMAIN r = Regs /\ r.at = "mpinit" /\ r.dir = "kpgdir"
  BY <1>2 DEF Regs
<1> HIDE DEF r
<1>5. Only(B) /\ cpu'[B].at = "mpinit" /\ cpu'[B].dir = "kpgdir"
  BY <1>2, <1>3, <1>4, PutIs
<1>6. DOMAIN boot' = Shared
  BY <1>1 DEF Booting, Types
<1> QED
  BY <1>1, <1>5, <1>6, Labels, MainGoes
LEMMA MpBoots == ASSUME Booting, mpinit PROVE Booting'
<1>1. /\ cpu[B].at = "mpinit" /\ machine' = machine /\ proc' = proc /\ test' = test
  BY DEF mpinit, At, vars
<1>2. CASE UNCHANGED <<boot, cpu>>
  BY <1>1, <1>2, BootRests
<1>3. ASSUME NEW v, boot' = [boot EXCEPT !.mp = v], cpu' = Goto(B, "lapicinit") PROVE Booting'
  <2>1. DOMAIN boot' = Shared /\ boot'.runs = boot.runs /\ boot'.idt = boot.idt
    BY <1>3 DEF Booting, Types, Shared
  <2>2. Types /\ B \in machine.cpus
    BY BIs DEF Booting, Types
  <2>3. Only(B) /\ cpu'[B].at = "lapicinit" /\ Same6(B)
    BY <1>3, <2>2, GotoIs
  <2>4. cpu'[B].dir = "kpgdir"
    BY <1>1, <2>3, Labels DEF Booting, FirstHas, Same6
  <2> QED BY <1>1, <2>1, <2>3, <2>4, Labels, MainGoes
<1> QED
  BY <1>2, <1>3 DEF mpinit
LEMMA DevicesBoot == ASSUME Booting, picinit \/ ioapicinit \/ consoleinit \/ uartinit PROVE Booting'
<1>0. DOMAIN boot = Shared
  BY DEF Booting, Types
<1>1. CASE picinit
  <2>1. cpu[B].at = "picinit" /\ machine' = machine /\ proc' = proc /\ test' = test /\ cpu' = Goto(B, "ioapicinit")
    BY <1>1 DEF picinit, At, vars
  <2>2. Still(boot, boot')
    <3>1. PICK v : LET b == [boot EXCEPT !.pic = v] IN boot' = IF b.irqmask # 0..15 THEN picsetmask(b, b.irqmask) ELSE b
      <4>1. [boot EXCEPT !.pic = FoldLeft(Out, @, Words)] = [boot EXCEPT !.pic = FoldLeft(Out, boot.pic, Words)]
        OBVIOUS
      <4> QED BY <1>1, <4>1 DEF picinit
    <3> DEFINE b == [boot EXCEPT !.pic = v]
    <3>2. Still(boot, b)
      BY <1>0, StillIs
    <3>3. boot' = picsetmask(b, b.irqmask) \/ boot' = b
      BY <3>1
    <3>4. DOMAIN b = Shared
      BY <3>2 DEF Still
    <3> HIDE DEF b
    <3>5. Still(b, picsetmask(b, b.irqmask)) /\ Still(b, b)
      BY <3>4, StillIs
    <3> QED BY <3>2, <3>3, <3>5, StillAlso
  <2> QED BY <2>1, <2>2, Labels, StillGoes
<1>2. CASE ioapicinit
  <2>1. cpu[B].at = "ioapicinit" /\ machine' = machine /\ proc' = proc /\ test' = test /\ cpu' = Goto(B, "consoleinit")
    BY <1>2 DEF ioapicinit, At, vars
  <2>2. Still(boot, boot')
    BY <1>0, <1>2, StillIs DEF ioapicinit
  <2> QED BY <2>1, <2>2, Labels, StillGoes
<1>3. CASE consoleinit
  <2>1. cpu[B].at = "consoleinit" /\ machine' = machine /\ proc' = proc /\ test' = test /\ cpu' = Goto(B, "uartinit")
    BY <1>3 DEF consoleinit, At, vars
  <2>2. Still(boot, boot')
    <3>1. Still(boot, picenable(boot, IRQ.KBD)) /\ DOMAIN picenable(boot, IRQ.KBD) = Shared
      BY <1>0, StillIs DEF Still
    <3>2. Still(picenable(boot, IRQ.KBD), ioapicenable(picenable(boot, IRQ.KBD), IRQ.KBD, 0))
      BY <3>1, StillIs
    <3> QED BY <1>3, <3>1, <3>2, StillAlso DEF consoleinit
  <2> QED BY <2>1, <2>2, Labels, StillGoes
<1>4. CASE uartinit
  <2>1. cpu[B].at = "uartinit" /\ machine' = machine /\ proc' = proc /\ test' = test /\ cpu' = Goto(B, "tvinit")
    BY <1>4 DEF uartinit, At, vars
  <2>2. Still(boot, boot')
    <3>1. Still(boot, picenable(boot, IRQ.COM1)) /\ DOMAIN picenable(boot, IRQ.COM1) = Shared
      BY <1>0, StillIs DEF Still
    <3>2. Still(picenable(boot, IRQ.COM1), ioapicenable(picenable(boot, IRQ.COM1), IRQ.COM1, 0))
      BY <3>1, StillIs
    <3>3. Still(boot, boot)
      BY <1>0, StillIs
    <3> QED BY <1>4, <3>1, <3>2, <3>3, StillAlso DEF uartinit
  <2> QED BY <2>1, <2>2, Labels, StillGoes
<1> QED
  BY <1>1, <1>2, <1>3, <1>4

LEMMA IdeBoots == ASSUME Booting, tvinit \/ ideinit \/ timerinit PROVE Booting'
<1>0. DOMAIN boot = Shared /\ Types /\ B \in machine.cpus
  BY BIs DEF Booting, Types
<1>1. CASE tvinit
  <2>1. cpu[B].at = "tvinit" /\ machine' = machine /\ proc' = proc /\ test' = test /\ cpu' = Goto(B, "ideinit") /\ boot' = [boot EXCEPT !.idt = TRUE]
    BY <1>1 DEF tvinit, At, vars
  <2>2. DOMAIN boot' = Shared /\ boot'.runs = boot.runs /\ boot'.idt = TRUE
    BY <1>0, <2>1 DEF Shared
  <2>3. Only(B) /\ cpu'[B].at = "ideinit" /\ Same6(B)
    BY <1>0, <2>1, GotoIs
  <2>4. cpu'[B].dir = "kpgdir"
    BY <2>1, <2>3, Labels DEF Booting, FirstHas, Same6
  <2>5. cpu[B].at \in Main /\ "ideinit" \in Main /\ "ideinit" # "allocproc"
    BY <2>1, Labels
  <2> QED BY <2>1, <2>2, <2>3, <2>4, <2>5, MainGoes
<1>2. CASE ideinit
  <2>1. cpu[B].at = "ideinit" /\ machine' = machine /\ proc' = proc /\ test' = test /\ (cpu' = Goto(B, "startothers") \/ cpu' = Goto(B, "timerinit"))
    BY <1>2 DEF ideinit, At, vars
  <2>2. Still(boot, boot')
    <3>1. Still(boot, picenable(boot, IRQ.IDE)) /\ DOMAIN picenable(boot, IRQ.IDE) = Shared
      BY <1>0, StillIs DEF Still
    <3>2. Still(picenable(boot, IRQ.IDE), ioapicenable(picenable(boot, IRQ.IDE), IRQ.IDE, IdeCpu(boot)))
      BY <3>1, StillIs
    <3> QED BY <1>2, <3>1, <3>2, StillAlso DEF ideinit
  <2> QED BY <2>1, <2>2, Labels, StillGoes
<1>3. CASE timerinit
  <2>1. cpu[B].at = "timerinit" /\ machine' = machine /\ proc' = proc /\ test' = test /\ cpu' = Goto(B, "startothers")
    BY <1>3 DEF timerinit, At, vars
  <2>2. Still(boot, boot')
    BY <1>0, <1>3, StillIs DEF timerinit
  <2> QED BY <2>1, <2>2, Labels, StillGoes
<1> QED
  BY <1>1, <1>2, <1>3

LEMMA OthersBoot == ASSUME Booting, startothers \/ lapicstartap \/ waitstarted PROVE Booting'
<1>0. DOMAIN boot = Shared /\ Types /\ B \in machine.cpus
  BY BIs DEF Booting, Types
<1>1. ASSUME NEW k \in Late, NEW l \in Late, cpu[B].at = k, machine' = machine, proc' = proc, test' = test, cpu' = Goto(B, l), boot'.runs = boot.runs,
             DOMAIN boot' = Shared, boot'.idt = boot.idt
      PROVE  Booting'
  <2>1. Only(B) /\ cpu'[B].at = l /\ Same6(B)
    BY <1>0, <1>1, GotoIs
  <2>2. k \in Main /\ l \in Main /\ l # "allocproc" /\ k \notin Before /\ k \notin Before \cup Devices
    BY <1>1 DEF Main, Late, Before, Devices
  <2>3. cpu'[B].dir = "kpgdir" /\ boot'.idt = TRUE
    BY <1>1, <2>1, <2>2 DEF Booting, FirstHas, Same6
  <2> QED BY <1>1, <2>1, <2>2, <2>3, MainGoes
<1>2. ASSUME machine' = machine, proc' = proc, test' = test, cpu' = cpu, cpu[B].at \in Late, NEW v, boot' = [boot EXCEPT !.next = v]
      PROVE  Booting'
  <2>1. DOMAIN boot' = Shared /\ boot'.runs = boot.runs /\ boot'.idt = boot.idt
    BY <1>0, <1>2 DEF Shared
  <2>2. Only(B)
    BY <1>0, <1>2 DEF Only, Types
  <2>3. cpu[B].at \in Main /\ cpu[B].at # "allocproc" /\ cpu[B].at \notin Before /\ cpu[B].at \notin Before \cup Devices
    BY <1>2 DEF Main, Late, Before, Devices
  <2>4. cpu'[B].dir = "kpgdir" /\ boot'.idt = TRUE /\ cpu'[B].at = cpu[B].at
    BY <1>2, <2>1, <2>3 DEF Booting, FirstHas
  <2> QED BY <1>2, <2>1, <2>2, <2>3, <2>4, MainGoes
<1>3. CASE startothers
  <2>1. cpu[B].at = "startothers" /\ machine' = machine /\ proc' = proc /\ test' = test
    BY <1>3 DEF startothers, At
  <2>2. {"startothers", "kinit2", "init"} \subseteq Late
    BY DEF Late
  <2>3. CASE cpu' = Goto(B, "kinit2") /\ boot' = boot
    BY <1>0, <1>1, <2>1, <2>2, <2>3
  <2>4. CASE boot' = [boot EXCEPT !.next = boot.next + 1] /\ cpu' = cpu
    BY <1>2, <2>1, <2>2, <2>4
  <2>5. ASSUME NEW v, boot' = [boot EXCEPT !.stack = v], cpu' = Goto(B, "init") PROVE Booting'
    <3>1. DOMAIN boot' = Shared /\ boot'.runs = boot.runs /\ boot'.idt = boot.idt
      BY <1>0, <2>5 DEF Shared
    <3> QED BY <1>1, <2>1, <2>2, <2>5, <3>1
  <2> QED BY <1>3, <2>3, <2>4, <2>5 DEF startothers
<1>4. CASE waitstarted
  <2>1. cpu[B].at = "started" /\ machine' = machine /\ proc' = proc /\ test' = test /\ cpu' = Goto(B, "startothers") /\ boot' = [boot EXCEPT !.next = boot.next + 1]
    BY <1>4 DEF waitstarted, At, vars
  <2>2. {"startothers", "started"} \subseteq Late
    BY DEF Late
  <2>3. DOMAIN boot' = Shared /\ boot'.runs = boot.runs /\ boot'.idt = boot.idt
    BY <1>0, <2>1 DEF Shared
  <2> QED BY <1>1, <2>1, <2>2, <2>3
<1>5. CASE lapicstartap
  <2>1. PICK k \in {"init", "startup", "again"}, l \in {"startup", "again", "started"}, ipi \in {"INIT", "STARTUP"} :
           cpu[B].at = k /\ Signal(boot.next, ipi, l)
    BY <1>5 DEF lapicstartap, At
  <2>2. machine' = machine /\ proc' = proc /\ test' = test /\ boot' = boot
    BY <1>5 DEF lapicstartap, vars
  <2>3. k \in Main /\ l \in Main /\ l # "allocproc" /\ k \notin Before /\ k \notin Before \cup Devices
    BY Labels
  <2> DEFINE n == boot.next
             C == Told(n, ipi)
  <2>4. /\ C = [d \in machine.cpus |-> C[d]] /\ (\A d \in machine.cpus : DOMAIN C[d] = Regs) /\ C[B] = cpu[B]
        /\ \A d \in machine.cpus : d # B => C[d] = cpu[d] \/ C[d].at \in {"reset", "entryother"}
    <3>0. cpu = [d \in machine.cpus |-> cpu[d]] /\ \A d \in machine.cpus : DOMAIN cpu[d] = Regs
      BY <1>0 DEF Types
    <3> HIDE DEF n
    <3>1. CASE C = cpu
      BY <3>0, <3>1
    <3>2. CASE n \in machine.cpus /\ n # B /\ C = [cpu EXCEPT ![n] = [Off EXCEPT !.at = "reset"]]
      <4> DEFINE r == [Off EXCEPT !.at = "reset"]
      <4>1. DOMAIN r = Regs /\ r.at = "reset"
        BY DEF Off, Regs
      <4>2. C = [cpu EXCEPT ![n] = r]
        BY <3>2
      <4> HIDE DEF r, C
      <4> QED BY <1>0, <3>0, <3>2, <4>1, <4>2
    <3>3. CASE n \in machine.cpus /\ n # B /\ C = [cpu EXCEPT ![n].at = "entryother"]
      <4> DEFINE r == [cpu[n] EXCEPT !.at = "entryother"]
      <4>1. DOMAIN r = Regs /\ r.at = "entryother"
        BY <3>0, <3>3 DEF Regs
      <4>2. C = [cpu EXCEPT ![n] = r]
        BY <3>3
      <4> HIDE DEF r, C
      <4> QED BY <1>0, <3>0, <3>3, <4>1, <4>2
    <3> QED BY <3>1, <3>2, <3>3 DEF Told
  <2>5. cpu' = [C EXCEPT ![B].at = l]
    BY <2>1 DEF Signal
  <2> HIDE DEF C
  <2> DEFINE r == [C[B] EXCEPT !.at = l]
             Q == cpu'
  <2>6. DOMAIN r = Regs /\ r.at = l /\ r.dir = cpu[B].dir
    BY <1>0, <2>4 DEF Types, Regs
  <2>7. Q = [C EXCEPT ![B] = r]
    BY <2>5
  <2> HIDE DEF r, Q
  <2>8. Q = [d \in machine.cpus |-> Q[d]] /\ Q[B] = r /\ \A d \in machine.cpus : d # B => Q[d] = C[d]
    BY <1>0, <2>4, <2>7
  <2>9. Shaped
    <3>1. \A d \in machine.cpus : DOMAIN Q[d] = Regs
      BY <2>4, <2>6, <2>8
    <3> QED BY <2>8, <3>1 DEF Shaped, Q
  <2>10. boot.idt = TRUE /\ cpu'[B].dir = "kpgdir" /\ cpu'[B].at = l
    BY <2>1, <2>3, <2>6, <2>8 DEF Booting, FirstHas, Q
  <2>11. (\A c \in machine.cpus : c # B => OtherHas(cpu[c]))'
    <3>1. ASSUME NEW c \in machine.cpus, c # B PROVE OtherHas(Q[c])
      <4>1. OtherHas(cpu[c])
        BY <3>1 DEF Booting
      <4>2. CASE C[c] = cpu[c]
        BY <2>8, <3>1, <4>1, <4>2
      <4>3. CASE C[c].at \in {"reset", "entryother"}
        BY <2>8, <2>10, <3>1, <4>3 DEF OtherHas, Ready
      <4> QED BY <2>4, <3>1, <4>2, <4>3
    <3>2. B' = B
      BY <2>2 DEF B
    <3>3. \A c \in machine.cpus : c # B => OtherHas(cpu'[c])
      BY <3>1 DEF Q
    <3> QED BY <2>2, <3>2, <3>3 DEF OtherHas
  <2>12. boot'.runs = boot.runs /\ DOMAIN boot' = Shared /\ boot'.idt = TRUE
    BY <1>0, <2>2, <2>10
  <2> QED BY <2>1, <2>2, <2>3, <2>9, <2>10, <2>11, <2>12, MainSteps
<1> QED
  BY <1>3, <1>4, <1>5
LEMMA Kinit2Boots == ASSUME Booting, kinit2 PROVE Booting'
<1>0. DOMAIN boot = Shared /\ Types /\ B \in machine.cpus
  BY BIs DEF Booting, Types
<1>1. cpu[B].at = "kinit2" /\ machine' = machine /\ proc' = proc /\ test' = test
  BY DEF kinit2, At
<1>2. CASE boot' = boot /\ cpu' = cpu
  BY <1>1, <1>2, BootRests
<1>3. CASE boot' = [boot EXCEPT !.use_lock = TRUE] /\ cpu' = Goto(B, "allocproc")
  <2>1. DOMAIN boot' = Shared /\ boot'.runs = boot.runs /\ boot'.idt = boot.idt /\ boot'.use_lock = TRUE
    BY <1>0, <1>3 DEF Shared
  <2>2. Only(B) /\ cpu'[B].at = "allocproc" /\ Same6(B)
    BY <1>0, <1>3, GotoIs
  <2>3. cpu[B].at \in Main /\ "allocproc" \in Main /\ cpu[B].at \notin Before /\ cpu[B].at \notin Before \cup Devices
    BY <1>1, Labels
  <2>4. cpu'[B].dir = "kpgdir" /\ boot'.idt = TRUE
    BY <1>1, <2>1, <2>2, <2>3 DEF Booting, FirstHas, Same6
  <2> QED BY <1>1, <2>1, <2>2, <2>3, <2>4, MainGoes
<1> QED
  BY <1>2, <1>3 DEF kinit2
\* The first processor goes on to l when no process runs yet.
LEMMA FirstGoes ==
  ASSUME Booting, machine' = machine, Only(B), NEW l, cpu'[B].at = l, FirstAt(l)', FirstHas(l)', boot'.runs = Nobody, DOMAIN boot' = Shared,
         boot'.idt = boot.idt
  PROVE  Booting'
<1>b. B' = B
  BY DEF B
<1>1. Types'
  BY DEF Booting, Types, Only
<1>2. (\A c \in machine.cpus : c # B => OtherHas(cpu[c]))'
  <2>1. \A c \in machine.cpus : c # B => OtherHas(cpu[c]) /\ cpu'[c] = cpu[c]
    BY DEF Booting, Only
  <2> QED BY <1>b, <2>1 DEF OtherHas
<1>3. RunsWhole'
  BY DEF RunsWhole
<1> QED
  BY <1>b, <1>1, <1>2, <1>3 DEF Booting
LEMMA EmbryoIs ==
  ASSUME NEW P, Nothing(P), NEW x
  PROVE  Begun([P EXCEPT ![1] = [NoProc EXCEPT !.st = "EMBRYO", !.kstack = x]])
<1> DEFINE r == [NoProc EXCEPT !.st = "EMBRYO", !.kstack = x]
           Q == [P EXCEPT ![1] = r]
<1>1. DOMAIN r = Fields /\ r.st = "EMBRYO" /\ r.todo = <<>> /\ r.new = NULL /\ r.kid = 0 /\ r.at = 1
  BY DEF NoProc, Fields
<1> HIDE DEF r
<1>2. 1 \in Procs /\ P = [p \in Procs |-> NoProc]
  BY MemoryAssumption DEF Nothing
<1>3. Q = [p \in Procs |-> IF p = 1 THEN r ELSE NoProc] /\ Q[1] = r
  BY <1>2
<1> QED
  BY <1>1, <1>3 DEF Begun, r
LEMMA BegunStill ==
  ASSUME NEW P, Begun(P), NEW x
  PROVE  Begun([P EXCEPT ![1].pgdir = x]) /\ Begun([P EXCEPT ![1].sz = x])
<1>0. 1 \in Procs
  BY MemoryAssumption
<1>1. ASSUME NEW r, DOMAIN r = Fields, r.st = "EMBRYO", r.todo = <<>>, r.new = NULL, r.kid = 0, r.at = 1
      PROVE  Begun([P EXCEPT ![1] = r])
  <2>1. P = [p \in Procs |-> IF p = 1 THEN P[1] ELSE NoProc]
    BY DEF Begun
  <2>2. [P EXCEPT ![1] = r] = [p \in Procs |-> IF p = 1 THEN r ELSE NoProc]
    BY <1>0, <2>1
  <2> QED BY <1>0, <1>1, <2>2 DEF Begun
<1> DEFINE r == [P[1] EXCEPT !.pgdir = x]
           s == [P[1] EXCEPT !.sz = x]
<1>2. DOMAIN r = Fields /\ r.st = "EMBRYO" /\ r.todo = <<>> /\ r.new = NULL /\ r.kid = 0 /\ r.at = 1
  BY DEF Begun, Fields
<1>3. DOMAIN s = Fields /\ s.st = "EMBRYO" /\ s.todo = <<>> /\ s.new = NULL /\ s.kid = 0 /\ s.at = 1
  BY DEF Begun, Fields
<1>4. [P EXCEPT ![1].pgdir = x] = [P EXCEPT ![1] = r] /\ [P EXCEPT ![1].sz = x] = [P EXCEPT ![1] = s]
  OBVIOUS
<1> HIDE DEF r, s
<1> QED
  BY <1>1, <1>2, <1>3, <1>4
LEMMA BegunQuiet ==
  ASSUME NEW P, Begun(P)
  PROVE  Quiet([P EXCEPT ![1].st = "RUNNABLE"])
<1> DEFINE r == [P[1] EXCEPT !.st = "RUNNABLE"]
           Q == [P EXCEPT ![1] = r]
<1>0. 1 \in Procs
  BY MemoryAssumption
<1>1. r.todo = <<>> /\ r.kid = 0
  BY DEF Begun, Fields
<1>2. NoProc.todo = <<>> /\ NoProc.kid = 0
  BY DEF NoProc
<1>3. P = [p \in Procs |-> IF p = 1 THEN P[1] ELSE NoProc]
  BY DEF Begun
<1> HIDE DEF r
<1>4. Q = [p \in Procs |-> IF p = 1 THEN r ELSE NoProc]
  BY <1>0, <1>3
<1>5. Quiet(Q)
  BY <1>1, <1>2, <1>4 DEF Quiet
<1>6. Q = [P EXCEPT ![1].st = "RUNNABLE"]
  BY DEF r
<1> QED
  BY <1>5, <1>6
LEMMA MakingBoots == ASSUME Booting, allocproc \/ UserKernel \/ inituvm \/ userinit PROVE Booting'
<1>0. DOMAIN boot = Shared /\ Types /\ B \in machine.cpus
  BY BIs DEF Booting, Types
<1>a. FirstAt(cpu[B].at) /\ FirstHas(cpu[B].at)
  BY DEF Booting
<1>l. /\ "allocproc" \in Main \ (Before \cup Devices \cup Late) /\ {"setupkvm", "inituvm", "userinit"} = Making
      /\ Making \cap (Before \cup Devices \cup Late \cup Main \cup Ready) = {} /\ {"idtinit"} \subseteq Ready
      /\ Ready \cap (Before \cup Devices \cup Late \cup Main \cup Making) = {}
  BY DEF Main, Before, Devices, Late, Making, Ready
<1>1. ASSUME NEW k \in Making \cup {"allocproc"}, cpu[B].at = k, machine' = machine, test' = test, NEW l, Begun(proc'),
             Only(B), cpu'[B].at = l, cpu'[B].dir = cpu[B].dir,
             boot'.runs = boot.runs, DOMAIN boot' = Shared, boot'.idt = boot.idt, boot'.use_lock = boot.use_lock, 
             l \in {"setupkvm", "inituvm"} => boot'.made = {"context"},
             l = "userinit" => boot'.made \in {{"context", "text"}, {"context", "text", "tf"}, Whole}, l \in Making
      PROVE  Booting'
  <2>2. k \notin Ready /\ k \notin Before /\ k \notin Before \cup Devices /\ k \notin Before \cup Devices \cup Late
    BY <1>1, <1>l
  <2>3. boot'.runs = Nobody /\ boot'.idt = TRUE /\ boot'.use_lock = TRUE /\ cpu'[B].dir = "kpgdir"
    BY <1>a, <1>1, <2>2 DEF FirstAt, FirstHas
  <2>4. l \notin Main /\ l \notin Ready /\ l \notin {"xchg", "scheduler"}
    BY <1>1, <1>l DEF Ready
  <2>5. FirstAt(l)'
    BY <1>1, <2>3, <2>4 DEF FirstAt
  <2>b. B' = B
    BY <1>1 DEF B
  <2>6. FirstHas(l)'
    BY <1>1, <2>3, <2>4, <2>b DEF FirstHas
  <2> QED BY <1>1, <2>3, <2>5, <2>6, FirstGoes
<1>g. ASSUME NEW l, cpu' = Goto(B, l) PROVE Only(B) /\ cpu'[B].at = l /\ cpu'[B].dir = cpu[B].dir
  BY <1>0, <1>g, GotoIs DEF Same6
<1>2. CASE allocproc
  <2>1. cpu[B].at = "allocproc" /\ machine' = machine /\ test' = test /\ cpu' = Goto(B, "setupkvm") /\ boot' = [boot EXCEPT !.made = {"context"}]
    BY <1>2 DEF allocproc, At
  <2>2. DOMAIN boot' = Shared /\ boot'.runs = boot.runs /\ boot'.idt = boot.idt /\ boot'.use_lock = boot.use_lock /\ boot'.made = {"context"}
    BY <1>0, <2>1 DEF Shared
  <2>3. Nothing(proc)
    BY <1>a, <1>l, <2>1 DEF FirstAt
  <2>4. Begun(proc')
    BY <1>2, <2>3, EmbryoIs DEF allocproc
  <2> QED BY <1>1, <1>g, <1>l, <2>1, <2>2, <2>4
<1>3. CASE UserKernel
  <2>1. cpu[B].at = "setupkvm" /\ machine' = machine /\ test' = test /\ cpu' = Goto(B, "inituvm") /\ boot' = boot
    BY <1>3 DEF UserKernel, At
  <2>3. Begun(proc) /\ boot.made = {"context"}
    BY <1>a, <1>l, <2>1 DEF FirstAt, FirstHas
  <2>4. Begun(proc')
    BY <1>3, <2>3, BegunStill DEF UserKernel
  <2> QED BY <1>0, <1>1, <1>g, <1>l, <2>1, <2>3, <2>4
<1>4. CASE inituvm
  <2>1. cpu[B].at = "inituvm" /\ machine' = machine /\ test' = test /\ cpu' = Goto(B, "userinit") /\ boot' = [boot EXCEPT !.made = boot.made \cup {"text"}]
    BY <1>4 DEF inituvm, At
  <2>2. DOMAIN boot' = Shared /\ boot'.runs = boot.runs /\ boot'.idt = boot.idt /\ boot'.use_lock = boot.use_lock /\ boot'.made = boot.made \cup {"text"}
    BY <1>0, <2>1 DEF Shared
  <2>3. Begun(proc) /\ boot.made = {"context"}
    BY <1>a, <1>l, <2>1 DEF FirstAt, FirstHas
  <2>4. Begun(proc')
    BY <1>4, <2>3, BegunStill DEF inituvm
  <2>5. boot'.made = {"context", "text"}
    BY <2>2, <2>3
  <2> QED BY <1>1, <1>g, <1>l, <2>1, <2>2, <2>4, <2>5
<1>5. CASE userinit
  <2>1. cpu[B].at = "userinit" /\ machine' = machine /\ test' = test
    BY <1>5 DEF userinit, At
  <2>3. Begun(proc) /\ boot.made \in {{"context", "text"}, {"context", "text", "tf"}, Whole}
    BY <1>a, <1>l, <2>1 DEF FirstAt, FirstHas
  <2>4. ASSUME NEW x \in {"tf", "cwd"}, x = "cwd" => "tf" \in boot.made, boot' = [boot EXCEPT !.made = boot.made \cup {x}], proc' = proc, cpu' = cpu
        PROVE  Booting'
    <3>1. DOMAIN boot' = Shared /\ boot'.runs = boot.runs /\ boot'.idt = boot.idt /\ boot'.use_lock = boot.use_lock /\ boot'.made = boot.made \cup {x}
      BY <1>0, <2>4 DEF Shared
    <3>2. boot'.made \in {{"context", "text"}, {"context", "text", "tf"}, Whole}
      BY <2>3, <2>4, <3>1 DEF Whole
    <3>3. Only(B) /\ cpu'[B].at = "userinit" /\ cpu'[B].dir = cpu[B].dir
      BY <1>0, <2>1, <2>4 DEF Only, Types
    <3> QED BY <1>1, <1>l, <2>1, <2>3, <2>4, <3>1, <3>2, <3>3
  <2>5. CASE proc' = [proc EXCEPT ![1].st = "RUNNABLE"] /\ cpu' = Goto(B, "idtinit") /\ boot' = boot /\ "tf" \in boot.made /\ "cwd" \in boot.made
    <3>1. Only(B) /\ cpu'[B].at = "idtinit" /\ Same6(B)
      BY <1>0, <2>5, GotoIs
    <3>2. Quiet(proc')
      BY <2>3, <2>5, BegunQuiet
    <3>3. boot.runs = Nobody /\ boot.idt = TRUE /\ boot.use_lock = TRUE /\ cpu'[B].dir = "kpgdir"
      BY <1>a, <1>l, <2>1, <3>1 DEF FirstAt, FirstHas, Same6
    <3>4. "cwd" \notin {"context", "text"} /\ "cwd" \notin {"context", "text", "tf"}
      OBVIOUS
    <3>5. boot.made = Whole
      BY <2>3, <2>5, <3>4
    <3>6. FirstAt("idtinit")'
      <4>1. "idtinit" \notin Main /\ "idtinit" \notin Making /\ "idtinit" \in Ready
        BY <1>l
      <4>2. Quiet(proc')
        BY <3>2
      <4>3. (Quiet(proc))'
        BY <4>2 DEF Quiet
      <4> QED BY <2>5, <3>3, <4>1, <4>3 DEF FirstAt
    <3>b. B' = B
      BY <2>1 DEF B
    <3>7. FirstHas("idtinit")'
      <4>1. "idtinit" \notin {"setupkvm", "inituvm"} /\ "idtinit" # "userinit" /\ "idtinit" \notin {"xchg", "scheduler"}
        OBVIOUS
      <4> QED BY <2>5, <3>b, <3>3, <3>5, <4>1 DEF FirstHas
    <3> QED BY <1>0, <2>1, <2>5, <3>1, <3>3, <3>6, <3>7, FirstGoes
  <2> QED BY <1>5, <2>4, <2>5 DEF userinit
<1> QED
  BY <1>2, <1>3, <1>4, <1>5
\* A step of another processor, and one of the first when main has returned, that leaves the run as it is.
LEMMA OtherTurns ==
  ASSUME Booting, machine' = machine, proc' = proc, test' = test, NEW l, cpu[B].at = l, NEW c \in machine.cpus, c # B, Only(c), OtherHas(cpu'[c]),
         DOMAIN boot' = Shared, boot'.idt = boot.idt, boot'.use_lock = boot.use_lock, boot'.made = boot.made, boot'.runs = boot.runs,
         boot.runs = c => cpu'[c].at = "scheduler"
  PROVE  Booting'
<1>b. B' = B
  BY DEF B
<1>0. B \in machine.cpus /\ cpu'[B] = cpu[B] /\ (\A d \in machine.cpus : d # Nobody)
  BY BIs DEF Booting, Types, Only
<1>1. Types'
  BY DEF Booting, Types, Only
<1>2. FirstAt(l)'
  <2>1. FirstAt(cpu[B].at)
    BY DEF Booting
  <2> QED BY <1>0, <2>1 DEF FirstAt
<1>3. FirstHas(l)'
  <2>1. FirstHas(cpu[B].at)
    BY DEF Booting
  <2> QED BY <1>b, <1>0, <2>1 DEF FirstHas
<1>4. (\A d \in machine.cpus : d # B => OtherHas(cpu[d]))'
  <2>1. \A d \in machine.cpus : (d # B /\ d # c) => OtherHas(cpu[d]) /\ cpu'[d] = cpu[d]
    BY DEF Booting, Only
  <2> QED BY <1>b, <2>1 DEF OtherHas
<1>5. RunsWhole'
  <2>1. CASE boot.runs = c
    <3>1. cpu'[c].idt = TRUE /\ cpu'[c].dir = "kpgdir"
      BY <2>1 DEF OtherHas, Ready
    <3> QED BY <2>1, <3>1 DEF RunsWhole
  <2>2. CASE boot.runs # c
    <3>1. boot.runs # Nobody => boot.runs \in machine.cpus /\ cpu'[boot.runs] = cpu[boot.runs]
      BY <2>2 DEF Booting, RunsWhole, Only
    <3> QED BY <3>1 DEF Booting, RunsWhole
  <2> QED BY <2>1, <2>2
<1> QED
  BY <1>b, <1>0, <1>1, <1>2, <1>3, <1>4, <1>5 DEF Booting
LEMMA FirstTurns ==
  ASSUME Booting, machine' = machine, proc' = proc, test' = test, Only(B), NEW l \in Ready, cpu[B].at \in Ready, cpu'[B].at = l,
         cpu'[B].dir = cpu[B].dir, l \in {"xchg", "scheduler"} => cpu'[B].idt = TRUE,
         DOMAIN boot' = Shared, boot'.idt = boot.idt, boot'.use_lock = boot.use_lock, boot'.made = boot.made, boot'.runs = boot.runs,
         boot.runs = B => l = "scheduler"
  PROVE  Booting'
<1>b. B' = B
  BY DEF B
<1>0. B \in machine.cpus
  BY BIs DEF Booting, Types
<1>1. Types'
  BY DEF Booting, Types, Only
<1>l. Ready \cap (Before \cup Devices \cup Late \cup Main \cup Making) = {} /\ "scheduler" \in {"xchg", "scheduler"}
  BY DEF Main, Before, Devices, Late, Making, Ready
<1>2. FirstAt(l)'
  <2>1. FirstAt(cpu[B].at)
    BY DEF Booting
  <2>2. (boot.runs = Nobody => Quiet(proc)) /\ (boot.runs # Nobody => test \in DOMAIN Programs)
    BY <2>1 DEF FirstAt
  <2>3. (boot.runs = Nobody => Quiet(proc))'
    BY <2>2 DEF Quiet
  <2> QED BY <1>l, <2>2, <2>3 DEF FirstAt
<1>3. FirstHas(l)'
  <2>1. FirstHas(cpu[B].at)
    BY DEF Booting
  <2>2. boot.idt = TRUE /\ boot.use_lock = TRUE /\ cpu[B].dir = "kpgdir" /\ boot.made = Whole
    BY <1>l, <2>1 DEF FirstHas
  <2>3. l \notin {"setupkvm", "inituvm"} /\ l # "userinit"
    BY DEF Ready
  <2> QED BY <1>b, <1>l, <2>2, <2>3 DEF FirstHas
<1>4. (\A d \in machine.cpus : d # B => OtherHas(cpu[d]))'
  <2>1. \A d \in machine.cpus : d # B => OtherHas(cpu[d]) /\ cpu'[d] = cpu[d]
    BY DEF Booting, Only
  <2> QED BY <1>b, <2>1 DEF OtherHas
<1>5. RunsWhole'
  <2>1. CASE boot.runs = B
    <3>1. cpu[B].dir = "kpgdir"
      BY <1>l DEF Booting, FirstHas
    <3> QED BY <1>0, <1>l, <2>1, <3>1 DEF RunsWhole
  <2>2. CASE boot.runs # B
    <3>1. boot.runs # Nobody => boot.runs \in machine.cpus /\ cpu'[boot.runs] = cpu[boot.runs]
      BY <2>2 DEF Booting, RunsWhole, Only
    <3> QED BY <3>1 DEF Booting, RunsWhole
  <2> QED BY <2>1, <2>2
<1> QED
  BY <1>b, <1>1, <1>2, <1>3, <1>4, <1>5 DEF Booting

\* A processor changes its registers to r.
LEMMA OneIs ==
  ASSUME Types, NEW c \in machine.cpus
  PROVE  /\ DOMAIN [LapicSet(c) EXCEPT !.at = IF c = B THEN "picinit" ELSE "idtinit"] = Regs
         /\ [LapicSet(c) EXCEPT !.at = IF c = B THEN "picinit" ELSE "idtinit"].at = IF c = B THEN "picinit" ELSE "idtinit"
         /\ [LapicSet(c) EXCEPT !.at = IF c = B THEN "picinit" ELSE "idtinit"].dir = cpu[c].dir
         /\ [LapicSet(c) EXCEPT !.at = IF c = B THEN "picinit" ELSE "idtinit"].stack = cpu[c].stack
         /\ [LapicSet(c) EXCEPT !.at = IF c = B THEN "picinit" ELSE "idtinit"].self = cpunum(c)
<1>1. DOMAIN cpu[c] = Regs
  BY DEF Types
<1>2. DOMAIN LapicSet(c) = Regs /\ LapicSet(c).dir = cpu[c].dir /\ LapicSet(c).stack = cpu[c].stack /\ LapicSet(c).self = cpunum(c)
  BY <1>1 DEF LapicSet, Regs
<1> DEFINE s == LapicSet(c)
<1> HIDE DEF s
<1>3. DOMAIN s = Regs /\ s.dir = cpu[c].dir /\ s.stack = cpu[c].stack /\ s.self = cpunum(c)
  BY <1>2 DEF s
<1>4. \A l : DOMAIN [s EXCEPT !.at = l] = Regs /\ [s EXCEPT !.at = l].at = l /\ [s EXCEPT !.at = l].dir = cpu[c].dir /\ [s EXCEPT !.at = l].stack = cpu[c].stack /\ [s EXCEPT !.at = l].self = cpunum(c)
  BY <1>3 DEF Regs
<1> QED
  BY <1>4 DEF s
LEMMA LapicBoots == ASSUME Booting, NEW c \in machine.cpus, lapicinit(c) PROVE Booting'
<1>0. DOMAIN boot = Shared /\ Types /\ B \in machine.cpus /\ c # Nobody
  BY BIs DEF Booting, Types
<1> DEFINE l == IF c = B THEN "picinit" ELSE "idtinit"
           r == [LapicSet(c) EXCEPT !.at = l]
<1>1. DOMAIN r = Regs /\ r.at = l /\ r.dir = cpu[c].dir
  BY <1>0, OneIs
<1>2. cpu[c].at = "lapicinit" /\ cpu' = [cpu EXCEPT ![c] = r] /\ machine' = machine /\ proc' = proc /\ test' = test /\ boot' = boot
  BY DEF lapicinit, At, vars
<1> HIDE DEF r, l
<1>3. Only(c) /\ cpu'[c] = r
  BY <1>0, <1>1, <1>2, PutIs
<1>4. CASE c = B
  <2>1. FirstHas("lapicinit") /\ cpu'[B].at = "picinit" /\ "lapicinit" \notin Before /\ {"lapicinit", "picinit"} \subseteq Main /\ "picinit" \in Devices
    BY <1>1, <1>2, <1>3, <1>4, Labels DEF Booting, l
  <2>2. cpu'[B].dir = "kpgdir"
    BY <1>1, <1>3, <1>4, <2>1 DEF FirstHas
  <2>3. boot'.runs = boot.runs /\ boot'.idt = boot.idt /\ DOMAIN boot' = Shared /\ "picinit" # "allocproc" /\ "picinit" \in Before \cup Devices
    BY <1>0, <1>2, <2>1
  <2> QED BY <1>2, <1>3, <1>4, <2>1, <2>2, <2>3, MainGoes
<1>5. CASE c # B
  <2>1. OtherHas(cpu[c]) /\ RunsWhole
    BY <1>5 DEF Booting
  <2>2. boot.runs # c
    BY <1>0, <1>2, <2>1 DEF RunsWhole
  <2>3. r.at = "idtinit" /\ r.dir = "kpgdir" /\ boot.idt = TRUE
    BY <1>1, <1>2, <1>5, <2>1 DEF OtherHas, l
  <2>4. OtherHas(r)
    BY <2>3 DEF OtherHas, Ready
  <2> QED BY <1>0, <1>2, <1>3, <1>5, <2>2, <2>4, OtherTurns
<1> QED
  BY <1>4, <1>5
LEMMA EntryBoots == ASSUME Booting, NEW c \in machine.cpus, entryother(c) \/ mpenter(c) PROVE Booting'
<1>0. DOMAIN boot = Shared /\ Types /\ B \in machine.cpus /\ c # Nobody /\ DOMAIN cpu[c] = Regs
  BY BIs DEF Booting, Types
<1>a. c # B
  <2>1. cpu[B].at \in Main \cup Making \cup Ready
    BY DEF Booting, FirstAt
  <2>2. cpu[c].at \in {"entryother", "mpenter"}
    BY DEF entryother, mpenter, At
  <2>3. "entryother" \notin Main \cup Making \cup Ready /\ "mpenter" \notin Main \cup Making \cup Ready
    BY DEF Main, Before, Devices, Late, Making, Ready
  <2> QED BY <2>1, <2>2, <2>3
<1>b. OtherHas(cpu[c]) /\ RunsWhole
  BY <1>a DEF Booting
<1>1. ASSUME NEW r, DOMAIN r = Regs, cpu' = [cpu EXCEPT ![c] = r], machine' = machine, proc' = proc, test' = test, boot' = boot,
             cpu[c].at \in {"entryother", "mpenter"}, r.at \in {"mpenter", "lapicinit"}, r.at = "lapicinit" => r.dir = "kpgdir"
      PROVE  Booting'
  <2>1. Only(c) /\ cpu'[c] = r
    BY <1>0, <1>1, PutIs
  <2>2. boot.runs # c
    BY <1>0, <1>b, <1>1 DEF RunsWhole
  <2>3. boot.idt = TRUE
    BY <1>b, <1>1 DEF OtherHas
  <2>4. OtherHas(r)
    BY <1>1, <2>3 DEF OtherHas, Ready
  <2> QED BY <1>0, <1>a, <1>1, <2>1, <2>2, <2>4, OtherTurns
<1>2. CASE entryother(c)
  <2> DEFINE r == [cpu[c] EXCEPT !.at = "mpenter", !.dir = "entrypgdir", !.stack = boot.stack]
  <2>1. DOMAIN r = Regs /\ r.at = "mpenter"
    BY <1>0 DEF Regs
  <2>2. cpu' = [cpu EXCEPT ![c] = r] /\ cpu[c].at = "entryother" /\ machine' = machine /\ proc' = proc /\ test' = test /\ boot' = boot
    BY <1>0, <1>2 DEF entryother, At, vars, Types
  <2> HIDE DEF r
  <2> QED BY <1>1, <2>1, <2>2
<1>3. CASE mpenter(c)
  <2> DEFINE r == [cpu[c] EXCEPT !.at = "lapicinit", !.dir = "kpgdir"]
  <2>1. DOMAIN r = Regs /\ r.at = "lapicinit" /\ r.dir = "kpgdir"
    BY <1>0 DEF Regs
  <2>2. cpu' = [cpu EXCEPT ![c] = r] /\ cpu[c].at = "mpenter" /\ machine' = machine /\ proc' = proc /\ test' = test /\ boot' = boot
    BY <1>0, <1>3 DEF mpenter, At, vars, Types
  <2> HIDE DEF r
  <2> QED BY <1>1, <2>1, <2>2
<1> QED
  BY <1>2, <1>3
LEMMA IdtBoots == ASSUME Booting, NEW c \in machine.cpus, idtinit(c) \/ xchg(c) PROVE Booting'
<1>0. DOMAIN boot = Shared /\ Types /\ B \in machine.cpus /\ c # Nobody /\ DOMAIN cpu[c] = Regs
  BY BIs DEF Booting, Types
<1>1. /\ FirstHas(cpu[B].at) /\ (c # B => OtherHas(cpu[c])) /\ RunsWhole
  BY DEF Booting
<1>l. "idtinit" \notin Before \cup Devices /\ {"idtinit", "xchg", "scheduler"} = Ready
  BY DEF Before, Devices, Ready
<1>2. ASSUME NEW k \in {"idtinit", "xchg"}, NEW l \in {"xchg", "scheduler"}, NEW r, DOMAIN r = Regs, cpu' = [cpu EXCEPT ![c] = r], cpu[c].at = k,
             r.at = l, r.dir = cpu[c].dir, r.idt = TRUE, machine' = machine, proc' = proc, test' = test,
             DOMAIN boot' = Shared, boot'.idt = boot.idt, boot'.use_lock = boot.use_lock, boot'.made = boot.made, boot'.runs = boot.runs
      PROVE  Booting'
  <2>1. Only(c) /\ cpu'[c] = r
    BY <1>0, <1>2, PutIs
  <2>2. boot.runs # c
    BY <1>0, <1>1, <1>2 DEF RunsWhole
  <2>3. CASE c = B
    <3>1. cpu[B].at \in Ready /\ l \in Ready /\ cpu'[B].at = l /\ cpu'[B].dir = cpu[B].dir /\ cpu'[B].idt = TRUE
      BY <1>2, <1>l, <2>1, <2>3
    <3> QED BY <1>2, <2>1, <2>2, <2>3, <3>1, FirstTurns
  <2>4. CASE c # B
    <3>1. cpu[c].dir = "kpgdir" /\ boot.idt = TRUE
      BY <1>1, <1>2, <1>l, <2>4 DEF OtherHas
    <3>2. OtherHas(r)
      BY <1>2, <1>l, <3>1 DEF OtherHas
    <3> QED BY <1>2, <2>1, <2>2, <2>4, <3>2, OtherTurns
  <2> QED BY <2>3, <2>4
<1>3. CASE idtinit(c)
  <2> DEFINE r == [cpu[c] EXCEPT !.at = "xchg", !.idt = boot.idt]
  <2>1. /\ cpu[c].at = "idtinit" /\ cpu' = [cpu EXCEPT ![c] = r] /\ machine' = machine /\ proc' = proc /\ test' = test /\ boot' = boot
    BY <1>0, <1>3 DEF idtinit, At, vars, Types
  <2>2. boot.idt = TRUE
    <3>1. CASE c = B  BY <1>1, <1>l, <2>1, <3>1 DEF FirstHas
    <3>2. CASE c # B  BY <1>1, <2>1, <3>2 DEF OtherHas
    <3> QED BY <3>1, <3>2
  <2>3. DOMAIN r = Regs /\ r.at = "xchg" /\ r.dir = cpu[c].dir /\ r.idt = boot.idt
    BY <1>0 DEF Regs
  <2> HIDE DEF r
  <2> QED BY <1>0, <1>2, <2>1, <2>2, <2>3
<1>4. CASE xchg(c)
  <2> DEFINE r == [cpu[c] EXCEPT !.at = "scheduler"]
  <2>1. /\ cpu[c].at = "xchg" /\ cpu' = [cpu EXCEPT ![c] = r] /\ machine' = machine /\ proc' = proc /\ test' = test
        /\ \E v : boot' = [boot EXCEPT !.started = v]
    BY <1>0, <1>4 DEF xchg, At, Goto, vars
  <2>2. cpu[c].idt = TRUE
    <3>1. CASE c = B  BY <1>1, <1>l, <2>1, <3>1 DEF FirstHas
    <3>2. CASE c # B  BY <1>1, <2>1, <3>2 DEF OtherHas
    <3> QED BY <3>1, <3>2
  <2>3. DOMAIN r = Regs /\ r.at = "scheduler" /\ r.dir = cpu[c].dir /\ r.idt = cpu[c].idt
    BY <1>0 DEF Regs
  <2> HIDE DEF r
  <2>4. DOMAIN boot' = Shared /\ boot'.idt = boot.idt /\ boot'.use_lock = boot.use_lock /\ boot'.made = boot.made /\ boot'.runs = boot.runs
    BY <1>0, <2>1 DEF Shared
  <2> QED BY <1>2, <2>1, <2>2, <2>3, <2>4
<1> QED
  BY <1>3, <1>4
LEMMA SchedulerBoots == ASSUME Booting, NEW c \in machine.cpus, scheduler(c) PROVE Booting'
<1>0. DOMAIN boot = Shared /\ Types /\ B \in machine.cpus /\ c # Nobody /\ DOMAIN cpu[c] = Regs /\ machine \in Machines
  BY BIs DEF Booting, Types
<1>1. /\ FirstAt(cpu[B].at) /\ FirstHas(cpu[B].at) /\ (c # B => OtherHas(cpu[c])) /\ RunsWhole
  BY DEF Booting
<1>l. /\ {"idtinit", "xchg", "scheduler"} = Ready /\ "scheduler" \in {"xchg", "scheduler"}
      /\ Ready \cap (Before \cup Devices \cup Late \cup Main \cup Making) = {}
  BY DEF Ready, Before, Devices, Late, Main, Making
<1>2. cpu[c].at = "scheduler" /\ machine' = machine /\ proc' = proc
  BY DEF scheduler, At
<1>3. cpu[c].idt = TRUE /\ cpu[c].dir = "kpgdir"
  <2>1. CASE c = B  BY <1>1, <1>2, <1>l, <2>1 DEF FirstHas
  <2>2. CASE c # B  BY <1>1, <1>2, <1>l, <2>2 DEF OtherHas
  <2> QED BY <2>1, <2>2
<1>4. CASE cpu' = [cpu EXCEPT ![c].sti = TRUE] /\ test' = test /\ boot' = boot
  <2> DEFINE r == [cpu[c] EXCEPT !.sti = TRUE]
  <2>1. DOMAIN r = Regs /\ r.at = "scheduler" /\ r.dir = "kpgdir" /\ r.idt = TRUE
    BY <1>0, <1>2, <1>3 DEF Regs
  <2>2. cpu' = [cpu EXCEPT ![c] = r]
    BY <1>4
  <2> HIDE DEF r
  <2>3. Only(c) /\ cpu'[c] = r
    BY <1>0, <2>1, <2>2, PutIs
  <2>4. DOMAIN boot' = Shared /\ boot'.idt = boot.idt /\ boot'.use_lock = boot.use_lock /\ boot'.made = boot.made /\ boot'.runs = boot.runs
    BY <1>0, <1>4
  <2>5. CASE c = B
    <3>1. "scheduler" \in Ready /\ cpu[B].at \in Ready /\ cpu'[B].at = "scheduler" /\ cpu'[B].dir = cpu[B].dir /\ cpu'[B].idt = TRUE
      BY <1>2, <1>3, <1>l, <2>1, <2>3, <2>5
    <3> QED BY <1>2, <1>4, <2>3, <2>4, <2>5, <3>1, FirstTurns
  <2>6. CASE c # B
    <3>1. OtherHas(r)
      BY <1>1, <1>2, <1>l, <2>1, <2>6 DEF OtherHas
    <3>2. boot.runs = c => cpu'[c].at = "scheduler"
      BY <2>1, <2>3
    <3> QED BY <1>2, <1>4, <2>3, <2>4, <2>6, <3>1, <3>2, OtherTurns
  <2> QED BY <2>5, <2>6
<1>5. CASE proc[1].st = "RUNNABLE" /\ boot' = [boot EXCEPT !.runs = c] /\ test' \in machine.programs /\ cpu' = cpu
  <2>b. B' = B
    BY <1>2 DEF B
  <2>1. DOMAIN boot' = Shared /\ boot'.idt = boot.idt /\ boot'.use_lock = boot.use_lock /\ boot'.made = boot.made /\ boot'.runs = c
    BY <1>0, <1>5 DEF Shared
  <2>2. cpu[B].at \in Ready
    <3>1. 1 \in Procs
      BY MemoryAssumption
    <3>2. ~Nothing(proc)
      BY <1>5, <3>1 DEF Nothing, NoProc
    <3>3. ~Begun(proc)
      BY <1>5 DEF Begun
    <3> QED BY <1>1, <3>2, <3>3 DEF FirstAt
  <2>3. test' \in DOMAIN Programs
    BY <1>0, <1>5, BootAssumption
  <2>4. Types'
    BY <1>0, <1>2, <1>5, <2>1 DEF Types
  <2>5. FirstAt(cpu[B].at)'
    BY <1>0, <1>5, <1>l, <2>b, <2>1, <2>2, <2>3 DEF FirstAt
  <2>6. FirstHas(cpu[B].at)'
    BY <1>1, <1>5, <2>b, <2>1 DEF FirstHas
  <2>7. (\A d \in machine.cpus : d # B => OtherHas(cpu[d]))'
    <3>1. \A d \in machine.cpus : d # B => OtherHas(cpu[d])
      BY DEF Booting
    <3> QED BY <1>2, <1>5, <2>b, <2>1, <3>1 DEF OtherHas
  <2>8. RunsWhole'
    BY <1>2, <1>3, <1>5, <2>1 DEF RunsWhole
  <2> QED BY <2>4, <2>5, <2>6, <2>7, <2>8 DEF Booting
<1> QED
  BY <1>4, <1>5 DEF scheduler
LEMMA RunBoots == ASSUME Booting, Runs, test' = test PROVE Booting'
<1>1. boot.runs # Nobody /\ machine' = machine /\ cpu' = cpu /\ boot' = boot
  BY DEF Runs, bootvars
<1>b. B' = B
  BY <1>1 DEF B
<1>2. FirstAt(cpu[B].at)'
  <2>1. FirstAt(cpu[B].at)
    BY DEF Booting
  <2>2. cpu[B].at \in Ready /\ cpu[B].at \notin Main /\ cpu[B].at \notin Making
    BY <1>1, <2>1, Labels DEF FirstAt
  <2> QED BY <1>b, <1>1, <2>1, <2>2 DEF FirstAt
<1>3. FirstHas(cpu[B].at)'
  BY <1>b, <1>1 DEF Booting, FirstHas
<1>4. (\A d \in machine.cpus : d # B => OtherHas(cpu[d]))'
  BY <1>b, <1>1 DEF Booting, OtherHas
<1>5. Types' /\ RunsWhole'
  BY <1>1 DEF Booting, Types, RunsWhole
<1> QED
  BY <1>2, <1>3, <1>4, <1>5 DEF Booting
LEMMA TestStays == ASSUME Next PROVE test' = test
<1>1. ASSUME NEW p, Fork(p) \/ ForkKernel(p) \/ ForkPage(p) \/ Sbrk(p) PROVE test' = test
  BY <1>1 DEF Fork, ForkKernel, ForkPage, Sbrk
<1>2. ASSUME NEW p, SbrkPage(p) \/ Exec(p) \/ ExecPage(p) \/ ExecCommit(p) PROVE test' = test
  BY <1>2 DEF SbrkPage, Exec, ExecPage, ExecCommit
<1>3. ASSUME NEW p, Store(p) \/ Load(p) \/ fetchint(p) \/ fetchstr(p) PROVE test' = test
  BY <1>3 DEF Store, Load, fetchint, fetchstr
<1>4. ASSUME NEW p, Await(p) \/ Kill(p) \/ Exit(p) \/ Wait(p) PROVE test' = test
  BY <1>4 DEF Await, Kill, Exit, Wait
<1>5. CASE Halted /\ UNCHANGED vars
  BY <1>5 DEF vars
<1> QED
  BY <1>1, <1>2, <1>3, <1>4, <1>5 DEF Next
LEMMA InitBoots == ASSUME BootInit PROVE Booting
<1>0. machine \in Machines /\ B = machine.bsp /\ B \in machine.cpus
  BY BIs DEF BootInit, B
<1>1. Types
  <2>1. cpu = [c \in machine.cpus |-> IF c = machine.bsp THEN [Off EXCEPT !.at = "bootmain", !.dir = "entrypgdir"] ELSE Off]
    BY DEF BootInit
  <2>2. DOMAIN Off = Regs /\ DOMAIN [Off EXCEPT !.at = "bootmain", !.dir = "entrypgdir"] = Regs
    BY DEF Off, Regs
  <2>3. DOMAIN boot = Shared
    BY DEF BootInit, Shared
  <2> QED BY <1>0, <2>1, <2>2, <2>3 DEF Types
<1>2. cpu[B].at = "bootmain" /\ (\A c \in machine.cpus : c # B => cpu[c].at = "off") /\ boot.runs = Nobody /\ Nothing(proc)
  BY <1>0 DEF BootInit, Off, Nothing
<1>3. FirstAt("bootmain")
  BY <1>2, Labels DEF FirstAt
<1>4. FirstHas("bootmain")
  BY DEF FirstHas, Before, Ready
<1>5. \A c \in machine.cpus : c # B => OtherHas(cpu[c])
  BY <1>2 DEF OtherHas, Ready
<1> QED
  BY <1>1, <1>2, <1>3, <1>4, <1>5 DEF Booting, RunsWhole
LEMMA MainBoots == ASSUME Booting, BootMain PROVE Booting'
  BY LoadBoots, KinitBoots, KvmBoots, MpBoots, DevicesBoot, IdeBoots, OthersBoot, Kinit2Boots, MakingBoots DEF BootMain
LEMMA StepBoots == ASSUME Booting, BootNext PROVE Booting'
<1>1. ASSUME NEW c \in machine.cpus, Boots(c) PROVE Booting'
  BY <1>1, LapicBoots, EntryBoots, IdtBoots, SchedulerBoots DEF Boots
<1>2. CASE Spins
  BY <1>2, BootRests DEF Spins, vars, bootvars
<1>3. CASE Runs
  BY <1>3, RunBoots, TestStays DEF Runs
<1> QED
  BY <1>1, <1>2, <1>3, MainBoots DEF BootNext
LEMMA Booted == BootSpec => []Booting
<1>1. ASSUME Booting, UNCHANGED <<vars, bootvars>> PROVE Booting'
  BY <1>1, BootRests DEF vars, bootvars
<1>2. Booting /\ [BootNext]_<<vars, bootvars>> => Booting'
  BY <1>1, StepBoots
<1> QED
  BY <1>2, InitBoots, PTL DEF BootSpec

(***************************************************************************)
(* Memory, for as long as the kernel has not given up.                     *)
(***************************************************************************)
Kept(l) ==
  /\ Accounts(ram, View(ram, proc))
  /\ l \in Before => ram.kpgdir = NULL
  /\ l \in Making => proc[1].sz \in Sz
  /\ l = "setupkvm" => proc[1].pgdir = NULL /\ (proc[1].kstack = NULL => ram.free = <<>>)
  /\ l \in {"inituvm", "userinit"} => proc[1].pgdir # NULL /\ proc[1].kstack # NULL
  /\ (l \in Ready /\ boot.runs = Nobody) => \A t \in DOMAIN Programs : Good(t, proc)
  /\ boot.runs # Nobody => Good(test, proc)
Accounted == ram.panic = "" => Kept(cpu[B].at)

LEMMA GaveUp == ASSUME Booting, ram.panic # "", BootNext PROVE ram'.panic # ""
<1>1. ASSUME NEW c \in machine.cpus, Boots(c) PROVE ram' = ram
  BY <1>1 DEF Boots, lapicinit, entryother, mpenter, idtinit, xchg, scheduler, vars
<1>2. CASE Spins
  BY <1>2 DEF Spins, vars
<1>3. CASE Runs
  <2>1. \A p, name : ~Does(p, name) /\ ~Calls(p, name) /\ ~Idle(p)
    BY DEF Does, Calls, Idle
  <2>2. \A p : ~Fork(p) /\ ~ForkKernel(p) /\ ~ForkPage(p) /\ ~Sbrk(p)
    BY <2>1 DEF Fork, ForkKernel, ForkPage, Sbrk
  <2>3. \A p : ~SbrkPage(p) /\ ~Exec(p) /\ ~ExecPage(p) /\ ~ExecCommit(p)
    BY <2>1 DEF SbrkPage, Exec, ExecPage, ExecCommit
  <2>4. \A p : ~Store(p) /\ ~Load(p) /\ ~fetchint(p) /\ ~fetchstr(p)
    BY <2>1 DEF Store, Load, fetchint, fetchstr
  <2>5. \A p : ~Await(p) /\ ~Kill(p) /\ ~Exit(p) /\ ~Wait(p)
    BY <2>1 DEF Await, Kill, Exit, Wait
  <2>6. Next
    BY <1>3 DEF Runs
  <2> QED BY <2>2, <2>3, <2>4, <2>5, <2>6 DEF Next, vars
<1> QED
  BY <1>1, <1>2, <1>3 DEF BootNext

\* A step that leaves memory and processes alone.
LEMMA KeptStill ==
  ASSUME Booting, Kept(cpu[B].at), ram' = ram, proc' = proc, test' = test, machine' = machine, NEW l, cpu'[B].at = l,
         boot'.runs = boot.runs, l \in Before => cpu[B].at \in Before, l \notin Making \/ cpu[B].at = l,
         l \notin Ready \/ cpu[B].at \in Ready
  PROVE  Accounted'
<1>b. B' = B
  BY DEF B
<1>1. View(ram, proc)' = View(ram, proc)
  BY DEF View
<1>2. Kept(l)'
  <2>1. l \notin {"inituvm", "userinit", "setupkvm"} \/ cpu[B].at = l
    BY DEF Making
  <2> QED BY <1>1, <2>1 DEF Kept
<1> QED
  BY <1>b, <1>2 DEF Accounted
\* main goes on to l, with memory changed and processes as they are.
LEMMA KeptGoes ==
  ASSUME Booting, cpu[B].at \in Main, machine' = machine, boot'.runs = boot.runs, Accounts(ram, View(ram, proc))', NEW l \in Main, cpu'[B].at = l,
         l \in Before => ram'.kpgdir = NULL
  PROVE  Accounted'
<1>b. B' = B
  BY DEF B
<1>1. l \notin Making /\ l \notin Ready /\ l # "setupkvm" /\ l \notin {"inituvm", "userinit"} /\ cpu[B].at \notin Ready
  BY Labels DEF Making
<1>2. boot'.runs = Nobody
  BY <1>1 DEF Booting, FirstAt
<1>3. Kept(l)'
  BY <1>1, <1>2 DEF Kept
<1> QED
  BY <1>b, <1>3 DEF Accounted
LEMMA AfterView ==
  ASSUME NEW M, NEW N, NEW P, After(M, N, View(M, P))
  PROVE  Accounts(N, View(N, P)) /\ N.kpgdir = M.kpgdir
<1>1. N.kpgdir = M.kpgdir
  BY DEF After
<1>2. View(N, P) = View(M, P)
  BY <1>1, ViewSame
<1> QED
  BY <1>1, <1>2 DEF After
LEMMA FirstIsB == ASSUME Booting PROVE B \in machine.cpus /\ Types
  BY BIs DEF Booting, Types
LEMMA Kinit1Keeps == ASSUME Booting, Kept(cpu[B].at), kinit1 PROVE Accounted'
<1>1. cpu[B].at = "kinit1" /\ machine' = machine /\ proc' = proc /\ test' = test /\ B \in machine.cpus /\ Types
  BY FirstIsB DEF kinit1, At
<1>2. Accounts(ram, View(ram, proc)) /\ ram.kpgdir = NULL
  BY <1>1, Labels DEF Kept
<1>3. CASE ram' = Give(ram, Len(ram.mem) + 1) /\ boot' = boot /\ cpu' = cpu
  <2>1. After(ram, ram', View(ram, proc))
    BY <1>2, <1>3, PageGiven
  <2>2. Accounts(ram, View(ram, proc))' /\ ram'.kpgdir = NULL
    BY <1>1, <1>2, <2>1, AfterView
  <2> QED BY <1>1, <1>3, <2>2, Labels, KeptGoes
<1>4. CASE ram' = ram /\ boot' = [boot EXCEPT !.image = <<>>] /\ cpu' = Goto(B, "kvmalloc")
  <2>1. cpu'[B].at = "kvmalloc"
    BY <1>1, <1>4, GotoIs
  <2>2. boot'.runs = boot.runs
    BY <1>1, <1>4 DEF Types, Shared
  <2>3. Accounts(ram, View(ram, proc))'
    BY <1>1, <1>2, <1>4 DEF View
  <2> QED BY <1>1, <1>2, <1>4, <2>1, <2>2, <2>3, Labels, KeptGoes
<1> QED
  BY <1>3, <1>4 DEF kinit1
LEMMA Kinit2Keeps == ASSUME Booting, Kept(cpu[B].at), kinit2 PROVE Accounted'
<1>1. cpu[B].at = "kinit2" /\ machine' = machine /\ proc' = proc /\ test' = test /\ B \in machine.cpus /\ Types
  BY FirstIsB DEF kinit2, At
<1>l. "kinit2" \in Main /\ "kinit2" \notin Before /\ "allocproc" \in Main /\ "allocproc" \notin Before
  BY Labels
<1>2. Accounts(ram, View(ram, proc))
  BY <1>1 DEF Kept
<1>3. CASE ram' = Give(ram, Len(ram.mem) + 1) /\ boot' = boot /\ cpu' = cpu
  <2>1. After(ram, ram', View(ram, proc))
    BY <1>2, <1>3, PageGiven
  <2>2. Accounts(ram, View(ram, proc))'
    BY <1>1, <1>2, <2>1, AfterView
  <2> QED BY <1>1, <1>3, <1>l, <2>2, KeptGoes
<1>4. CASE ram' = ram /\ boot' = [boot EXCEPT !.use_lock = TRUE] /\ cpu' = Goto(B, "allocproc")
  <2>1. cpu'[B].at = "allocproc"
    BY <1>1, <1>4, GotoIs
  <2>2. boot'.runs = boot.runs
    BY <1>1, <1>4 DEF Types, Shared
  <2>3. Accounts(ram, View(ram, proc))'
    BY <1>1, <1>2, <1>4 DEF View
  <2> QED BY <1>1, <1>l, <2>1, <2>2, <2>3, KeptGoes
<1> QED
  BY <1>3, <1>4 DEF kinit2
LEMMA KvmKeeps == ASSUME Booting, Kept(cpu[B].at), kvmalloc PROVE Accounted'
<1>1. /\ cpu[B].at = "kvmalloc" /\ machine' = machine /\ proc' = proc /\ test' = test /\ B \in machine.cpus /\ Types /\ boot' = boot
      /\ cpu' = [cpu EXCEPT ![B].at = "mpinit", ![B].dir = "kpgdir"]
  BY FirstIsB DEF kvmalloc, At
<1> DEFINE V == View(ram, proc)
           d == setupkvm(ram)
           p == d[2]
           N == d[1]
<1>2. Accounts(ram, V) /\ ram.kpgdir = NULL
  BY <1>1, Labels DEF Kept
<1>3. V[Kpgdir] = NULL
  BY <1>2, ViewIs
<1>4. \/ Broken(N)
      \/ p = NULL /\ After(ram, N, V)
      \/ p # NULL /\ p \in Nat /\ After(ram, N, Has(V, Kpgdir, p))
  BY <1>2, <1>3, SlotIs, DirSetUp
<1>5. ram' = [N EXCEPT !.kpgdir = p]
  BY DEF kvmalloc
<1>6. cpu'[B].at = "mpinit"
  <2> DEFINE r == [cpu[B] EXCEPT !.at = "mpinit", !.dir = "kpgdir"]
  <2>1. DOMAIN r = Regs /\ r.at = "mpinit" /\ cpu' = [cpu EXCEPT ![B] = r]
    BY <1>1 DEF Types, Regs
  <2> HIDE DEF r
  <2> QED BY <1>1, <2>1, PutIs
<1> HIDE DEF d
<1>7. CASE Broken(N)
  <2>1. ram'.panic # ""
    BY <1>5, <1>7 DEF Broken
  <2> QED BY <2>1 DEF Accounted
<1>8. ASSUME p \in Nat, NEW W, Accounts(N, W), W = [s \in Slots |-> W[s]], W[Kpgdir] = p,
             \A q \in Procs : W[Kstack(q)] = proc[q].kstack /\ W[Pgdir(q)] = proc[q].pgdir /\ W[New(q)] = proc[q].new
      PROVE  Accounted'
  <2>1. Accounts(ram', W) /\ ram'.kpgdir = p
    BY <1>5, <1>8, Renamed
  <2>2. W = View(ram', proc)
    BY <1>8, <2>1, ViewThis
  <2>3. Accounts(ram, View(ram, proc))'
    BY <1>1, <2>1, <2>2
  <2>l. cpu[B].at \in Main /\ "mpinit" \in Main /\ "mpinit" \notin Before
    BY <1>1, Labels
  <2> QED BY <1>1, <1>6, <2>l, <2>3, KeptGoes
<1>9. V \in [Slots -> Nat] /\ V = [s \in Slots |-> V[s]]
  BY <1>2, AccountsType
<1>10. \A q \in Procs : V[Kstack(q)] = proc[q].kstack /\ V[Pgdir(q)] = proc[q].pgdir /\ V[New(q)] = proc[q].new
  BY ViewIs
<1>11. CASE p = NULL /\ After(ram, N, V)
  <2>1. Accounts(N, V) /\ p \in Nat /\ V[Kpgdir] = p
    BY <1>3, <1>11 DEF After, NULL
  <2> HIDE DEF V, N, p
  <2> QED BY <1>8, <1>9, <1>10, <2>1
<1>12. CASE p # NULL /\ p \in Nat /\ After(ram, N, Has(V, Kpgdir, p))
  <2> DEFINE W == Has(V, Kpgdir, p)
  <2>1. Accounts(N, W)
    BY <1>12 DEF After
  <2>2. Kpgdir \in Slots /\ \A q \in Procs : /\ Kstack(q) \in Slots /\ Pgdir(q) \in Slots /\ New(q) \in Slots
                                             /\ Kpgdir # Kstack(q) /\ Kpgdir # Pgdir(q) /\ Kpgdir # New(q)
    BY SlotIs
  <2>w. W = Has(V, Kpgdir, p) /\ p \in Nat
    BY <1>12
  <2> HIDE DEF V, N, p, W
  <2>3. W \in [Slots -> Nat] /\ W[Kpgdir] = p /\ \A s \in Slots : s # Kpgdir => W[s] = V[s]
    BY <1>9, <2>w, <2>2 DEF Has
  <2>4. W = [s \in Slots |-> W[s]]
    BY <2>3
  <2>5. \A q \in Procs : W[Kstack(q)] = proc[q].kstack /\ W[Pgdir(q)] = proc[q].pgdir /\ W[New(q)] = proc[q].new
    BY <1>10, <2>2, <2>3
  <2> QED BY <1>8, <2>w, <2>1, <2>3, <2>4, <2>5
<1> QED
  BY <1>4, <1>7, <1>11, <1>12
LEMMA KeptMakes ==
  ASSUME machine' = machine, boot'.runs = Nobody, Accounts(ram, View(ram, proc))', NEW l \in Making, cpu'[B].at = l,
         proc'[1].sz \in Sz, l = "setupkvm" => proc'[1].pgdir = NULL /\ (proc'[1].kstack = NULL => ram'.free = <<>>),
         l \in {"inituvm", "userinit"} => proc'[1].pgdir # NULL /\ proc'[1].kstack # NULL
  PROVE  Accounted'
<1>b. B' = B
  BY DEF B
<1>1. l \notin Before /\ l \notin Ready
  BY DEF Making, Before, Ready
<1>3. Kept(l)'
  BY <1>1 DEF Kept
<1> QED
  BY <1>b, <1>3 DEF Accounted
LEMMA AllocprocKeeps == ASSUME Booting, Kept(cpu[B].at), allocproc PROVE Accounted'
<1>1. cpu[B].at = "allocproc" /\ machine' = machine /\ cpu' = Goto(B, "setupkvm") /\ boot' = [boot EXCEPT !.made = {"context"}]
      /\ B \in machine.cpus /\ Types
  BY FirstIsB DEF allocproc, At
<1> DEFINE V == View(ram, proc)
           a == kalloc(ram)
           x == a[2]
           N == a[1]
           r == [NoProc EXCEPT !.st = "EMBRYO", !.kstack = x]
           Q == proc'
<1>2. Accounts(ram, V) /\ Nothing(proc) /\ boot.runs = Nobody
  <2>1. "allocproc" \in Main /\ "allocproc" \notin Ready
    BY Labels DEF Ready
  <2> QED BY <1>1, <2>1 DEF Kept, Booting, FirstAt
<1>3. cpu'[B].at = "setupkvm" /\ boot'.runs = Nobody
  <2>1. cpu'[B].at = "setupkvm"
    BY <1>1, GotoIs
  <2>2. boot'.runs = boot.runs
    BY <1>1 DEF Types, Shared
  <2> QED BY <1>2, <2>1, <2>2
<1>4. 1 \in Procs /\ V \in [Slots -> Nat]
  BY <1>2, MemoryAssumption, AccountsType
<1>5. /\ r.kstack = x /\ r.pgdir = NULL /\ r.new = NULL /\ r.sz = 0
      /\ NoProc.kstack = NULL /\ NoProc.pgdir = NULL /\ NoProc.new = NULL
  BY DEF NoProc
<1>6. ram' = N /\ Q = [proc EXCEPT ![1] = r]
  BY DEF allocproc
<1>7. Kstack(1) \in Slots /\ Kstack(1)[1] = "kstack" /\ V[Kstack(1)] = NULL
  BY <1>2, <1>4, <1>5, SlotIs, ViewIs DEF Nothing
<1>8. \/ N = ram /\ x = NULL /\ ram.free = <<>>
      \/ x # NULL /\ x \in Nat /\ After(ram, N, Has(V, Kstack(1), x))
  BY <1>2, <1>7, StackGot
<1> HIDE DEF r, a, Q
<1>9. Q[1] = r /\ \A q \in Procs : q # 1 => Q[q] = proc[q]
  BY <1>2, <1>4, <1>6 DEF Nothing
<1>10. 0 \in Sz
  BY SizeBounds, Sizes DEF Sz
<1>11. CASE N = ram /\ x = NULL /\ ram.free = <<>>
  <2>1. \A q \in Procs : Q[q].kstack = proc[q].kstack /\ Q[q].pgdir = proc[q].pgdir /\ Q[q].new = proc[q].new
    BY <1>2, <1>4, <1>5, <1>9, <1>11 DEF Nothing
  <2>2. View(ram, Q) = View(ram, proc)
    BY <2>1, ViewSame
  <2>3. Accounts(ram, View(ram, proc))'
    BY <1>2, <1>6, <1>11, <2>2 DEF Q
  <2>4. proc'[1].sz \in Sz /\ proc'[1].pgdir = NULL /\ ram'.free = <<>> /\ "setupkvm" \in Making
    BY <1>5, <1>6, <1>9, <1>10, <1>11 DEF Q, Making
  <2> QED BY <1>1, <1>3, <2>3, <2>4, KeptMakes
<1>12. CASE x # NULL /\ x \in Nat /\ After(ram, N, Has(V, Kstack(1), x))
  <2>1. Q[1].kstack = x /\ Q[1].pgdir = proc[1].pgdir /\ Q[1].new = proc[1].new
    BY <1>2, <1>4, <1>5, <1>9 DEF Nothing
  <2>2. N.kpgdir = ram.kpgdir /\ Accounts(N, Has(V, Kstack(1), x))
    BY <1>12 DEF After
  <2>v. V = View(ram, proc)
    OBVIOUS
  <2>m. \A q \in Procs : q # 1 => Q[q].kstack = proc[q].kstack /\ Q[q].pgdir = proc[q].pgdir /\ Q[q].new = proc[q].new
    BY <1>9
  <2> HIDE DEF V, N, x
  <2>3. View(N, Q) = Has(V, Kstack(1), x)
    BY <1>4, <1>12, <2>m, <2>v, <2>1, <2>2, ViewHas
  <2>4. Accounts(ram, View(ram, proc))'
    BY <1>6, <2>2, <2>3 DEF Q
  <2>5. proc'[1].sz \in Sz /\ proc'[1].pgdir = NULL /\ proc'[1].kstack # NULL /\ "setupkvm" \in Making
    BY <1>5, <1>9, <1>10, <1>12, <2>1 DEF Q, Making
  <2> QED BY <1>1, <1>3, <2>4, <2>5, KeptMakes
<1> QED
  BY <1>8, <1>11, <1>12
LEMMA UserKernelKeeps == ASSUME Booting, Kept(cpu[B].at), UserKernel PROVE Accounted'
<1>1. cpu[B].at = "setupkvm" /\ machine' = machine /\ cpu' = Goto(B, "inituvm") /\ boot' = boot /\ B \in machine.cpus /\ Types
  BY FirstIsB DEF UserKernel, At
<1> DEFINE V == View(ram, proc)
           d == setupkvm(ram)
           x == d[2]
           N == d[1]
           Q == proc'
<1>2. /\ Accounts(ram, V) /\ proc[1].sz \in Sz /\ proc[1].pgdir = NULL /\ (proc[1].kstack = NULL => ram.free = <<>>)
      /\ Begun(proc) /\ boot.runs = Nobody
  <2>1. "setupkvm" \in Making /\ "setupkvm" \notin Ready
    BY Labels DEF Making, Ready
  <2> QED BY <1>1, <2>1 DEF Kept, Booting, FirstAt
<1>3. cpu'[B].at = "inituvm" /\ boot'.runs = Nobody
  BY <1>1, <1>2, GotoIs
<1>4. 1 \in Procs /\ V \in [Slots -> Nat] /\ ram \in Ram
  BY <1>2, MemoryAssumption, AccountsType
<1>6. ram' = (IF x = NULL THEN Panic(N, "userinit: out of memory?") ELSE N) /\ Q = [proc EXCEPT ![1].pgdir = x]
  BY DEF UserKernel
<1>7. Pgdir(1) \in Slots /\ Pgdir(1)[1] # "kstack" /\ V[Pgdir(1)] = NULL
  BY <1>2, <1>4, SlotIs, ViewIs
<1>8. \/ Broken(N)
      \/ x = NULL /\ After(ram, N, V)
      \/ x # NULL /\ x \in Nat /\ ram.free # <<>> /\ After(ram, N, Has(V, Pgdir(1), x))
  BY <1>2, <1>7, DirSetUp
<1> DEFINE r == [proc[1] EXCEPT !.pgdir = x]
<1>5. r.pgdir = x /\ r.kstack = proc[1].kstack /\ r.new = proc[1].new /\ r.sz = proc[1].sz
  BY <1>2 DEF Begun, Fields
<1>s. Q = [proc EXCEPT ![1] = r]
  BY <1>6
<1> HIDE DEF d, Q, r
<1>9. Q[1] = r /\ \A q \in Procs : q # 1 => Q[q] = proc[q]
  <2>1. proc = [p \in Procs |-> IF p = 1 THEN proc[1] ELSE NoProc]
    BY <1>2 DEF Begun
  <2> QED BY <1>4, <1>s, <2>1
<1>10. CASE Broken(N) \/ (x = NULL /\ After(ram, N, V))
  <2>1. ram'.panic # ""
    <3>1. CASE Broken(N)
      BY <1>6, <3>1 DEF Broken, Panic
    <3>2. CASE x = NULL /\ After(ram, N, V)
      <4>1. N \in Ram
        BY <3>2, AccountsType DEF After
      <4> QED BY <1>6, <3>2, <4>1, PanicIs
    <3> QED BY <1>10, <3>1, <3>2
  <2> QED BY <2>1 DEF Accounted
<1>12. CASE x # NULL /\ x \in Nat /\ ram.free # <<>> /\ After(ram, N, Has(V, Pgdir(1), x))
  <2>1. Q[1].pgdir = x /\ Q[1].kstack = proc[1].kstack /\ Q[1].new = proc[1].new
    BY <1>5, <1>9
  <2>2. N.kpgdir = ram.kpgdir /\ Accounts(N, Has(V, Pgdir(1), x))
    BY <1>12 DEF After
  <2>v. V = View(ram, proc)
    OBVIOUS
  <2>m. \A q \in Procs : q # 1 => Q[q].kstack = proc[q].kstack /\ Q[q].pgdir = proc[q].pgdir /\ Q[q].new = proc[q].new
    BY <1>9
  <2> HIDE DEF V, N, x
  <2>3. View(N, Q) = Has(V, Pgdir(1), x)
    BY <1>4, <1>12, <2>m, <2>v, <2>1, <2>2, ViewHas
  <2>4. Accounts(ram, View(ram, proc))'
    BY <1>6, <1>12, <2>2, <2>3 DEF Q
  <2>5. proc'[1].sz \in Sz /\ proc'[1].pgdir # NULL /\ proc'[1].kstack # NULL /\ "inituvm" \in Making /\ "inituvm" # "setupkvm"
    BY <1>2, <1>5, <1>9, <1>12, <2>1 DEF Q, Making
  <2> QED BY <1>1, <1>3, <2>4, <2>5, KeptMakes
<1> QED
  BY <1>8, <1>10, <1>12
LEMMA InituvmKeeps == ASSUME Booting, Kept(cpu[B].at), inituvm PROVE Accounted'
<1>1. /\ cpu[B].at = "inituvm" /\ machine' = machine /\ cpu' = Goto(B, "userinit") /\ boot' = [boot EXCEPT !.made = @ \cup {"text"}]
      /\ B \in machine.cpus /\ Types
  BY FirstIsB DEF inituvm, At
<1> DEFINE V == View(ram, proc)
           w == allocuvm(ram, proc[1].pgdir, 0)
           Q == proc'
           r == [proc[1] EXCEPT !.sz = PGSIZE]
<1>2. Accounts(ram, V) /\ proc[1].pgdir # NULL /\ proc[1].kstack # NULL /\ Begun(proc) /\ boot.runs = Nobody
  <2>1. "inituvm" \in Making /\ "inituvm" \notin Ready
    BY Labels DEF Making, Ready
  <2> QED BY <1>1, <2>1 DEF Kept, Booting, FirstAt
<1>3. cpu'[B].at = "userinit" /\ boot'.runs = Nobody
  <2>1. cpu'[B].at = "userinit"
    BY <1>1, GotoIs
  <2>2. boot'.runs = boot.runs
    BY <1>1 DEF Types, Shared
  <2> QED BY <1>2, <2>1, <2>2
<1>4. 1 \in Procs /\ Pgdir(1) \in Slots /\ Pgdir(1)[1] # "kstack" /\ V[Pgdir(1)] = proc[1].pgdir
  BY MemoryAssumption, SlotIs, ViewIs
<1>5. 0 \in Vpn /\ 0 < KERNBASE /\ PGSIZE \in Sz
  <2>1. PGSIZE \in Nat \ {0} /\ KERNBASE \in Nat \ {0}
    BY Sizes
  <2>2. \A a, b \in Nat \ {0} : a <= b * a /\ b * a \in Nat /\ a * a > 0 /\ a * a \in Nat
    <3>1. \A a, b \in Nat \ {0} : b * a = (b - 1) * a + a /\ b - 1 \in Nat
      OBVIOUS
    <3>2. \A a, b \in Nat : a * b \in Nat
      OBVIOUS
    <3>3. \A a, b \in Nat \ {0} : (b - 1) * a \in Nat
      BY <3>1, <3>2
    <3>4. \A a, b \in Nat \ {0} : a <= b * a /\ b * a \in Nat
      BY <3>1, <3>2, <3>3
    <3> QED BY <3>4
  <2>3. PGSIZE * PGSIZE \in Nat /\ PGSIZE * PGSIZE > 0
    BY <2>1, <2>2
  <2>4. 0 \in 0..(PGSIZE * PGSIZE - 1)
    BY <2>3
  <2>5. PGSIZE \in 0..(KERNBASE * PGSIZE)
    BY <2>1, <2>2
  <2> QED BY <2>1, <2>4, <2>5 DEF Vpn, Sz
<1>6. \/ w[2] = "none" /\ w[1] = ram
      \/ w[2] = "ok" /\ w[1].panic # ""
      \/ w[2] \in {"ok", "torn"} /\ After(ram, w[1], V)
  BY <1>2, <1>4, <1>5, DirGrown
<1>7. ram' = w[1] /\ Q = [proc EXCEPT ![1] = r]
  BY DEF inituvm
<1>8. r.sz = PGSIZE /\ r.kstack = proc[1].kstack /\ r.pgdir = proc[1].pgdir /\ r.new = proc[1].new
  BY <1>2 DEF Begun, Fields
<1> HIDE DEF w, Q, r
<1>9. Q[1] = r /\ \A q \in Procs : q # 1 => Q[q] = proc[q]
  <2>1. proc = [p \in Procs |-> IF p = 1 THEN proc[1] ELSE NoProc]
    BY <1>2 DEF Begun
  <2> QED BY <1>4, <1>7, <2>1
<1>10. CASE w[1].panic # ""
  BY <1>7, <1>10 DEF Accounted
<1>11. CASE w[1] = ram \/ After(ram, w[1], V)
  <2>1. Accounts(ram', V) /\ ram'.kpgdir = ram.kpgdir
    BY <1>2, <1>7, <1>11 DEF After
  <2>2. \A q \in Procs : Q[q].kstack = proc[q].kstack /\ Q[q].pgdir = proc[q].pgdir /\ Q[q].new = proc[q].new
    BY <1>8, <1>9
  <2>3. View(ram', Q) = V
    BY <2>1, <2>2, ViewSame
  <2>4. Accounts(ram, View(ram, proc))'
    BY <2>1, <2>3 DEF Q
  <2>5. proc'[1].sz \in Sz /\ proc'[1].pgdir # NULL /\ proc'[1].kstack # NULL /\ "userinit" \in Making /\ "userinit" # "setupkvm"
    BY <1>2, <1>5, <1>8, <1>9 DEF Q, Making
  <2> QED BY <1>1, <1>3, <2>4, <2>5, KeptMakes
<1> QED
  BY <1>6, <1>10, <1>11
LEMMA UserinitKeeps == ASSUME Booting, Kept(cpu[B].at), userinit PROVE Accounted'
<1>1. cpu[B].at = "userinit" /\ machine' = machine /\ test' = test /\ ram' = ram /\ B \in machine.cpus /\ Types
  BY FirstIsB DEF userinit, At
<1>2. Accounts(ram, View(ram, proc)) /\ proc[1].sz \in Sz /\ proc[1].pgdir # NULL /\ proc[1].kstack # NULL /\ Begun(proc) /\ boot.runs = Nobody
  <2>1. "userinit" \in Making /\ "userinit" \notin Ready
    BY Labels DEF Making, Ready
  <2> QED BY <1>1, <2>1 DEF Kept, Booting, FirstAt
<1>b. B' = B
  BY <1>1 DEF B
<1>3. CASE proc' = proc /\ cpu' = cpu /\ \E v : boot' = [boot EXCEPT !.made = v]
  <2>1. boot'.runs = boot.runs
    BY <1>1, <1>3 DEF Types, Shared
  <2>2. "userinit" \notin Before /\ cpu'[B].at = "userinit"
    BY <1>1, <1>3 DEF Before
  <2>3. "userinit" \notin Ready
    BY DEF Ready
  <2> QED BY <1>1, <1>3, <2>1, <2>2, <2>3, KeptStill
<1>4. CASE proc' = [proc EXCEPT ![1].st = "RUNNABLE"] /\ cpu' = Goto(B, "idtinit") /\ boot' = boot
  <2> DEFINE r == [proc[1] EXCEPT !.st = "RUNNABLE"]
             Q == proc'
  <2>1. /\ r.kstack = proc[1].kstack /\ r.pgdir = proc[1].pgdir /\ r.new = NULL /\ r.sz = proc[1].sz /\ r.kid = 0 /\ r.at = 1
        /\ r.todo = <<>> /\ r.st = "RUNNABLE" /\ DOMAIN r = Fields /\ proc[1].new = NULL
    BY <1>2 DEF Begun, Fields
  <2>2. Q = [proc EXCEPT ![1] = r]
    BY <1>4
  <2> HIDE DEF r, Q
  <2>3. Q = [p \in Procs |-> Q[p]] /\ Q[1] = r /\ \A p \in Procs : p # 1 => Q[p] = NoProc /\ proc[p] = NoProc
    <3>1. proc = [p \in Procs |-> IF p = 1 THEN proc[1] ELSE NoProc] /\ 1 \in Procs
      BY <1>2, MemoryAssumption DEF Begun
    <3> QED BY <2>2, <3>1
  <2>4. \A q \in Procs : Q[q].kstack = proc[q].kstack /\ Q[q].pgdir = proc[q].pgdir /\ Q[q].new = proc[q].new
    BY <2>1, <2>3
  <2>5. View(ram, Q) = View(ram, proc)
    BY <2>4, ViewSame
  <2>6. proc[1].kstack \in Nat /\ proc[1].pgdir \in Nat
    <3>1. View(ram, proc) \in [Slots -> Nat] /\ 1 \in Procs
      BY <1>2, AccountsType, MemoryAssumption
    <3>2. View(ram, proc)[Kstack(1)] \in Nat /\ View(ram, proc)[Pgdir(1)] \in Nat
      BY <3>1, SlotIs
    <3> QED BY <3>1, <3>2, ViewIs
  <2>7. ASSUME NEW t PROVE Good(t, Q)
    <3>1. Rec(t, r) /\ \A q : ~Forks(r, q)
      <4>1. State(r) /\ Born(t, r.kid) /\ 1 \in Nat \ {0}
        BY <1>2, <2>1 DEF State, Born
      <4> QED BY <1>2, <2>1, <2>6, <4>1, Rests
    <3>2. Rec(t, NoProc) /\ \A q : ~Forks(NoProc, q)
      BY NoProcIs
    <3>3. \A p \in Procs : Rec(t, Q[p]) /\ \A q : ~Forks(Q[p], q)
      BY <2>3, <3>1, <3>2
    <3> QED BY <2>3, <3>3 DEF Good
  <2>8. cpu'[B].at = "idtinit"
    BY <1>1, <1>4, GotoIs
  <2>9. "idtinit" \notin Before /\ "idtinit" \notin Making /\ "idtinit" # "setupkvm" /\ "idtinit" \notin {"inituvm", "userinit"}
    BY DEF Before, Making
  <2>10. (\A t \in DOMAIN Programs : Good(t, proc))'
    BY <2>7 DEF Q
  <2>11. Accounts(ram, View(ram, proc))'
    BY <1>1, <1>2, <2>5 DEF Q
  <2>12. Kept("idtinit")'
    BY <1>2, <1>4, <2>9, <2>10, <2>11 DEF Kept
  <2> QED BY <1>b, <2>8, <2>12 DEF Accounted
<1> QED
  BY <1>3, <1>4 DEF userinit
\* The steps of main that leave memory alone.
LEMMA DevicesStill ==
  ASSUME Booting, bootmain \/ picinit \/ ioapicinit \/ consoleinit \/ uartinit \/ ideinit \/ timerinit
  PROVE  Still(boot, boot')
<1>0. DOMAIN boot = Shared
  BY DEF Booting, Types
<1>1. \A b : DOMAIN b = Shared => Still(b, b) /\ (\A v : Still(b, [b EXCEPT !.pic = v]) /\ Still(b, [b EXCEPT !.ioapic = v]) /\ Still(b, [b EXCEPT !.image = v]))
  BY StillIs
<1>2. \A b : DOMAIN b = Shared => (\A v, c : Still(b, picenable(b, v)) /\ Still(b, picsetmask(b, v)) /\ Still(b, ioapicenable(b, v, c)))
  BY StillIs
<1>3. \A b, x : Still(b, x) => DOMAIN x = Shared
  BY DEF Still
<1>4. CASE picinit
  <2>1. [boot EXCEPT !.pic = FoldLeft(Out, @, Words)] = [boot EXCEPT !.pic = FoldLeft(Out, boot.pic, Words)]
    OBVIOUS
  <2>2. PICK v : LET b == [boot EXCEPT !.pic = v] IN boot' = IF b.irqmask # 0..15 THEN picsetmask(b, b.irqmask) ELSE b
    BY <1>4, <2>1 DEF picinit
  <2> DEFINE b == [boot EXCEPT !.pic = v]
  <2>3. Still(boot, b) /\ DOMAIN b = Shared
    BY <1>0, <1>1, <1>3
  <2>4. boot' = picsetmask(b, b.irqmask) \/ boot' = b
    BY <2>2
  <2> HIDE DEF b
  <2>5. Still(b, picsetmask(b, b.irqmask))
    BY <1>2, <2>3
  <2>6. Still(boot, picsetmask(b, b.irqmask))
    BY <2>3, <2>5, StillAlso
  <2> QED BY <2>3, <2>4, <2>6
<1>5. CASE ioapicinit
  BY <1>0, <1>1, <1>5 DEF ioapicinit
<1>6. ASSUME NEW v, NEW c, boot' = ioapicenable(picenable(boot, v), v, c) PROVE Still(boot, boot')
  <2> DEFINE b == picenable(boot, v)
  <2>1. Still(boot, b) /\ DOMAIN b = Shared
    BY <1>0, <1>2, <1>3
  <2> HIDE DEF b
  <2>2. Still(b, ioapicenable(b, v, c))
    BY <1>2, <2>1
  <2>3. Still(boot, ioapicenable(b, v, c))
    BY <2>1, <2>2, StillAlso
  <2> QED BY <1>6, <2>3 DEF b
<1>7. CASE consoleinit \/ uartinit \/ ideinit
  BY <1>0, <1>1, <1>6, <1>7 DEF consoleinit, uartinit, ideinit
<1>8. CASE timerinit
  BY <1>0, <1>2, <1>8 DEF timerinit
<1>9. CASE bootmain
  <2>1. PICK v : boot' = [boot EXCEPT !.image = v]
    BY <1>9 DEF bootmain
  <2> QED BY <1>0, <1>1, <2>1
<1> QED BY <1>4, <1>5, <1>7, <1>8, <1>9
LEMMA RunsStay ==
  ASSUME Booting,
         bootmain \/ mpinit \/ picinit \/ ioapicinit \/ consoleinit \/ uartinit \/ tvinit \/ ideinit \/ timerinit \/ lapicstartap \/ waitstarted
  PROVE  boot'.runs = boot.runs
<1>0. DOMAIN boot = Shared
  BY DEF Booting, Types
<1>1. CASE tvinit \/ waitstarted \/ mpinit \/ lapicstartap
  BY <1>0, <1>1 DEF tvinit, waitstarted, mpinit, lapicstartap, Shared
<1>2. CASE bootmain \/ picinit \/ ioapicinit \/ consoleinit \/ uartinit \/ ideinit \/ timerinit
  BY <1>2, DevicesStill DEF Still
<1> QED BY <1>1, <1>2
LEMMA MainStays ==
  ASSUME Booting,
         bootmain \/ mpinit \/ picinit \/ ioapicinit \/ consoleinit \/ uartinit \/ tvinit \/ ideinit \/ timerinit \/ lapicstartap \/ waitstarted
  PROVE  cpu'[B].at \in Main /\ (cpu'[B].at \in Before => cpu[B].at \in Before)
<1>1. B \in machine.cpus /\ Types /\ B \in DOMAIN cpu /\ "at" \in DOMAIN cpu[B]
  BY FirstIsB DEF Types, Regs
<1>2. ASSUME NEW l \in Main, l \notin Before \/ cpu[B].at \in Before, cpu' = Goto(B, l)
      PROVE  cpu'[B].at \in Main /\ (cpu'[B].at \in Before => cpu[B].at \in Before)
  BY <1>1, <1>2, GotoIs
<1>l. /\ {"lapicinit", "ioapicinit", "consoleinit", "uartinit", "tvinit", "ideinit", "timerinit", "startothers", "startup", "again", "started"} \subseteq Main \ Before
      /\ {"bootmain", "kinit1"} \subseteq Main \cap Before /\ "mpinit" \in Main \ Before
  BY Labels
<1>3. CASE bootmain
  <2>1. cpu[B].at = "bootmain" /\ cpu' = Goto(B, "kinit1")
    BY <1>3 DEF bootmain, At
  <2> QED BY <1>2, <1>l, <2>1
<1>4. CASE picinit \/ ioapicinit \/ consoleinit \/ uartinit \/ tvinit \/ timerinit \/ waitstarted
  <2>1. cpu' = Goto(B, "ioapicinit") \/ cpu' = Goto(B, "consoleinit") \/ cpu' = Goto(B, "uartinit") \/ cpu' = Goto(B, "tvinit")
        \/ cpu' = Goto(B, "ideinit") \/ cpu' = Goto(B, "startothers")
    BY <1>4 DEF picinit, ioapicinit, consoleinit, uartinit, tvinit, timerinit, waitstarted
  <2> QED BY <1>2, <1>l, <2>1
<1>5. CASE ideinit
  <2>1. cpu' = Goto(B, "timerinit") \/ cpu' = Goto(B, "startothers")
    BY <1>5 DEF ideinit
  <2> QED BY <1>2, <1>l, <2>1
<1>6. CASE mpinit
  <2>1. cpu' = Goto(B, "lapicinit") \/ cpu' = cpu
    BY <1>6 DEF mpinit
  <2>2. cpu[B].at = "mpinit"
    BY <1>6 DEF mpinit, At
  <2> QED BY <1>2, <1>l, <2>1, <2>2
<1>7. CASE lapicstartap
  <2>1. ASSUME NEW i, NEW l, l \in Main \ Before, Signal(boot.next, i, l) PROVE cpu'[B].at \in Main \ Before
    <3> DEFINE n == Told(boot.next, i)
    <3>1. B \in DOMAIN n /\ n[B] = cpu[B]
      BY <1>1 DEF Told
    <3>2. cpu' = [n EXCEPT ![B].at = l]
      BY <2>1 DEF Signal
    <3> HIDE DEF n
    <3> QED BY <1>1, <2>1, <3>1, <3>2
  <2>2. Signal(boot.next, "INIT", "startup") \/ Signal(boot.next, "STARTUP", "again") \/ Signal(boot.next, "STARTUP", "started")
    BY <1>7 DEF lapicstartap
  <2> QED BY <1>l, <2>1, <2>2
<1> QED
  BY <1>3, <1>4, <1>5, <1>6, <1>7
LEMMA StillKeeps ==
  ASSUME Booting, Kept(cpu[B].at),
         bootmain \/ mpinit \/ picinit \/ ioapicinit \/ consoleinit \/ uartinit \/ tvinit \/ ideinit \/ timerinit \/ lapicstartap \/ waitstarted
  PROVE  Accounted'
<1>1. machine' = machine /\ proc' = proc /\ ram' = ram
  BY DEF bootmain, mpinit, picinit, ioapicinit, consoleinit, uartinit, tvinit, ideinit, timerinit, lapicstartap, waitstarted, vars
<1>2. cpu[B].at \in Main
  BY Labels DEF bootmain, mpinit, picinit, ioapicinit, consoleinit, uartinit, tvinit, ideinit, timerinit, lapicstartap, waitstarted, At
<1>3. Accounts(ram, View(ram, proc))'
  BY <1>1 DEF Kept, View
<1>4. cpu'[B].at \in Main /\ (cpu'[B].at \in Before => ram'.kpgdir = NULL) /\ boot'.runs = boot.runs
  BY <1>1, MainStays, RunsStay DEF Kept
<1> QED
  BY <1>1, <1>2, <1>3, <1>4, KeptGoes
LEMMA OthersKeep == ASSUME Booting, Kept(cpu[B].at), startothers PROVE Accounted'
<1>1. cpu[B].at = "startothers" /\ machine' = machine /\ proc' = proc /\ B \in machine.cpus /\ Types
  BY FirstIsB DEF startothers, At
<1>l. {"startothers", "kinit2", "init"} \subseteq Main \ Before
  BY Labels
<1>2. Accounts(ram, View(ram, proc))
  BY DEF Kept
<1>3. boot'.runs = boot.runs
  BY <1>1 DEF startothers, Types, Shared
<1>4. cpu'[B].at \in Main /\ cpu'[B].at \notin Before
  <2>1. ASSUME NEW l \in Main \ Before, cpu' = Goto(B, l) PROVE cpu'[B].at \in Main /\ cpu'[B].at \notin Before
    BY <1>1, <2>1, GotoIs
  <2>2. cpu' = cpu \/ cpu' = Goto(B, "kinit2") \/ cpu' = Goto(B, "init")
    BY DEF startothers
  <2> QED BY <1>1, <1>l, <2>1, <2>2
<1>5. CASE ram' = ram
  <2>1. Accounts(ram, View(ram, proc))'
    BY <1>1, <1>2, <1>5 DEF View
  <2> QED BY <1>1, <1>l, <1>3, <1>4, <2>1, KeptGoes
<1>6. CASE ram' = [kalloc(ram)[1] EXCEPT !.stacks = @ \cup {kalloc(ram)[2]}]
  <2>1. After(ram, ram', View(ram, proc))
    BY <1>2, <1>6, CpuStackGot
  <2>2. Accounts(ram, View(ram, proc))'
    BY <1>1, <2>1, AfterView
  <2> QED BY <1>1, <1>l, <1>3, <1>4, <2>2, KeptGoes
<1> QED
  BY <1>5, <1>6 DEF startothers
LEMMA MainKeeps == ASSUME Booting, Kept(cpu[B].at), BootMain PROVE Accounted'
  BY StillKeeps, Kinit1Keeps, KvmKeeps, OthersKeep, Kinit2Keeps, AllocprocKeeps, UserKernelKeeps, InituvmKeeps, UserinitKeeps DEF BootMain
LEMMA TurnKeeps == ASSUME Booting, Kept(cpu[B].at), NEW c \in machine.cpus, lapicinit(c) \/ entryother(c) \/ mpenter(c) \/ idtinit(c) \/ xchg(c) PROVE Accounted'
<1>1. ram' = ram /\ machine' = machine /\ proc' = proc /\ test' = test /\ B \in machine.cpus /\ Types /\ DOMAIN boot = Shared /\ DOMAIN cpu[c] = Regs
  BY FirstIsB DEF lapicinit, entryother, mpenter, idtinit, xchg, vars, Types
<1>2. boot'.runs = boot.runs
  BY <1>1 DEF lapicinit, entryother, mpenter, idtinit, xchg, Shared
<1>3. \E r : cpu' = [cpu EXCEPT ![c] = r]
  BY <1>1 DEF lapicinit, entryother, mpenter, idtinit, xchg, Goto, Types
<1>4. CASE c # B
  <2>1. cpu'[B] = cpu[B]
    BY <1>1, <1>3, <1>4 DEF Types
  <2>2. B' = B /\ View(ram, proc)' = View(ram, proc)
    BY <1>1 DEF B, View
  <2>3. Kept(cpu[B].at)'
    BY <1>1, <1>2, <2>1, <2>2 DEF Kept
  <2> QED BY <2>3 DEF Accounted
<1>5. CASE c = B
  <2>1. FirstAt(cpu[B].at) /\ {"entryother", "mpenter"} \cap (Main \cup Making \cup Ready) = {}
    BY DEF Booting, Main, Before, Devices, Late, Making, Ready
  <2>2. ~entryother(c) /\ ~mpenter(c)
    BY <1>5, <2>1 DEF FirstAt, entryother, mpenter, At
  <2>3. \/ cpu[B].at = "lapicinit" /\ cpu'[B].at = "picinit"
        \/ cpu[B].at = "idtinit" /\ cpu'[B].at = "xchg"
        \/ cpu[B].at = "xchg" /\ cpu'[B].at = "scheduler"
    <3>1. CASE lapicinit(c)
      <4> DEFINE l == IF c = B THEN "picinit" ELSE "idtinit"
                 r == [LapicSet(c) EXCEPT !.at = l]
      <4>1. r.at = "picinit"
        BY <1>1, <1>5, OneIs
      <4>2. cpu' = [cpu EXCEPT ![c] = r] /\ cpu[c].at = "lapicinit"
        BY <3>1 DEF lapicinit, At
      <4> HIDE DEF r, l
      <4>3. cpu'[B] = r
        BY <1>1, <1>5, <4>2 DEF Types
      <4> QED BY <1>5, <4>1, <4>2, <4>3
    <3>2. CASE idtinit(c)
      <4> DEFINE r == [cpu[c] EXCEPT !.at = "xchg", !.idt = boot.idt]
      <4>1. r.at = "xchg"
        BY <1>1 DEF Regs
      <4>2. cpu' = [cpu EXCEPT ![c] = r] /\ cpu[c].at = "idtinit"
        BY <1>1, <3>2 DEF idtinit, At, Types
      <4> HIDE DEF r
      <4>3. cpu'[B] = r
        BY <1>1, <1>5, <4>2 DEF Types
      <4> QED BY <1>5, <4>1, <4>2, <4>3
    <3>3. CASE xchg(c)
      <4>1. cpu' = Goto(B, "scheduler") /\ cpu[B].at = "xchg"
        BY <1>5, <3>3 DEF xchg, At
      <4> QED BY <1>1, <4>1, GotoIs
    <3> QED BY <2>2, <3>1, <3>2, <3>3
  <2>4. {"picinit", "xchg", "scheduler"} \cap Before = {} /\ {"picinit", "xchg", "scheduler"} \cap Making = {} /\ "picinit" \notin Ready
        /\ {"idtinit", "xchg", "scheduler"} = Ready
    BY DEF Before, Making, Ready
  <2>5. PICK l \in {"picinit", "xchg", "scheduler"} : cpu'[B].at = l /\ (l = "picinit" \/ cpu[B].at \in {"idtinit", "xchg", "scheduler"})
    BY <2>3
  <2> QED BY <1>1, <1>2, <2>4, <2>5, KeptStill
<1> QED
  BY <1>4, <1>5
LEMMA SchedulerKeeps == ASSUME Booting, Kept(cpu[B].at), NEW c \in machine.cpus, scheduler(c) PROVE Accounted'
<1>1. ram' = ram /\ machine' = machine /\ proc' = proc /\ B \in machine.cpus /\ c \in machine.cpus /\ Types /\ DOMAIN boot = Shared /\ DOMAIN cpu[c] = Regs
      /\ c # Nobody /\ machine \in Machines
  BY FirstIsB, BIs DEF scheduler, Types
<1>b. B' = B /\ View(ram, proc)' = View(ram, proc)
  BY <1>1 DEF B, View
<1>2. CASE cpu' = [cpu EXCEPT ![c].sti = TRUE] /\ test' = test /\ boot' = boot
  <2> DEFINE r == [cpu[c] EXCEPT !.sti = TRUE]
  <2>1. cpu' = [cpu EXCEPT ![c] = r] /\ r.at = cpu[c].at
    BY <1>1, <1>2 DEF Regs
  <2> HIDE DEF r
  <2>2. cpu'[B].at = cpu[B].at
    BY <1>1, <2>1 DEF Types
  <2>3. Kept(cpu[B].at)'
    BY <1>1, <1>b, <1>2, <2>2 DEF Kept
  <2> QED BY <2>3 DEF Accounted
<1>3. CASE proc[1].st = "RUNNABLE" /\ boot' = [boot EXCEPT !.runs = c] /\ test' \in machine.programs /\ cpu' = cpu /\ boot.runs = Nobody
  <2>1. Booting'
    BY SchedulerBoots
  <2>2. boot'.runs = c
    BY <1>1, <1>3 DEF Shared
  <2>3. test' \in DOMAIN Programs
    BY <1>1, <1>3, BootAssumption
  <2>4. cpu[B].at \in Ready
    <3>1. (FirstAt(cpu[B].at))'
      BY <2>1 DEF Booting
    <3> QED BY <1>1, <1>b, <1>3, <2>2, <3>1 DEF FirstAt
  <2>5. Good(test', proc)
    BY <1>3, <2>3, <2>4 DEF Kept
  <2>6. cpu[B].at \notin Making /\ cpu[B].at \notin Before
    BY <2>4, Labels DEF Before, Ready
  <2>g. Good(test, proc)'
    BY <1>1, <2>5 DEF Good
  <2>7. Kept(cpu[B].at)'
    <3>1. cpu[B].at # "setupkvm" /\ cpu[B].at \notin {"inituvm", "userinit"}
      BY <2>6 DEF Making
    <3> QED BY <1>1, <1>b, <1>3, <2>2, <2>g, <2>6, <3>1 DEF Kept
  <2> QED BY <2>7 DEF Accounted
<1> QED
  BY <1>2, <1>3 DEF scheduler
LEMMA RunKeeps == ASSUME Booting, Kept(cpu[B].at), Runs PROVE Accounted'
<1>1. boot.runs # Nobody /\ machine' = machine /\ cpu' = cpu /\ boot' = boot /\ Next
  BY DEF Runs, bootvars
<1>b. B' = B
  BY <1>1 DEF B
<1>2. FirstAt(cpu[B].at)
  BY DEF Booting
<1>3. cpu[B].at \in Ready /\ test \in DOMAIN Programs
  BY <1>1, <1>2 DEF FirstAt
<1>4. Working(test, ram, proc)
  BY <1>1 DEF Kept, Working
<1>5. Working(test, ram', proc') /\ test' = test
  BY <1>1, <1>3, <1>4, NextWorks
<1>6. CASE ram'.panic = ""
  <2>1. Accounts(ram', View(ram', proc')) /\ Good(test, proc')
    BY <1>5, <1>6 DEF Working
  <2>2. (Accounts(ram, View(ram, proc)))' /\ (Good(test, proc))'
    BY <1>5, <2>1
  <2>3. cpu[B].at \notin Making /\ cpu[B].at \notin Before /\ cpu[B].at # "setupkvm" /\ cpu[B].at \notin {"inituvm", "userinit"}
    BY <1>3, Labels DEF Before, Ready
  <2>4. Kept(cpu[B].at)'
    BY <1>b, <1>1, <2>2, <2>3 DEF Kept
  <2> QED BY <2>4 DEF Accounted
<1>7. CASE ram'.panic # ""
  BY <1>7 DEF Accounted
<1> QED
  BY <1>6, <1>7
LEMMA InitKeeps == ASSUME BootInit PROVE Accounted
<1>1. Booting /\ B = machine.bsp /\ B \in machine.cpus
  BY InitBoots, FirstIsB DEF B
<1>2. cpu[B].at = "bootmain" /\ boot.runs = Nobody
  BY <1>1 DEF BootInit, Off
<1>3. ram = [free |-> <<>>, mem |-> <<>>, lost |-> {}, panic |-> "", kpgdir |-> NULL, stacks |-> {}] /\ proc = [p \in Procs |-> NoProc]
  BY DEF BootInit
<1>4. View(ram, proc) = [s \in Slots |-> NULL]
  <2> DEFINE W == [s \in Slots |-> NULL]
  <2>1. W = [s \in Slots |-> W[s]]
    OBVIOUS
  <2>2. W[Kpgdir] = ram.kpgdir
    BY <1>3, SlotIs
  <2>3. NoProc.kstack = NULL /\ NoProc.pgdir = NULL /\ NoProc.new = NULL
    BY DEF NoProc
  <2>4. \A p \in Procs : W[Kstack(p)] = proc[p].kstack /\ W[Pgdir(p)] = proc[p].pgdir /\ W[New(p)] = proc[p].new
    BY <1>3, <2>3, SlotIs
  <2> HIDE DEF W
  <2>5. W = View(ram, proc)
    BY <2>1, <2>2, <2>4, ViewThis
  <2> QED BY <2>5 DEF W
<1>5. Accounts(ram, View(ram, proc))
  BY <1>3, <1>4, NothingYet
<1>6. "bootmain" \notin Making /\ "bootmain" \notin Ready
  BY DEF Making, Ready
<1>7. Kept("bootmain")
  BY <1>2, <1>3, <1>5, <1>6 DEF Kept
<1> QED
  BY <1>2, <1>7 DEF Accounted
LEMMA RestKeeps == ASSUME Accounted, UNCHANGED <<vars, bootvars>> PROVE Accounted'
<1>1. ram' = ram /\ proc' = proc /\ test' = test /\ machine' = machine /\ cpu' = cpu /\ boot' = boot
  BY DEF vars, bootvars
<1>b. B' = B /\ View(ram, proc)' = View(ram, proc)
  BY <1>1 DEF B, View
<1>2. CASE ram.panic = ""
  <2>1. Kept(cpu[B].at)
    BY <1>2 DEF Accounted
  <2>g. (\A t : Good(t, proc)' = Good(t, proc)) /\ Good(test, proc)' = Good(test, proc)
    BY <1>1 DEF Good
  <2>2. Kept(cpu[B].at)'
    BY <1>1, <1>b, <2>1, <2>g DEF Kept
  <2> QED BY <2>2 DEF Accounted
<1>3. CASE ram.panic # ""
  BY <1>1, <1>3 DEF Accounted
<1> QED
  BY <1>2, <1>3
LEMMA StepKeeps == ASSUME Booting, Accounted, BootNext PROVE Accounted'
<1>1. CASE ram.panic # ""
  BY <1>1, GaveUp DEF Accounted
<1>2. CASE ram.panic = ""
  <2>0. Kept(cpu[B].at)
    BY <1>2 DEF Accounted
  <2>1. ASSUME NEW c \in machine.cpus, Boots(c) PROVE Accounted'
    BY <2>0, <2>1, TurnKeeps, SchedulerKeeps DEF Boots
  <2>2. CASE Spins
    BY <1>2, <2>0, <2>2, RestKeeps DEF Spins
  <2>3. CASE Runs
    BY <2>0, <2>3, RunKeeps
  <2> QED BY <2>0, <2>1, <2>2, <2>3, MainKeeps DEF BootNext
<1> QED
  BY <1>1, <1>2
(***************************************************************************)
(* Each page in use is reached from one slot, in one way.                  *)
(***************************************************************************)
DirSlots == {s \in Slots : s[1] # "kstack"}
Tag(s) == <<s[2], s[1]>>
AsDir(V, own, u) == \E s \in DirSlots : V[s] # NULL /\ own[u[4]] = Use(s) /\ u = <<Tag(s), "dir", 0, u[4]>> /\ u[4] = V[s]
AsTable(V, own, u) == \E s \in DirSlots, k \in Index : V[s] # NULL /\ own[u[4]] = <<"table", V[s], k>> /\ u = <<Tag(s), "table", k, u[4]>>
AsPage(V, own, u) == \E s \in DirSlots, v \in Vpn, t \in Nat :
  V[s] # NULL /\ own[u[4]] = <<"page", t, PTX(v)>> /\ own[t] = <<"table", V[s], PDX(v)>> /\ u = <<Tag(s), "page", v, u[4]>>
AsStack(own, u) == own[u[4]] = Stack /\ u = <<<<0, "cpu">>, "stack", 0, u[4]>>
AsKstack(own, u) == \E p \in Procs : own[u[4]] = Use(Kstack(p)) /\ u = <<<<p, "proc">>, "kstack", 0, u[4]>>

LEMMA DirSlotIs ==
  /\ Kpgdir \in DirSlots /\ Tag(Kpgdir) = <<0, "kpgdir">>
  /\ \A p \in Procs : Pgdir(p) \in DirSlots /\ New(p) \in DirSlots /\ Tag(Pgdir(p)) = <<p, "pgdir">> /\ Tag(New(p)) = <<p, "new">>
  /\ \A s \in DirSlots : s = Kpgdir \/ \E p \in Procs : s = Pgdir(p) \/ s = New(p)
<1>1. Kpgdir \in DirSlots /\ Tag(Kpgdir) = <<0, "kpgdir">>
  BY SlotIs DEF DirSlots, Tag, Kpgdir
<1>2. \A p \in Procs : Pgdir(p) \in DirSlots /\ New(p) \in DirSlots
  BY SlotIs DEF DirSlots
<1>3. \A p \in Procs : Tag(Pgdir(p)) = <<p, "pgdir">> /\ Tag(New(p)) = <<p, "new">>
  BY DEF Tag, Pgdir, New
<1>4. \A s \in DirSlots : s = Kpgdir \/ \E p \in Procs : s = Pgdir(p) \/ s = New(p)
  BY SlotIs DEF DirSlots
<1> QED
  BY <1>1, <1>2, <1>3, <1>4
LEMMA InUseIs ==
  ASSUME NEW V, V = View(ram, proc)
  PROVE  \A u : u \in InUse <=> \/ \E s \in DirSlots : u \in Reached(Tag(s), V[s])
                                \/ \E p \in ram.stacks : p # NULL /\ u = <<<<0, "cpu">>, "stack", 0, p>>
                                \/ \E p \in Procs : V[Kstack(p)] # NULL /\ u = <<<<p, "proc">>, "kstack", 0, V[Kstack(p)]>>
<1>1. V[Kpgdir] = ram.kpgdir /\ \A p \in Procs : V[Kstack(p)] = proc[p].kstack /\ V[Pgdir(p)] = proc[p].pgdir /\ V[New(p)] = proc[p].new
  BY ViewIs
<1>2. \A u : u \in InUse <=> \/ \E p \in Procs : u \in Reached(<<p, "pgdir">>, proc[p].pgdir) \/ u \in Reached(<<p, "new">>, proc[p].new)
                             \/ u \in Reached(<<0, "kpgdir">>, ram.kpgdir)
                             \/ \E p \in ram.stacks : p # NULL /\ u = <<<<0, "cpu">>, "stack", 0, p>>
                             \/ \E p \in Procs : proc[p].kstack # NULL /\ u = <<<<p, "proc">>, "kstack", 0, proc[p].kstack>>
  <2> DEFINE R(p) == Reached(<<p, "pgdir">>, proc[p].pgdir) \cup Reached(<<p, "new">>, proc[p].new)
             S == UNION {R(p) : p \in Procs}
             K == Reached(<<0, "kpgdir">>, ram.kpgdir)
             C == {<<<<0, "cpu">>, "stack", 0, p>> : p \in ram.stacks \ {NULL}}
             T == {<<<<p, "proc">>, "kstack", 0, proc[p].kstack>> : p \in {q \in Procs : proc[q].kstack # NULL}}
  <2>1. InUse = S \cup K \cup C \cup T
    BY Zenon DEF InUse
  <2>2. \A u : u \in C <=> \E p \in ram.stacks : p # NULL /\ u = <<<<0, "cpu">>, "stack", 0, p>>
    OBVIOUS
  <2>3. \A u : u \in T <=> \E p \in Procs : proc[p].kstack # NULL /\ u = <<<<p, "proc">>, "kstack", 0, proc[p].kstack>>
    OBVIOUS
  <2>4. \A u : u \in S <=> \E p \in Procs : u \in R(p)
    <3> HIDE DEF R
    <3> QED OBVIOUS
  <2>5. \A u, p : u \in R(p) <=> u \in Reached(<<p, "pgdir">>, proc[p].pgdir) \/ u \in Reached(<<p, "new">>, proc[p].new)
    OBVIOUS
  <2> HIDE DEF R, S, K, C, T
  <2>6. \A u : u \in InUse <=> u \in S \/ u \in K \/ u \in C \/ u \in T
    BY <2>1
  <2>7. \A u : u \in S <=> \E p \in Procs : u \in Reached(<<p, "pgdir">>, proc[p].pgdir) \/ u \in Reached(<<p, "new">>, proc[p].new)
    BY <2>4, <2>5
  <2>8. \A u : u \in K <=> u \in Reached(<<0, "kpgdir">>, ram.kpgdir)
    BY DEF K
  <2> QED BY <2>2, <2>3, <2>6, <2>7, <2>8
<1>3. \A u : (\E s \in DirSlots : u \in Reached(Tag(s), V[s])) <=>
             \/ \E p \in Procs : u \in Reached(<<p, "pgdir">>, proc[p].pgdir) \/ u \in Reached(<<p, "new">>, proc[p].new)
             \/ u \in Reached(<<0, "kpgdir">>, ram.kpgdir)
  <2>1. ASSUME NEW u, NEW s \in DirSlots, u \in Reached(Tag(s), V[s])
        PROVE  \/ \E p \in Procs : u \in Reached(<<p, "pgdir">>, proc[p].pgdir) \/ u \in Reached(<<p, "new">>, proc[p].new)
               \/ u \in Reached(<<0, "kpgdir">>, ram.kpgdir)
    <3>1. CASE s = Kpgdir
      BY <1>1, <2>1, <3>1, DirSlotIs
    <3>2. ASSUME NEW p \in Procs, s = Pgdir(p) PROVE u \in Reached(<<p, "pgdir">>, proc[p].pgdir)
      BY <1>1, <2>1, <3>2, DirSlotIs
    <3>3. ASSUME NEW p \in Procs, s = New(p) PROVE u \in Reached(<<p, "new">>, proc[p].new)
      BY <1>1, <2>1, <3>3, DirSlotIs
    <3> QED BY <3>1, <3>2, <3>3, DirSlotIs
  <2>2. ASSUME NEW u, u \in Reached(<<0, "kpgdir">>, ram.kpgdir) PROVE \E s \in DirSlots : u \in Reached(Tag(s), V[s])
    <3>1. u \in Reached(Tag(Kpgdir), V[Kpgdir]) /\ Kpgdir \in DirSlots
      BY <1>1, <2>2, DirSlotIs
    <3> QED BY <3>1
  <2>3. ASSUME NEW u, NEW p \in Procs, u \in Reached(<<p, "pgdir">>, proc[p].pgdir) PROVE \E s \in DirSlots : u \in Reached(Tag(s), V[s])
    <3>1. u \in Reached(Tag(Pgdir(p)), V[Pgdir(p)]) /\ Pgdir(p) \in DirSlots
      BY <1>1, <2>3, DirSlotIs
    <3> QED BY <3>1
  <2>4. ASSUME NEW u, NEW p \in Procs, u \in Reached(<<p, "new">>, proc[p].new) PROVE \E s \in DirSlots : u \in Reached(Tag(s), V[s])
    <3>1. u \in Reached(Tag(New(p)), V[New(p)]) /\ New(p) \in DirSlots
      BY <1>1, <2>4, DirSlotIs
    <3> QED BY <3>1
  <2> QED BY <2>1, <2>2, <2>3, <2>4
<1>4. \A u : (\E p \in Procs : proc[p].kstack # NULL /\ u = <<<<p, "proc">>, "kstack", 0, proc[p].kstack>>)
             <=> (\E p \in Procs : V[Kstack(p)] # NULL /\ u = <<<<p, "proc">>, "kstack", 0, V[Kstack(p)]>>)
  BY <1>1
<1> DEFINE a(u) == \E s \in DirSlots : u \in Reached(Tag(s), V[s])
           b(u) == \/ \E p \in Procs : u \in Reached(<<p, "pgdir">>, proc[p].pgdir) \/ u \in Reached(<<p, "new">>, proc[p].new)
                   \/ u \in Reached(<<0, "kpgdir">>, ram.kpgdir)
           c(u) == \E p \in ram.stacks : p # NULL /\ u = <<<<0, "cpu">>, "stack", 0, p>>
           e(u) == \E p \in Procs : proc[p].kstack # NULL /\ u = <<<<p, "proc">>, "kstack", 0, proc[p].kstack>>
           f(u) == \E p \in Procs : V[Kstack(p)] # NULL /\ u = <<<<p, "proc">>, "kstack", 0, V[Kstack(p)]>>
<1>5. \A u : (u \in InUse <=> b(u) \/ c(u) \/ e(u)) /\ (a(u) <=> b(u)) /\ (e(u) <=> f(u))
  BY <1>2, <1>3, <1>4
<1> HIDE DEF a, b, c, e, f
<1>6. \A u : u \in InUse <=> a(u) \/ c(u) \/ f(u)
  BY <1>5
<1> QED
  BY <1>6 DEF a, c, f
LEMMA Four == ASSUME NEW a, NEW b, NEW c, NEW q, NEW u, u = <<a, b, c, q>> PROVE u[4] = q /\ u = <<a, b, c, u[4]>>
  OBVIOUS
LEMMA UsedAs ==
  ASSUME NEW own, NEW V, V = View(ram, proc), V \in [Slots -> Nat], Owned(ram, own, Dirs(V)), Roles(ram, V, own), NEW u \in InUse
  PROVE  u[4] \in All(ram) /\ (AsDir(V, own, u) \/ AsTable(V, own, u) \/ AsPage(V, own, u) \/ AsStack(own, u) \/ AsKstack(own, u))
<1>0. ram \in Ram /\ own \in [All(ram) -> Owner] /\ All(ram) \subseteq Nat \ {0}
  BY MemType DEF Owned
<1>1. ASSUME NEW p \in ram.stacks, p # NULL, u = <<<<0, "cpu">>, "stack", 0, p>> PROVE u[4] \in All(ram) /\ AsStack(own, u)
  <2>1. p \in All(ram) /\ own[p] = Stack
    BY <1>1 DEF Roles
  <2> QED BY <1>1, <2>1, Four DEF AsStack
<1>2. ASSUME NEW p \in Procs, V[Kstack(p)] # NULL, u = <<<<p, "proc">>, "kstack", 0, V[Kstack(p)]>> PROVE u[4] \in All(ram) /\ AsKstack(own, u)
  <2> DEFINE q == V[Kstack(p)]
  <2>1. q \in All(ram) /\ own[q] = Use(Kstack(p))
    BY <1>2, SlotIs DEF Roles
  <2>2. u = <<<<p, "proc">>, "kstack", 0, q>>
    BY <1>2
  <2> HIDE DEF q
  <2>3. u[4] = q /\ u = <<<<p, "proc">>, "kstack", 0, u[4]>>
    BY <2>2, Four
  <2> QED BY <2>1, <2>3 DEF AsKstack
<1>3. ASSUME NEW s \in DirSlots, u \in Reached(Tag(s), V[s])
      PROVE  u[4] \in All(ram) /\ (AsDir(V, own, u) \/ AsTable(V, own, u) \/ AsPage(V, own, u))
  <2> DEFINE d == V[s]
             x == Tag(s)
  <2>1. d # NULL /\ s \in Slots /\ s[1] # "kstack"
    BY <1>3 DEF Reached, DirSlots
  <2>2. d \in All(ram) /\ own[d] = Use(s) /\ d \in Dirs(V)
    BY <2>1 DEF Roles, Dirs
  <2>3. \/ u = <<x, "dir", 0, d>>
        \/ \E k \in Index : Present(ram.mem[d][k]) /\ u = <<x, "table", k, ram.mem[d][k][1]>>
        \/ \E v \in 0..(KERNBASE - 1) : Present(PTE(ram, d, v)) /\ u = <<x, "page", v, PTE(ram, d, v)[1]>>
    BY <1>3, <2>1 DEF Reached, Index
  <2>d. d = V[s]
    OBVIOUS
  <2> HIDE DEF d
  <2>4. CASE u = <<x, "dir", 0, d>>
    <3>1. u[4] = d /\ u = <<x, "dir", 0, u[4]>>
      BY <2>4, Four
    <3> QED BY <1>3, <2>1, <2>2, <2>d, <3>1 DEF AsDir
  <2>5. ASSUME NEW k \in Index, Present(ram.mem[d][k]), u = <<x, "table", k, ram.mem[d][k][1]>> PROVE u[4] \in All(ram) /\ AsTable(V, own, u)
    <3> DEFINE q == ram.mem[d][k][1]
    <3>1. q \in All(ram) /\ own[q] = <<"table", d, k>>
      BY <2>2, <2>5 DEF Owned, TableCells
    <3>2. u = <<x, "table", k, q>>
      BY <2>5
    <3> HIDE DEF q
    <3>3. u[4] = q /\ u = <<x, "table", k, u[4]>>
      BY <3>2, Four
    <3> QED BY <1>3, <2>1, <2>d, <3>1, <3>3 DEF AsTable
  <2>6. ASSUME NEW v \in 0..(KERNBASE - 1), Present(PTE(ram, d, v)), u = <<x, "page", v, PTE(ram, d, v)[1]>> PROVE u[4] \in All(ram) /\ AsPage(V, own, u)
    <3> DEFINE c == PTE(ram, d, v)
               q == c[1]
               t == ram.mem[d][PDX(v)][1]
    <3>1. v \in Vpn /\ v < KERNBASE
      BY Below
    <3>2. IsEntry(ram, own, d, v, c)
      BY <2>2, <3>1, Entries
    <3>3. c # ZERO
      <4>1. ~Present(ZERO)
        BY DEF Present, ZERO
      <4> QED BY <2>6, <4>1
    <3>4. u = <<x, "page", v, q>> /\ Present(c)
      BY <2>6
    <3> HIDE DEF c
    <3>5. t \in Of(own, ram, "table") /\ own[t] = <<"table", d, PDX(v)>> /\ q \in Of(own, ram, "page") /\ own[q] = <<"page", t, PTX(v)>>
      BY <3>1, <3>2, <3>3, <3>4 DEF IsEntry
    <3>6. t \in Nat /\ q \in All(ram)
      BY <1>0, <3>5 DEF Of
    <3> HIDE DEF q, t
    <3>7. u[4] = q /\ u = <<x, "page", v, u[4]>>
      BY <3>4, Four
    <3> QED BY <1>3, <2>1, <2>d, <3>1, <3>5, <3>6, <3>7 DEF AsPage
  <2> QED BY <2>3, <2>4, <2>5, <2>6
<1> QED
  BY <1>1, <1>2, <1>3, InUseIs

\* Two uses of a page are one.
LEMMA KindOf ==
  ASSUME NEW V, NEW own, NEW u
  PROVE  /\ AsDir(V, own, u) => own[u[4]][1] \in {"pgdir", "new", "kpgdir"}
         /\ AsTable(V, own, u) => own[u[4]][1] = "table"
         /\ AsPage(V, own, u) => own[u[4]][1] = "page"
         /\ AsStack(own, u) => own[u[4]][1] = "stack"
         /\ AsKstack(own, u) => own[u[4]][1] = "kstack"
<1>1. \A s \in DirSlots : Use(s)[1] \in {"pgdir", "new", "kpgdir"}
  <2>1. \A s \in DirSlots : s[1] \in {"pgdir", "new", "kpgdir"}
    BY DirSlotIs, SlotIs
  <2> QED BY <2>1 DEF Use
<1>2. \A p \in Procs : Use(Kstack(p))[1] = "kstack"
  BY SlotIs DEF Use
<1>3. Stack[1] = "stack"
  BY DEF Stack
<1> QED
  BY <1>1, <1>2, <1>3 DEF AsDir, AsTable, AsPage, AsStack, AsKstack
LEMMA UsedOnce ==
  ASSUME NEW own, NEW V, V = View(ram, proc), V \in [Slots -> Nat], Owned(ram, own, Dirs(V)), Roles(ram, V, own),
         NEW u \in InUse, NEW w \in InUse, u[4] = w[4]
  PROVE  u = w
<1>u. AsDir(V, own, u) \/ AsTable(V, own, u) \/ AsPage(V, own, u) \/ AsStack(own, u) \/ AsKstack(own, u)
  BY UsedAs
<1>w. AsDir(V, own, w) \/ AsTable(V, own, w) \/ AsPage(V, own, w) \/ AsStack(own, w) \/ AsKstack(own, w)
  BY UsedAs
<1>s. \A s, r \in DirSlots : (V[s] = V[r] /\ V[s] # NULL) => s = r
  <2>1. ASSUME NEW s \in DirSlots, NEW r \in DirSlots, V[s] = V[r], V[s] # NULL PROVE s = r
    <3>1. s \in Slots /\ r \in Slots
      BY DEF DirSlots
    <3>2. own[V[s]] = Use(s) /\ own[V[r]] = Use(r)
      BY <2>1, <3>1 DEF Roles
    <3> QED BY <2>1, <3>1, <3>2, UseIs
  <2> QED BY <2>1
<1>1. CASE AsDir(V, own, u) /\ AsDir(V, own, w)
  <2>1. PICK s \in DirSlots : V[s] # NULL /\ u[4] = V[s] /\ u = <<Tag(s), "dir", 0, u[4]>>
    BY <1>1 DEF AsDir
  <2>2. PICK r \in DirSlots : V[r] # NULL /\ w[4] = V[r] /\ w = <<Tag(r), "dir", 0, w[4]>>
    BY <1>1 DEF AsDir
  <2>3. s = r
    BY <1>s, <2>1, <2>2
  <2> QED BY <2>1, <2>2, <2>3
<1>2. CASE AsTable(V, own, u) /\ AsTable(V, own, w)
  <2>1. PICK s \in DirSlots, k \in Index : V[s] # NULL /\ own[u[4]] = <<"table", V[s], k>> /\ u = <<Tag(s), "table", k, u[4]>>
    BY <1>2 DEF AsTable
  <2>2. PICK r \in DirSlots, j \in Index : V[r] # NULL /\ own[w[4]] = <<"table", V[r], j>> /\ w = <<Tag(r), "table", j, w[4]>>
    BY <1>2 DEF AsTable
  <2>3. <<"table", V[s], k>> = <<"table", V[r], j>>
    BY <2>1, <2>2
  <2>4. V[s] = V[r] /\ k = j
    BY <2>3
  <2>5. s = r
    BY <1>s, <2>1, <2>4
  <2> QED BY <2>1, <2>2, <2>4, <2>5
<1>3. CASE AsPage(V, own, u) /\ AsPage(V, own, w)
  <2>1. PICK s \in DirSlots, v \in Vpn, t \in Nat :
           V[s] # NULL /\ own[u[4]] = <<"page", t, PTX(v)>> /\ own[t] = <<"table", V[s], PDX(v)>> /\ u = <<Tag(s), "page", v, u[4]>>
    BY <1>3 DEF AsPage
  <2>2. PICK r \in DirSlots, x \in Vpn, y \in Nat :
           V[r] # NULL /\ own[w[4]] = <<"page", y, PTX(x)>> /\ own[y] = <<"table", V[r], PDX(x)>> /\ w = <<Tag(r), "page", x, w[4]>>
    BY <1>3 DEF AsPage
  <2>3. <<"page", t, PTX(v)>> = <<"page", y, PTX(x)>>
    BY <2>1, <2>2
  <2>4. t = y /\ PTX(v) = PTX(x)
    BY <2>3
  <2>5. <<"table", V[s], PDX(v)>> = <<"table", V[r], PDX(x)>>
    BY <2>1, <2>2, <2>4
  <2>6. V[s] = V[r] /\ PDX(v) = PDX(x)
    BY <2>5
  <2>7. s = r
    BY <1>s, <2>1, <2>6
  <2>8. v = x
    <3>1. v = PDX(v) * PGSIZE + PTX(v) /\ x = PDX(x) * PGSIZE + PTX(x)
      BY Split
    <3> QED BY <2>4, <2>6, <3>1
  <2> QED BY <2>1, <2>2, <2>7, <2>8
<1>4. CASE AsStack(own, u) /\ AsStack(own, w)
  BY <1>4 DEF AsStack
<1>5. CASE AsKstack(own, u) /\ AsKstack(own, w)
  <2>1. PICK p \in Procs : own[u[4]] = Use(Kstack(p)) /\ u = <<<<p, "proc">>, "kstack", 0, u[4]>>
    BY <1>5 DEF AsKstack
  <2>2. PICK q \in Procs : own[w[4]] = Use(Kstack(q)) /\ w = <<<<q, "proc">>, "kstack", 0, w[4]>>
    BY <1>5 DEF AsKstack
  <2>3. Kstack(p) = Kstack(q)
    BY <2>1, <2>2, SlotIs, UseIs
  <2>4. p = q
    BY <2>3, SlotIs
  <2> QED BY <2>1, <2>2, <2>4
<1> DEFINE k == own[u[4]][1]
<1>6. /\ AsDir(V, own, u) \/ AsDir(V, own, w) => k \in {"pgdir", "new", "kpgdir"}
      /\ AsTable(V, own, u) \/ AsTable(V, own, w) => k = "table"
      /\ AsPage(V, own, u) \/ AsPage(V, own, w) => k = "page"
      /\ AsStack(own, u) \/ AsStack(own, w) => k = "stack"
      /\ AsKstack(own, u) \/ AsKstack(own, w) => k = "kstack"
  BY KindOf
<1> HIDE DEF k
<1> QED
  BY <1>u, <1>w, <1>1, <1>2, <1>3, <1>4, <1>5, <1>6
\* A page that is neither free nor lost is in use.
LEMMA OwnedUsed ==
  ASSUME NEW own, NEW V, V = View(ram, proc), V \in [Slots -> Nat], Owned(ram, own, Dirs(V)), Roles(ram, V, own),
         NEW q \in All(ram), own[q][1] \notin {"free", "lost"}
  PROVE  \E u \in InUse : u[4] = q
<1>0. ram \in Ram /\ own \in [All(ram) -> Owner] /\ All(ram) \subseteq Nat \ {0}
  BY MemType DEF Owned
<1>u. \A x : \/ \E s \in DirSlots : x \in Reached(Tag(s), V[s])
             \/ \E p \in ram.stacks : p # NULL /\ x = <<<<0, "cpu">>, "stack", 0, p>>
             \/ \E p \in Procs : V[Kstack(p)] # NULL /\ x = <<<<p, "proc">>, "kstack", 0, V[Kstack(p)]>>
           => x \in InUse
  BY InUseIs
<1>d. \A d \in Dirs(V) : \E s \in DirSlots : V[s] = d /\ d # NULL
  BY DEF Dirs, DirSlots
<1>1. CASE own[q][1] = "table"
  <2> DEFINE d == own[q][2]
             k == own[q][3]
  <2>1. d \in Dirs(V) /\ k \in Index /\ Present(ram.mem[d][k]) /\ ram.mem[d][k][1] = q
    BY <1>1 DEF Owned, TableCells, Of
  <2> HIDE DEF d, k
  <2>2. PICK s \in DirSlots : V[s] = d /\ d # NULL
    BY <1>d, <2>1
  <2> DEFINE u == <<Tag(s), "table", k, ram.mem[d][k][1]>>
  <2>3. u \in Reached(Tag(s), V[s])
    BY <2>1, <2>2 DEF Reached, Index
  <2>4. u[4] = q
    BY <2>1
  <2> HIDE DEF u
  <2> QED BY <1>u, <2>3, <2>4
<1>2. CASE own[q][1] = "page"
  <2> DEFINE t == own[q][2]
             j == own[q][3]
             d == own[t][2]
             k == own[t][3]
             v == k * PGSIZE + j
  <2>1. t \in Of(own, ram, "table") /\ j \in Index /\ User(k, j) /\ Present(ram.mem[t][j]) /\ ram.mem[t][j][1] = q
    BY <1>2 DEF Owned, PageCells, Of
  <2>2. d \in Dirs(V) /\ k \in Index /\ Present(ram.mem[d][k]) /\ ram.mem[d][k][1] = t
    BY <2>1 DEF Owned, TableCells
  <2>3. t # NULL
    BY <1>0, <2>1 DEF Of, NULL
  <2> HIDE DEF t, j, d, k
  <2>4. v \in Vpn /\ PDX(v) = k /\ PTX(v) = j /\ v < KERNBASE
    BY <2>1, <2>2, Join DEF User
  <2>5. v \in 0..(KERNBASE - 1)
    <3>1. \A n, m : (n \in Nat /\ m \in Nat /\ n < m) => n \in 0..(m - 1)
      OBVIOUS
    <3>2. v \in Nat /\ KERNBASE \in Nat
      BY <2>4, Sizes DEF Vpn
    <3> QED BY <2>4, <3>1, <3>2
  <2> HIDE DEF v
  <2>6. walkpgdir(ram, d, v, FALSE)[2] = t
    BY <2>2, <2>4 DEF walkpgdir
  <2>7. PTE(ram, d, v) = ram.mem[t][j]
    BY <2>3, <2>4, <2>6 DEF PTE
  <2>8. PICK s \in DirSlots : V[s] = d /\ d # NULL
    BY <1>d, <2>2
  <2> DEFINE u == <<Tag(s), "page", v, PTE(ram, d, v)[1]>>
  <2>9. u \in Reached(Tag(s), V[s])
    BY <2>1, <2>5, <2>7, <2>8 DEF Reached
  <2>10. u[4] = q
    BY <2>1, <2>7
  <2> HIDE DEF u
  <2> QED BY <1>u, <2>9, <2>10
<1>3. CASE Held(own[q])
  <2>0. q # NULL
    BY <1>0 DEF NULL
  <2>1. q \in ram.stacks \/ \E s \in Slots : V[s] = q
    BY <1>3 DEF Roles
  <2>2. CASE q \in ram.stacks
    <3> DEFINE u == <<<<0, "cpu">>, "stack", 0, q>>
    <3>1. u \in InUse /\ u[4] = q
      BY <1>u, <2>0, <2>2
    <3> HIDE DEF u
    <3> QED BY <3>1
  <2>3. ASSUME NEW s \in Slots, V[s] = q, s[1] # "kstack" PROVE \E u \in InUse : u[4] = q
    <3> DEFINE u == <<Tag(s), "dir", 0, V[s]>>
    <3>1. u \in Reached(Tag(s), V[s]) /\ u[4] = q /\ s \in DirSlots
      BY <2>0, <2>3 DEF Reached, DirSlots
    <3> HIDE DEF u
    <3> QED BY <1>u, <3>1
  <2>4. ASSUME NEW s \in Slots, V[s] = q, s[1] = "kstack" PROVE \E u \in InUse : u[4] = q
    <3>1. PICK p \in Procs : s = Kstack(p)
      BY <2>4, SlotIs
    <3> DEFINE u == <<<<p, "proc">>, "kstack", 0, V[Kstack(p)]>>
    <3>2. u \in InUse /\ u[4] = q
      BY <1>u, <2>0, <2>4, <3>1
    <3> HIDE DEF u
    <3> QED BY <3>2
  <2> QED BY <2>1, <2>2, <2>3, <2>4
<1> QED
  BY <1>1, <1>2, <1>3 DEF Held

\* The length of a list of a set.
LEMMA ListCounts ==
  ASSUME NEW F, NEW s, IsList(s, F)
  PROVE  IsFiniteSet(F) /\ Cardinality(F) = Len(s) /\ ToSet(s) = F
<1>1. s \in [1..Len(s) -> F] /\ Len(s) \in Nat /\ DOMAIN s = 1..Len(s)
  BY LenProperties DEF IsList
<1> DEFINE n == Len(s)
<1>2. s \in Injection(1..n, F)
  BY <1>1 DEF IsList, Injection, IsInjective
<1>3. s \in Surjection(1..n, F)
  BY <1>1 DEF IsList, Surjection
<1>4. ExistsBijection(1..n, F)
  BY <1>2, <1>3 DEF ExistsBijection, Bijection
<1>5. Cardinality(F) = n
  BY <1>1, <1>4, FS_CountingElements
<1>6. IsFiniteSet(F)
  BY <1>1, <1>4, FS_NatBijection
<1>7. ToSet(s) = F
  BY <1>1 DEF IsList, ToSet
<1> QED
  BY <1>5, <1>6, <1>7
\* Three parts of a set.
LEMMA ThreeParts ==
  ASSUME NEW S, IsFiniteSet(S), NEW X, NEW Y, NEW Z, X \cup Y \cup Z = S, X \cap Y = {}, X \cap Z = {}, Y \cap Z = {}
  PROVE  Cardinality(X) + Cardinality(Y) + Cardinality(Z) = Cardinality(S)
<1> DEFINE W == X \cup Y
<1>1. X \subseteq S /\ Y \subseteq S /\ Z \subseteq S /\ W \subseteq S /\ W \cup Z = S /\ W \cap Z = {}
  OBVIOUS
<1>2. IsFiniteSet(X) /\ IsFiniteSet(Y) /\ IsFiniteSet(Z) /\ IsFiniteSet(W)
  BY <1>1, FS_Subset
<1>3. Cardinality(W) = Cardinality(X) + Cardinality(Y) - Cardinality(X \cap Y)
  BY <1>2, FS_Union
<1> HIDE DEF W
<1>4. Cardinality(W \cup Z) = Cardinality(W) + Cardinality(Z) - Cardinality(W \cap Z)
  BY <1>2, FS_Union
<1>5. Cardinality(X \cap Y) = 0 /\ Cardinality(W \cap Z) = 0
  BY <1>1, FS_EmptySet
<1>6. Cardinality(S) = Cardinality(W) + Cardinality(Z) - Cardinality(W \cap Z)
  BY <1>1, <1>4
<1>7. Cardinality(X) \in Nat /\ Cardinality(Y) \in Nat /\ Cardinality(Z) \in Nat /\ Cardinality(W) \in Nat
  BY <1>2, FS_CardinalityType
<1>8. ASSUME NEW a \in Nat, NEW b \in Nat, NEW c \in Nat, NEW w \in Nat, NEW s, NEW z, NEW y,
             w = a + b - z, s = w + c - y, z = 0, y = 0
      PROVE  a + b + c = s
  BY <1>8
<1> QED
  BY <1>3, <1>5, <1>6, <1>7, <1>8

LEMMA AccountsCount == ASSUME Accounts(ram, View(ram, proc)) PROVE PagesAccounted
<1> DEFINE V == View(ram, proc)
<1>1. PICK own : Owned(ram, own, Dirs(V)) /\ Roles(ram, V, own)
  BY DEF Accounts
<1>2. V \in [Slots -> Nat] /\ ram \in Ram /\ Len(ram.mem) \in Nat
  BY AccountsType, MemType
<1> DEFINE F == Of(own, ram, "free")
           L == Of(own, ram, "lost")
           U == {q \in All(ram) : own[q][1] \notin {"free", "lost"}}
           f == [u \in InUse |-> u[4]]
<1>3. ToSet(ram.free) = F /\ Cardinality(F) = Len(ram.free) /\ ram.lost = L
  BY <1>1, ListCounts DEF Owned
<1>4. All(ram) = Pages /\ IsFiniteSet(All(ram))
  BY <1>2, FS_Interval DEF All, Pages
<1>5. \A u \in InUse : u[4] \in U
  <2>1. ASSUME NEW u \in InUse PROVE u[4] \in U
    <3>1. u[4] \in All(ram) /\ (AsDir(V, own, u) \/ AsTable(V, own, u) \/ AsPage(V, own, u) \/ AsStack(own, u) \/ AsKstack(own, u))
      BY <1>1, <1>2, UsedAs
    <3>2. own[u[4]][1] \in {"pgdir", "new", "kpgdir"} \/ own[u[4]][1] = "table" \/ own[u[4]][1] = "page" \/ own[u[4]][1] = "stack"
          \/ own[u[4]][1] = "kstack"
      BY <3>1, KindOf
    <3> QED BY <3>1, <3>2
  <2> QED BY <2>1
<1>6. \A u, w \in InUse : u[4] = w[4] => u = w
  <2>1. ASSUME NEW u \in InUse, NEW w \in InUse, u[4] = w[4] PROVE u = w
    BY <1>1, <1>2, <2>1, UsedOnce
  <2> QED BY <2>1
<1>7. \A q \in U : \E u \in InUse : u[4] = q
  <2>1. ASSUME NEW q \in All(ram), own[q][1] \notin {"free", "lost"} PROVE \E u \in InUse : u[4] = q
    BY <1>1, <1>2, <2>1, OwnedUsed
  <2> QED BY <2>1
<1>8. U \cup F \cup L = All(ram) /\ U \cap F = {} /\ U \cap L = {} /\ F \cap L = {}
  BY DEF Of
<1>9. U \subseteq All(ram)
  OBVIOUS
<1> HIDE DEF U, F, L, V
<1>10. IsFiniteSet(U)
  BY <1>4, <1>9, FS_Subset
<1>11. f \in Injection(InUse, U) /\ f \in Surjection(InUse, U)
  BY <1>5, <1>6, <1>7 DEF Injection, Surjection, IsInjective
<1>12. Cardinality(InUse) = Cardinality(U)
  BY <1>10, <1>11, FS_Injection
<1>13. Cardinality(U) + Cardinality(F) + Cardinality(L) = Cardinality(All(ram))
  BY <1>4, <1>8, ThreeParts
<1>14. {u[4] : u \in InUse} = U
  BY <1>5, <1>7
<1>15. {u[4] : u \in InUse} \cup ToSet(ram.free) \cup ram.lost = Pages
  BY <1>3, <1>4, <1>8, <1>14
<1>16. Cardinality(InUse) + Len(ram.free) + Cardinality(ram.lost) = Cardinality(Pages)
  BY <1>3, <1>4, <1>12, <1>13
<1> QED
  BY <1>15, <1>16 DEF PagesAccounted

\* Whatever the machine, and whichever of the programs it runs, which are any of which only the first
\* process forks (ProgramsAssumption), in every interleaving of the processes fork makes: each page that kinit1 and kinit2 have freed is on the free list once, or in use in one
\* place, or lost where setupkvm, copyuvm and allocuvm lose one (kalloc.c, vm.c, proc.c, exec.c).
THEOREM EachPageOnce == BootSpec => []PagesAccounted
<1>1. Accounted => PagesAccounted
  <2>1. CASE ram.panic = ""
    BY <2>1, AccountsCount DEF Accounted, Kept
  <2>2. CASE ram.panic # ""
    BY <2>2 DEF PagesAccounted
  <2> QED BY <2>1, <2>2
<1>2. Booting /\ Accounted /\ [BootNext]_<<vars, bootvars>> => Booting' /\ Accounted'
  <2>1. ASSUME Booting, UNCHANGED <<vars, bootvars>> PROVE Booting'
    BY <2>1, BootRests DEF vars, bootvars
  <2> QED BY <2>1, RestKeeps, StepBoots, StepKeeps
<1>3. BootInit => Booting /\ Accounted
  BY InitBoots, InitKeeps
<1> QED
  BY <1>1, <1>2, <1>3, PTL DEF BootSpec
(***************************************************************************)
(* The stacks of the other processors.  Nothing that is done to memory     *)
(* gives one up, not even where the kernel panics.                         *)
(***************************************************************************)
Holds(M, S) == "stacks" \in DOMAIN M /\ M.stacks = S

LEMMA PutsHold ==
  ASSUME NEW M, NEW S, Holds(M, S)
  PROVE  /\ \A v : Holds([M EXCEPT !.mem = v], S) /\ Holds([M EXCEPT !.free = v], S) /\ Holds([M EXCEPT !.lost = v], S)
                   /\ Holds([M EXCEPT !.panic = v], S) /\ Holds([M EXCEPT !.kpgdir = v], S)
         /\ \A p, c : Holds([M EXCEPT !.mem[p] = c], S)
         /\ \A p, k, c : Holds([M EXCEPT !.mem[p][k] = c], S)
         /\ \A why : Holds(Panic(M, why), S)
  BY DEF Holds, Panic
LEMMA PagesHold ==
  ASSUME NEW M, NEW S, Holds(M, S)
  PROVE  /\ \A p : Holds(kfree(M, p), S) /\ Holds(Lose(M, p), S)
         /\ Holds(kalloc(M)[1], S)
<1>1. \A p : Holds(kfree(M, p), S) /\ Holds(Lose(M, p), S)
  BY DEF Holds, kfree, Lose
<1>2. Holds(kalloc(M)[1], S)
  <2>1. Holds([M EXCEPT !.free = Tail(@)], S)
    BY DEF Holds
  <2> QED BY <2>1 DEF kalloc
<1> QED
  BY <1>1, <1>2
LEMMA FillsHold ==
  ASSUME NEW a, NEW S, Holds(a[1], S)
  PROVE  /\ Holds(Clear(a)[1], S)
         /\ \A from : Holds(Copied(a, from)[1], S)
         /\ \A d, v : Holds(Enter(d, v, a)[1], S)
  BY PutsHold DEF Clear, Copied, Enter
LEMMA WalkHolds ==
  ASSUME NEW M, NEW S, Holds(M, S), NEW d, NEW v, NEW alloc
  PROVE  Holds(walkpgdir(M, d, v, alloc)[1], S)
<1>1. Holds(Clear(kalloc(M))[1], S)
  BY PagesHold, FillsHold
<1>2. Holds(Enter(d, v, Clear(kalloc(M)))[1], S)
  BY <1>1, FillsHold
<1>3. CASE Present(M.mem[d][PDX(v)])
  BY <1>3 DEF walkpgdir
<1>4. CASE ~Present(M.mem[d][PDX(v)]) /\ alloc
  BY <1>2, <1>4 DEF walkpgdir
<1>5. CASE ~Present(M.mem[d][PDX(v)]) /\ ~alloc
  BY <1>5 DEF walkpgdir
<1> QED
  BY <1>3, <1>4, <1>5
LEMMA MapHolds ==
  ASSUME NEW M, NEW S, Holds(M, S), NEW d, NEW v, NEW c
  PROVE  Holds(mappages(M, d, v, c)[1], S)
<1> DEFINE w == walkpgdir(M, d, v, TRUE)
<1>1. Holds(w[1], S)
  BY WalkHolds
<1>5. mappages(M, d, v, c) = Put(w, v, c)
  BY DEF mappages
<1> HIDE DEF w
<1>2. CASE w[2] = NULL
  <2>1. Put(w, v, c) = <<w[1], FALSE>>
    BY <1>2 DEF Put
  <2>2. Put(w, v, c)[1] = w[1]
    BY <2>1, Both, Zenon
  <2> QED BY <1>1, <1>5, <2>2
<1>3. CASE w[2] # NULL
  <2> DEFINE L == IF Present(w[1].mem[w[2]][PTX(v)]) THEN Panic(w[1], "remap") ELSE w[1]
  <2>1. Holds(L, S)
    BY <1>1, PutsHold
  <2> HIDE DEF L
  <2>2. Holds([L EXCEPT !.mem[w[2]][PTX(v)] = c], S)
    BY <2>1, PutsHold
  <2>3. Put(w, v, c) = <<[L EXCEPT !.mem[w[2]][PTX(v)] = c], TRUE>>
    BY <1>3 DEF Put, L
  <2> DEFINE N == [L EXCEPT !.mem[w[2]][PTX(v)] = c]
  <2>4. Put(w, v, c) = <<N, TRUE>> /\ Holds(N, S)
    BY <2>2, <2>3
  <2> HIDE DEF N
  <2>5. Put(w, v, c)[1] = N
    BY <2>4, Both, Zenon
  <2> QED BY <1>5, <2>4, <2>5
<1> QED
  BY <1>2, <1>3
\* What holds before a loop and is kept by each turn holds after it.
LEMMA Turns ==
  ASSUME NEW n \in Nat, NEW T, 0 \in T, \A k \in 0..(n - 1) : k \in T => k + 1 \in T
  PROVE  n \in T
<1> DEFINE U == {k \in Nat : k > n \/ k \in T}
<1>1. ASSUME NEW k \in Nat, k \in U PROVE k + 1 \in U
  BY <1>1
<1>2. 0 \in U
  OBVIOUS
<1> HIDE DEF U
<1>3. n \in U
  BY <1>1, <1>2, Induct
<1> QED
  BY <1>3 DEF U
LEMMA KernelHolds ==
  ASSUME NEW M, NEW S, Holds(M, S)
  PROVE  Holds(setupkvm(M)[1], S)
<1> DEFINE a == Clear(kalloc(M))
           d == a[2]
           x0 == <<a[1], TRUE>>
           f == CHOOSE w : MapTurns(x0, d, Len(kmap), w)
           x == f[Len(kmap)]
<1>1. Holds(a[1], S)
  BY PagesHold, FillsHold
<1>2. setupkvm(M) = MapKernel(a)
  BY DEF setupkvm
<1>3. CASE d = NULL
  BY <1>1, <1>2, <1>3 DEF MapKernel
<1>4. CASE d # NULL
  <2>1. setupkvm(M) = Mapped(x, d)
    BY <1>2, <1>4 DEF MapKernel, MapTurns
  <2>2. MapTurns(x0, d, Len(kmap), f)
    BY Below, MapTurnsExist
  <2>3. Holds(x0[1], S)
    BY <1>1
  <2> HIDE DEF f, x0, a
  <2>4. Holds(x[1], S)
    <3> DEFINE T == {k \in 0..Len(kmap) : Holds(f[k][1], S)}
    <3>0. Len(kmap) \in Nat
      BY Below
    <3>1. \A k \in 0..Len(kmap) : f[k] = IF k = 0 THEN x0 ELSE MapNext(f[k - 1], d, kmap[k])
      BY <2>2 DEF MapTurns
    <3>2. 0 \in T
      BY <2>3, <3>0, <3>1
    <3>3. ASSUME NEW k \in 0..(Len(kmap) - 1), k \in T PROVE k + 1 \in T
      <4>1. k + 1 \in 0..Len(kmap) /\ k + 1 # 0 /\ k + 1 - 1 = k
        BY <3>0
      <4>2. f[k + 1] = MapNext(f[k], d, kmap[k + 1])
        BY <3>1, <4>1
      <4>3. Holds(f[k][1], S)
        BY <3>3
      <4>4. Holds(MapNext(f[k], d, kmap[k + 1])[1], S)
        BY <4>3, MapHolds DEF MapNext
      <4> QED BY <4>1, <4>2, <4>4
    <3> HIDE DEF T
    <3>4. Len(kmap) \in T
      BY <3>0, <3>2, <3>3, Turns
    <3> QED BY <3>4 DEF T
  <2> HIDE DEF x
  <2>5. \A L : Holds(L, S) => Holds([L EXCEPT !.lost = @ \cup {d} \cup Tables(L, d)], S)
    BY DEF Holds
  <2> QED BY <2>1, <2>4, <2>5 DEF Mapped
<1> QED
  BY <1>3, <1>4
LEMMA UnmapHolds ==
  ASSUME NEW M, NEW S, Holds(M, S), NEW d, NEW from \in Nat, NEW to \in Nat, from <= to
  PROVE  Holds(Unmap(M, d, from, to), S)
<1> DEFINE x0 == <<M, from>>
           n == to - from
           f == CHOOSE w : UnmapTurns(x0, d, from, n, w)
<1>0. ASSUME NEW w, Holds(w[1], S), NEW v PROVE Holds(UnmapNext(w, d, v)[1], S)
  <2> DEFINE p == PTE(w[1], d, v)[1]
             L == kfree(w[1], p)
             t == walkpgdir(L, d, v, FALSE)[2]
             N == [L EXCEPT !.mem[t][PTX(v)] = ZERO]
  <2>1. Holds(L, S)
    BY <1>0, PagesHold
  <2>2. SetPTE(L, d, v, ZERO) = N
    BY DEF SetPTE
  <2> HIDE DEF L, t, p
  <2>3. Holds(N, S)
    BY <2>1, PutsHold
  <2> HIDE DEF N
  <2>4. UnmapNext(w, d, v) \in {w, <<w[1], v + PGSIZE>>, <<N, v + 1>>}
    BY <2>2 DEF UnmapNext, L, p
  <2> QED BY <1>0, <2>3, <2>4
<1> HIDE DEF x0
<1>1. n \in Nat
  OBVIOUS
<1>2. Holds(Unmap(M, d, from, to), S)
  <2>1. Unmap(M, d, from, to) = f[n][1]
    BY DEF Unmap, UnmapTurns, x0
  <2>2. UnmapTurns(x0, d, from, n, f)
    BY <1>1, UnmapTurnsExist
  <2> HIDE DEF f, n
  <2> DEFINE T == {k \in 0..n : Holds(f[k][1], S)}
  <2>3. \A k \in 0..n : f[k] = IF k = 0 THEN x0 ELSE UnmapNext(f[k - 1], d, from + k - 1)
    BY <2>2 DEF UnmapTurns
  <2>4. 0 \in T
    BY <1>1, <2>3 DEF x0
  <2>5. ASSUME NEW k \in 0..(n - 1), k \in T PROVE k + 1 \in T
    <3>1. k + 1 \in 0..n /\ k + 1 # 0 /\ k + 1 - 1 = k
      BY <1>1
    <3>2. PICK v : f[k + 1] = UnmapNext(f[k], d, v)
      BY <2>3, <3>1
    <3> QED BY <1>0, <2>5, <3>1, <3>2
  <2> HIDE DEF T
  <2>6. n \in T
    BY <1>1, <2>4, <2>5, Turns
  <2> QED BY <2>1, <2>6 DEF T
<1> QED
  BY <1>2
LEMMA DeallocHolds ==
  ASSUME NEW M, NEW S, Holds(M, S), NEW d, NEW oldsz \in Nat, NEW newsz \in Nat
  PROVE  Holds(deallocuvm(M, d, oldsz, newsz), S)
<1>1. CASE newsz >= oldsz
  BY <1>1 DEF deallocuvm
<1>2. CASE newsz < oldsz
  <2>1. PGROUNDUP(newsz) \in Nat /\ PGROUNDUP(oldsz) \in Nat /\ PGROUNDUP(newsz) <= PGROUNDUP(oldsz)
    <3> DEFINE P == PGSIZE
    <3>1. P \in Nat \ {0}
      BY Sizes
    <3> HIDE DEF P
    <3>2. (newsz + P - 1) \div P \in Nat /\ (oldsz + P - 1) \div P \in Nat
      BY <3>1
    <3>3. (newsz + P - 1) \div P <= (oldsz + P - 1) \div P
      BY <1>2, <3>1, <3>2
    <3> QED BY <3>2, <3>3 DEF PGROUNDUP, P
  <2>2. deallocuvm(M, d, oldsz, newsz) = Unmap(M, d, PGROUNDUP(newsz), PGROUNDUP(oldsz))
    BY <1>2 DEF deallocuvm
  <2> QED BY <2>1, <2>2, UnmapHolds
<1> QED
  BY <1>1, <1>2
LEMMA FreeHolds ==
  ASSUME NEW M, NEW S, Holds(M, S), NEW d
  PROVE  Holds(freevm(M, d), S)
<1> DEFINE x0 == deallocuvm(M, d, KERNBASE * PGSIZE, 0)
           n == PGSIZE
           f == CHOOSE w : FreeTurns(x0, d, n, w)
<1>1. n \in Nat /\ KERNBASE * PGSIZE \in Nat /\ 0 \in Nat
  BY Sizes
<1>2. Holds(x0, S)
  BY <1>1, DeallocHolds
<1>3. freevm(M, d) = kfree(f[n], d)
  BY DEF freevm, FreeTurns
<1>4. FreeTurns(x0, d, n, f)
  BY <1>1, FreeTurnsExist
<1> HIDE DEF f, n, x0
<1> DEFINE T == {k \in 0..n : Holds(f[k], S)}
<1>5. \A k \in 0..n : f[k] = IF k = 0 THEN x0 ELSE FreeTable(f[k - 1], d, k - 1)
  BY <1>4 DEF FreeTurns
<1>6. 0 \in T
  BY <1>1, <1>2, <1>5
<1>7. ASSUME NEW k \in 0..(n - 1), k \in T PROVE k + 1 \in T
  <2>1. k + 1 \in 0..n /\ k + 1 # 0 /\ k + 1 - 1 = k
    BY <1>1
  <2>2. f[k + 1] = FreeTable(f[k], d, k)
    BY <1>5, <2>1
  <2>3. Holds(FreeTable(f[k], d, k), S)
    BY <1>7, PagesHold DEF FreeTable
  <2> QED BY <2>1, <2>2, <2>3
<1> HIDE DEF T
<1>8. n \in T
  BY <1>1, <1>6, <1>7, Turns
<1>9. Holds(f[n], S)
  BY <1>8 DEF T
<1> QED
  BY <1>3, <1>9, PagesHold
LEMMA NewHolds ==
  ASSUME NEW a, NEW S, Holds(a[1], S), NEW d, NEW v
  PROVE  Holds(NewPage(a, d, v)[1], S)
<1> DEFINE w == mappages(a[1], d, v, <<a[2], "PU">>)
<1>1. Holds(w[1], S)
  BY MapHolds
<1> HIDE DEF w
<1>2. Holds(Grown(w, a[2])[1], S)
  <2> DEFINE N == Lose(w[1], a[2])
  <2>1. Holds(N, S)
    BY <1>1, PagesHold
  <2>2. Grown(w, a[2]) = IF w[2] THEN <<w[1], "ok">> ELSE <<N, "torn">>
    BY DEF Grown
  <2> HIDE DEF N
  <2>3. Grown(w, a[2])[1] = w[1] \/ Grown(w, a[2])[1] = N
    BY <2>2
  <2> QED BY <1>1, <2>1, <2>3
<1>3. NewPage(a, d, v) = IF a[2] = NULL THEN <<a[1], "none">> ELSE Grown(w, a[2])
  BY DEF NewPage, w
<1>4. NewPage(a, d, v)[1] = a[1] \/ NewPage(a, d, v) = Grown(w, a[2])
  BY <1>3
<1> QED
  BY <1>2, <1>4
LEMMA GrowsHold ==
  ASSUME NEW M, NEW S, Holds(M, S), NEW d, NEW v
  PROVE  Holds(allocuvm(M, d, v)[1], S) /\ \A old : Holds(copyuvm(M, old, d, v)[1], S)
<1>1. Holds(kalloc(M)[1], S)
  BY PagesHold
<1>2. Holds(Clear(kalloc(M))[1], S) /\ \A from : Holds(Copied(kalloc(M), from)[1], S)
  BY <1>1, FillsHold
<1>3. \A from : Holds(NewPage(Copied(kalloc(M), from), d, v)[1], S)
  BY <1>2, NewHolds
<1> QED
  BY <1>2, <1>3, NewHolds DEF allocuvm, copyuvm
LEMMA ImageHolds ==
  ASSUME NEW M, NEW S, Holds(M, S), NEW d, NEW n
  PROVE  Holds(loaduvm(M, d, n), S) /\ Holds(clearpteu(M, d, n), S)
<1>1. Holds(loaduvm(M, d, n), S)
  <2> DEFINE Text(p) == {v \in 0..(n - 1) : Present(PTE(M, d, v)) /\ PTE(M, d, v)[1] = p}
             s == [p \in DOMAIN M.mem |-> IF Text(p) = {} THEN M.mem[p] ELSE [M.mem[p] EXCEPT ![0] = <<CHOOSE v \in Text(p) : TRUE, "text">>]]
             bad == \E v \in 0..(n - 1) : walkpgdir(M, d, v, FALSE)[2] = NULL
             why == "loaduvm: address should exist"
  <2>1. loaduvm(M, d, n) = IF bad THEN Panic(M, why) ELSE [M EXCEPT !.mem = s]
    BY DEF loaduvm
  <2> HIDE DEF s, bad, why
  <2>2. loaduvm(M, d, n) = Panic(M, why) \/ loaduvm(M, d, n) = [M EXCEPT !.mem = s]
    BY <2>1
  <2>3. Holds(Panic(M, why), S) /\ Holds([M EXCEPT !.mem = s], S)
    BY PutsHold
  <2> QED BY <2>2, <2>3
<1>2. Holds(clearpteu(M, d, n), S)
  BY PutsHold DEF clearpteu, SetPTE
<1> QED
  BY <1>1, <1>2
(***************************************************************************)
(* The other processors: which of them may be starting while main is at l, *)
(* and that the stack low memory holds is that one's.                      *)
(***************************************************************************)
Rest == machine.cpus \ {B}
Waiting == {"off", "reset", "entryother"}
Early == Before \cup Devices \cup {"ideinit", "timerinit"}
Calls3 == {"startup", "again", "started"}
Small == Early \cup {"startothers", "init"} \cup Calls3

StacksApart ==
  /\ "stacks" \in DOMAIN ram
  /\ cpu[B].stack = NULL
  /\ \A c \in Rest : cpu[c].stack # NULL => /\ cpu[c].stack \in ram.stacks /\ cpu[c].stack <= LOW /\ cpu[c].at \notin Waiting
                                            /\ \A d \in Rest : cpu[d].stack = cpu[c].stack => d = c
  /\ boot.stack # NULL => boot.stack \in ram.stacks /\ boot.stack <= LOW
Counted(l, b) ==
  /\ b.next \in Nat /\ (l \in Early => b.next = 0)
  /\ l \in {"init"} \cup Calls3 => b.next # B /\ b.mp.lapic = TRUE
  /\ l \notin Before \cup {"mpinit"} => b.mp.lapic = TRUE \/ (b.mp.lapic = FALSE /\ b.mp.ncpu \in {0, 1})
Comes(l, c, r, b) ==
  /\ r.at \in {"reset", "entryother"} => l \in Calls3 /\ c = b.next
  /\ (l \in Early \cup {"startothers", "init"} /\ c >= b.next) => r.at = "off"
  /\ (l \in Calls3 /\ c > b.next) => r.at = "off"
  /\ (l \in {"init"} \cup Calls3 /\ b.stack # NULL /\ r.stack = b.stack) => c = b.next
  /\ r.at \in Ready => r.self = c
  /\ r.at # "off" => b.mp.lapic = TRUE
  /\ (l \notin Ready /\ c \in b.started) => r.at = "scheduler"
LowPages(l, M) == (M.panic = "" /\ l \in Small) => Len(M.mem) <= LOW
\* What does not depend on the panics and pages of memory.
Starting == StacksApart /\ Counted(cpu[B].at, boot) /\ \A c \in Rest : Comes(cpu[B].at, c, cpu[c], boot)

LEMMA StartingIs ==
  ASSUME machine' = machine, NEW l, cpu'[B].at = l, StacksApart', Counted(l, boot'), \A c \in Rest : Comes(l, c, cpu'[c], boot')
  PROVE  Starting'
<1>b. B' = B /\ Rest' = Rest
  BY DEF B, Rest
<1>1. (Counted(cpu[B].at, boot))'
  BY <1>b DEF Counted
<1>2. (\A c \in Rest : Comes(cpu[B].at, c, cpu[c], boot))'
  BY <1>b DEF Comes
<1> QED
  BY <1>1, <1>2 DEF Starting
LEMMA ApartStill ==
  ASSUME StacksApart, machine' = machine, Holds(ram', ram.stacks), boot'.stack = boot.stack, cpu'[B].stack = cpu[B].stack,
         \A c \in Rest : cpu'[c].stack = cpu[c].stack /\ (cpu'[c].at \in Waiting => cpu[c].at \in Waiting)
  PROVE  StacksApart'
<1>b. B' = B /\ Rest' = Rest
  BY DEF B, Rest
<1>1. "stacks" \in DOMAIN ram' /\ ram'.stacks = ram.stacks
  BY DEF Holds
<1>2. cpu'[B].stack = NULL
  BY DEF StacksApart
<1>3. boot'.stack # NULL => boot'.stack \in ram.stacks /\ boot'.stack <= LOW
  BY DEF StacksApart
<1>4. \A c \in Rest : cpu[c].stack # NULL => /\ cpu[c].stack \in ram.stacks /\ cpu[c].stack <= LOW /\ cpu[c].at \notin Waiting
                                            /\ \A d \in Rest : cpu[d].stack = cpu[c].stack => d = c
  BY DEF StacksApart
<1>5. \A c \in Rest : cpu'[c].stack # NULL => /\ cpu'[c].stack \in ram.stacks /\ cpu'[c].stack <= LOW /\ cpu'[c].at \notin Waiting
                                            /\ \A d \in Rest : cpu'[d].stack = cpu'[c].stack => d = c
  BY <1>4
<1> QED
  BY <1>b, <1>1, <1>2, <1>3, <1>5 DEF StacksApart

\* From k to l nothing happens to the other processors.
Passes(k, l) ==
  /\ l \in Early => k \in Early
  /\ l = "startothers" => k \in Early \cup {"startothers"}
  /\ l = "init" => k = "init"
  /\ (l \in Calls3) = (k \in Calls3)
  /\ l \notin Ready => k \notin Ready
  /\ l \notin Before \cup {"mpinit"} => k \notin Before \cup {"mpinit"}
LEMMA PassesBy ==
  ASSUME Starting, machine' = machine, Holds(ram', ram.stacks), cpu'[B].stack = cpu[B].stack, \A c \in Rest : cpu'[c] = cpu[c],
         boot'.next = boot.next, boot'.stack = boot.stack, boot'.mp = boot.mp, NEW l, cpu'[B].at = l, Passes(cpu[B].at, l),
         boot'.started = boot.started \/ l \in Ready
  PROVE  Starting'
<1> DEFINE k == cpu[B].at
<1>k. Passes(k, l) /\ Counted(k, boot)
  BY DEF Starting
<1>1. StacksApart'
  BY ApartStill DEF Starting
<1>c. \A c \in Rest : Comes(k, c, cpu[c], boot)
  BY DEF Starting
<1> HIDE DEF k
<1>2. Counted(l, boot')
  <2>1. "startothers" \notin {"init"} \cup Calls3
    BY DEF Calls3
  <2> QED BY <1>k, <2>1 DEF Counted, Passes
<1>3. ASSUME NEW c \in Rest PROVE Comes(l, c, cpu'[c], boot')
  <2>1. Comes(k, c, cpu[c], boot) /\ cpu'[c] = cpu[c]
    BY <1>c, <1>3
  <2> QED BY <1>k, <2>1 DEF Comes, Passes
<1> QED
  BY <1>1, <1>2, <1>3, StartingIs
LEMMA PassesIs ==
  /\ \A l : Passes(l, l)
  /\ Passes("bootmain", "kinit1") /\ Passes("kinit1", "kvmalloc") /\ Passes("kvmalloc", "mpinit")
  /\ Passes("lapicinit", "picinit") /\ Passes("picinit", "ioapicinit") /\ Passes("ioapicinit", "consoleinit") /\ Passes("consoleinit", "uartinit")
  /\ Passes("uartinit", "tvinit") /\ Passes("tvinit", "ideinit") /\ Passes("ideinit", "timerinit")
  /\ Passes("ideinit", "startothers") /\ Passes("timerinit", "startothers")
  /\ Passes("startothers", "kinit2") /\ Passes("kinit2", "allocproc") /\ Passes("allocproc", "setupkvm") /\ Passes("setupkvm", "inituvm")
  /\ Passes("inituvm", "userinit") /\ Passes("userinit", "idtinit") /\ Passes("idtinit", "xchg") /\ Passes("xchg", "scheduler")
  BY DEF Passes, Early, Before, Devices, Calls3, Ready
LEMMA HoldsStill == ASSUME Starting, ram' = ram PROVE Holds(ram', ram.stacks)
  BY DEF Starting, StacksApart, Holds
LEMMA GoesBy ==
  ASSUME Booting, Starting, machine' = machine, Holds(ram', ram.stacks), NEW l, cpu' = Goto(B, l), Passes(cpu[B].at, l),
         boot'.next = boot.next, boot'.stack = boot.stack, boot'.mp = boot.mp, boot'.started = boot.started \/ l \in Ready
  PROVE  Starting'
<1>1. Types /\ B \in machine.cpus
  BY FirstIsB
<1>2. Only(B) /\ cpu'[B].at = l /\ cpu'[B].stack = cpu[B].stack
  BY <1>1, GotoIs DEF Same6
<1>3. \A c \in Rest : cpu'[c] = cpu[c]
  BY <1>2 DEF Only, Rest
<1> QED
  BY <1>2, <1>3, PassesBy
LEMMA RestsBy ==
  ASSUME Booting, Starting, machine' = machine, Holds(ram', ram.stacks), cpu' = cpu,
         boot'.next = boot.next, boot'.stack = boot.stack, boot'.mp = boot.mp, boot'.started = boot.started
  PROVE  Starting'
<1>1. Passes(cpu[B].at, cpu[B].at)
  BY PassesIs
<1> QED
  BY <1>1, PassesBy
LEMMA DevicesStart ==
  ASSUME Booting, Starting, bootmain \/ picinit \/ ioapicinit \/ consoleinit \/ uartinit \/ tvinit \/ ideinit \/ timerinit
  PROVE  Starting'
<1>1. machine' = machine /\ ram' = ram
  BY DEF bootmain, picinit, ioapicinit, consoleinit, uartinit, tvinit, ideinit, timerinit, vars
<1>2. Holds(ram', ram.stacks)
  BY <1>1, HoldsStill
<1>3. boot'.next = boot.next /\ boot'.stack = boot.stack /\ boot'.mp = boot.mp /\ boot'.started = boot.started
  <2>1. CASE tvinit
    <3>1. DOMAIN boot = Shared
      BY DEF Booting, Types
    <3> QED BY <2>1, <3>1 DEF tvinit, Shared
  <2>2. CASE ~tvinit
    BY <2>2, DevicesStill DEF Still
  <2> QED BY <2>1, <2>2
<1>4. PICK l : cpu' = Goto(B, l) /\ Passes(cpu[B].at, l)
  <2>1. CASE bootmain
    <3>1. cpu[B].at = "bootmain" /\ cpu' = Goto(B, "kinit1")
      BY <2>1 DEF bootmain, At
    <3> QED BY <3>1, PassesIs
  <2>2. CASE picinit
    <3>1. cpu[B].at = "picinit" /\ cpu' = Goto(B, "ioapicinit")
      BY <2>2 DEF picinit, At
    <3> QED BY <3>1, PassesIs
  <2>3. CASE ioapicinit
    <3>1. cpu[B].at = "ioapicinit" /\ cpu' = Goto(B, "consoleinit")
      BY <2>3 DEF ioapicinit, At
    <3> QED BY <3>1, PassesIs
  <2>4. CASE consoleinit
    <3>1. cpu[B].at = "consoleinit" /\ cpu' = Goto(B, "uartinit")
      BY <2>4 DEF consoleinit, At
    <3> QED BY <3>1, PassesIs
  <2>5. CASE uartinit
    <3>1. cpu[B].at = "uartinit" /\ cpu' = Goto(B, "tvinit")
      BY <2>5 DEF uartinit, At
    <3> QED BY <3>1, PassesIs
  <2>6. CASE tvinit
    <3>1. cpu[B].at = "tvinit" /\ cpu' = Goto(B, "ideinit")
      BY <2>6 DEF tvinit, At
    <3> QED BY <3>1, PassesIs
  <2>7. CASE ideinit
    <3>1. cpu[B].at = "ideinit" /\ (cpu' = Goto(B, "timerinit") \/ cpu' = Goto(B, "startothers"))
      BY <2>7 DEF ideinit, At
    <3> QED BY <3>1, PassesIs
  <2>8. CASE timerinit
    <3>1. cpu[B].at = "timerinit" /\ cpu' = Goto(B, "startothers")
      BY <2>8 DEF timerinit, At
    <3> QED BY <3>1, PassesIs
  <2> QED BY <2>1, <2>2, <2>3, <2>4, <2>5, <2>6, <2>7, <2>8
<1> QED
  BY <1>1, <1>2, <1>3, <1>4, GoesBy
LEMMA StartingHolds == ASSUME Starting PROVE Holds(ram, ram.stacks)
  BY DEF Starting, StacksApart, Holds
LEMMA KinitsStart == ASSUME Booting, Starting, kinit1 \/ kinit2 PROVE Starting'
<1>1. machine' = machine /\ Holds(ram, ram.stacks) /\ DOMAIN boot = Shared
  BY StartingHolds DEF kinit1, kinit2, Booting, Types
<1>2. CASE ram' = Give(ram, Len(ram.mem) + 1) /\ boot' = boot /\ cpu' = cpu
  <2> DEFINE N == [ram EXCEPT !.mem = Append(@, Filled(JUNK))]
  <2>1. Holds(N, ram.stacks)
    BY <1>1, PutsHold
  <2>2. ram' = kfree(N, Len(ram.mem) + 1)
    BY <1>2 DEF Give
  <2> HIDE DEF N
  <2>3. Holds(ram', ram.stacks)
    BY <2>1, <2>2, PagesHold
  <2> QED BY <1>1, <1>2, <2>3, RestsBy
<1>3. CASE kinit1 /\ ram' = ram /\ boot' = [boot EXCEPT !.image = <<>>] /\ cpu' = Goto(B, "kvmalloc")
  <2>1. cpu[B].at = "kinit1"
    BY <1>3 DEF kinit1, At
  <2>2. Passes(cpu[B].at, "kvmalloc")
    BY <2>1, PassesIs
  <2>3. boot'.next = boot.next /\ boot'.stack = boot.stack /\ boot'.mp = boot.mp /\ boot'.started = boot.started
    BY <1>1, <1>3 DEF Shared
  <2> QED BY <1>1, <1>3, <2>2, <2>3, GoesBy
<1>4. CASE kinit2 /\ ram' = ram /\ boot' = [boot EXCEPT !.use_lock = TRUE] /\ cpu' = Goto(B, "allocproc")
  <2>1. cpu[B].at = "kinit2"
    BY <1>4 DEF kinit2, At
  <2>2. Passes(cpu[B].at, "allocproc")
    BY <2>1, PassesIs
  <2>3. boot'.next = boot.next /\ boot'.stack = boot.stack /\ boot'.mp = boot.mp /\ boot'.started = boot.started
    BY <1>1, <1>4 DEF Shared
  <2> QED BY <1>1, <1>4, <2>2, <2>3, GoesBy
<1> QED
  BY <1>2, <1>3, <1>4 DEF kinit1, kinit2
LEMMA KvmStart == ASSUME Booting, Starting, kvmalloc PROVE Starting'
<1>1. machine' = machine /\ Holds(ram, ram.stacks) /\ DOMAIN boot = Shared /\ boot' = boot /\ B \in machine.cpus /\ Types
  BY StartingHolds, FirstIsB DEF kvmalloc, Types
<1> DEFINE N == setupkvm(ram)[1]
           p == setupkvm(ram)[2]
<1>2. Holds(N, ram.stacks)
  BY <1>1, KernelHolds
<1>3. ram' = [N EXCEPT !.kpgdir = p]
  BY DEF kvmalloc
<1> HIDE DEF N, p
<1>4. Holds(ram', ram.stacks)
  BY <1>2, <1>3, PutsHold
<1> DEFINE r == [cpu[B] EXCEPT !.at = "mpinit", !.dir = "kpgdir"]
<1>5. DOMAIN r = Regs /\ r.at = "mpinit" /\ r.stack = cpu[B].stack /\ cpu' = [cpu EXCEPT ![B] = r]
  BY <1>1 DEF kvmalloc, Types, Regs
<1> HIDE DEF r
<1>6. Only(B) /\ cpu'[B] = r
  BY <1>1, <1>5, PutIs
<1>7. cpu[B].at = "kvmalloc"
  BY DEF kvmalloc, At
<1>8. Passes(cpu[B].at, "mpinit")
  BY <1>7, PassesIs
<1>9. \A c \in Rest : cpu'[c] = cpu[c]
  BY <1>6 DEF Only, Rest
<1>10. cpu'[B].at = "mpinit" /\ cpu'[B].stack = cpu[B].stack
  BY <1>5, <1>6
<1> QED
  BY <1>1, <1>4, <1>8, <1>9, <1>10, PassesBy
LEMMA MakesStart == ASSUME Booting, Starting, allocproc \/ UserKernel \/ inituvm \/ userinit PROVE Starting'
<1>1. machine' = machine /\ Holds(ram, ram.stacks) /\ DOMAIN boot = Shared
  BY StartingHolds DEF allocproc, UserKernel, inituvm, userinit, Booting, Types
<1>2. Holds(ram', ram.stacks)
  <2>1. CASE allocproc
    <3>1. ram' = kalloc(ram)[1]
      BY <2>1 DEF allocproc
    <3> QED BY <1>1, <3>1, PagesHold
  <2>2. CASE UserKernel
    <3> DEFINE N == setupkvm(ram)[1]
               why == "userinit: out of memory?"
    <3>1. Holds(N, ram.stacks)
      BY <1>1, KernelHolds
    <3>2. ram' = N \/ ram' = Panic(N, why)
      BY <2>2 DEF UserKernel
    <3> HIDE DEF N, why
    <3>3. Holds(Panic(N, why), ram.stacks)
      BY <3>1, PutsHold
    <3> QED BY <3>1, <3>2, <3>3
  <2>3. CASE inituvm
    <3>1. ram' = allocuvm(ram, proc[1].pgdir, 0)[1]
      BY <2>3 DEF inituvm
    <3> QED BY <1>1, <3>1, GrowsHold
  <2>4. CASE userinit
    BY <1>1, <2>4 DEF userinit
  <2> QED BY <2>1, <2>2, <2>3, <2>4
<1>3. boot'.next = boot.next /\ boot'.stack = boot.stack /\ boot'.mp = boot.mp /\ boot'.started = boot.started
  BY <1>1 DEF allocproc, UserKernel, inituvm, userinit, Shared
<1>4. cpu' = cpu \/ \E l : cpu' = Goto(B, l) /\ Passes(cpu[B].at, l)
  <2>1. CASE allocproc
    <3>1. cpu[B].at = "allocproc" /\ cpu' = Goto(B, "setupkvm")
      BY <2>1 DEF allocproc, At
    <3> QED BY <3>1, PassesIs
  <2>2. CASE UserKernel
    <3>1. cpu[B].at = "setupkvm" /\ cpu' = Goto(B, "inituvm")
      BY <2>2 DEF UserKernel, At
    <3> QED BY <3>1, PassesIs
  <2>3. CASE inituvm
    <3>1. cpu[B].at = "inituvm" /\ cpu' = Goto(B, "userinit")
      BY <2>3 DEF inituvm, At
    <3> QED BY <3>1, PassesIs
  <2>4. CASE userinit
    <3>1. cpu[B].at = "userinit" /\ (cpu' = cpu \/ cpu' = Goto(B, "idtinit"))
      BY <2>4 DEF userinit, At
    <3> QED BY <3>1, PassesIs
  <2> QED BY <2>1, <2>2, <2>3, <2>4
<1> QED
  BY <1>1, <1>2, <1>3, <1>4, GoesBy, RestsBy

\* mpinit goes through the table an entry at a time.
TableTurns(x0, e, n, w) == w = [k \in 0..n |-> IF k = 0 THEN x0 ELSE Entry(w[k - 1], e[k])]
LEMMA TableTurnsExist ==
  ASSUME NEW x0, NEW e
  PROVE  \A n \in Nat : \E w : TableTurns(x0, e, n, w)
<1> DEFINE S == {n \in Nat : \E w : TableTurns(x0, e, n, w)}
<1>1. 0 \in S
  <2> DEFINE w == [k \in 0..0 |-> x0]
  <2>1. TableTurns(x0, e, 0, w)
    BY DEF TableTurns
  <2> HIDE DEF w
  <2> QED BY <2>1
<1>2. ASSUME NEW n \in Nat, n \in S
      PROVE  n + 1 \in S
  <2>1. PICK g : TableTurns(x0, e, n, g)
    BY <1>2
  <2> DEFINE w == [k \in 0..(n + 1) |-> IF k = n + 1 THEN Entry(g[n], e[n + 1]) ELSE g[k]]
  <2>2. \A k \in 0..n : w[k] = g[k] /\ g[k] = IF k = 0 THEN x0 ELSE Entry(g[k - 1], e[k])
    BY <2>1 DEF TableTurns
  <2>3. \A k \in 0..n : w[k] = IF k = 0 THEN x0 ELSE Entry(w[k - 1], e[k])
    BY <2>2
  <2>4. w[n + 1] = Entry(w[n], e[n + 1])
    BY <2>2
  <2>5. w = [k \in 0..(n + 1) |-> w[k]]
    OBVIOUS
  <2> HIDE DEF w
  <2>6. \A k \in 0..(n + 1) : k \in 0..n \/ k = n + 1
    OBVIOUS
  <2>7. n + 1 # 0 /\ n + 1 - 1 = n
    OBVIOUS
  <2>8. \A k \in 0..(n + 1) : w[k] = IF k = 0 THEN x0 ELSE Entry(w[k - 1], e[k])
    BY <2>3, <2>4, <2>6, <2>7
  <2>9. TableTurns(x0, e, n + 1, w)
    BY <2>5, <2>8 DEF TableTurns
  <2> QED BY <2>9
<1> HIDE DEF S
<1>3. Nat \subseteq S
  BY <1>1, <1>2, Induct
<1> QED
  BY <1>3 DEF S
LEMMA FirstIs ==
  ASSUME NEW A \in SUBSET Nat, A # {}
  PROVE  First(A) \in A
<1>1. PICK x \in A : \A y \in A : <<y, x>> \notin OpToRel(<, Nat)
  BY WFMin, NatLessThanWellFounded
<1>2. \A y \in A : x <= y
  <2> SUFFICES ASSUME NEW y \in A, ~(x <= y) PROVE FALSE
    OBVIOUS
  <2>1. y \in Nat /\ x \in Nat /\ y < x
    OBVIOUS
  <2>2. <<y, x>> \in OpToRel(<, Nat)
    BY <2>1 DEF OpToRel
  <2> QED BY <1>1, <2>2
<1> QED
  BY <1>2 DEF First
\* mpinit: whatever the table says, the local APICs are believed in, or there is one processor at most.
LEMMA TableIs ==
  ASSUME mpconfig # <<>>, machine \in Machines
  PROVE  Table(mpconfig[1]).lapic = TRUE /\ {"lapic", "ncpu"} \subseteq DOMAIN Table(mpconfig[1])
<1> DEFINE conf == mpconfig[1]
           e == conf.entries
           S == [NoTable EXCEPT !.ismp = TRUE, !.lapic = TRUE]
           n == Len(e)
           f == CHOOSE w : TableTurns(S, e, n, w)
<1>1. n \in Nat
  <2>1. PICK a \in {"ebda", "base", "rom"} : mpsearch = mpsearch1(a) /\ mpsearch # <<>> /\ mpconfig = <<mpsearch[1].conf>>
    BY DEF mpconfig, mpsearch
  <2> DEFINE A == Valid(a)
             i == First(A)
  <2>2. A # {} /\ mpsearch = <<machine.areas[a][i]>>
    BY <2>1 DEF mpsearch1
  <2>3. A \subseteq DOMAIN machine.areas[a] /\ \A x \in DOMAIN machine.areas[a] : x \in Nat /\ Len(machine.areas[a][x].conf.entries) \in Nat
    BY BootAssumption DEF Valid
  <2>4. i \in A
    <3>1. A \in SUBSET Nat /\ A # {}
      BY <2>2, <2>3
    <3> HIDE DEF A
    <3> QED BY <3>1, FirstIs
  <2>5. conf = machine.areas[a][i].conf
    BY <2>1, <2>2
  <2> QED BY <2>3, <2>4, <2>5
<1>2. Table(conf) = f[n]
  BY DEF Table, TableTurns
<1>3. TableTurns(S, e, n, f)
  BY <1>1, TableTurnsExist
<1>4. S.lapic = TRUE /\ {"lapic", "ncpu"} \subseteq DOMAIN S
  BY DEF NoTable
<1> HIDE DEF f, n, e, S, conf
<1> DEFINE T == {k \in 0..n : f[k].lapic = TRUE /\ {"lapic", "ncpu"} \subseteq DOMAIN f[k]}
<1>5. \A k \in 0..n : f[k] = IF k = 0 THEN S ELSE Entry(f[k - 1], e[k])
  BY <1>3 DEF TableTurns
<1>6. 0 \in T
  BY <1>1, <1>4, <1>5
<1>7. ASSUME NEW k \in 0..(n - 1), k \in T PROVE k + 1 \in T
  <2>1. k + 1 \in 0..n /\ k + 1 # 0 /\ k + 1 - 1 = k
    BY <1>1
  <2>2. f[k + 1] = Entry(f[k], e[k + 1])
    BY <1>5, <2>1
  <2>3. f[k].lapic = TRUE /\ {"lapic", "ncpu"} \subseteq DOMAIN f[k]
    BY <1>7
  <2>4. Entry(f[k], e[k + 1]).lapic = TRUE /\ {"lapic", "ncpu"} \subseteq DOMAIN Entry(f[k], e[k + 1])
    BY <2>3 DEF Entry
  <2> QED BY <2>1, <2>2, <2>4
<1> HIDE DEF T
<1>8. n \in T
  BY <1>1, <1>6, <1>7, Turns
<1> QED
  BY <1>2, <1>8 DEF T, conf
LEMMA MpIs ==
  ASSUME machine \in Machines, mpconfig # <<>>
  PROVE  LET b == FallBack(Table(mpconfig[1])) IN b.lapic = TRUE \/ (b.lapic = FALSE /\ b.ncpu = 1)
<1> DEFINE S == Table(mpconfig[1])
<1>1. S.lapic = TRUE /\ {"lapic", "ncpu"} \subseteq DOMAIN S
  BY TableIs
<1> HIDE DEF S
<1>2. FallBack(S).lapic = TRUE \/ (FallBack(S).lapic = FALSE /\ FallBack(S).ncpu = 1)
  BY <1>1 DEF FallBack
<1> QED
  BY <1>2 DEF S
LEMMA MpStart == ASSUME Booting, Starting, mpinit PROVE Starting'
<1>1. machine' = machine /\ ram' = ram /\ DOMAIN boot = Shared /\ B \in machine.cpus /\ Types /\ cpu[B].at = "mpinit" /\ machine \in Machines
  BY FirstIsB DEF mpinit, vars, Types, At
<1>2. Holds(ram', ram.stacks)
  BY <1>1, HoldsStill
<1>3. CASE boot' = boot /\ cpu' = cpu
  BY <1>1, <1>2, <1>3, RestsBy
<1>4. CASE ~(boot' = boot /\ cpu' = cpu)
  <2>1. PICK m : boot' = [boot EXCEPT !.mp = m] /\ (m.lapic = TRUE \/ (m.lapic = FALSE /\ m.ncpu \in {0, 1})) /\ cpu' = Goto(B, "lapicinit")
    <3>1. CASE mpconfig = <<>>
      <4>1. NoTable.lapic = FALSE /\ NoTable.ncpu = 0
        BY DEF NoTable
      <4> QED BY <3>1, <4>1 DEF mpinit
    <3>2. CASE mpconfig # <<>>
      <4> DEFINE m == FallBack(Table(mpconfig[1]))
      <4>1. boot' = [boot EXCEPT !.mp = m] /\ cpu' = Goto(B, "lapicinit")
        BY <1>4, <3>2 DEF mpinit
      <4>2. m.lapic = TRUE \/ (m.lapic = FALSE /\ m.ncpu = 1)
        BY <1>1, <3>2, MpIs
      <4> HIDE DEF m
      <4> QED BY <4>1, <4>2
    <3> QED BY <3>1, <3>2
  <2>2. Only(B) /\ cpu'[B].at = "lapicinit" /\ cpu'[B].stack = cpu[B].stack
    BY <1>1, <2>1, GotoIs DEF Same6
  <2>3. \A c \in Rest : cpu'[c] = cpu[c]
    BY <2>2 DEF Only, Rest
  <2>4. boot'.next = boot.next /\ boot'.stack = boot.stack /\ boot'.started = boot.started /\ boot'.mp = m
    BY <1>1, <2>1 DEF Shared
  <2>5. StacksApart'
    BY <1>1, <1>2, <2>2, <2>3, <2>4, ApartStill DEF Starting
  <2>e. "mpinit" \in Early /\ "lapicinit" \in Early /\ {"mpinit", "lapicinit"} \cap Calls3 = {} /\ {"mpinit", "lapicinit"} \cap Ready = {}
    BY DEF Early, Before, Devices, Calls3, Ready
  <2>6. Counted("lapicinit", boot')
    <3>1. Counted("mpinit", boot)
      BY <1>1 DEF Starting
    <3> QED BY <2>1, <2>4, <2>e, <3>1 DEF Counted
  <2>7. ASSUME NEW c \in Rest PROVE Comes("lapicinit", c, cpu'[c], boot')
    <3>1. Comes("mpinit", c, cpu[c], boot) /\ Counted("mpinit", boot)
      BY <1>1 DEF Starting
    <3>2. c \in Nat
      BY <1>1, BIs DEF Rest
    <3>3. boot.next = 0
      BY <2>e, <3>1 DEF Counted
    <3>4. cpu[c].at = "off"
      BY <2>e, <3>1, <3>2, <3>3 DEF Comes
    <3>5. cpu'[c].at = "off" /\ c \notin boot'.started
      BY <2>3, <2>4, <2>e, <3>1, <3>4 DEF Comes
    <3> QED BY <2>e, <3>5 DEF Comes, Ready
  <2> QED BY <1>1, <2>2, <2>5, <2>6, <2>7, StartingIs
<1> QED
  BY <1>3, <1>4
LEMMA LabelsApart ==
  /\ "startothers" \notin Early /\ "startothers" \notin Calls3 /\ "startothers" \notin Ready /\ "startothers" \notin Before \cup {"mpinit"}
  /\ "init" \notin Early /\ "init" \notin Calls3 /\ "init" \notin Ready /\ "init" \notin Before \cup {"mpinit"}
  /\ \A l \in Calls3 : l \notin Early /\ l \notin Ready /\ l \notin {"startothers", "init"} /\ l \notin Before \cup {"mpinit"}
  /\ {"startup", "again", "started"} = Calls3
  BY DEF Early, Before, Devices, Calls3, Ready
\* The number of the next processor: that of this one is left out.
LEMMA NextStart ==
  ASSUME Booting, Starting, machine' = machine, ram' = ram, boot' = [boot EXCEPT !.next = @ + 1], NEW k, cpu[B].at = k, Only(B),
         cpu'[B].at = "startothers", cpu'[B].stack = cpu[B].stack,
         k = "startothers" \/ (k \in Calls3 /\ boot.next \in boot.started)
  PROVE  Starting'
<1>1. DOMAIN boot = Shared /\ B \in machine.cpus /\ machine \in Machines
  BY FirstIsB DEF Types
<1>2. boot.next \in Nat /\ Counted(k, boot)
  BY DEF Starting, Counted
<1>3. boot'.next = boot.next + 1 /\ boot'.stack = boot.stack /\ boot'.started = boot.started /\ boot'.mp = boot.mp
  BY <1>1 DEF Shared
<1>4. \A c \in Rest : cpu'[c] = cpu[c]
  BY DEF Only, Rest
<1>5. StacksApart'
  BY <1>3, <1>4, HoldsStill, ApartStill DEF Starting
<1>6. Counted("startothers", boot')
  <2>1. boot'.next \in Nat
    BY <1>2, <1>3
  <2> QED BY <1>2, <1>3, <2>1, LabelsApart DEF Counted
<1>7. ASSUME NEW c \in Rest PROVE Comes("startothers", c, cpu'[c], boot')
  <2>1. Comes(k, c, cpu[c], boot) /\ c \in Nat
    BY <1>1, BIs DEF Starting, Rest
  <2>2. cpu[c].at \notin {"reset", "entryother"}
    BY <2>1, LabelsApart DEF Comes
  <2>3. c >= boot.next + 1 => (c >= boot.next /\ c > boot.next)
    BY <1>2, <2>1
  <2>4. c >= boot'.next => cpu[c].at = "off"
    BY <1>3, <2>1, <2>3 DEF Comes
  <2>5. cpu[c].at \in Ready => cpu[c].self = c
    BY <2>1 DEF Comes
  <2>6. cpu[c].at # "off" => boot.mp.lapic = TRUE
    BY <2>1 DEF Comes
  <2>7. c \in boot.started => cpu[c].at = "scheduler"
    BY <2>1, LabelsApart DEF Comes
  <2> QED BY <1>3, <1>4, <2>2, <2>4, <2>5, <2>6, <2>7, LabelsApart DEF Comes
<1> QED
  BY <1>5, <1>6, <1>7, StartingIs
LEMMA AtLeastOne == ASSUME NEW n \in Nat, n # 0 PROVE n >= 0 /\ n >= 1
  OBVIOUS
LEMMA AtMost == ASSUME NEW n \in Nat, NEW m \in Nat, n <= m, NEW x \in 1..n PROVE x <= m
  OBVIOUS
LEMMA OthersStart ==
  ASSUME Booting, Starting, startothers, Accounts(ram, View(ram, proc)), LowPages(cpu[B].at, ram), ram.panic = ""
  PROVE  Starting'
<1>1. DOMAIN boot = Shared /\ B \in machine.cpus /\ machine \in Machines /\ machine' = machine /\ Types /\ cpu[B].at = "startothers"
  BY FirstIsB DEF Types, startothers, At
<1>c. Counted("startothers", boot)
  BY <1>1 DEF Starting
<1>2. CASE ram' = ram /\ boot' = boot /\ cpu' = Goto(B, "kinit2")
  BY <1>1, <1>2, HoldsStill, PassesIs, GoesBy
<1>3. CASE ram' = ram /\ boot' = [boot EXCEPT !.next = @ + 1] /\ cpu' = cpu
  <2>1. Only(B)
    BY <1>3 DEF Only, Booting, Types
  <2> QED BY <1>1, <1>3, <2>1, NextStart
<1>4. CASE /\ ~(boot.next >= boot.mp.ncpu) /\ ~Itself(boot.next)
           /\ ram' = [kalloc(ram)[1] EXCEPT !.stacks = @ \cup {kalloc(ram)[2]}]
           /\ boot' = [boot EXCEPT !.stack = kalloc(ram)[2]] /\ cpu' = Goto(B, "init")
  <2> DEFINE s == kalloc(ram)[2]
  <2>1. /\ Len(ram.mem) <= LOW /\ ram'.stacks = ram.stacks \cup {s} /\ "stacks" \in DOMAIN ram'
        /\ s # NULL => s \in All(ram) /\ s \notin ram.stacks
    <3>1. Len(ram.mem) <= LOW
      BY <1>1 DEF LowPages, Small
    <3>2. ram'.stacks = ram.stacks \cup {s} /\ (s # NULL => s \in All(ram) /\ s \notin ram.stacks)
      BY <1>4, CpuStackGot
    <3>3. "stacks" \in DOMAIN ram'
      <4>1. Holds(kalloc(ram)[1], ram.stacks)
        BY StartingHolds, PagesHold
      <4> QED BY <1>4, <4>1 DEF Holds
    <3> QED BY <3>1, <3>2, <3>3
  <2>2. s # NULL => s <= LOW
    <3>1. Len(ram.mem) \in Nat /\ LOW \in Nat
      <4>1. ram \in Ram
        BY AccountsType
      <4> QED BY <1>1, <4>1, BIs, LenProperties DEF Ram
    <3>3. s # NULL => s \in 1..Len(ram.mem)
      BY <2>1 DEF All
    <3> HIDE DEF s
    <3> QED BY <2>1, <3>1, <3>3, AtMost
  <2>3. Only(B) /\ cpu'[B].at = "init" /\ cpu'[B].stack = cpu[B].stack
    BY <1>1, <1>4, GotoIs DEF Same6
  <2>4. \A c \in Rest : cpu'[c] = cpu[c]
    BY <2>3 DEF Only, Rest
  <2>5. boot'.next = boot.next /\ boot'.stack = s /\ boot'.started = boot.started /\ boot'.mp = boot.mp
    BY <1>1, <1>4 DEF Shared
  <2> HIDE DEF s
  <2>6. StacksApart'
    <3>b. B' = B /\ Rest' = Rest
      BY <1>1 DEF B, Rest
    <3>1. cpu'[B].stack = NULL
      BY <2>3 DEF Starting, StacksApart
    <3>2. \A c \in Rest : cpu[c].stack # NULL => /\ cpu[c].stack \in ram.stacks /\ cpu[c].stack <= LOW /\ cpu[c].at \notin Waiting
                                                 /\ \A d \in Rest : cpu[d].stack = cpu[c].stack => d = c
      BY DEF Starting, StacksApart
    <3>3. \A c \in Rest : cpu'[c].stack # NULL => /\ cpu'[c].stack \in ram'.stacks /\ cpu'[c].stack <= LOW /\ cpu'[c].at \notin Waiting
                                                 /\ \A d \in Rest : cpu'[d].stack = cpu'[c].stack => d = c
      BY <2>1, <2>4, <3>2
    <3> QED BY <2>1, <2>2, <2>5, <3>b, <3>1, <3>3 DEF StacksApart
  <2>7. boot.next # B /\ boot.mp.lapic = TRUE
    <3>1. boot.mp.lapic = TRUE \/ (boot.mp.lapic = FALSE /\ boot.mp.ncpu \in {0, 1})
      BY <1>c, LabelsApart DEF Counted
    <3>2. boot.next # cpunum(B)
      BY <1>4 DEF Itself
    <3>3. CASE boot.mp.lapic = TRUE
      BY <3>2, <3>3 DEF cpunum
    <3>4. CASE boot.mp.lapic = FALSE /\ boot.mp.ncpu \in {0, 1}
      <4>1. boot.next # 0 /\ boot.next \in Nat
        BY <1>c, <3>2, <3>4 DEF cpunum, Counted
      <4>2. boot.next >= boot.mp.ncpu
        BY <3>4, <4>1, AtLeastOne, Zenon
      <4> QED BY <1>4, <4>2
    <3> QED BY <3>1, <3>3, <3>4
  <2>8. Counted("init", boot')
    BY <1>c, <2>5, <2>7, LabelsApart DEF Counted
  <2>9. ASSUME NEW c \in Rest PROVE Comes("init", c, cpu'[c], boot')
    <3>1. Comes("startothers", c, cpu[c], boot)
      BY <1>1 DEF Starting
    <3>2. s # NULL => cpu[c].stack # s
      <4>1. cpu[c].stack # NULL => cpu[c].stack \in ram.stacks
        BY DEF Starting, StacksApart
      <4> QED BY <2>1, <4>1
    <3> QED BY <2>4, <2>5, <3>1, <3>2, LabelsApart DEF Comes
  <2> QED BY <1>1, <2>3, <2>6, <2>8, <2>9, StartingIs
<1> QED
  BY <1>2, <1>3, <1>4 DEF startothers
LEMMA SignalIs ==
  ASSUME Types, B \in machine.cpus, NEW n, NEW ipi, NEW l, Signal(n, ipi, l)
  PROVE  /\ cpu'[B].at = l /\ cpu'[B].stack = cpu[B].stack
         /\ \A c \in Rest : c # n => cpu'[c] = cpu[c]
         /\ (n \in Rest /\ ipi = "INIT") => cpu'[n].at = "reset" /\ cpu'[n].stack = NULL
         /\ (n \in Rest /\ ipi # "INIT") => cpu'[n] = cpu[n] \/ (cpu[n].at = "reset" /\ cpu'[n].at = "entryother" /\ cpu'[n].stack = cpu[n].stack)
<1>1. cpu = [c \in machine.cpus |-> cpu[c]] /\ \A c \in machine.cpus : DOMAIN cpu[c] = Regs
  BY DEF Types
<1> DEFINE T == Told(n, ipi)
           off == [Off EXCEPT !.at = "reset"]
           up == [cpu[n] EXCEPT !.at = "entryother"]
<1>2. cpu' = [T EXCEPT ![B].at = l]
  BY DEF Signal
<1>3. off.at = "reset" /\ off.stack = NULL
  BY DEF Off
<1>4. n \in machine.cpus => up.at = "entryother" /\ up.stack = cpu[n].stack
  BY <1>1 DEF Regs
<1>5. /\ T = [c \in machine.cpus |-> T[c]] /\ T[B] = cpu[B]
      /\ \A c \in Rest : c # n => T[c] = cpu[c]
      /\ (n \in Rest /\ ipi = "INIT") => T[n] = off
      /\ (n \in Rest /\ ipi # "INIT") => T[n] = cpu[n] \/ (cpu[n].at = "reset" /\ T[n] = up)
  <2>1. CASE n \notin machine.cpus \/ n = B
    BY <1>1, <2>1 DEF Told, Rest
  <2>2. CASE n \in machine.cpus /\ n # B /\ ipi = "INIT"
    <3>1. T = [cpu EXCEPT ![n] = off]
      BY <2>2 DEF Told
    <3> HIDE DEF T, off, up
    <3> QED BY <1>1, <2>2, <3>1 DEF Rest
  <2>3. CASE n \in machine.cpus /\ n # B /\ ipi # "INIT" /\ cpu[n].at = "reset"
    <3>1. T = [cpu EXCEPT ![n] = up]
      BY <2>3 DEF Told
    <3> HIDE DEF T, off, up
    <3> QED BY <1>1, <2>3, <3>1 DEF Rest
  <2>4. CASE n \in machine.cpus /\ n # B /\ ipi # "INIT" /\ cpu[n].at # "reset"
    BY <1>1, <2>4 DEF Told, Rest
  <2> QED BY <2>1, <2>2, <2>3, <2>4
<1> DEFINE r == [cpu[B] EXCEPT !.at = l]
<1>6. r.at = l /\ r.stack = cpu[B].stack
  BY <1>1 DEF Regs
<1> HIDE DEF T, off, up
<1>7. cpu' = [T EXCEPT ![B] = r]
  BY <1>2, <1>5
<1> HIDE DEF r
<1> DEFINE Q == cpu'
<1>q. Q = [T EXCEPT ![B] = r]
  BY <1>7
<1> HIDE DEF Q
<1>8. Q[B] = r /\ \A c \in machine.cpus : c # B => Q[c] = T[c]
  BY <1>5, <1>q
<1> QED
  BY <1>3, <1>4, <1>5, <1>6, <1>8 DEF Rest, Q
LEMMA SignalsStart == ASSUME Booting, Starting, lapicstartap PROVE Starting'
<1>1. /\ machine' = machine /\ ram' = ram /\ boot' = boot /\ B \in machine.cpus /\ Types /\ machine \in Machines
      /\ Holds(ram', ram.stacks)
  BY FirstIsB, HoldsStill DEF lapicstartap, vars, Types
<1> DEFINE n == boot.next
           k == cpu[B].at
<1>2. PICK ipi, l : /\ Signal(n, ipi, l) /\ l \in Calls3
                    /\ (ipi = "INIT" /\ k = "init") \/ (ipi # "INIT" /\ k \in Calls3)
  <2>1. CASE At(B, "init") /\ Signal(n, "INIT", "startup")
    BY <2>1, LabelsApart DEF At
  <2>2. CASE At(B, "startup") /\ Signal(n, "STARTUP", "again")
    BY <2>2, LabelsApart DEF At
  <2>3. CASE At(B, "again") /\ Signal(n, "STARTUP", "started")
    BY <2>3, LabelsApart DEF At
  <2> QED BY <2>1, <2>2, <2>3 DEF lapicstartap
<1>3. /\ cpu'[B].at = l /\ cpu'[B].stack = cpu[B].stack
      /\ \A c \in Rest : c # n => cpu'[c] = cpu[c]
      /\ (n \in Rest /\ ipi = "INIT") => cpu'[n].at = "reset" /\ cpu'[n].stack = NULL
      /\ (n \in Rest /\ ipi # "INIT") => cpu'[n] = cpu[n] \/ (cpu[n].at = "reset" /\ cpu'[n].at = "entryother" /\ cpu'[n].stack = cpu[n].stack)
  BY <1>1, <1>2, SignalIs
<1>4. Counted(k, boot) /\ StacksApart /\ \A c \in Rest : Comes(k, c, cpu[c], boot)
  BY DEF Starting
<1>5. \A c \in Rest : c \in Nat /\ n \in Nat
  BY <1>1, <1>4, BIs DEF Rest, Counted
<1> HIDE DEF k, n
<1>6. Counted(l, boot)
  BY <1>2, <1>4, LabelsApart DEF Counted
<1>7. (n \in Rest /\ ipi = "INIT") => cpu[n].at = "off" /\ cpu[n].stack = NULL /\ n \notin boot.started
  <2> SUFFICES ASSUME n \in Rest, ipi = "INIT" PROVE cpu[n].at = "off" /\ cpu[n].stack = NULL /\ n \notin boot.started
    OBVIOUS
  <2>1. Comes("init", n, cpu[n], boot) /\ n >= n
    BY <1>2, <1>4, <1>5
  <2>2. cpu[n].at = "off"
    BY <2>1 DEF Comes, n
  <2>3. cpu[n].stack = NULL
    BY <1>4, <2>2 DEF StacksApart, Waiting
  <2>4. n \notin boot.started
    BY <2>1, <2>2, LabelsApart DEF Comes
  <2> QED BY <2>2, <2>3, <2>4
<1>8. StacksApart'
  <2>1. \A c \in Rest : cpu'[c].stack = cpu[c].stack /\ (cpu'[c].at \in Waiting => cpu[c].at \in Waiting)
    BY <1>2, <1>3, <1>7 DEF Waiting
  <2> QED BY <1>1, <1>3, <1>4, <2>1, ApartStill
<1>9. ASSUME NEW c \in Rest PROVE Comes(l, c, cpu'[c], boot)
  <2>1. Comes(k, c, cpu[c], boot) /\ c \in Nat /\ n \in Nat
    BY <1>4, <1>5
  <2>2. CASE c # n
    <3>1. cpu'[c] = cpu[c]
      BY <1>3, <2>2
    <3>2. cpu[c].at \notin {"reset", "entryother"}
      BY <2>1, <2>2 DEF Comes, n
    <3>3. c > n => cpu[c].at = "off"
      <4>1. c > n => c >= n
        BY <2>1
      <4> QED BY <1>2, <2>1, <4>1 DEF Comes, n
    <3>4. ~(boot.stack # NULL /\ cpu[c].stack = boot.stack)
      BY <1>2, <2>1, <2>2 DEF Comes, n
    <3>5. (cpu[c].at \in Ready => cpu[c].self = c) /\ (cpu[c].at # "off" => boot.mp.lapic = TRUE) /\ (c \in boot.started => cpu[c].at = "scheduler")
      BY <1>2, <2>1, LabelsApart DEF Comes
    <3> QED BY <1>2, <3>1, <3>2, <3>3, <3>4, <3>5, LabelsApart DEF Comes, n
  <2>3. CASE c = n /\ cpu'[c] = cpu[c] /\ k \in Calls3
    BY <1>2, <2>1, <2>3, LabelsApart DEF Comes
  <2>4. CASE c = n /\ cpu'[c].at \in {"reset", "entryother"} /\ c \notin boot.started
    <3>1. ~(c > n)
      BY <2>1, <2>4
    <3>2. boot.mp.lapic = TRUE
      BY <1>2, <1>6 DEF Counted
    <3>3. cpu'[c].at \notin Ready
      BY <2>4 DEF Ready
    <3> QED BY <1>2, <2>4, <3>1, <3>2, <3>3, LabelsApart DEF Comes, n
  <2>5. CASE c = n /\ ipi = "INIT"
    BY <1>3, <1>7, <2>4, <2>5
  <2>6. CASE c = n /\ ipi # "INIT"
    <3>1. CASE cpu'[c] = cpu[c]
      BY <1>2, <2>3, <2>6, <3>1
    <3>2. CASE cpu[c].at = "reset" /\ cpu'[c].at = "entryother"
      <4>1. c \notin boot.started
        BY <1>2, <2>1, <2>6, <3>2, LabelsApart DEF Comes
      <4> QED BY <2>4, <2>6, <3>2, <4>1
    <3> QED BY <1>3, <2>6, <3>1, <3>2
  <2> QED BY <2>2, <2>5, <2>6
<1> QED
  BY <1>1, <1>3, <1>6, <1>8, <1>9, StartingIs
LEMMA WaitsStart == ASSUME Booting, Starting, waitstarted PROVE Starting'
<1>1. /\ machine' = machine /\ ram' = ram /\ B \in machine.cpus /\ Types /\ cpu[B].at = "started" /\ boot.next \in boot.started
      /\ boot' = [boot EXCEPT !.next = @ + 1] /\ cpu' = Goto(B, "startothers")
  BY FirstIsB DEF waitstarted, vars, Types, At, Answered
<1>2. Only(B) /\ cpu'[B].at = "startothers" /\ cpu'[B].stack = cpu[B].stack
  BY <1>1, GotoIs DEF Same6
<1>3. "started" \in Calls3
  BY LabelsApart
<1> QED
  BY <1>1, <1>2, <1>3, NextStart
\* A step of another processor, to the record r.
LEMMA OtherStart ==
  ASSUME Booting, Starting, machine' = machine, Holds(ram', ram.stacks), NEW c \in Rest, NEW r, cpu' = [cpu EXCEPT ![c] = r],
         boot'.next = boot.next, boot'.stack = boot.stack, boot'.mp = boot.mp,
         \/ boot'.started = boot.started /\ cpu[c].at # "scheduler"
         \/ boot'.started = boot.started \cup {c} /\ r.at = "scheduler"
         \/ boot'.started = boot.started /\ r.at = "scheduler",
         \/ r.stack = cpu[c].stack
         \/ r.stack = boot.stack /\ cpu[c].at = "entryother",
         r.at \notin Waiting, cpu[c].at # "off",
         r.at \in Ready => r.self = c
  PROVE  Starting'
<1>1. B \in machine.cpus /\ cpu = [d \in machine.cpus |-> cpu[d]] /\ c \in machine.cpus /\ c # B
  BY FirstIsB DEF Types, Rest
<1>b. B' = B /\ Rest' = Rest
  BY DEF B, Rest
<1> DEFINE k == cpu[B].at
           Q == cpu'
<1>q. Q = [cpu EXCEPT ![c] = r]
  OBVIOUS
<1> HIDE DEF Q
<1>2. Q[B] = cpu[B] /\ Q[c] = r /\ \A d \in Rest : d # c => Q[d] = cpu[d]
  BY <1>1, <1>q DEF Rest
<1>3. cpu'[B] = cpu[B] /\ cpu'[c] = r /\ \A d \in Rest : d # c => cpu'[d] = cpu[d]
  BY <1>2 DEF Q
<1>4. Counted(k, boot) /\ StacksApart /\ \A d \in Rest : Comes(k, d, cpu[d], boot)
  BY DEF Starting
<1>5. Counted(k, boot')
  BY <1>4 DEF Counted
<1>6. cpu[c].at = "entryother" => k \in Calls3 /\ c = boot.next
  BY <1>4 DEF Comes
<1>7. StacksApart'
  <2>1. CASE r.stack = cpu[c].stack
    <3>1. \A d \in Rest : cpu'[d].stack = cpu[d].stack /\ (cpu'[d].at \in Waiting => cpu[d].at \in Waiting)
      BY <1>3, <2>1
    <3> QED BY <1>3, <1>4, <3>1, ApartStill
  <2>2. CASE r.stack = boot.stack /\ cpu[c].at = "entryother"
    <3>1. boot.stack # NULL => \A d \in Rest : d # c => cpu[d].stack # boot.stack
      BY <1>4, <1>6, <2>2 DEF Comes
    <3>2. ram'.stacks = ram.stacks /\ "stacks" \in DOMAIN ram'
      BY DEF Holds
    <3>3. cpu'[B].stack = NULL
      BY <1>3, <1>4 DEF StacksApart
    <3>4. \A d \in Rest : cpu[d].stack # NULL => /\ cpu[d].stack \in ram.stacks /\ cpu[d].stack <= LOW /\ cpu[d].at \notin Waiting
                                                 /\ \A e \in Rest : cpu[e].stack = cpu[d].stack => e = d
      BY <1>4 DEF StacksApart
    <3>5. boot.stack # NULL => boot.stack \in ram.stacks /\ boot.stack <= LOW
      BY <1>4 DEF StacksApart
    <3>6. ASSUME NEW d \in Rest, cpu'[d].stack # NULL
          PROVE  /\ cpu'[d].stack \in ram.stacks /\ cpu'[d].stack <= LOW /\ cpu'[d].at \notin Waiting
                 /\ \A e \in Rest : cpu'[e].stack = cpu'[d].stack => e = d
      <4>1. CASE d = c
        <5>1. cpu'[d].stack = boot.stack /\ cpu'[d].at = r.at
          BY <1>3, <2>2, <4>1
        <5>2. \A e \in Rest : e # c => cpu'[e].stack # boot.stack
          BY <1>3, <3>1, <3>6, <5>1
        <5> QED BY <3>5, <3>6, <4>1, <5>1, <5>2
      <4>2. CASE d # c
        <5>1. cpu'[d] = cpu[d]
          BY <1>3, <4>2
        <5>2. cpu'[c].stack = boot.stack
          BY <1>3, <2>2
        <5>3. cpu[d].stack # boot.stack
          BY <3>1, <3>6, <4>2, <5>1
        <5>4. \A e \in Rest : cpu'[e].stack = cpu'[d].stack => e = d
          BY <1>3, <3>4, <3>6, <5>1, <5>2, <5>3
        <5> QED BY <3>4, <3>6, <5>1, <5>4
      <4> QED BY <4>1, <4>2
    <3> QED BY <1>b, <3>2, <3>3, <3>5, <3>6 DEF StacksApart
  <2> QED BY <2>1, <2>2
<1>8. ASSUME NEW d \in Rest PROVE Comes(k, d, cpu'[d], boot')
  <2>1. Comes(k, d, cpu[d], boot)
    BY <1>4
  <2>2. CASE d # c
    <3>1. d \in boot'.started => d \in boot.started
      BY <2>2
    <3> QED BY <1>3, <2>1, <2>2, <3>1 DEF Comes
  <2>3. CASE d = c
    <3>1. cpu'[d] = r
      BY <1>3, <2>3
    <3>2. r.at \notin {"reset", "entryother"} /\ r.at # "off"
      BY DEF Waiting
    <3>3. ~(k \in Early \cup {"startothers", "init"} /\ d >= boot.next) /\ ~(k \in Calls3 /\ d > boot.next) /\ boot.mp.lapic = TRUE
      BY <2>1, <2>3 DEF Comes
    <3>4. (k \in {"init"} \cup Calls3 /\ boot.stack # NULL /\ r.stack = boot.stack) => d = boot.next
      BY <1>6, <2>1, <2>3 DEF Comes
    <3>5. (k \notin Ready /\ d \in boot'.started) => r.at = "scheduler"
      BY <2>1, <2>3 DEF Comes
    <3> QED BY <2>3, <3>1, <3>2, <3>3, <3>4, <3>5 DEF Comes
  <2> QED BY <2>2, <2>3
<1>9. cpu'[B].at = k
  BY <1>3
<1> HIDE DEF k
<1> QED
  BY <1>5, <1>7, <1>8, <1>9, StartingIs
LEMMA TurnStarts ==
  ASSUME Booting, Starting, NEW c \in Rest, lapicinit(c) \/ entryother(c) \/ mpenter(c) \/ idtinit(c) \/ xchg(c) PROVE Starting'
<1>1. /\ machine' = machine /\ Holds(ram', ram.stacks) /\ c \in machine.cpus /\ c # B /\ Types /\ DOMAIN cpu[c] = Regs /\ DOMAIN boot = Shared
      /\ Comes(cpu[B].at, c, cpu[c], boot)
  BY HoldsStill DEF lapicinit, entryother, mpenter, idtinit, xchg, vars, Rest, Booting, Types, Starting
<1>2. CASE lapicinit(c)
  <2> DEFINE l == IF c = B THEN "picinit" ELSE "idtinit"
             r == [LapicSet(c) EXCEPT !.at = l]
  <2>1. cpu' = [cpu EXCEPT ![c] = r] /\ cpu[c].at = "lapicinit" /\ boot' = boot
    BY <1>2 DEF lapicinit, At
  <2>2. r.at = l /\ r.stack = cpu[c].stack /\ r.self = cpunum(c)
    BY <1>1, OneIs
  <2>3. l = "idtinit"
    BY <1>1
  <2>4. boot.mp.lapic = TRUE
    BY <1>1, <2>1 DEF Comes
  <2>5. r.self = c
    BY <2>2, <2>4 DEF cpunum
  <2> HIDE DEF r, l
  <2>6. r.at \notin Waiting
    BY <2>2, <2>3 DEF Waiting
  <2> QED BY <1>1, <2>1, <2>2, <2>5, <2>6, OtherStart
<1>3. CASE entryother(c)
  <2> DEFINE r == [cpu[c] EXCEPT !.at = "mpenter", !.dir = "entrypgdir", !.stack = boot.stack]
  <2>1. cpu' = [cpu EXCEPT ![c] = r] /\ r.at = "mpenter" /\ r.stack = boot.stack
    BY <1>1, <1>3 DEF entryother, Types, Regs
  <2>2. cpu[c].at = "entryother" /\ boot' = boot
    BY <1>3 DEF entryother, At
  <2> HIDE DEF r
  <2>3. r.at \notin Waiting /\ r.at \notin Ready
    BY <2>1 DEF Waiting, Ready
  <2> QED BY <1>1, <2>1, <2>2, <2>3, OtherStart
<1>4. CASE mpenter(c)
  <2> DEFINE r == [cpu[c] EXCEPT !.at = "lapicinit", !.dir = "kpgdir"]
  <2>1. cpu' = [cpu EXCEPT ![c] = r] /\ r.at = "lapicinit" /\ r.stack = cpu[c].stack
    BY <1>1, <1>4 DEF mpenter, Types, Regs
  <2>2. cpu[c].at = "mpenter" /\ boot' = boot
    BY <1>4 DEF mpenter, At
  <2> HIDE DEF r
  <2>3. r.at \notin Waiting /\ r.at \notin Ready
    BY <2>1 DEF Waiting, Ready
  <2> QED BY <1>1, <2>1, <2>2, <2>3, OtherStart
<1>5. CASE idtinit(c)
  <2> DEFINE r == [cpu[c] EXCEPT !.at = "xchg", !.idt = boot.idt]
  <2>1. cpu' = [cpu EXCEPT ![c] = r] /\ r.at = "xchg" /\ r.stack = cpu[c].stack /\ r.self = cpu[c].self
    BY <1>1, <1>5 DEF idtinit, Types, Regs
  <2>2. cpu[c].at = "idtinit" /\ boot' = boot
    BY <1>5 DEF idtinit, At
  <2> HIDE DEF r
  <2>3. r.at \notin Waiting /\ cpu[c].self = c
    BY <1>1, <2>1, <2>2 DEF Waiting, Comes, Ready
  <2> QED BY <1>1, <2>1, <2>2, <2>3, OtherStart
<1>6. CASE xchg(c)
  <2> DEFINE r == [cpu[c] EXCEPT !.at = "scheduler"]
  <2>1. cpu' = [cpu EXCEPT ![c] = r] /\ r.at = "scheduler" /\ r.stack = cpu[c].stack /\ r.self = cpu[c].self
    BY <1>1, <1>6 DEF xchg, Goto, Types, Regs
  <2>2. cpu[c].at = "xchg" /\ boot' = [boot EXCEPT !.started = @ \cup {cpu[c].self}]
    BY <1>6 DEF xchg, At
  <2> HIDE DEF r
  <2>3. r.at \notin Waiting /\ cpu[c].self = c
    BY <1>1, <2>1, <2>2 DEF Waiting, Comes, Ready
  <2>4. boot'.next = boot.next /\ boot'.stack = boot.stack /\ boot'.mp = boot.mp /\ boot'.started = boot.started \cup {c}
    BY <1>1, <2>2, <2>3 DEF Shared
  <2> QED BY <1>1, <2>1, <2>2, <2>3, <2>4, OtherStart
<1> QED
  BY <1>2, <1>3, <1>4, <1>5, <1>6
LEMMA OwnTurnStarts ==
  ASSUME Booting, Starting, lapicinit(B) \/ entryother(B) \/ mpenter(B) \/ idtinit(B) \/ xchg(B) PROVE Starting'
<1>1. /\ machine' = machine /\ Holds(ram', ram.stacks) /\ B \in machine.cpus /\ Types /\ DOMAIN cpu[B] = Regs /\ DOMAIN boot = Shared
      /\ FirstAt(cpu[B].at)
  BY HoldsStill, FirstIsB DEF lapicinit, entryother, mpenter, idtinit, xchg, vars, Booting, Types
<1>2. ~entryother(B) /\ ~mpenter(B)
  BY <1>1 DEF FirstAt, Main, Making, Ready, Before, Devices, Late, entryother, mpenter, At
<1>3. PICK l, r : /\ cpu' = [cpu EXCEPT ![B] = r] /\ DOMAIN r = Regs /\ r.at = l /\ r.stack = cpu[B].stack /\ Passes(cpu[B].at, l)
                  /\ boot'.next = boot.next /\ boot'.stack = boot.stack /\ boot'.mp = boot.mp /\ (boot'.started = boot.started \/ l \in Ready)
  <2>1. CASE lapicinit(B)
    <3> DEFINE l == IF B = B THEN "picinit" ELSE "idtinit"
               r == [LapicSet(B) EXCEPT !.at = l]
    <3>1. cpu' = [cpu EXCEPT ![B] = r] /\ cpu[B].at = "lapicinit" /\ boot' = boot
      BY <2>1 DEF lapicinit, At
    <3>2. DOMAIN r = Regs /\ r.at = l /\ r.stack = cpu[B].stack
      BY <1>1, OneIs
    <3>3. l = "picinit"
      OBVIOUS
    <3> HIDE DEF r, l
    <3> QED BY <3>1, <3>2, <3>3, PassesIs
  <2>2. CASE idtinit(B)
    <3> DEFINE r == [cpu[B] EXCEPT !.at = "xchg", !.idt = boot.idt]
    <3>1. cpu' = [cpu EXCEPT ![B] = r] /\ DOMAIN r = Regs /\ r.at = "xchg" /\ r.stack = cpu[B].stack
      BY <1>1, <2>2 DEF idtinit, Types, Regs
    <3>2. cpu[B].at = "idtinit" /\ boot' = boot
      BY <2>2 DEF idtinit, At
    <3> HIDE DEF r
    <3> QED BY <3>1, <3>2, PassesIs
  <2>3. CASE xchg(B)
    <3> DEFINE r == [cpu[B] EXCEPT !.at = "scheduler"]
    <3>1. cpu' = [cpu EXCEPT ![B] = r] /\ DOMAIN r = Regs /\ r.at = "scheduler" /\ r.stack = cpu[B].stack
      BY <1>1, <2>3 DEF xchg, Goto, Types, Regs
    <3>2. cpu[B].at = "xchg" /\ boot' = [boot EXCEPT !.started = @ \cup {cpu[B].self}]
      BY <2>3 DEF xchg, At
    <3> HIDE DEF r
    <3>3. boot'.next = boot.next /\ boot'.stack = boot.stack /\ boot'.mp = boot.mp /\ "scheduler" \in Ready
      BY <1>1, <3>2 DEF Shared, Ready
    <3> QED BY <3>1, <3>2, <3>3, PassesIs
  <2> QED BY <1>2, <2>1, <2>2, <2>3
<1>4. Only(B) /\ cpu'[B] = r
  BY <1>1, <1>3, PutIs
<1>5. \A c \in Rest : cpu'[c] = cpu[c]
  BY <1>4 DEF Only, Rest
<1> QED
  BY <1>1, <1>3, <1>4, <1>5, PassesBy
LEMMA SchedulersStart == ASSUME Booting, Starting, NEW c \in machine.cpus, scheduler(c) PROVE Starting'
<1>1. /\ machine' = machine /\ Holds(ram', ram.stacks) /\ B \in machine.cpus /\ Types /\ DOMAIN cpu[c] = Regs /\ DOMAIN boot = Shared /\ cpu[c].at = "scheduler"
  BY HoldsStill, FirstIsB DEF scheduler, vars, Types, At
<1>2. CASE cpu' = cpu /\ boot' = [boot EXCEPT !.runs = c]
  <2>1. boot'.next = boot.next /\ boot'.stack = boot.stack /\ boot'.mp = boot.mp /\ boot'.started = boot.started
    BY <1>1, <1>2 DEF Shared
  <2> QED BY <1>1, <1>2, <2>1, RestsBy
<1>3. CASE cpu' = [cpu EXCEPT ![c].sti = TRUE] /\ boot' = boot
  <2> DEFINE r == [cpu[c] EXCEPT !.sti = TRUE]
  <2>1. cpu' = [cpu EXCEPT ![c] = r] /\ DOMAIN r = Regs /\ r.at = "scheduler" /\ r.stack = cpu[c].stack /\ r.self = cpu[c].self
    BY <1>1, <1>3 DEF Regs
  <2> HIDE DEF r
  <2>2. CASE c = B
    <3>1. Only(B) /\ cpu'[B] = r
      BY <1>1, <2>1, <2>2, PutIs
    <3>2. \A d \in Rest : cpu'[d] = cpu[d]
      BY <3>1 DEF Only, Rest
    <3>3. Passes(cpu[B].at, "scheduler")
      BY <1>1, <2>2, PassesIs
    <3> QED BY <1>1, <1>3, <2>1, <2>2, <3>1, <3>2, <3>3, PassesBy
  <2>3. CASE c # B
    <3>1. c \in Rest /\ cpu[c].self = c /\ r.at \notin Waiting
      BY <1>1, <2>1, <2>3 DEF Rest, Starting, Comes, Ready, Waiting
    <3> QED BY <1>1, <1>3, <2>1, <3>1, OtherStart
  <2> QED BY <2>2, <2>3
<1> QED
  BY <1>2, <1>3 DEF scheduler
LEMMA ForksHold ==
  ASSUME NEW S, Holds(ram, S), NEW p \in Procs, Fork(p) \/ ForkKernel(p) \/ ForkPage(p)
  PROVE  Holds(ram', S)
<1>1. CASE Fork(p)
  <2>1. ram' = ram \/ ram' = kalloc(ram)[1]
    BY <1>1 DEF Fork
  <2> QED BY <2>1, PagesHold
<1>2. CASE ForkKernel(p)
  <2> DEFINE N == setupkvm(ram)[1]
             k == proc[Op(p)[2]].kstack
  <2>1. Holds(N, S)
    BY KernelHolds
  <2>2. ram' = N \/ ram' = kfree(N, k)
    BY <1>2 DEF ForkKernel
  <2> HIDE DEF N, k
  <2> QED BY <2>1, <2>2, PagesHold
<1>3. CASE ForkPage(p)
  <2> DEFINE d == proc[p].new
             N == copyuvm(ram, proc[p].pgdir, d, Op(p)[3])[1]
             k == proc[Op(p)[2]].kstack
             why == "copyuvm: page not present"
  <2>1. Holds(N, S) /\ Holds(Panic(ram, why), S)
    BY GrowsHold, PutsHold
  <2>2. ram' = ram \/ ram' = Panic(ram, why) \/ ram' = N \/ ram' = kfree(freevm(N, d), k)
    BY <1>3 DEF ForkPage
  <2> HIDE DEF N, k, why, d
  <2>3. Holds(freevm(N, d), S)
    BY <2>1, FreeHolds
  <2>4. Holds(kfree(freevm(N, d), k), S)
    BY <2>3, PagesHold
  <2> QED BY <2>1, <2>2, <2>4
<1> QED
  BY <1>1, <1>2, <1>3
LEMMA SbrksHold ==
  ASSUME NEW S, Holds(ram, S), test \in DOMAIN Programs, Good(test, proc), Accounts(ram, View(ram, proc)),
         NEW p \in Procs, Sbrk(p) \/ SbrkPage(p)
  PROVE  Holds(ram', S)
<1>w. Working(test, ram, proc)
  BY DEF Working
<1>1. CASE Sbrk(p)
  <2> DEFINE sz == proc[p].sz
             n == IF "to" \in DOMAIN Instr(p) THEN Instr(p).to - sz ELSE Instr(p).n
             newsz == (sz + n) % SPACE
  <2>1. Idle(p) /\ Calls(p, "sbrk")
    BY <1>1 DEF Sbrk, Calls
  <2>2. Rec(test, proc[p])
    BY <1>w, <2>1, Between
  <2>3. WellFormed(Instr(p)) /\ Instr(p).call = "sbrk"
    BY <2>1, <2>2, IdleIs
  <2>4. newsz \in Nat
    BY <2>2, <2>3, NewSize
  <2>5. sz \in Nat
    BY <2>2, Sizes DEF Rec, Sz
  <2>6. ram' = ram \/ ram' = deallocuvm(ram, proc[p].pgdir, sz, newsz)
    BY <1>1 DEF Sbrk
  <2> HIDE DEF n, newsz, sz
  <2> QED BY <2>4, <2>5, <2>6, DeallocHolds
<1>2. CASE SbrkPage(p)
  <2>1. Does(p, "allocuvm")
    BY <1>2 DEF SbrkPage
  <2>2. Rec(test, proc[p])
    BY <1>w, <2>1, Within
  <2>3. PICK v \in Nat, newsz \in Sz : Op(p) = <<"allocuvm", v, newsz>>
    BY <2>1, <2>2, DoesGrow
  <2>4. Op(p)[3] = newsz
    BY <2>3, Triple
  <2>5. newsz \in Nat /\ proc[p].sz \in Nat
    BY <2>2, Sizes DEF Rec, Sz
  <2> DEFINE N == deallocuvm(ram, proc[p].pgdir, newsz, proc[p].sz)
             G == allocuvm(ram, proc[p].pgdir, Op(p)[2])[1]
  <2>6. Holds(N, S) /\ Holds(G, S)
    BY <2>5, DeallocHolds, GrowsHold
  <2>7. ram' = ram \/ ram' = N \/ ram' = G
    BY <1>2, <2>4 DEF SbrkPage
  <2> QED BY <2>6, <2>7
<1> QED
  BY <1>1, <1>2
LEMMA ExecsHold ==
  ASSUME NEW S, Holds(ram, S), NEW p \in Procs, Exec(p) \/ ExecPage(p) \/ ExecCommit(p)
  PROVE  Holds(ram', S)
<1> DEFINE n == Instr(p).pages
           d == proc[p].new
<1>1. CASE Exec(p)
  <2>1. ram' = setupkvm(ram)[1]
    BY <1>1 DEF Exec
  <2> QED BY <2>1, KernelHolds
<1>2. CASE ExecPage(p)
  <2> DEFINE v == Op(p)[2]
             M == IF v = n THEN loaduvm(ram, d, n) ELSE ram
             N == allocuvm(M, d, v)[1]
  <2>1. Holds(M, S)
    BY ImageHolds
  <2>2. ram' = M \/ ram' = freevm(M, d) \/ ram' = freevm(N, d) \/ ram' = N
    BY <1>2 DEF ExecPage
  <2> HIDE DEF v, M, n, d
  <2>3. Holds(N, S)
    BY <2>1, GrowsHold
  <2> HIDE DEF N
  <2> QED BY <2>1, <2>2, <2>3, FreeHolds
<1>3. CASE ExecCommit(p)
  <2> DEFINE M == clearpteu(ram, d, n)
             stack == PTE(M, d, n + 1)
             N == [M EXCEPT !.mem[stack[1]][PGSIZE - 1] = <<0, "argv">>]
             old == proc[p].pgdir
             why == "trap"
  <2>1. Holds(M, S)
    BY ImageHolds
  <2>2. ram' = M \/ ram' = Panic(M, why) \/ ram' = freevm(M, d) \/ ram' = freevm(N, old)
    BY <1>3 DEF ExecCommit
  <2> HIDE DEF M, n, d, stack
  <2>3. Holds(N, S) /\ Holds(Panic(M, why), S)
    BY <2>1, PutsHold
  <2> HIDE DEF N, old, why
  <2> QED BY <2>1, <2>2, <2>3, FreeHolds
<1> QED
  BY <1>1, <1>2, <1>3
LEMMA RestHolds ==
  ASSUME NEW S, Holds(ram, S), NEW p \in Procs, Store(p) \/ Load(p) \/ fetchint(p) \/ fetchstr(p) \/ Await(p) \/ Kill(p) \/ Exit(p) \/ Wait(p)
  PROVE  Holds(ram', S)
<1>1. CASE Store(p)
  <2> DEFINE q == Reaches(p)[1]
             a == Address(p) % PGSIZE
             c == <<Instr(p).v, "data">>
  <2>1. ram' = ram \/ ram' = [ram EXCEPT !.mem[q][a] = c]
    BY <1>1 DEF Store, Trap
  <2> HIDE DEF q, a, c
  <2>2. Holds([ram EXCEPT !.mem[q][a] = c], S)
    BY PutsHold
  <2> QED BY <2>1, <2>2
<1>2. CASE Load(p) \/ Await(p) \/ Kill(p) \/ Exit(p)
  BY <1>2 DEF Load, Trap, Await, Kill, Exit
<1>3. CASE fetchint(p) \/ fetchstr(p)
  <2>1. ram' = ram \/ ram' = Panic(ram, "trap")
    BY <1>3 DEF fetchint, fetchstr, Traps
  <2> QED BY <2>1, PutsHold
<1>4. CASE Wait(p)
  <2>1. ram' = ram \/ \E q \in Procs : ram' = freevm(kfree(ram, proc[q].kstack), proc[q].pgdir)
    BY <1>4 DEF Wait, Children
  <2>2. \A q \in Procs : Holds(kfree(ram, proc[q].kstack), S)
    BY PagesHold
  <2> QED BY <2>1, <2>2, FreeHolds
<1> QED
  BY <1>1, <1>2, <1>3, <1>4
LEMMA RunsStart ==
  ASSUME Booting, Starting, Accounted, Runs
  PROVE  Starting'
<1>1. machine' = machine /\ cpu' = cpu /\ boot' = boot /\ Next /\ boot.runs # Nobody /\ Holds(ram, ram.stacks) /\ test \in DOMAIN Programs
  BY StartingHolds DEF Runs, bootvars, Booting, FirstAt
<1> DEFINE S == ram.stacks
<1>2. Holds(ram', S)
  <2>1. CASE Halted /\ UNCHANGED vars
    BY <1>1, <2>1 DEF vars
  <2>2. ASSUME NEW p \in Procs, Sbrk(p) \/ SbrkPage(p) PROVE Holds(ram', S)
    <3>1. ram.panic = ""
      BY <2>2 DEF Sbrk, SbrkPage, Calls, Does, Idle
    <3>2. Good(test, proc) /\ Accounts(ram, View(ram, proc))
      BY <1>1, <3>1 DEF Accounted, Kept
    <3> QED BY <1>1, <2>2, <3>2, SbrksHold
  <2> HIDE DEF S
  <2>3. Holds(ram, S)
    BY <1>1 DEF S
  <2> QED BY <1>1, <2>1, <2>2, <2>3, ForksHold, ExecsHold, RestHolds DEF Next
<1> QED
  BY <1>1, <1>2, RestsBy
LEMMA BoundSame == ASSUME NEW m \in Nat, NEW n \in Nat, 1..m = 1..n PROVE m = n
<1>1. CASE m < n
  <2>1. n \in 1..n /\ n \notin 1..m
    BY <1>1
  <2> QED BY <2>1
<1>2. CASE n < m
  <2>1. m \in 1..m /\ m \notin 1..n
    BY <1>2
  <2> QED BY <2>1
<1> QED
  BY <1>1, <1>2
LEMMA OneMore == ASSUME NEW n \in Nat, NEW m \in Nat, n < m PROVE n + 1 <= m
  OBVIOUS
LEMMA KernelLong ==
  ASSUME NEW M, NEW V, Accounts(M, V)
  PROVE  Broken(setupkvm(M)[1]) \/ (setupkvm(M)[1] \in Ram /\ Len(setupkvm(M)[1].mem) = Len(M.mem))
<1> DEFINE r == setupkvm(M)
           o == Use(Kpgdir)
<1>1. PICK own : Owned(M, own, Dirs(V))
  BY DEF Accounts
<1>2. o \in Owner /\ Held(o)
  BY UseIs, SlotIs
<1>3. Sets(M, own, Dirs(V), o, r)
  BY <1>1, <1>2, SetUp
<1> HIDE DEF r, o
<1>4. CASE ~Broken(r[1])
  <2>1. PICK new, D : Owned(r[1], new, D) /\ All(r[1]) = All(M)
    BY <1>3, <1>4 DEF Sets, Same
  <2>2. r[1] \in Ram /\ M \in Ram
    BY <1>1, <2>1 DEF Owned
  <2>3. Len(r[1].mem) \in Nat /\ Len(M.mem) \in Nat
    BY <2>2, LenProperties DEF Ram
  <2> QED BY <2>1, <2>2, <2>3, BoundSame DEF All, r
<1> QED
  BY <1>4 DEF r
LEMMA LowIs ==
  ASSUME NEW k, NEW M, LowPages(k, M), NEW l, NEW N, N.panic = "" => M.panic = "", l \in Small => k \in Small,
         l \in Small => N.panic # "" \/ Len(N.mem) = Len(M.mem)
  PROVE  LowPages(l, N)
  BY DEF LowPages
LEMMA SmallIs ==
  /\ {"bootmain", "kinit1", "kvmalloc", "mpinit", "lapicinit", "picinit", "ioapicinit", "consoleinit", "uartinit", "tvinit", "ideinit", "timerinit",
      "startothers", "init", "startup", "again", "started"} \subseteq Small
  /\ {"kinit2", "allocproc", "setupkvm", "inituvm", "userinit", "idtinit", "xchg", "scheduler"} \cap Small = {}
  /\ Small \cap Ready = {}
  BY DEF Small, Early, Before, Devices, Calls3, Ready
LEMMA MainLow ==
  ASSUME Booting, Accounted, ram.panic = "", LowPages(cpu[B].at, ram), BootMain
  PROVE  LowPages(cpu'[B].at, ram')
<1> DEFINE k == cpu[B].at
           l == cpu'[B].at
<1>1. /\ machine \in Machines /\ B \in machine.cpus /\ Types /\ Accounts(ram, View(ram, proc)) /\ LowPages(k, ram)
  BY FirstIsB DEF Accounted, Kept, Types
<1>2. ASSUME NEW m, cpu' = Goto(B, m) PROVE l = m
  BY <1>1, <1>2, GotoIs
<1>r. LOW \in Nat /\ Len(ram.mem) \in Nat
  <2>1. ram \in Ram
    BY <1>1, AccountsType
  <2> QED BY <1>1, <2>1, BIs, LenProperties DEF Ram
<1>3. CASE bootmain \/ mpinit \/ picinit \/ ioapicinit \/ consoleinit \/ uartinit \/ tvinit \/ ideinit \/ timerinit \/ lapicstartap \/ waitstarted
  <2>1. ram' = ram
    BY <1>3 DEF bootmain, mpinit, picinit, ioapicinit, consoleinit, uartinit, tvinit, ideinit, timerinit, lapicstartap, waitstarted, vars
  <2>2. k \in Small
    BY <1>3, SmallIs DEF bootmain, mpinit, picinit, ioapicinit, consoleinit, uartinit, tvinit, ideinit, timerinit, lapicstartap, waitstarted, At
  <2> HIDE DEF k, l
  <2> QED BY <1>1, <2>1, <2>2, LowIs
<1>4. CASE kinit1
  <2>1. k \in Small
    BY <1>4, SmallIs DEF kinit1, At
  <2>2. CASE Len(ram.mem) < LOW /\ ram' = Give(ram, Len(ram.mem) + 1) /\ cpu' = cpu
    <3>1. Len(ram'.mem) = Len(ram.mem) + 1
      BY <1>1, <2>2, PageGiven
    <3>2. Len(ram'.mem) <= LOW
      BY <1>r, <2>2, <3>1, OneMore
    <3> QED BY <3>2 DEF LowPages
  <2>3. CASE ram' = ram
    <3> HIDE DEF k, l
    <3> QED BY <1>1, <2>1, <2>3, LowIs
  <2> QED BY <1>4, <2>2, <2>3 DEF kinit1
<1>5. CASE kvmalloc
  <2>1. k \in Small
    BY <1>5, SmallIs DEF kvmalloc, At
  <2> DEFINE N == setupkvm(ram)[1]
             d == setupkvm(ram)[2]
  <2>2. ram' = [N EXCEPT !.kpgdir = d]
    BY <1>5 DEF kvmalloc
  <2>3. Broken(N) \/ (N \in Ram /\ Len(N.mem) = Len(ram.mem))
    BY <1>1, KernelLong
  <2> HIDE DEF N, d
  <2>4. ram'.panic # "" \/ Len(ram'.mem) = Len(ram.mem)
    <3>1. CASE Broken(N)
      BY <2>2, <3>1 DEF Broken
    <3>2. CASE ~Broken(N)
      BY <2>2, <2>3, <3>2 DEF Ram
    <3> QED BY <3>1, <3>2
  <2> HIDE DEF k, l
  <2> QED BY <1>1, <2>1, <2>4, LowIs
<1>6. CASE startothers
  <2>1. k \in Small
    BY <1>6, SmallIs DEF startothers, At
  <2>2. ram' = ram \/ ram' = [kalloc(ram)[1] EXCEPT !.stacks = @ \cup {kalloc(ram)[2]}]
    BY <1>6 DEF startothers
  <2>3. Len(ram'.mem) = Len(ram.mem)
    BY <1>1, <2>2, CpuStackGot
  <2> HIDE DEF k, l
  <2> QED BY <1>1, <2>1, <2>3, LowIs
<1>7. CASE kinit2 \/ allocproc \/ UserKernel \/ inituvm \/ userinit
  <2>1. cpu' = cpu \/ cpu' = Goto(B, "allocproc") \/ cpu' = Goto(B, "setupkvm") \/ cpu' = Goto(B, "inituvm")
        \/ cpu' = Goto(B, "userinit") \/ cpu' = Goto(B, "idtinit")
    BY <1>7 DEF kinit2, allocproc, UserKernel, inituvm, userinit
  <2>2. cpu[B].at \notin Small
    BY <1>7, SmallIs DEF kinit2, allocproc, UserKernel, inituvm, userinit, At
  <2>3. l \notin Small
    BY <1>2, <2>1, <2>2, SmallIs
  <2> QED BY <2>3 DEF LowPages
<1> QED
  BY <1>3, <1>4, <1>5, <1>6, <1>7 DEF BootMain
LEMMA StepLow ==
  ASSUME Booting, Accounted, LowPages(cpu[B].at, ram), BootNext
  PROVE  LowPages(cpu[B].at, ram)'
<1>b. B' = B
  <2>1. machine' = machine
    BY DEF BootNext, BootMain, Boots, Spins, Runs, bootvars, bootmain, mpinit, picinit, ioapicinit, consoleinit, uartinit, tvinit, ideinit, timerinit,
           lapicstartap, waitstarted, kinit1, kvmalloc, startothers, kinit2, allocproc, UserKernel, inituvm, userinit,
           lapicinit, entryother, mpenter, idtinit, xchg, scheduler
  <2> QED BY <2>1 DEF B
<1> DEFINE k == cpu[B].at
           l == cpu'[B].at
<1>1. LowPages(l, ram')
  <2>0. B \in machine.cpus /\ Types /\ FirstAt(k)
    BY FirstIsB DEF Booting
  <2>1. CASE ram.panic # ""
    BY <2>1, GaveUp DEF LowPages
  <2>2. CASE ram.panic = "" /\ BootMain
    BY <2>2, MainLow
  <2>3. CASE Spins
    BY <2>3 DEF Spins, vars, bootvars
  <2>4. CASE Runs
    <3>1. k \in Ready /\ l = k
      BY <2>0, <2>4 DEF Runs, bootvars, FirstAt
    <3>2. l \notin Small
      BY <3>1, SmallIs
    <3> QED BY <3>2 DEF LowPages
  <2>5. ASSUME NEW c \in machine.cpus, Boots(c) PROVE LowPages(l, ram')
    <3>1. ram' = ram
      BY <2>5 DEF Boots, lapicinit, entryother, mpenter, idtinit, xchg, scheduler, vars
    <3>2. l \in Small => k \in Small
      <4>0. \E r : cpu' = [cpu EXCEPT ![c] = r]
        <5>1. cpu' = cpu => cpu' = [cpu EXCEPT ![c] = cpu[c]]
          BY <2>0 DEF Types
        <5> QED BY <2>0, <2>5, <5>1 DEF Boots, lapicinit, entryother, mpenter, idtinit, xchg, scheduler, Goto, Types
      <4>1. CASE c # B
        <5>1. l = k
          BY <2>0, <4>0, <4>1 DEF Types
        <5> QED BY <5>1
      <4>2. CASE c = B /\ lapicinit(c)
        BY <4>2, SmallIs DEF lapicinit, At
      <4>3. CASE c = B /\ idtinit(c)
        <5> DEFINE r == [cpu[B] EXCEPT !.at = "xchg", !.idt = boot.idt]
        <5>1. cpu' = [cpu EXCEPT ![B] = r] /\ r.at = "xchg"
          BY <2>0, <4>3 DEF idtinit, Types, Regs
        <5> HIDE DEF r
        <5>2. l = "xchg"
          BY <2>0, <5>1 DEF Types
        <5> QED BY <5>2, SmallIs
      <4>4. CASE c = B /\ xchg(c)
        <5>1. l = "scheduler"
          BY <2>0, <4>4, GotoIs DEF xchg
        <5> QED BY <5>1, SmallIs
      <4>5. CASE c = B /\ (entryother(c) \/ mpenter(c))
        BY <2>0, <4>5 DEF FirstAt, Main, Making, Ready, Before, Devices, Late, entryother, mpenter, At
      <4>6. CASE c = B /\ scheduler(c)
        <5> DEFINE r == [cpu[B] EXCEPT !.sti = TRUE]
        <5>1. cpu' = cpu \/ (cpu' = [cpu EXCEPT ![B] = r] /\ r.at = k)
          BY <2>0, <4>6 DEF scheduler, Types, Regs
        <5> HIDE DEF r
        <5>2. l = k
          BY <2>0, <5>1 DEF Types
        <5> QED BY <5>2
      <4> QED BY <2>5, <4>1, <4>2, <4>3, <4>4, <4>5, <4>6 DEF Boots
    <3> HIDE DEF k, l
    <3>3. LowPages(k, ram)
      BY DEF k
    <3> QED BY <3>1, <3>2, <3>3, LowIs
  <2> QED BY <2>1, <2>2, <2>3, <2>4, <2>5 DEF BootNext
<1> QED
  BY <1>b, <1>1 DEF LowPages
LEMMA InitStarts == ASSUME BootInit PROVE Starting /\ LowPages(cpu[B].at, ram)
<1>1. Booting /\ B = machine.bsp /\ B \in machine.cpus /\ machine \in Machines
  BY InitBoots, FirstIsB DEF B, Booting, Types
<1>2. /\ cpu[B].at = "bootmain" /\ cpu[B].stack = NULL
      /\ \A c \in Rest : cpu[c] = Off
  BY <1>1 DEF BootInit, Off, Rest
<1>3. boot.next = 0 /\ boot.stack = NULL /\ boot.started = {} /\ "stacks" \in DOMAIN ram /\ ram.mem = <<>>
  BY DEF BootInit
<1>4. Off.at = "off" /\ Off.stack = NULL
  BY DEF Off
<1>5. StacksApart
  BY <1>2, <1>3, <1>4 DEF StacksApart
<1>l. "bootmain" \in Early /\ "bootmain" \notin {"init"} \cup Calls3 /\ "bootmain" \in Before
  BY DEF Early, Before, Calls3
<1>6. Counted("bootmain", boot)
  BY <1>3, <1>l DEF Counted
<1>7. \A c \in Rest : Comes("bootmain", c, cpu[c], boot)
  BY <1>2, <1>3, <1>4, <1>l DEF Comes, Ready
<1>8. LowPages("bootmain", ram)
  <2>1. 0 <= LOW
    BY <1>1, BIs
  <2> QED BY <1>3, <2>1 DEF LowPages
<1> QED
  BY <1>2, <1>5, <1>6, <1>7, <1>8 DEF Starting
LEMMA StepStarts == ASSUME Booting, Accounted, Starting, LowPages(cpu[B].at, ram), BootNext PROVE Starting'
<1>1. CASE ram.panic = "" /\ BootMain
  <2>1. Accounts(ram, View(ram, proc))
    BY <1>1 DEF Accounted, Kept
  <2> QED BY <1>1, <2>1, DevicesStart, KinitsStart, KvmStart, MpStart, OthersStart, SignalsStart, WaitsStart, MakesStart DEF BootMain
<1>2. ASSUME NEW c \in machine.cpus, Boots(c) PROVE Starting'
  <2>1. CASE scheduler(c)
    BY <2>1, SchedulersStart
  <2>2. CASE c = B /\ ~scheduler(c)
    BY <1>2, <2>2, OwnTurnStarts DEF Boots
  <2>3. CASE c # B /\ ~scheduler(c)
    BY <1>2, <2>3, TurnStarts DEF Boots, Rest
  <2> QED BY <2>1, <2>2, <2>3
<1>3. CASE Spins
  BY <1>3, StartingHolds, RestsBy DEF Spins, vars, bootvars
<1>4. CASE Runs
  BY <1>4, RunsStart
<1> QED
  BY <1>1, <1>2, <1>3, <1>4 DEF BootNext
LEMMA StartsWhole == ASSUME Booting, Starting PROVE StartedWhole
<1>1. ASSUME NEW c \in machine.cpus, c # B, cpu[c].stack # NULL
      PROVE  /\ cpu[c].stack <= LOW
             /\ \A d \in machine.cpus \ {c} : cpu[d].stack # cpu[c].stack
             /\ cpu[c].stack \in ram.stacks
  <2>1. c \in Rest
    BY <1>1 DEF Rest
  <2>2. \A d \in Rest : cpu[d].stack = cpu[c].stack => d = c
    BY <1>1, <2>1 DEF Starting, StacksApart
  <2>3. cpu[B].stack = NULL
    BY DEF Starting, StacksApart
  <2>4. \A d \in machine.cpus \ {c} : cpu[d].stack # cpu[c].stack
    BY <1>1, <2>2, <2>3 DEF Rest
  <2> QED BY <1>1, <2>1, <2>4 DEF Starting, StacksApart
<1>2. boot.runs # Nobody => /\ boot.made = {"context", "text", "tf", "cwd"} /\ boot.use_lock
                            /\ cpu[boot.runs].idt /\ cpu[boot.runs].dir = "kpgdir"
  <2> SUFFICES ASSUME boot.runs # Nobody
               PROVE  /\ boot.made = {"context", "text", "tf", "cwd"} /\ boot.use_lock /\ cpu[boot.runs].idt /\ cpu[boot.runs].dir = "kpgdir"
    OBVIOUS
  <2>1. cpu[B].at \in Ready
    BY DEF Booting, FirstAt
  <2>2. cpu[B].at \notin Before \cup Devices \cup Late
    BY <2>1 DEF Ready, Before, Devices, Late
  <2>3. boot.made = Whole /\ boot.use_lock = TRUE
    BY <2>1, <2>2 DEF Booting, FirstHas
  <2>4. cpu[boot.runs].idt = TRUE /\ cpu[boot.runs].dir = "kpgdir"
    BY DEF Booting, RunsWhole
  <2> QED BY <2>3, <2>4 DEF Whole
<1> QED
  BY <1>1, <1>2 DEF StartedWhole
\* Processors that main.c starts one after the other, each told by the same words of low memory which stack
\* to use, get stacks of their own, pages that entrypgdir maps and that kalloc gives to nobody else; and
\* the first process runs only when userinit is through, with the allocator's lock in use, on a processor
\* that has its interrupt vectors and the kernel's page table.
THEOREM EachStartsWhole == BootSpec => []StartedWhole
<1>1. Booting /\ Accounted /\ Starting /\ LowPages(cpu[B].at, ram) /\ [BootNext]_<<vars, bootvars>>
      => Booting' /\ Accounted' /\ Starting' /\ LowPages(cpu[B].at, ram)'
  <2>1. CASE UNCHANGED <<vars, bootvars>>
    <3> SUFFICES ASSUME Booting, Accounted, Starting, LowPages(cpu[B].at, ram)
                 PROVE  Booting' /\ Accounted' /\ Starting' /\ LowPages(cpu[B].at, ram)'
      OBVIOUS
    <3>1. /\ ram' = ram /\ machine' = machine /\ cpu' = cpu /\ boot' = boot /\ proc' = proc /\ test' = test
      BY <2>1 DEF vars, bootvars
    <3>2. Booting' /\ Accounted'
      BY <2>1, <3>1, BootRests, RestKeeps
    <3>3. Starting'
      BY <3>1, StartingHolds, RestsBy
    <3>4. LowPages(cpu[B].at, ram)'
      <4>1. B' = B
        BY <3>1 DEF B
      <4> QED BY <3>1, <4>1 DEF LowPages
    <3> QED BY <3>2, <3>3, <3>4
  <2> QED BY <2>1, StepBoots, StepKeeps, StepStarts, StepLow
<1>2. BootInit => Booting /\ Accounted /\ Starting /\ LowPages(cpu[B].at, ram)
  BY InitBoots, InitKeeps, InitStarts
<1>3. Booting /\ Starting => StartedWhole
  BY StartsWhole
<1> QED
  BY <1>1, <1>2, <1>3, PTL DEF BootSpec
=============================================================================
