------------------------------ MODULE LockOrder ------------------------------
(* The order in which the kernel's code takes its spin locks.  A CPU that      *)
(* holds one is not interrupted, so what it does between two moments without   *)
(* a lock is a fixed section: a sequence of acquires and releases.  A section  *)
(* that ends in sleep or exit hands ptable.lock to the scheduler of the same   *)
(* CPU, which releases it.                                                     *)
EXTENDS Naturals, Sequences, FiniteSets

CONSTANTS Cpus,      \* the processors
          BootCpu,   \* the one with cpu->id 0
          NoHolder,  \* a free lock
          Exits      \* whether processes exit

ASSUME LockOrderAssumption == /\ BootCpu \in Cpus
                              /\ NoHolder \notin Cpus
                              /\ Exits \in BOOLEAN

VARIABLES todo,      \* what is left of the section each CPU is in
          holder     \* who has each lock

ordervars == <<todo, holder>>

\* One pipe's lock stands for every pipe's.
Locks == {"ptable", "tickslock", "bcache", "ide", "icache", "log", "pipe",
         "input", "cons", "ftable", "kmem"}

acquire(lk) == [op |-> "acquire", lock |-> lk]
release(lk) == [op |-> "release", lock |-> lk]
-----------------------------------------------------------------------------
(* Sections of the code                                                        *)

\* allocproc, kill, yield, forkret and the scheduler; sys_uptime and fork; filealloc,
\* filedup and fileclose; kalloc and kfree; iget, idup; cprintf and consolewrite.
Alone(lk) == <<acquire(lk), release(lk)>>

\* sleep(chan, lk) takes ptable.lock before it lets lk go ...
Asleep(lk) == <<acquire(lk), acquire("ptable"), release(lk), release("ptable")>>

\* (a sleeper that is woken up and takes lk before it lets ptable.lock go)
ResumedHolding(lk) == <<acquire("ptable"), acquire(lk), release("ptable"), release(lk)>>

\* ... and lets ptable.lock go before it takes lk again.
Resumed(lk) == <<acquire("ptable"), release("ptable"), acquire(lk), release(lk)>>

\* wakeup(chan) by somebody that holds lk.
WakesUnder(lk) == <<acquire(lk), acquire("ptable"), release("ptable"), release(lk)>>

\* wait and wait2 free the child's stack and memory under ptable.lock.
Wait == <<acquire("ptable"), acquire("kmem"), release("kmem"), release("ptable")>>

\* exit reads the clock under ptable.lock.
Exit == <<acquire("ptable"), acquire("tickslock"), release("tickslock"), release("ptable")>>

\* ^P: consoleintr, procdump and its cprintf.
Procdump == <<acquire("input"), acquire("cons"), release("cons"), release("input")>>

\* The clock interrupt of the boot CPU.
Timer == WakesUnder("tickslock")

\* sys_sleep, bget, iderw, ilock, begin_trans, pipewrite and piperead, consoleread.
SleepsWith == {"tickslock", "bcache", "ide", "icache", "log", "pipe", "input"}

\* brelse, ideintr, iunlock and iput, commit_trans, pipes, consoleintr.
WakesWith == {"bcache", "ide", "icache", "log", "pipe", "input"}

Sections(c) ==
  {Alone(lk) : lk \in Locks}
  \cup {Asleep(lk) : lk \in SleepsWith} \cup {Resumed(lk) : lk \in SleepsWith}
  \cup {WakesUnder(lk) : lk \in WakesWith}
  \cup {Wait, Procdump}
  \cup (IF Exits THEN {Exit} ELSE {})
  \cup (IF c = BootCpu THEN {Timer} ELSE {})
-----------------------------------------------------------------------------
OrderInit == /\ todo = [c \in Cpus |-> <<>>]
             /\ holder = [lk \in Locks |-> NoHolder]

Start(c) == /\ todo[c] = <<>>
            /\ \E s \in Sections(c) : todo' = [todo EXCEPT ![c] = s]
            /\ UNCHANGED holder

Wants(c, lk) == todo[c] # <<>> /\ Head(todo[c]) = acquire(lk)

AcquireLock(c, lk) == /\ Wants(c, lk)
                      /\ holder[lk] = NoHolder
                      /\ holder' = [holder EXCEPT ![lk] = c]
                      /\ todo' = [todo EXCEPT ![c] = Tail(@)]

ReleaseLock(c, lk) == /\ todo[c] # <<>> /\ Head(todo[c]) = release(lk)
                      /\ holder' = [holder EXCEPT ![lk] = NoHolder]
                      /\ todo' = [todo EXCEPT ![c] = Tail(@)]

OrderNext == \E c \in Cpus : Start(c) \/ \E lk \in Locks : AcquireLock(c, lk) \/ ReleaseLock(c, lk)

OrderSpec == OrderInit /\ [][OrderNext]_ordervars
-----------------------------------------------------------------------------
(* Properties                                                                  *)

\* "Loops (spins) until the lock is acquired" (spinlock.c:21), with interrupts
\* disabled "to avoid deadlock" (spinlock.c:27): of any CPUs, one alone included, one
\* does not spin for a lock of theirs.
NoDeadlock ==
  \A stuck \in (SUBSET Cpus) \ {{}} :
    \E c \in stuck : \A lk \in Locks : Wants(c, lk) => holder[lk] \notin stuck
=============================================================================
