------------------------------ MODULE Spinlock ------------------------------
(***************************************************************************)
(* The kernel's spin locks (spinlock.c): acquire and release built on      *)
(* xchg, pushcli and popcli, and the record of the holding CPU.  The code  *)
(* a CPU runs is any program that takes locks upwards in one global order  *)
(* and releases what it holds; an interrupt arrives whenever the CPU's     *)
(* interrupt flag is on, and its handler takes locks too.                  *)
(***************************************************************************)
EXTENDS Integers, FiniteSets

CONSTANTS CPU,      \* the processors
          Lock,     \* the locks, numbered by their place in the lock order
          NoCpu,    \* lk->cpu = 0
          MaxHeld   \* how many locks one context may hold at once

ASSUME SpinlockAssumption == /\ Lock \subseteq Int /\ Lock # {}
                             /\ NoCpu \notin CPU
                             /\ MaxHeld \in Nat

VARIABLES locked,   \* lk->locked
          lkcpu,    \* lk->cpu
          ncli,     \* cpu->ncli
          intena,   \* cpu->intena
          iflag,    \* the interrupt flag of each CPU
          ctx,      \* the code each CPU runs: pc, argument, eflags, locks owned
          saved,    \* the context a handler interrupted, or Idle
          on        \* has the scheduler turned interrupts on (sti) on this CPU?

vars == <<locked, lkcpu, ncli, intena, iflag, ctx, saved, on>>

PC == {"run", "cli", "check", "xchg", "setcpu", "clear", "unlock", "popcli", "panic"}
AnyLock == CHOOSE lk \in Lock : TRUE
Context == [pc: PC, arg: Lock, flags: BOOLEAN, owned: SUBSET Lock]
Fresh == [pc |-> "run", arg |-> AnyLock, flags |-> FALSE, owned |-> {}]
Idle == [none |-> TRUE]

Init == /\ locked = [lk \in Lock |-> FALSE]
        /\ lkcpu = [lk \in Lock |-> NoCpu]
        /\ ncli = [c \in CPU |-> 0]
        /\ intena = [c \in CPU |-> FALSE]
        /\ iflag = [c \in CPU |-> FALSE]
        /\ ctx = [c \in CPU |-> Fresh]
        /\ saved = [c \in CPU |-> Idle]
        /\ on = [c \in CPU |-> FALSE]

At(c, pc) == ctx[c].pc = pc
Goto(c, pc) == ctx' = [ctx EXCEPT ![c].pc = pc]

(* holding(lk): the lock is held and this CPU is recorded as its holder.   *)
holding(c, lk) == locked[lk] /\ lkcpu[lk] = c

(* The scheduler's sti(), before it takes any lock.                        *)
Sti(c) == /\ At(c, "run") /\ ctx[c].owned = {} /\ saved[c] = Idle
          /\ iflag' = [iflag EXCEPT ![c] = TRUE]
          /\ on' = [on EXCEPT ![c] = TRUE]
          /\ UNCHANGED <<locked, lkcpu, ncli, intena, ctx, saved>>

(* acquire(lk) starts with pushcli, which first reads eflags ...           *)
Acquire(c, lk) ==
  /\ At(c, "run")
  /\ \A held \in ctx[c].owned : held < lk
  /\ Cardinality(ctx[c].owned) < MaxHeld
  /\ ctx' = [ctx EXCEPT ![c].pc = "cli", ![c].arg = lk, ![c].flags = iflag[c]]
  /\ UNCHANGED <<locked, lkcpu, ncli, intena, iflag, saved, on>>

(* Mistakes the runs must catch: pushcli that forgets cli(), that records  *)
(* the flag at every nesting level.                                        *)
CliForgotten(c) ==
  /\ At(c, "cli")
  /\ ncli' = [ncli EXCEPT ![c] = @ + 1]
  /\ intena' = IF ncli[c] = 0 THEN [intena EXCEPT ![c] = ctx[c].flags] ELSE intena
  /\ Goto(c, "check")
  /\ UNCHANGED <<locked, lkcpu, iflag, saved, on>>

CliRecordsAlways(c) ==
  /\ At(c, "cli")
  /\ iflag' = [iflag EXCEPT ![c] = FALSE]
  /\ ncli' = [ncli EXCEPT ![c] = @ + 1]
  /\ intena' = [intena EXCEPT ![c] = ctx[c].flags]
  /\ Goto(c, "check")
  /\ UNCHANGED <<locked, lkcpu, saved, on>>

(* ... and then turns interrupts off; the outermost one keeps the old flag *)
Cli(c) ==
  /\ At(c, "cli")
  /\ iflag' = [iflag EXCEPT ![c] = FALSE]
  /\ ncli' = [ncli EXCEPT ![c] = @ + 1]
  /\ intena' = IF ncli[c] = 0 THEN [intena EXCEPT ![c] = ctx[c].flags] ELSE intena
  /\ Goto(c, "check")
  /\ UNCHANGED <<locked, lkcpu, saved, on>>

Check(c) ==
  /\ At(c, "check")
  /\ Goto(c, IF holding(c, ctx[c].arg) THEN "panic" ELSE "xchg")
  /\ UNCHANGED <<locked, lkcpu, ncli, intena, iflag, saved, on>>

(* Mistake: a store that does not look at what it replaces.                *)
XchgBlind(c) ==
  /\ At(c, "xchg")
  /\ locked' = [locked EXCEPT ![ctx[c].arg] = TRUE]
  /\ Goto(c, "setcpu")
  /\ UNCHANGED <<lkcpu, ncli, intena, iflag, saved, on>>

(* The atomic exchange; a failed one changes nothing and is tried again.   *)
Xchg(c) ==
  /\ At(c, "xchg")
  /\ ~locked[ctx[c].arg]
  /\ locked' = [locked EXCEPT ![ctx[c].arg] = TRUE]
  /\ Goto(c, "setcpu")
  /\ UNCHANGED <<lkcpu, ncli, intena, iflag, saved, on>>

SetCpu(c) ==
  /\ At(c, "setcpu")
  /\ lkcpu' = [lkcpu EXCEPT ![ctx[c].arg] = c]
  /\ ctx' = [ctx EXCEPT ![c].pc = "run", ![c].owned = @ \cup {ctx[c].arg}]
  /\ UNCHANGED <<locked, ncli, intena, iflag, saved, on>>

Release(c, lk) ==
  /\ At(c, "run")
  /\ lk \in ctx[c].owned
  /\ ctx' = [ctx EXCEPT ![c].pc = IF holding(c, lk) THEN "clear" ELSE "panic",
                        ![c].arg = lk,
                        ![c].owned = @ \ {lk}]
  /\ UNCHANGED <<locked, lkcpu, ncli, intena, iflag, saved, on>>


(* The holder's mark goes first: from the exchange on, the lock may belong *)
(* to another CPU.                                                         *)
Clear(c) ==
  /\ At(c, "clear")
  /\ lkcpu' = [lkcpu EXCEPT ![ctx[c].arg] = NoCpu]
  /\ Goto(c, "unlock")
  /\ UNCHANGED <<locked, ncli, intena, iflag, saved, on>>

Unlock(c) ==
  /\ At(c, "unlock")
  /\ locked' = [locked EXCEPT ![ctx[c].arg] = FALSE]
  /\ Goto(c, "popcli")
  /\ UNCHANGED <<lkcpu, ncli, intena, iflag, saved, on>>


(* popcli: the last one turns interrupts back on if the first found them on*)
Popcli(c) ==
  /\ At(c, "popcli")
  /\ ncli' = [ncli EXCEPT ![c] = @ - 1]
  /\ Goto(c, IF iflag[c] \/ ncli[c] < 1 THEN "panic" ELSE "run")
  /\ iflag' = [iflag EXCEPT ![c] = @ \/ (ncli[c] = 1 /\ intena[c])]
  /\ UNCHANGED <<locked, lkcpu, intena, saved, on>>

(* A device interrupt: an interrupt gate, so the handler runs with the     *)
(* flag off, between any two instructions that run with the flag on.       *)
Interrupt(c) ==
  /\ iflag[c]
  /\ ctx[c].pc # "panic"
  /\ saved' = [saved EXCEPT ![c] = ctx[c]]
  /\ ctx' = [ctx EXCEPT ![c] = Fresh]
  /\ iflag' = [iflag EXCEPT ![c] = FALSE]
  /\ UNCHANGED <<locked, lkcpu, ncli, intena, on>>

(* iret restores the interrupted code and its flag.                        *)
Iret(c) ==
  /\ saved[c] # Idle /\ At(c, "run") /\ ctx[c].owned = {}
  /\ ctx' = [ctx EXCEPT ![c] = saved[c]]
  /\ saved' = [saved EXCEPT ![c] = Idle]
  /\ iflag' = [iflag EXCEPT ![c] = TRUE]
  /\ UNCHANGED <<locked, lkcpu, ncli, intena, on>>

Next == \E c \in CPU :
          \/ Sti(c) \/ Cli(c) \/ Check(c) \/ Xchg(c) \/ SetCpu(c)
          \/ Clear(c) \/ Unlock(c) \/ Popcli(c) \/ Interrupt(c) \/ Iret(c)
          \/ \E lk \in Lock : Acquire(c, lk) \/ Release(c, lk)

Spec == Init /\ [][Next]_vars

-----------------------------------------------------------------------------
(* Every variable keeps its type; a saved context is one an interrupt may  *)
(* stop: it owns no lock and has not yet turned interrupts off.            *)
TypeOK ==
  /\ locked \in [Lock -> BOOLEAN]
  /\ lkcpu \in [Lock -> CPU \cup {NoCpu}]
  /\ ncli \in [CPU -> Nat]
  /\ intena \in [CPU -> BOOLEAN]
  /\ iflag \in [CPU -> BOOLEAN]
  /\ on \in [CPU -> BOOLEAN]
  /\ ctx \in [CPU -> Context]
  /\ saved \in [CPU -> Context \cup {Idle}]

(* acquire's promise: between acquire and release the lock is this CPU's   *)
(* alone, whatever the interrupt handlers of either CPU do.                *)
MutualExclusion ==
  \A c, d \in CPU : \A lk \in ctx[c].owned \cap ctx[d].owned : c = d

(* "disable interrupts to avoid deadlock" (spinlock.c:27): a CPU that owns *)
(* a lock, or is about to, cannot be interrupted by a handler that would   *)
(* wait for it.                                                            *)
NoInterruptWhileHolding ==
  \A c \in CPU : iflag[c] => ctx[c].owned = {} /\ ctx[c].pc \in {"run", "cli"}

(* None of the four panics of spinlock.c ("acquire", "release", "popcli -  *)
(* interruptible", "popcli") is reached by code that respects lock order:  *)
(* in particular holding() never takes another CPU's lock for its own.     *)
NoPanic == \A c \in CPU : ctx[c].pc # "panic"

(* "if interrupts are off, then pushcli, popcli leaves them off", and if   *)
(* they are on they come back on (spinlock.c:92): outside every critical   *)
(* section the flag is on exactly in ordinary code after the first sti.    *)
FlagRestored ==
  \A c \in CPU : ctx[c].pc = "run" /\ ctx[c].owned = {} =>
                  iflag[c] = (on[c] /\ saved[c] = Idle)

(* What pushcli and popcli are for: interrupts are off while a lock is     *)
(* held, come back as they were, and no nesting makes the code panic.      *)
InterruptsKept == NoInterruptWhileHolding /\ FlagRestored /\ NoPanic

-----------------------------------------------------------------------------
(* The CPUs run: a step inside acquire, release or popcli is taken, a      *)
(* handler returns, and every critical section ends in its release.  The   *)
(* exchange is only weakly fair: nothing orders the CPUs that spin.        *)
Fairness ==
  \A c \in CPU :
    /\ WF_vars(Cli(c) \/ Check(c) \/ Xchg(c) \/ SetCpu(c) \/ Clear(c) \/ Unlock(c) \/ Popcli(c))
    /\ \A lk \in Lock : SF_vars(Release(c, lk))

FairSpec == Spec /\ Fairness

(* A CPU that spins on a lock for ever is only ever losing races: other    *)
(* CPUs keep taking that very lock.  With no interrupts inside a critical  *)
(* section and one order of acquisition, nobody waits for ever on a lock   *)
(* that is never released (acquire's loop, spinlock.c:34).                 *)
SpinnersOnlyLoseRaces ==
  \A c \in CPU, lk \in Lock :
    <>[](At(c, "xchg") /\ ctx[c].arg = lk)
      => []<>(\E d \in CPU : At(d, "setcpu") /\ ctx[d].arg = lk)

=============================================================================
