----------------------------- MODULE LockProofs -----------------------------
(***************************************************************************)
(* What is proved of locks.                                                *)
(*                                                                         *)
(* Spinlock's safety, for every number of CPUs, every lock order and every *)
(* depth of nesting.  The locks a CPU has are those it owns and the one it *)
(* is between the exchange and the exchange back on; ncli counts them.     *)
(*                                                                         *)
(* LockOrder's, which is that there is no deadlock, for every number of    *)
(* CPUs, as long as no process exits.                                      *)
(***************************************************************************)
EXTENDS Spinlock, LockOrder, FiniteSetTheorems, TLAPS

Inside(c) == ctx[c].pc \in {"check", "xchg", "setcpu", "clear", "unlock", "popcli"}
Busy(c) == ctx[c].pc \in {"cli", "check", "xchg", "setcpu", "clear", "unlock"}
Holds(c, lk) == \/ lk \in ctx[c].owned
                \/ ctx[c].arg = lk /\ ctx[c].pc \in {"setcpu", "clear", "unlock"}
Marked(c, lk) == \/ lk \in ctx[c].owned
                 \/ ctx[c].arg = lk /\ ctx[c].pc = "clear"
Ordinary(c) == on[c] /\ saved[c] = Idle

(* What an interrupt stops owns nothing and has interrupts on.             *)
SavedInv == \A c \in CPU : saved[c] # Idle =>
              /\ on[c]
              /\ saved[c].owned = {}
              /\ saved[c].pc \in {"run", "cli"}
              /\ saved[c].pc = "cli" => saved[c].flags

(* A lock word is set for each holder, of which there is at most one.      *)
HolderInv == \A c \in CPU, lk \in Lock :
               Holds(c, lk) => locked[lk] /\ \A d \in CPU : Holds(d, lk) => c = d

(* lk->cpu names the owner, from SetCpu to Clear.                          *)
MarkInv == \A c \in CPU, lk \in Lock : lkcpu[lk] = c <=> Marked(c, lk)

(* Nobody takes or gives back a lock it still owns.                        *)
ArgInv == \A c \in CPU : Busy(c) => ctx[c].arg \notin ctx[c].owned

CountInv == \A c \in CPU :
  /\ IsFiniteSet(ctx[c].owned)
  /\ ncli[c] = Cardinality(ctx[c].owned) + (IF Inside(c) THEN 1 ELSE 0)

FlagInv == \A c \in CPU :
  /\ ncli[c] = 0 => (iflag[c] <=> Ordinary(c))
  /\ ncli[c] > 0 => ~iflag[c] /\ (intena[c] <=> Ordinary(c))
  /\ ctx[c].pc = "cli" => (ctx[c].flags <=> iflag[c])

IInv == /\ TypeOK /\ NoPanic /\ SavedInv /\ HolderInv
        /\ MarkInv /\ ArgInv /\ CountInv /\ FlagInv

-----------------------------------------------------------------------------
USE SpinlockAssumption

LEMMA ContextFacts ==
  /\ Fresh \in Context
  /\ Idle \notin Context
<1>1. AnyLock \in Lock
  BY DEF AnyLock
<1>2. Fresh \in Context
  BY <1>1 DEF Fresh, Context, PC
<1>3. ASSUME Idle \in Context PROVE FALSE
  BY <1>3 DEF Idle, Context
<1> QED
  BY <1>2, <1>3

(* ncli is 0 exactly when the CPU owns no lock and is inside neither       *)
(* acquire nor release.                                                    *)
LEMMA Counts ==
  ASSUME IInv, NEW c \in CPU
  PROVE  /\ ncli[c] \in Nat
         /\ IsFiniteSet(ctx[c].owned)
         /\ Cardinality(ctx[c].owned) \in Nat
         /\ ncli[c] = 0 <=> ctx[c].owned = {} /\ ~Inside(c)
         /\ Inside(c) => ncli[c] = Cardinality(ctx[c].owned) + 1
         /\ ~Inside(c) => ncli[c] = Cardinality(ctx[c].owned)
<1>1. IsFiniteSet(ctx[c].owned) /\ ncli[c] = Cardinality(ctx[c].owned) + (IF Inside(c) THEN 1 ELSE 0)
  BY DEF IInv, CountInv
<1>2. Cardinality(ctx[c].owned) \in Nat /\ (Cardinality(ctx[c].owned) = 0 <=> ctx[c].owned = {})
  BY <1>1, FS_EmptySet, FS_CardinalityType
<1> QED
  BY <1>1, <1>2

(* The initial state: no lock taken, nobody inside acquire or release.     *)
LEMMA InitIInv == Init => IInv
<1> SUFFICES ASSUME Init PROVE IInv
  OBVIOUS
<1>1. TypeOK
  BY ContextFacts DEF Init, TypeOK
<1>2. NoPanic /\ SavedInv /\ HolderInv /\ ArgInv /\ FlagInv
  BY DEF Init, NoPanic, SavedInv, HolderInv, Holds, ArgInv, Busy, FlagInv, Ordinary, Fresh
<1>3. MarkInv
  BY DEF Init, MarkInv, Marked, Fresh
<1>4. CountInv
  <2>1. IsFiniteSet({}) /\ Cardinality({}) = 0
    BY FS_EmptySet
  <2>2. \A c \in CPU : ctx[c].owned = {} /\ ncli[c] = 0 /\ ~Inside(c)
    BY DEF Init, Inside, Fresh
  <2> QED
    BY <2>1, <2>2 DEF CountInv
<1> QED
  BY <1>1, <1>2, <1>3, <1>4 DEF IInv

LEMMA StiStep ==
  ASSUME NEW c \in CPU, IInv, Sti(c)
  PROVE  IInv'
<1>1. TypeOK'
  BY Counts, ContextFacts DEF IInv, TypeOK, Context, Inside, PC, Sti, At, Goto
<1>2. NoPanic'
  BY Counts DEF IInv, TypeOK, Context, NoPanic, ArgInv, Busy, MarkInv, Marked, HolderInv, Holds, CountInv, FlagInv, Inside, Sti, At, Goto
<1>3. SavedInv'
  BY ContextFacts DEF IInv, TypeOK, Context, SavedInv, FlagInv, Ordinary, Sti, At, Goto
<1>4. HolderInv'
  BY DEF IInv, TypeOK, Context, SavedInv, HolderInv, Holds, ArgInv, Busy, Sti, At, Goto
<1>5. MarkInv'
  BY DEF IInv, TypeOK, Context, SavedInv, MarkInv, Marked, ArgInv, Busy, Sti, At, Goto
<1>6. ArgInv'
  BY DEF IInv, TypeOK, Context, SavedInv, ArgInv, Busy, Sti, At, Goto
<1>7. CountInv'
  BY Counts, FS_EmptySet, FS_AddElement, FS_RemoveElement DEF IInv, TypeOK, Context, CountInv, Inside, SavedInv, Sti, At, Goto
<1>8. FlagInv'
  BY Counts, ContextFacts DEF IInv, TypeOK, Context, FlagInv, Ordinary, SavedInv, CountInv, Inside, Sti, At, Goto
<1> QED
  BY <1>1, <1>2, <1>3, <1>4, <1>5, <1>6, <1>7, <1>8 DEF IInv

LEMMA CliStep ==
  ASSUME NEW c \in CPU, IInv, Cli(c)
  PROVE  IInv'
<1>1. TypeOK'
  BY SMTT(30), Counts, ContextFacts DEF IInv, TypeOK, Context, Inside, PC, Cli, At, Goto
<1>2. NoPanic'
  BY Counts DEF IInv, TypeOK, Context, NoPanic, ArgInv, Busy, MarkInv, Marked, HolderInv, Holds, CountInv, FlagInv, Inside, Cli, At, Goto
<1>3. SavedInv'
  BY ContextFacts DEF IInv, TypeOK, Context, SavedInv, FlagInv, Ordinary, Cli, At, Goto
<1>4. HolderInv'
  BY DEF IInv, TypeOK, Context, SavedInv, HolderInv, Holds, ArgInv, Busy, Cli, At, Goto
<1>5. MarkInv'
  BY DEF IInv, TypeOK, Context, SavedInv, MarkInv, Marked, ArgInv, Busy, Cli, At, Goto
<1>6. ArgInv'
  BY DEF IInv, TypeOK, Context, SavedInv, ArgInv, Busy, Cli, At, Goto
<1>7. CountInv'
  BY Counts, FS_EmptySet, FS_AddElement, FS_RemoveElement DEF IInv, TypeOK, Context, CountInv, Inside, SavedInv, Cli, At, Goto
<1>8. FlagInv'
  BY Counts, ContextFacts DEF IInv, TypeOK, Context, FlagInv, Ordinary, SavedInv, CountInv, Inside, Cli, At, Goto
<1> QED
  BY <1>1, <1>2, <1>3, <1>4, <1>5, <1>6, <1>7, <1>8 DEF IInv

LEMMA CheckStep ==
  ASSUME NEW c \in CPU, IInv, Check(c)
  PROVE  IInv'
<1>1. TypeOK'
  BY Counts, ContextFacts DEF IInv, TypeOK, Context, Inside, PC, Check, At, Goto, holding
<1>2. NoPanic'
  BY Counts DEF IInv, TypeOK, Context, NoPanic, ArgInv, Busy, MarkInv, Marked, HolderInv, Holds, CountInv, FlagInv, Inside, Check, At, Goto, holding
<1>3. SavedInv'
  BY ContextFacts DEF IInv, TypeOK, Context, SavedInv, FlagInv, Ordinary, Check, At, Goto, holding
<1>4. HolderInv'
  BY DEF IInv, TypeOK, Context, SavedInv, HolderInv, Holds, ArgInv, Busy, Check, At, Goto, holding
<1>5. MarkInv'
  BY DEF IInv, TypeOK, Context, SavedInv, MarkInv, Marked, ArgInv, Busy, Check, At, Goto, holding
<1>6. ArgInv'
  BY DEF IInv, TypeOK, Context, SavedInv, ArgInv, Busy, Check, At, Goto, holding
<1>7. CountInv'
  <2>1. Inside(c) /\ Inside(c)' /\ ctx'[c].owned = ctx[c].owned
    BY <1>2 DEF IInv, TypeOK, Context, Check, At, Goto, Inside, NoPanic
  <2>2. \A d \in CPU \ {c} : ctx'[d] = ctx[d]
    BY DEF IInv, TypeOK, Check, Goto
  <2> QED
    BY <2>1, <2>2 DEF IInv, CountInv, Inside, Check
<1>8. FlagInv'
  BY Counts, ContextFacts DEF IInv, TypeOK, Context, FlagInv, Ordinary, SavedInv, CountInv, Inside, Check, At, Goto, holding
<1> QED
  BY <1>1, <1>2, <1>3, <1>4, <1>5, <1>6, <1>7, <1>8 DEF IInv

LEMMA XchgStep ==
  ASSUME NEW c \in CPU, IInv, Xchg(c)
  PROVE  IInv'
<1>1. TypeOK'
  BY Counts, ContextFacts DEF IInv, TypeOK, Context, Inside, PC, Xchg, At, Goto
<1>2. NoPanic'
  BY Counts DEF IInv, TypeOK, Context, NoPanic, ArgInv, Busy, MarkInv, Marked, HolderInv, Holds, CountInv, FlagInv, Inside, Xchg, At, Goto
<1>3. SavedInv'
  BY ContextFacts DEF IInv, TypeOK, Context, SavedInv, FlagInv, Ordinary, Xchg, At, Goto
<1>4. HolderInv'
  BY DEF IInv, TypeOK, Context, SavedInv, HolderInv, Holds, ArgInv, Busy, Xchg, At, Goto
<1>5. MarkInv'
  BY DEF IInv, TypeOK, Context, SavedInv, MarkInv, Marked, ArgInv, Busy, Xchg, At, Goto
<1>6. ArgInv'
  BY DEF IInv, TypeOK, Context, SavedInv, ArgInv, Busy, Xchg, At, Goto
<1>7. CountInv'
  BY Counts, FS_EmptySet, FS_AddElement, FS_RemoveElement DEF IInv, TypeOK, Context, CountInv, Inside, SavedInv, Xchg, At, Goto
<1>8. FlagInv'
  BY Counts, ContextFacts DEF IInv, TypeOK, Context, FlagInv, Ordinary, SavedInv, CountInv, Inside, Xchg, At, Goto
<1> QED
  BY <1>1, <1>2, <1>3, <1>4, <1>5, <1>6, <1>7, <1>8 DEF IInv

LEMMA SetCpuStep ==
  ASSUME NEW c \in CPU, IInv, SetCpu(c)
  PROVE  IInv'
<1>1. TypeOK'
  <2>1. ctx[c].arg \in Lock /\ ctx[c].owned \in SUBSET Lock
    BY DEF IInv, TypeOK, Context
  <2>2. lkcpu' \in [Lock -> CPU \cup {NoCpu}]
    BY <2>1 DEF IInv, TypeOK, SetCpu
  <2>3. ctx' \in [CPU -> Context]
    <3>1. ctx[c].owned \cup {ctx[c].arg} \in SUBSET Lock
      BY <2>1
    <3>2. ASSUME NEW o \in SUBSET Lock, ctx' = [ctx EXCEPT ![c].pc = "run", ![c].owned = o]
          PROVE  ctx' \in [CPU -> Context]
      <4> DEFINE r == [ctx[c] EXCEPT !.pc = "run", !.owned = o]
      <4>1. ctx[c] \in Context
        BY DEF IInv, TypeOK
      <4>2. r \in Context
        BY <4>1 DEF Context, PC
      <4>3. ctx' = [ctx EXCEPT ![c] = r]
        BY <3>2 DEF IInv, TypeOK
      <4> QED
        BY <4>2, <4>3 DEF IInv, TypeOK
    <3> QED
      BY <3>1, <3>2 DEF SetCpu
  <2> QED
    BY <2>2, <2>3 DEF IInv, TypeOK, SetCpu
<1>2. NoPanic'
  BY Counts DEF IInv, TypeOK, Context, NoPanic, ArgInv, Busy, MarkInv, Marked, HolderInv, Holds, CountInv, FlagInv, Inside, SetCpu, At, Goto
<1>3. SavedInv'
  BY ContextFacts DEF IInv, TypeOK, Context, SavedInv, FlagInv, Ordinary, SetCpu, At, Goto
<1>4. HolderInv'
  BY DEF IInv, TypeOK, Context, SavedInv, HolderInv, Holds, ArgInv, Busy, SetCpu, At, Goto
<1>5. MarkInv'
  BY DEF IInv, TypeOK, Context, SavedInv, MarkInv, Marked, ArgInv, Busy, SetCpu, At, Goto
<1>6. ArgInv'
  BY DEF IInv, TypeOK, Context, SavedInv, ArgInv, Busy, SetCpu, At, Goto
<1>7. CountInv'
  <2>1. ctx[c].arg \notin ctx[c].owned /\ Inside(c)
    BY DEF IInv, ArgInv, Busy, SetCpu, At, Inside
  <2>2. /\ IsFiniteSet(ctx[c].owned \cup {ctx[c].arg})
        /\ Cardinality(ctx[c].owned \cup {ctx[c].arg}) = Cardinality(ctx[c].owned) + 1
    BY <2>1, Counts, FS_AddElement
  <2>3. ctx'[c].owned = ctx[c].owned \cup {ctx[c].arg} /\ ~Inside(c)'
    BY DEF IInv, TypeOK, Context, SetCpu, Inside
  <2>4. ncli'[c] = Cardinality(ctx'[c].owned)
    BY <2>1, <2>2, <2>3, Counts DEF SetCpu
  <2>5. \A d \in CPU \ {c} : ctx'[d] = ctx[d] /\ ncli'[d] = ncli[d]
    BY DEF IInv, TypeOK, SetCpu
  <2>6. IsFiniteSet(ctx'[c].owned) /\ ncli'[c] = Cardinality(ctx'[c].owned) + (IF Inside(c)' THEN 1 ELSE 0)
    BY <2>2, <2>3, <2>4, Counts, FS_CardinalityType
  <2>7. \A d \in CPU \ {c} : /\ IsFiniteSet(ctx'[d].owned)
                           /\ ncli'[d] = Cardinality(ctx'[d].owned) + (IF Inside(d)' THEN 1 ELSE 0)
    BY <2>5 DEF IInv, CountInv, Inside
  <2> QED
    BY <2>6, <2>7 DEF CountInv
<1>8. FlagInv'
  BY Counts, ContextFacts DEF IInv, TypeOK, Context, FlagInv, Ordinary, SavedInv, CountInv, Inside, SetCpu, At, Goto
<1> QED
  BY <1>1, <1>2, <1>3, <1>4, <1>5, <1>6, <1>7, <1>8 DEF IInv

LEMMA ClearStep ==
  ASSUME NEW c \in CPU, IInv, Clear(c)
  PROVE  IInv'
<1>1. TypeOK'
  BY Counts, ContextFacts DEF IInv, TypeOK, Context, Inside, PC, Clear, At, Goto
<1>2. NoPanic'
  BY Counts DEF IInv, TypeOK, Context, NoPanic, ArgInv, Busy, MarkInv, Marked, HolderInv, Holds, CountInv, FlagInv, Inside, Clear, At, Goto
<1>3. SavedInv'
  BY ContextFacts DEF IInv, TypeOK, Context, SavedInv, FlagInv, Ordinary, Clear, At, Goto
<1>4. HolderInv'
  BY DEF IInv, TypeOK, Context, SavedInv, HolderInv, Holds, ArgInv, Busy, Clear, At, Goto
<1>5. MarkInv'
  BY DEF IInv, TypeOK, Context, SavedInv, MarkInv, Marked, ArgInv, Busy, Clear, At, Goto
<1>6. ArgInv'
  BY DEF IInv, TypeOK, Context, SavedInv, ArgInv, Busy, Clear, At, Goto
<1>7. CountInv'
  BY Counts, FS_EmptySet, FS_AddElement, FS_RemoveElement DEF IInv, TypeOK, Context, CountInv, Inside, SavedInv, Clear, At, Goto
<1>8. FlagInv'
  BY Counts, ContextFacts DEF IInv, TypeOK, Context, FlagInv, Ordinary, SavedInv, CountInv, Inside, Clear, At, Goto
<1> QED
  BY <1>1, <1>2, <1>3, <1>4, <1>5, <1>6, <1>7, <1>8 DEF IInv

LEMMA UnlockStep ==
  ASSUME NEW c \in CPU, IInv, Unlock(c)
  PROVE  IInv'
<1>1. TypeOK'
  BY Counts, ContextFacts DEF IInv, TypeOK, Context, Inside, PC, Unlock, At, Goto
<1>2. NoPanic'
  BY Counts DEF IInv, TypeOK, Context, NoPanic, ArgInv, Busy, MarkInv, Marked, HolderInv, Holds, CountInv, FlagInv, Inside, Unlock, At, Goto
<1>3. SavedInv'
  BY ContextFacts DEF IInv, TypeOK, Context, SavedInv, FlagInv, Ordinary, Unlock, At, Goto
<1>4. HolderInv'
  BY DEF IInv, TypeOK, Context, SavedInv, HolderInv, Holds, ArgInv, Busy, Unlock, At, Goto
<1>5. MarkInv'
  BY DEF IInv, TypeOK, Context, SavedInv, MarkInv, Marked, ArgInv, Busy, Unlock, At, Goto
<1>6. ArgInv'
  BY DEF IInv, TypeOK, Context, SavedInv, ArgInv, Busy, Unlock, At, Goto
<1>7. CountInv'
  BY Counts, FS_EmptySet, FS_AddElement, FS_RemoveElement DEF IInv, TypeOK, Context, CountInv, Inside, SavedInv, Unlock, At, Goto
<1>8. FlagInv'
  BY Counts, ContextFacts DEF IInv, TypeOK, Context, FlagInv, Ordinary, SavedInv, CountInv, Inside, Unlock, At, Goto
<1> QED
  BY <1>1, <1>2, <1>3, <1>4, <1>5, <1>6, <1>7, <1>8 DEF IInv

LEMMA PopcliStep ==
  ASSUME NEW c \in CPU, IInv, Popcli(c)
  PROVE  IInv'
<1>1. TypeOK'
  BY Counts, ContextFacts DEF IInv, TypeOK, Context, Inside, PC, Popcli, At, Goto
<1>2. NoPanic'
  BY Counts DEF IInv, TypeOK, Context, NoPanic, ArgInv, Busy, MarkInv, Marked, HolderInv, Holds, CountInv, FlagInv, Inside, Popcli, At, Goto
<1>3. SavedInv'
  BY ContextFacts DEF IInv, TypeOK, Context, SavedInv, FlagInv, Ordinary, Popcli, At, Goto
<1>4. HolderInv'
  BY DEF IInv, TypeOK, Context, SavedInv, HolderInv, Holds, ArgInv, Busy, Popcli, At, Goto
<1>5. MarkInv'
  BY DEF IInv, TypeOK, Context, SavedInv, MarkInv, Marked, ArgInv, Busy, Popcli, At, Goto
<1>6. ArgInv'
  BY DEF IInv, TypeOK, Context, SavedInv, ArgInv, Busy, Popcli, At, Goto
<1>7. CountInv'
  BY Counts, FS_EmptySet, FS_AddElement, FS_RemoveElement DEF IInv, TypeOK, Context, CountInv, Inside, SavedInv, Popcli, At, Goto
<1>8. FlagInv'
  BY Counts, ContextFacts DEF IInv, TypeOK, Context, FlagInv, Ordinary, SavedInv, CountInv, Inside, Popcli, At, Goto
<1> QED
  BY <1>1, <1>2, <1>3, <1>4, <1>5, <1>6, <1>7, <1>8 DEF IInv

LEMMA InterruptStep ==
  ASSUME NEW c \in CPU, IInv, Interrupt(c)
  PROVE  IInv'
<1>1. TypeOK'
  BY Counts, ContextFacts DEF IInv, TypeOK, Context, Inside, PC, Interrupt, At, Goto, Fresh
<1>2. NoPanic'
  BY Counts DEF IInv, TypeOK, Context, NoPanic, ArgInv, Busy, MarkInv, Marked, HolderInv, Holds, CountInv, FlagInv, Inside, Interrupt, At, Goto, Fresh
<1>3. SavedInv'
  <2>1. ctx[c].owned = {} /\ ctx[c].pc \in {"run", "cli"}
    BY Counts DEF IInv, TypeOK, Context, PC, NoPanic, FlagInv, Inside, Interrupt
  <2>2. on[c] /\ (ctx[c].pc = "cli" => ctx[c].flags)
    BY Counts DEF IInv, FlagInv, Ordinary, Interrupt
  <2>3. saved' = [saved EXCEPT ![c] = ctx[c]] /\ on' = on
    BY DEF Interrupt
  <2> QED
    BY <2>1, <2>2, <2>3 DEF IInv, TypeOK, SavedInv
<1>4. HolderInv'
  BY DEF IInv, TypeOK, Context, SavedInv, HolderInv, Holds, ArgInv, Busy, Interrupt, At, Goto, Fresh
<1>5. MarkInv'
  <2>1. ctx[c].owned = {} /\ ctx[c].pc \in {"run", "cli"}
    BY Counts DEF IInv, TypeOK, Context, PC, NoPanic, FlagInv, Inside, Interrupt
  <2>2. ctx'[c].owned = {} /\ ctx'[c].pc = "run"
    BY DEF IInv, TypeOK, Interrupt, Fresh
  <2>3. \A d \in CPU \ {c} : ctx'[d] = ctx[d]
    BY DEF IInv, TypeOK, Interrupt
  <2> QED
    BY <2>1, <2>2, <2>3 DEF IInv, MarkInv, Marked, Interrupt
<1>6. ArgInv'
  BY DEF IInv, TypeOK, Context, SavedInv, ArgInv, Busy, Interrupt, At, Goto, Fresh
<1>7. CountInv'
  <2>1. ctx[c].owned = {} /\ ctx[c].pc \in {"run", "cli"}
    BY Counts DEF IInv, TypeOK, Context, PC, NoPanic, FlagInv, Inside, Interrupt
  <2>2. ctx'[c].owned = {} /\ ~Inside(c)' /\ ~Inside(c)
    BY <2>1 DEF IInv, TypeOK, Interrupt, Fresh, Inside
  <2>3. \A d \in CPU \ {c} : ctx'[d] = ctx[d]
    BY DEF IInv, TypeOK, Interrupt
  <2> QED
    BY <2>1, <2>2, <2>3 DEF IInv, CountInv, Inside, Interrupt
<1>8. FlagInv'
  BY Counts, ContextFacts DEF IInv, TypeOK, Context, FlagInv, Ordinary, SavedInv, CountInv, Inside, Interrupt, At, Goto, Fresh
<1> QED
  BY <1>1, <1>2, <1>3, <1>4, <1>5, <1>6, <1>7, <1>8 DEF IInv

LEMMA IretStep ==
  ASSUME NEW c \in CPU, IInv, Iret(c)
  PROVE  IInv'
<1>1. TypeOK'
  BY Counts, ContextFacts DEF IInv, TypeOK, Context, Inside, PC, Iret, At, Goto
<1>2. NoPanic'
  BY DEF IInv, TypeOK, NoPanic, SavedInv, Iret
<1>3. SavedInv'
  BY ContextFacts DEF IInv, TypeOK, Context, SavedInv, FlagInv, Ordinary, Iret, At, Goto
<1>4. HolderInv'
  BY DEF IInv, TypeOK, Context, SavedInv, HolderInv, Holds, ArgInv, Busy, Iret, At, Goto
<1>5. MarkInv'
  BY DEF IInv, TypeOK, Context, SavedInv, MarkInv, Marked, ArgInv, Busy, Iret, At, Goto
<1>6. ArgInv'
  BY DEF IInv, TypeOK, Context, SavedInv, ArgInv, Busy, Iret, At, Goto
<1>7. CountInv'
  BY Counts, FS_EmptySet, FS_AddElement, FS_RemoveElement DEF IInv, TypeOK, Context, CountInv, Inside, SavedInv, Iret, At, Goto
<1>8. FlagInv'
  <2>1. on[c] /\ (saved[c].pc = "cli" => saved[c].flags) /\ ncli[c] = 0
    BY Counts DEF IInv, SavedInv, Iret, At, Inside
  <2>2. ctx'[c] = saved[c] /\ saved'[c] = Idle /\ iflag'[c] = TRUE
    BY DEF IInv, TypeOK, Iret
  <2>3. \A d \in CPU \ {c} : ctx'[d] = ctx[d] /\ saved'[d] = saved[d] /\ iflag'[d] = iflag[d]
    BY DEF IInv, TypeOK, Iret
  <2> QED
    BY <2>1, <2>2, <2>3 DEF IInv, FlagInv, Ordinary, Iret
<1> QED
  BY <1>1, <1>2, <1>3, <1>4, <1>5, <1>6, <1>7, <1>8 DEF IInv

LEMMA AcquireStep ==
  ASSUME NEW c \in CPU, NEW lk \in Lock, IInv, Acquire(c, lk)
  PROVE  IInv'
<1>1. TypeOK'
  <2>a. ctx[c] \in Context /\ iflag[c] \in BOOLEAN
    BY DEF IInv, TypeOK
  <2>1. [ctx[c] EXCEPT !.pc = "cli", !.arg = lk, !.flags = iflag[c]] \in Context
    BY <2>a DEF Context, PC
  <2>2. ctx' \in [CPU -> Context]
    BY <2>1 DEF IInv, TypeOK, Acquire
  <2> QED
    BY <2>2 DEF IInv, TypeOK, Acquire
<1>2. NoPanic'
  BY Counts DEF IInv, TypeOK, Context, NoPanic, ArgInv, Busy, MarkInv, Marked, HolderInv, Holds, CountInv, FlagInv, Inside, Acquire, At, Goto
<1>3. SavedInv'
  BY ContextFacts DEF IInv, TypeOK, Context, SavedInv, FlagInv, Ordinary, Acquire, At, Goto
<1>4. HolderInv'
  BY DEF IInv, TypeOK, Context, SavedInv, HolderInv, Holds, ArgInv, Busy, Acquire, At, Goto
<1>5. MarkInv'
  BY DEF IInv, TypeOK, Context, SavedInv, MarkInv, Marked, ArgInv, Busy, Acquire, At, Goto
<1>6. ArgInv'
  BY DEF IInv, TypeOK, Context, SavedInv, ArgInv, Busy, Acquire, At, Goto
<1>7. CountInv'
  BY Counts, FS_EmptySet, FS_AddElement, FS_RemoveElement DEF IInv, TypeOK, Context, CountInv, Inside, SavedInv, Acquire, At, Goto
<1>8. FlagInv'
  BY Counts, ContextFacts DEF IInv, TypeOK, Context, FlagInv, Ordinary, SavedInv, CountInv, Inside, Acquire, At, Goto
<1> QED
  BY <1>1, <1>2, <1>3, <1>4, <1>5, <1>6, <1>7, <1>8 DEF IInv

LEMMA ReleaseStep ==
  ASSUME NEW c \in CPU, NEW lk \in Lock, IInv, Release(c, lk)
  PROVE  IInv'
<1>1. TypeOK'
  BY Counts, ContextFacts DEF IInv, TypeOK, Context, Inside, PC, Release, At, Goto, holding
<1>2. NoPanic'
  BY Counts DEF IInv, TypeOK, Context, NoPanic, ArgInv, Busy, MarkInv, Marked, HolderInv, Holds, CountInv, FlagInv, Inside, Release, At, Goto, holding
<1>3. SavedInv'
  BY ContextFacts DEF IInv, TypeOK, Context, SavedInv, FlagInv, Ordinary, Release, At, Goto, holding
<1>4. HolderInv'
  BY DEF IInv, TypeOK, Context, SavedInv, HolderInv, Holds, ArgInv, Busy, Release, At, Goto, holding
<1>5. MarkInv'
  BY DEF IInv, TypeOK, Context, SavedInv, MarkInv, Marked, ArgInv, Busy, Release, At, Goto, holding
<1>6. ArgInv'
  BY DEF IInv, TypeOK, Context, SavedInv, ArgInv, Busy, Release, At, Goto, holding
<1>7. CountInv'
  BY SMTT(30), Counts, FS_EmptySet, FS_AddElement, FS_RemoveElement DEF IInv, TypeOK, Context, CountInv, Inside, SavedInv, Release, At, Goto, holding
<1>8. FlagInv'
  BY Counts, ContextFacts DEF IInv, TypeOK, Context, FlagInv, Ordinary, SavedInv, CountInv, Inside, Release, At, Goto, holding
<1> QED
  BY <1>1, <1>2, <1>3, <1>4, <1>5, <1>6, <1>7, <1>8 DEF IInv

-----------------------------------------------------------------------------
(* IInv is inductive: one case per action.                                 *)
LEMMA NextIInv == IInv /\ [Next]_vars => IInv'
<1> SUFFICES ASSUME IInv, [Next]_vars PROVE IInv'
  OBVIOUS
<1>1. CASE UNCHANGED vars
  BY <1>1 DEF vars, IInv, TypeOK, NoPanic, SavedInv, HolderInv, Holds, MarkInv, Marked,
              ArgInv, Busy, CountInv, Inside, FlagInv, Ordinary
<1>2. ASSUME NEW c \in CPU, NEW lk \in Lock, Acquire(c, lk) \/ Release(c, lk) PROVE IInv'
  BY <1>2, AcquireStep, ReleaseStep
<1>3. ASSUME NEW c \in CPU, Sti(c) \/ Cli(c) \/ Check(c) \/ Xchg(c) \/ SetCpu(c) PROVE IInv'
  BY <1>3, StiStep, CliStep, CheckStep, XchgStep, SetCpuStep
<1>4. ASSUME NEW c \in CPU, Clear(c) \/ Unlock(c) \/ Popcli(c) \/ Interrupt(c) \/ Iret(c) PROVE IInv'
  BY <1>4, ClearStep, UnlockStep, PopcliStep, InterruptStep, IretStep
<1> QED
  BY <1>1, <1>2, <1>3, <1>4 DEF Next

LEMMA SpecIInv == Spec => []IInv
  BY InitIInv, NextIInv, PTL DEF Spec

(* acquire and release (spinlock.c:25, 44) give each lock to one CPU at a  *)
(* time, on any number of CPUs.                                            *)
THEOREM SpinlockExcludes == Spec => []MutualExclusion
<1>1. IInv => MutualExclusion
  BY DEF IInv, HolderInv, Holds, MutualExclusion, TypeOK, Context
<1> QED
  BY <1>1, SpecIInv, PTL

(* No handler ever runs on a CPU that owns a lock or is taking one, so     *)
(* none can wait for the code it interrupted (spinlock.c:27).              *)
THEOREM SpinlockNoInterrupt == Spec => []NoInterruptWhileHolding
<1>1. IInv => NoInterruptWhileHolding
  BY Counts DEF IInv, TypeOK, Context, PC, NoPanic, FlagInv, Inside, NoInterruptWhileHolding
<1> QED
  BY <1>1, SpecIInv, PTL

(* The panics of acquire, release and popcli are unreachable for code that *)
(* takes locks in one order.                                               *)
THEOREM SpinlockNoPanic == Spec => []NoPanic
  BY SpecIInv, PTL DEF IInv

(* pushcli and popcli match: outside critical sections the interrupt flag  *)
(* is what it was before them (spinlock.c:92).                             *)
THEOREM SpinlockFlagRestored == Spec => []FlagRestored
<1>1. IInv => FlagRestored
  BY Counts DEF IInv, TypeOK, FlagInv, Inside, Ordinary, FlagRestored
<1> QED
  BY <1>1, SpecIInv, PTL

(* Whatever nests and whatever interrupts: interrupts are off where they   *)
(* must be, on again afterwards, and nothing panics.                       *)
THEOREM SpinlockInterrupts == Spec => []InterruptsKept
  BY SpinlockNoInterrupt, SpinlockFlagRestored, SpinlockNoPanic, PTL DEF InterruptsKept

(* Every variable keeps its type; ncli never goes below zero.              *)
THEOREM SpinlockTypes == Spec => []TypeOK
  BY SpecIInv, PTL DEF IInv

(***************************************************************************)
(* The order of the locks.                                                 *)
(***************************************************************************)

\* Every section but exit's takes locks upwards.
Rank(lk) == IF lk \in {"kmem", "cons"} THEN 3 ELSE IF lk = "ptable" THEN 2 ELSE 1

HoldsJust(c, locks) == \A lk \in Locks : holder[lk] = c <=> lk \in locks

\* The places inside a section, by what is still to do and what is held.
Outside(c) == todo[c] = <<>> /\ HoldsJust(c, {})
First(c, x) == todo[c] = <<acquire(x), release(x)>> /\ HoldsJust(c, {})
Last1(c, x) == todo[c] = <<release(x)>> /\ HoldsJust(c, {x})
Twice(c, x, y) ==
  \/ todo[c] = <<acquire(x), release(x), acquire(y), release(y)>> /\ HoldsJust(c, {})
  \/ todo[c] = <<release(x), acquire(y), release(y)>> /\ HoldsJust(c, {x})
Nested(c, x, y, u, v) ==
  /\ Rank(x) < Rank(y)
  /\ {u, v} = {x, y}
  /\ \/ todo[c] = <<acquire(x), acquire(y), release(u), release(v)>> /\ HoldsJust(c, {})
     \/ todo[c] = <<acquire(y), release(u), release(v)>> /\ HoldsJust(c, {x})
     \/ todo[c] = <<release(u), release(v)>> /\ HoldsJust(c, {x, y})

Place(c) ==
  \/ Outside(c)
  \/ \E x \in Locks : First(c, x) \/ Last1(c, x)
  \/ \E x, y \in Locks : Twice(c, x, y)
  \/ \E x, y, u, v \in Locks : Nested(c, x, y, u, v)

OrderInv == /\ holder \in [Locks -> Cpus \cup {NoHolder}]
        /\ DOMAIN todo = Cpus
        /\ \A c \in Cpus : Place(c)

LEMMA Tuples ==
  ASSUME NEW a, NEW b, NEW c, NEW d
  PROVE  /\ Head(<<a>>) = a /\ Tail(<<a>>) = <<>> /\ <<a>> # <<>>
         /\ Head(<<a, b>>) = a /\ Tail(<<a, b>>) = <<b>> /\ <<a, b>> # <<>>
         /\ Head(<<a, b, c>>) = a /\ Tail(<<a, b, c>>) = <<b, c>> /\ <<a, b, c>> # <<>>
         /\ Head(<<a, b, c, d>>) = a /\ Tail(<<a, b, c, d>>) = <<b, c, d>> /\ <<a, b, c, d>> # <<>>
<1>1. Head(<<a>>) = a /\ Tail(<<a>>) = <<>> /\ <<a>> # <<>>
  OBVIOUS
<1>2. Head(<<a, b>>) = a /\ Tail(<<a, b>>) = <<b>> /\ <<a, b>> # <<>>
  OBVIOUS
<1>3. Head(<<a, b, c>>) = a /\ Tail(<<a, b, c>>) = <<b, c>> /\ <<a, b, c>> # <<>>
  OBVIOUS
<1>4. Head(<<a, b, c, d>>) = a /\ Tail(<<a, b, c, d>>) = <<b, c, d>> /\ <<a, b, c, d>> # <<>>
  OBVIOUS
<1>q. QED BY <1>1, <1>2, <1>3, <1>4

LEMMA Operations ==
  ASSUME NEW x, NEW y
  PROVE  /\ acquire(x) = acquire(y) <=> x = y
         /\ release(x) = release(y) <=> x = y
         /\ acquire(x) # release(y)
BY DEF acquire, release

LEMMA Names == NoHolder \notin Cpus
BY LockOrderAssumption DEF LockOrderAssumption

\* What can be done next at each place.
LEMMA AcquirePlaces ==
  ASSUME NEW c \in Cpus, NEW lk \in Locks, Place(c), Wants(c, lk)
  PROVE  \/ First(c, lk)
         \/ \E y \in Locks : /\ todo[c] = <<acquire(lk), release(lk), acquire(y), release(y)>>
                           /\ HoldsJust(c, {})
         \/ \E y, u, v \in Locks :
              /\ Rank(lk) < Rank(y) /\ {u, v} = {lk, y}
              /\ todo[c] = <<acquire(lk), acquire(y), release(u), release(v)>> /\ HoldsJust(c, {})
         \/ \E x, u, v \in Locks :
              /\ Rank(x) < Rank(lk) /\ {u, v} = {x, lk}
              /\ todo[c] = <<acquire(lk), release(u), release(v)>> /\ HoldsJust(c, {x})
<1>1. todo[c] # <<>> /\ Head(todo[c]) = acquire(lk)
  BY DEF Wants
<1>2. CASE Outside(c)
  BY <1>1, <1>2 DEF Outside
<1>3. CASE \E x \in Locks : First(c, x) \/ Last1(c, x)
  BY <1>1, <1>3, Tuples, Operations DEF First, Last1
<1>4. CASE \E x, y \in Locks : Twice(c, x, y)
  BY <1>1, <1>4, Tuples, Operations DEF Twice
<1>5. CASE \E x, y, u, v \in Locks : Nested(c, x, y, u, v)
  <2>1. PICK x \in Locks, y \in Locks, u \in Locks, v \in Locks : Nested(c, x, y, u, v)
    BY <1>5
  <2>2. CASE todo[c] = <<acquire(x), acquire(y), release(u), release(v)>> /\ HoldsJust(c, {})
    <3>1. x = lk
      BY <1>1, <2>2, Tuples, Operations
    <3>q. QED
      BY <2>1, <2>2, <3>1 DEF Nested
  <2>3. CASE todo[c] = <<acquire(y), release(u), release(v)>> /\ HoldsJust(c, {x})
    <3>1. y = lk
      BY <1>1, <2>3, Tuples, Operations
    <3>q. QED
      BY <2>1, <2>3, <3>1 DEF Nested
  <2>4. CASE todo[c] = <<release(u), release(v)>> /\ HoldsJust(c, {x, y})
    BY <1>1, <2>4, Tuples, Operations
  <2>q. QED
    BY <2>1, <2>2, <2>3, <2>4 DEF Nested
<1>q. QED
  BY <1>2, <1>3, <1>4, <1>5 DEF Place

LEMMA ReleasePlaces ==
  ASSUME NEW c \in Cpus, NEW lk \in Locks, Place(c), todo[c] # <<>>, Head(todo[c]) = release(lk)
  PROVE  \/ Last1(c, lk)
         \/ \E y \in Locks : /\ todo[c] = <<release(lk), acquire(y), release(y)>>
                           /\ HoldsJust(c, {lk})
         \/ \E v \in Locks : /\ v # lk
                           /\ todo[c] = <<release(lk), release(v)>> /\ HoldsJust(c, {lk, v})
<1>1. CASE Outside(c)
  BY <1>1 DEF Outside
<1>2. CASE \E x \in Locks : First(c, x) \/ Last1(c, x)
  <2>1. PICK x \in Locks : First(c, x) \/ Last1(c, x)
    BY <1>2
  <2>2. ~First(c, x)
    BY Tuples, Operations DEF First
  <2>3. x = lk
    BY <2>1, <2>2, Tuples, Operations DEF Last1
  <2>q. QED BY <2>1, <2>2, <2>3
<1>3. CASE \E x, y \in Locks : Twice(c, x, y)
  <2>1. PICK x \in Locks, y \in Locks : Twice(c, x, y)
    BY <1>3
  <2>2. todo[c] # <<acquire(x), release(x), acquire(y), release(y)>>
    BY Tuples, Operations
  <2>3. todo[c] = <<release(x), acquire(y), release(y)>> /\ HoldsJust(c, {x})
    BY <2>1, <2>2 DEF Twice
  <2>4. x = lk
    BY <2>3, Tuples, Operations
  <2>q. QED BY <2>3, <2>4
<1>4. CASE \E x, y, u, v \in Locks : Nested(c, x, y, u, v)
  <2>1. PICK x \in Locks, y \in Locks, u \in Locks, v \in Locks : Nested(c, x, y, u, v)
    BY <1>4
  <2>2. CASE todo[c] = <<acquire(x), acquire(y), release(u), release(v)>> /\ HoldsJust(c, {})
    BY <2>2, Tuples, Operations
  <2>3. CASE todo[c] = <<acquire(y), release(u), release(v)>> /\ HoldsJust(c, {x})
    BY <2>3, Tuples, Operations
  <2>4. CASE todo[c] = <<release(u), release(v)>> /\ HoldsJust(c, {x, y})
    <3>1. u = lk
      BY <2>4, Tuples, Operations
    <3>2. {u, v} = {x, y} /\ x # y
      BY <2>1 DEF Nested, Rank
    <3>3. v # lk
      BY <3>1, <3>2
    <3>4. HoldsJust(c, {lk, v})
      BY <2>4, <3>1, <3>2
    <3>q. QED
      BY <2>4, <3>1, <3>3, <3>4
  <2>q. QED
    BY <2>1, <2>2, <2>3, <2>4 DEF Nested
<1>q. QED
  BY <1>1, <1>2, <1>3, <1>4 DEF Place

\* A step of one CPU leaves the others where they are.
LEMMA Elsewhere ==
  ASSUME NEW d \in Cpus, Place(d), todo'[d] = todo[d],
         \A lk \in Locks : holder'[lk] = d <=> holder[lk] = d
  PROVE  Place(d)'
<1>1. ASSUME NEW locks, HoldsJust(d, locks) PROVE HoldsJust(d, locks)'
  BY <1>1 DEF HoldsJust
<1>2. CASE Outside(d)
  BY <1>1, <1>2 DEF Outside, Place
<1>3. CASE \E x \in Locks : First(d, x) \/ Last1(d, x)
  <2>1. PICK x \in Locks : First(d, x) \/ Last1(d, x)
    BY <1>3
  <2>2. First(d, x)' \/ Last1(d, x)'
    BY <1>1, <2>1 DEF First, Last1
  <2>q. QED BY <2>2 DEF Place
<1>4. CASE \E x, y \in Locks : Twice(d, x, y)
  <2>1. PICK x \in Locks, y \in Locks : Twice(d, x, y)
    BY <1>4
  <2>2. Twice(d, x, y)'
    BY <1>1, <2>1 DEF Twice
  <2>q. QED BY <2>2 DEF Place
<1>5. CASE \E x, y, u, v \in Locks : Nested(d, x, y, u, v)
  <2>1. PICK x \in Locks, y \in Locks, u \in Locks, v \in Locks : Nested(d, x, y, u, v)
    BY <1>5
  <2>2. Nested(d, x, y, u, v)'
    BY <1>1, <2>1 DEF Nested
  <2>q. QED BY <2>2 DEF Place
<1>q. QED
  BY <1>2, <1>3, <1>4, <1>5 DEF Place

\* Every section is of one of the three shapes.
LEMMA SectionShapes ==
  ASSUME ~Exits, NEW c \in Cpus, NEW s \in Sections(c)
  PROVE  \/ \E x \in Locks : s = <<acquire(x), release(x)>>
         \/ \E x, y \in Locks : s = <<acquire(x), release(x), acquire(y), release(y)>>
         \/ \E x, y, u, v \in Locks :
              /\ Rank(x) < Rank(y) /\ {u, v} = {x, y}
              /\ s = <<acquire(x), acquire(y), release(u), release(v)>>
<1>1. CASE \E lk \in Locks : s = Alone(lk)
  BY <1>1 DEF Alone
<1>2. CASE \E lk \in SleepsWith : s = Asleep(lk)
  <2>1. PICK lk \in SleepsWith : s = <<acquire(lk), acquire("ptable"), release(lk), release("ptable")>>
    BY <1>2 DEF Asleep
  <2>2. lk \in Locks /\ "ptable" \in Locks /\ Rank(lk) < Rank("ptable")
    BY DEF SleepsWith, Locks, Rank
  <2>q. QED BY <2>1, <2>2
<1>3. CASE \E lk \in SleepsWith : s = Resumed(lk)
  <2>1. PICK lk \in SleepsWith : s = <<acquire("ptable"), release("ptable"), acquire(lk), release(lk)>>
    BY <1>3 DEF Resumed
  <2>2. lk \in Locks /\ "ptable" \in Locks
    BY DEF SleepsWith, Locks
  <2>q. QED BY <2>1, <2>2
<1>4. CASE \E lk \in WakesWith \cup {"tickslock"} : s = WakesUnder(lk)
  <2>1. PICK lk \in WakesWith \cup {"tickslock"} : s = <<acquire(lk), acquire("ptable"), release("ptable"), release(lk)>>
    BY <1>4 DEF WakesUnder
  <2>2. lk \in Locks /\ "ptable" \in Locks /\ Rank(lk) < Rank("ptable")
    BY DEF WakesWith, Locks, Rank
  <2>3. {"ptable", lk} = {lk, "ptable"}
    OBVIOUS
  <2>q. QED BY <2>1, <2>2, <2>3
<1>5. CASE s = Wait
  <2>1. s = <<acquire("ptable"), acquire("kmem"), release("kmem"), release("ptable")>>
    BY <1>5 DEF Wait
  <2>2. "ptable" \in Locks /\ "kmem" \in Locks /\ Rank("ptable") < Rank("kmem")
    BY DEF Locks, Rank
  <2>3. {"kmem", "ptable"} = {"ptable", "kmem"}
    OBVIOUS
  <2>q. QED BY <2>1, <2>2, <2>3
<1>6. CASE s = Procdump
  <2>1. s = <<acquire("input"), acquire("cons"), release("cons"), release("input")>>
    BY <1>6 DEF Procdump
  <2>2. "input" \in Locks /\ "cons" \in Locks /\ Rank("input") < Rank("cons")
    BY DEF Locks, Rank
  <2>3. {"cons", "input"} = {"input", "cons"}
    OBVIOUS
  <2>q. QED BY <2>1, <2>2, <2>3
<1>q. QED
  BY <1>1, <1>2, <1>3, <1>4, <1>5, <1>6 DEF Sections, Timer

LEMMA InitOrderInv == OrderInit => OrderInv
<1>1. SUFFICES ASSUME OrderInit PROVE OrderInv
  OBVIOUS
<1>2. ASSUME NEW c \in Cpus PROVE Place(c)
  BY <1>1, <1>2, Names DEF OrderInit, Place, Outside, HoldsJust
<1>q. QED
  BY <1>1, <1>2 DEF OrderInit, OrderInv

LEMMA StartIInv ==
  ASSUME ~Exits, OrderInv, NEW c \in Cpus, Start(c)
  PROVE  OrderInv'
<1>1. PICK s \in Sections(c) : todo' = [todo EXCEPT ![c] = s]
  BY DEF Start
<1>2. holder' = holder /\ todo[c] = <<>> /\ todo'[c] = s /\ DOMAIN todo' = Cpus
  BY <1>1 DEF Start, OrderInv
<1>3. HoldsJust(c, {})'
  <2>1. CASE Outside(c)
    BY <1>2, <2>1 DEF Outside, HoldsJust
  <2>2. CASE \E x \in Locks : First(c, x) \/ Last1(c, x)
    BY <1>2, <2>2, Tuples DEF First, Last1
  <2>3. CASE \E x, y \in Locks : Twice(c, x, y)
    BY <1>2, <2>3, Tuples DEF Twice
  <2>4. CASE \E x, y, u, v \in Locks : Nested(c, x, y, u, v)
    BY <1>2, <2>4, Tuples DEF Nested
  <2>q. QED
    BY <2>1, <2>2, <2>3, <2>4 DEF OrderInv, Place
<1>4. Place(c)'
  <2>1. CASE \E x \in Locks : s = <<acquire(x), release(x)>>
    BY <1>2, <1>3, <2>1 DEF Place, First
  <2>2. CASE \E x, y \in Locks : s = <<acquire(x), release(x), acquire(y), release(y)>>
    BY <1>2, <1>3, <2>2 DEF Place, Twice
  <2>3. CASE \E x, y, u, v \in Locks :
              /\ Rank(x) < Rank(y) /\ {u, v} = {x, y}
              /\ s = <<acquire(x), acquire(y), release(u), release(v)>>
    BY <1>2, <1>3, <2>3 DEF Place, Nested
  <2>q. QED
    BY <2>1, <2>2, <2>3, SectionShapes
<1>5. ASSUME NEW d \in Cpus, d # c PROVE Place(d)'
  BY <1>1, <1>2, <1>5, Elsewhere DEF OrderInv
<1>q. QED
  BY <1>2, <1>4, <1>5 DEF OrderInv

LEMMA AcquireIInv ==
  ASSUME OrderInv, NEW c \in Cpus, NEW lk \in Locks, AcquireLock(c, lk)
  PROVE  OrderInv'
<1>1. /\ holder[lk] = NoHolder /\ holder' = [holder EXCEPT ![lk] = c]
      /\ todo' = [todo EXCEPT ![c] = Tail(@)] /\ todo'[c] = Tail(todo[c])
      /\ DOMAIN todo' = Cpus /\ holder' \in [Locks -> Cpus \cup {NoHolder}]
  BY DEF AcquireLock, OrderInv
<1>2. ASSUME NEW locks, HoldsJust(c, locks) PROVE HoldsJust(c, locks \cup {lk})'
  BY <1>1, <1>2 DEF HoldsJust, OrderInv
<1>3. Place(c)'
  <2>1. CASE First(c, lk)
    <3>1. todo'[c] = <<release(lk)>> /\ HoldsJust(c, {lk})'
      BY <1>1, <1>2, <2>1, Tuples DEF First, HoldsJust
    <3>q. QED BY <3>1 DEF Place, Last1
  <2>2. CASE \E y \in Locks : /\ todo[c] = <<acquire(lk), release(lk), acquire(y), release(y)>>
                            /\ HoldsJust(c, {})
    <3>1. PICK y \in Locks : /\ todo[c] = <<acquire(lk), release(lk), acquire(y), release(y)>>
                           /\ HoldsJust(c, {})
      BY <2>2
    <3>2. todo'[c] = <<release(lk), acquire(y), release(y)>>
      BY <1>1, <3>1, Tuples
    <3>3. HoldsJust(c, {lk})'
      <4>1. HoldsJust(c, {} \cup {lk})'
        BY <1>2, <3>1
      <4>q. QED BY <4>1 DEF HoldsJust
    <3>q. QED BY <3>2, <3>3 DEF Place, Twice
  <2>3. CASE \E y, u, v \in Locks :
               /\ Rank(lk) < Rank(y) /\ {u, v} = {lk, y}
               /\ todo[c] = <<acquire(lk), acquire(y), release(u), release(v)>> /\ HoldsJust(c, {})
    <3>1. PICK y \in Locks, u \in Locks, v \in Locks :
               /\ Rank(lk) < Rank(y) /\ {u, v} = {lk, y}
               /\ todo[c] = <<acquire(lk), acquire(y), release(u), release(v)>> /\ HoldsJust(c, {})
      BY <2>3
    <3>2. todo'[c] = <<acquire(y), release(u), release(v)>>
      BY <1>1, <3>1, Tuples
    <3>3. HoldsJust(c, {lk})'
      <4>1. HoldsJust(c, {} \cup {lk})'
        BY <1>2, <3>1
      <4>q. QED BY <4>1 DEF HoldsJust
    <3>4. Nested(c, lk, y, u, v)'
      BY <3>1, <3>2, <3>3 DEF Nested
    <3>q. QED BY <3>4 DEF Place
  <2>4. CASE \E x, u, v \in Locks :
               /\ Rank(x) < Rank(lk) /\ {u, v} = {x, lk}
               /\ todo[c] = <<acquire(lk), release(u), release(v)>> /\ HoldsJust(c, {x})
    <3>1. PICK x \in Locks, u \in Locks, v \in Locks :
               /\ Rank(x) < Rank(lk) /\ {u, v} = {x, lk}
               /\ todo[c] = <<acquire(lk), release(u), release(v)>> /\ HoldsJust(c, {x})
      BY <2>4
    <3>2. todo'[c] = <<release(u), release(v)>>
      BY <1>1, <3>1, Tuples
    <3>3. HoldsJust(c, {x, lk})'
      <4>1. HoldsJust(c, {x} \cup {lk})'
        BY <1>2, <3>1
      <4>q. QED BY <4>1 DEF HoldsJust
    <3>4. Nested(c, x, lk, u, v)'
      BY <3>1, <3>2, <3>3 DEF Nested
    <3>q. QED BY <3>4 DEF Place
  <2>q. QED
    BY <2>1, <2>2, <2>3, <2>4, AcquirePlaces DEF AcquireLock, OrderInv
<1>4. ASSUME NEW d \in Cpus, d # c PROVE Place(d)'
  <2>1. todo'[d] = todo[d] /\ \A l \in Locks : holder'[l] = d <=> holder[l] = d
    BY <1>1, <1>4, Names DEF OrderInv
  <2>q. QED
    BY <2>1, Elsewhere DEF OrderInv
<1>q. QED
  BY <1>1, <1>3, <1>4 DEF OrderInv

LEMMA ReleaseIInv ==
  ASSUME OrderInv, NEW c \in Cpus, NEW lk \in Locks, ReleaseLock(c, lk)
  PROVE  OrderInv'
<1>1. /\ holder' = [holder EXCEPT ![lk] = NoHolder]
      /\ todo' = [todo EXCEPT ![c] = Tail(@)] /\ todo'[c] = Tail(todo[c])
      /\ DOMAIN todo' = Cpus /\ holder' \in [Locks -> Cpus \cup {NoHolder}]
  BY DEF ReleaseLock, OrderInv
<1>2. ASSUME NEW locks, HoldsJust(c, locks) PROVE HoldsJust(c, locks \ {lk})'
  BY <1>1, <1>2, Names DEF HoldsJust, OrderInv
<1>3. holder[lk] = c /\ Place(c)'
  <2>1. CASE Last1(c, lk)
    <3>1. holder[lk] = c /\ todo'[c] = <<>> /\ HoldsJust(c, {})'
      BY <1>1, <1>2, <2>1, Tuples DEF Last1, HoldsJust
    <3>q. QED BY <3>1 DEF Place, Outside
  <2>2. CASE \E y \in Locks : /\ todo[c] = <<release(lk), acquire(y), release(y)>>
                            /\ HoldsJust(c, {lk})
    <3>1. PICK y \in Locks : todo[c] = <<release(lk), acquire(y), release(y)>> /\ HoldsJust(c, {lk})
      BY <2>2
    <3>2. holder[lk] = c /\ todo'[c] = <<acquire(y), release(y)>>
      BY <1>1, <3>1, Tuples DEF HoldsJust
    <3>3. HoldsJust(c, {})'
      BY <1>2, <3>1 DEF HoldsJust
    <3>q. QED BY <3>2, <3>3 DEF Place, First
  <2>3. CASE \E v \in Locks : /\ v # lk
                            /\ todo[c] = <<release(lk), release(v)>> /\ HoldsJust(c, {lk, v})
    <3>1. PICK v \in Locks : /\ v # lk
                           /\ todo[c] = <<release(lk), release(v)>> /\ HoldsJust(c, {lk, v})
      BY <2>3
    <3>2. holder[lk] = c /\ todo'[c] = <<release(v)>>
      BY <1>1, <3>1, Tuples DEF HoldsJust
    <3>3. HoldsJust(c, {v})'
      BY <1>2, <3>1 DEF HoldsJust
    <3>q. QED BY <3>2, <3>3 DEF Place, Last1
  <2>q. QED
    BY <2>1, <2>2, <2>3, ReleasePlaces DEF ReleaseLock, OrderInv
<1>4. ASSUME NEW d \in Cpus, d # c PROVE Place(d)'
  <2>1. todo'[d] = todo[d] /\ \A l \in Locks : holder'[l] = d <=> holder[l] = d
    BY <1>1, <1>3, <1>4, Names DEF OrderInv
  <2>q. QED
    BY <2>1, Elsewhere DEF OrderInv
<1>q. QED
  BY <1>1, <1>3, <1>4 DEF OrderInv

LEMMA NextOrderInv ==
  ASSUME ~Exits
  PROVE  OrderInv /\ [OrderNext]_ordervars => OrderInv'
<1>1. SUFFICES ASSUME OrderInv, [OrderNext]_ordervars PROVE OrderInv'
  OBVIOUS
<1>2. CASE UNCHANGED ordervars
  <2>1. todo' = todo /\ holder' = holder
    BY <1>2 DEF ordervars
  <2>2. ASSUME NEW d \in Cpus PROVE Place(d)'
    BY <1>1, <2>1, Elsewhere DEF OrderInv
  <2>q. QED
    BY <1>1, <2>1, <2>2 DEF OrderInv
<1>3. CASE \E c \in Cpus : Start(c)
  BY <1>1, <1>3, StartIInv
<1>4. CASE \E c \in Cpus, lk \in Locks : AcquireLock(c, lk)
  BY <1>1, <1>4, AcquireIInv
<1>5. CASE \E c \in Cpus, lk \in Locks : ReleaseLock(c, lk)
  BY <1>1, <1>5, ReleaseIInv
<1>q. QED
  BY <1>1, <1>2, <1>3, <1>4, <1>5 DEF OrderNext

\* Who waits for a lock holds only lower ones.
LEMMA Upwards ==
  ASSUME OrderInv, NEW c \in Cpus, NEW lk \in Locks, Wants(c, lk), NEW h \in Locks, holder[h] = c
  PROVE  Rank(h) < Rank(lk)
<1>1. CASE First(c, lk)
  BY <1>1 DEF First, HoldsJust
<1>2. CASE \E y \in Locks : /\ todo[c] = <<acquire(lk), release(lk), acquire(y), release(y)>>
                          /\ HoldsJust(c, {})
  BY <1>2 DEF HoldsJust
<1>3. CASE \E y, u, v \in Locks :
             /\ Rank(lk) < Rank(y) /\ {u, v} = {lk, y}
             /\ todo[c] = <<acquire(lk), acquire(y), release(u), release(v)>> /\ HoldsJust(c, {})
  BY <1>3 DEF HoldsJust
<1>4. CASE \E x, u, v \in Locks :
             /\ Rank(x) < Rank(lk) /\ {u, v} = {x, lk}
             /\ todo[c] = <<acquire(lk), release(u), release(v)>> /\ HoldsJust(c, {x})
  BY <1>4 DEF HoldsJust
<1>q. QED
  BY <1>1, <1>2, <1>3, <1>4, AcquirePlaces DEF OrderInv

LEMMA InvNoDeadlock == OrderInv => NoDeadlock
<1>1. SUFFICES ASSUME OrderInv, NEW stuck \in (SUBSET Cpus) \ {{}},
                      \A c \in stuck : \E lk \in Locks : Wants(c, lk) /\ holder[lk] \in stuck
               PROVE  FALSE
  BY DEF NoDeadlock
<1>2. ASSUME NEW c \in stuck, NEW lk \in Locks, Wants(c, lk), holder[lk] \in stuck
      PROVE  \E d \in stuck, l \in Locks : Wants(d, l) /\ holder[l] \in stuck /\ Rank(lk) < Rank(l)
  <2>1. PICK l \in Locks : Wants(holder[lk], l) /\ holder[l] \in stuck
    BY <1>1, <1>2
  <2>2. holder[lk] \in Cpus
    BY <1>1, <1>2
  <2>3. Rank(lk) < Rank(l)
    BY <1>1, <2>1, <2>2, Upwards
  <2>q. QED BY <1>2, <2>1, <2>3
<1>3. \A lk \in Locks : Rank(lk) \in {1, 2, 3}
  BY DEF Rank
<1>4. ASSUME NEW c \in stuck, NEW lk \in Locks, Wants(c, lk), holder[lk] \in stuck PROVE Rank(lk) # 3
  BY <1>2, <1>3, <1>4
<1>5. ASSUME NEW c \in stuck, NEW lk \in Locks, Wants(c, lk), holder[lk] \in stuck PROVE Rank(lk) # 2
  BY <1>2, <1>3, <1>4, <1>5
<1>6. ASSUME NEW c \in stuck, NEW lk \in Locks, Wants(c, lk), holder[lk] \in stuck PROVE FALSE
  BY <1>2, <1>3, <1>4, <1>5, <1>6
<1>7. PICK c \in stuck : TRUE
  BY <1>1
<1>q. QED
  BY <1>1, <1>6, <1>7

\* As long as no process exits, no CPUs spin for one another's locks, however many
\* there are (spinlock.c:21-35; the sections are those of the whole kernel).
THEOREM LockOrderNoDeadlock ==
  ASSUME ~Exits
  PROVE  OrderSpec => []NoDeadlock
<1>1. OrderInit => OrderInv
  BY InitOrderInv
<1>2. OrderInv /\ [OrderNext]_ordervars => OrderInv'
  BY NextOrderInv
<1>3. OrderInv => NoDeadlock
  BY InvNoDeadlock
<1>q. QED
  BY <1>1, <1>2, <1>3, PTL DEF OrderSpec
=============================================================================
