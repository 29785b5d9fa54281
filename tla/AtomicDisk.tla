----------------------------- MODULE AtomicDisk -----------------------------
(* What log.c promises to the file system: a disk whose blocks change only by  *)
(* whole transactions.  One system call at a time has the transaction; what it *)
(* writes becomes permanent all at once, before commit_trans returns; a crash  *)
(* forgets the transaction that has not become permanent and nothing else.     *)

CONSTANTS Block,    \* the sectors outside the log
          Value,    \* what a sector can hold
          NoValue   \* "this transaction has not written the block"

VARIABLES phase,    \* "closed", "open" or "committed"
          stable,   \* what a crash leaves behind
          pending   \* what the open transaction has written

vars == <<phase, stable, pending>>

Nothing == [b \in Block |-> NoValue]

Overlay == [b \in Block |-> IF pending[b] = NoValue THEN stable[b] ELSE pending[b]]

Init == /\ phase = "closed"
        /\ stable \in [Block -> Value]
        /\ pending = Nothing

Begin == /\ phase = "closed"
         /\ phase' = "open"
         /\ UNCHANGED <<stable, pending>>

Write(b, v) == /\ phase = "open"
               /\ pending' = [pending EXCEPT ![b] = v]
               /\ UNCHANGED <<phase, stable>>

Commit == /\ phase = "open"
          /\ phase' = "committed"
          /\ stable' = Overlay
          /\ pending' = Nothing

End == /\ phase = "committed"
       /\ phase' = "closed"
       /\ UNCHANGED <<stable, pending>>

Crash == /\ phase' = "closed"
         /\ pending' = Nothing
         /\ UNCHANGED stable

Next == \/ Begin
        \/ \E b \in Block, v \in Value : Write(b, v)
        \/ Commit
        \/ End
        \/ Crash

Spec == Init /\ [][Next]_vars
=============================================================================
