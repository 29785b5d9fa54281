----------------------------- MODULE MCBufCache -----------------------------
(* Processes, buffers and values are alike among themselves.                   *)
EXTENDS BufCache

Sym == Permutations(Proc) \cup Permutations(Buf) \cup Permutations(Value)
=============================================================================
