------------------------------- MODULE MCProc -------------------------------
(* init and up to three generations of descendants, on one or two CPUs.    *)
EXTENDS Proc, TLC

CONSTANTS c1, c2

OneCpu == {c1}
TwoCpus == {c1, c2}
Sym == Permutations(TwoCpus)
=============================================================================
