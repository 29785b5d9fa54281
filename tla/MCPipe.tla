------------------------------- MODULE MCPipe -------------------------------
(* Processes are alike, the killable ones among themselves, and so are bytes.  *)
EXTENDS Pipe, TLC

Sym == Permutations(Killable) \cup Permutations(Proc \ Killable) \cup Permutations(Byte)
=============================================================================
