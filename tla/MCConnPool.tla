----------------------------- MODULE MCConnPool -----------------------------
(* A small instance of ConnPool.  Connections are interchangeable, and so  *)
(* are the goroutines that use them.                                       *)
EXTENDS ConnPool, TLC

Symmetry == Permutations(Conns) \cup Permutations(Users)
=============================================================================
