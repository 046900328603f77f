---------------------------- MODULE MCPhpServer ----------------------------
(* PhpServer for TLC: three sessions with keys of their own. *)
EXTENDS PhpServer, TLC

CONSTANTS s1, s2, s3

MCSession == {s1, s2, s3}
MCId == [s \in MCSession |-> s]
Symmetry == Permutations(MCSession)
=============================================================================
