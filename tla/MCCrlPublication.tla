-------------------------- MODULE MCCrlPublication --------------------------
(***************************************************************************)
(* Values of the constants of CrlPublication for TLC: the periodic         *)
(* publication, a revocation command and a handler that issues.            *)
(***************************************************************************)
EXTENDS CrlPublication

CONSTANTS pub, cmd, enr, s1, c1, op

CrlNumbers == 1 .. 8
=============================================================================
