-------------------------- MODULE MCOcspResponder --------------------------
(***************************************************************************)
(* Values of the constants of OcspResponder for TLC: one request at a time *)
(* beside the periodic refresh, two serials, two CRL numbers.              *)
(***************************************************************************)
EXTENDS OcspResponder, TLC

CONSTANTS a1, s1, s2, refresher

TwoCrls == 1 .. 2

SerialSymmetry == Permutations(Serial)
=============================================================================
