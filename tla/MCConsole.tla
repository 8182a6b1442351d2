------------------------------- MODULE MCConsole -------------------------------
(* Two operators with a key each, one already connected; two requests at a time. *)
EXTENDS Incidents, TLC

CONSTANTS A, B, kA, kB, a1, h1, h2

KeyOwner == kA :> A @@ kB :> B
Roles == A :> "ra_operateur" @@ B :> "ca_operateur"
Connected == <<kB>>

Reports == {<<kA, 1>>, <<kB, 1>>, <<kB, 2>>}
Demotions == {<<B, "auditeur">>}

HandlerSymmetry == Permutations(Handler)

=============================================================================
