--------------------------- MODULE MCSignedActions ---------------------------
(* Two administrators, a guest, a fourth person to invite and a request; two handlers. *)
EXTENDS SignedActions, TLC

CONSTANTS A, B, C, D, kA, kB, kC, r, t1, t2

\* Each administrator holds the key registered on the host.
KeyOfFounder == A :> kA @@ B :> kB

Asks(kind, subject, newRole) ==
    [kind |-> kind, subject |-> subject, role |-> newRole, key |-> None]

Bodies == {Asks("confirm_key", kC, None), Asks("set_role", C, "admin"),
           Asks("set_role", C, "auditeur"), Asks("revoke_key", kA, None),
           Asks("invite_operator", D, "admin"), Asks("revoke_key", kB, None), Asks("approve_request", r, None)}

\* Each action is asked for by one of the operators; any other may join in.
Proposed == [b \in Bodies |-> CASE b.kind = "approve_request" -> {C}
                             [] b.subject = kA -> {B}
                             [] OTHER -> {A}]

\* A starts again when no administrator is left, C is helped once promoted.
CommandNames == {<<A, "bootstrap-admin">>, <<C, "recover-admin">>}

TaskSymmetry == Permutations(Task)

=============================================================================
