---------------------------- MODULE MCEnrollment ----------------------------
(***************************************************************************)
(* Values of the constants of Enrollment for TLC.  Two requesters, "a" and *)
(* "b"; signing requests whose common names are chosen so that renewals,   *)
(* conflicts between requesters and bootstraps happen.  Where a task is a  *)
(* handler and a desk in turn, two tasks make two handlers, two desks or   *)
(* one of each; elsewhere one handler works beside one desk.               *)
(***************************************************************************)
EXTENDS Enrollment, TLC

CONSTANTS t1, t2, op, a, b, c1, c2, s1, s2, server, client,
          cnA, cnB, ou1, ou2

(* Requesters without certificate, or with their own.                      *)
NoClientCn == [r \in Requester |-> None]
OwnClientCn == a :> cnA @@ b :> cnB
OnlyAClientCn == a :> cnA @@ b :> None

AnySubject == [r \in Requester |-> None]
AllowAll == [r \in Requester |-> Profile]
AllowServer == [r \in Requester |-> {server}]

SameCn == [c \in Csr |-> cnA]

OwnUnit == server :> ou1 @@ client :> ou2
SharedUnit == [f \in Profile |-> ou1]

SerialSymmetry == Permutations(Serial)
SeparateSymmetry == Permutations(Serial) \cup Permutations(Csr)
ConcurrentSymmetry ==
    Permutations(Serial) \cup Permutations(Task) \cup Permutations(Csr)
=============================================================================
