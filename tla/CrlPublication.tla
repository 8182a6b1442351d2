--------------------------- MODULE CrlPublication ---------------------------
(***************************************************************************)
(* Who publishes CRLs (Issuer::publish_crl): the service at regular        *)
(* intervals (http.rs, start_crl_publication), every revocation command    *)
(* (ca-server revoke) and every issuance (the end of Flow::issue).  They   *)
(* run in one or several processes and nothing excludes them from each     *)
(* other: the numbers come from a sequence of the database, the contents   *)
(* from reads made before and after the number is drawn.                   *)
(*                                                                         *)
(* Issuances are those of Enrollment without the request around them.      *)
(***************************************************************************)
EXTENDS CaIssuer, FiniteSets

CONSTANTS
    Publisher,          \* periodic publication of each service process
    RevokeCommand,      \* operator commands
    Enroller,           \* handlers that issue
    CrlNumber,          \* what CrlFeed takes for CRL numbers: Nat, or the
                        \* interval that TLC needs
    MaxFaults,          \* bound: publications and issuances that stop half-way
    MaxRevokeCommands,  \* bound: revocations asked
    MaxExpired          \* bound: certificates that expire

ASSUME RolesAssumption ==
    /\ Task = Publisher \cup RevokeCommand \cup Enroller
    /\ MaxFaults \in Nat /\ MaxRevokeCommands \in Nat /\ MaxExpired \in Nat

VARIABLES
    answered,           \* history: certificates whose issuance has ended
    faults, commands    \* history: what the bounds count

history == <<answered, faults, commands>>
vars == <<storeVars, issuerVars, history>>

Init ==
    /\ IssuerInit
    /\ answered = {}
    /\ faults = 0
    /\ commands = 0

Listed(c) == RevokedSerials \subseteq c.revoked /\ IssuedSerials \subseteq c.issued

(* One tick of the periodic publication.  Bound: a round that would repeat *)
(* the current CRL is left out, so that the numbers stay finite.           *)
Tick(p) ==
    /\ p \in Publisher
    /\ pc[p] = "idle"
    /\ ~\E c \in crls : Latest(c) /\ Listed(c)
    /\ Goto(p, "read_revoked")
    /\ UNCHANGED <<storeVars, handled, newSerial, target, draft, history>>

StartRevocation(p, o, s, reason) ==
    /\ p \in RevokeCommand
    /\ pc[p] = "idle"
    /\ commands < MaxRevokeCommands
    /\ s \in Saved
    /\ commands' = commands + 1
    /\ target' = [target EXCEPT ![p] = [serial |-> s, reason |-> reason, by |-> o]]
    /\ Goto(p, "journal_revocation")
    /\ UNCHANGED <<storeVars, handled, newSerial, draft, answered, faults>>

(* Bound: one issuance per signing request at a time, and none after it    *)
(* succeeded.                                                              *)
StartIssuance(p, c) ==
    /\ p \in Enroller
    /\ pc[p] = "idle"
    /\ \A q \in Task : handled[q] # c
    /\ \A s \in Saved : certificates[s].tx # c
    /\ handled' = [handled EXCEPT ![p] = c]
    /\ Goto(p, "ensure_not_revoked")
    /\ UNCHANGED <<storeVars, newSerial, target, draft, history>>

Issuing(p) == IssuerStep(p) /\ UNCHANGED history

(* Mutant: the certificate is answered before the CRL is published.        *)
AnswerAtOnce(p) ==
    /\ pc[p] \in {"certified", "revoked"}
    /\ Goto(p, "read_revoked")
    /\ answered' = answered \cup ({newSerial[p]} \ {None})
    /\ UNCHANGED <<storeVars, handled, newSerial, target, draft, faults, commands>>

(* run_revoke, and the end of Flow::issue: publish at once.                *)
PublishAtOnce(p) ==
    /\ pc[p] \in {"certified", "revoked"}
    /\ Goto(p, "read_revoked")
    /\ UNCHANGED <<storeVars, handled, newSerial, target, draft, history>>

(* An expired certificate stays in the CRL (constat C-4).                  *)
Expire(s) ==
    /\ s \in Saved \ expired
    /\ Cardinality(expired) < MaxExpired
    /\ expired' = expired \cup {s}
    /\ UNCHANGED <<certificates, authorityRevoked, crls, crlSequence, journal,
                   issuerVars, history>>

Stop(p) ==
    /\ faults < MaxFaults
    /\ Abort(p)
    /\ faults' = faults + 1
    /\ UNCHANGED <<answered, commands>>

End(p) ==
    /\ pc[p] \in {"done", "failed"}
    /\ answered' = IF pc[p] = "done" THEN answered \cup ({newSerial[p]} \ {None})
                                     ELSE answered
    /\ Goto(p, "idle")
    /\ handled' = [handled EXCEPT ![p] = None]
    /\ newSerial' = [newSerial EXCEPT ![p] = None]
    /\ target' = [target EXCEPT ![p] = NoTarget]
    /\ draft' = [draft EXCEPT ![p] = NoDraft]
    /\ UNCHANGED <<storeVars, faults, commands>>

Step(p) == Tick(p) \/ Issuing(p) \/ PublishAtOnce(p) \/ End(p)

Next ==
    \/ \E p \in Task : Step(p) \/ Stop(p)
    \/ \E p \in Task, o \in Operator, s \in Serial, reason \in Reason :
          StartRevocation(p, o, s, reason)
    \/ \E p \in Task, c \in Csr : StartIssuance(p, c)
    \/ \E s \in Serial : Expire(s)

Spec == Init /\ [][Next]_vars

(* The timer of the periodic publication keeps ticking and the runtime     *)
(* polls every task that can run.                                          *)
FairSpec == Spec /\ \A p \in Task : WF_vars(Step(p))

-----------------------------------------------------------------------------
(* Every variable has its type.                                            *)
TypeOK ==
    /\ certificates \in [Serial -> Certificate]
    /\ crls \subseteq Crl
    /\ crlSequence \in Nat
    /\ journal \subseteq IssuerEvent
    /\ pc \in [Task -> IssuerLabel]
    /\ handled \in [Task -> Csr \cup {None}]
    /\ newSerial \in [Task -> Serial \cup {None}]
    /\ target \in [Task -> Target]
    /\ draft \in [Task -> Crl]
    /\ answered \subseteq Serial

(* A number drawn is used once, by a CRL or by a publication that has not  *)
(* ended, and the journal tells every CRL that is served.                  *)
NumbersAreUnique ==
    /\ \A c, d \in crls : c.number = d.number => c = d
    /\ \A p, q \in Task :
          p # q /\ draft[p].number # 0 => draft[p].number # draft[q].number

(* Flow::issue publishes so that a new certificate is never "unknown": the *)
(* current CRL lists every certificate that was answered to its requester, *)
(* whatever publications are under way.                                    *)
AnsweredIsListed ==
    \A c \in crls : Latest(c) => answered \subseteq c.issued

(* A revocation ends up in the current CRL and stays there, in spite of    *)
(* commands and publications that stop half-way: the periodic publication  *)
(* repairs what they leave.                                                *)
RevocationEventuallyListed ==
    \A s \in Serial :
        (certificates[s].status = "revoked")
            ~> [](\E c \in crls : Latest(c) /\ s \in c.revoked)

(* The CRLs keep the promises of CrlFeed to those who read them.           *)
Feed == INSTANCE CrlFeed WITH
            status <- [s \in Serial |->
                         CASE certificates[s].status = "revoked" -> "revoked"
                           [] certificates[s].status = "issued"  -> "good"
                           [] OTHER                              -> "unissued"],
            feed <- crls
ImplementsCrlFeed == Feed!FeedSpec
=============================================================================
