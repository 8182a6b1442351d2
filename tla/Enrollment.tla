----------------------------- MODULE Enrollment -----------------------------
(***************************************************************************)
(* Enrolment (crates/oe-raflow, Flow and Decider) on top of the issuing    *)
(* engine: requesters submit certificate signing requests to ca-server,    *)
(* operators decide on them and revoke certificates from other processes,  *)
(* and a request that is approved becomes a certificate the next time its  *)
(* requester submits it.                                                   *)
(*                                                                         *)
(* A task is a handler of ca-server (one HTTP submission at a time) or a   *)
(* desk (a command of an operator).  Each await is a step; what a task     *)
(* computes between two awaits belongs to the first of them.  A submission *)
(* that is refused before its first await leaves no trace and is not a     *)
(* step.                                                                   *)
(***************************************************************************)
EXTENDS CaIssuer, FiniteSets

CONSTANTS
    Handler, Desk,      \* tasks of ca-server, operator commands
    Profile,            \* certificate profiles
    EnrollClient,       \* the profile of the requesters' own certificates
    Requester,          \* names of configured requesters
    HasSecret,          \* those with an HMAC secret
    HasTerm,            \* those whose secret has an expiry date
    ClientCn,           \* common name of each requester's certificate, or None
    SubjectCn,          \* common name imposed on it for other profiles, or None
    Allows,             \* profiles each may ask for
    HmacBootstrapOnly,  \* double authentication is over
    Cn, CnOf,           \* common names; the one in each signing request
    Ou, OuOf,           \* organizational units; the one each profile imposes
    MaxFaults,          \* bound: tasks that stop half-way
    MaxRevokeCommands,  \* bound: revocations asked by operators
    MaxExpired,         \* bound: certificates that expire
    AuthorityEnds       \* bound: whether the root may revoke the authority

ASSUME TasksAssumption == Handler \cup Desk = Task
ASSUME RequesterAssumption ==
    /\ HasSecret \subseteq Requester
    /\ HasTerm \subseteq HasSecret
    /\ ClientCn \in [Requester -> Cn \cup {None}]
    /\ SubjectCn \in [Requester -> Cn \cup {None}]
    /\ Allows \in [Requester -> SUBSET Profile]
    /\ None \notin Cn /\ None \notin Requester /\ None \notin Profile
ASSUME CsrAssumption == CnOf \in [Csr -> Cn]
ASSUME ProfileAssumption == OuOf \in [Profile -> Ou] /\ EnrollClient \in Profile
(* Flow::new refuses two requesters with one client certificate name.      *)
ASSUME ClientCnIdentifies ==
    \A r, q \in Requester : ClientCn[r] = ClientCn[q] /\ ClientCn[r] # None => r = q
ASSUME FiniteHandlers == IsFiniteSet(Handler)
ASSUME BoundAssumption ==
    /\ MaxFaults \in Nat /\ MaxRevokeCommands \in Nat /\ MaxExpired \in Nat
    /\ AuthorityEnds \in BOOLEAN

VARIABLES
    requests,        \* table requests
    job,             \* what each task was asked to do
    previous,        \* active certificates found before issuing, to supersede
    secretExpired,   \* requesters whose secret is past its term
    connected,       \* common names of the peers of open mutual-TLS connections
    delivered,       \* certificates answered to the requester, per request
    openedBySecret,  \* history: requests created by an HMAC submission
    lateIssues,      \* history: certificates saved after the authority's end
    faults, commands \* history: what the bounds count

flowVars == <<requests, job, previous, secretExpired, connected, delivered,
              openedBySecret, faults, commands>>
vars == <<storeVars, issuerVars, flowVars, lateIssues>>

RequestState == {"ABSENT", "PENDING", "APPROVED", "REJECTED", "ISSUED"}
Request == [state : RequestState, profile : Profile \cup {None},
            requester : Requester \cup {None}, operator : Operator \cup {None},
            serial : Serial \cup {None}]
NoRequest == [state |-> "ABSENT", profile |-> None, requester |-> None,
              operator |-> None, serial |-> None]

Verdict == {"APPROVED", "REJECTED"}
Job == [requester : Requester \cup {None}, profile : Profile \cup {None},
        bySecret : BOOLEAN, operator : Operator \cup {None},
        verdict : Verdict \cup {None}]
NoJob == [requester |-> None, profile |-> None, bySecret |-> FALSE,
          operator |-> None, verdict |-> None]

FlowLabel == {"bootstrap", "lookup", "journal_receipt", "create_request",
              "find_previous", "supersede",
              "find_request", "update_request", "journal_decision"}

FlowEvent ==
    ({"ca.request_received"} \X Csr \X Requester)
        \cup ({"ca.request_approved", "ca.request_rejected"} \X Csr \X Operator)
        \cup ({"ca.renewal_revocation_skipped"} \X Serial \X Serial)

Init ==
    /\ IssuerInit
    /\ requests = [c \in Csr |-> NoRequest]
    /\ job = [p \in Task |-> NoJob]
    /\ previous = [p \in Task |-> {}]
    /\ secretExpired = {}
    /\ connected = {}
    /\ delivered = [c \in Csr |-> {}]
    /\ openedBySecret = {}
    /\ lateIssues = 0
    /\ faults = 0
    /\ commands = 0

Subject(c) == <<CnOf[c], OuOf[requests[c].profile]>>
Owner(s) == requests[certificates[s].tx].requester
SubjectOf(s) == Subject(certificates[s].tx)

Active == {s \in Serial : certificates[s].status = "issued" /\ s \notin expired}
(* Mutant: the common name alone is compared, and it is never alone.       *)
ActiveByCommonName(subject) == {s \in Active : CnOf[certificates[s].tx] = subject}

ActiveBySubject(subject) == {s \in Active : SubjectOf(s) = subject}

-----------------------------------------------------------------------------
(* Submission: Flow::submit, submit_mtls and the checks of submit_as.      *)

(* Mutant: the name of a client certificate is not imposed.                *)
ExpectedCnOfOthersOnly(r, f) == SubjectCn[r]

ExpectedCn(r, f) == IF f = EnrollClient THEN ClientCn[r] ELSE SubjectCn[r]

Acceptable(r, c, f) ==
    /\ f \in Allows[r]
    /\ f = EnrollClient => ClientCn[r] # None
    /\ ExpectedCn(r, f) \in {None, CnOf[c]}

Start(p, r, c, f, bySecret, label) ==
    /\ pc[p] = "idle"
    /\ Acceptable(r, c, f)
    /\ handled' = [handled EXCEPT ![p] = c]
    /\ job' = [job EXCEPT ![p] = [NoJob EXCEPT !.requester = r, !.profile = f,
                                               !.bySecret = bySecret]]
    /\ Goto(p, label)
    /\ UNCHANGED <<storeVars, newSerial, target, draft, requests, previous,
                   secretExpired, connected, delivered, openedBySecret,
                   lateIssues, faults, commands>>

SubmitHmac(p, r, c, f) ==
    /\ r \in HasSecret \ secretExpired
    /\ ~(HmacBootstrapOnly /\ ClientCn[r] # None /\ f # EnrollClient)
    /\ Start(p, r, c, f, TRUE,
             IF f = EnrollClient THEN "bootstrap" ELSE "lookup")

SubmitMtls(p, r, c, f) ==
    /\ ClientCn[r] \in connected
    /\ Start(p, r, c, f, FALSE, "lookup")

Submit(p, r, c, f) == SubmitHmac(p, r, c, f) \/ SubmitMtls(p, r, c, f)

(* Mutant: only a request still to be decided uses the secret up.          *)
CheckBootstrapPendingOnly(p) ==
    /\ pc[p] = "bootstrap"
    /\ LET used == \E d \in Csr \ {handled[p]} :
                     /\ requests[d].state = "PENDING"
                     /\ requests[d].profile = EnrollClient
                     /\ requests[d].requester = job[p].requester
       IN  Goto(p, IF used THEN "failed" ELSE "lookup")
    /\ UNCHANGED <<storeVars, handled, newSerial, target, draft, flowVars,
                   lateIssues>>

(* Another request of the same requester for its client certificate, not   *)
(* rejected, uses the secret up.                                           *)
CheckBootstrap(p) ==
    /\ pc[p] = "bootstrap"
    /\ LET used == \E d \in Csr \ {handled[p]} :
                     /\ requests[d].state \notin {"ABSENT", "REJECTED"}
                     /\ requests[d].profile = EnrollClient
                     /\ requests[d].requester = job[p].requester
       IN  Goto(p, IF used THEN "failed" ELSE "lookup")
    /\ UNCHANGED <<storeVars, handled, newSerial, target, draft, flowVars,
                   lateIssues>>

(* Mutant: a request that waits for its decision is issued.                *)
ResumeUndecided(p, q) ==
    /\ Goto(p, CASE q.state = "REJECTED" -> "failed"
                 [] q.state = "ISSUED"   -> "done"
                 [] OTHER                -> "find_previous")
    /\ newSerial' = [newSerial EXCEPT ![p] = q.serial]

(* Mutant: an approved request is answered like one that waits.            *)
ResumeWithoutIssuing(p, q) ==
    /\ Goto(p, IF q.state = "REJECTED" THEN "failed" ELSE "done")
    /\ newSerial' = [newSerial EXCEPT ![p] = q.serial]

(* Flow::resume, and issued_certificate for a request already issued.      *)
Resume(p, q) ==
    /\ Goto(p, CASE q.state = "PENDING"  -> "done"
                 [] q.state = "REJECTED" -> "failed"
                 [] q.state = "APPROVED" -> "find_previous"
                 [] q.state = "ISSUED"   -> "done")
    /\ newSerial' = [newSerial EXCEPT ![p] = q.serial]

LookUp(p) ==
    /\ pc[p] = "lookup"
    /\ LET q == requests[handled[p]]
           same == q.requester = job[p].requester /\ q.profile = job[p].profile
       IN  \/ q.state = "ABSENT" /\ Goto(p, "journal_receipt") /\ UNCHANGED newSerial
           \/ q.state # "ABSENT" /\ ~same /\ Goto(p, "failed") /\ UNCHANGED newSerial
           \/ q.state # "ABSENT" /\ same /\ Resume(p, q)
    /\ UNCHANGED <<storeVars, handled, target, draft, flowVars, lateIssues>>

-----------------------------------------------------------------------------
(* Flow::open.  The journal comes first, then the unique key decides.      *)

JournalReceipt(p) ==
    /\ pc[p] = "journal_receipt"
    /\ Record(<<"ca.request_received", handled[p], job[p].requester>>)
    /\ Goto(p, "create_request")
    /\ UNCHANGED <<certificates, expired, authorityRevoked, crls, crlSequence,
                   handled, newSerial, target, draft, flowVars, lateIssues>>

CreateRequest(p) ==
    /\ pc[p] = "create_request"
    /\ LET c == handled[p]
       IN  \/ /\ requests[c].state = "ABSENT"
              /\ requests' = [requests EXCEPT ![c] =
                                [NoRequest EXCEPT !.state = "PENDING",
                                                  !.profile = job[p].profile,
                                                  !.requester = job[p].requester]]
              /\ openedBySecret' = IF job[p].bySecret THEN openedBySecret \cup {c}
                                                      ELSE openedBySecret
              /\ Goto(p, "done")
           \/ /\ requests[c].state # "ABSENT"
              /\ Goto(p, "failed")
              /\ UNCHANGED <<requests, openedBySecret>>
    /\ UNCHANGED <<storeVars, handled, newSerial, target, draft, job, previous,
                   secretExpired, connected, delivered, lateIssues, faults, commands>>

-----------------------------------------------------------------------------
(* Flow::issue around Issuer::issue, revoke and publish_crl.               *)

(* Read before issuing: afterwards the new certificate would be in it.     *)
FindPrevious(p) ==
    /\ pc[p] = "find_previous"
    /\ previous' = [previous EXCEPT ![p] = ActiveBySubject(Subject(handled[p]))]
    /\ Goto(p, "ensure_not_revoked")
    /\ UNCHANGED <<storeVars, handled, newSerial, target, draft, requests, job,
                   secretExpired, connected, delivered, openedBySecret,
                   lateIssues, faults, commands>>

Issuing(p) ==
    /\ IssuerStep(p)
    /\ lateIssues' = IF authorityRevoked /\ pc[p] = "save_certificate"
                     THEN lateIssues + 1 ELSE lateIssues
    /\ UNCHANGED flowVars

(* Mutant: the request is updated whatever its state.                      *)
MarkIssuedAnyway(p) ==
    /\ pc[p] = "certified"
    /\ requests' = [requests EXCEPT ![handled[p]].state = "ISSUED",
                                    ![handled[p]].serial = newSerial[p]]
    /\ Goto(p, "supersede")
    /\ UNCHANGED <<storeVars, handled, newSerial, target, draft, job, previous,
                   secretExpired, connected, delivered, openedBySecret,
                   lateIssues, faults, commands>>

(* update_request(_, Approved): one of two concurrent issuances loses.     *)
MarkIssued(p) ==
    /\ pc[p] = "certified"
    /\ LET c == handled[p]
       IN  \/ /\ requests[c].state = "APPROVED"
              /\ requests' = [requests EXCEPT ![c].state = "ISSUED",
                                              ![c].serial = newSerial[p]]
              /\ Goto(p, "supersede")
           \/ /\ requests[c].state # "APPROVED"
              /\ Goto(p, "failed")
              /\ UNCHANGED requests
    /\ UNCHANGED <<storeVars, handled, newSerial, target, draft, job, previous,
                   secretExpired, connected, delivered, openedBySecret,
                   lateIssues, faults, commands>>

(* A certificate of another requester stays, and the journal says so.      *)
SkipPrevious(p, s) ==
    /\ Owner(s) # requests[handled[p]].requester
    /\ Record(<<"ca.renewal_revocation_skipped", s, newSerial[p]>>)
    /\ previous' = [previous EXCEPT ![p] = @ \ {s}]
    /\ UNCHANGED <<pc, target>>

(* Mutant: the requester of the old certificate is not looked at.          *)
RevokePreviousOfAnyone(p, s) ==
    /\ target' = [target EXCEPT ![p] = [serial |-> s, reason |-> SUPERSEDED,
                                        by |-> Automatic]]
    /\ Goto(p, "journal_revocation")
    /\ UNCHANGED <<journal, previous>>

RevokePrevious(p, s) ==
    /\ Owner(s) = requests[handled[p]].requester
    /\ target' = [target EXCEPT ![p] = [serial |-> s, reason |-> SUPERSEDED,
                                        by |-> Automatic]]
    /\ Goto(p, "journal_revocation")
    /\ UNCHANGED <<journal, previous>>

Supersede(p) ==
    /\ pc[p] = "supersede"
    /\ \/ \E s \in previous[p] : SkipPrevious(p, s) \/ RevokePrevious(p, s)
       \/ /\ previous[p] = {}
          /\ Goto(p, "read_revoked")
          /\ UNCHANGED <<journal, previous, target>>
    /\ UNCHANGED <<certificates, expired, authorityRevoked, crls, crlSequence,
                   handled, newSerial, draft, requests, job, secretExpired,
                   connected, delivered, openedBySecret, lateIssues, faults,
                   commands>>

(* Issuer::revoke returns to the loop of Flow::issue or to run_revoke.     *)
AfterRevoke(p) ==
    /\ pc[p] = "revoked"
    /\ \/ /\ target[p].by = Automatic
          /\ previous' = [previous EXCEPT ![p] = @ \ {target[p].serial}]
          /\ Goto(p, "supersede")
       \/ /\ target[p].by # Automatic
          /\ Goto(p, "read_revoked")
          /\ UNCHANGED previous
    /\ UNCHANGED <<storeVars, handled, newSerial, target, draft, requests, job,
                   secretExpired, connected, delivered, openedBySecret,
                   lateIssues, faults, commands>>

(* The certificate is refused by its profile's own check.                  *)
Refuse(p) ==
    /\ faults < MaxFaults
    /\ RefuseNonConforming(p)
    /\ faults' = faults + 1
    /\ UNCHANGED <<requests, job, previous, secretExpired, connected, delivered,
                   openedBySecret, lateIssues, commands>>

-----------------------------------------------------------------------------
(* Decider::decide: read, compare-and-set, and only then the journal.      *)

StartDecision(p, o, c, verdict) ==
    /\ pc[p] = "idle"
    /\ handled' = [handled EXCEPT ![p] = c]
    /\ job' = [job EXCEPT ![p] = [NoJob EXCEPT !.operator = o, !.verdict = verdict]]
    /\ Goto(p, "find_request")
    /\ UNCHANGED <<storeVars, newSerial, target, draft, requests, previous,
                   secretExpired, connected, delivered, openedBySecret,
                   lateIssues, faults, commands>>

FindRequest(p) ==
    /\ pc[p] = "find_request"
    /\ Goto(p, IF requests[handled[p]].state = "PENDING" THEN "update_request"
                                                         ELSE "failed")
    /\ UNCHANGED <<storeVars, handled, newSerial, target, draft, flowVars,
                   lateIssues>>

(* Mutant: the decision is written without comparing the state again.      *)
UpdateRequestAnyway(p) ==
    /\ pc[p] = "update_request"
    /\ requests' = [requests EXCEPT ![handled[p]].state = job[p].verdict,
                                    ![handled[p]].operator = job[p].operator]
    /\ Goto(p, "journal_decision")
    /\ UNCHANGED <<storeVars, handled, newSerial, target, draft, job, previous,
                   secretExpired, connected, delivered, openedBySecret,
                   lateIssues, faults, commands>>

UpdateRequest(p) ==
    /\ pc[p] = "update_request"
    /\ LET c == handled[p]
       IN  \/ /\ requests[c].state = "PENDING"
              /\ requests' = [requests EXCEPT ![c].state = job[p].verdict,
                                              ![c].operator = job[p].operator]
              /\ Goto(p, "journal_decision")
           \/ /\ requests[c].state # "PENDING"
              /\ Goto(p, "failed")
              /\ UNCHANGED requests
    /\ UNCHANGED <<storeVars, handled, newSerial, target, draft, job, previous,
                   secretExpired, connected, delivered, openedBySecret,
                   lateIssues, faults, commands>>

DecisionEvent(verdict) ==
    IF verdict = "REJECTED" THEN "ca.request_rejected" ELSE "ca.request_approved"

JournalDecision(p) ==
    /\ pc[p] = "journal_decision"
    /\ Record(<<DecisionEvent(job[p].verdict), handled[p], job[p].operator>>)
    /\ Goto(p, "done")
    /\ UNCHANGED <<certificates, expired, authorityRevoked, crls, crlSequence,
                   handled, newSerial, target, draft, flowVars, lateIssues>>

-----------------------------------------------------------------------------
(* The rest of the world. *)

(* ca-server revoke: Issuer::revoke, then publish_crl.                     *)
StartRevocation(p, o, s, reason) ==
    /\ pc[p] = "idle"
    /\ commands < MaxRevokeCommands
    /\ s \in Saved
    /\ commands' = commands + 1
    /\ target' = [target EXCEPT ![p] = [serial |-> s, reason |-> reason, by |-> o]]
    /\ Goto(p, "journal_revocation")
    /\ UNCHANGED <<storeVars, handled, newSerial, draft, requests, job, previous,
                   secretExpired, connected, delivered, openedBySecret,
                   lateIssues, faults>>

(* ca-server authority revoke, on the host of the root.                    *)
RevokeAuthority ==
    /\ AuthorityEnds
    /\ ~authorityRevoked
    /\ authorityRevoked' = TRUE
    /\ UNCHANGED <<certificates, expired, crls, crlSequence, journal, issuerVars,
                   flowVars, lateIssues>>

Expire(s) ==
    /\ s \in Saved \ expired
    /\ Cardinality(expired) < MaxExpired
    /\ expired' = expired \cup {s}
    /\ UNCHANGED <<certificates, authorityRevoked, crls, crlSequence, journal,
                   issuerVars, flowVars, lateIssues>>

SecretExpires(r) ==
    /\ r \in HasTerm \ secretExpired
    /\ secretExpired' = secretExpired \cup {r}
    /\ UNCHANGED <<storeVars, issuerVars, requests, job, previous, connected,
                   delivered, openedBySecret, lateIssues, faults, commands>>

(* check_enroll_client_certificate runs when the connection opens, and not *)
(* again: a connection outlives the revocation of its certificate.         *)
Connect(s) ==
    /\ s \in Active
    /\ requests[certificates[s].tx].profile = EnrollClient
    /\ connected' = connected \cup {CnOf[certificates[s].tx]}
    /\ UNCHANGED <<storeVars, issuerVars, requests, job, previous, secretExpired,
                   delivered, openedBySecret, lateIssues, faults, commands>>

Disconnect(cn) ==
    /\ cn \in connected
    /\ connected' = connected \ {cn}
    /\ UNCHANGED <<storeVars, issuerVars, requests, job, previous, secretExpired,
                   delivered, openedBySecret, lateIssues, faults, commands>>

Stop(p) ==
    /\ faults < MaxFaults
    /\ Abort(p)
    /\ faults' = faults + 1
    /\ UNCHANGED <<requests, job, previous, secretExpired, connected, delivered,
                   openedBySecret, lateIssues, commands>>

(* The answer leaves; the task forgets everything it held.                 *)
Answer(p) ==
    /\ pc[p] \in {"done", "failed"}
    /\ delivered' = IF pc[p] = "done" /\ newSerial[p] # None
                    THEN [delivered EXCEPT ![handled[p]] = @ \cup {newSerial[p]}]
                    ELSE delivered
    /\ Goto(p, "idle")
    /\ handled' = [handled EXCEPT ![p] = None]
    /\ newSerial' = [newSerial EXCEPT ![p] = None]
    /\ target' = [target EXCEPT ![p] = NoTarget]
    /\ draft' = [draft EXCEPT ![p] = NoDraft]
    /\ job' = [job EXCEPT ![p] = NoJob]
    /\ previous' = [previous EXCEPT ![p] = {}]
    /\ UNCHANGED <<storeVars, requests, secretExpired, connected, openedBySecret,
                   lateIssues, faults, commands>>

-----------------------------------------------------------------------------
Step(p) ==
    \/ CheckBootstrap(p)
    \/ LookUp(p)
    \/ JournalReceipt(p)
    \/ CreateRequest(p)
    \/ FindPrevious(p)
    \/ Issuing(p)
    \/ MarkIssued(p)
    \/ Supersede(p)
    \/ AfterRevoke(p)
    \/ FindRequest(p)
    \/ UpdateRequest(p)
    \/ JournalDecision(p)
    \/ Answer(p)

DeskStart(p) ==
    \E o \in Operator :
        \/ \E c \in Csr, verdict \in Verdict : StartDecision(p, o, c, verdict)
        \/ \E s \in Serial, reason \in Reason : StartRevocation(p, o, s, reason)

Environment ==
    \/ RevokeAuthority
    \/ \E s \in Serial : Expire(s) \/ Connect(s)
    \/ \E r \in Requester : SecretExpires(r)
    \/ \E cn \in Cn : Disconnect(cn)

Next ==
    \/ \E p \in Task : Step(p) \/ Refuse(p) \/ Stop(p)
    \/ \E p \in Handler, r \in Requester, c \in Csr, f \in Profile : Submit(p, r, c, f)
    \/ \E p \in Desk : DeskStart(p)
    \/ Environment

Spec == Init /\ [][Next]_vars

(* The runtime polls every task that can run; a client that waits for its  *)
(* certificate submits again until it has it, and its connection is always *)
(* accepted in the end (a handler per connection; the finite set Handler   *)
(* is a bound of the model, hence the strong fairness).                    *)
Fairness ==
    /\ \A p \in Task : WF_vars(Step(p))
    /\ \A r \in Requester, c \in Csr, f \in Profile :
          SF_vars(\E p \in Handler : Submit(p, r, c, f))
FairSpec == Spec /\ Fairness

-----------------------------------------------------------------------------
(* Properties. *)

(* Every variable has its type; a task's locals are of the right kind.     *)
TypeOK ==
    /\ certificates \in [Serial -> Certificate]
    /\ expired \subseteq Serial
    /\ authorityRevoked \in BOOLEAN
    /\ crls \subseteq Crl
    /\ crlSequence \in Nat
    /\ journal \subseteq IssuerEvent \cup FlowEvent
    /\ pc \in [Task -> IssuerLabel \cup FlowLabel]
    /\ handled \in [Task -> Csr \cup {None}]
    /\ newSerial \in [Task -> Serial \cup {None}]
    /\ target \in [Task -> Target]
    /\ draft \in [Task -> Crl]
    /\ requests \in [Csr -> Request]
    /\ job \in [Task -> Job]
    /\ previous \in [Task -> SUBSET Serial]
    /\ secretExpired \subseteq Requester
    /\ connected \subseteq Cn
    /\ delivered \in [Csr -> SUBSET Serial]
    /\ openedBySecret \subseteq Csr
    /\ lateIssues \in Nat
    /\ faults \in Nat
    /\ commands \in Nat

(* REG-6.4.5-04: whatever the interleaving, a certificate exists only for  *)
(* a request an operator approved under their name (Flow::resume, decide). *)
IssuedOnlyAfterApproval ==
    \A s \in Saved :
        /\ certificates[s].tx \in Csr
        /\ requests[certificates[s].tx].state \in {"APPROVED", "ISSUED"}
        /\ requests[certificates[s].tx].operator \in Operator

(* The journal is written before the registry: nothing is in the registry  *)
(* that the journal does not tell (issue, revoke, publish_crl, open).      *)
JournalPrecedesRegistry ==
    /\ \A s \in Saved :
          <<"ca.certificate_issued", s, certificates[s].tx>> \in journal
    /\ \A s \in RevokedSerials : \E by \in Revoker :
          <<"ca.certificate_revoked", s, certificates[s].reason, by>> \in journal
    /\ \A c \in crls : <<"ca.crl_published", c.number>> \in journal
    /\ \A c \in Csr : requests[c].state # "ABSENT" =>
          <<"ca.request_received", c, requests[c].requester>> \in journal

(* A decision is journalled after the compare-and-set, so that the journal *)
(* never tells a decision that lost the race (Decider::decide).            *)
JournalledDecisionsTookPlace ==
    \A c \in Csr, o \in Operator :
        /\ <<"ca.request_approved", c, o>> \in journal =>
              requests[c].state \in {"APPROVED", "ISSUED"} /\ requests[c].operator = o
        /\ <<"ca.request_rejected", c, o>> \in journal =>
              requests[c].state = "REJECTED" /\ requests[c].operator = o

(* Two handlers may sign two certificates for one request; the requester   *)
(* only ever receives the one the request records.                         *)
DeliveredIsRecorded ==
    \A c \in Csr : \A s \in delivered[c] :
        requests[c].state = "ISSUED" /\ requests[c].serial = s

(* A renewal revokes only what it replaces: another certificate of the     *)
(* same subject, issued to the same requester (constat R-3).               *)
SupersededByItsOwner ==
    \A s \in Serial :
        <<"ca.certificate_revoked", s, SUPERSEDED, Automatic>> \in journal =>
            \E n \in Saved \ {s} : SubjectOf(n) = SubjectOf(s) /\ Owner(n) = Owner(s)

(* A peer admitted by mutual TLS speaks for the requester it names: that   *)
(* requester, and no other, asked for a certificate of that name.          *)
PeerSpeaksForItself ==
    \A r \in Requester : ClientCn[r] \in connected =>
        \E c \in Csr : /\ requests[c].state \in {"APPROVED", "ISSUED"}
                       /\ requests[c].profile = EnrollClient
                       /\ requests[c].requester = r

(* Once the root revokes the authority, only issuances already past        *)
(* ensure_not_revoked still end: one per handler at most.                  *)
FewLateIssues == lateIssues <= Cardinality(Handler)

(* A decision, a revocation and the certificate of a request are final:    *)
(* no interleaving undoes or replaces them.                                *)
NothingIsUndone ==
    [][/\ \A c \in Csr :
            /\ requests[c].state \in {"REJECTED", "ISSUED"} =>
                  requests'[c] = requests[c]
            /\ requests[c].state = "APPROVED" =>
                  /\ requests'[c].state \in {"APPROVED", "ISSUED"}
                  /\ requests'[c].operator = requests[c].operator
       /\ \A s \in RevokedSerials : certificates'[s] = certificates[s]]_vars

AtRest == \A p \in Task : pc[p] = "idle"

(* docs/CA.md, "une seule unite active par sujet": once every task is      *)
(* done, a requester has at most one active certificate per subject.       *)
OneActiveAtRest ==
    AtRest => \A s, n \in Active :
                 SubjectOf(s) = SubjectOf(n) /\ Owner(s) = Owner(n) => s = n

(* ensure_bootstrap_unused: a secret opens one request for a client        *)
(* certificate, the rejected ones not counted.                             *)
BootstrapOnce ==
    \A c, d \in openedBySecret :
        /\ requests[c].profile = EnrollClient /\ requests[d].profile = EnrollClient
        /\ requests[c].requester = requests[d].requester
        /\ requests[c].state # "REJECTED" /\ requests[d].state # "REJECTED"
        => c = d

(* A requester that keeps asking ends up with the certificate of its       *)
(* approved request, unless the authority is stopped.                      *)
ApprovedEventuallyDelivered ==
    \A c \in Csr : requests[c].state = "APPROVED"
                      ~> (delivered[c] # {} \/ authorityRevoked)

-----------------------------------------------------------------------------
(* Enrollment keeps the promises of RequestLifecycle: every step of every  *)
(* task, whatever the interleaving, is one of its steps or none.           *)
Lifecycle == INSTANCE RequestLifecycle WITH
    phase <- [c \in Csr |-> requests[c].state],
    decidedBy <- [c \in Csr |-> requests[c].operator],
    certified <- [c \in Csr |-> {s \in Saved : certificates[s].tx = c}],
    settledOn <- [c \in Csr |-> requests[c].serial],
    answered <- delivered
ImplementsLifecycle == Lifecycle!LifecycleSpec
=============================================================================
