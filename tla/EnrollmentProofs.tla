-------------------------- MODULE EnrollmentProofs --------------------------
(***************************************************************************)
(* Theorems about Enrollment, for every number of requesters, requests,    *)
(* serials, handlers and operators, and whatever stops half-way.           *)
(*                                                                         *)
(* The inductive invariant IInv adds to the properties what each task      *)
(* knows at each point of its program: that the request it issues for was  *)
(* approved (it stays so), that its locals are set, that the certificate   *)
(* it is about to answer is the one the request records.  On it rest the   *)
(* refinement of RequestLifecycle, the journal (JInv), the renewals        *)
(* (SInv), the peers (PInv), the end of the authority (LInv) and, for one  *)
(* submission at a time, the bootstrap (BInv) and the twins (AInv).        *)
(***************************************************************************)
EXTENDS Enrollment, FiniteSetTheorems, TLAPS

EnrollLabel == {"bootstrap", "lookup", "journal_receipt", "create_request"}
IssueLabel == {"find_previous", "ensure_not_revoked", "reserve_serial",
               "check_profile", "save_certificate", "certified", "supersede"}
DecideLabel == {"find_request", "update_request", "journal_decision"}
RevokeLabel == {"journal_revocation", "store_revocation", "revoked"}
PublishLabel == {"read_revoked", "next_number", "read_issued", "journal_crl",
                 "save_crl", "done"}

LocalsOK(p) ==
    /\ pc[p] \in EnrollLabel \cup IssueLabel \cup DecideLabel => handled[p] \in Csr
    /\ pc[p] \in EnrollLabel =>
          job[p].requester \in Requester /\ job[p].profile \in Profile
    /\ pc[p] \in DecideLabel =>
          job[p].operator \in Operator /\ job[p].verdict \in Verdict
    /\ pc[p] \in {"check_profile", "save_certificate", "certified", "supersede"} =>
          newSerial[p] \in Serial
    /\ pc[p] \in RevokeLabel =>
          /\ target[p].serial \in Serial
          /\ target[p].reason \in AllowedReasons
          /\ target[p].by \in Revoker
          /\ target[p].by = Automatic => newSerial[p] \in Serial
    /\ pc[p] \in {"idle"} \cup EnrollLabel \cup DecideLabel => newSerial[p] = None

Approved(c) == requests[c].state \in {"APPROVED", "ISSUED"}

(* A task that issues does so for a request that was approved.             *)
IssuesApproved(p) == pc[p] \in IssueLabel => Approved(handled[p])

(* A task that has signed holds the certificate it saved for its request.  *)
HoldsCertificate(p) ==
    pc[p] = "certified" =>
        newSerial[p] \in Saved /\ certificates[newSerial[p]].tx = handled[p]

(* Past the compare-and-set, and when it resumes an issued request, a task *)
(* holds the certificate the request records.                              *)
HoldsRecorded(p) ==
    pc[p] \in PublishLabel \cup RevokeLabel \cup {"supersede"} /\ newSerial[p] # None =>
        /\ handled[p] \in Csr
        /\ requests[handled[p]].state = "ISSUED"
        /\ requests[handled[p]].serial = newSerial[p]

RequestsOK ==
    \A c \in Csr : /\ Approved(c) => requests[c].operator \in Operator
                   /\ requests[c].state # "ISSUED" => requests[c].serial = None
                   /\ requests[c].state = "ABSENT" => requests[c].operator = None

TaskOK(p) ==
    /\ LocalsOK(p)
    /\ IssuesApproved(p)
    /\ HoldsCertificate(p)
    /\ HoldsRecorded(p)
TasksOK == \A p \in Task : TaskOK(p)

IInv ==
    /\ TypeOK
    /\ RequestsOK
    /\ TasksOK
    /\ IssuedOnlyAfterApproval
    /\ DeliveredIsRecorded

-----------------------------------------------------------------------------
(* What every step keeps of the requests and of the certificates.          *)
Grows ==
    /\ \A c \in Csr : /\ Approved(c) => Approved(c)'
                      /\ requests[c].state = "ISSUED" => requests'[c] = requests[c]
    /\ \A s \in Saved : /\ s \in Saved'
                        /\ certificates'[s].tx = certificates[s].tx

(* Only task p moves.                                                      *)
OthersStay(p) ==
    \A q \in Task \ {p} :
        /\ pc'[q] = pc[q]
        /\ handled'[q] = handled[q]
        /\ newSerial'[q] = newSerial[q]
        /\ job'[q] = job[q]
        /\ target'[q] = target[q]

(* A task that does not move keeps what it knows.                          *)
LEMMA OthersKeep ==
    ASSUME IInv, Grows, NEW p \in Task, OthersStay(p), NEW q \in Task, q # p
    PROVE  TaskOK(q)'
  <1>0. /\ LocalsOK(q)
        /\ IssuesApproved(q)
        /\ HoldsCertificate(q)
        /\ HoldsRecorded(q)
        /\ TypeOK
    BY DEF IInv, TasksOK, TaskOK
  <1> USE DEF OthersStay
  <1>1. LocalsOK(q)'
    BY <1>0 DEF LocalsOK
  <1>2. IssuesApproved(q)'
    BY <1>0 DEF IssuesApproved, LocalsOK, Grows, Approved
  <1>3. HoldsCertificate(q)'
    BY <1>0 DEF HoldsCertificate, Grows
  <1>4. HoldsRecorded(q)'
    BY <1>0 DEF HoldsRecorded, Grows
  <1> QED
    BY <1>1, <1>2, <1>3, <1>4 DEF TaskOK

(* What is left to show of a step of task p that leaves the requests, the  *)
(* certificates and what was answered alone: types and its own locals.     *)
LEMMA LocalStep ==
    ASSUME IInv, NEW p \in Task, OthersStay(p), TypeOK', TaskOK(p)',
           UNCHANGED <<requests, certificates, delivered>>
    PROVE  IInv'
  <1>1. Grows
    BY DEF Grows, Approved, Saved
  <1>2. TasksOK'
    BY <1>1, OthersKeep DEF TasksOK
  <1>3. RequestsOK' /\ IssuedOnlyAfterApproval' /\ DeliveredIsRecorded'
    BY DEF IInv, RequestsOK, IssuedOnlyAfterApproval, DeliveredIsRecorded, Approved, Saved
  <1> QED
    BY <1>2, <1>3 DEF IInv

(* The same for a step that changes nothing a task looks at.               *)
LEMMA EnvironmentStep ==
    ASSUME IInv, TypeOK', UNCHANGED <<pc, handled, newSerial, job, target>>,
           UNCHANGED <<requests, certificates, delivered>>
    PROVE  IInv'
  BY DEF IInv, TasksOK, TaskOK, LocalsOK, IssuesApproved, HoldsCertificate,
     HoldsRecorded, RequestsOK, IssuedOnlyAfterApproval, DeliveredIsRecorded,
     Approved, Saved

LEMMA InitIInv == Init => IInv
  <1> SUFFICES ASSUME Init PROVE IInv
    OBVIOUS
  <1> USE DEF Init, IssuerInit, StoreInit, NoRow, NoRequest, NoJob, NoTarget, NoDraft
  <1>1. TypeOK
    BY NoneIsNoValue DEF TypeOK, Certificate, CertificateStatus, Crl, IssuerLabel,
       FlowLabel, Target, Request, RequestState, Job
  <1>2. RequestsOK
    BY DEF RequestsOK, Approved
  <1>3. TasksOK
    BY DEF TasksOK, TaskOK, LocalsOK, IssuesApproved, HoldsCertificate, HoldsRecorded,
       EnrollLabel, IssueLabel, DecideLabel, RevokeLabel, PublishLabel
  <1>4. IssuedOnlyAfterApproval
    BY DEF IssuedOnlyAfterApproval, Saved
  <1>5. DeliveredIsRecorded
    BY DEF DeliveredIsRecorded
  <1> QED
    BY <1>1, <1>2, <1>3, <1>4, <1>5 DEF IInv

LEMMA StartIInv ==
    ASSUME IInv, NEW p \in Task, NEW r \in Requester, NEW c \in Csr,
           NEW f \in Profile, NEW bySecret \in BOOLEAN,
           NEW label \in {"bootstrap", "lookup"}, Start(p, r, c, f, bySecret, label)
    PROVE  IInv'
  <1> USE DEF Start, Goto, storeVars, flowVars, NoJob
  <1>1. TypeOK'
    BY DEF IInv, TypeOK, IssuerLabel, FlowLabel, TasksOK, TaskOK, LocalsOK,
       EnrollLabel, IssueLabel, DecideLabel, RevokeLabel, Job
  <1>2. OthersStay(p)
    BY DEF IInv, TypeOK, OthersStay
  <1>3. TaskOK(p)'
    BY DEF IInv, TypeOK, TasksOK, TaskOK, LocalsOK, IssuesApproved, HoldsCertificate,
       HoldsRecorded, EnrollLabel, IssueLabel, DecideLabel, RevokeLabel, PublishLabel
  <1> QED
    BY <1>1, <1>2, <1>3, LocalStep

LEMMA CheckBootstrapIInv ==
    ASSUME IInv, NEW p \in Task, CheckBootstrap(p)
    PROVE  IInv'
  <1> USE DEF CheckBootstrap, Goto, storeVars, flowVars
  <1>1. TypeOK'
    <2>1. pc' \in [Task -> IssuerLabel \cup FlowLabel]
      BY DEF IInv, TypeOK, IssuerLabel, FlowLabel
    <2> QED
      BY <2>1 DEF IInv, TypeOK
  <1>2. OthersStay(p)
    BY DEF IInv, TypeOK, OthersStay
  <1>3. TaskOK(p)'
    BY DEF IInv, TypeOK, TasksOK, TaskOK, LocalsOK, IssuesApproved, HoldsCertificate,
       HoldsRecorded, EnrollLabel, IssueLabel, DecideLabel, RevokeLabel, PublishLabel
  <1> QED
    BY <1>1, <1>2, <1>3, LocalStep

LEMMA LookUpIInv ==
    ASSUME IInv, NEW p \in Task, LookUp(p)
    PROVE  IInv'
  <1> USE DEF LookUp, Goto, storeVars, flowVars, Resume
  <1>1. TypeOK'
    <2>1. handled[p] \in Csr
      BY DEF IInv, TypeOK, TasksOK, TaskOK, LocalsOK, EnrollLabel
    <2>2. requests[handled[p]] \in Request
      BY <2>1 DEF IInv, TypeOK
    <2>3. pc' \in [Task -> IssuerLabel \cup FlowLabel]
      BY <2>2 DEF IInv, TypeOK, IssuerLabel, FlowLabel, Request, RequestState
    <2>4. newSerial' \in [Task -> Serial \cup {None}]
      BY <2>2 DEF IInv, TypeOK, Request
    <2> QED
      BY <2>3, <2>4 DEF IInv, TypeOK
  <1>2. OthersStay(p)
    BY DEF IInv, TypeOK, OthersStay
  <1>3. TaskOK(p)'
    BY DEF IInv, TypeOK, TasksOK, TaskOK, LocalsOK, IssuesApproved, HoldsCertificate,
       HoldsRecorded, EnrollLabel, IssueLabel, DecideLabel, RevokeLabel, PublishLabel,
       RequestsOK, Approved, Request, RequestState
  <1> QED
    BY <1>1, <1>2, <1>3, LocalStep

LEMMA JournalReceiptIInv ==
    ASSUME IInv, NEW p \in Task, JournalReceipt(p)
    PROVE  IInv'
  <1> USE DEF JournalReceipt, Goto, storeVars, flowVars, Record
  <1>1. TypeOK'
    BY DEF IInv, TypeOK, IssuerLabel, FlowLabel, TasksOK, TaskOK, LocalsOK,
       EnrollLabel, IssueLabel, DecideLabel, RevokeLabel, FlowEvent
  <1>2. OthersStay(p)
    BY DEF IInv, TypeOK, OthersStay
  <1>3. TaskOK(p)'
    BY DEF IInv, TypeOK, TasksOK, TaskOK, LocalsOK, IssuesApproved, HoldsCertificate,
       HoldsRecorded, EnrollLabel, IssueLabel, DecideLabel, RevokeLabel, PublishLabel
  <1> QED
    BY <1>1, <1>2, <1>3, LocalStep

LEMMA FindPreviousIInv ==
    ASSUME IInv, NEW p \in Task, FindPrevious(p)
    PROVE  IInv'
  <1> USE DEF FindPrevious, Goto, storeVars, flowVars
  <1>1. TypeOK'
    BY DEF IInv, TypeOK, IssuerLabel, FlowLabel, TasksOK, TaskOK, LocalsOK,
       EnrollLabel, IssueLabel, DecideLabel, RevokeLabel, ActiveBySubject, Active
  <1>2. OthersStay(p)
    BY DEF IInv, TypeOK, OthersStay
  <1>3. TaskOK(p)'
    BY DEF IInv, TypeOK, TasksOK, TaskOK, LocalsOK, IssuesApproved, HoldsCertificate,
       HoldsRecorded, EnrollLabel, IssueLabel, DecideLabel, RevokeLabel, PublishLabel, Approved
  <1> QED
    BY <1>1, <1>2, <1>3, LocalStep

LEMMA SupersedeIInv ==
    ASSUME IInv, NEW p \in Task, Supersede(p)
    PROVE  IInv'
  <1> USE DEF Supersede, Goto
  <1>0. newSerial[p] \in Serial /\ handled[p] \in Csr
    BY DEF IInv, TasksOK, TaskOK, LocalsOK, IssueLabel
  <1>1. TypeOK'
    <2>1. ASSUME NEW s \in previous[p], SkipPrevious(p, s)
          PROVE  TypeOK'
      BY <1>0, <2>1 DEF SkipPrevious, Record, IInv, TypeOK, FlowEvent
    <2>2. ASSUME NEW s \in previous[p], RevokePrevious(p, s)
          PROVE  TypeOK'
      <3>1. s \in Serial
        BY DEF IInv, TypeOK
      <3>2. [serial |-> s, reason |-> SUPERSEDED, by |-> Automatic] \in Target
        BY <3>1 DEF Target, Revoker, AllowedReasons, SUPERSEDED
      <3> QED
        BY <2>2, <3>2 DEF RevokePrevious, IInv, TypeOK, IssuerLabel
    <2>3. CASE previous[p] = {} /\ Goto(p, "read_revoked")
                 /\ UNCHANGED <<journal, previous, target>>
      BY <2>3 DEF IInv, TypeOK, IssuerLabel
    <2> QED
      BY <2>1, <2>2, <2>3
  <1>2. OthersStay(p)
    BY DEF IInv, TypeOK, OthersStay, SkipPrevious, RevokePrevious
  <1>3. TaskOK(p)'
    <2> USE DEF IInv, TypeOK, TasksOK, TaskOK, LocalsOK, IssuesApproved, HoldsCertificate,
          HoldsRecorded, EnrollLabel, IssueLabel, DecideLabel, RevokeLabel, PublishLabel
    <2>1. ASSUME NEW s \in previous[p], SkipPrevious(p, s)
          PROVE  TaskOK(p)'
      BY <2>1 DEF SkipPrevious, Approved, Saved
    <2>2. ASSUME NEW s \in previous[p], RevokePrevious(p, s)
          PROVE  TaskOK(p)'
      BY <1>0, <2>2 DEF RevokePrevious, Revoker, AllowedReasons, SUPERSEDED
    <2>3. CASE previous[p] = {} /\ Goto(p, "read_revoked")
                 /\ UNCHANGED <<journal, previous, target>>
      BY <2>3
    <2> QED
      BY <2>1, <2>2, <2>3
  <1> QED
    BY <1>1, <1>2, <1>3, LocalStep

LEMMA AfterRevokeIInv ==
    ASSUME IInv, NEW p \in Task, AfterRevoke(p)
    PROVE  IInv'
  <1> USE DEF AfterRevoke, Goto, storeVars, flowVars
  <1>1. TypeOK'
    BY DEF IInv, TypeOK, IssuerLabel, FlowLabel, TasksOK, TaskOK, LocalsOK,
       EnrollLabel, IssueLabel, DecideLabel, RevokeLabel
  <1>2. OthersStay(p)
    BY DEF IInv, TypeOK, OthersStay
  <1>3. TaskOK(p)'
    <2> USE DEF IInv, TypeOK, TasksOK, TaskOK, LocalsOK, IssuesApproved, HoldsCertificate,
          HoldsRecorded, EnrollLabel, IssueLabel, DecideLabel, RevokeLabel, PublishLabel
    <2>1. CASE target[p].by = Automatic
      <3>1. newSerial[p] \in Serial
        BY <2>1
      <3>2. handled[p] \in Csr /\ Approved(handled[p])
        BY <3>1, NoneIsNoValue DEF Approved
      <3> QED
        BY <2>1, <3>1, <3>2 DEF Approved
    <2>2. CASE target[p].by # Automatic
      BY <2>2
    <2> QED
      BY <2>1, <2>2
  <1> QED
    BY <1>1, <1>2, <1>3, LocalStep

LEMMA RefuseIInv ==
    ASSUME IInv, NEW p \in Task, Refuse(p)
    PROVE  IInv'
  <1> USE DEF Refuse, Goto, storeVars, flowVars, RefuseNonConforming, Record
  <1>1. TypeOK'
    BY DEF IInv, TypeOK, IssuerLabel, FlowLabel, TasksOK, TaskOK, LocalsOK,
       EnrollLabel, IssueLabel, DecideLabel, RevokeLabel, IssuerEvent
  <1>2. OthersStay(p)
    BY DEF IInv, TypeOK, OthersStay
  <1>3. TaskOK(p)'
    BY DEF IInv, TypeOK, TasksOK, TaskOK, LocalsOK, IssuesApproved, HoldsCertificate,
       HoldsRecorded, EnrollLabel, IssueLabel, DecideLabel, RevokeLabel, PublishLabel
  <1> QED
    BY <1>1, <1>2, <1>3, LocalStep

LEMMA StartDecisionIInv ==
    ASSUME IInv, NEW p \in Task, NEW o \in Operator, NEW c \in Csr,
           NEW verdict \in Verdict, StartDecision(p, o, c, verdict)
    PROVE  IInv'
  <1> USE DEF StartDecision, Goto, storeVars, flowVars, NoJob
  <1>1. TypeOK'
    BY DEF IInv, TypeOK, IssuerLabel, FlowLabel, TasksOK, TaskOK, LocalsOK,
       EnrollLabel, IssueLabel, DecideLabel, RevokeLabel, Job
  <1>2. OthersStay(p)
    BY DEF IInv, TypeOK, OthersStay
  <1>3. TaskOK(p)'
    BY DEF IInv, TypeOK, TasksOK, TaskOK, LocalsOK, IssuesApproved, HoldsCertificate,
       HoldsRecorded, EnrollLabel, IssueLabel, DecideLabel, RevokeLabel, PublishLabel
  <1> QED
    BY <1>1, <1>2, <1>3, LocalStep

LEMMA FindRequestIInv ==
    ASSUME IInv, NEW p \in Task, FindRequest(p)
    PROVE  IInv'
  <1> USE DEF FindRequest, Goto, storeVars, flowVars
  <1>1. TypeOK'
    BY DEF IInv, TypeOK, IssuerLabel, FlowLabel, TasksOK, TaskOK, LocalsOK,
       EnrollLabel, IssueLabel, DecideLabel, RevokeLabel
  <1>2. OthersStay(p)
    BY DEF IInv, TypeOK, OthersStay
  <1>3. TaskOK(p)'
    BY DEF IInv, TypeOK, TasksOK, TaskOK, LocalsOK, IssuesApproved, HoldsCertificate,
       HoldsRecorded, EnrollLabel, IssueLabel, DecideLabel, RevokeLabel, PublishLabel
  <1> QED
    BY <1>1, <1>2, <1>3, LocalStep

LEMMA JournalDecisionIInv ==
    ASSUME IInv, NEW p \in Task, JournalDecision(p)
    PROVE  IInv'
  <1> USE DEF JournalDecision, Goto, storeVars, flowVars, Record, DecisionEvent
  <1>1. TypeOK'
    BY DEF IInv, TypeOK, IssuerLabel, FlowLabel, TasksOK, TaskOK, LocalsOK,
       EnrollLabel, IssueLabel, DecideLabel, RevokeLabel, FlowEvent
  <1>2. OthersStay(p)
    BY DEF IInv, TypeOK, OthersStay
  <1>3. TaskOK(p)'
    BY DEF IInv, TypeOK, TasksOK, TaskOK, LocalsOK, IssuesApproved, HoldsCertificate,
       HoldsRecorded, EnrollLabel, IssueLabel, DecideLabel, RevokeLabel, PublishLabel
  <1> QED
    BY <1>1, <1>2, <1>3, LocalStep

LEMMA StartRevocationIInv ==
    ASSUME IInv, NEW p \in Task, NEW o \in Operator, NEW s \in Serial,
           NEW reason \in Reason, StartRevocation(p, o, s, reason)
    PROVE  IInv'
  <1> USE DEF StartRevocation, Goto, storeVars, flowVars, Revoker
  <1>1. TypeOK'
    BY ReasonAssumption DEF IInv, TypeOK, IssuerLabel, FlowLabel, TasksOK, TaskOK, LocalsOK,
       EnrollLabel, IssueLabel, DecideLabel, RevokeLabel, Target, AllowedReasons
  <1>2. OthersStay(p)
    BY DEF IInv, TypeOK, OthersStay
  <1>3. TaskOK(p)'
    BY ReasonAssumption, AutomaticIsNobody, NoneIsNoValue
    DEF IInv, TypeOK, TasksOK, TaskOK, LocalsOK, IssuesApproved, HoldsCertificate,
       HoldsRecorded, EnrollLabel, IssueLabel, DecideLabel, RevokeLabel, PublishLabel
  <1> QED
    BY <1>1, <1>2, <1>3, LocalStep

LEMMA StopIInv ==
    ASSUME IInv, NEW p \in Task, Stop(p)
    PROVE  IInv'
  <1> USE DEF Stop, Goto, storeVars, flowVars, Abort
  <1>1. TypeOK'
    BY DEF IInv, TypeOK, IssuerLabel, FlowLabel, TasksOK, TaskOK, LocalsOK,
       EnrollLabel, IssueLabel, DecideLabel, RevokeLabel
  <1>2. OthersStay(p)
    BY DEF IInv, TypeOK, OthersStay
  <1>3. TaskOK(p)'
    BY DEF IInv, TypeOK, TasksOK, TaskOK, LocalsOK, IssuesApproved, HoldsCertificate,
       HoldsRecorded, EnrollLabel, IssueLabel, DecideLabel, RevokeLabel, PublishLabel
  <1> QED
    BY <1>1, <1>2, <1>3, LocalStep

-----------------------------------------------------------------------------
(* The steps of the issuing engine that leave the certificates alone.      *)

LEMMA EnsureNotRevokedIInv ==
    ASSUME IInv, NEW p \in Task, EnsureNotRevoked(p), UNCHANGED flowVars, lateIssues' \in Nat
    PROVE  IInv'
  <1> USE DEF EnsureNotRevoked, Goto, storeVars, flowVars
  <1>1. TypeOK'
    BY DEF IInv, TypeOK, IssuerLabel, FlowLabel, TasksOK, TaskOK, LocalsOK,
       EnrollLabel, IssueLabel, DecideLabel, RevokeLabel
  <1>2. OthersStay(p)
    BY DEF IInv, TypeOK, OthersStay
  <1>3. TaskOK(p)'
    BY DEF IInv, TypeOK, TasksOK, TaskOK, LocalsOK, IssuesApproved, HoldsCertificate,
       HoldsRecorded, EnrollLabel, IssueLabel, DecideLabel, RevokeLabel, PublishLabel, Approved
  <1> QED
    BY <1>1, <1>2, <1>3, LocalStep

LEMMA JournalIssuanceIInv ==
    ASSUME IInv, NEW p \in Task, JournalIssuance(p), UNCHANGED flowVars, lateIssues' \in Nat
    PROVE  IInv'
  <1> USE DEF JournalIssuance, Goto, storeVars, flowVars, Record
  <1>1. TypeOK'
    BY DEF IInv, TypeOK, IssuerLabel, FlowLabel, TasksOK, TaskOK, LocalsOK,
       EnrollLabel, IssueLabel, DecideLabel, RevokeLabel, IssuerEvent
  <1>2. OthersStay(p)
    BY DEF IInv, TypeOK, OthersStay
  <1>3. TaskOK(p)'
    BY DEF IInv, TypeOK, TasksOK, TaskOK, LocalsOK, IssuesApproved, HoldsCertificate,
       HoldsRecorded, EnrollLabel, IssueLabel, DecideLabel, RevokeLabel, PublishLabel, Approved
  <1> QED
    BY <1>1, <1>2, <1>3, LocalStep

LEMMA JournalRevocationIInv ==
    ASSUME IInv, NEW p \in Task, JournalRevocation(p), UNCHANGED flowVars, lateIssues' \in Nat
    PROVE  IInv'
  <1> USE DEF JournalRevocation, Goto, storeVars, flowVars, Record
  <1>1. TypeOK'
    BY DEF IInv, TypeOK, IssuerLabel, FlowLabel, TasksOK, TaskOK, LocalsOK,
       EnrollLabel, IssueLabel, DecideLabel, RevokeLabel, IssuerEvent
  <1>2. OthersStay(p)
    BY DEF IInv, TypeOK, OthersStay
  <1>3. TaskOK(p)'
    BY DEF IInv, TypeOK, TasksOK, TaskOK, LocalsOK, IssuesApproved, HoldsCertificate,
       HoldsRecorded, EnrollLabel, IssueLabel, DecideLabel, RevokeLabel, PublishLabel
  <1> QED
    BY <1>1, <1>2, <1>3, LocalStep

LEMMA ReadRevokedIInv ==
    ASSUME IInv, NEW p \in Task, ReadRevoked(p), UNCHANGED flowVars, lateIssues' \in Nat
    PROVE  IInv'
  <1> USE DEF ReadRevoked, Goto, storeVars, flowVars
  <1>1. TypeOK'
    BY DEF IInv, TypeOK, IssuerLabel, FlowLabel, TasksOK, TaskOK, LocalsOK,
       EnrollLabel, IssueLabel, DecideLabel, RevokeLabel, RevokedSerials, NoDraft, Crl
  <1>2. OthersStay(p)
    BY DEF IInv, TypeOK, OthersStay
  <1>3. TaskOK(p)'
    BY DEF IInv, TypeOK, TasksOK, TaskOK, LocalsOK, IssuesApproved, HoldsCertificate,
       HoldsRecorded, EnrollLabel, IssueLabel, DecideLabel, RevokeLabel, PublishLabel
  <1> QED
    BY <1>1, <1>2, <1>3, LocalStep

LEMMA CrlIsNumbered ==
    ASSUME NEW d \in Crl, NEW n \in Nat
    PROVE  [d EXCEPT !.number = n + 1] \in Crl
  BY DEF Crl

LEMMA DrawNumberIInv ==
    ASSUME IInv, NEW p \in Task, DrawNumber(p), UNCHANGED flowVars, lateIssues' \in Nat
    PROVE  IInv'
  <1> USE DEF DrawNumber, Goto, storeVars, flowVars, NextCrlNumber
  <1>1. TypeOK'
    <2>1. [draft[p] EXCEPT !.number = crlSequence + 1] \in Crl
      BY CrlIsNumbered DEF IInv, TypeOK
    <2> QED
      BY <2>1 DEF IInv, TypeOK, IssuerLabel
  <1>2. OthersStay(p)
    BY DEF IInv, TypeOK, OthersStay
  <1>3. TaskOK(p)'
    BY DEF IInv, TypeOK, TasksOK, TaskOK, LocalsOK, IssuesApproved, HoldsCertificate,
       HoldsRecorded, EnrollLabel, IssueLabel, DecideLabel, RevokeLabel, PublishLabel
  <1> QED
    BY <1>1, <1>2, <1>3, LocalStep

LEMMA ReadIssuedIInv ==
    ASSUME IInv, NEW p \in Task, ReadIssued(p), UNCHANGED flowVars, lateIssues' \in Nat
    PROVE  IInv'
  <1> USE DEF ReadIssued, Goto, storeVars, flowVars
  <1>1. TypeOK'
    <2>1. IssuedSerials \subseteq Serial
      BY DEF IssuedSerials, Saved
    <2>2. [draft[p] EXCEPT !.issued = IssuedSerials] \in Crl
      BY <2>1 DEF IInv, TypeOK, Crl
    <2>3. "journal_crl" \in IssuerLabel
      BY DEF IssuerLabel
    <2> QED
      BY <2>2, <2>3 DEF IInv, TypeOK
  <1>2. OthersStay(p)
    BY DEF IInv, TypeOK, OthersStay
  <1>3. TaskOK(p)'
    BY DEF IInv, TypeOK, TasksOK, TaskOK, LocalsOK, IssuesApproved, HoldsCertificate,
       HoldsRecorded, EnrollLabel, IssueLabel, DecideLabel, RevokeLabel, PublishLabel
  <1> QED
    BY <1>1, <1>2, <1>3, LocalStep

LEMMA JournalCrlIInv ==
    ASSUME IInv, NEW p \in Task, JournalCrl(p), UNCHANGED flowVars, lateIssues' \in Nat
    PROVE  IInv'
  <1> USE DEF JournalCrl, Goto, storeVars, flowVars, Record
  <1>1. TypeOK'
    BY DEF IInv, TypeOK, IssuerLabel, FlowLabel, TasksOK, TaskOK, LocalsOK,
       EnrollLabel, IssueLabel, DecideLabel, RevokeLabel, IssuerEvent, Crl
  <1>2. OthersStay(p)
    BY DEF IInv, TypeOK, OthersStay
  <1>3. TaskOK(p)'
    BY DEF IInv, TypeOK, TasksOK, TaskOK, LocalsOK, IssuesApproved, HoldsCertificate,
       HoldsRecorded, EnrollLabel, IssueLabel, DecideLabel, RevokeLabel, PublishLabel
  <1> QED
    BY <1>1, <1>2, <1>3, LocalStep

LEMMA PublishCrlIInv ==
    ASSUME IInv, NEW p \in Task, PublishCrl(p), UNCHANGED flowVars, lateIssues' \in Nat
    PROVE  IInv'
  <1> USE DEF PublishCrl, Goto, storeVars, flowVars, SaveCrl
  <1>1. TypeOK'
    BY DEF IInv, TypeOK, IssuerLabel, FlowLabel, TasksOK, TaskOK, LocalsOK,
       EnrollLabel, IssueLabel, DecideLabel, RevokeLabel
  <1>2. OthersStay(p)
    BY DEF IInv, TypeOK, OthersStay
  <1>3. TaskOK(p)'
    BY DEF IInv, TypeOK, TasksOK, TaskOK, LocalsOK, IssuesApproved, HoldsCertificate,
       HoldsRecorded, EnrollLabel, IssueLabel, DecideLabel, RevokeLabel, PublishLabel
  <1> QED
    BY <1>1, <1>2, <1>3, LocalStep

-----------------------------------------------------------------------------
(* The steps that change the requests, the certificates or what was        *)
(* answered.                                                               *)

LEMMA SharedStep ==
    ASSUME IInv, NEW p \in Task, OthersStay(p), Grows, TypeOK', TaskOK(p)',
           RequestsOK', IssuedOnlyAfterApproval', DeliveredIsRecorded'
    PROVE  IInv'
  <1>1. TasksOK'
    BY OthersKeep DEF TasksOK
  <1> QED
    BY <1>1 DEF IInv

LEMMA DrawSerialIInv ==
    ASSUME IInv, NEW p \in Task, DrawSerial(p), UNCHANGED flowVars, lateIssues' \in Nat
    PROVE  IInv'
  <1> USE DEF DrawSerial, ReserveSerial, Goto, flowVars
  <1>2. OthersStay(p)
    BY DEF IInv, TypeOK, OthersStay
  <1>a. CASE UNCHANGED <<certificates, newSerial>> /\ Goto(p, "failed")
    <2>1. TypeOK'
      BY <1>a DEF IInv, TypeOK, IssuerLabel
    <2>2. TaskOK(p)'
      BY <1>a DEF IInv, TypeOK, TaskOK, LocalsOK, IssuesApproved, HoldsCertificate,
         HoldsRecorded, EnrollLabel, IssueLabel, DecideLabel, RevokeLabel, PublishLabel
    <2> QED
      BY <1>a, <1>2, <2>1, <2>2, LocalStep
  <1>b. ASSUME NEW s \in Serial, ReserveSerial(s),
               newSerial' = [newSerial EXCEPT ![p] = s], Goto(p, "check_profile")
        PROVE  IInv'
    <2>0. [certificates[s] EXCEPT !.status = "reserved"] \in Certificate
      BY DEF IInv, TypeOK, Certificate, CertificateStatus
    <2>1. TypeOK'
      BY <1>b, <2>0 DEF IInv, TypeOK, IssuerLabel
    <2>2. Saved' = Saved /\ \A n \in Saved : certificates'[n] = certificates[n]
      BY <1>b, <2>0 DEF IInv, TypeOK, Saved
    <2>3. Grows
      BY <2>2 DEF Grows, Approved
    <2>4. TaskOK(p)'
      BY <1>b DEF IInv, TypeOK, TasksOK, TaskOK, LocalsOK, IssuesApproved,
         HoldsCertificate, HoldsRecorded, EnrollLabel, IssueLabel, DecideLabel,
         RevokeLabel, PublishLabel, Approved
    <2>5. RequestsOK' /\ DeliveredIsRecorded'
      BY DEF IInv, RequestsOK, DeliveredIsRecorded, Approved
    <2>6. IssuedOnlyAfterApproval'
      BY <2>2 DEF IInv, IssuedOnlyAfterApproval
    <2> QED
      BY <1>2, <2>1, <2>3, <2>4, <2>5, <2>6, SharedStep
  <1> QED
    BY <1>a, <1>b

LEMMA RegisterCertificateIInv ==
    ASSUME IInv, NEW p \in Task, RegisterCertificate(p), UNCHANGED flowVars, lateIssues' \in Nat
    PROVE  IInv'
  <1> USE DEF RegisterCertificate, SaveCertificate, Goto, flowVars
  <1>1. TypeOK'
    BY DEF IInv, TypeOK, IssuerLabel, FlowLabel, TasksOK, TaskOK, LocalsOK,
       EnrollLabel, IssueLabel, DecideLabel, RevokeLabel, Certificate, CertificateStatus
  <1>2. OthersStay(p)
    BY DEF IInv, TypeOK, OthersStay
  <1>3. Grows
    BY DEF IInv, TypeOK, Grows, Approved, Saved
  <1>4. TaskOK(p)'
    BY DEF IInv, TypeOK, TasksOK, TaskOK, LocalsOK, IssuesApproved, HoldsCertificate,
       HoldsRecorded, EnrollLabel, IssueLabel, DecideLabel, RevokeLabel, PublishLabel,
       Approved, Saved
  <1>5. RequestsOK'
    BY DEF IInv, TypeOK, RequestsOK, Approved
  <1>6. IssuedOnlyAfterApproval'
    BY DEF IInv, TypeOK, IssuedOnlyAfterApproval, Saved, Approved, TasksOK, TaskOK,
       LocalsOK, IssuesApproved, IssueLabel, RequestsOK
  <1>7. DeliveredIsRecorded'
    BY DEF IInv, TypeOK, DeliveredIsRecorded
  <1> QED
    BY <1>1, <1>2, <1>3, <1>4, <1>5, <1>6, <1>7, SharedStep

LEMMA StoreRevocationIInv ==
    ASSUME IInv, NEW p \in Task, StoreRevocation(p), UNCHANGED flowVars, lateIssues' \in Nat
    PROVE  IInv'
  <1> USE DEF StoreRevocation, RevokeCertificate, Goto, flowVars
  <1>1. TypeOK'
    <2>1. target[p].serial \in Serial /\ target[p].reason \in AllowedReasons
      BY DEF IInv, TypeOK, TasksOK, TaskOK, LocalsOK, RevokeLabel
    <2>2. certificates' \in [Serial -> Certificate]
      BY <2>1 DEF IInv, TypeOK, Certificate, CertificateStatus
    <2>3. pc' \in [Task -> IssuerLabel \cup FlowLabel]
      BY DEF IInv, TypeOK, IssuerLabel
    <2> QED
      BY <2>2, <2>3 DEF IInv, TypeOK
  <1>2. OthersStay(p)
    BY DEF IInv, TypeOK, OthersStay
  <1>3. Grows
    BY DEF IInv, TypeOK, Grows, Approved, Saved
  <1>4. TaskOK(p)'
    BY DEF IInv, TypeOK, TasksOK, TaskOK, LocalsOK, IssuesApproved, HoldsCertificate,
       HoldsRecorded, EnrollLabel, IssueLabel, DecideLabel, RevokeLabel, PublishLabel,
       Approved, Saved
  <1>5. RequestsOK'
    BY DEF IInv, TypeOK, RequestsOK, Approved
  <1>6. IssuedOnlyAfterApproval'
    <2>1. /\ certificates \in [Serial -> Certificate]
          /\ requests' = requests
          /\ IssuedOnlyAfterApproval
      BY DEF IInv, TypeOK
    <2>2. \A s \in Saved' : s \in Saved /\ certificates'[s].tx = certificates[s].tx
      BY <2>1 DEF Saved, Certificate, CertificateStatus
    <2> QED
      BY <2>1, <2>2 DEF IssuedOnlyAfterApproval
  <1>7. DeliveredIsRecorded'
    BY DEF IInv, TypeOK, DeliveredIsRecorded
  <1> QED
    BY <1>1, <1>2, <1>3, <1>4, <1>5, <1>6, <1>7, SharedStep

(* The two updates of a row of the table requests.                         *)
LEMMA RequestUpdates ==
    ASSUME NEW q \in Request
    PROVE  /\ \A s \in Serial :
                 [q EXCEPT !.state = "ISSUED", !.serial = s] \in Request
           /\ \A o \in Operator, verdict \in Verdict :
                 [q EXCEPT !.state = verdict, !.operator = o] \in Request
  BY DEF Request, RequestState, Verdict

LEMMA CreateRequestIInv ==
    ASSUME IInv, NEW p \in Task, CreateRequest(p)
    PROVE  IInv'
  <1> DEFINE c == handled[p]
  <1> DEFINE new == [NoRequest EXCEPT !.state = "PENDING", !.profile = job[p].profile,
                                      !.requester = job[p].requester]
  <1> USE DEF CreateRequest, Goto, storeVars
  <1>0. /\ c \in Csr /\ job[p].requester \in Requester /\ job[p].profile \in Profile
        /\ newSerial[p] = None
    BY DEF IInv, TypeOK, TasksOK, TaskOK, LocalsOK, EnrollLabel
  <1>2. OthersStay(p)
    BY DEF IInv, TypeOK, OthersStay
  <1>a. CASE requests[c].state # "ABSENT"
    <2>1. pc'[p] = "failed" /\ UNCHANGED requests
      BY <1>a DEF IInv, TypeOK
    <2>2. TypeOK'
      BY <1>a DEF IInv, TypeOK, IssuerLabel
    <2>3. TaskOK(p)'
      BY <2>1 DEF TaskOK, LocalsOK, IssuesApproved, HoldsCertificate, HoldsRecorded,
         EnrollLabel, IssueLabel, DecideLabel, RevokeLabel, PublishLabel
    <2> QED
      BY <1>2, <2>1, <2>2, <2>3, LocalStep
  <1>b. CASE requests[c].state = "ABSENT"
    <2>1. /\ pc'[p] = "done"
          /\ requests' = [requests EXCEPT ![c] = new]
      BY <1>b DEF IInv, TypeOK
    <2>2. new \in Request /\ new.state = "PENDING" /\ new.serial = None
      BY <1>0 DEF Request, RequestState, NoRequest
    <2>3. /\ requests'[c].state = "PENDING"
          /\ requests'[c].serial = None
          /\ \A d \in Csr \ {c} : requests'[d] = requests[d]
      BY <1>0, <2>1, <2>2 DEF IInv, TypeOK, Request
    <2>4. TypeOK'
      BY <1>0, <1>b, <2>1, <2>2 DEF IInv, TypeOK, IssuerLabel, FlowLabel
    <2>5. Grows
      BY <1>b, <2>3 DEF Grows, Approved, Saved
    <2>6. TaskOK(p)'
      BY <1>0, <2>1, <2>3 DEF TaskOK, LocalsOK, IssuesApproved, HoldsCertificate,
         HoldsRecorded, EnrollLabel, IssueLabel, DecideLabel, RevokeLabel,
         PublishLabel, Approved, IInv, TypeOK
    <2>7. RequestsOK'
      BY <1>b, <2>3 DEF IInv, RequestsOK, Approved
    <2>8. IssuedOnlyAfterApproval'
      BY <1>b, <2>3 DEF IInv, IssuedOnlyAfterApproval, Saved
    <2>9. DeliveredIsRecorded'
      BY <1>b, <2>3 DEF IInv, DeliveredIsRecorded
    <2> QED
      BY <1>2, <2>4, <2>5, <2>6, <2>7, <2>8, <2>9, SharedStep
  <1> QED
    BY <1>a, <1>b

LEMMA MarkIssuedIInv ==
    ASSUME IInv, NEW p \in Task, MarkIssued(p)
    PROVE  IInv'
  <1> DEFINE c == handled[p]
  <1> USE DEF MarkIssued, Goto, storeVars
  <1>0. /\ c \in Csr /\ newSerial[p] \in Serial /\ Approved(c)
        /\ pc' = [pc EXCEPT ![p] = pc'[p]]
    BY DEF IInv, TypeOK, TasksOK, TaskOK, LocalsOK, IssuesApproved, IssueLabel
  <1>2. OthersStay(p)
    BY DEF IInv, TypeOK, OthersStay
  <1>a. CASE requests[c].state # "APPROVED"
    <2>1. pc'[p] = "failed" /\ UNCHANGED requests
      BY <1>a DEF IInv, TypeOK
    <2>2. TypeOK'
      BY <1>a DEF IInv, TypeOK, IssuerLabel
    <2>3. TaskOK(p)'
      BY <2>1 DEF TaskOK, LocalsOK, IssuesApproved, HoldsCertificate, HoldsRecorded,
         EnrollLabel, IssueLabel, DecideLabel, RevokeLabel, PublishLabel
    <2> QED
      BY <1>2, <2>1, <2>2, <2>3, LocalStep
  <1>b. CASE requests[c].state = "APPROVED"
    <2>1. /\ pc'[p] = "supersede"
          /\ requests' = [requests EXCEPT ![c] =
                            [requests[c] EXCEPT !.state = "ISSUED", !.serial = newSerial[p]]]
      BY <1>0, <1>b DEF IInv, TypeOK
    <2>2. [requests[c] EXCEPT !.state = "ISSUED", !.serial = newSerial[p]] \in Request
      BY <1>0, RequestUpdates DEF IInv, TypeOK
    <2>3. /\ requests'[c].state = "ISSUED"
          /\ requests'[c].serial = newSerial[p]
          /\ requests'[c].operator = requests[c].operator
          /\ \A d \in Csr \ {c} : requests'[d] = requests[d]
      BY <1>0, <2>1, <2>2 DEF IInv, TypeOK, Request
    <2>4. TypeOK'
      BY <1>0, <1>b, <2>1, <2>2 DEF IInv, TypeOK, IssuerLabel, FlowLabel
    <2>5. Grows
      BY <1>b, <2>3 DEF Grows, Approved, Saved
    <2>6. TaskOK(p)'
      BY <1>0, <2>1, <2>3 DEF TaskOK, LocalsOK, IssuesApproved, HoldsCertificate,
         HoldsRecorded, EnrollLabel, IssueLabel, DecideLabel, RevokeLabel,
         PublishLabel, Approved, IInv, TypeOK
    <2>7. RequestsOK'
      BY <1>b, <2>3 DEF IInv, RequestsOK, Approved
    <2>8. IssuedOnlyAfterApproval'
      BY <1>0, <2>3 DEF IInv, IssuedOnlyAfterApproval, Saved
    <2>9. DeliveredIsRecorded'
      BY <1>b, <2>3 DEF IInv, DeliveredIsRecorded
    <2> QED
      BY <1>2, <2>4, <2>5, <2>6, <2>7, <2>8, <2>9, SharedStep
  <1> QED
    BY <1>a, <1>b

LEMMA UpdateRequestIInv ==
    ASSUME IInv, NEW p \in Task, UpdateRequest(p)
    PROVE  IInv'
  <1> DEFINE c == handled[p]
  <1> USE DEF UpdateRequest, Goto, storeVars
  <1>0. /\ c \in Csr /\ job[p].operator \in Operator /\ job[p].verdict \in Verdict
        /\ newSerial[p] = None
    BY DEF IInv, TypeOK, TasksOK, TaskOK, LocalsOK, DecideLabel
  <1>2. OthersStay(p)
    BY DEF IInv, TypeOK, OthersStay
  <1>a. CASE requests[c].state # "PENDING"
    <2>1. pc'[p] = "failed" /\ UNCHANGED requests
      BY <1>a DEF IInv, TypeOK
    <2>2. TypeOK'
      BY <1>a DEF IInv, TypeOK, IssuerLabel
    <2>3. TaskOK(p)'
      BY <2>1 DEF TaskOK, LocalsOK, IssuesApproved, HoldsCertificate, HoldsRecorded,
         EnrollLabel, IssueLabel, DecideLabel, RevokeLabel, PublishLabel
    <2> QED
      BY <1>2, <2>1, <2>2, <2>3, LocalStep
  <1>b. CASE requests[c].state = "PENDING"
    <2>1. /\ pc'[p] = "journal_decision"
          /\ requests' = [requests EXCEPT ![c] =
                            [requests[c] EXCEPT !.state = job[p].verdict,
                                          !.operator = job[p].operator]]
      <3>1. pc \in [Task -> IssuerLabel \cup FlowLabel]
        BY DEF IInv, TypeOK
      <3> QED
        BY <1>b, <3>1
    <2>2. [requests[c] EXCEPT !.state = job[p].verdict,
                                          !.operator = job[p].operator] \in Request
      BY <1>0, RequestUpdates DEF IInv, TypeOK
    <2>3. /\ requests'[c].state = job[p].verdict
          /\ requests'[c].serial = requests[c].serial
          /\ requests'[c].operator = job[p].operator
          /\ \A d \in Csr \ {c} : requests'[d] = requests[d]
      BY <1>0, <2>1, <2>2 DEF IInv, TypeOK, Request
    <2>4. TypeOK'
      BY <1>0, <1>b, <2>1, <2>2 DEF IInv, TypeOK, IssuerLabel, FlowLabel
    <2>5. Grows
      BY <1>b, <2>3 DEF Grows, Approved, Saved
    <2>6. TaskOK(p)'
      BY <1>0, <2>1, <2>3 DEF TaskOK, LocalsOK, IssuesApproved, HoldsCertificate,
         HoldsRecorded, EnrollLabel, IssueLabel, DecideLabel, RevokeLabel,
         PublishLabel, Approved, IInv, TypeOK
    <2>7. RequestsOK'
      BY <1>0, <1>b, <2>3 DEF IInv, RequestsOK, Approved, Verdict
    <2>8. IssuedOnlyAfterApproval'
      BY <1>b, <2>3 DEF IInv, IssuedOnlyAfterApproval, Saved
    <2>9. DeliveredIsRecorded'
      BY <1>b, <2>3 DEF IInv, DeliveredIsRecorded
    <2> QED
      BY <1>2, <2>4, <2>5, <2>6, <2>7, <2>8, <2>9, SharedStep
  <1> QED
    BY <1>a, <1>b

LEMMA AnswerIInv ==
    ASSUME IInv, NEW p \in Task, Answer(p)
    PROVE  IInv'
  <1> USE DEF Answer, Goto, storeVars
  <1>1. TypeOK'
    BY DEF IInv, TypeOK, IssuerLabel, FlowLabel, TasksOK, TaskOK, LocalsOK,
       EnrollLabel, IssueLabel, DecideLabel, RevokeLabel, NoTarget, NoDraft, NoJob, Target, Crl, Job
  <1>2. OthersStay(p)
    BY DEF IInv, TypeOK, OthersStay
  <1>3. Grows
    BY DEF IInv, TypeOK, Grows, Approved, Saved
  <1>4. TaskOK(p)'
    BY DEF IInv, TypeOK, TasksOK, TaskOK, LocalsOK, IssuesApproved, HoldsCertificate,
       HoldsRecorded, EnrollLabel, IssueLabel, DecideLabel, RevokeLabel, PublishLabel,
       Approved, Saved
  <1>5. RequestsOK'
    BY DEF IInv, TypeOK, RequestsOK, Approved
  <1>6. IssuedOnlyAfterApproval'
    BY DEF IInv, TypeOK, IssuedOnlyAfterApproval, Saved, Approved
  <1>7. DeliveredIsRecorded'
    BY DEF IInv, TypeOK, DeliveredIsRecorded, TasksOK, TaskOK, HoldsRecorded, PublishLabel
  <1> QED
    BY <1>1, <1>2, <1>3, <1>4, <1>5, <1>6, <1>7, SharedStep


-----------------------------------------------------------------------------
LEMMA SubmitIInv ==
    ASSUME IInv, NEW p \in Task, NEW r \in Requester, NEW c \in Csr,
           NEW f \in Profile, Submit(p, r, c, f)
    PROVE  IInv'
  <1>1. CASE SubmitHmac(p, r, c, f)
    <2>1. CASE f = EnrollClient
      BY <1>1, <2>1, StartIInv DEF SubmitHmac
    <2>2. CASE f # EnrollClient
      BY <1>1, <2>2, StartIInv DEF SubmitHmac
    <2> QED
      BY <2>1, <2>2
  <1>2. CASE SubmitMtls(p, r, c, f)
    BY <1>2, StartIInv DEF SubmitMtls
  <1> QED
    BY <1>1, <1>2 DEF Submit

LEMMA IssuingIInv ==
    ASSUME IInv, NEW p \in Task, Issuing(p)
    PROVE  IInv'
  <1>1. UNCHANGED flowVars /\ lateIssues' \in Nat
    BY DEF Issuing, IInv, TypeOK
  <1> QED
    BY <1>1, EnsureNotRevokedIInv, DrawSerialIInv, JournalIssuanceIInv,
       RegisterCertificateIInv, JournalRevocationIInv, StoreRevocationIInv,
       ReadRevokedIInv, DrawNumberIInv, ReadIssuedIInv, JournalCrlIInv, PublishCrlIInv
    DEF Issuing, IssuerStep

LEMMA EnvironmentIInv ==
    ASSUME IInv, Environment
    PROVE  IInv'
  <1> USE DEF issuerVars, flowVars, storeVars
  <1>1. CASE RevokeAuthority
    <2>1. TypeOK'
      BY <1>1 DEF RevokeAuthority, IInv, TypeOK
    <2> QED
      BY <1>1, <2>1, EnvironmentStep DEF RevokeAuthority
  <1>2. ASSUME NEW s \in Serial, Expire(s)
        PROVE  IInv'
    <2>1. TypeOK'
      BY <1>2 DEF Expire, IInv, TypeOK
    <2> QED
      BY <1>2, <2>1, EnvironmentStep DEF Expire
  <1>3. ASSUME NEW s \in Serial, Connect(s)
        PROVE  IInv'
    <2>1. certificates[s].tx \in Csr
      BY <1>3 DEF Connect, Active, IInv, IssuedOnlyAfterApproval, Saved
    <2>2. CnOf[certificates[s].tx] \in Cn
      BY <2>1, CsrAssumption
    <2>3. TypeOK'
      BY <1>3, <2>2 DEF Connect, IInv, TypeOK
    <2> QED
      BY <1>3, <2>3, EnvironmentStep DEF Connect
  <1>4. ASSUME NEW r \in Requester, SecretExpires(r)
        PROVE  IInv'
    <2>1. TypeOK'
      BY <1>4 DEF SecretExpires, IInv, TypeOK
    <2> QED
      BY <1>4, <2>1, EnvironmentStep DEF SecretExpires
  <1>5. ASSUME NEW cn \in Cn, Disconnect(cn)
        PROVE  IInv'
    <2>1. TypeOK'
      BY <1>5 DEF Disconnect, IInv, TypeOK
    <2> QED
      BY <1>5, <2>1, EnvironmentStep DEF Disconnect
  <1> QED
    BY <1>1, <1>2, <1>3, <1>4, <1>5 DEF Environment

LEMMA NextIInv == IInv /\ [Next]_vars => IInv'
  <1> SUFFICES ASSUME IInv, [Next]_vars PROVE IInv'
    OBVIOUS
  <1>1. ASSUME NEW p \in Task, Step(p)
        PROVE  IInv'
    BY <1>1, CheckBootstrapIInv, LookUpIInv, JournalReceiptIInv, CreateRequestIInv,
       FindPreviousIInv, IssuingIInv, MarkIssuedIInv, SupersedeIInv, AfterRevokeIInv,
       FindRequestIInv, UpdateRequestIInv, JournalDecisionIInv, AnswerIInv
    DEF Step
  <1>2. ASSUME NEW p \in Task, Refuse(p) \/ Stop(p)
        PROVE  IInv'
    BY <1>2, RefuseIInv, StopIInv
  <1>3. ASSUME NEW p \in Handler, NEW r \in Requester, NEW c \in Csr, NEW f \in Profile,
               Submit(p, r, c, f)
        PROVE  IInv'
    BY <1>3, SubmitIInv, TasksAssumption
  <1>4. ASSUME NEW p \in Desk, DeskStart(p)
        PROVE  IInv'
    BY <1>4, StartDecisionIInv, StartRevocationIInv, TasksAssumption DEF DeskStart
  <1>5. CASE Environment
    BY <1>5, EnvironmentIInv
  <1>6. CASE UNCHANGED vars
    <2>1. TypeOK'
      BY <1>6 DEF vars, storeVars, issuerVars, flowVars, IInv, TypeOK
    <2> QED
      BY <1>6, <2>1, EnvironmentStep DEF vars, storeVars, issuerVars, flowVars
  <1> QED
    BY <1>1, <1>2, <1>3, <1>4, <1>5, <1>6 DEF Next

LEMMA Invariance == Spec => []IInv
  BY InitIInv, NextIInv, PTL DEF Spec

-----------------------------------------------------------------------------
(* Every variable keeps its type; in particular, a journal line, a row or  *)
(* a CRL never carries a value that is missing.                            *)
THEOREM TypeCorrect == Spec => []TypeOK
  <1>1. IInv => TypeOK
    BY DEF IInv
  <1> QED
    BY <1>1, Invariance, PTL

(* REG-6.4.5-04, Flow::resume and Decider::decide: no interleaving of any  *)
(* number of handlers and operators, with tasks that stop anywhere, saves  *)
(* a certificate for a request no operator approved.                       *)
THEOREM NoCertificateWithoutApproval == Spec => []IssuedOnlyAfterApproval
  <1>1. IInv => IssuedOnlyAfterApproval
    BY DEF IInv
  <1> QED
    BY <1>1, Invariance, PTL

(* Flow::resume and update_request: whatever the number of handlers that   *)
(* sign for one request, its requester receives one certificate, the one   *)
(* the request records.                                                    *)
THEOREM OneCertificateDelivered == Spec => []DeliveredIsRecorded
  <1>1. IInv => DeliveredIsRecorded
    BY DEF IInv
  <1> QED
    BY <1>1, Invariance, PTL

-----------------------------------------------------------------------------
(* Enrollment implements RequestLifecycle: every step of every task is a   *)
(* step of the life of one request, or leaves all of them alone.  IInv is  *)
(* what makes the steps of tasks that act on an old read legal ones.       *)

registry == <<requests, certificates, delivered>>

(* The steps that change the registry of requests or certificates, or      *)
(* what was answered.                                                      *)
Writes(p) ==
    \/ CreateRequest(p) \/ MarkIssued(p) \/ UpdateRequest(p) \/ Answer(p)
    \/ (DrawSerial(p) \/ RegisterCertificate(p) \/ StoreRevocation(p))
          /\ UNCHANGED flowVars

LEMMA QuietIssuing ==
    ASSUME NEW p \in Task, Issuing(p)
    PROVE  UNCHANGED registry \/ Writes(p)
  <1> USE DEF registry, flowVars, storeVars
  <1>1. UNCHANGED flowVars
    BY DEF Issuing
  <1>2. CASE DrawSerial(p) \/ RegisterCertificate(p) \/ StoreRevocation(p)
    BY <1>1, <1>2 DEF Writes
  <1>3. CASE EnsureNotRevoked(p) \/ JournalIssuance(p) \/ JournalRevocation(p)
                \/ ReadRevoked(p) \/ DrawNumber(p) \/ ReadIssued(p)
                \/ JournalCrl(p) \/ PublishCrl(p)
    BY <1>1, <1>3
    DEF EnsureNotRevoked, JournalIssuance, JournalRevocation, ReadRevoked,
        DrawNumber, ReadIssued, JournalCrl, PublishCrl
  <1> QED
    BY <1>2, <1>3 DEF Issuing, IssuerStep

LEMMA QuietStep ==
    ASSUME NEW p \in Task, Step(p)
    PROVE  UNCHANGED registry \/ Writes(p)
  <1> USE DEF registry, flowVars, storeVars
  <1>1. CASE CreateRequest(p) \/ MarkIssued(p) \/ UpdateRequest(p) \/ Answer(p)
    BY <1>1 DEF Writes
  <1>2. CASE CheckBootstrap(p) \/ LookUp(p) \/ JournalReceipt(p) \/ FindPrevious(p)
                \/ Supersede(p) \/ AfterRevoke(p) \/ FindRequest(p)
                \/ JournalDecision(p)
    BY <1>2
    DEF CheckBootstrap, LookUp, JournalReceipt, FindPrevious, Supersede,
        AfterRevoke, FindRequest, JournalDecision
  <1> QED
    BY <1>1, <1>2, QuietIssuing DEF Step

LEMMA WhoWrites ==
    ASSUME [Next]_vars
    PROVE  UNCHANGED registry \/ \E p \in Task : Writes(p)
  <1> USE DEF registry, flowVars, storeVars
  <1>1. ASSUME NEW p \in Task, Refuse(p) \/ Stop(p)
        PROVE  UNCHANGED registry
    BY <1>1 DEF Refuse, RefuseNonConforming, Stop, Abort
  <1>2. ASSUME NEW p \in Handler, NEW r \in Requester, NEW c \in Csr,
               NEW f \in Profile, Submit(p, r, c, f)
        PROVE  UNCHANGED registry
    BY <1>2 DEF Submit, SubmitHmac, SubmitMtls, Start
  <1>3. ASSUME NEW p \in Desk, DeskStart(p)
        PROVE  UNCHANGED registry
    BY <1>3 DEF DeskStart, StartDecision, StartRevocation
  <1>4. CASE Environment
    BY <1>4 DEF Environment, RevokeAuthority, Expire, Connect, SecretExpires,
       Disconnect, issuerVars
  <1>5. CASE UNCHANGED vars
    BY <1>5 DEF vars
  <1> QED
    BY <1>1, <1>2, <1>3, <1>4, <1>5, QuietStep DEF Next

-----------------------------------------------------------------------------
(* What each write does to one row.                                        *)

LEMMA RequestWritten ==
    ASSUME IInv, NEW p \in Task,
           CreateRequest(p) \/ MarkIssued(p) \/ UpdateRequest(p)
    PROVE  /\ UNCHANGED <<certificates, delivered>>
           /\ \/ UNCHANGED requests
              \/ \E c \in Csr, q \in Request :
                   /\ requests' = [requests EXCEPT ![c] = q]
                   /\ \/ requests[c].state = "ABSENT" /\ q.state = "PENDING"
                            /\ q.operator = None /\ q.serial = None
                      \/ requests[c].state = "PENDING" /\ q.state \in Verdict
                            /\ q.operator \in Operator
                            /\ q.serial = requests[c].serial
                      \/ requests[c].state = "APPROVED" /\ q.state = "ISSUED"
                            /\ q.operator = requests[c].operator
                            /\ q.serial \in Saved
                            /\ certificates[q.serial].tx = c
  <1> DEFINE c == handled[p]
  <1>1. /\ TypeOK
        /\ LocalsOK(p)
        /\ HoldsCertificate(p)
    BY DEF IInv, TasksOK, TaskOK
  <1>2. CASE CreateRequest(p)
    <2> DEFINE q == [NoRequest EXCEPT !.state = "PENDING", !.profile = job[p].profile,
                                      !.requester = job[p].requester]
    <2>1. c \in Csr /\ q \in Request
      BY <1>1, <1>2 DEF CreateRequest, LocalsOK, EnrollLabel, NoRequest, Request,
         RequestState
    <2>2. q.state = "PENDING" /\ q.operator = None /\ q.serial = None
      BY DEF NoRequest
    <2> QED
      BY <1>2, <2>1, <2>2 DEF CreateRequest, storeVars
  <1>3. CASE MarkIssued(p)
    <2> DEFINE q == [requests[c] EXCEPT !.state = "ISSUED", !.serial = newSerial[p]]
    <2>1. /\ c \in Csr /\ newSerial[p] \in Saved /\ certificates[newSerial[p]].tx = c
          /\ requests[c] \in Request /\ newSerial[p] \in Serial
      BY <1>1, <1>3 DEF MarkIssued, LocalsOK, IssueLabel, HoldsCertificate, TypeOK
    <2>2. /\ q \in Request
          /\ q.state = "ISSUED" /\ q.serial = newSerial[p]
          /\ q.operator = requests[c].operator
      BY <2>1, RequestUpdates DEF Request
    <2>3. CASE requests[c].state = "APPROVED"
      <3>1. requests' = [requests EXCEPT ![c] = q]
        BY <1>1, <1>3, <2>1, <2>3 DEF MarkIssued, TypeOK
      <3> HIDE DEF q, c
      <3> QED
        BY <1>3, <2>1, <2>2, <2>3, <3>1 DEF MarkIssued, storeVars
    <2>4. CASE requests[c].state # "APPROVED"
      BY <1>3, <2>4 DEF MarkIssued, storeVars
    <2> QED
      BY <2>3, <2>4
  <1>4. CASE UpdateRequest(p)
    <2> DEFINE q == [requests[c] EXCEPT !.state = job[p].verdict,
                                        !.operator = job[p].operator]
    <2>1. /\ c \in Csr /\ job[p].operator \in Operator /\ job[p].verdict \in Verdict
          /\ requests[c] \in Request
      BY <1>1, <1>4 DEF UpdateRequest, LocalsOK, DecideLabel, TypeOK
    <2>2. /\ q \in Request
          /\ q.state = job[p].verdict /\ q.operator = job[p].operator
          /\ q.serial = requests[c].serial
      BY <2>1, RequestUpdates DEF Request
    <2>3. CASE requests[c].state = "PENDING"
      <3>1. requests' = [requests EXCEPT ![c] = q]
        BY <1>1, <1>4, <2>1, <2>3 DEF UpdateRequest, TypeOK
      <3> HIDE DEF q, c
      <3> QED
        BY <1>4, <2>1, <2>2, <2>3, <3>1 DEF UpdateRequest, storeVars
    <2>4. CASE requests[c].state # "PENDING"
      BY <1>4, <2>4 DEF UpdateRequest, storeVars
    <2> QED
      BY <2>3, <2>4
  <1> QED
    BY <1>2, <1>3, <1>4

LEMMA CertificateWritten ==
    ASSUME IInv, NEW p \in Task,
           DrawSerial(p) \/ RegisterCertificate(p) \/ StoreRevocation(p),
           UNCHANGED flowVars
    PROVE  /\ UNCHANGED <<requests, delivered>>
           /\ \A s \in RevokedSerials : certificates'[s] = certificates[s]
           /\ \/ /\ Saved' = Saved
                 /\ \A s \in Saved : certificates'[s].tx = certificates[s].tx
              \/ \E s \in Serial \ Saved, c \in Csr :
                   /\ Approved(c)
                   /\ Saved' = Saved \cup {s}
                   /\ certificates'[s].tx = c
                   /\ \A n \in Saved : certificates'[n].tx = certificates[n].tx
  <1>0. TypeOK /\ LocalsOK(p) /\ IssuesApproved(p)
    BY DEF IInv, TasksOK, TaskOK
  <1>1. UNCHANGED <<requests, delivered>>
    BY DEF flowVars
  <1> USE DEF Saved, RevokedSerials
  <1>2. CASE DrawSerial(p)
    <2>1. CASE UNCHANGED certificates
      BY <1>1, <2>1
    <2>2. ASSUME NEW s \in Serial, ReserveSerial(s)
          PROVE  /\ \A n \in RevokedSerials : certificates'[n] = certificates[n]
                 /\ Saved' = Saved
                 /\ \A n \in Saved : certificates'[n].tx = certificates[n].tx
      <3>1. /\ certificates[s].status = "free"
            /\ certificates'[s].status = "reserved"
            /\ \A n \in Serial \ {s} : certificates'[n] = certificates[n]
        BY <1>0, <2>2 DEF ReserveSerial, TypeOK, Certificate
      <3> QED
        BY <3>1
    <2> QED
      BY <1>1, <1>2, <2>1, <2>2 DEF DrawSerial
  <1>3. CASE RegisterCertificate(p)
    <2> DEFINE s == newSerial[p]
    <2> DEFINE c == handled[p]
    <2>1. s \in Serial \ Saved /\ c \in Csr /\ Approved(c)
      BY <1>0, <1>3 DEF RegisterCertificate, SaveCertificate, LocalsOK, IssueLabel,
         IssuesApproved
    <2>2. /\ certificates'[s] = [status |-> "issued", tx |-> c, reason |-> 0]
          /\ \A n \in Serial \ {s} : certificates'[n] = certificates[n]
      BY <1>0, <1>3, <2>1 DEF RegisterCertificate, SaveCertificate, TypeOK
    <2>3. Saved' = Saved \cup {s}
      BY <2>1, <2>2
    <2>4. /\ certificates'[s].tx = c
          /\ \A n \in Saved : certificates'[n] = certificates[n]
          /\ \A n \in RevokedSerials : certificates'[n] = certificates[n]
      BY <2>1, <2>2
    <2> HIDE DEF s, c, Saved, RevokedSerials
    <2> QED
      BY <1>1, <2>1, <2>3, <2>4
  <1>4. CASE StoreRevocation(p)
    <2> DEFINE s == target[p].serial
    <2>0. s \in Serial
      BY <1>0, <1>4 DEF StoreRevocation, LocalsOK, RevokeLabel
    <2>1. ASSUME NEW n \in Serial
          PROVE  /\ certificates'[n].tx = certificates[n].tx
                 /\ \/ certificates'[n] = certificates[n]
                    \/ /\ certificates[n].status = "issued"
                       /\ certificates'[n].status = "revoked"
      <3>0. certificates[n] \in Certificate
        BY <1>0 DEF TypeOK
      <3>1. CASE certificates[s].status # "issued" \/ n # s
        BY <1>0, <1>4, <2>0, <3>1 DEF StoreRevocation, RevokeCertificate, TypeOK
      <3>2. CASE certificates[s].status = "issued" /\ n = s
        <4>1. certificates'[n] = [certificates[n] EXCEPT !.status = "revoked",
                                                         !.reason = target[p].reason]
          BY <1>0, <1>4, <2>0, <3>2 DEF StoreRevocation, RevokeCertificate, TypeOK
        <4> QED
          BY <3>0, <3>2, <4>1 DEF Certificate
      <3> QED
        BY <3>1, <3>2
    <2> QED
      BY <1>1, <2>1
  <1> QED
    BY <1>2, <1>3, <1>4

-----------------------------------------------------------------------------
(* No step undoes a decision, a revocation or the certificate of a request.*)
Undoes(c) ==
    \/ /\ requests[c].state \in {"REJECTED", "ISSUED"}
       /\ requests'[c] # requests[c]
    \/ /\ requests[c].state = "APPROVED"
       /\ \/ requests'[c].state \notin {"APPROVED", "ISSUED"}
          \/ requests'[c].operator # requests[c].operator

LEMMA StepUndoesNothing ==
    ASSUME IInv, [Next]_vars
    PROVE  /\ \A c \in Csr : ~ Undoes(c)
           /\ \A s \in RevokedSerials : certificates'[s] = certificates[s]
  <1> USE DEF Undoes
  <1>0. requests \in [Csr -> Request]
    BY DEF IInv, TypeOK
  <1>1. CASE UNCHANGED registry
    BY <1>1 DEF registry, RevokedSerials
  <1>2. ASSUME NEW p \in Task, Writes(p)
        PROVE  /\ \A c \in Csr : ~ Undoes(c)
               /\ \A s \in RevokedSerials : certificates'[s] = certificates[s]
    <2>1. CASE CreateRequest(p) \/ MarkIssued(p) \/ UpdateRequest(p)
      <3>1. UNCHANGED certificates
        BY <2>1, RequestWritten
      <3>2. CASE UNCHANGED requests
        BY <3>1, <3>2 DEF RevokedSerials
      <3>3. CASE ~ UNCHANGED requests
        <4>1. PICK c \in Csr, q \in Request :
                 /\ requests' = [requests EXCEPT ![c] = q]
                 /\ requests[c].state \notin {"REJECTED", "ISSUED"}
                 /\ requests[c].state = "APPROVED" =>
                      q.state = "ISSUED" /\ q.operator = requests[c].operator
          BY <2>1, <3>3, RequestWritten
        <4> QED
          BY <1>0, <3>1, <4>1 DEF RevokedSerials
      <3> QED
        BY <3>2, <3>3
    <2>2. CASE Answer(p)
      BY <2>2 DEF Answer, storeVars, RevokedSerials
    <2>3. CASE (DrawSerial(p) \/ RegisterCertificate(p) \/ StoreRevocation(p))
                  /\ UNCHANGED flowVars
      BY <2>3, CertificateWritten
    <2> QED
      BY <1>2, <2>1, <2>2, <2>3 DEF Writes
  <1> QED
    BY <1>1, <1>2, WhoWrites

-----------------------------------------------------------------------------
(* Decider::decide, Flow::issue, revoke_certificate: a rejection, an       *)
(* approval, the certificate a request records and a revocation are final, *)
(* whatever the number of tasks and wherever they stop.                    *)
THEOREM DecisionsAreFinal == Spec => NothingIsUndone
  <1>1. IInv /\ [Next]_vars =>
          [/\ \A c \in Csr :
                /\ requests[c].state \in {"REJECTED", "ISSUED"} =>
                      requests'[c] = requests[c]
                /\ requests[c].state = "APPROVED" =>
                      /\ requests'[c].state \in {"APPROVED", "ISSUED"}
                      /\ requests'[c].operator = requests[c].operator
           /\ \A s \in RevokedSerials : certificates'[s] = certificates[s]]_vars
    BY StepUndoesNothing DEF Undoes
  <1> QED
    BY <1>1, Invariance, PTL DEF Spec, NothingIsUndone

-----------------------------------------------------------------------------
(* The mapping of Enrollment!Lifecycle.                                    *)
phase == [c \in Csr |-> requests[c].state]
decidedBy == [c \in Csr |-> requests[c].operator]
certified == [c \in Csr |-> {s \in Saved : certificates[s].tx = c}]
settledOn == [c \in Csr |-> requests[c].serial]

LEMMA InitMaps == Init => Lifecycle!LifecycleInit
  BY DEF Init, IssuerInit, StoreInit, NoRequest, NoRow, Saved, Lifecycle!LifecycleInit

(* A step that changes one request changes at most its state, its operator *)
(* and its certificate.                                                    *)
LEMMA RequestStepMaps ==
    ASSUME IInv, NEW p \in Task,
           CreateRequest(p) \/ MarkIssued(p) \/ UpdateRequest(p)
    PROVE  [Lifecycle!LifecycleNext]_Lifecycle!lifecycleVars
  <1>0. /\ requests \in [Csr -> Request] /\ RequestsOK
        /\ UNCHANGED <<certificates, delivered>>
    BY RequestWritten DEF IInv, TypeOK
  <1>1. UNCHANGED certified
    BY <1>0 DEF certified, Saved
  <1>2. CASE UNCHANGED requests
    BY <1>0, <1>1, <1>2 DEF Lifecycle!lifecycleVars, certified, Saved
  <1>3. CASE ~ UNCHANGED requests
    <2>1. PICK c \in Csr, q \in Request :
             /\ requests' = [requests EXCEPT ![c] = q]
             /\ \/ requests[c].state = "ABSENT" /\ q.state = "PENDING"
                      /\ q.operator = None /\ q.serial = None
                \/ requests[c].state = "PENDING" /\ q.state \in Verdict
                      /\ q.operator \in Operator
                      /\ q.serial = requests[c].serial
                \/ requests[c].state = "APPROVED" /\ q.state = "ISSUED"
                      /\ q.operator = requests[c].operator
                      /\ q.serial \in Saved
                      /\ certificates[q.serial].tx = c
      BY <1>3, RequestWritten
    <2>2. /\ phase' = [phase EXCEPT ![c] = q.state]
          /\ decidedBy' = [decidedBy EXCEPT ![c] = q.operator]
          /\ settledOn' = [settledOn EXCEPT ![c] = q.serial]
      BY <1>0, <2>1 DEF phase, decidedBy, settledOn
    <2>3. CASE requests[c].state = "ABSENT"
      <3>1. Lifecycle!Receive(c)
        BY <1>0, <1>1, <2>1, <2>2, <2>3
        DEF Lifecycle!Receive, RequestsOK, phase, decidedBy, settledOn, certified
      <3> QED
        BY <3>1 DEF Lifecycle!LifecycleNext
    <2>4. CASE requests[c].state = "PENDING"
      <3>1. Lifecycle!DecideOn(c, q.operator, q.state)
        BY <1>0, <1>1, <2>1, <2>2, <2>4
        DEF Lifecycle!DecideOn, phase, decidedBy, settledOn, certified
      <3> QED
        BY <2>1, <2>4, <3>1 DEF Lifecycle!LifecycleNext, Verdict
    <2>5. CASE requests[c].state = "APPROVED"
      <3>1. Lifecycle!Settle(c, q.serial)
        BY <1>0, <1>1, <2>1, <2>2, <2>5
        DEF Lifecycle!Settle, phase, decidedBy, settledOn, certified
      <3> QED
        BY <2>1, <2>5, <3>1 DEF Lifecycle!LifecycleNext, Saved
    <2> QED
      BY <2>1, <2>3, <2>4, <2>5
  <1> QED
    BY <1>2, <1>3

LEMMA CertificateStepMaps ==
    ASSUME IInv, NEW p \in Task,
           DrawSerial(p) \/ RegisterCertificate(p) \/ StoreRevocation(p),
           UNCHANGED flowVars
    PROVE  [Lifecycle!LifecycleNext]_Lifecycle!lifecycleVars
  <1>1. UNCHANGED <<phase, decidedBy, settledOn, delivered>>
    BY CertificateWritten DEF phase, decidedBy, settledOn
  <1>2. CASE /\ Saved' = Saved
             /\ \A s \in Saved : certificates'[s].tx = certificates[s].tx
    <2>1. UNCHANGED certified
      BY <1>2 DEF certified
    <2> QED
      BY <1>1, <2>1 DEF Lifecycle!lifecycleVars, phase, decidedBy, settledOn, certified
  <1>3. ASSUME NEW s \in Serial \ Saved, NEW c \in Csr,
               Approved(c),
               Saved' = Saved \cup {s},
               certificates'[s].tx = c,
               \A n \in Saved : certificates'[n].tx = certificates[n].tx
        PROVE  Lifecycle!LifecycleNext
    <2>1. certified' = [certified EXCEPT ![c] = @ \cup {s}]
      BY <1>3 DEF certified
    <2>2. Lifecycle!Certify(c, s)
      BY <1>1, <1>3, <2>1
      DEF Lifecycle!Certify, phase, decidedBy, settledOn, certified, Approved
    <2> QED
      BY <2>2 DEF Lifecycle!LifecycleNext
  <1> QED
    BY <1>2, <1>3, CertificateWritten

LEMMA AnswerMaps ==
    ASSUME IInv, NEW p \in Task, Answer(p)
    PROVE  [Lifecycle!LifecycleNext]_Lifecycle!lifecycleVars
  <1> DEFINE c == handled[p]
  <1>0. UNCHANGED <<certificates, requests>>
    BY DEF Answer, storeVars
  <1>1. UNCHANGED <<phase, decidedBy, settledOn, certified>>
    BY <1>0 DEF phase, decidedBy, settledOn, certified, Saved
  <1>2. CASE pc[p] = "done" /\ newSerial[p] # None
    <2>1. c \in Csr /\ requests[c].state = "ISSUED" /\ requests[c].serial = newSerial[p]
      BY <1>2 DEF IInv, TasksOK, TaskOK, HoldsRecorded, PublishLabel
    <2>2. Lifecycle!Deliver(c)
      BY <1>1, <1>2, <2>1
      DEF Lifecycle!Deliver, Answer, phase, decidedBy, settledOn, certified
    <2> QED
      BY <2>1, <2>2 DEF Lifecycle!LifecycleNext
  <1>3. CASE ~ (pc[p] = "done" /\ newSerial[p] # None)
    BY <1>0, <1>3 DEF Answer, Lifecycle!lifecycleVars, Saved
  <1> QED
    BY <1>2, <1>3

LEMMA StepMaps ==
    IInv /\ [Next]_vars => [Lifecycle!LifecycleNext]_Lifecycle!lifecycleVars
  <1> SUFFICES ASSUME IInv, [Next]_vars
               PROVE  [Lifecycle!LifecycleNext]_Lifecycle!lifecycleVars
    OBVIOUS
  <1>1. CASE UNCHANGED registry
    BY <1>1 DEF registry, Lifecycle!lifecycleVars, Saved
  <1>2. ASSUME NEW p \in Task, Writes(p)
        PROVE  [Lifecycle!LifecycleNext]_Lifecycle!lifecycleVars
    BY <1>2, RequestStepMaps, AnswerMaps, CertificateStepMaps DEF Writes
  <1> QED
    BY <1>1, <1>2, WhoWrites

(* Flow and Decider, with any number of tasks and whatever stops half-way, *)
(* keep the promises of RequestLifecycle: one decision per request, a      *)
(* serial number used once, one certificate settled on and answered.       *)
THEOREM EnrollmentIsLifecycle == Spec => ImplementsLifecycle
  BY InitMaps, StepMaps, Invariance, PTL
  DEF Spec, ImplementsLifecycle, Lifecycle!LifecycleSpec

-----------------------------------------------------------------------------
(* What the audit journal proves about the registry: nothing is in the     *)
(* registry that the journal does not tell, and the journal tells no       *)
(* decision that did not take place.                                       *)
(*                                                                         *)
(* Neither is inductive: between the line and the change it announces, and *)
(* between a decision and its line, other tasks run.  Announced says what  *)
(* a task relies on at these points; DecisionsAreFinal is why it stays     *)
(* true there.                                                             *)

Decided(c, verdict, o) ==
    /\ requests[c].operator = o
    /\ requests[c].state \in IF verdict = "REJECTED" THEN {"REJECTED"}
                                                     ELSE {"APPROVED", "ISSUED"}

Announced(p) ==
    /\ pc[p] = "save_certificate" =>
          <<"ca.certificate_issued", newSerial[p], handled[p]>> \in journal
    /\ pc[p] = "store_revocation" =>
          <<"ca.certificate_revoked", target[p].serial, target[p].reason,
            target[p].by>> \in journal
    /\ pc[p] = "save_crl" => <<"ca.crl_published", draft[p].number>> \in journal
    /\ pc[p] = "create_request" =>
          <<"ca.request_received", handled[p], job[p].requester>> \in journal
    /\ pc[p] = "journal_decision" =>
          Decided(handled[p], job[p].verdict, job[p].operator)

JInv ==
    /\ JournalPrecedesRegistry
    /\ JournalledDecisionsTookPlace
    /\ \A p \in Task : Announced(p)

Moves(p) ==
    \/ Step(p) \/ Refuse(p) \/ Stop(p)
    \/ \E r \in Requester, c \in Csr, f \in Profile : Submit(p, r, c, f)
    \/ DeskStart(p)

LEMMA SomeoneMoves ==
    ASSUME [Next]_vars
    PROVE  \/ \E p \in Task : Moves(p)
           \/ UNCHANGED <<requests, certificates, crls, journal, pc, handled,
                          newSerial, target, draft, job>>
  <1> USE DEF storeVars, issuerVars, flowVars
  <1>1. CASE Environment
    BY <1>1 DEF Environment, RevokeAuthority, Expire, Connect, SecretExpires,
       Disconnect
  <1>2. CASE UNCHANGED vars
    BY <1>2 DEF vars
  <1> QED
    BY <1>1, <1>2, TasksAssumption DEF Next, Moves

(* A task moves alone, and the journal only grows.                         *)
Alone(p) ==
    /\ OthersStay(p)
    /\ \A q \in Task \ {p} : draft'[q] = draft[q]
    /\ journal \subseteq journal'

LEMMA IssuingAlone ==
    ASSUME TypeOK, NEW p \in Task, IssuerStep(p), UNCHANGED flowVars
    PROVE  Alone(p)
  <1> USE DEF TypeOK, Alone, OthersStay, Goto, Record, storeVars, flowVars
  <1>1. CASE EnsureNotRevoked(p) \/ DrawSerial(p) \/ JournalIssuance(p)
                \/ RegisterCertificate(p) \/ JournalRevocation(p) \/ StoreRevocation(p)
    BY <1>1 DEF EnsureNotRevoked, DrawSerial, JournalIssuance, RegisterCertificate,
       JournalRevocation, StoreRevocation
  <1>2. CASE ReadRevoked(p) \/ DrawNumber(p) \/ ReadIssued(p) \/ JournalCrl(p)
                \/ PublishCrl(p)
    BY <1>2 DEF ReadRevoked, DrawNumber, ReadIssued, JournalCrl, PublishCrl
  <1> QED
    BY <1>1, <1>2 DEF IssuerStep

LEMMA MovesAlone ==
    ASSUME TypeOK, NEW p \in Task, Moves(p)
    PROVE  Alone(p)
  <1> USE DEF TypeOK, Alone, OthersStay, Goto, Record, storeVars, flowVars
  <1>1. CASE CheckBootstrap(p) \/ LookUp(p) \/ JournalReceipt(p) \/ CreateRequest(p)
                \/ FindPrevious(p)
    BY <1>1 DEF CheckBootstrap, LookUp, Resume, JournalReceipt, CreateRequest, FindPrevious
  <1>2. CASE Issuing(p)
    BY <1>2, IssuingAlone DEF Issuing
  <1>3. CASE MarkIssued(p) \/ Supersede(p) \/ AfterRevoke(p) \/ Answer(p)
    BY <1>3 DEF MarkIssued, Supersede, SkipPrevious, RevokePrevious, AfterRevoke, Answer
  <1>4. CASE FindRequest(p) \/ UpdateRequest(p) \/ JournalDecision(p)
    BY <1>4 DEF FindRequest, UpdateRequest, JournalDecision
  <1>5. CASE Refuse(p) \/ Stop(p)
    BY <1>5 DEF Refuse, RefuseNonConforming, Stop, Abort
  <1>6. CASE \E r \in Requester, c \in Csr, f \in Profile : Submit(p, r, c, f)
    BY <1>6 DEF Submit, SubmitHmac, SubmitMtls, Start
  <1>7. CASE DeskStart(p)
    BY <1>7 DEF DeskStart, StartDecision, StartRevocation
  <1> QED
    BY <1>1, <1>2, <1>3, <1>4, <1>5, <1>6, <1>7 DEF Moves, Step

-----------------------------------------------------------------------------
(* Each task arrives at these points only from the step that makes what    *)
(* Announced says true.                                                    *)

LEMMA IssuingAnnounces ==
    ASSUME TypeOK, NEW p \in Task, IssuerStep(p)
    PROVE  Announced(p)'
  <1> USE DEF TypeOK, Announced, Goto, Record
  <1>1. CASE EnsureNotRevoked(p) \/ DrawSerial(p) \/ RegisterCertificate(p)
                \/ StoreRevocation(p)
    BY <1>1 DEF EnsureNotRevoked, DrawSerial, RegisterCertificate, StoreRevocation
  <1>2. CASE JournalIssuance(p)
    BY <1>2 DEF JournalIssuance
  <1>3. CASE JournalRevocation(p)
    BY <1>3 DEF JournalRevocation
  <1>4. CASE JournalCrl(p)
    BY <1>4 DEF JournalCrl
  <1>5. CASE ReadRevoked(p) \/ DrawNumber(p) \/ ReadIssued(p) \/ PublishCrl(p)
    BY <1>5 DEF ReadRevoked, DrawNumber, ReadIssued, PublishCrl
  <1> QED
    BY <1>1, <1>2, <1>3, <1>4, <1>5 DEF IssuerStep

LEMMA MovesAnnounces ==
    ASSUME IInv, NEW p \in Task, Moves(p)
    PROVE  Announced(p)'
  <1>0. TypeOK /\ LocalsOK(p)
    BY DEF IInv, TasksOK, TaskOK
  <1> USE <1>0 DEF TypeOK, Announced, Goto, Record
  <1>1. CASE JournalReceipt(p)
    BY <1>1 DEF JournalReceipt, flowVars
  <1>2. CASE UpdateRequest(p)
    <2>1. CASE requests[handled[p]].state # "PENDING"
      BY <1>2, <2>1 DEF UpdateRequest
    <2>2. CASE requests[handled[p]].state = "PENDING"
      <3>1. /\ handled[p] \in Csr
            /\ job[p].verdict \in Verdict
        BY <1>2 DEF UpdateRequest, LocalsOK, DecideLabel
      <3>2. /\ requests'[handled[p]].state = job[p].verdict
            /\ requests'[handled[p]].operator = job[p].operator
        BY <1>2, <2>2, <3>1 DEF UpdateRequest, Request
      <3> QED
        BY <1>2, <2>2, <3>1, <3>2 DEF UpdateRequest, Decided, Verdict
    <2> QED
      BY <2>1, <2>2
  <1>3. CASE Issuing(p)
    BY <1>3, IssuingAnnounces DEF Issuing
  <1>4. CASE LookUp(p)
    <2>1. handled[p] \in Csr
      BY <1>4 DEF LookUp, LocalsOK, EnrollLabel
    <2>2. pc'[p] \in {"journal_receipt", "failed", "done", "find_previous"}
      BY <1>4, <2>1 DEF LookUp, Resume, Request, RequestState
    <2> QED
      BY <2>2
  <1>10. CASE CheckBootstrap(p) \/ CreateRequest(p) \/ FindPrevious(p)
    BY <1>10 DEF CheckBootstrap, CreateRequest, FindPrevious
  <1>5. CASE MarkIssued(p) \/ Supersede(p) \/ AfterRevoke(p) \/ Answer(p)
    BY <1>5 DEF MarkIssued, Supersede, SkipPrevious, RevokePrevious, AfterRevoke, Answer
  <1>6. CASE FindRequest(p) \/ JournalDecision(p)
    BY <1>6 DEF FindRequest, JournalDecision
  <1>7. CASE Refuse(p) \/ Stop(p)
    BY <1>7 DEF Refuse, RefuseNonConforming, Stop, Abort
  <1>8. CASE \E r \in Requester, c \in Csr, f \in Profile : Submit(p, r, c, f)
    BY <1>8 DEF Submit, SubmitHmac, SubmitMtls, Start
  <1>9. CASE DeskStart(p)
    BY <1>9 DEF DeskStart, StartDecision, StartRevocation
  <1> QED
    BY <1>1, <1>2, <1>3, <1>4, <1>5, <1>6, <1>7, <1>8, <1>9,
       <1>10 DEF Moves, Step

(* What the others rely on stays: the lines are there for good, and the    *)
(* decision they made is final.                                            *)
LEMMA OthersAnnounced ==
    ASSUME IInv, [Next]_vars, NEW p \in Task, Alone(p),
           NEW q \in Task, q # p, Announced(q)
    PROVE  Announced(q)'
  <1>1. pc[q] = "journal_decision" => handled[q] \in Csr
    BY DEF IInv, TasksOK, TaskOK, LocalsOK, DecideLabel
  <1>2. ASSUME Decided(handled[q], job[q].verdict, job[q].operator), handled[q] \in Csr
        PROVE  Decided(handled[q], job[q].verdict, job[q].operator)'
    BY <1>2, StepUndoesNothing DEF Decided, Undoes, Alone, OthersStay
  <1> QED
    BY <1>1, <1>2 DEF Announced, Alone, OthersStay

LEMMA AnnouncedStays ==
    ASSUME IInv, [Next]_vars, \A q \in Task : Announced(q)
    PROVE  \A q \in Task : Announced(q)'
  <1>1. ASSUME NEW p \in Task, Moves(p)
        PROVE  \A q \in Task : Announced(q)'
    BY <1>1, MovesAlone, MovesAnnounces, OthersAnnounced DEF IInv
  <1>2. CASE UNCHANGED <<requests, certificates, crls, journal, pc, handled,
                         newSerial, target, draft, job>>
    BY <1>2 DEF Announced, Decided
  <1> QED
    BY <1>1, <1>2, SomeoneMoves

LEMMA JournalGrows ==
    ASSUME IInv, [Next]_vars
    PROVE  journal \subseteq journal'
  BY SomeoneMoves, MovesAlone DEF IInv, Alone

-----------------------------------------------------------------------------
(* The journal tells no decision that did not take place.                  *)

LEMMA WhoTellsDecisions ==
    ASSUME TypeOK, NEW p \in Task, Moves(p), NEW c \in Csr, NEW o \in Operator,
           NEW event \in {"ca.request_approved", "ca.request_rejected"},
           <<event, c, o>> \in journal', <<event, c, o>> \notin journal
    PROVE  /\ pc[p] = "journal_decision"
           /\ event = DecisionEvent(job[p].verdict)
           /\ c = handled[p] /\ o = job[p].operator
  <1> USE DEF Record, storeVars
  <1>1. CASE JournalDecision(p)
    BY <1>1 DEF JournalDecision
  <1>2. CASE CheckBootstrap(p) \/ LookUp(p) \/ JournalReceipt(p) \/ CreateRequest(p)
                \/ FindPrevious(p)
    BY <1>2 DEF CheckBootstrap, LookUp, JournalReceipt, CreateRequest, FindPrevious
  <1>3. CASE Issuing(p)
    <2>1. CASE EnsureNotRevoked(p) \/ DrawSerial(p) \/ RegisterCertificate(p)
                  \/ StoreRevocation(p) \/ ReadRevoked(p) \/ DrawNumber(p)
                  \/ ReadIssued(p) \/ PublishCrl(p)
      BY <2>1 DEF EnsureNotRevoked, DrawSerial, RegisterCertificate, StoreRevocation,
         ReadRevoked, DrawNumber, ReadIssued, PublishCrl
    <2>2. CASE JournalIssuance(p) \/ JournalRevocation(p) \/ JournalCrl(p)
      BY <2>2 DEF JournalIssuance, JournalRevocation, JournalCrl
    <2> QED
      BY <1>3, <2>1, <2>2 DEF Issuing, IssuerStep
  <1>4. CASE MarkIssued(p) \/ Supersede(p) \/ AfterRevoke(p) \/ Answer(p)
    BY <1>4 DEF MarkIssued, Supersede, SkipPrevious, RevokePrevious, AfterRevoke, Answer
  <1>5. CASE FindRequest(p) \/ UpdateRequest(p)
    BY <1>5 DEF FindRequest, UpdateRequest
  <1>6. CASE Refuse(p) \/ Stop(p)
    BY <1>6 DEF Refuse, RefuseNonConforming, Stop, Abort
  <1>7. CASE \E r \in Requester, d \in Csr, f \in Profile : Submit(p, r, d, f)
    BY <1>7 DEF Submit, SubmitHmac, SubmitMtls, Start
  <1>8. CASE DeskStart(p)
    BY <1>8 DEF DeskStart, StartDecision, StartRevocation
  <1> QED
    BY <1>1, <1>2, <1>3, <1>4, <1>5, <1>6, <1>7, <1>8 DEF Moves, Step

VerdictOf(event) == IF event = "ca.request_rejected" THEN "REJECTED" ELSE "APPROVED"

LEMMA ToldIsDecided ==
    JournalledDecisionsTookPlace <=>
        \A c \in Csr, o \in Operator,
           event \in {"ca.request_approved", "ca.request_rejected"} :
              <<event, c, o>> \in journal => Decided(c, VerdictOf(event), o)
  BY DEF JournalledDecisionsTookPlace, Decided, VerdictOf

LEMMA ToldDecisionsStay ==
    ASSUME IInv, [Next]_vars, JournalledDecisionsTookPlace,
           \A p \in Task : Announced(p)
    PROVE  JournalledDecisionsTookPlace'
  <1> SUFFICES ASSUME NEW c \in Csr, NEW o \in Operator,
                      NEW event \in {"ca.request_approved", "ca.request_rejected"},
                      <<event, c, o>> \in journal'
               PROVE  Decided(c, VerdictOf(event), o)'
    BY DEF JournalledDecisionsTookPlace, Decided, VerdictOf
  <1>1. Decided(c, VerdictOf(event), o)
    <2>1. CASE <<event, c, o>> \in journal
      BY <2>1, ToldIsDecided
    <2>2. CASE <<event, c, o>> \notin journal
      <3>1. PICK p \in Task : Moves(p)
        BY <2>2, SomeoneMoves
      <3>2. /\ pc[p] = "journal_decision"
            /\ event = DecisionEvent(job[p].verdict)
            /\ c = handled[p] /\ o = job[p].operator
        BY <2>2, <3>1, WhoTellsDecisions DEF IInv
      <3>3. Decided(c, job[p].verdict, o)
        BY <3>2 DEF Announced
      <3> QED
        BY <3>2, <3>3 DEF Decided, VerdictOf, DecisionEvent
    <2> QED
      BY <2>1, <2>2
  <1> QED
    BY <1>1, StepUndoesNothing DEF Decided, Undoes, VerdictOf

-----------------------------------------------------------------------------
(* Nothing is in the registry that the journal does not tell.              *)

CertificatesTold ==
    \A s \in Saved : <<"ca.certificate_issued", s, certificates[s].tx>> \in journal
RevocationsTold ==
    \A s \in RevokedSerials : \E by \in Revoker :
       <<"ca.certificate_revoked", s, certificates[s].reason, by>> \in journal
CrlsTold == \A c \in crls : <<"ca.crl_published", c.number>> \in journal
RequestsTold ==
    \A c \in Csr : requests[c].state # "ABSENT" =>
       <<"ca.request_received", c, requests[c].requester>> \in journal

LEMMA RegistryTold ==
    JournalPrecedesRegistry <=>
        CertificatesTold /\ RevocationsTold /\ CrlsTold /\ RequestsTold
  BY DEF JournalPrecedesRegistry, CertificatesTold, RevocationsTold, CrlsTold,
     RequestsTold

LEMMA CrlsStayTold ==
    ASSUME IInv, [Next]_vars, CrlsTold, \A p \in Task : Announced(p)
    PROVE  CrlsTold'
  <1>1. ASSUME NEW p \in Task, Moves(p), ~ UNCHANGED crls
        PROVE  PublishCrl(p)
    <2> USE DEF storeVars
    <2>1. CASE CheckBootstrap(p) \/ LookUp(p) \/ JournalReceipt(p)
                  \/ CreateRequest(p) \/ FindPrevious(p) \/ MarkIssued(p)
                  \/ Supersede(p) \/ AfterRevoke(p) \/ Answer(p)
      BY <1>1, <2>1 DEF CheckBootstrap, LookUp, JournalReceipt, CreateRequest,
         FindPrevious, MarkIssued, Supersede, AfterRevoke, Answer
    <2>2. CASE FindRequest(p) \/ UpdateRequest(p) \/ JournalDecision(p)
                  \/ Refuse(p) \/ Stop(p)
      BY <1>1, <2>2 DEF FindRequest, UpdateRequest, JournalDecision, Refuse,
         RefuseNonConforming, Stop, Abort
    <2>3. CASE \E r \in Requester, c \in Csr, f \in Profile : Submit(p, r, c, f)
      BY <1>1, <2>3 DEF Submit, SubmitHmac, SubmitMtls, Start
    <2>4. CASE DeskStart(p)
      BY <1>1, <2>4 DEF DeskStart, StartDecision, StartRevocation
    <2>5. CASE EnsureNotRevoked(p) \/ DrawSerial(p) \/ JournalIssuance(p)
                  \/ RegisterCertificate(p) \/ JournalRevocation(p)
                  \/ StoreRevocation(p) \/ ReadRevoked(p) \/ DrawNumber(p)
                  \/ ReadIssued(p) \/ JournalCrl(p)
      BY <1>1, <2>5 DEF EnsureNotRevoked, DrawSerial, JournalIssuance,
         RegisterCertificate, JournalRevocation, StoreRevocation, ReadRevoked,
         DrawNumber, ReadIssued, JournalCrl
    <2> QED
      BY <1>1, <2>1, <2>2, <2>3, <2>4, <2>5 DEF Moves, Step, Issuing, IssuerStep
  <1>2. CASE UNCHANGED crls
    BY <1>2, JournalGrows DEF CrlsTold
  <1>3. ASSUME NEW p \in Task, PublishCrl(p)
        PROVE  CrlsTold'
    BY <1>3 DEF PublishCrl, SaveCrl, Announced, CrlsTold
  <1> QED
    BY <1>1, <1>2, <1>3, SomeoneMoves

LEMMA RequestsStayTold ==
    ASSUME IInv, [Next]_vars, RequestsTold, \A p \in Task : Announced(p)
    PROVE  RequestsTold'
  <1>0. requests \in [Csr -> Request] /\ journal \subseteq journal'
    BY JournalGrows DEF IInv, TypeOK
  <1>1. CASE UNCHANGED requests
    BY <1>0, <1>1 DEF RequestsTold
  <1>2. ASSUME NEW p \in Task, CreateRequest(p), ~ UNCHANGED requests
        PROVE  RequestsTold'
    <2>1. /\ pc[p] = "create_request"
          /\ requests' = [requests EXCEPT ![handled[p]] =
                            [NoRequest EXCEPT !.state = "PENDING",
                                              !.profile = job[p].profile,
                                              !.requester = job[p].requester]]
      BY <1>2 DEF CreateRequest
    <2>2. \A c \in Csr : \/ requests'[c] = requests[c]
                         \/ c = handled[p] /\ requests'[c].requester = job[p].requester
      BY <1>0, <2>1 DEF NoRequest
    <2>3. <<"ca.request_received", handled[p], job[p].requester>> \in journal
      BY <2>1 DEF Announced
    <2> QED
      BY <1>0, <2>2, <2>3 DEF RequestsTold
  <1>3. ASSUME NEW p \in Task, MarkIssued(p) \/ UpdateRequest(p)
        PROVE  RequestsTold'
    <2>1. ASSUME NEW c \in Csr
          PROVE  /\ requests'[c].requester = requests[c].requester
                 /\ requests[c].state = "ABSENT" => requests'[c].state = "ABSENT"
      <3>1. CASE MarkIssued(p)
        BY <1>0, <3>1 DEF MarkIssued, Request
      <3>2. CASE UpdateRequest(p)
        BY <1>0, <3>2 DEF UpdateRequest, Request
      <3> QED
        BY <1>3, <3>1, <3>2
    <2> QED
      BY <1>0, <2>1 DEF RequestsTold
  <1>4. ASSUME NEW p \in Task, Writes(p)
        PROVE  RequestsTold'
    BY <1>1, <1>2, <1>3, <1>4 DEF Writes, Answer, flowVars
  <1> QED
    BY <1>1, <1>4, WhoWrites DEF registry

LEMMA CertificatesStayTold ==
    ASSUME IInv, [Next]_vars, CertificatesTold, RevocationsTold,
           \A p \in Task : Announced(p)
    PROVE  CertificatesTold' /\ RevocationsTold'
  <1>0. TypeOK /\ journal \subseteq journal'
    BY JournalGrows DEF IInv
  <1> USE DEF CertificatesTold, RevocationsTold, Saved, RevokedSerials
  <1>1. CASE UNCHANGED certificates
    BY <1>0, <1>1
  <1>2. ASSUME NEW p \in Task, DrawSerial(p), ~ UNCHANGED certificates
        PROVE  CertificatesTold' /\ RevocationsTold'
    <2>1. PICK s \in Serial : ReserveSerial(s)
      BY <1>2 DEF DrawSerial
    <2>2. /\ certificates'[s].status = "reserved"
          /\ \A n \in Serial \ {s} : certificates'[n] = certificates[n]
      BY <1>0, <2>1 DEF ReserveSerial, TypeOK, Certificate
    <2> QED
      BY <1>0, <2>2
  <1>3. ASSUME NEW p \in Task, RegisterCertificate(p)
        PROVE  CertificatesTold' /\ RevocationsTold'
    <2>1. newSerial[p] \in Serial
      BY <1>3 DEF RegisterCertificate, IInv, TasksOK, TaskOK, LocalsOK
    <2>2. /\ certificates'[newSerial[p]] =
                  [status |-> "issued", tx |-> handled[p], reason |-> 0]
          /\ \A n \in Serial \ {newSerial[p]} : certificates'[n] = certificates[n]
      BY <1>0, <1>3, <2>1 DEF RegisterCertificate, SaveCertificate, TypeOK
    <2>3. <<"ca.certificate_issued", newSerial[p], handled[p]>> \in journal
      BY <1>3 DEF RegisterCertificate, Announced
    <2> QED
      BY <1>0, <2>2, <2>3
  <1>4. ASSUME NEW p \in Task, StoreRevocation(p), ~ UNCHANGED certificates
        PROVE  CertificatesTold' /\ RevocationsTold'
    <2> DEFINE s == target[p].serial
    <2>1. s \in Serial /\ target[p].by \in Revoker
      BY <1>4 DEF StoreRevocation, IInv, TasksOK, TaskOK, LocalsOK, RevokeLabel
    <2>2. /\ certificates[s].status = "issued"
          /\ certificates' = [certificates EXCEPT ![s] =
                [certificates[s] EXCEPT !.status = "revoked",
                                        !.reason = target[p].reason]]
      BY <1>0, <1>4, <2>1 DEF StoreRevocation, RevokeCertificate, TypeOK
    <2>3. /\ certificates'[s].tx = certificates[s].tx
          /\ certificates'[s].reason = target[p].reason
          /\ \A n \in Serial \ {s} : certificates'[n] = certificates[n]
      BY <1>0, <2>1, <2>2 DEF TypeOK, Certificate
    <2>4. <<"ca.certificate_revoked", s, target[p].reason, target[p].by>> \in journal
      BY <1>4 DEF StoreRevocation, Announced
    <2>5. CertificatesTold'
      BY <1>0, <2>1, <2>2, <2>3
    <2>6. RevocationsTold'
      BY <1>0, <2>1, <2>3, <2>4
    <2> QED
      BY <2>5, <2>6
  <1>5. ASSUME NEW p \in Task, Writes(p)
        PROVE  CertificatesTold' /\ RevocationsTold'
    BY <1>1, <1>2, <1>3, <1>4, <1>5, RequestWritten DEF Writes, Answer, storeVars
  <1> QED
    BY <1>1, <1>5, WhoWrites DEF registry

-----------------------------------------------------------------------------
LEMMA InitJInv == Init => JInv
  BY NoneIsNoValue
  DEF Init, IssuerInit, StoreInit, NoRow, NoRequest, JInv, JournalPrecedesRegistry,
      JournalledDecisionsTookPlace, Announced, Saved, RevokedSerials

LEMMA NextJInv == IInv /\ JInv /\ [Next]_vars => JInv'
  <1> SUFFICES ASSUME IInv, JInv, [Next]_vars PROVE JInv'
    OBVIOUS
  <1>1. /\ CertificatesTold /\ RevocationsTold /\ CrlsTold /\ RequestsTold
        /\ JournalledDecisionsTookPlace
        /\ \A p \in Task : Announced(p)
    BY RegistryTold DEF JInv
  <1>2. CertificatesTold' /\ RevocationsTold' /\ CrlsTold' /\ RequestsTold'
    BY <1>1, CertificatesStayTold, CrlsStayTold, RequestsStayTold
  <1>3. JournalPrecedesRegistry'
    BY <1>2 DEF JournalPrecedesRegistry, CertificatesTold, RevocationsTold, CrlsTold,
       RequestsTold
  <1>4. JournalledDecisionsTookPlace' /\ (\A p \in Task : Announced(p))'
    BY <1>1, ToldDecisionsStay, AnnouncedStays
  <1> QED
    BY <1>3, <1>4 DEF JInv

LEMMA JournalInvariance == Spec => []JInv
  BY InitJInv, NextJInv, Invariance, PTL DEF Spec

(* Flow::open, Issuer::issue, revoke and publish_crl write to the journal  *)
(* first: whatever the interleaving, and wherever tasks stop, a request, a *)
(* certificate, a revocation or a CRL that exists has its line.            *)
THEOREM NothingUntold == Spec => []JournalPrecedesRegistry
  <1>1. JInv => JournalPrecedesRegistry
    BY DEF JInv
  <1> QED
    BY <1>1, JournalInvariance, PTL

(* Decider::decide writes its line after the compare-and-set: a decision   *)
(* in the journal is the decision of the request, by the operator named.   *)
THEOREM ToldDecisionsTookPlace == Spec => []JournalledDecisionsTookPlace
  <1>1. JInv => JournalledDecisionsTookPlace
    BY DEF JInv
  <1> QED
    BY <1>1, JournalInvariance, PTL

-----------------------------------------------------------------------------
(* Who acts.  Handlers enrol and renew, desks decide and revoke; a request *)
(* keeps its requester and its profile, a certificate its request.         *)

Acts(p) ==
    \/ Step(p) \/ Refuse(p) \/ Stop(p)
    \/ p \in Handler /\ \E r \in Requester, c \in Csr, f \in Profile : Submit(p, r, c, f)
    \/ DeskStart(p)

LEMMA SomeoneActs ==
    ASSUME [Next]_vars
    PROVE  (\E p \in Task : Acts(p)) \/ Environment \/ UNCHANGED vars
  BY TasksAssumption DEF Next, Acts

RenewLabel == {"certified", "supersede"}

(* A handler between the certificate it saved and the end of the renewal.  *)
Superseding(p) ==
    pc[p] \in RenewLabel \/ (pc[p] \in RevokeLabel /\ target[p].by = Automatic)

(* A task that enrols.                                                     *)
Enrolling(p) == pc[p] \in EnrollLabel \cup IssueLabel \/ Superseding(p)

Roles == \A p \in Task : Enrolling(p) => p \in Handler

LEMMA EnrollersGoOn ==
    ASSUME IInv, NEW p \in Task, Acts(p), Enrolling(p)'
    PROVE  Enrolling(p) \/ p \in Handler
  <1>0. TypeOK /\ LocalsOK(p)
    BY DEF IInv, TasksOK, TaskOK
  <1> USE <1>0 DEF TypeOK, Goto, Enrolling, Superseding, EnrollLabel, IssueLabel,
      RevokeLabel, RenewLabel
  <1>1. CASE CheckBootstrap(p) \/ LookUp(p) \/ JournalReceipt(p) \/ CreateRequest(p)
                \/ FindPrevious(p) \/ MarkIssued(p) \/ Supersede(p)
    BY <1>1 DEF CheckBootstrap, LookUp, JournalReceipt, CreateRequest, FindPrevious,
       MarkIssued, Supersede
  <1>2. CASE AfterRevoke(p) \/ Answer(p)
    BY <1>2 DEF AfterRevoke, Answer
  <1>3. CASE Issuing(p)
    <2>1. CASE EnsureNotRevoked(p) \/ DrawSerial(p) \/ JournalIssuance(p)
                  \/ RegisterCertificate(p)
      BY <2>1 DEF EnsureNotRevoked, DrawSerial, JournalIssuance, RegisterCertificate
    <2>2. CASE JournalRevocation(p) \/ StoreRevocation(p)
      BY <2>2 DEF JournalRevocation, StoreRevocation
    <2>3. CASE ReadRevoked(p) \/ DrawNumber(p) \/ ReadIssued(p) \/ JournalCrl(p)
                  \/ PublishCrl(p)
      BY <2>3 DEF ReadRevoked, DrawNumber, ReadIssued, JournalCrl, PublishCrl
    <2> QED
      BY <1>3, <2>1, <2>2, <2>3 DEF Issuing, IssuerStep
  <1>4. CASE FindRequest(p) \/ UpdateRequest(p) \/ JournalDecision(p)
    BY <1>4 DEF FindRequest, UpdateRequest, JournalDecision
  <1>5. CASE Refuse(p) \/ Stop(p)
    BY <1>5 DEF Refuse, RefuseNonConforming, Stop, Abort
  <1>6. CASE DeskStart(p)
    <2>1. ASSUME NEW o \in Operator, NEW c, NEW verdict, StartDecision(p, o, c, verdict)
          PROVE  pc'[p] = "find_request"
      BY <2>1 DEF StartDecision
    <2>2. ASSUME NEW o \in Operator, NEW s, NEW reason, StartRevocation(p, o, s, reason)
          PROVE  pc'[p] = "journal_revocation" /\ target'[p].by = o
      BY <2>2 DEF StartRevocation
    <2> QED
      BY <1>6, <2>1, <2>2, AutomaticIsNobody DEF DeskStart
  <1> QED
    BY <1>1, <1>2, <1>3, <1>4, <1>5, <1>6 DEF Acts, Step

LEMMA RolesStay ==
    ASSUME IInv, Roles, [Next]_vars
    PROVE  Roles'
  <1>1. ASSUME NEW p \in Task, Acts(p) PROVE Roles'
    <2>1. OthersStay(p)
      BY <1>1, MovesAlone DEF Acts, Moves, Alone, IInv
    <2>2. ASSUME NEW q \in Task, q # p, Enrolling(q)' PROVE Enrolling(q)
      BY <2>1, <2>2 DEF OthersStay, Enrolling, Superseding
    <2> QED
      BY <1>1, <2>2, EnrollersGoOn DEF Roles
  <1>2. CASE Environment \/ UNCHANGED vars
    <2>1. UNCHANGED <<pc, target>>
      BY <1>2 DEF Environment, RevokeAuthority, Expire, Connect, SecretExpires, Disconnect,
         issuerVars, vars
    <2> QED
      BY <2>1 DEF Roles, Enrolling, Superseding
  <1> QED
    BY <1>1, <1>2, SomeoneActs

Stable ==
    /\ \A c \in Csr : requests[c].state # "ABSENT" =>
          /\ requests'[c].state # "ABSENT"
          /\ requests'[c].requester = requests[c].requester
          /\ requests'[c].profile = requests[c].profile
    /\ \A s \in Saved : s \in Saved' /\ certificates'[s].tx = certificates[s].tx

LEMMA RequestStable ==
    ASSUME IInv, NEW p \in Task, CreateRequest(p) \/ MarkIssued(p) \/ UpdateRequest(p)
    PROVE  Stable
  <1>0. requests \in [Csr -> Request] /\ LocalsOK(p)
    BY DEF IInv, TypeOK, TasksOK, TaskOK
  <1>1. UNCHANGED certificates
    BY RequestWritten
  <1>2. CASE CreateRequest(p)
    BY <1>0, <1>1, <1>2 DEF CreateRequest, Stable, Saved
  <1>3. CASE MarkIssued(p)
    BY <1>0, <1>1, <1>3 DEF MarkIssued, Stable, Saved, Request
  <1>4. CASE UpdateRequest(p)
    <2>1. job[p].verdict # "ABSENT"
      BY <1>0, <1>4 DEF UpdateRequest, LocalsOK, DecideLabel, Verdict
    <2> QED
      BY <1>0, <1>1, <1>4, <2>1 DEF UpdateRequest, Stable, Saved, Request
  <1> QED
    BY <1>2, <1>3, <1>4

LEMMA RowsAreStable ==
    ASSUME IInv, [Next]_vars
    PROVE  Stable
  <1>1. CASE UNCHANGED registry
    BY <1>1 DEF registry, Stable, Saved
  <1>2. ASSUME NEW p \in Task, Writes(p) PROVE Stable
    <2>1. CASE CreateRequest(p) \/ MarkIssued(p) \/ UpdateRequest(p)
      BY <2>1, RequestStable
    <2>2. CASE Answer(p)
      BY <2>2 DEF Answer, storeVars, Stable, Saved
    <2>3. CASE (DrawSerial(p) \/ RegisterCertificate(p) \/ StoreRevocation(p))
                  /\ UNCHANGED flowVars
      BY <2>3, CertificateWritten DEF Stable
    <2> QED
      BY <1>2, <2>1, <2>2, <2>3 DEF Writes
  <1> QED
    BY <1>1, <1>2, WhoWrites

(* The subject and the requester of a request or of a certificate stay.    *)
LEMMA SubjectsStay ==
    ASSUME IInv, [Next]_vars
    PROVE  /\ \A c \in Csr : requests[c].state # "ABSENT" =>
                 Subject(c)' = Subject(c) /\ requests'[c].requester = requests[c].requester
           /\ \A s \in Saved : /\ s \in Saved' /\ SubjectOf(s)' = SubjectOf(s)
                               /\ Owner(s)' = Owner(s)
  <1>1. Stable
    BY RowsAreStable
  <1>2. \A s \in Saved : certificates[s].tx \in Csr /\ requests[certificates[s].tx].state # "ABSENT"
    BY DEF IInv, IssuedOnlyAfterApproval
  <1> QED
    BY <1>1, <1>2 DEF Stable, Subject, SubjectOf, Owner

(* No step of another task changes what a task holds.                      *)
LEMMA PreviousAlone ==
    ASSUME TypeOK, NEW p \in Task, Acts(p)
    PROVE  /\ OthersStay(p)
           /\ \A q \in Task \ {p} : previous'[q] = previous[q]
  <1>1. OthersStay(p)
    BY MovesAlone DEF Acts, Moves, Alone
  <1> USE DEF TypeOK
  <1>2. CASE FindPrevious(p) \/ Supersede(p) \/ AfterRevoke(p) \/ Answer(p)
    BY <1>1, <1>2 DEF FindPrevious, Supersede, SkipPrevious, RevokePrevious, AfterRevoke, Answer
  <1>3. CASE Issuing(p) \/ CheckBootstrap(p) \/ LookUp(p) \/ JournalReceipt(p)
                \/ CreateRequest(p) \/ MarkIssued(p)
    BY <1>1, <1>3 DEF Issuing, CheckBootstrap, LookUp, JournalReceipt, CreateRequest,
       MarkIssued, flowVars
  <1>4. CASE FindRequest(p) \/ UpdateRequest(p) \/ JournalDecision(p) \/ Refuse(p) \/ Stop(p)
    BY <1>1, <1>4 DEF FindRequest, UpdateRequest, JournalDecision, Refuse, Stop, flowVars
  <1>5. CASE \E r \in Requester, c \in Csr, f \in Profile : Submit(p, r, c, f)
    BY <1>1, <1>5 DEF Submit, SubmitHmac, SubmitMtls, Start
  <1>6. CASE DeskStart(p)
    BY <1>1, <1>6 DEF DeskStart, StartDecision, StartRevocation
  <1> QED
    BY <1>2, <1>3, <1>4, <1>5, <1>6 DEF Acts, Step

LEMMA SomeoneActsOrNot ==
    ASSUME IInv, [Next]_vars
    PROVE  \/ \E p \in Task : Acts(p)
           \/ UNCHANGED <<requests, certificates, crls, journal, pc, handled,
                          newSerial, target, draft, job, previous, openedBySecret>>
  <1>1. CASE Environment \/ UNCHANGED vars
    BY <1>1 DEF Environment, RevokeAuthority, Expire, Connect, SecretExpires, Disconnect,
       issuerVars, storeVars, flowVars, vars
  <1> QED
    BY <1>1, SomeoneActs

-----------------------------------------------------------------------------
(* Renewals: what is superseded belongs to who renews.                     *)

BeforeSaved == {"ensure_not_revoked", "reserve_serial", "check_profile", "save_certificate"}

(* The certificates a task read before it issued, and still knows of.      *)
KnowsPrevious(p) ==
    /\ pc[p] \in BeforeSaved \/ Superseding(p) =>
          /\ handled[p] \in Csr /\ requests[handled[p]].state # "ABSENT"
          /\ \A s \in previous[p] : s \in Saved /\ SubjectOf(s) = Subject(handled[p])
    /\ Superseding(p) =>
          /\ newSerial[p] \in Saved \ previous[p]
          /\ certificates[newSerial[p]].tx = handled[p]
    /\ Superseding(p) /\ pc[p] \in RevokeLabel =>
          /\ target[p].serial \in previous[p]
          /\ Owner(target[p].serial) = requests[handled[p]].requester

SupersededLine(s) == <<"ca.certificate_revoked", s, SUPERSEDED, Automatic>>

SInv ==
    /\ \A p \in Task : KnowsPrevious(p)
    /\ \A s \in Serial : SupersededLine(s) \in journal => s \in Saved
    /\ SupersededByItsOwner

(* A task that goes on with its renewal, or does not move.                 *)
LEMMA RenewalGoesOn ==
    ASSUME IInv, [Next]_vars, NEW q \in Task, KnowsPrevious(q),
           handled'[q] = handled[q], newSerial'[q] = newSerial[q],
           previous'[q] \subseteq previous[q],
           pc'[q] \in BeforeSaved => pc[q] \in BeforeSaved,
           Superseding(q)' => Superseding(q),
           Superseding(q)' /\ pc'[q] \in RevokeLabel =>
              /\ target'[q].serial \in previous'[q]
              /\ Owner(target'[q].serial) = requests[handled[q]].requester
    PROVE  KnowsPrevious(q)'
  <1>1. /\ \A c \in Csr : requests[c].state # "ABSENT" =>
               requests'[c].state # "ABSENT" /\ Subject(c)' = Subject(c)
               /\ requests'[c].requester = requests[c].requester
        /\ \A s \in Saved : s \in Saved' /\ SubjectOf(s)' = SubjectOf(s)
                            /\ Owner(s)' = Owner(s) /\ certificates'[s].tx = certificates[s].tx
    BY SubjectsStay, RowsAreStable DEF Stable
  <1>2. CASE pc'[q] \in BeforeSaved \/ Superseding(q)'
    <2>1. /\ handled[q] \in Csr /\ requests[handled[q]].state # "ABSENT"
          /\ \A s \in previous[q] : s \in Saved /\ SubjectOf(s) = Subject(handled[q])
      BY <1>2 DEF KnowsPrevious
    <2>2. /\ requests'[handled[q]].state # "ABSENT"
          /\ \A s \in previous'[q] : s \in Saved' /\ SubjectOf(s)' = Subject(handled[q])'
          /\ requests'[handled[q]].requester = requests[handled[q]].requester
      BY <1>1, <2>1
    <2>3. CASE ~ Superseding(q)'
      BY <1>2, <2>1, <2>2, <2>3 DEF KnowsPrevious
    <2>4. CASE Superseding(q)'
      <3>1. /\ newSerial[q] \in Saved' \ previous'[q]
            /\ certificates'[newSerial[q]].tx = handled[q]
        BY <1>1, <2>4 DEF KnowsPrevious
      <3>2. \A s \in previous'[q] : Owner(s) = requests[handled[q]].requester =>
               Owner(s)' = requests'[handled[q]].requester
        BY <1>1, <2>1, <2>2
      <3> QED
        BY <2>1, <2>2, <2>4, <3>1, <3>2 DEF KnowsPrevious, Owner
    <2> QED
      BY <2>3, <2>4
  <1>3. CASE ~ (pc'[q] \in BeforeSaved \/ Superseding(q)')
    BY <1>3 DEF KnowsPrevious
  <1> QED
    BY <1>2, <1>3

LEMMA FindsPrevious ==
    ASSUME IInv, NEW p \in Task, FindPrevious(p)
    PROVE  KnowsPrevious(p)'
  <1>1. /\ pc[p] = "find_previous" /\ pc'[p] = "ensure_not_revoked"
        /\ previous'[p] = ActiveBySubject(Subject(handled[p]))
        /\ UNCHANGED <<requests, certificates, handled>>
    BY DEF FindPrevious, Goto, storeVars, IInv, TypeOK
  <1>2. handled[p] \in Csr /\ requests[handled[p]].state # "ABSENT"
    BY <1>1 DEF IInv, TasksOK, TaskOK, LocalsOK, IssuesApproved, IssueLabel, Approved
  <1>3. \A s \in previous'[p] : s \in Saved /\ SubjectOf(s) = Subject(handled[p])
    BY <1>1 DEF ActiveBySubject, Active, Saved
  <1>4. ~ Superseding(p)'
    BY <1>1 DEF Superseding, RenewLabel, RevokeLabel
  <1> QED
    BY <1>1, <1>2, <1>3, <1>4 DEF KnowsPrevious, Subject, SubjectOf, Saved

LEMMA SavesAnother ==
    ASSUME IInv, [Next]_vars, NEW p \in Task, KnowsPrevious(p), RegisterCertificate(p),
           UNCHANGED flowVars
    PROVE  KnowsPrevious(p)'
  <1> DEFINE n == newSerial[p]
  <1>1. /\ pc[p] = "save_certificate" /\ pc'[p] = "certified"
        /\ certificates[n].status = "reserved"
        /\ certificates' = [certificates EXCEPT ![n] =
                              [status |-> "issued", tx |-> handled[p], reason |-> 0]]
        /\ UNCHANGED <<handled, newSerial, previous, requests>>
    BY DEF RegisterCertificate, SaveCertificate, Goto, flowVars, IInv, TypeOK
  <1>2. n \in Serial
    BY <1>1 DEF IInv, TasksOK, TaskOK, LocalsOK
  <1>3. /\ certificates'[n] = [status |-> "issued", tx |-> handled[p], reason |-> 0]
        /\ n \notin Saved /\ n \in Saved'
    BY <1>1, <1>2 DEF IInv, TypeOK, Saved
  <1>4. /\ handled[p] \in Csr /\ requests[handled[p]].state # "ABSENT"
        /\ \A s \in previous[p] : s \in Saved /\ SubjectOf(s) = Subject(handled[p])
    BY <1>1 DEF KnowsPrevious, BeforeSaved
  <1>5. \A s \in previous[p] : s \in Saved' /\ SubjectOf(s)' = SubjectOf(s)
    BY <1>4, SubjectsStay
  <1>6. Subject(handled[p])' = Subject(handled[p])
    BY <1>1 DEF Subject
  <1>7. certificates'[n].tx = handled[p] /\ n \in Saved' \ previous[p]
    BY <1>3, <1>4
  <1>8. pc'[p] \notin RevokeLabel
    BY <1>1 DEF RevokeLabel
  <1> HIDE DEF n
  <1> QED
    BY <1>1, <1>4, <1>5, <1>6, <1>7, <1>8 DEF KnowsPrevious, n

LEMMA Supersedes ==
    ASSUME IInv, [Next]_vars, NEW p \in Task, KnowsPrevious(p), Supersede(p)
    PROVE  KnowsPrevious(p)'
  <1> USE DEF Superseding, RenewLabel, BeforeSaved, RevokeLabel
  <1>0. TypeOK
    BY DEF IInv
  <1>1. /\ pc[p] = "supersede" /\ UNCHANGED <<handled, newSerial>>
    BY DEF Supersede
  <1>2. ASSUME NEW s \in previous[p], SkipPrevious(p, s)
        PROVE  KnowsPrevious(p)'
    <2>1. previous'[p] \subseteq previous[p] /\ pc'[p] = pc[p]
      BY <1>0, <1>2 DEF SkipPrevious, TypeOK
    <2> QED
      BY <1>1, <2>1, RenewalGoesOn
  <1>3. ASSUME NEW s \in previous[p], RevokePrevious(p, s)
        PROVE  KnowsPrevious(p)'
    <2>1. /\ UNCHANGED previous /\ pc'[p] = "journal_revocation"
          /\ target'[p].serial = s /\ Owner(s) = requests[handled[p]].requester
      BY <1>0, <1>3 DEF RevokePrevious, Goto, TypeOK
    <2> QED
      BY <1>1, <2>1, RenewalGoesOn
  <1>4. CASE Goto(p, "read_revoked")
    BY <1>0, <1>4 DEF Goto, TypeOK, KnowsPrevious
  <1> QED
    BY <1>2, <1>3, <1>4 DEF Supersede

LEMMA RenewerKnows ==
    ASSUME IInv, [Next]_vars, NEW p \in Task, KnowsPrevious(p), Acts(p)
    PROVE  KnowsPrevious(p)'
  <1>0. TypeOK /\ LocalsOK(p)
    BY DEF IInv, TasksOK, TaskOK
  <1> USE DEF Superseding, RenewLabel, BeforeSaved, RevokeLabel, Goto, TypeOK
  <1>1. CASE pc'[p] \notin BeforeSaved /\ ~ Superseding(p)'
    BY <1>1 DEF KnowsPrevious
  <1>2. CASE CheckBootstrap(p) \/ LookUp(p) \/ JournalReceipt(p) \/ CreateRequest(p)
                \/ Answer(p) \/ FindRequest(p) \/ UpdateRequest(p) \/ JournalDecision(p)
                \/ Refuse(p) \/ Stop(p)
    <2>1. CASE LookUp(p)
      <3>1. handled[p] \in Csr
        BY <1>0, <2>1 DEF LookUp, LocalsOK, EnrollLabel
      <3> QED
        BY <1>0, <1>1, <2>1, <3>1 DEF LookUp, Resume, Request, RequestState
    <2>2. CASE CheckBootstrap(p) \/ JournalReceipt(p) \/ CreateRequest(p) \/ Answer(p)
      BY <1>0, <1>1, <2>2 DEF CheckBootstrap, JournalReceipt, CreateRequest, Answer
    <2>3. CASE FindRequest(p) \/ UpdateRequest(p) \/ JournalDecision(p) \/ Refuse(p) \/ Stop(p)
      BY <1>0, <1>1, <2>3 DEF FindRequest, UpdateRequest, JournalDecision, Refuse,
         RefuseNonConforming, Stop, Abort
    <2> QED
      BY <1>2, <2>1, <2>2, <2>3
  <1>3. CASE Issuing(p)
    <2>0. UNCHANGED flowVars
      BY <1>3 DEF Issuing
    <2>1. CASE RegisterCertificate(p)
      BY <2>0, <2>1, SavesAnother
    <2>2. CASE DrawSerial(p)
      <3>1. CASE pc'[p] = "check_profile"
        <4>1. pc[p] = "reserve_serial" /\ UNCHANGED <<requests, handled, previous>>
          BY <2>0, <2>2 DEF DrawSerial, flowVars
        <4>2. Stable
          BY RowsAreStable
        <4>3. /\ handled[p] \in Csr /\ requests[handled[p]].state # "ABSENT"
              /\ \A s \in previous[p] : s \in Saved /\ SubjectOf(s) = Subject(handled[p])
          BY <4>1 DEF KnowsPrevious
        <4>4. \A s \in previous[p] : s \in Saved' /\ SubjectOf(s)' = SubjectOf(s)
          BY <4>3, SubjectsStay
        <4>5. Subject(handled[p])' = Subject(handled[p])
          BY <4>1 DEF Subject
        <4> QED
          BY <3>1, <4>1, <4>3, <4>4, <4>5 DEF KnowsPrevious
      <3>2. CASE pc'[p] # "check_profile"
        BY <1>0, <1>1, <2>2, <3>2 DEF DrawSerial
      <3> QED
        BY <3>1, <3>2
    <2>3. CASE EnsureNotRevoked(p) \/ JournalIssuance(p)
      <3>1. /\ pc[p] \in BeforeSaved /\ ~ Superseding(p)'
            /\ UNCHANGED <<handled, newSerial, previous>>
        BY <1>0, <2>0, <2>3 DEF EnsureNotRevoked, JournalIssuance, flowVars
      <3> QED
        BY <3>1, RenewalGoesOn
    <2>4. CASE JournalRevocation(p) \/ StoreRevocation(p)
      <3>1. /\ pc[p] \in RevokeLabel /\ pc'[p] \in RevokeLabel
            /\ UNCHANGED <<handled, newSerial, previous, target>>
        BY <1>0, <2>0, <2>4 DEF JournalRevocation, StoreRevocation, flowVars
      <3>2. Superseding(p)' => /\ Superseding(p)
                               /\ target[p].serial \in previous[p]
                               /\ Owner(target[p].serial) = requests[handled[p]].requester
        BY <3>1 DEF KnowsPrevious
      <3>3. pc'[p] \notin BeforeSaved
        BY <3>1
      <3> QED
        BY <3>1, <3>2, <3>3, RenewalGoesOn
    <2>5. CASE ReadRevoked(p) \/ DrawNumber(p) \/ ReadIssued(p) \/ JournalCrl(p)
                  \/ PublishCrl(p)
      <3>1. pc'[p] \in {"next_number", "read_issued", "journal_crl", "save_crl", "done"}
        BY <1>0, <2>5 DEF ReadRevoked, DrawNumber, ReadIssued, JournalCrl, PublishCrl
      <3> QED
        BY <1>1, <3>1
    <2> QED
      BY <1>3, <2>1, <2>2, <2>3, <2>4, <2>5 DEF Issuing, IssuerStep
  <1>4. CASE FindPrevious(p)
    BY <1>4, FindsPrevious
  <1>5. CASE Supersede(p)
    BY <1>5, Supersedes
  <1>6. CASE MarkIssued(p) \/ AfterRevoke(p)
    <2>1. /\ pc'[p] \in {"supersede", "failed", "read_revoked"}
          /\ pc'[p] = "supersede" => Superseding(p)
          /\ UNCHANGED <<handled, newSerial>> /\ previous'[p] \subseteq previous[p]
      BY <1>0, <1>6 DEF MarkIssued, AfterRevoke
    <2>2. pc'[p] \notin BeforeSaved \cup RevokeLabel /\ (Superseding(p)' => Superseding(p))
      BY <2>1
    <2> QED
      BY <2>1, <2>2, RenewalGoesOn
  <1>7. CASE \E r \in Requester, c \in Csr, f \in Profile : Submit(p, r, c, f)
    <2>1. pc'[p] \in {"bootstrap", "lookup"}
      BY <1>0, <1>7 DEF Submit, SubmitHmac, SubmitMtls, Start
    <2> QED
      BY <1>1, <2>1
  <1>8. CASE DeskStart(p)
    <2>1. ASSUME NEW o \in Operator, NEW c, NEW verdict, StartDecision(p, o, c, verdict)
          PROVE  pc'[p] = "find_request"
      BY <1>0, <2>1 DEF StartDecision
    <2>2. ASSUME NEW o \in Operator, NEW s, NEW reason, StartRevocation(p, o, s, reason)
          PROVE  pc'[p] = "journal_revocation" /\ target'[p].by = o
      BY <1>0, <2>2 DEF StartRevocation
    <2> QED
      BY <1>1, <1>8, <2>1, <2>2, AutomaticIsNobody DEF DeskStart
  <1> QED
    BY <1>2, <1>3, <1>4, <1>5, <1>6, <1>7, <1>8 DEF Acts, Step

LEMMA TasksKnowPrevious ==
    ASSUME IInv, [Next]_vars, \A p \in Task : KnowsPrevious(p)
    PROVE  \A p \in Task : KnowsPrevious(p)'
  <1>1. ASSUME NEW p \in Task, Acts(p), NEW q \in Task
        PROVE  KnowsPrevious(q)'
    <2>1. CASE q = p
      BY <1>1, <2>1, RenewerKnows
    <2>2. CASE q # p
      <3>1. /\ handled'[q] = handled[q] /\ newSerial'[q] = newSerial[q]
            /\ previous'[q] = previous[q] /\ pc'[q] = pc[q] /\ target'[q] = target[q]
        BY <1>1, <2>2, PreviousAlone DEF IInv, OthersStay
      <3>2. Superseding(q)' <=> Superseding(q)
        BY <3>1 DEF Superseding
      <3>3. Superseding(q)' /\ pc'[q] \in RevokeLabel =>
               /\ target'[q].serial \in previous'[q]
               /\ Owner(target'[q].serial) = requests[handled[q]].requester
        BY <3>1, <3>2 DEF KnowsPrevious
      <3> QED
        BY <3>1, <3>2, <3>3, RenewalGoesOn
    <2> QED
      BY <2>1, <2>2
  <1>2. CASE UNCHANGED <<requests, certificates, crls, journal, pc, handled,
                          newSerial, target, draft, job, previous, openedBySecret>>
    BY <1>2 DEF KnowsPrevious, Superseding, Owner, SubjectOf, Subject, Saved
  <1> QED
    BY <1>1, <1>2, SomeoneActsOrNot

LEMMA WhoSupersedes ==
    ASSUME IInv, NEW p \in Task, Acts(p), NEW s,
           SupersededLine(s) \in journal', SupersededLine(s) \notin journal
    PROVE  /\ pc[p] = "journal_revocation" /\ target[p].by = Automatic
           /\ target[p].serial = s /\ s \in Saved
  <1> USE DEF Record, storeVars, SupersededLine
  <1>1. CASE JournalRevocation(p)
    BY <1>1 DEF JournalRevocation
  <1>2. CASE CheckBootstrap(p) \/ LookUp(p) \/ JournalReceipt(p) \/ CreateRequest(p)
                \/ FindPrevious(p)
    BY <1>2 DEF CheckBootstrap, LookUp, JournalReceipt, CreateRequest, FindPrevious
  <1>3. CASE EnsureNotRevoked(p) \/ DrawSerial(p) \/ RegisterCertificate(p)
                \/ StoreRevocation(p) \/ ReadRevoked(p) \/ DrawNumber(p)
                \/ ReadIssued(p) \/ PublishCrl(p)
    BY <1>3 DEF EnsureNotRevoked, DrawSerial, RegisterCertificate, StoreRevocation,
         ReadRevoked, DrawNumber, ReadIssued, PublishCrl
  <1>4. CASE JournalIssuance(p) \/ JournalCrl(p)
    BY <1>4 DEF JournalIssuance, JournalCrl
  <1>5. CASE MarkIssued(p) \/ Supersede(p) \/ AfterRevoke(p) \/ Answer(p)
    BY <1>5 DEF MarkIssued, Supersede, SkipPrevious, RevokePrevious, AfterRevoke, Answer
  <1>6. CASE FindRequest(p) \/ UpdateRequest(p) \/ JournalDecision(p)
    BY <1>6 DEF FindRequest, UpdateRequest, JournalDecision
  <1>7. CASE Refuse(p) \/ Stop(p)
    BY <1>7 DEF Refuse, RefuseNonConforming, Stop, Abort
  <1>8. CASE \E r \in Requester, d \in Csr, f \in Profile : Submit(p, r, d, f)
    BY <1>8 DEF Submit, SubmitHmac, SubmitMtls, Start
  <1>9. CASE DeskStart(p)
    BY <1>9 DEF DeskStart, StartDecision, StartRevocation
  <1> QED
    BY <1>1, <1>2, <1>3, <1>4, <1>5, <1>6, <1>7, <1>8, <1>9 DEF Acts, Step, Issuing, IssuerStep

(* The other certificate of the same subject and requester, for good.      *)
Replaced(s) == \E n \in Saved \ {s} : SubjectOf(n) = SubjectOf(s) /\ Owner(n) = Owner(s)

LEMMA ReplacedStays ==
    ASSUME IInv, [Next]_vars, NEW s \in Saved, Replaced(s)
    PROVE  s \in Saved' /\ Replaced(s)'
  <1>1. PICK n \in Saved \ {s} : SubjectOf(n) = SubjectOf(s) /\ Owner(n) = Owner(s)
    BY DEF Replaced
  <1>2. \A m \in Saved : /\ m \in Saved' /\ SubjectOf(m)' = SubjectOf(m)
                         /\ Owner(m)' = Owner(m)
    BY SubjectsStay
  <1>3. n \in Saved' \ {s} /\ SubjectOf(n)' = SubjectOf(s)' /\ Owner(n)' = Owner(s)'
    BY <1>1, <1>2
  <1>4. Replaced(s)'
    BY <1>3 DEF Replaced
  <1> QED
    BY <1>2, <1>4

LEMMA NextSInv ==
    ASSUME IInv, SInv, [Next]_vars
    PROVE  SInv'
  <1>1. \A p \in Task : KnowsPrevious(p)'
    BY TasksKnowPrevious DEF SInv
  <1>2. ASSUME NEW s \in Serial, SupersededLine(s) \in journal'
        PROVE  s \in Saved' /\ Replaced(s)'
    <2>1. s \in Saved /\ Replaced(s)
      <3>1. CASE SupersededLine(s) \in journal
        BY <3>1 DEF SInv, SupersededByItsOwner, SupersededLine, Replaced
      <3>2. CASE SupersededLine(s) \notin journal
        <4>1. PICK p \in Task : Acts(p)
          BY <1>2, <3>2, SomeoneActsOrNot
        <4>2. /\ pc[p] = "journal_revocation" /\ target[p].by = Automatic
              /\ target[p].serial = s /\ s \in Saved
          BY <1>2, <3>2, <4>1, WhoSupersedes
        <4>3. Superseding(p) /\ pc[p] \in RevokeLabel
          BY <4>2 DEF Superseding, RevokeLabel
        <4>4. /\ handled[p] \in Csr
              /\ s \in previous[p] /\ Owner(s) = requests[handled[p]].requester
              /\ SubjectOf(s) = Subject(handled[p])
              /\ newSerial[p] \in Saved \ previous[p]
              /\ certificates[newSerial[p]].tx = handled[p]
          BY <4>2, <4>3 DEF SInv, KnowsPrevious
        <4>5. SubjectOf(newSerial[p]) = SubjectOf(s) /\ Owner(newSerial[p]) = Owner(s)
          BY <4>4 DEF SubjectOf, Owner
        <4> QED
          BY <4>2, <4>4, <4>5 DEF Replaced
      <3> QED
        BY <3>1, <3>2
    <2> QED
      BY <2>1, ReplacedStays
  <1>3. SupersededByItsOwner'
    BY <1>2 DEF SupersededByItsOwner, SupersededLine, Replaced
  <1>4. (\A s \in Serial : SupersededLine(s) \in journal => s \in Saved)'
    BY <1>2 DEF SupersededLine
  <1> QED
    BY <1>1, <1>3, <1>4 DEF SInv

LEMMA InitSInv == Init => SInv
  BY DEF Init, IssuerInit, StoreInit, SInv, KnowsPrevious, Superseding, RenewLabel, RevokeLabel,
     BeforeSaved, SupersededByItsOwner, SupersededLine

LEMMA RenewalInvariance == Spec => []SInv
  BY InitSInv, NextSInv, Invariance, PTL DEF Spec

(* Flow::issue and constat R-3: whatever the tasks that renew, decide and  *)
(* revoke at the same time, and wherever they stop, a renewal revokes only *)
(* a certificate of the same subject and of the same requester as another  *)
(* that exists.                                                            *)
THEOREM SupersedingKeepsToItsOwner == Spec => []SupersededByItsOwner
  <1>1. SInv => SupersededByItsOwner
    BY DEF SInv
  <1> QED
    BY <1>1, RenewalInvariance, PTL

-----------------------------------------------------------------------------
(* What the steps of a task leave alone.                                   *)

LEMMA ActsLeave ==
    ASSUME NEW p \in Task, Acts(p)
    PROVE  /\ UNCHANGED <<connected, authorityRevoked, expired>>
           /\ lateIssues' # lateIssues => RegisterCertificate(p) /\ Issuing(p)
  <1> USE DEF storeVars, flowVars
  <1>1. CASE CheckBootstrap(p) \/ LookUp(p) \/ JournalReceipt(p) \/ CreateRequest(p)
                \/ FindPrevious(p)
    BY <1>1 DEF CheckBootstrap, LookUp, JournalReceipt, CreateRequest, FindPrevious
  <1>2. CASE Issuing(p)
    <2>1. CASE EnsureNotRevoked(p) \/ DrawSerial(p) \/ JournalIssuance(p)
                  \/ JournalRevocation(p) \/ StoreRevocation(p)
      BY <1>2, <2>1 DEF Issuing, EnsureNotRevoked, DrawSerial, JournalIssuance,
         JournalRevocation, StoreRevocation
    <2>2. CASE ReadRevoked(p) \/ DrawNumber(p) \/ ReadIssued(p) \/ JournalCrl(p)
                  \/ PublishCrl(p)
      BY <1>2, <2>2 DEF Issuing, ReadRevoked, DrawNumber, ReadIssued, JournalCrl, PublishCrl
    <2>3. CASE RegisterCertificate(p)
      BY <1>2, <2>3 DEF Issuing, RegisterCertificate
    <2> QED
      BY <1>2, <2>1, <2>2, <2>3 DEF Issuing, IssuerStep
  <1>3. CASE MarkIssued(p) \/ Supersede(p) \/ AfterRevoke(p) \/ Answer(p)
    BY <1>3 DEF MarkIssued, Supersede, AfterRevoke, Answer
  <1>4. CASE FindRequest(p) \/ UpdateRequest(p) \/ JournalDecision(p)
    BY <1>4 DEF FindRequest, UpdateRequest, JournalDecision
  <1>5. CASE Refuse(p) \/ Stop(p)
    BY <1>5 DEF Refuse, RefuseNonConforming, Stop, Abort
  <1>6. CASE \E r \in Requester, c \in Csr, f \in Profile : Submit(p, r, c, f)
    BY <1>6 DEF Submit, SubmitHmac, SubmitMtls, Start
  <1>7. CASE DeskStart(p)
    BY <1>7 DEF DeskStart, StartDecision, StartRevocation
  <1> QED
    BY <1>1, <1>2, <1>3, <1>4, <1>5, <1>6, <1>7 DEF Acts, Step

-----------------------------------------------------------------------------
(* Peers: a request asks for the name its requester was given.             *)

AsksForOwnName(p) ==
    pc[p] \in EnrollLabel =>
       Acceptable(job[p].requester, handled[p], job[p].profile)

OpenedForOwnName(c) ==
    requests[c].state # "ABSENT" =>
       /\ requests[c].requester \in Requester
       /\ Acceptable(requests[c].requester, c, requests[c].profile)

PInv ==
    /\ \A p \in Task : AsksForOwnName(p)
    /\ \A c \in Csr : OpenedForOwnName(c)
    /\ PeerSpeaksForItself

LEMMA EnrollerAsks ==
    ASSUME IInv, NEW p \in Task, Acts(p), AsksForOwnName(p)
    PROVE  AsksForOwnName(p)'
  <1>0. TypeOK
    BY DEF IInv
  <1> USE <1>0 DEF TypeOK, Goto, EnrollLabel
  <1>1. CASE \E r \in Requester, c \in Csr, f \in Profile : Submit(p, r, c, f)
    <2>1. PICK r \in Requester, c \in Csr, f \in Profile : Submit(p, r, c, f)
      BY <1>1
    <2>2. /\ Acceptable(r, c, f)
          /\ handled'[p] = c /\ job'[p].requester = r /\ job'[p].profile = f
      <3>1. PICK bySecret \in BOOLEAN, label \in {"bootstrap", "lookup"} : Start(p, r, c, f, bySecret, label)
        BY <2>1 DEF Submit, SubmitHmac, SubmitMtls
      <3> QED
        BY <3>1 DEF Start, NoJob
    <2> QED
      BY <2>2 DEF AsksForOwnName, Acceptable, ExpectedCn
  <1>2. CASE UNCHANGED <<handled, job>> /\ (pc'[p] \in EnrollLabel => pc[p] \in EnrollLabel)
    BY <1>2 DEF AsksForOwnName, Acceptable, ExpectedCn
  <1>3. CASE pc'[p] \notin EnrollLabel
    BY <1>3 DEF AsksForOwnName
  <1>4. CASE CheckBootstrap(p) \/ JournalReceipt(p) \/ CreateRequest(p) \/ FindPrevious(p)
                \/ MarkIssued(p) \/ Supersede(p)
    BY <1>2, <1>4 DEF CheckBootstrap, JournalReceipt, CreateRequest, FindPrevious,
       MarkIssued, Supersede, SkipPrevious, RevokePrevious, flowVars
  <1>5. CASE LookUp(p)
    BY <1>2, <1>5 DEF LookUp, flowVars
  <1>6. CASE AfterRevoke(p) \/ Answer(p) \/ FindRequest(p) \/ UpdateRequest(p)
                \/ JournalDecision(p) \/ Refuse(p) \/ Stop(p)
    BY <1>3, <1>6 DEF AfterRevoke, Answer, FindRequest, UpdateRequest, JournalDecision,
       Refuse, RefuseNonConforming, Stop, Abort
  <1>7. CASE Issuing(p)
    <2>1. CASE EnsureNotRevoked(p) \/ DrawSerial(p) \/ JournalIssuance(p)
                  \/ RegisterCertificate(p) \/ JournalRevocation(p) \/ StoreRevocation(p)
      BY <1>3, <2>1 DEF EnsureNotRevoked, DrawSerial, JournalIssuance, RegisterCertificate,
         JournalRevocation, StoreRevocation
    <2>2. CASE ReadRevoked(p) \/ DrawNumber(p) \/ ReadIssued(p) \/ JournalCrl(p)
                  \/ PublishCrl(p)
      BY <1>3, <2>2 DEF ReadRevoked, DrawNumber, ReadIssued, JournalCrl, PublishCrl
    <2> QED
      BY <1>7, <2>1, <2>2 DEF Issuing, IssuerStep
  <1>8. CASE DeskStart(p)
    BY <1>3, <1>8 DEF DeskStart, StartDecision, StartRevocation
  <1> QED
    BY <1>1, <1>4, <1>5, <1>6, <1>7, <1>8 DEF Acts, Step

LEMMA AllAsk ==
    ASSUME IInv, [Next]_vars, \A p \in Task : AsksForOwnName(p)
    PROVE  \A p \in Task : AsksForOwnName(p)'
  <1>1. ASSUME NEW p \in Task, Acts(p), NEW q \in Task
        PROVE  AsksForOwnName(q)'
    <2>1. CASE q = p
      BY <1>1, <2>1, EnrollerAsks
    <2>2. CASE q # p
      BY <1>1, <2>2, PreviousAlone DEF IInv, OthersStay, AsksForOwnName, Acceptable, ExpectedCn
    <2> QED
      BY <2>1, <2>2
  <1>2. CASE UNCHANGED <<requests, certificates, crls, journal, pc, handled,
                          newSerial, target, draft, job, previous, openedBySecret>>
    BY <1>2 DEF AsksForOwnName, Acceptable, ExpectedCn
  <1> QED
    BY <1>1, <1>2, SomeoneActsOrNot

LEMMA AllOpened ==
    ASSUME IInv, [Next]_vars, \A p \in Task : AsksForOwnName(p),
           NEW c \in Csr, OpenedForOwnName(c)
    PROVE  OpenedForOwnName(c)'
  <1>0. requests \in [Csr -> Request]
    BY DEF IInv, TypeOK
  <1>1. Stable
    BY RowsAreStable
  <1>2. CASE requests[c].state # "ABSENT"
    BY <1>1, <1>2 DEF Stable, OpenedForOwnName, Acceptable, ExpectedCn
  <1>3. CASE requests[c].state = "ABSENT" /\ requests'[c].state # "ABSENT"
    <2>1. PICK p \in Task : Writes(p) /\ ~ UNCHANGED requests
      BY <1>3, WhoWrites DEF registry
    <2>2. CreateRequest(p) \/ MarkIssued(p) \/ UpdateRequest(p)
      BY <2>1 DEF Writes, Answer, flowVars
    <2>3. CreateRequest(p)
      BY <1>0, <1>3, <2>2 DEF MarkIssued, UpdateRequest, Request
    <2>4. /\ pc[p] = "create_request" /\ c = handled[p]
          /\ requests'[c].requester = job[p].requester
          /\ requests'[c].profile = job[p].profile
      BY <1>0, <1>3, <2>3 DEF CreateRequest, NoRequest
    <2>5. /\ job[p].requester \in Requester
          /\ Acceptable(job[p].requester, handled[p], job[p].profile)
      BY <2>4 DEF AsksForOwnName, EnrollLabel, IInv, TasksOK, TaskOK, LocalsOK
    <2> QED
      BY <2>4, <2>5 DEF OpenedForOwnName, Acceptable, ExpectedCn
  <1>4. CASE requests'[c].state = "ABSENT"
    BY <1>4 DEF OpenedForOwnName
  <1> QED
    BY <1>2, <1>3, <1>4

LEMMA WhoConnects ==
    ASSUME [Next]_vars, NEW cn \in connected', cn \notin connected
    PROVE  \E s \in Serial : Connect(s) /\ cn = CnOf[certificates[s].tx]
  <1>1. Environment
    BY SomeoneActs, ActsLeave DEF vars, flowVars
  <1> QED
    BY <1>1 DEF Environment, RevokeAuthority, Expire, Connect, SecretExpires, Disconnect,
       flowVars

LEMMA PeersStay ==
    ASSUME IInv, [Next]_vars, PeerSpeaksForItself, \A c \in Csr : OpenedForOwnName(c)
    PROVE  PeerSpeaksForItself'
  <1> SUFFICES ASSUME NEW r \in Requester, ClientCn[r] \in connected'
               PROVE  \E c \in Csr : /\ requests'[c].state \in {"APPROVED", "ISSUED"}
                                     /\ requests'[c].profile = EnrollClient
                                     /\ requests'[c].requester = r
    BY DEF PeerSpeaksForItself
  <1>1. PICK c \in Csr : /\ requests[c].state \in {"APPROVED", "ISSUED"}
                         /\ requests[c].profile = EnrollClient
                         /\ requests[c].requester = r
    <2>1. CASE ClientCn[r] \in connected
      BY <2>1 DEF PeerSpeaksForItself
    <2>2. CASE ClientCn[r] \notin connected
      <3>1. PICK s \in Serial : Connect(s) /\ ClientCn[r] = CnOf[certificates[s].tx]
        BY <2>2, WhoConnects
      <3>2. /\ certificates[s].tx \in Csr
            /\ requests[certificates[s].tx].state \in {"APPROVED", "ISSUED"}
            /\ requests[certificates[s].tx].profile = EnrollClient
        BY <3>1 DEF Connect, Active, Saved, IInv, IssuedOnlyAfterApproval
      <3> DEFINE d == certificates[s].tx
                 q == requests[d].requester
      <3>3. q \in Requester /\ Acceptable(q, d, EnrollClient)
        BY <3>2 DEF OpenedForOwnName
      <3>4. ClientCn[q] # None /\ ClientCn[q] = CnOf[d]
        BY <3>3 DEF Acceptable, ExpectedCn
      <3>5. q = r
        BY <3>1, <3>3, <3>4, ClientCnIdentifies
      <3> QED
        BY <3>2, <3>5
    <2> QED
      BY <2>1, <2>2
  <1>2. /\ requests'[c].profile = EnrollClient /\ requests'[c].requester = r
    BY <1>1, RowsAreStable DEF Stable
  <1>3. requests'[c].state \in {"APPROVED", "ISSUED"}
    BY <1>1, StepUndoesNothing DEF Undoes
  <1> QED
    BY <1>2, <1>3

LEMMA InitPInv == Init => PInv
  BY NoneIsNoValue
  DEF Init, IssuerInit, StoreInit, NoRequest, PInv, AsksForOwnName, OpenedForOwnName,
      PeerSpeaksForItself, EnrollLabel

LEMMA NextPInv ==
    ASSUME IInv, PInv, [Next]_vars
    PROVE  PInv'
  <1>1. \A p \in Task : AsksForOwnName(p)'
    BY AllAsk DEF PInv
  <1>2. \A c \in Csr : OpenedForOwnName(c)'
    BY AllOpened DEF PInv
  <1>3. PeerSpeaksForItself'
    BY PeersStay DEF PInv
  <1> QED
    BY <1>1, <1>2, <1>3 DEF PInv

(* check_enroll_client_certificate and submit_as: the name under which a   *)
(* peer is admitted was imposed on the request of the requester it belongs *)
(* to, and that request was approved; no other requester can be admitted   *)
(* under it, whatever was submitted, revoked or interrupted meanwhile.     *)
THEOREM PeersAreTheirRequesters == Spec => []PeerSpeaksForItself
  <1>1. Spec => []PInv
    BY InitPInv, NextPInv, Invariance, PTL DEF Spec
  <1>2. PInv => PeerSpeaksForItself
    BY DEF PInv
  <1> QED
    BY <1>1, <1>2, PTL

-----------------------------------------------------------------------------
(* The end of the authority.                                               *)

PastTheCheck == {p \in Handler : pc[p] \in {"reserve_serial", "check_profile", "save_certificate"}}

LInv ==
    /\ ~ authorityRevoked => lateIssues = 0
    /\ authorityRevoked => lateIssues + Cardinality(PastTheCheck) <= Cardinality(Handler)

LEMMA HandlersCount ==
    /\ Cardinality(Handler) \in Nat
    /\ \A S \in SUBSET Handler : /\ IsFiniteSet(S) /\ Cardinality(S) \in Nat
                                 /\ Cardinality(S) <= Cardinality(Handler)
                                 /\ \A x \in S : Cardinality(S \ {x}) = Cardinality(S) - 1
                                 /\ \A T \in SUBSET S : Cardinality(T) <= Cardinality(S)
  <1>1. Cardinality(Handler) \in Nat
    BY FiniteHandlers, FS_CardinalityType
  <1>2. ASSUME NEW S \in SUBSET Handler
        PROVE  /\ IsFiniteSet(S) /\ Cardinality(S) \in Nat
               /\ Cardinality(S) <= Cardinality(Handler)
    BY FiniteHandlers, FS_Subset, FS_CardinalityType
  <1>3. ASSUME NEW S \in SUBSET Handler, NEW x \in S
        PROVE  Cardinality(S \ {x}) = Cardinality(S) - 1
    BY <1>2, FS_RemoveElement
  <1>4. ASSUME NEW S \in SUBSET Handler, NEW T \in SUBSET S
        PROVE  Cardinality(T) <= Cardinality(S)
    BY <1>2, FS_Subset
  <1> QED
    BY <1>1, <1>2, <1>3, <1>4

(* Once the authority is revoked, nobody passes the check any more.        *)
LEMMA NobodyPasses ==
    ASSUME IInv, authorityRevoked, NEW p \in Task, Acts(p),
           pc'[p] \in {"reserve_serial", "check_profile", "save_certificate"}
    PROVE  pc[p] \in {"reserve_serial", "check_profile", "save_certificate"}
  <1>0. TypeOK /\ LocalsOK(p)
    BY DEF IInv, TasksOK, TaskOK
  <1> USE <1>0 DEF TypeOK, Goto
  <1>1. CASE CheckBootstrap(p) \/ LookUp(p) \/ JournalReceipt(p) \/ CreateRequest(p)
                \/ FindPrevious(p) \/ MarkIssued(p) \/ Supersede(p)
    <2>1. CASE LookUp(p)
      <3>1. handled[p] \in Csr
        BY <2>1 DEF LookUp, LocalsOK, EnrollLabel
      <3> QED
        BY <2>1, <3>1 DEF LookUp, Resume, Request, RequestState
    <2>2. CASE CheckBootstrap(p) \/ JournalReceipt(p) \/ CreateRequest(p)
                  \/ FindPrevious(p) \/ MarkIssued(p) \/ Supersede(p)
      BY <2>2 DEF CheckBootstrap, JournalReceipt, CreateRequest, FindPrevious, MarkIssued,
         Supersede, SkipPrevious, RevokePrevious
    <2> QED
      BY <1>1, <2>1, <2>2
  <1>2. CASE AfterRevoke(p) \/ Answer(p) \/ FindRequest(p) \/ UpdateRequest(p)
                \/ JournalDecision(p) \/ Refuse(p) \/ Stop(p)
    BY <1>2 DEF AfterRevoke, Answer, FindRequest, UpdateRequest, JournalDecision, Refuse,
       RefuseNonConforming, Stop, Abort
  <1>3. CASE Issuing(p)
    <2>1. CASE EnsureNotRevoked(p) \/ DrawSerial(p) \/ JournalIssuance(p)
                  \/ RegisterCertificate(p) \/ JournalRevocation(p) \/ StoreRevocation(p)
      BY <2>1 DEF EnsureNotRevoked, DrawSerial, JournalIssuance, RegisterCertificate,
         JournalRevocation, StoreRevocation
    <2>2. CASE ReadRevoked(p) \/ DrawNumber(p) \/ ReadIssued(p) \/ JournalCrl(p)
                  \/ PublishCrl(p)
      BY <2>2 DEF ReadRevoked, DrawNumber, ReadIssued, JournalCrl, PublishCrl
    <2> QED
      BY <1>3, <2>1, <2>2 DEF Issuing, IssuerStep
  <1>4. CASE \E r \in Requester, c \in Csr, f \in Profile : Submit(p, r, c, f)
    BY <1>4 DEF Submit, SubmitHmac, SubmitMtls, Start
  <1>5. CASE DeskStart(p)
    BY <1>5 DEF DeskStart, StartDecision, StartRevocation
  <1> QED
    BY <1>1, <1>2, <1>3, <1>4, <1>5 DEF Acts, Step

LEMMA NextLInv ==
    ASSUME IInv, Roles, LInv, [Next]_vars
    PROVE  LInv'
  <1>0. TypeOK
    BY DEF IInv
  <1>1. ASSUME NEW p \in Task, Acts(p) PROVE LInv'
    <2>1. UNCHANGED authorityRevoked
          /\ (lateIssues' # lateIssues => RegisterCertificate(p) /\ Issuing(p))
      BY <1>1, ActsLeave
    <2>2. CASE ~ authorityRevoked
      BY <2>1, <2>2 DEF LInv, Issuing
    <2>3. CASE authorityRevoked
      <3>1. PastTheCheck' \subseteq PastTheCheck
        BY <1>0, <1>1, <2>3, NobodyPasses, PreviousAlone, TasksAssumption
        DEF PastTheCheck, OthersStay
      <3>2. PastTheCheck \subseteq Handler
        BY DEF PastTheCheck
      <3>3. /\ Cardinality(PastTheCheck) \in Nat /\ Cardinality(PastTheCheck') \in Nat
            /\ Cardinality(PastTheCheck') <= Cardinality(PastTheCheck)
            /\ Cardinality(Handler) \in Nat /\ lateIssues \in Nat
        BY <1>0, <3>1, <3>2, HandlersCount DEF TypeOK
      <3>4. CASE lateIssues' = lateIssues
        BY <2>1, <2>3, <3>3, <3>4 DEF LInv
      <3>5. CASE lateIssues' # lateIssues
        <4>1. /\ pc[p] = "save_certificate" /\ pc'[p] = "certified"
              /\ lateIssues' = lateIssues + 1
          BY <1>0, <2>1, <2>3, <3>5 DEF RegisterCertificate, Issuing, Goto, TypeOK
        <4>2. p \in Handler
          BY <4>1 DEF Roles, Enrolling, IssueLabel
        <4>3. p \in PastTheCheck /\ p \notin PastTheCheck'
          BY <4>1, <4>2 DEF PastTheCheck
        <4>4. PastTheCheck' \subseteq PastTheCheck \ {p}
          BY <3>1, <4>3
        <4>5. /\ Cardinality(PastTheCheck \ {p}) = Cardinality(PastTheCheck) - 1
              /\ PastTheCheck \ {p} \subseteq Handler
          BY <3>2, <4>3, HandlersCount
        <4>6. Cardinality(PastTheCheck') <= Cardinality(PastTheCheck) - 1
          BY <4>4, <4>5, HandlersCount
        <4> QED
          BY <2>1, <2>3, <3>3, <4>1, <4>6 DEF LInv
      <3> QED
        BY <3>4, <3>5
    <2> QED
      BY <2>2, <2>3
  <1>2. CASE RevokeAuthority
    <2>1. lateIssues' = 0 /\ PastTheCheck' \subseteq Handler
      BY <1>2 DEF RevokeAuthority, LInv, PastTheCheck
    <2> QED
      BY <1>2, <2>1, HandlersCount DEF RevokeAuthority, LInv
  <1>3. CASE UNCHANGED <<authorityRevoked, lateIssues, pc>>
    BY <1>3 DEF LInv, PastTheCheck
  <1> QED
    BY <1>1, <1>2, <1>3, SomeoneActs
    DEF Environment, Expire, Connect, SecretExpires, Disconnect, vars, storeVars, issuerVars

(* ensure_not_revoked, read again at every issuance: once the root revokes *)
(* the authority, each handler of ca-server saves one more certificate at  *)
(* most, the one it had begun, however many there are.                     *)
THEOREM LateIssuesAreFew == Spec => []FewLateIssues
  <1>1. Init => Roles /\ LInv
    BY DEF Init, IssuerInit, StoreInit, Roles, Enrolling, Superseding, EnrollLabel, IssueLabel,
       RenewLabel, RevokeLabel, LInv
  <1>2. Spec => [](Roles /\ LInv)
    BY <1>1, RolesStay, NextLInv, Invariance, PTL DEF Spec
  <1>3. TypeOK /\ LInv => FewLateIssues
    <2>1. PastTheCheck \subseteq Handler
      BY DEF PastTheCheck
    <2>2. Cardinality(PastTheCheck) \in Nat /\ Cardinality(Handler) \in Nat
      BY <2>1, HandlersCount
    <2> QED
      BY <2>2 DEF LInv, FewLateIssues, TypeOK
  <1> QED
    BY <1>2, <1>3, TypeCorrect, PTL

-----------------------------------------------------------------------------
(* One submission at a time: what the checks before an await are worth as  *)
(* long as no other submission comes between (any number of desks).        *)

OneHandler == \A p, q \in Handler : p = q

(* Only a submission opens a request.                                      *)
LEMMA WhoOpens ==
    ASSUME IInv, [Next]_vars, NEW c \in Csr,
           requests[c].state = "ABSENT", requests'[c].state # "ABSENT"
    PROVE  \E p \in Task : CreateRequest(p) /\ c = handled[p]
  <1>0. requests \in [Csr -> Request]
    BY DEF IInv, TypeOK
  <1>1. PICK p \in Task : Writes(p) /\ ~ UNCHANGED requests
    BY WhoWrites DEF registry
  <1>2. CreateRequest(p) \/ MarkIssued(p) \/ UpdateRequest(p)
    BY <1>1 DEF Writes, Answer, flowVars
  <1>3. CreateRequest(p)
    BY <1>0, <1>2 DEF MarkIssued, UpdateRequest, Request
  <1> QED
    BY <1>0, <1>3 DEF CreateRequest

(* Another request of r, not rejected, for a client certificate.           *)
SecretUsed(c, r) ==
    \E d \in Csr \ {c} : /\ requests[d].state \notin {"ABSENT", "REJECTED"}
                         /\ requests[d].profile = EnrollClient
                         /\ requests[d].requester = r

LEMMA SecretUsedBefore ==
    ASSUME IInv, [Next]_vars, NEW c \in Csr, NEW r, SecretUsed(c, r)',
           \A d \in Csr \ {c} : requests[d].state = "ABSENT" => requests'[d].state = "ABSENT"
    PROVE  SecretUsed(c, r)
  <1>1. PICK d \in Csr \ {c} : /\ requests'[d].state \notin {"ABSENT", "REJECTED"}
                               /\ requests'[d].profile = EnrollClient
                               /\ requests'[d].requester = r
    BY DEF SecretUsed
  <1>2. requests[d].state # "ABSENT"
    BY <1>1
  <1>3. /\ requests[d].profile = EnrollClient /\ requests[d].requester = r
    BY <1>1, <1>2, RowsAreStable DEF Stable
  <1>4. requests[d].state # "REJECTED"
    BY <1>1, StepUndoesNothing DEF Undoes
  <1> QED
    BY <1>2, <1>3, <1>4 DEF SecretUsed

(* Past the check, no other request has used the secret.                   *)
SecretUnused(p) ==
    /\ pc[p] \in {"lookup", "journal_receipt", "create_request"}
    /\ job[p].bySecret /\ job[p].profile = EnrollClient
    => ~ SecretUsed(handled[p], job[p].requester)

BInv ==
    /\ \A p \in Task : SecretUnused(p)
    /\ \A c \in openedBySecret : requests[c].state # "ABSENT"
    /\ BootstrapOnce

LEMMA CheckedGoesOn ==
    ASSUME IInv, [Next]_vars, NEW p \in Task, SecretUnused(p),
           handled'[p] = handled[p], job'[p] = job[p],
           pc'[p] \in {"lookup", "journal_receipt", "create_request"} =>
              /\ pc[p] \in {"lookup", "journal_receipt", "create_request"}
              /\ \A d \in Csr : requests[d].state = "ABSENT" => requests'[d].state = "ABSENT"
    PROVE  SecretUnused(p)'
  <1>1. handled[p] \in Csr \/ pc'[p] \notin {"lookup", "journal_receipt", "create_request"}
    BY DEF IInv, TasksOK, TaskOK, LocalsOK, EnrollLabel
  <1> QED
    BY <1>1, SecretUsedBefore DEF SecretUnused

LEMMA CheckerKnows ==
    ASSUME IInv, [Next]_vars, NEW p \in Task, Acts(p), SecretUnused(p)
    PROVE  SecretUnused(p)'
  <1>0. TypeOK /\ LocalsOK(p)
    BY DEF IInv, TasksOK, TaskOK
  <1> USE <1>0 DEF TypeOK, Goto
  <1>1. CASE \E r \in Requester, c \in Csr, f \in Profile : Submit(p, r, c, f)
    <2>1. PICK r \in Requester, c \in Csr, f \in Profile : Submit(p, r, c, f)
      BY <1>1
    <2>2. CASE SubmitHmac(p, r, c, f)
      BY <2>2 DEF SubmitHmac, Start, NoJob, SecretUnused
    <2>3. CASE SubmitMtls(p, r, c, f)
      BY <2>3 DEF SubmitMtls, Start, NoJob, SecretUnused
    <2> QED
      BY <2>1, <2>2, <2>3 DEF Submit
  <1>2. CASE CheckBootstrap(p)
    <2>1. UNCHANGED <<requests, handled, job>>
      BY <1>2 DEF CheckBootstrap, flowVars
    <2>2. pc'[p] = "lookup" => ~ SecretUsed(handled[p], job[p].requester)
      BY <1>2 DEF CheckBootstrap, SecretUsed
    <2>3. pc'[p] \in {"lookup", "failed"}
      BY <1>2 DEF CheckBootstrap
    <2>4. SecretUsed(handled[p], job[p].requester)' <=> SecretUsed(handled[p], job[p].requester)
      BY <2>1 DEF SecretUsed
    <2> QED
      BY <2>1, <2>2, <2>3, <2>4 DEF SecretUnused
  <1>3. CASE LookUp(p) \/ JournalReceipt(p)
    <2>1. UNCHANGED <<requests, handled, job>>
          /\ pc[p] \in {"lookup", "journal_receipt", "create_request"}
      BY <1>3 DEF LookUp, JournalReceipt, flowVars
    <2> QED
      BY <2>1, CheckedGoesOn
  <1>4. CASE pc'[p] \notin {"lookup", "journal_receipt", "create_request"}
    BY <1>4 DEF SecretUnused
  <1>5. CASE CreateRequest(p) \/ FindPrevious(p) \/ MarkIssued(p) \/ Supersede(p)
    BY <1>4, <1>5 DEF CreateRequest, FindPrevious, MarkIssued, Supersede, SkipPrevious,
       RevokePrevious
  <1>6. CASE AfterRevoke(p) \/ Answer(p) \/ FindRequest(p) \/ UpdateRequest(p)
                \/ JournalDecision(p) \/ Refuse(p) \/ Stop(p)
    BY <1>4, <1>6 DEF AfterRevoke, Answer, FindRequest, UpdateRequest, JournalDecision,
       Refuse, RefuseNonConforming, Stop, Abort
  <1>7. CASE Issuing(p)
    <2>1. CASE EnsureNotRevoked(p) \/ DrawSerial(p) \/ JournalIssuance(p)
                  \/ RegisterCertificate(p) \/ JournalRevocation(p) \/ StoreRevocation(p)
      BY <1>4, <2>1 DEF EnsureNotRevoked, DrawSerial, JournalIssuance, RegisterCertificate,
         JournalRevocation, StoreRevocation
    <2>2. CASE ReadRevoked(p) \/ DrawNumber(p) \/ ReadIssued(p) \/ JournalCrl(p)
                  \/ PublishCrl(p)
      BY <1>4, <2>2 DEF ReadRevoked, DrawNumber, ReadIssued, JournalCrl, PublishCrl
    <2> QED
      BY <1>7, <2>1, <2>2 DEF Issuing, IssuerStep
  <1>8. CASE DeskStart(p)
    BY <1>4, <1>8 DEF DeskStart, StartDecision, StartRevocation
  <1> QED
    BY <1>1, <1>2, <1>3, <1>5, <1>6, <1>7, <1>8 DEF Acts, Step

LEMMA AllChecked ==
    ASSUME IInv, Roles, OneHandler, [Next]_vars, \A p \in Task : SecretUnused(p)
    PROVE  \A p \in Task : SecretUnused(p)'
  <1>1. ASSUME NEW p \in Task, Acts(p), NEW q \in Task
        PROVE  SecretUnused(q)'
    <2>1. CASE q = p
      BY <1>1, <2>1, CheckerKnows
    <2>2. CASE q # p
      <3>1. pc'[q] = pc[q] /\ handled'[q] = handled[q] /\ job'[q] = job[q]
        BY <1>1, <2>2, PreviousAlone DEF IInv, OthersStay
      <3>2. ASSUME pc[q] \in {"lookup", "journal_receipt", "create_request"}, NEW d \in Csr,
                   requests[d].state = "ABSENT", requests'[d].state # "ABSENT"
            PROVE  FALSE
        <4>1. PICK r \in Task : CreateRequest(r)
          BY <3>2, WhoOpens
        <4>2. r \in Handler /\ q \in Handler
          BY <3>2, <4>1 DEF CreateRequest, Roles, Enrolling, EnrollLabel
        <4>3. r = q
          BY <4>2 DEF OneHandler
        <4> QED
          BY <3>1, <3>2, <4>1, <4>3 DEF CreateRequest, Goto, IInv, TypeOK
      <3> QED
        BY <3>1, <3>2, CheckedGoesOn
    <2> QED
      BY <2>1, <2>2
  <1>2. CASE UNCHANGED <<requests, certificates, crls, journal, pc, handled,
                          newSerial, target, draft, job, previous, openedBySecret>>
    BY <1>2 DEF SecretUnused, SecretUsed
  <1> QED
    BY <1>1, <1>2, SomeoneActsOrNot

LEMMA WhoOpensBySecret ==
    ASSUME [Next]_vars
    PROVE  \/ UNCHANGED openedBySecret
           \/ \E p \in Task : /\ CreateRequest(p) /\ requests[handled[p]].state = "ABSENT"
                              /\ job[p].bySecret
                              /\ openedBySecret' = openedBySecret \cup {handled[p]}
  <1>1. ASSUME NEW p \in Task, Acts(p), ~ CreateRequest(p)
        PROVE  UNCHANGED openedBySecret
    <2>1. CASE CheckBootstrap(p) \/ LookUp(p) \/ JournalReceipt(p) \/ FindPrevious(p)
                  \/ Issuing(p) \/ MarkIssued(p) \/ Supersede(p) \/ AfterRevoke(p)
      BY <2>1 DEF CheckBootstrap, LookUp, JournalReceipt, FindPrevious, Issuing, MarkIssued,
         Supersede, AfterRevoke, flowVars
    <2>2. CASE FindRequest(p) \/ UpdateRequest(p) \/ JournalDecision(p) \/ Answer(p)
                  \/ Refuse(p) \/ Stop(p)
      BY <2>2 DEF FindRequest, UpdateRequest, JournalDecision, Answer, Refuse, Stop, flowVars
    <2>3. CASE \E r \in Requester, c \in Csr, f \in Profile : Submit(p, r, c, f)
      BY <2>3 DEF Submit, SubmitHmac, SubmitMtls, Start
    <2>4. CASE DeskStart(p)
      BY <2>4 DEF DeskStart, StartDecision, StartRevocation
    <2> QED
      BY <1>1, <2>1, <2>2, <2>3, <2>4 DEF Acts, Step
  <1>2. CASE Environment \/ UNCHANGED vars
    BY <1>2 DEF Environment, RevokeAuthority, Expire, Connect, SecretExpires, Disconnect,
       flowVars, vars
  <1>3. ASSUME NEW p \in Task, CreateRequest(p)
        PROVE  \/ UNCHANGED openedBySecret
               \/ /\ requests[handled[p]].state = "ABSENT" /\ job[p].bySecret
                  /\ openedBySecret' = openedBySecret \cup {handled[p]}
    BY <1>3 DEF CreateRequest
  <1> QED
    BY <1>1, <1>2, <1>3, SomeoneActs

(* What BootstrapOnce compares of two requests.                            *)
Bootstraps(c, d) ==
    /\ requests[c].profile = EnrollClient /\ requests[d].profile = EnrollClient
    /\ requests[c].requester = requests[d].requester
    /\ requests[c].state # "REJECTED" /\ requests[d].state # "REJECTED"

LEMMA NextBInv ==
    ASSUME IInv, Roles, OneHandler, BInv, [Next]_vars
    PROVE  BInv'
  <1>0. requests \in [Csr -> Request] /\ openedBySecret \subseteq Csr
    BY DEF IInv, TypeOK
  <1>1. \A p \in Task : SecretUnused(p)'
    BY AllChecked DEF BInv
  <1>2. ASSUME NEW c \in openedBySecret
        PROVE  /\ requests'[c].state # "ABSENT"
               /\ requests'[c].profile = requests[c].profile
               /\ requests'[c].requester = requests[c].requester
               /\ requests[c].state = "REJECTED" => requests'[c].state = "REJECTED"
    BY <1>0, RowsAreStable, StepUndoesNothing DEF BInv, Stable, Undoes
  <1>3. ASSUME NEW c \in openedBySecret, NEW d \in openedBySecret, Bootstraps(c, d)'
        PROVE  c = d
    BY <1>2, <1>3 DEF BInv, BootstrapOnce, Bootstraps
  <1>4. CASE UNCHANGED openedBySecret
    BY <1>1, <1>2, <1>3, <1>4 DEF BInv, BootstrapOnce, Bootstraps
  <1>5. ASSUME NEW p \in Task, NEW n \in Csr, n = handled[p], CreateRequest(p),
               requests[n].state = "ABSENT", job[p].bySecret,
               openedBySecret' = openedBySecret \cup {n}
        PROVE  BInv'
    <2>1. /\ pc[p] = "create_request"
          /\ requests' = [requests EXCEPT ![n] =
                            [NoRequest EXCEPT !.state = "PENDING",
                                              !.profile = job[p].profile,
                                              !.requester = job[p].requester]]
      BY <1>5 DEF CreateRequest
    <2>2. /\ requests'[n].state = "PENDING" /\ requests'[n].profile = job[p].profile
          /\ requests'[n].requester = job[p].requester
          /\ \A d \in Csr \ {n} : requests'[d] = requests[d]
      BY <1>0, <2>1 DEF NoRequest
    <2>3. n \notin openedBySecret
      BY <1>5 DEF BInv
    <2>4. ASSUME NEW d \in openedBySecret, Bootstraps(n, d)' \/ Bootstraps(d, n)'
          PROVE  FALSE
      <3>1. /\ job[p].profile = EnrollClient
            /\ d \in Csr \ {n}
            /\ requests[d].state \notin {"ABSENT", "REJECTED"}
            /\ requests[d].profile = EnrollClient
            /\ requests[d].requester = job[p].requester
        BY <1>0, <2>2, <2>3, <2>4 DEF Bootstraps, BInv
      <3>2. SecretUsed(n, job[p].requester)
        BY <3>1 DEF SecretUsed
      <3> QED
        BY <1>5, <2>1, <3>1, <3>2 DEF BInv, SecretUnused
    <2>5. ASSUME NEW c \in openedBySecret', NEW d \in openedBySecret', Bootstraps(c, d)'
          PROVE  c = d
      BY <1>3, <1>5, <2>4, <2>5
    <2>6. \A c \in openedBySecret' : requests'[c].state # "ABSENT"
      BY <1>2, <1>5, <2>2
    <2> QED
      BY <1>1, <2>5, <2>6 DEF BInv, BootstrapOnce, Bootstraps
  <1>6. \A p \in Task : CreateRequest(p) => handled[p] \in Csr
    BY DEF CreateRequest, IInv, TasksOK, TaskOK, LocalsOK, EnrollLabel
  <1> QED
    BY <1>4, <1>5, <1>6, WhoOpensBySecret

LEMMA InitRoles == Init => Roles
  BY DEF Init, IssuerInit, StoreInit, Roles, Enrolling, Superseding, EnrollLabel, IssueLabel,
     RenewLabel, RevokeLabel

(* ensure_bootstrap_unused looks and Flow::open inserts, with two awaits   *)
(* between: as long as submissions come one at a time, and whatever the    *)
(* operators do meanwhile and wherever tasks stop, a secret opens a single *)
(* request for a client certificate.  With two submissions it opens two    *)
(* (the run bootstrap_violated).                                           *)
THEOREM OneSubmissionBootstrapsOnce ==
    ASSUME OneHandler
    PROVE  Spec => []BootstrapOnce
  <1>1. Init => Roles /\ BInv
    BY InitRoles DEF Init, IssuerInit, BInv, SecretUnused, BootstrapOnce
  <1>2. IInv /\ Roles /\ BInv /\ [Next]_vars => Roles' /\ BInv'
    BY RolesStay, NextBInv
  <1>3. BInv => BootstrapOnce
    BY DEF BInv
  <1> QED
    BY <1>1, <1>2, <1>3, Invariance, PTL DEF Spec

-----------------------------------------------------------------------------
(* One active certificate per subject, once nothing runs.                  *)

(* An active certificate was active, or has just been saved.               *)
LEMMA WhoActivates ==
    ASSUME IInv, [Next]_vars, NEW s \in Active', s \notin Active
    PROVE  \E p \in Task : /\ RegisterCertificate(p) /\ UNCHANGED flowVars
                          /\ s = newSerial[p]
  <1>0. TypeOK /\ s \in Saved' /\ certificates'[s].status = "issued" /\ s \notin expired'
    BY DEF IInv, Active, Saved
  <1>1. expired \subseteq expired'
    <2>1. ASSUME NEW p \in Task, Acts(p) PROVE expired \subseteq expired'
      BY <2>1, ActsLeave
    <2> QED
      BY <2>1, SomeoneActs DEF Environment, RevokeAuthority, Expire, Connect, SecretExpires,
         Disconnect, storeVars, vars
  <1>2. s \notin Saved
    <2>1. CASE s \in RevokedSerials
      BY <1>0, <2>1, StepUndoesNothing DEF RevokedSerials
    <2>2. CASE s \in Saved \ RevokedSerials
      BY <1>0, <1>1, <2>2 DEF Active, Saved, RevokedSerials
    <2> QED
      BY <2>1, <2>2
  <1>3. PICK p \in Task : Writes(p) /\ ~ UNCHANGED certificates
    BY <1>0, <1>2, WhoWrites DEF registry, Saved
  <1>4. (DrawSerial(p) \/ RegisterCertificate(p) \/ StoreRevocation(p)) /\ UNCHANGED flowVars
    BY <1>3, RequestWritten DEF Writes, Answer, storeVars
  <1>5. ~ DrawSerial(p)
    BY <1>0, <1>2, <1>3 DEF DrawSerial, ReserveSerial, TypeOK, Certificate, Saved
  <1>6. ~ StoreRevocation(p)
    BY <1>0, <1>2, <1>3 DEF StoreRevocation, RevokeCertificate, TypeOK, Certificate, Saved
  <1>7. RegisterCertificate(p) /\ s = newSerial[p]
    BY <1>0, <1>2, <1>4, <1>5, <1>6 DEF RegisterCertificate, SaveCertificate, TypeOK, Saved
  <1> QED
    BY <1>4, <1>7

NoFaults == MaxFaults = 0

(* A handler that has not saved its certificate yet knows all the active   *)
(* ones of its subject.                                                    *)
KnowsAll(p) ==
    pc[p] \in BeforeSaved =>
       \A s \in Active : SubjectOf(s) = Subject(handled[p]) => s \in previous[p]

ApprovedLabel == BeforeSaved \cup {"find_previous", "certified"}
StillApproved(p) == pc[p] \in ApprovedLabel => requests[handled[p]].state = "APPROVED"

RevokedIsInactive(p) ==
    pc[p] = "revoked" /\ target[p].by = Automatic => target[p].serial \notin Active

(* Two active certificates of one subject and one requester, and the       *)
(* handler that is about to revoke the older one, n.                       *)
Twins(s, n) ==
    /\ s \in Active /\ n \in Active /\ s # n
    /\ SubjectOf(s) = SubjectOf(n) /\ Owner(s) = Owner(n)
Covers(p, s, n) == Superseding(p) /\ newSerial[p] = s /\ n \in previous[p]

AInv ==
    /\ \A p \in Task : KnowsAll(p) /\ StillApproved(p) /\ RevokedIsInactive(p)
    /\ \A s, n \in Serial : Twins(s, n) =>
          \E p \in Task : Covers(p, s, n) \/ Covers(p, n, s)

(* While the handler has not saved, no certificate becomes active.         *)
LEMMA NothingActivates ==
    ASSUME IInv, Roles, OneHandler, [Next]_vars, NEW p \in Handler, pc'[p] # "certified"
    PROVE  Active' \subseteq Active
  <1> SUFFICES ASSUME NEW s \in Active', s \notin Active PROVE FALSE
    OBVIOUS
  <1>1. PICK q \in Task : RegisterCertificate(q)
    BY WhoActivates
  <1>2. q \in Handler
    BY <1>1 DEF RegisterCertificate, Roles, Enrolling, IssueLabel
  <1>3. q = p
    BY <1>2 DEF OneHandler
  <1> QED
    BY <1>1, <1>3 DEF RegisterCertificate, Goto, IInv, TypeOK

LEMMA KnowsAllGoesOn ==
    ASSUME IInv, Roles, OneHandler, [Next]_vars, NEW p \in Task, KnowsAll(p), KnowsPrevious(p),
           handled'[p] = handled[p], previous'[p] = previous[p],
           pc'[p] \in BeforeSaved => pc[p] \in BeforeSaved
    PROVE  KnowsAll(p)'
  <1> SUFFICES ASSUME pc'[p] \in BeforeSaved, pc[p] \in BeforeSaved
               PROVE  \A s \in Active' : SubjectOf(s)' = Subject(handled[p])' => s \in previous'[p]
    BY DEF KnowsAll
  <1>1. p \in Handler
    BY DEF Roles, Enrolling, IssueLabel, BeforeSaved
  <1>2. Active' \subseteq Active
    BY <1>1, NothingActivates DEF BeforeSaved
  <1>3. Active \subseteq Saved
    BY DEF Active, Saved
  <1>4. handled[p] \in Csr /\ requests[handled[p]].state # "ABSENT"
    BY DEF KnowsPrevious
  <1>5. Subject(handled[p])' = Subject(handled[p])
    BY <1>4, RowsAreStable DEF Subject, Stable
  <1>6. \A s \in Active' : SubjectOf(s)' = SubjectOf(s)
    BY <1>2, <1>3, SubjectsStay
  <1> QED
    BY <1>2, <1>5, <1>6 DEF KnowsAll

LEMMA WhoMarks ==
    ASSUME IInv, [Next]_vars, NEW c \in Csr,
           requests[c].state # "ISSUED", requests'[c].state = "ISSUED"
    PROVE  \E p \in Task : MarkIssued(p)
  <1>0. requests \in [Csr -> Request]
    BY DEF IInv, TypeOK
  <1>1. PICK p \in Task : Writes(p) /\ ~ UNCHANGED requests
    BY WhoWrites DEF registry
  <1>2. CreateRequest(p) \/ MarkIssued(p) \/ UpdateRequest(p)
    BY <1>1 DEF Writes, Answer, flowVars
  <1>3. ~ CreateRequest(p)
    BY <1>0 DEF CreateRequest, NoRequest
  <1>4. ~ UpdateRequest(p)
    <2>1. pc[p] = "update_request" => job[p].verdict # "ISSUED"
      BY DEF IInv, TasksOK, TaskOK, LocalsOK, DecideLabel, Verdict
    <2> QED
      BY <1>0, <2>1 DEF UpdateRequest, Request
  <1> QED
    BY <1>2, <1>3, <1>4

LEMMA ApprovedGoesOn ==
    ASSUME IInv, Roles, OneHandler, [Next]_vars, NEW p \in Task, StillApproved(p),
           handled'[p] = handled[p], pc'[p] \in ApprovedLabel => pc[p] \in ApprovedLabel
    PROVE  StillApproved(p)'
  <1> SUFFICES ASSUME pc'[p] \in ApprovedLabel, pc[p] \in ApprovedLabel
               PROVE  requests'[handled[p]].state = "APPROVED"
    BY DEF StillApproved
  <1>1. p \in Handler
    BY DEF Roles, Enrolling, IssueLabel, BeforeSaved, ApprovedLabel
  <1>2. handled[p] \in Csr /\ requests[handled[p]].state = "APPROVED"
    BY DEF StillApproved, ApprovedLabel, BeforeSaved, IInv, TasksOK, TaskOK, LocalsOK,
       IssueLabel
  <1>3. requests'[handled[p]].state \in {"APPROVED", "ISSUED"}
    BY <1>2, StepUndoesNothing DEF Undoes
  <1>4. ASSUME requests'[handled[p]].state = "ISSUED" PROVE FALSE
    <2>1. PICK q \in Task : MarkIssued(q)
      BY <1>2, <1>4, WhoMarks
    <2>2. q \in Handler
      BY <2>1 DEF MarkIssued, Roles, Enrolling, IssueLabel
    <2>3. q = p
      BY <1>1, <2>2 DEF OneHandler
    <2> QED
      BY <2>1, <2>3 DEF MarkIssued, Goto, ApprovedLabel, BeforeSaved, IInv, TypeOK
  <1> QED
    BY <1>3, <1>4

(* A saved certificate that is not active stays so.                        *)
LEMMA InactiveForGood ==
    ASSUME IInv, [Next]_vars, NEW s \in Saved, s \notin Active
    PROVE  s \notin Active'
  BY WhoActivates DEF RegisterCertificate, SaveCertificate, Saved

LEMMA InactiveGoesOn ==
    ASSUME IInv, [Next]_vars, NEW p \in Task, RevokedIsInactive(p), KnowsPrevious(p),
           target'[p] = target[p], pc'[p] = "revoked" => pc[p] = "revoked"
    PROVE  RevokedIsInactive(p)'
  <1>1. pc[p] = "revoked" /\ target[p].by = Automatic => target[p].serial \in Saved
    BY DEF KnowsPrevious, Superseding, RevokeLabel
  <1> QED
    BY <1>1, InactiveForGood DEF RevokedIsInactive

-----------------------------------------------------------------------------
(* Each step keeps what the handler knows, until no twin is left.          *)
LEMMA RenewerGoesOn ==
    ASSUME IInv, Roles, OneHandler, [Next]_vars, NEW p \in Task, Acts(p), KnowsPrevious(p),
           KnowsAll(p), StillApproved(p), RevokedIsInactive(p)
    PROVE  KnowsAll(p)' /\ StillApproved(p)' /\ RevokedIsInactive(p)'
  <1>0. TypeOK /\ LocalsOK(p)
    BY DEF IInv, TasksOK, TaskOK
  <1> USE <1>0 DEF TypeOK, Goto
  <1>1. CASE pc'[p] \notin ApprovedLabel \cup {"revoked"}
    BY <1>1 DEF KnowsAll, StillApproved, RevokedIsInactive, ApprovedLabel
  <1> DEFINE Keeps == UNCHANGED <<handled, previous, target>>
  <1>2. CASE LookUp(p)
    <2>1. handled[p] \in Csr
      BY <1>2 DEF LookUp, LocalsOK, EnrollLabel
    <2>2. UNCHANGED requests /\ UNCHANGED handled
      BY <1>2 DEF LookUp, flowVars
    <2>3. pc'[p] \in ApprovedLabel \cup {"revoked"} =>
             pc'[p] = "find_previous" /\ requests[handled[p]].state = "APPROVED"
      BY <1>2, <2>1 DEF LookUp, Resume, Request, RequestState, ApprovedLabel, BeforeSaved
    <2> QED
      BY <1>1, <2>2, <2>3 DEF KnowsAll, StillApproved, RevokedIsInactive, BeforeSaved
  <1>3. CASE FindPrevious(p)
    <2>1. /\ pc[p] = "find_previous" /\ pc'[p] = "ensure_not_revoked"
          /\ previous'[p] = ActiveBySubject(Subject(handled[p]))
          /\ UNCHANGED <<requests, handled, certificates, expired>>
      BY <1>3 DEF FindPrevious, storeVars
    <2>2. StillApproved(p)'
      BY <2>1 DEF StillApproved, ApprovedLabel
    <2>3. KnowsAll(p)'
      BY <2>1 DEF KnowsAll, ActiveBySubject, Active, SubjectOf, Subject
    <2> QED
      BY <2>1, <2>2, <2>3 DEF RevokedIsInactive
  <1>4. CASE Issuing(p)
    <2>0. UNCHANGED <<requests, previous>>
      BY <1>4 DEF Issuing, flowVars
    <2>1. CASE EnsureNotRevoked(p) \/ DrawSerial(p) \/ JournalIssuance(p)
      <3>1. /\ Keeps /\ pc[p] \in BeforeSaved
            /\ pc'[p] \in BeforeSaved \cup {"failed"}
        BY <2>0, <2>1 DEF EnsureNotRevoked, DrawSerial, JournalIssuance, BeforeSaved
      <3>2. KnowsAll(p)'
        BY <3>1, KnowsAllGoesOn
      <3>3. StillApproved(p)'
        BY <3>1, ApprovedGoesOn DEF ApprovedLabel
      <3> QED
        BY <3>1, <3>2, <3>3 DEF RevokedIsInactive, BeforeSaved
    <2>2. CASE RegisterCertificate(p)
      <3>1. Keeps /\ pc[p] = "save_certificate" /\ pc'[p] = "certified"
        BY <2>0, <2>2 DEF RegisterCertificate
      <3>2. StillApproved(p)'
        BY <3>1, ApprovedGoesOn DEF ApprovedLabel, BeforeSaved
      <3> QED
        BY <3>1, <3>2 DEF KnowsAll, BeforeSaved, RevokedIsInactive
    <2>3. CASE StoreRevocation(p)
      <3>1. /\ Keeps /\ pc[p] = "store_revocation" /\ pc'[p] = "revoked"
            /\ RevokeCertificate(target[p].serial, target[p].reason)
        BY <2>0, <2>3 DEF StoreRevocation
      <3>2. target[p].serial \in Serial
        BY <3>1 DEF LocalsOK, RevokeLabel
      <3>3. certificates'[target[p].serial].status # "issued"
        BY <3>1, <3>2 DEF RevokeCertificate, Certificate
      <3> QED
        BY <3>1, <3>3 DEF RevokedIsInactive, Active, KnowsAll, StillApproved, ApprovedLabel,
           BeforeSaved
    <2>4. CASE JournalRevocation(p)
      BY <1>1, <2>4 DEF JournalRevocation, ApprovedLabel, BeforeSaved
    <2>5. CASE ReadRevoked(p) \/ DrawNumber(p) \/ ReadIssued(p) \/ JournalCrl(p)
                  \/ PublishCrl(p)
      BY <1>1, <2>5 DEF ReadRevoked, DrawNumber, ReadIssued, JournalCrl, PublishCrl,
         ApprovedLabel, BeforeSaved
    <2> QED
      BY <1>4, <2>1, <2>2, <2>3, <2>4, <2>5 DEF Issuing, IssuerStep
  <1> USE DEF ApprovedLabel, BeforeSaved
  <1>5. CASE CheckBootstrap(p) \/ JournalReceipt(p) \/ CreateRequest(p) \/ MarkIssued(p)
                \/ AfterRevoke(p) \/ Answer(p)
    BY <1>1, <1>5 DEF CheckBootstrap, JournalReceipt, CreateRequest, MarkIssued, AfterRevoke,
       Answer
  <1>6. CASE Supersede(p)
    BY <1>1, <1>6 DEF Supersede, SkipPrevious, RevokePrevious
  <1>7. CASE FindRequest(p) \/ UpdateRequest(p) \/ JournalDecision(p) \/ Refuse(p) \/ Stop(p)
    BY <1>1, <1>7 DEF FindRequest, UpdateRequest, JournalDecision, Refuse,
       RefuseNonConforming, Stop, Abort
  <1>8. CASE \E r \in Requester, c \in Csr, f \in Profile : Submit(p, r, c, f)
    BY <1>1, <1>8 DEF Submit, SubmitHmac, SubmitMtls, Start
  <1>9. CASE DeskStart(p)
    BY <1>1, <1>9 DEF DeskStart, StartDecision, StartRevocation
  <1> QED
    BY <1>2, <1>3, <1>4, <1>5, <1>6, <1>7, <1>8, <1>9 DEF Acts, Step

LEMMA RenewersGoOn ==
    ASSUME IInv, Roles, OneHandler, [Next]_vars, \A p \in Task : KnowsPrevious(p),
           \A p \in Task : KnowsAll(p) /\ StillApproved(p) /\ RevokedIsInactive(p)
    PROVE  \A p \in Task : KnowsAll(p)' /\ StillApproved(p)' /\ RevokedIsInactive(p)'
  <1>1. ASSUME NEW q \in Task,
               pc'[q] = pc[q] /\ handled'[q] = handled[q] /\ previous'[q] = previous[q]
                  /\ target'[q] = target[q]
        PROVE  KnowsAll(q)' /\ StillApproved(q)' /\ RevokedIsInactive(q)'
    BY <1>1, KnowsAllGoesOn, ApprovedGoesOn, InactiveGoesOn
  <1>2. ASSUME NEW p \in Task, Acts(p), NEW q \in Task
        PROVE  KnowsAll(q)' /\ StillApproved(q)' /\ RevokedIsInactive(q)'
    BY <1>1, <1>2, RenewerGoesOn, PreviousAlone DEF IInv, OthersStay
  <1> QED
    BY <1>1, <1>2, SomeoneActsOrNot

(* The handler that saved the second of two twins goes on until it has     *)
(* revoked the first.                                                      *)
LEMMA CoverGoesOn ==
    ASSUME IInv, NoFaults, NEW p \in Task, Acts(p), KnowsPrevious(p), StillApproved(p),
           RevokedIsInactive(p), NEW s \in Serial, NEW n \in Serial,
           Twins(s, n), Covers(p, s, n)
    PROVE  Covers(p, s, n)'
  <1>0. TypeOK /\ LocalsOK(p)
    BY DEF IInv, TasksOK, TaskOK
  <1> USE <1>0 DEF TypeOK, Goto, Superseding, RenewLabel, RevokeLabel
  <1>1. /\ pc[p] \in RenewLabel \/ (pc[p] \in RevokeLabel /\ target[p].by = Automatic)
        /\ newSerial[p] = s /\ n \in previous[p]
        /\ Owner(n) = requests[handled[p]].requester
    BY DEF Covers, KnowsPrevious, Twins, Owner
  <1>2. CASE MarkIssued(p)
    <2>1. handled[p] \in Csr /\ requests[handled[p]].state = "APPROVED"
      BY <1>2 DEF MarkIssued, StillApproved, ApprovedLabel, LocalsOK, IssueLabel
    <2> QED
      BY <1>1, <1>2, <2>1 DEF MarkIssued, Covers
  <1>3. CASE Supersede(p)
    <2>1. ASSUME NEW x \in previous[p], SkipPrevious(p, x) PROVE Covers(p, s, n)'
      <3>1. /\ x # n /\ UNCHANGED pc /\ UNCHANGED newSerial /\ pc[p] = "supersede"
            /\ previous'[p] = previous[p] \ {x}
        BY <1>1, <1>3, <2>1 DEF Supersede, SkipPrevious
      <3> QED
        BY <1>1, <3>1 DEF Covers
    <2>2. ASSUME NEW x \in previous[p], RevokePrevious(p, x) PROVE Covers(p, s, n)'
      <3>1. /\ pc'[p] = "journal_revocation" /\ UNCHANGED newSerial /\ UNCHANGED previous
            /\ target'[p].by = Automatic
        BY <1>1, <1>3, <2>2 DEF Supersede, RevokePrevious
      <3> QED
        BY <1>1, <3>1 DEF Covers
    <2> QED
      BY <1>1, <1>3, <2>1, <2>2 DEF Supersede
  <1>4. CASE AfterRevoke(p)
    <2>1. target[p].by = Automatic /\ target[p].serial # n
      BY <1>1, <1>4 DEF AfterRevoke, RevokedIsInactive, Twins
    <2>2. /\ pc'[p] = "supersede" /\ UNCHANGED newSerial
          /\ previous'[p] = previous[p] \ {target[p].serial}
      BY <1>4, <2>1 DEF AfterRevoke
    <2> QED
      BY <1>1, <2>1, <2>2 DEF Covers
  <1>5. CASE Issuing(p)
    <2>1. UNCHANGED previous
      BY <1>5 DEF Issuing, flowVars
    <2>2. CASE JournalRevocation(p) \/ StoreRevocation(p)
      <3>1. /\ pc[p] \in RevokeLabel /\ pc'[p] \in RevokeLabel
            /\ UNCHANGED <<newSerial, target>>
        BY <2>2 DEF JournalRevocation, StoreRevocation
      <3> QED
        BY <1>1, <2>1, <3>1 DEF Covers
    <2>3. ~ (EnsureNotRevoked(p) \/ DrawSerial(p) \/ JournalIssuance(p)
                \/ RegisterCertificate(p) \/ ReadRevoked(p) \/ DrawNumber(p)
                \/ ReadIssued(p) \/ JournalCrl(p) \/ PublishCrl(p))
      BY <1>1 DEF EnsureNotRevoked, DrawSerial, JournalIssuance, RegisterCertificate,
         ReadRevoked, DrawNumber, ReadIssued, JournalCrl, PublishCrl
    <2> QED
      BY <1>5, <2>2, <2>3 DEF Issuing, IssuerStep
  <1>6. ~ (CheckBootstrap(p) \/ LookUp(p) \/ JournalReceipt(p) \/ CreateRequest(p)
              \/ FindPrevious(p) \/ FindRequest(p) \/ UpdateRequest(p) \/ JournalDecision(p)
              \/ Answer(p) \/ Refuse(p) \/ Stop(p))
    BY <1>1 DEF CheckBootstrap, LookUp, JournalReceipt, CreateRequest, FindPrevious,
       FindRequest, UpdateRequest, JournalDecision, Answer, Refuse, Stop, NoFaults
  <1>7. ~ (\E r \in Requester, c \in Csr, f \in Profile : Submit(p, r, c, f))
    BY <1>1 DEF Submit, SubmitHmac, SubmitMtls, Start
  <1>8. ~ DeskStart(p)
    BY <1>1 DEF DeskStart, StartDecision, StartRevocation
  <1> QED
    BY <1>2, <1>3, <1>4, <1>5, <1>6, <1>7, <1>8 DEF Acts, Step

LEMMA TwinsStayCovered ==
    ASSUME IInv, NoFaults, [Next]_vars, \A p \in Task : KnowsPrevious(p),
           \A p \in Task : KnowsAll(p) /\ StillApproved(p) /\ RevokedIsInactive(p),
           NEW s \in Serial, NEW n \in Serial, Twins(s, n), NEW p \in Task, Covers(p, s, n)
    PROVE  Covers(p, s, n)'
  <1>1. CASE pc'[p] = pc[p] /\ target'[p] = target[p] /\ newSerial'[p] = newSerial[p]
                /\ previous'[p] = previous[p]
    BY <1>1 DEF Covers, Superseding
  <1>2. ASSUME NEW q \in Task, Acts(q) PROVE Covers(p, s, n)'
    BY <1>1, <1>2, CoverGoesOn, PreviousAlone DEF IInv, OthersStay
  <1> QED
    BY <1>1, <1>2, SomeoneActsOrNot

(* Twins appear when the second is saved, by a handler that knows the      *)
(* first.                                                                  *)
LEMMA NewTwinsAreCovered ==
    ASSUME IInv, Roles, OneHandler, [Next]_vars, \A p \in Task : KnowsPrevious(p) /\ KnowsAll(p),
           NEW s \in Serial, NEW n \in Serial, Twins(s, n)', s \notin Active
    PROVE  \E p \in Task : Covers(p, s, n)'
  <1>0. TypeOK
    BY DEF IInv
  <1>1. PICK p \in Task : RegisterCertificate(p) /\ UNCHANGED flowVars /\ s = newSerial[p]
    BY WhoActivates DEF Twins
  <1>2. /\ pc[p] = "save_certificate" /\ pc'[p] = "certified"
        /\ UNCHANGED <<newSerial, previous, requests>>
        /\ certificates' = [certificates EXCEPT ![s] =
                              [status |-> "issued", tx |-> handled[p], reason |-> 0]]
    BY <1>0, <1>1 DEF RegisterCertificate, SaveCertificate, Goto, TypeOK, flowVars
  <1>3. n \in Active
    <2>1. ASSUME n \notin Active PROVE FALSE
      <3>1. PICK q \in Task : RegisterCertificate(q) /\ n = newSerial[q]
        BY <2>1, WhoActivates DEF Twins
      <3>2. q \in Handler /\ p \in Handler
        BY <1>2, <3>1 DEF RegisterCertificate, Roles, Enrolling, IssueLabel
      <3> QED
        BY <1>1, <3>1, <3>2 DEF OneHandler, Twins
    <2> QED
      BY <2>1
  <1>4. SubjectOf(n)' = SubjectOf(n)
    BY <1>3, SubjectsStay DEF Active, Saved
  <1>5. SubjectOf(s)' = Subject(handled[p])
    <2>1. certificates'[s].tx = handled[p]
      BY <1>0, <1>2 DEF TypeOK
    <2> QED
      BY <1>2, <2>1 DEF SubjectOf, Subject
  <1>6. n \in previous[p]
    BY <1>2, <1>3, <1>4, <1>5 DEF Twins, KnowsAll, BeforeSaved
  <1> QED
    BY <1>1, <1>2, <1>6 DEF Covers, Superseding, RenewLabel

LEMMA NextAInv ==
    ASSUME IInv, SInv, Roles, OneHandler, NoFaults, AInv, [Next]_vars
    PROVE  AInv'
  <1>1. \A p \in Task : KnowsAll(p)' /\ StillApproved(p)' /\ RevokedIsInactive(p)'
    BY RenewersGoOn DEF AInv, SInv
  <1>2. ASSUME NEW s \in Serial, NEW n \in Serial, Twins(s, n)'
        PROVE  \E p \in Task : Covers(p, s, n)' \/ Covers(p, n, s)'
    <2>1. CASE s \in Active /\ n \in Active
      <3>1. Twins(s, n) /\ Twins(n, s)
        BY <1>2, <2>1, SubjectsStay DEF Twins, Active, Saved
      <3>2. PICK p \in Task : Covers(p, s, n) \/ Covers(p, n, s)
        BY <3>1 DEF AInv
      <3> QED
        BY <3>1, <3>2, TwinsStayCovered DEF AInv, SInv
    <2>2. CASE s \notin Active
      BY <1>2, <2>2, NewTwinsAreCovered DEF AInv, SInv
    <2>3. CASE n \notin Active
      <3>1. Twins(n, s)'
        BY <1>2 DEF Twins
      <3> QED
        BY <2>3, <3>1, NewTwinsAreCovered DEF AInv, SInv
    <2> QED
      BY <2>1, <2>2, <2>3
  <1> QED
    BY <1>1, <1>2 DEF AInv

(* Flow::issue reads the active certificates of the subject, saves the new *)
(* one and revokes the others of the same requester, with awaits between:  *)
(* as long as submissions come one at a time and no task stops half-way,   *)
(* and whatever the operators do meanwhile, a requester is left with one   *)
(* active certificate per subject (docs/CA.md).                            *)
THEOREM OneSubmissionLeavesOneActive ==
    ASSUME OneHandler, NoFaults
    PROVE  Spec => []OneActiveAtRest
  <1>1. Init => AInv
    BY DEF Init, IssuerInit, StoreInit, NoRow, AInv, KnowsAll, StillApproved, RevokedIsInactive,
       Twins, Active, ApprovedLabel, BeforeSaved
  <1>2. Spec => []Roles
    BY InitRoles, RolesStay, Invariance, PTL DEF Spec
  <1>3. IInv /\ SInv /\ Roles /\ AInv /\ [Next]_vars => AInv'
    BY NextAInv
  <1>4. IInv /\ AInv => OneActiveAtRest
    BY DEF AInv, OneActiveAtRest, AtRest, Twins, Covers, Superseding, RenewLabel, RevokeLabel,
       Active
  <1> QED
    BY <1>1, <1>2, <1>3, <1>4, Invariance, RenewalInvariance, PTL DEF Spec
=============================================================================
