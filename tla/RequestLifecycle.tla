-------------------------- MODULE RequestLifecycle --------------------------
(***************************************************************************)
(* What enrolment promises to a requester and to an auditor, without the   *)
(* tasks that do it: a request is received, an operator decides once, an   *)
(* approved request gets certificates - perhaps several, when handlers     *)
(* race - and settles on one of them, which is the only one ever answered. *)
(* Enrollment implements this specification (Enrollment!Lifecycle).        *)
(***************************************************************************)
CONSTANTS Csr, Serial, Operator, None

VARIABLES
    phase,       \* state of each request
    decidedBy,   \* who decided on it
    certified,   \* certificates saved for it
    settledOn,   \* the certificate it records
    answered     \* certificates its requester received

lifecycleVars == <<phase, decidedBy, certified, settledOn, answered>>

LifecycleInit ==
    /\ phase = [c \in Csr |-> "ABSENT"]
    /\ decidedBy = [c \in Csr |-> None]
    /\ certified = [c \in Csr |-> {}]
    /\ settledOn = [c \in Csr |-> None]
    /\ answered = [c \in Csr |-> {}]

Receive(c) ==
    /\ phase[c] = "ABSENT"
    /\ phase' = [phase EXCEPT ![c] = "PENDING"]
    /\ UNCHANGED <<decidedBy, certified, settledOn, answered>>

DecideOn(c, o, verdict) ==
    /\ phase[c] = "PENDING"
    /\ phase' = [phase EXCEPT ![c] = verdict]
    /\ decidedBy' = [decidedBy EXCEPT ![c] = o]
    /\ UNCHANGED <<certified, settledOn, answered>>

(* A serial number is used once, whatever the request.                     *)
Certify(c, s) ==
    /\ phase[c] \in {"APPROVED", "ISSUED"}
    /\ \A d \in Csr : s \notin certified[d]
    /\ certified' = [certified EXCEPT ![c] = @ \cup {s}]
    /\ UNCHANGED <<phase, decidedBy, settledOn, answered>>

Settle(c, s) ==
    /\ phase[c] = "APPROVED"
    /\ s \in certified[c]
    /\ phase' = [phase EXCEPT ![c] = "ISSUED"]
    /\ settledOn' = [settledOn EXCEPT ![c] = s]
    /\ UNCHANGED <<decidedBy, certified, answered>>

Deliver(c) ==
    /\ phase[c] = "ISSUED"
    /\ answered' = [answered EXCEPT ![c] = @ \cup {settledOn[c]}]
    /\ UNCHANGED <<phase, decidedBy, certified, settledOn>>

LifecycleNext ==
    \E c \in Csr :
        \/ Receive(c)
        \/ \E o \in Operator, verdict \in {"APPROVED", "REJECTED"} :
              DecideOn(c, o, verdict)
        \/ \E s \in Serial : Certify(c, s) \/ Settle(c, s)
        \/ Deliver(c)

LifecycleSpec == LifecycleInit /\ [][LifecycleNext]_lifecycleVars
=============================================================================
