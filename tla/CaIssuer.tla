------------------------------ MODULE CaIssuer ------------------------------
(***************************************************************************)
(* The issuing engine (crates/oe-ca-core, Issuer): issue, revoke and       *)
(* publish_crl, as sequences of steps a task of ca-server (or an operator  *)
(* command, in another process on the same database) goes through.  Each   *)
(* await of the code - a call of the registry or of the journal - is a     *)
(* step of its own, so that the steps of concurrent tasks interleave as    *)
(* they do in the program: nothing in oe-ca-core excludes two tasks from   *)
(* publishing or issuing at the same time.                                 *)
(*                                                                         *)
(* Signing, DER, dates and extensions are left out: they touch no shared   *)
(* state.  The control point where the freshly signed certificate is       *)
(* checked against its profile stays (RefuseNonConforming).                *)
(*                                                                         *)
(* This module gives the steps; Enrollment and CrlPublication give the     *)
(* tasks that start them and the specification.                            *)
(***************************************************************************)
EXTENDS CaStore

CONSTANT Task     \* concurrent handlers and commands

VARIABLES
    pc,           \* where each task is
    handled,      \* the request the task issues a certificate for
    newSerial,    \* the serial it reserved
    target,       \* the revocation it carries out
    draft         \* the CRL it is building

issuerVars == <<pc, handled, newSerial, target, draft>>

IssuerLabel ==
    {"idle", "done", "failed",
     "ensure_not_revoked", "reserve_serial", "check_profile",
     "save_certificate", "certified",
     "journal_revocation", "store_revocation", "revoked",
     "read_revoked", "next_number", "read_issued", "journal_crl", "save_crl"}

Target == [serial : Serial \cup {None}, reason : AllowedReasons \cup {0},
           by : Revoker \cup {None}]
NoTarget == [serial |-> None, reason |-> 0, by |-> None]
NoDraft == [number |-> 0, revoked |-> {}, issued |-> {}]

IssuerInit ==
    /\ StoreInit
    /\ pc = [p \in Task |-> "idle"]
    /\ handled = [p \in Task |-> None]
    /\ newSerial = [p \in Task |-> None]
    /\ target = [p \in Task |-> NoTarget]
    /\ draft = [p \in Task |-> NoDraft]

Goto(p, label) == pc' = [pc EXCEPT ![p] = label]

-----------------------------------------------------------------------------
(* Issuer::issue.  It ends at "certified", where its caller resumes.       *)

(* Mutant: the state of the authority is not read again.                   *)
NeverChecksRevocation(p) ==
    /\ pc[p] = "ensure_not_revoked"
    /\ Goto(p, "reserve_serial")
    /\ UNCHANGED <<handled, newSerial, target, draft, storeVars>>

(* Re-read at every issuance: another process revokes the authority.       *)
EnsureNotRevoked(p) ==
    /\ pc[p] = "ensure_not_revoked"
    /\ Goto(p, IF authorityRevoked THEN "failed" ELSE "reserve_serial")
    /\ UNCHANGED <<handled, newSerial, target, draft, storeVars>>

(* A drawn serial that is taken is drawn again; five collisions in a row   *)
(* (here: nothing left to draw) end the issuance.                          *)
DrawSerial(p) ==
    /\ pc[p] = "reserve_serial"
    /\ \/ \E s \in Serial :
            /\ ReserveSerial(s)
            /\ newSerial' = [newSerial EXCEPT ![p] = s]
            /\ Goto(p, "check_profile")
       \/ /\ Free = {}
          /\ Goto(p, "failed")
          /\ UNCHANGED <<certificates, newSerial>>
    /\ UNCHANGED <<handled, target, draft, expired, authorityRevoked, crls,
                   crlSequence, journal>>

(* The signed certificate breaks its profile: journalled, never saved.     *)
RefuseNonConforming(p) ==
    /\ pc[p] = "check_profile"
    /\ Record(<<"ca.issuance_refused", handled[p]>>)
    /\ Goto(p, "failed")
    /\ UNCHANGED <<handled, newSerial, target, draft, certificates, expired,
                   authorityRevoked, crls, crlSequence>>

(* Mutant: a journal that fails is ignored.                                *)
JournalIssuanceOrNot(p) ==
    /\ pc[p] = "check_profile"
    /\ \/ Record(<<"ca.certificate_issued", newSerial[p], handled[p]>>)
       \/ UNCHANGED journal
    /\ Goto(p, "save_certificate")
    /\ UNCHANGED <<handled, newSerial, target, draft, certificates, expired,
                   authorityRevoked, crls, crlSequence>>

JournalIssuance(p) ==
    /\ pc[p] = "check_profile"
    /\ Record(<<"ca.certificate_issued", newSerial[p], handled[p]>>)
    /\ Goto(p, "save_certificate")
    /\ UNCHANGED <<handled, newSerial, target, draft, certificates, expired,
                   authorityRevoked, crls, crlSequence>>

RegisterCertificate(p) ==
    /\ pc[p] = "save_certificate"
    /\ SaveCertificate(newSerial[p], handled[p])
    /\ Goto(p, "certified")
    /\ UNCHANGED <<handled, newSerial, target, draft, expired,
                   authorityRevoked, crls, crlSequence, journal>>

-----------------------------------------------------------------------------
(* Issuer::revoke.  It ends at "revoked".  The certificate must exist; its *)
(* read is merged with the journal step, a saved certificate staying saved.*)

JournalRevocation(p) ==
    /\ pc[p] = "journal_revocation"
    /\ target[p].serial \in Saved
    /\ Record(<<"ca.certificate_revoked", target[p].serial, target[p].reason,
                target[p].by>>)
    /\ Goto(p, "store_revocation")
    /\ UNCHANGED <<handled, newSerial, target, draft, certificates, expired,
                   authorityRevoked, crls, crlSequence>>

StoreRevocation(p) ==
    /\ pc[p] = "store_revocation"
    /\ RevokeCertificate(target[p].serial, target[p].reason)
    /\ Goto(p, "revoked")
    /\ UNCHANGED <<handled, newSerial, target, draft, expired,
                   authorityRevoked, crls, crlSequence, journal>>

-----------------------------------------------------------------------------
(* Issuer::publish_crl.  The revoked certificates are read first, then the *)
(* number is drawn, then the issued serials are read.                      *)

ReadRevoked(p) ==
    /\ pc[p] = "read_revoked"
    /\ draft' = [draft EXCEPT ![p] = [NoDraft EXCEPT !.revoked = RevokedSerials]]
    /\ Goto(p, "next_number")
    /\ UNCHANGED <<handled, newSerial, target, storeVars>>

(* Mutant: the number follows the last CRL instead of the sequence.        *)
NumberAfterLatest(p) ==
    /\ pc[p] = "next_number"
    /\ NextCrlNumber
    /\ LET n == IF crls = {} THEN 1 ELSE (CHOOSE c \in crls : Latest(c)).number + 1
       IN  draft' = [draft EXCEPT ![p].number = n]
    /\ Goto(p, "read_issued")
    /\ UNCHANGED <<handled, newSerial, target, certificates, expired,
                   authorityRevoked, crls, journal>>

DrawNumber(p) ==
    /\ pc[p] = "next_number"
    /\ NextCrlNumber
    /\ draft' = [draft EXCEPT ![p].number = crlSequence + 1]
    /\ Goto(p, "read_issued")
    /\ UNCHANGED <<handled, newSerial, target, certificates, expired,
                   authorityRevoked, crls, journal>>

ReadIssued(p) ==
    /\ pc[p] = "read_issued"
    /\ draft' = [draft EXCEPT ![p].issued = IssuedSerials]
    /\ Goto(p, "journal_crl")
    /\ UNCHANGED <<handled, newSerial, target, storeVars>>

JournalCrl(p) ==
    /\ pc[p] = "journal_crl"
    /\ Record(<<"ca.crl_published", draft[p].number>>)
    /\ Goto(p, "save_crl")
    /\ UNCHANGED <<handled, newSerial, target, draft, certificates, expired,
                   authorityRevoked, crls, crlSequence>>

PublishCrl(p) ==
    /\ pc[p] = "save_crl"
    /\ SaveCrl(draft[p])
    /\ Goto(p, "done")
    /\ UNCHANGED <<handled, newSerial, target, draft, certificates, expired,
                   authorityRevoked, crlSequence, journal>>

-----------------------------------------------------------------------------
IssuerStep(p) ==
    \/ EnsureNotRevoked(p)
    \/ DrawSerial(p)
    \/ JournalIssuance(p)
    \/ RegisterCertificate(p)
    \/ JournalRevocation(p)
    \/ StoreRevocation(p)
    \/ ReadRevoked(p)
    \/ DrawNumber(p)
    \/ ReadIssued(p)
    \/ JournalCrl(p)
    \/ PublishCrl(p)

(* The task stops before its next step: a journal or registry call that    *)
(* fails (its error is returned at once everywhere), a connection that     *)
(* goes away and takes the handler with it, or the death of the process,   *)
(* which is this step of every task it runs.  What was written stays.      *)
Abort(p) ==
    /\ pc[p] \notin {"idle", "done", "failed"}
    /\ Goto(p, "failed")
    /\ UNCHANGED <<handled, newSerial, target, draft, storeVars>>
=============================================================================
