------------------------------- MODULE CaStore -------------------------------
(***************************************************************************)
(* The registry of the certification authority (crates/oe-castore, the     *)
(* trait Store and its PostgreSQL implementation) and the audit journal,   *)
(* as the tasks of ca-server and the operator commands see them.           *)
(*                                                                         *)
(* Every call of the trait is one SQL statement, hence one atomic change   *)
(* of one variable: an operator below is that change, and the actions of   *)
(* the modules that extend this one choose when it happens.  The journal   *)
(* (oe-audit) is abstracted to the set of the lines written so far: the    *)
(* properties ask whether a line was written before a change of the        *)
(* registry, never at which rank of the hash chain.                        *)
(*                                                                         *)
(* A certificate is [status, tx, reason]; its subject and its requester    *)
(* are those of the request tx it was issued for.  A serial number is      *)
(* "free" while the table has no row for it.                               *)
(***************************************************************************)
EXTENDS Naturals

CONSTANTS
    Serial,       \* serial numbers the random generator may draw
    Csr,          \* certificate signing requests; names their transaction too
    Operator,     \* people who decide and revoke
    Reason,       \* revocation reasons they give
    None          \* no value

VARIABLES
    certificates,     \* table certificates
    expired,          \* serials whose not_after is past
    authorityRevoked, \* the issuing authority is revoked in table authorities
    crls,             \* table crls
    crlSequence,      \* the sequence that numbers the CRLs
    journal           \* lines of the audit journal

storeVars == <<certificates, expired, authorityRevoked, crls, crlSequence,
               journal>>

ASSUME NoneIsNoValue ==
    None \notin Serial /\ None \notin Csr /\ None \notin Operator

CertificateStatus == {"free", "reserved", "issued", "revoked"}

(* ALLOWED_REVOCATION_REASONS, and 0 while a certificate is not revoked.   *)
AllowedReasons == {1, 3, 4, 5, 9}
SUPERSEDED == 4

ASSUME ReasonAssumption == Reason \subseteq AllowedReasons

(* Who revokes: an operator, or the renewal itself ("raflow:renouvellement").*)
Automatic == "raflow:renouvellement"
Revoker == Operator \cup {Automatic}

ASSUME AutomaticIsNobody == Automatic \notin Operator

Certificate == [status : CertificateStatus, tx : Csr \cup {None},
                reason : AllowedReasons \cup {0}]
Crl == [number : Nat, revoked : SUBSET Serial, issued : SUBSET Serial]

IssuerEvent ==
    ({"ca.certificate_issued"} \X Serial \X Csr)
        \cup ({"ca.issuance_refused"} \X Csr)
        \cup ({"ca.certificate_revoked"} \X Serial \X AllowedReasons \X Revoker)
        \cup ({"ca.crl_published"} \X Nat)

NoRow == [status |-> "free", tx |-> None, reason |-> 0]

StoreInit ==
    /\ certificates = [s \in Serial |-> NoRow]
    /\ expired = {}
    /\ authorityRevoked = FALSE
    /\ crls = {}
    /\ crlSequence = 0
    /\ journal = {}

-----------------------------------------------------------------------------
(* Reads. *)

Saved == {s \in Serial : certificates[s].status \in {"issued", "revoked"}}
(* Mutant: an expired certificate is left out, as most CRLs allow.         *)
RevokedUnexpired ==
    {s \in Serial : certificates[s].status = "revoked" /\ s \notin expired}

RevokedSerials == {s \in Serial : certificates[s].status = "revoked"}
(* Mutant: a revoked certificate does not count as issued.                 *)
IssuedNotRevoked == {s \in Serial : certificates[s].status = "issued"}

IssuedSerials == Saved
Free == {s \in Serial : certificates[s].status = "free"}

(* latest_crl: the CRL with the greatest number, among those saved.        *)
Latest(c) == c \in crls /\ \A d \in crls : d.number <= c.number

-----------------------------------------------------------------------------
(* Writes. *)

(* Mutant: a serial that is taken is reserved again.                       *)
ReserveSerialAgain(s) ==
    certificates' = [certificates EXCEPT ![s] = [NoRow EXCEPT !.status = "reserved"]]

ReserveSerial(s) ==
    /\ certificates[s].status = "free"
    /\ certificates' = [certificates EXCEPT ![s].status = "reserved"]

SaveCertificate(s, tx) ==
    /\ certificates[s].status = "reserved"
    /\ certificates' = [certificates EXCEPT
                          ![s] = [status |-> "issued", tx |-> tx, reason |-> 0]]

(* Mutant: the last revocation wins.                                       *)
RevokeAgain(s, reason) ==
    certificates' =
        [certificates EXCEPT ![s].status = "revoked", ![s].reason = reason]

(* The first revocation wins: a second one changes nothing.                *)
RevokeCertificate(s, reason) ==
    certificates' =
        IF certificates[s].status = "issued"
        THEN [certificates EXCEPT ![s].status = "revoked", ![s].reason = reason]
        ELSE certificates

NextCrlNumber == crlSequence' = crlSequence + 1

SaveCrl(c) == crls' = crls \cup {c}

Record(line) == journal' = journal \cup {line}
=============================================================================
