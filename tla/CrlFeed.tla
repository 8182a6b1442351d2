------------------------------ MODULE CrlFeed ------------------------------
(***************************************************************************)
(* What the certification authority promises to those who read its CRLs    *)
(* and nothing else: certificates are issued, then perhaps revoked, for    *)
(* good; a CRL is a numbered list of certificates that are revoked and of  *)
(* certificates that are issued (OID_CRL_ISSUED_SERIALS), and it never     *)
(* lists more than what is true.  No two CRLs have one number.             *)
(*                                                                         *)
(* It does not promise that a CRL lists everything, nor that a CRL lists   *)
(* what one with a smaller number does: CrlPublication says when it does.  *)
(***************************************************************************)
EXTENDS Naturals

CONSTANTS
    Serial,      \* serial numbers
    CrlNumber    \* numbers CRLs may have, a set of naturals

ASSUME CrlNumberAssumption == CrlNumber \subseteq Nat

VARIABLES
    status,      \* what each certificate is
    feed         \* CRLs published so far

feedVars == <<status, feed>>

FeedCrl == [number : CrlNumber, revoked : SUBSET Serial, issued : SUBSET Serial]

FeedTypeOK ==
    /\ status \in [Serial -> {"unissued", "good", "revoked"}]
    /\ feed \subseteq FeedCrl

FeedInit ==
    /\ status = [s \in Serial |-> "unissued"]
    /\ feed = {}

IssueCertificate(s) ==
    /\ status[s] = "unissued"
    /\ status' = [status EXCEPT ![s] = "good"]
    /\ UNCHANGED feed

Revoke(s) ==
    /\ status[s] = "good"
    /\ status' = [status EXCEPT ![s] = "revoked"]
    /\ UNCHANGED feed

Publish(c) ==
    /\ \A d \in feed : d.number # c.number
    /\ c.revoked \subseteq c.issued
    /\ \A s \in c.issued : status[s] # "unissued"
    /\ \A s \in c.revoked : status[s] = "revoked"
    /\ feed' = feed \cup {c}
    /\ UNCHANGED status

FeedNext ==
    \/ \E s \in Serial : IssueCertificate(s) \/ Revoke(s)
    \/ \E c \in FeedCrl : Publish(c)

FeedSpec == FeedInit /\ [][FeedNext]_feedVars
=============================================================================
