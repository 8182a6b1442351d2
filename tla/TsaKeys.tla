------------------------------ MODULE TsaKeys -------------------------------
(***************************************************************************)
(* The keys and the certificate of the time-stamping authority             *)
(* (bin/tsa-server: keys.rs, the commands enroll and retire-key of         *)
(* main.rs).  Each certificate has a key of its own, of a generation that  *)
(* only grows.  The entrypoint runs enroll, never two at once; an operator *)
(* runs retire-key.  Between them and the service there are two files,     *)
(* written without care for readers: the certificate, then its chain.      *)
(*                                                                         *)
(* A certificate is its position in the issuer's list; the chain is that   *)
(* of the certificate it came with; 0 is a file that is absent, empty or   *)
(* torn.  The lines of the journal are left out: their failure ends the    *)
(* command that writes them.                                               *)
(***************************************************************************)
EXTENDS TimeSource

CONSTANTS
    MaxGeneration,                     \* MAX_GENERATIONS
    CertificateLife, KeyLife, RenewBefore,  \* in slots
    MaxCertificates,                   \* bound on what the issuer issues
    MaxJobs                            \* bound on the jobs begun and the faults

ASSUME KeysAssumption ==
    /\ MaxGeneration \in Nat \ {0} /\ MaxCertificates \in Nat \ {0}
    /\ KeyLife \in Nat /\ CertificateLife \in Nat /\ KeyLife <= CertificateLife
    /\ RenewBefore \in Nat /\ MaxJobs \in Nat

VARIABLES
    keys,       \* the generations present in the token
    issued,     \* the certificates issued for the authority, in order
    certFile, chainFile,  \* the certificate in each file
    enroll,     \* the command enroll
    retire,     \* the command retire-key
    used,       \* history: certificates that were in the file
    jobs        \* how many jobs and faults so far

keyVars == <<keys, issued, certFile, chainFile, enroll, retire, used>>

Generation == 1 .. MaxGeneration
Certificate == 1 .. MaxCertificates

Idle == [at |-> "idle", generation |-> 0, certificate |-> 0]

Count == jobs < MaxJobs /\ jobs' = jobs + 1

KeyOf(c) == issued[c].generation
KeyEnd(c) == issued[c].at + KeyLife
End(c) == issued[c].at + CertificateLife

KeysInit ==
    /\ keys = {1}
    /\ issued = <<[generation |-> 1, at |-> 0]>>
    /\ certFile = 1 /\ chainFile = 1
    /\ enroll = Idle
    /\ retire = 0
    /\ used = {1}
    /\ jobs = 0

----------------------------------------------------------------------------
(* keys.rs                                                                 *)

(* find: the generation of the certificate in the file, and the newest.    *)
Matching == IF certFile # 0 /\ KeyOf(certFile) \in keys
            THEN KeyOf(certFile) ELSE 0
IsNewestKey(n) ==
    \/ keys = {} /\ n = 0
    \/ n \in keys /\ \A g \in keys : g <= n

(* plan: a new key when the certificate has the newest, else the newest.   *)
Plan(newest) == IF Matching = newest THEN newest + 1 ELSE newest

(* check_retirable                                                         *)
(* Mutant: any key but that of the certificate in the file.                *)
NotTheCurrent(g) == Matching # 0 /\ g # Matching

Retirable(g) == Matching # 0 /\ g < Matching

(* current_cert_usable                                                     *)
Usable == Matching # 0 /\ End(certFile) - slot >= RenewBefore

----------------------------------------------------------------------------
(* run_enroll: one step per act on the token, the issuer or a file.        *)

EnrollBegin ==
    /\ enroll = Idle
    /\ ~Usable
    /\ Count
    /\ \E newest \in Generation \cup {0} :
          /\ IsNewestKey(newest)
          /\ Plan(newest) \in Generation
          /\ enroll' = [at |-> IF Plan(newest) \in keys THEN "request"
                               ELSE "generate",
                        generation |-> Plan(newest), certificate |-> 0]
    /\ UNCHANGED <<keys, issued, certFile, chainFile, retire, used>>

EnrollGenerate ==
    /\ enroll.at = "generate"
    /\ keys' = keys \cup {enroll.generation}
    /\ enroll' = [enroll EXCEPT !.at = "request"]
    /\ UNCHANGED <<issued, certFile, chainFile, retire, used, jobs>>

(* The issuer knows a request by its fingerprint, and the request a key    *)
(* makes is always the same: it is certified once, and asking again brings *)
(* the same certificate, however old.                                      *)

EnrollRequest ==
    /\ enroll.at = "request"
    /\ enroll.generation \in keys
    /\ \A c \in 1 .. Len(issued) : KeyOf(c) # enroll.generation
    /\ Len(issued) < MaxCertificates
    /\ issued' = Append(issued, [generation |-> enroll.generation, at |-> slot])
    /\ enroll' = [enroll EXCEPT !.at = "truncate", !.certificate = Len(issued) + 1]
    /\ UNCHANGED <<keys, certFile, chainFile, retire, used, jobs>>

EnrollAsksAgain ==
    /\ enroll.at = "request"
    /\ enroll.generation \in keys
    /\ \E c \in 1 .. Len(issued) :
          /\ KeyOf(c) = enroll.generation
          /\ enroll' = [enroll EXCEPT !.at = "truncate", !.certificate = c]
    /\ UNCHANGED <<keys, issued, certFile, chainFile, retire, used, jobs>>

(* write_file: the file is truncated, then written.                        *)
EnrollTruncate ==
    /\ enroll.at = "truncate"
    /\ certFile' = 0
    /\ enroll' = [enroll EXCEPT !.at = "write"]
    /\ UNCHANGED <<keys, issued, chainFile, retire, used, jobs>>

EnrollWrite ==
    /\ enroll.at = "write"
    /\ certFile' = enroll.certificate
    /\ used' = used \cup {enroll.certificate}
    /\ enroll' = [enroll EXCEPT !.at = "truncate_chain"]
    /\ UNCHANGED <<keys, issued, chainFile, retire, jobs>>

EnrollTruncateChain ==
    /\ enroll.at = "truncate_chain"
    /\ chainFile' = 0
    /\ enroll' = [enroll EXCEPT !.at = "write_chain"]
    /\ UNCHANGED <<keys, issued, certFile, retire, used, jobs>>

EnrollWriteChain ==
    /\ enroll.at = "write_chain"
    /\ chainFile' = enroll.certificate
    /\ enroll' = Idle
    /\ UNCHANGED <<keys, issued, certFile, retire, used, jobs>>

(* A step fails and the command dies, or the command is killed.            *)
EnrollDies ==
    /\ enroll # Idle
    /\ Count
    /\ enroll' = Idle
    /\ UNCHANGED <<keys, issued, certFile, chainFile, retire, used>>

Enroll ==
    \/ EnrollBegin \/ EnrollGenerate \/ EnrollRequest \/ EnrollAsksAgain
    \/ EnrollTruncate \/ EnrollWrite
    \/ EnrollTruncateChain \/ EnrollWriteChain \/ EnrollDies

----------------------------------------------------------------------------
(* run_retire_key: the decision on what the file and the token hold, then  *)
(* the line of the journal and the destruction.                            *)

RetireDecide(g) ==
    /\ retire = 0
    /\ g \in keys
    /\ Retirable(g)
    /\ Count
    /\ retire' = g
    /\ UNCHANGED <<keys, issued, certFile, chainFile, enroll, used>>

RetireDestroy ==
    /\ retire # 0
    /\ keys' = keys \ {retire}
    /\ retire' = 0
    /\ UNCHANGED <<issued, certFile, chainFile, enroll, used, jobs>>

RetireGivesUp ==
    /\ retire # 0
    /\ retire' = 0
    /\ UNCHANGED <<keys, issued, certFile, chainFile, enroll, used, jobs>>

Retire == \E g \in Generation : RetireDecide(g)

----------------------------------------------------------------------------
(* Every variable has its type.                                            *)
KeysTypeOK ==
    /\ keys \subseteq Generation
    /\ issued \in Seq([generation : Generation, at : Slot])
    /\ Len(issued) <= MaxCertificates
    /\ certFile \in 0 .. Len(issued) /\ chainFile \in 0 .. Len(issued)
    /\ enroll \in [at : {"idle", "generate", "request", "truncate", "write",
                         "truncate_chain", "write_chain"},
                   generation : Generation \cup {0},
                   certificate : 0 .. Len(issued)]
    /\ retire \in Generation \cup {0}
    /\ used \subseteq 1 .. Len(issued)
    /\ jobs \in 0 .. MaxJobs

(* The certificate in the file, or about to be, has its key in the token,  *)
(* so that a restart can serve it, whatever keys an operator destroyed     *)
(* (check_retirable); and no two certificates that ever were in the file   *)
(* share a key, whatever enrolments failed on the way (keys.rs: each       *)
(* certificate has a key of its own).                                      *)
CertificateKeepsItsKey ==
    /\ certFile # 0 => KeyOf(certFile) \in keys
    /\ enroll.at \in {"request", "truncate", "write"} => enroll.generation \in keys

OneKeyPerCertificate ==
    \A c, d \in used : KeyOf(c) = KeyOf(d) => c = d

EachCertificateItsKey == CertificateKeepsItsKey /\ OneKeyPerCertificate
=============================================================================
