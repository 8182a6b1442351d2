------------------------------- MODULE Hierarchy -------------------------------
(***************************************************************************)
(* The root and the issuing authority (oe-ca-core: ceremony.rs, root.rs;   *)
(* the commands ceremony and authority of ca-server, and the start of its  *)
(* service; migration 0007).  A command is a process that opens tokens,    *)
(* reads the hierarchy, signs, journals and writes; each call to a token,  *)
(* to the base or to the journal is a step, and the process may die, or be *)
(* refused, before any of them.  Only the opening of a token is one step   *)
(* with the first reading of its key: that reading opens the token again   *)
(* when it finds the session lost or the key gone.  Names, validities,     *)
(* extensions, operators and reasons are left out, and so is the text of   *)
(* the other lines, which are written or stop the command; a certificate   *)
(* is its number, its key and the key that signed it.  Whether the service *)
(* issues under a revoked authority is Enrollment's (FewLateIssues); here  *)
(* it signs.                                                               *)
(***************************************************************************)
EXTENDS Hsm

CONSTANTS
    MaxCertificates,    \* certificates that ceremonies may sign
    MaxArls             \* numbers of ARLs that may be drawn

ASSUME HierarchyAssumption ==
    /\ Token = {"root", "issuing"}
    /\ MaxCertificates \in Nat /\ MaxArls \in Nat

VARIABLES
    authorities,    \* the table authorities: its certificates
    revokedAt,      \* and whether its issuing authority is revoked
    arls,           \* the table arls
    arlNumber,      \* the sequence of their numbers
    lines,          \* the lines of the journal about ceremonies
    serials,        \* the serial numbers drawn for the hierarchy
    pc, job,        \* where each process stands and what it holds
    overlapped,     \* history: two ceremonies created a hierarchy at the same time
    swapped,        \* history: the token of the root lost the key that a root holds
                    \* before it signed that root
    crossed,        \* history: the revocation crossed a publication
    answered        \* history: a revocation command ended well

tables == <<authorities, revokedAt, arls, arlNumber>>
marks == <<overlapped, swapped, crossed, answered>>
vars == <<hsmVars, tables, lines, serials, pc, job, marks>>

\* The commands keep what they still need: a certificate that is used no more
\* leaves the job.
NoCertificate == [id |-> 0, key |-> None, signer |-> None]
NoJob == [op |-> None, root |-> NoCertificate, issuing |-> NoCertificate,
          revoked |-> {}, number |-> 0, signer |-> None]

CeremonyLine(r, i) == <<r, i>>

Latest == CHOOSE a \in arls : \A b \in arls : b.number <= a.number

At(p, label, values) ==
    /\ pc' = [pc EXCEPT ![p] = label]
    /\ job' = [job EXCEPT ![p] = values]
Goto(p, label) == At(p, label, job[p])

\* The process ends: what it opened is closed.
Ends(p) == At(p, "idle", NoJob) /\ CloseAll(p)

-----------------------------------------------------------------------------
(* Opening tokens and reading the hierarchy. *)

AfterOpening(p, t) ==
    IF job[p].op = "ceremony"
    THEN IF t = "root" THEN "open issuing" ELSE "read root"
    ELSE CASE job[p].op = "revoke" -> "revoke"
           [] job[p].op = "publish" -> "read revoked"
           [] job[p].op = "serve" -> "match"

OpenLabel(t) == IF t = "root" THEN "open root" ELSE "open issuing"
GenerateLabel(t) == IF t = "root" THEN "generate root" ELSE "generate issuing"

\* A process starts, to serve or for one command; a ceremony opens both tokens
\* before it reads anything.
Start(p, op) ==
    /\ pc[p] = "idle"
    /\ At(p, IF op = "ceremony" THEN "open root" ELSE "read root", [NoJob EXCEPT !.op = op])
    /\ UNCHANGED <<hsmVars, tables, lines, serials, marks>>

\* open_key: a key is generated when none is read, whatever the reason.
OpenKey(p, t) ==
    /\ pc[p] = OpenLabel(t)
    /\ Open(p, t)
    /\ \/ PublicKeys(t) # {} /\ Goto(p, AfterOpening(p, t)) /\ UNCHANGED events
       \/ PublicKeys(t) = {} /\ Goto(p, GenerateLabel(t)) /\ UNCHANGED events
       \/ PublicKeys(t) # {} /\ Goto(p, GenerateLabel(t)) /\ Event
    /\ UNCHANGED <<keys, made, lost, tables, lines, serials, marks>>

GenerateKey(p, t) ==
    /\ pc[p] = GenerateLabel(t)
    /\ Generate(t)
    /\ Goto(p, AfterOpening(p, t))
    /\ UNCHANGED <<handle, lost, events, tables, lines, serials, marks>>

\* A ceremony that finds no hierarchy creates one.
Creating(p) == pc[p] \in {"read root key", "sign root", "read issuing key", "sign issuing",
                          "journal", "save root", "save issuing"}
Create(p) ==
    /\ Goto(p, "read root key")
    /\ overlapped' = (overlapped \/ \E q \in Process \ {p} : Creating(q))
    /\ UNCHANGED handle

\* The other commands die without a hierarchy.
NothingThere(p) ==
    IF job[p].op = "ceremony" THEN Create(p) ELSE Ends(p) /\ UNCHANGED overlapped

\* load_hierarchy: the row of the root, then that of the issuing authority.
ReadRoot(p) ==
    /\ pc[p] = "read root"
    /\ IF authorities["root"] = NoCertificate THEN NothingThere(p)
       ELSE /\ At(p, "read issuing", [job[p] EXCEPT !.root = authorities["root"]])
            /\ UNCHANGED <<handle, overlapped>>
    /\ UNCHANGED <<keys, made, lost, events, tables, lines, serials, swapped, crossed, answered>>

ReadIssuing(p) ==
    /\ pc[p] = "read issuing"
    /\ IF authorities["issuing"] = NoCertificate THEN NothingThere(p)
       ELSE /\ IF job[p].op \in {"revoke", "publish"} THEN Goto(p, "open root")
               ELSE At(p, IF job[p].op = "serve" THEN "open issuing" ELSE "match root",
                       [job[p] EXCEPT !.issuing = authorities["issuing"]])
            /\ UNCHANGED <<handle, overlapped>>
    /\ UNCHANGED <<keys, made, lost, events, tables, lines, serials, swapped, crossed, answered>>

\* matches_signer: a ceremony compares both tokens with what is registered, that
\* of the root first.
MatchesRoot(p) ==
    /\ pc[p] = "match root"
    /\ job[p].root.key \in PublicKeys("root")
    /\ Goto(p, "match")
    /\ UNCHANGED <<hsmVars, tables, lines, serials, marks>>

\* And the service compares its own.
Matches(p) ==
    /\ pc[p] = "match"
    /\ job[p].issuing.key \in PublicKeys("issuing")
    /\ IF job[p].op = "serve" THEN Goto(p, "serving")
       ELSE At(p, "read arl", [job[p] EXCEPT !.issuing = NoCertificate])
    /\ UNCHANGED <<hsmVars, tables, lines, serials, marks>>

-----------------------------------------------------------------------------
(* The ceremony. *)

NextSerial == serials < MaxCertificates /\ serials' = serials + 1

\* sign_root reads the public key that the root is to hold; the token does not
\* remember it.
ReadRootKey(p) ==
    \E k \in PublicKeys("root") :
        /\ pc[p] = "read root key"
        /\ At(p, "sign root", [job[p] EXCEPT !.root = [NoCertificate EXCEPT !.key = k]])
        /\ UNCHANGED <<hsmVars, tables, lines, serials, marks>>

\* Then it asks the token to sign, and the token verifies with the key it has by now.
SignRoot(p) ==
    \E s \in AnyPair :
        /\ pc[p] = "sign root" /\ NextSerial
        /\ Signs(p, "root", s)
        /\ At(p, "read issuing key",
              [job[p] EXCEPT !.root = [@ EXCEPT !.id = serials', !.signer = s]])
        /\ UNCHANGED <<tables, lines, marks>>

\* sign_issuing reads the issuing key in its token, and signs with that of the root.
ReadIssuingKey(p) ==
    \E k \in PublicKeys("issuing") :
        /\ pc[p] = "read issuing key"
        /\ At(p, "sign issuing", [job[p] EXCEPT !.issuing = [NoCertificate EXCEPT !.key = k]])
        /\ UNCHANGED <<hsmVars, tables, lines, serials, marks>>

SignIssuing(p) ==
    \E s \in AnyPair :
        /\ pc[p] = "sign issuing" /\ NextSerial
        /\ Signs(p, "root", s)
        /\ At(p, "journal",
              [job[p] EXCEPT !.issuing = [@ EXCEPT !.id = serials', !.signer = s]])
        /\ UNCHANGED <<tables, lines, marks>>

\* The record of the ceremony, before anything is registered.
JournalCeremony(p) ==
    /\ pc[p] = "journal"
    /\ lines' = lines \cup {CeremonyLine(job[p].root, job[p].issuing)}
    /\ Goto(p, "save root")
    /\ UNCHANGED <<hsmVars, tables, serials, marks>>

\* Mutant: ON CONFLICT DO NOTHING.
SaveAuthorityOnce(t, c) ==
    /\ authorities' = [authorities EXCEPT ![t] = IF @ = NoCertificate THEN c ELSE @]
    /\ UNCHANGED revokedAt

\* save_authority: a row of that name is written over; its revocation is kept.
SaveAuthority(t, c) ==
    /\ authorities' = [authorities EXCEPT ![t] = c]
    /\ UNCHANGED revokedAt

Register(p) ==
    /\ \/ pc[p] = "save root" /\ SaveAuthority("root", job[p].root) /\ Goto(p, "save issuing")
       \/ pc[p] = "save issuing" /\ SaveAuthority("issuing", job[p].issuing)
          /\ At(p, "read arl", [job[p] EXCEPT !.issuing = NoCertificate])
    /\ UNCHANGED <<hsmVars, arls, arlNumber, lines, serials, marks>>

\* run_ceremony: the first ARL is published with the hierarchy.
ReadArl(p) ==
    /\ pc[p] = "read arl"
    /\ IF arls = {} THEN Goto(p, "read revoked") /\ UNCHANGED handle ELSE Ends(p)
    /\ UNCHANGED <<keys, made, lost, events, tables, lines, serials, marks>>

-----------------------------------------------------------------------------
(* RootAuthority. *)

\* A publication that has read what is revoked, and not yet registered its ARL.
Publishing(p) == pc[p] \in {"draw number", "sign arl", "save arl"}

\* revoke_authority, once its line is written.  The first revocation stands.
RevokeAuthority(p) ==
    /\ pc[p] = "revoke"
    /\ revokedAt' = TRUE
    /\ crossed' = (crossed \/ (~ revokedAt /\ \E q \in Process \ {p} : Publishing(q)))
    /\ Goto(p, "read revoked")
    /\ UNCHANGED <<hsmVars, authorities, arls, arlNumber, lines, serials,
                   overlapped, swapped, answered>>

\* Mutant: an authority that an ARL lists is not listed again.
ReadNewlyRevoked(p) ==
    /\ pc[p] = "read revoked"
    /\ At(p, "draw number",
          [job[p] EXCEPT !.revoked = (IF revokedAt THEN {authorities["issuing"].id} ELSE {})
                                     \ UNION {a.lists : a \in arls}])
    /\ UNCHANGED <<hsmVars, tables, lines, serials, marks>>

\* publish_arl: revoked_authorities, with their certificates of that moment.
ReadRevokedAuthorities(p) ==
    /\ pc[p] = "read revoked"
    /\ At(p, "draw number",
          [job[p] EXCEPT !.revoked = IF revokedAt THEN {authorities["issuing"].id} ELSE {}])
    /\ UNCHANGED <<hsmVars, tables, lines, serials, marks>>

DrawArlNumber(p) ==
    /\ pc[p] = "draw number"
    /\ arlNumber < MaxArls
    /\ arlNumber' = arlNumber + 1
    /\ At(p, "sign arl", [job[p] EXCEPT !.number = arlNumber'])
    /\ UNCHANGED <<hsmVars, authorities, revokedAt, arls, lines, serials, marks>>

\* The ARL is signed with the token of the root, then its line is written.
SignArl(p) ==
    \E s \in AnyPair :
        /\ pc[p] = "sign arl"
        /\ Signs(p, "root", s)
        /\ At(p, "save arl", [job[p] EXCEPT !.signer = s])
        /\ UNCHANGED <<tables, lines, serials, marks>>

SaveArl(p) ==
    /\ pc[p] = "save arl"
    /\ arls' = arls \cup {[number |-> job[p].number, lists |-> job[p].revoked,
                           signer |-> job[p].signer, root |-> job[p].root]}
    /\ answered' = (answered \/ job[p].op = "revoke")
    /\ Ends(p)
    /\ UNCHANGED <<keys, made, lost, events, authorities, revokedAt, arlNumber, lines,
                   serials, overlapped, swapped, crossed>>

-----------------------------------------------------------------------------

\* The service signs certificates and CRLs with the issuing token.
Serve(p) ==
    \E s \in AnyPair :
        /\ pc[p] = "serving"
        /\ Signs(p, "issuing", s)
        /\ UNCHANGED <<tables, lines, serials, pc, job, marks>>

\* A token that does not sign, or whose key is not the registered one, ends the
\* process; a service is stopped.
Refused(p) ==
    \/ /\ pc[p] \in {"sign root", "sign issuing", "sign arl"}
       /\ \A k \in AnyPair : ~ CanSign(p, "root", k)
    \/ pc[p] = "read root key" /\ PublicKeys("root") = {}
    \/ pc[p] = "read issuing key" /\ PublicKeys("issuing") = {}
    \/ pc[p] = "match root" /\ PublicKeys("root") # {job[p].root.key}
    \/ pc[p] = "match" /\ PublicKeys("issuing") # {job[p].issuing.key}
    \/ pc[p] = "serving"

End(p) ==
    /\ Refused(p) /\ Ends(p)
    /\ UNCHANGED <<keys, made, lost, events, tables, lines, serials, marks>>

\* The base, the journal or the process fails.
Die(p) ==
    /\ pc[p] # "idle" /\ Event
    /\ Ends(p)
    /\ UNCHANGED <<keys, made, lost, tables, lines, serials, marks>>

Init ==
    /\ HsmInit
    /\ authorities = [t \in Token |-> NoCertificate]
    /\ revokedAt = FALSE /\ arls = {} /\ arlNumber = 0
    /\ lines = {} /\ serials = 0
    /\ pc = [p \in Process |-> "idle"]
    /\ job = [p \in Process |-> NoJob]
    /\ overlapped = FALSE /\ swapped = FALSE /\ crossed = FALSE /\ answered = FALSE

Step(p) ==
    \/ \E op \in {"ceremony", "revoke", "publish", "serve"} : Start(p, op)
    \/ \E t \in Token : OpenKey(p, t) \/ GenerateKey(p, t)
    \/ ReadRoot(p) \/ ReadIssuing(p) \/ MatchesRoot(p) \/ Matches(p)
    \/ ReadRootKey(p) \/ SignRoot(p) \/ ReadIssuingKey(p) \/ SignIssuing(p)
    \/ JournalCeremony(p) \/ Register(p) \/ ReadArl(p)
    \/ RevokeAuthority(p)
    \/ ReadRevokedAuthorities(p) \/ DrawArlNumber(p) \/ SignArl(p) \/ SaveArl(p)
    \/ Serve(p) \/ End(p) \/ Die(p)

\* What happens to the tokens, whatever the processes hold of them.
TokenEvent ==
    /\ HsmEvent
    /\ swapped' = (swapped \/ (keys'["root"] = {} /\ \E p \in Process : pc[p] = "sign root"))
    /\ UNCHANGED <<tables, lines, serials, pc, job, overlapped, crossed, answered>>

Next == (\E p \in Process : Step(p)) \/ TokenEvent

Spec == Init /\ [][Next]_vars

-----------------------------------------------------------------------------
(* Properties. *)

Complete == \A t \in Token : authorities[t] # NoCertificate

\* The registered certificates are those of one ceremony that the journal tells,
\* and one key signed both, even when their token came back with another key
\* between the two signatures.
OneCeremony ==
    LET r == authorities["root"]
        i == authorities["issuing"]
    IN  Complete /\ ~ overlapped => CeremonyLine(r, i) \in lines /\ i.signer = r.signer

\* The root holds the key that signed it (docs/CA.md calls it self-signed).
RootIsSelfSigned ==
    authorities["root"] # NoCertificate => authorities["root"].signer = authorities["root"].key

\* The root verifies with its own key unless the token lost that key before it
\* signed the root; losses before and after do not count.  What the root and the
\* service sign verifies with their certificates, as long as their token keeps
\* its key.
SignaturesVerify ==
    /\ ~ swapped => RootIsSelfSigned
    /\ "root" \notin lost => \A a \in arls : a.signer = a.root.key
    /\ "issuing" \notin lost =>
           \A p \in Process : pc[p] = "serving" =>
               handle[p]["issuing"].used \subseteq {job[p].issuing.key}

\* What is registered is one hierarchy and what is signed belongs to it, whatever
\* stopped the ceremonies before it and whatever keys were generated beside; only
\* two ceremonies that create at the same time may leave one certificate each, and
\* only a key lost between its reading and the signature a root that it did not sign.
OneHierarchy == OneCeremony /\ SignaturesVerify

\* A revocation whose command ended well is in the latest ARL, and stays there,
\* unless a publication that read the registry before it ends after it.
RevocationIsListed ==
    answered /\ ~ crossed /\ ~ overlapped => authorities["issuing"].id \in Latest.lists

=============================================================================
