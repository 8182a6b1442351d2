--------------------------- MODULE OcspResponder ---------------------------
(***************************************************************************)
(* The OCSP responder (crates/oe-ocsp-core, bin/ocsp-responder): it keeps  *)
(* a snapshot of the last CRL it accepted, refreshed by a periodic task    *)
(* and, when a request names a serial the snapshot does not know, on       *)
(* demand.  It reads the authority through its CRLs only (CrlFeed).        *)
(*                                                                         *)
(* The snapshot is behind a read-write lock that each lookup of a single   *)
(* serial takes and releases, and that a refresh takes to install a CRL it *)
(* has downloaded and checked without the lock.  A lookup and an install   *)
(* are therefore one step each; everything else interleaves.               *)
(*                                                                         *)
(* Time is reduced to three events: a CRL passes its nextUpdate (Lapse),   *)
(* the last download grows older than twice crl_refresh (Age), the delay   *)
(* between two on-demand refreshes elapses (CooldownEnds).                 *)
(***************************************************************************)
EXTENDS CrlFeed, FiniteSets

CONSTANTS
    Asker,          \* concurrent OCSP requests
    Refresher,      \* the periodic refresh task
    MaxRequests,    \* MAX_REQUESTS
    NoCrl           \* nothing downloaded

ASSUME ResponderAssumption == Refresher \notin Asker /\ MaxRequests \in Nat

Caller == Asker \cup {Refresher}
EmptyCrl == [number |-> 0, revoked |-> {}, issued |-> {}]
Snapshot == [number : CrlNumber \cup {0}, revoked : SUBSET Serial,
             issued : SUBSET Serial]
Answer == {"good", "revoked", "unknown"}

VARIABLES
    snapshot,     \* the CRL in the cache
    fetched,      \* there is one (last_fetch is set)
    aged,         \* its download is older than 2 * crl_refresh
    lapsed,       \* numbers of the CRLs past their nextUpdate
    cooldown,     \* an on-demand refresh began less than 2 s ago
    pc,           \* where each caller is
    asked,        \* serials the request of a caller names
    found,        \* statuses looked up, with the number of the CRL they come from
    again,        \* the same, after the on-demand refresh
    reply,        \* what was answered: statuses, "tryLater", or nothing yet
    download,     \* the CRL a caller has downloaded
    second        \* the caller is past its on-demand refresh

responderVars == <<snapshot, fetched, aged, lapsed, cooldown, pc, asked, found,
                   again, reply, download, second>>
vars == <<feedVars, responderVars>>

NoReply == [kind |-> "none", found |-> {}]
TryLater == [kind |-> "tryLater", found |-> {}]
Successful(statuses) == [kind |-> "successful", found |-> statuses]

Found == [serial : Serial, status : Answer, number : CrlNumber \cup {0}]

Init ==
    /\ FeedInit
    /\ snapshot = EmptyCrl
    /\ fetched = FALSE
    /\ aged = FALSE
    /\ lapsed = {}
    /\ cooldown = FALSE
    /\ pc = [a \in Caller |-> "idle"]
    /\ asked = [a \in Caller |-> {}]
    /\ found = [a \in Caller |-> {}]
    /\ again = [a \in Caller |-> {}]
    /\ reply = [a \in Caller |-> NoReply]
    /\ download = [a \in Caller |-> NoCrl]
    /\ second = [a \in Caller |-> FALSE]

Goto(a, label) == pc' = [pc EXCEPT ![a] = label]

-----------------------------------------------------------------------------
(* Responder::refresh.  The server answers with the current CRL, with an   *)
(* older one (its fallback cache, or a replay on the way), or not at all.  *)

StartPeriodic ==
    /\ pc[Refresher] = "idle"
    /\ Goto(Refresher, "get")
    /\ UNCHANGED <<feedVars, snapshot, fetched, aged, lapsed, cooldown, asked,
                   found, again, reply, download, second>>

(* Where a caller resumes once its refresh is over.                        *)
Resumes(a) == IF a = Refresher THEN "idle" ELSE "lookup"

Get(a) ==
    /\ pc[a] = "get"
    /\ \/ \E c \in feed :
            /\ download' = [download EXCEPT ![a] = c]
            /\ Goto(a, "install")
       \/ /\ Goto(a, Resumes(a))
          /\ UNCHANGED download
    /\ UNCHANGED <<feedVars, snapshot, fetched, aged, lapsed, cooldown, asked,
                   found, again, reply, second>>

(* Mutant: the number of the CRL is not compared with the last accepted.   *)
InstallAny(a) ==
    /\ pc[a] = "install"
    /\ snapshot' = download[a]
    /\ fetched' = TRUE
    /\ aged' = FALSE
    /\ download' = [download EXCEPT ![a] = NoCrl]
    /\ Goto(a, Resumes(a))
    /\ UNCHANGED <<feedVars, lapsed, cooldown, asked, found, again, reply, second>>

(* CrlReplayed: a smaller number than the last one accepted is refused.    *)
Install(a) ==
    /\ pc[a] = "install"
    /\ IF fetched /\ download[a].number < snapshot.number
       THEN UNCHANGED <<snapshot, fetched, aged>>
       ELSE /\ snapshot' = download[a]
            /\ fetched' = TRUE
            /\ aged' = FALSE
    /\ download' = [download EXCEPT ![a] = NoCrl]
    /\ Goto(a, Resumes(a))
    /\ UNCHANGED <<feedVars, lapsed, cooldown, asked, found, again, reply, second>>

-----------------------------------------------------------------------------
(* Responder::handle_inner.  main serves only after a first refresh.       *)

Ask(a, S) ==
    /\ pc[a] = "idle"
    /\ fetched
    /\ S # {} /\ Cardinality(S) <= MaxRequests
    /\ asked' = [asked EXCEPT ![a] = S]
    /\ found' = [found EXCEPT ![a] = {}]
    /\ again' = [again EXCEPT ![a] = {}]
    /\ reply' = [reply EXCEPT ![a] = NoReply]
    /\ second' = [second EXCEPT ![a] = FALSE]
    /\ Goto(a, "lookup")
    /\ UNCHANGED <<feedVars, snapshot, fetched, aged, lapsed, cooldown, download>>

Stale == ~fetched \/ aged \/ snapshot.number \in lapsed

(* Mutant: a number that is not revoked is good.                           *)
GoodByDefault(s) == IF s \in snapshot.revoked THEN "revoked" ELSE "good"

(* Mutant: a number that is issued is good, without looking further.       *)
IssuedIsGood(s) == IF s \in snapshot.issued THEN "good" ELSE "unknown"

StatusOf(s) ==
    CASE s \in snapshot.revoked                       -> "revoked"
      [] s \in snapshot.issued \ snapshot.revoked     -> "good"
      [] s \notin snapshot.issued \cup snapshot.revoked -> "unknown"

(* The second pass collects in "again"; "found" keeps the first.           *)
Collected(a) == IF second[a] THEN again[a] ELSE found[a]
Unlooked(a) == {s \in asked[a] : \A f \in Collected(a) : f.serial # s}

(* Responder::lookup of one more serial of the list.                       *)
Lookup(a) ==
    /\ pc[a] = "lookup"
    /\ ~Stale
    /\ \E s \in Unlooked(a) :
          LET f == [serial |-> s, status |-> StatusOf(s), number |-> snapshot.number]
          IN  IF second[a]
              THEN again' = [again EXCEPT ![a] = @ \cup {f}] /\ UNCHANGED found
              ELSE found' = [found EXCEPT ![a] = @ \cup {f}] /\ UNCHANGED again
    /\ UNCHANGED <<feedVars, snapshot, fetched, aged, lapsed, cooldown, pc, asked,
                   reply, download, second>>

AnswerWith(a, r) ==
    /\ reply' = [reply EXCEPT ![a] = r]
    /\ Goto(a, "idle")

(* The snapshot is stale: tryLater on the first pass; on the second, what  *)
(* the first pass found is answered.                                       *)
LookupStale(a) ==
    /\ pc[a] = "lookup"
    /\ Stale
    /\ Unlooked(a) # {}
    /\ AnswerWith(a, IF second[a] THEN Successful(found[a]) ELSE TryLater)
    /\ UNCHANGED <<feedVars, snapshot, fetched, aged, lapsed, cooldown, asked,
                   found, again, download, second>>

AnyUnknown(a) == \E f \in found[a] : f.status = "unknown"

(* try_on_demand_refresh: the instant is set under the mutex, then the     *)
(* download begins.                                                        *)
RefreshOnDemand(a) ==
    /\ pc[a] = "lookup"
    /\ Unlooked(a) = {} /\ ~second[a]
    /\ AnyUnknown(a) /\ ~cooldown
    /\ cooldown' = TRUE
    /\ second' = [second EXCEPT ![a] = TRUE]
    /\ Goto(a, "get")
    /\ UNCHANGED <<feedVars, snapshot, fetched, aged, lapsed, asked, found, again,
                   reply, download>>

Conclude(a) ==
    /\ pc[a] = "lookup"
    /\ Unlooked(a) = {}
    /\ second[a] \/ ~AnyUnknown(a) \/ cooldown
    /\ AnswerWith(a, Successful(Collected(a)))
    /\ UNCHANGED <<feedVars, snapshot, fetched, aged, lapsed, cooldown, asked,
                   found, again, download, second>>

-----------------------------------------------------------------------------
(* Time, the authority, and the end of the process.                        *)

Age ==
    /\ fetched /\ ~aged
    /\ aged' = TRUE
    /\ UNCHANGED <<feedVars, snapshot, fetched, lapsed, cooldown, pc, asked, found,
                   again, reply, download, second>>

(* CRLs have one validity: they lapse in the order of their publication.   *)
Lapse ==
    /\ \E c \in feed :
          /\ c.number \notin lapsed
          /\ lapsed' = {d.number : d \in {e \in feed : e.number <= c.number}}
    /\ UNCHANGED <<feedVars, snapshot, fetched, aged, cooldown, pc, asked, found,
                   again, reply, download, second>>

CooldownEnds ==
    /\ cooldown
    /\ cooldown' = FALSE
    /\ UNCHANGED <<feedVars, snapshot, fetched, aged, lapsed, pc, asked, found,
                   again, reply, download, second>>

Authority == FeedNext /\ UNCHANGED responderVars

(* Nothing is kept on disk: the number of the last CRL is forgotten.       *)
Restart ==
    /\ snapshot' = EmptyCrl
    /\ fetched' = FALSE
    /\ aged' = FALSE
    /\ cooldown' = FALSE
    /\ pc' = [a \in Caller |-> "idle"]
    /\ asked' = [a \in Caller |-> {}]
    /\ found' = [a \in Caller |-> {}]
    /\ again' = [a \in Caller |-> {}]
    /\ reply' = [a \in Caller |-> NoReply]
    /\ download' = [a \in Caller |-> NoCrl]
    /\ second' = [a \in Caller |-> FALSE]
    /\ UNCHANGED <<feedVars, lapsed>>

Handle(a) == Lookup(a) \/ LookupStale(a) \/ RefreshOnDemand(a) \/ Conclude(a)
Refresh(a) == Get(a) \/ Install(a)

Next ==
    \/ StartPeriodic
    \/ \E a \in Caller : Refresh(a)
    \/ \E a \in Asker : Handle(a) \/ \E S \in SUBSET Serial : Ask(a, S)
    \/ Age \/ Lapse \/ CooldownEnds
    \/ Authority
    \/ Restart

Spec == Init /\ [][Next]_vars

-----------------------------------------------------------------------------
(* Every variable has its type.                                            *)
TypeOK ==
    /\ FeedTypeOK
    /\ snapshot \in Snapshot
    /\ fetched \in BOOLEAN /\ aged \in BOOLEAN /\ cooldown \in BOOLEAN
    /\ lapsed \subseteq CrlNumber
    /\ pc \in [Caller -> {"idle", "get", "install", "lookup"}]
    /\ asked \in [Caller -> SUBSET Serial]
    /\ found \in [Caller -> SUBSET Found]
    /\ again \in [Caller -> SUBSET Found]
    /\ reply \in [Caller -> [kind : {"none", "tryLater", "successful"},
                             found : SUBSET Found]]
    /\ download \in [Caller -> FeedCrl \cup {NoCrl}]
    /\ second \in [Caller -> BOOLEAN]

(* Every status answered is the one of a CRL that was published, the one   *)
(* whose dates go with it in the response.                                 *)
ComesFromTheFeed ==
    \A a \in Asker : \A f \in reply[a].found : \E c \in feed :
        /\ c.number = f.number
        /\ f.status = "revoked" <=> f.serial \in c.revoked
        /\ f.status = "unknown" <=> f.serial \notin c.issued

(* lib.rs, "ne peut pas attester d'un statut que la CA n'a pas publie": a  *)
(* serial never issued is not good (constat O-1), one answered revoked is  *)
(* revoked, through replays, restarts and concurrent refreshes; what is    *)
(* told of a serial and of its dates is what one published CRL tells.      *)
AnswersAreTruthful ==
    /\ ComesFromTheFeed
    /\ \A a \in Asker : \A f \in reply[a].found :
           /\ f.status # "unknown" => status[f.serial] # "unissued"
           /\ f.status = "revoked" => status[f.serial] = "revoked"

(* The cache of a running responder never goes back to an older CRL: two   *)
(* downloads that end in the wrong order, a replay (constat O-2).          *)
SnapshotNeverGoesBack ==
    [][fetched /\ fetched' => snapshot'.number >= snapshot.number]_vars

=============================================================================
