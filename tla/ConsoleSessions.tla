---------------------------- MODULE ConsoleSessions ----------------------------
(***************************************************************************)
(* The sessions of the console (ra-console: login.rs, session.rs,          *)
(* purge.rs; oe-webauthn: finish_authentication).  An operator answers a   *)
(* challenge with one of his keys, the console verifies the assertion      *)
(* against the registry, which it only reads, counts it in a table of its  *)
(* own and opens a session.  The same verification serves an operator who  *)
(* signs again what he asks for (a reassertion).                           *)
(*                                                                         *)
(* A handler is a request being served; each await that another request    *)
(* can be told apart by is a step of its own.  Reads that follow one       *)
(* another are one step, with the write that comes next when it is to a    *)
(* row or a line of its own: what such a read missed, the rest of the      *)
(* handler never looks at again.  Time is not kept: a deadline is an       *)
(* action that marks the row.  Nothing in the code disables an operator,   *)
(* so disabled_at is left out; the lines about logins, appended whether or *)
(* not the journal takes them, are left out too.                           *)
(***************************************************************************)
EXTENDS Integers, FiniteSets

CONSTANTS
    None,           \* no value
    Operator, Key, Owner,
    FirstRole,      \* the role of each operator at the start
    LoggedIn,       \* the keys of the sessions already open at the start
    Handler,        \* requests served at the same time
    MaxChallenges, MaxSessions,
    Answers,        \* the keys that answer, with the counter they report
    RoleChanges,    \* the roles that ca-server may give
    MaxEvents       \* changes of the registry, deadlines, logouts, relays

Role == {"auditeur", "ra_operateur", "ca_operateur", "admin"}
ChallengeId == 1 .. MaxChallenges
SessionId == 1 .. MaxSessions

ASSUME ConsoleAssumption ==
    /\ Owner \in [Key -> Operator]
    /\ FirstRole \in [Operator -> Role]
    /\ None \notin Operator \cup Key \cup Role
    /\ None \notin [key : Key, counter : Nat]
    /\ MaxChallenges \in Nat /\ MaxSessions \in Nat
    /\ Answers \subseteq Key \X Nat /\ RoleChanges \subseteq Operator \X Role
    /\ MaxEvents \in Nat
    /\ \E n \in 0 .. MaxSessions : n <= MaxChallenges /\ LoggedIn \in [1 .. n -> Key]

VARIABLES
    role, revoked,  \* the registry, which ca-server alone writes
    challenge,      \* the table webauthn_challenges
    assertion,      \* the answer a browser got from the authenticator
    session,        \* the table sessions
    counter,        \* the table login_counters
    pc, job,        \* where each handler stands and what it read
    events,
    raced           \* history: keys whose counter moved under a verification

registry == <<role, revoked, events>>
sessionVars == <<registry, challenge, assertion, session, counter, pc, job, raced>>

NoChallenge == [status |-> "absent", kind |-> None, operator |-> None,
                keys |-> {}, incident |-> 0]
NoSession == [status |-> "absent", operator |-> None, key |-> None, challenge |-> 0]
NoJob == [op |-> None, operator |-> None, challenge |-> 0, incident |-> 0,
          action |-> None, entry |-> 0, last |-> 0]

ActiveKeys(o) == {k \in Key \ revoked : Owner[k] = o}

\* The next identifier: they are drawn at random, so never used before.
Next1(table, none, ids) == {n \in ids : table[n] = none /\ \A m \in 1 .. n - 1 : table[m] # none}
FreshChallenge == Next1(challenge, NoChallenge, ChallengeId)
FreshSession == Next1(session, NoSession, SessionId)

\* The request is over: answered, refused, failed or dropped by its client.
Over(h) ==
    /\ pc' = [pc EXCEPT ![h] = "idle"]
    /\ job' = [job EXCEPT ![h] = NoJob]

At(h, label, values) ==
    /\ pc' = [pc EXCEPT ![h] = label]
    /\ job' = [job EXCEPT ![h] = values]

-----------------------------------------------------------------------------
(* The world around: ca-server, the browsers, the clock. *)

\* One more event of those that the instance bounds.
Event == events < MaxEvents /\ events' = events + 1

RevokeKey(k) ==
    /\ Event /\ k \notin revoked
    /\ revoked' = revoked \cup {k}
    /\ UNCHANGED <<role, challenge, assertion, session, counter, pc, job, raced>>

ChangeRole(o, r) ==
    /\ Event /\ role[o] # r
    /\ role' = [role EXCEPT ![o] = r]
    /\ UNCHANGED <<revoked, challenge, assertion, session, counter, pc, job, raced>>

\* A key answers a challenge with a counter, its own or that of a copy of it; a
\* key without counter answers 0.
Answer(c, k, n) ==
    /\ challenge[c].status = "fresh" /\ assertion[c] = None
    /\ assertion' = [assertion EXCEPT ![c] = [key |-> k, counter |-> n]]
    /\ UNCHANGED <<registry, challenge, session, counter, pc, job, raced>>

ChallengeExpires(c) ==
    /\ Event /\ challenge[c].status = "fresh"
    /\ challenge' = [challenge EXCEPT ![c].status = "over"]
    /\ UNCHANGED <<role, revoked, assertion, session, counter, pc, job, raced>>

\* Half an hour without a request, or eight hours whatever was done.
SessionExpires(s) ==
    /\ Event
    /\ \/ /\ session[s].status = "open"
          /\ session' = [session EXCEPT ![s].status = "idle"]
       \/ /\ session[s].status \in {"open", "idle"}
          /\ session' = [session EXCEPT ![s].status = "over"]
    /\ UNCHANGED <<role, revoked, challenge, assertion, counter, pc, job, raced>>

-----------------------------------------------------------------------------
(* Logging in. *)

\* LoginService::begin.  A name that is unknown, or without a key, gets a decoy.
LoginBegin(o) ==
    \E c \in FreshChallenge :
        LET known == o # None /\ ActiveKeys(o) # {}
        IN  /\ challenge' = [challenge EXCEPT ![c] =
                   [status |-> "fresh", kind |-> "login", incident |-> 0,
                    operator |-> IF known THEN o ELSE None,
                    keys |-> IF known THEN ActiveKeys(o) ELSE {}]]
            /\ UNCHANGED <<registry, assertion, session, counter, pc, job, raced>>

\* Mutant: the challenge is read, then marked, without a condition on the mark.
LoginFinishUnguarded(h, c) ==
    /\ pc[h] = "idle" /\ assertion[c] # None
    /\ challenge[c].status \in {"fresh", "consumed"} /\ challenge[c].kind = "login"
    /\ challenge' = [challenge EXCEPT ![c].status = "consumed"]
    /\ IF challenge[c].operator = None THEN Over(h)
       ELSE At(h, "consumed", [NoJob EXCEPT !.op = "login", !.challenge = c,
                                            !.operator = challenge[c].operator])
    /\ UNCHANGED <<registry, assertion, session, counter, raced>>

\* LoginService::finish: the challenge is consumed by whoever presents it first;
\* a decoy is consumed too, and nothing can be verified against it.
LoginFinish(h, c) ==
    /\ pc[h] = "idle" /\ assertion[c] # None
    /\ challenge[c].status = "fresh" /\ challenge[c].kind = "login"
    /\ challenge' = [challenge EXCEPT ![c].status = "consumed"]
    /\ IF challenge[c].operator = None THEN Over(h)
       ELSE At(h, "consumed", [NoJob EXCEPT !.op = "login", !.challenge = c,
                                            !.operator = challenge[c].operator])
    /\ UNCHANGED <<registry, assertion, session, counter, raced>>

\* verify_assertion: the key that signed and its operator are read in the
\* registry, and the counter of the console.
ReadKey(h) ==
    LET k == assertion[job[h].challenge].key
    IN  /\ pc[h] = "consumed"
        /\ k \notin revoked /\ Owner[k] = job[h].operator
        /\ At(h, "read", [job[h] EXCEPT !.last = counter[k]])
        /\ UNCHANGED <<registry, challenge, assertion, session, counter, raced>>

\* Mutant: a counter that stands still is taken.
StandsStill(seen, last) == last > 0 /\ seen < last

\* finish_authentication refuses a counter that goes back or stands still, once
\* it has been positive.
GoesBack(seen, last) == last > 0 /\ seen <= last

\* The assertion verifies with a key the challenge was offered to, and its
\* counter is written over whatever the table holds by now.
Count(h) ==
    LET c == job[h].challenge
        k == assertion[c].key
        seen == assertion[c].counter
    IN  /\ pc[h] = "read"
        /\ k \in challenge[c].keys
        /\ ~ GoesBack(seen, job[h].last)
        /\ counter' = [counter EXCEPT ![k] = seen]
        /\ raced' = IF counter[k] # job[h].last THEN raced \cup {k} ELSE raced
        /\ At(h, "verified", job[h])
        /\ UNCHANGED <<registry, challenge, assertion, session>>

\* Sessions::create.
OpenSession(h) ==
    \E s \in FreshSession :
        /\ pc[h] = "verified" /\ job[h].op = "login"
        /\ session' = [session EXCEPT ![s] =
               [status |-> "open", operator |-> job[h].operator,
                key |-> assertion[job[h].challenge].key, challenge |-> job[h].challenge]]
        /\ Over(h)
        /\ UNCHANGED <<registry, challenge, assertion, counter, raced>>

-----------------------------------------------------------------------------
(* Using a session. *)

\* Sessions::authenticate, at the start of every request: the session is good.
\* The role of its operator is read with it, as the registry holds it now.
Authenticated(s) == session[s].status = "open"

\* Sessions::revoke.
Logout(s) ==
    /\ Event /\ session[s].status \in {"open", "idle", "over"}
    /\ session' = [session EXCEPT ![s].status = "revoked"]
    /\ UNCHANGED <<role, revoked, challenge, assertion, counter, pc, job, raced>>

\* purge::once: the rows past their deadline leave both tables.
Purge ==
    LET Left(row) == IF row.status = "over" THEN [row EXCEPT !.status = "purged"] ELSE row
    IN  /\ \E s \in SessionId, c \in ChallengeId : "over" \in {session[s].status, challenge[c].status}
        /\ session' = [s \in SessionId |-> Left(session[s])]
        /\ challenge' = [c \in ChallengeId |-> Left(challenge[c])]
        /\ UNCHANGED <<registry, assertion, counter, pc, job, raced>>

\* begin_reassertion: the operator of a session is asked to sign again, for the
\* incident he wants to close.
Reassert(o, i) ==
    \E c \in FreshChallenge :
        /\ ActiveKeys(o) # {}
        /\ challenge' = [challenge EXCEPT ![c] =
               [status |-> "fresh", kind |-> "incident_close", incident |-> i,
                operator |-> o, keys |-> ActiveKeys(o)]]
        /\ UNCHANGED <<registry, assertion, session, counter, pc, job, raced>>

\* finish_reassertion up to the mark: the challenge is the operator's, of this
\* kind, fresh, and about the incident that the route names.
Presented(h, o, i, c) ==
    /\ pc[h] = "idle" /\ assertion[c] # None
    /\ challenge[c].status = "fresh" /\ challenge[c].kind = "incident_close"
    /\ challenge[c].operator = o
    /\ challenge[c].incident = i
    /\ At(h, "presented", [NoJob EXCEPT !.op = "close", !.challenge = c,
                                        !.operator = o, !.incident = i])
    /\ UNCHANGED <<registry, challenge, assertion, session, counter, raced>>

\* The mark is set by one request only; the deadline is not looked at again.
ConsumeReassertion(h) ==
    LET c == job[h].challenge
    IN  /\ pc[h] = "presented"
        /\ challenge[c].status \in {"fresh", "over"}
        /\ challenge' = [challenge EXCEPT ![c].status = "consumed"]
        /\ At(h, "consumed", job[h])
        /\ UNCHANGED <<registry, assertion, session, counter, raced>>

\* A step that is refused, the base or the journal that does not answer, a client
\* that leaves, the console that stops: what was written stays.
Fail(h) ==
    /\ pc[h] # "idle"
    /\ Over(h)
    /\ UNCHANGED <<registry, challenge, assertion, session, counter, raced>>

SessionInit ==
    LET opened == DOMAIN LoggedIn
    IN  /\ role = FirstRole /\ revoked = {} /\ events = 0
        /\ challenge = [c \in ChallengeId |->
               IF c \in opened
               THEN [status |-> "consumed", kind |-> "login", incident |-> 0,
                     operator |-> Owner[LoggedIn[c]],
                     keys |-> {k \in Key : Owner[k] = Owner[LoggedIn[c]]}]
               ELSE NoChallenge]
        /\ assertion = [c \in ChallengeId |->
               IF c \in opened THEN [key |-> LoggedIn[c], counter |-> 0] ELSE None]
        /\ session = [s \in SessionId |->
               IF s \in opened
               THEN [status |-> "open", operator |-> Owner[LoggedIn[s]],
                     key |-> LoggedIn[s], challenge |-> s]
               ELSE NoSession]
        /\ counter = [k \in Key |-> 0]
        /\ pc = [h \in Handler |-> "idle"]
        /\ job = [h \in Handler |-> NoJob]
        /\ raced = {}

(* The routes. *)

LoginBeginRoute == \E o \in Operator \cup {None} : LoginBegin(o)

\* Between its two steps handle_login_finish has the assertion verified.
LoginFinishRoute(h) == (\E c \in ChallengeId : LoginFinish(h, c)) \/ OpenSession(h)

\* Whatever the session has become, no open one is left of it.
LogoutRoute == \E s \in SessionId : Logout(s)

SessionNext ==
    \/ \E k \in Key : RevokeKey(k)
    \/ \E x \in RoleChanges : ChangeRole(x[1], x[2])
    \/ \E c \in ChallengeId, x \in Answers : Answer(c, x[1], x[2])
    \/ \E c \in ChallengeId : ChallengeExpires(c)
    \/ \E s \in SessionId : SessionExpires(s)
    \/ LoginBeginRoute
    \/ LogoutRoute
    \/ \E h \in Handler : \/ LoginFinishRoute(h)
                          \/ ReadKey(h) \/ Count(h)
                          \/ ConsumeReassertion(h) \/ Fail(h)
    \/ Purge

-----------------------------------------------------------------------------
(* Types of the tables. *)

ChallengeRow == [status : {"absent", "fresh", "consumed", "over", "purged"},
                 kind : {"login", "incident_close", None}, operator : Operator \cup {None},
                 keys : SUBSET Key, incident : Nat]
SessionRow == [status : {"absent", "open", "idle", "over", "revoked", "purged"},
               operator : Operator \cup {None}, key : Key \cup {None},
               challenge : 0 .. MaxChallenges]
AssertionRow == [key : Key, counter : Nat]

SessionTypeOK ==
    /\ role \in [Operator -> Role] /\ revoked \subseteq Key /\ events \in 0 .. MaxEvents
    /\ challenge \in [ChallengeId -> ChallengeRow]
    /\ assertion \in [ChallengeId -> AssertionRow \cup {None}]
    /\ session \in [SessionId -> SessionRow]
    /\ counter \in [Key -> Nat]
    /\ raced \subseteq Key

=============================================================================
