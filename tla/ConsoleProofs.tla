---------------------------- MODULE ConsoleProofs ----------------------------
(***************************************************************************)
(* The console: sessions and incident files, for any operators, keys,      *)
(* requests at the same time, challenges, files and events.                *)
(*                                                                         *)
(* What a request holds between two of its steps stays true: a challenge   *)
(* that is consumed is never fresh again, an answer is never replaced and  *)
(* a line never leaves the journal (Persist).  What it must not share with *)
(* another request is in Separate.                                         *)
(***************************************************************************)
EXTENDS Incidents, TLAPS

\* The requests that hold a consumed challenge.
Verifying(h) == pc[h] \in {"consumed", "read", "verified", "closing"}

-----------------------------------------------------------------------------
(* Types. *)

Label == {"idle", "presented", "consumed", "read", "verified", "closing",
          "opening", "adding", "answered"}
Job == [op : {None, "login", "close", "open", "add", "ask", "sign"},
        operator : Operator \cup {None}, challenge : 0 .. MaxChallenges,
        incident : 0 .. MaxIncidents, action : Action \cup {None},
        entry : 0 .. MaxEntries, last : Nat]
IncidentRow == [state : {"absent", "OUVERT", "CLOS"}, opened : Operator \cup {None},
                closed : Operator \cup {None}, note : 0 .. MaxChallenges]
EntryRow == [incident : 0 .. MaxIncidents, action : Action \cup {None},
             operator : Operator \cup {None}]
ClosureRow == [operator : Operator \cup {None}, key : Key \cup {None},
               challenge : 0 .. MaxChallenges]

TypeOK ==
    /\ SessionTypeOK
    /\ pc \in [Handler -> Label] /\ job \in [Handler -> Job]
    /\ incident \in [IncidentId -> IncidentRow]
    /\ entry \in [EntryId -> EntryRow]
    /\ closure \in [IncidentId -> ClosureRow]
    /\ action \in [Action -> {"absent", "open", "executed"}]

\* A row that is absent was never written; an answer is to a challenge.
Rows ==
    /\ \A c \in ChallengeId : /\ challenge[c].status = "absent" => challenge[c] = NoChallenge
                              /\ assertion[c] # None => challenge[c].status # "absent"
    /\ \A s \in SessionId : /\ session[s].status = "absent" => session[s] = NoSession
                            /\ session[s].status # "absent" => session[s].operator \in Operator

TypeInv == TypeOK /\ Rows

-----------------------------------------------------------------------------
(* Steps. *)

\* Neither the tables of the console nor its requests move.
Quiet == UNCHANGED <<challenge, assertion, session, counter, pc, job, raced, incidentVars, lines>>

\* Deadlines, logouts and the purge mark rows.
Marks ==
    /\ \A c \in ChallengeId :
          \/ challenge'[c] = challenge[c]
          \/ /\ challenge[c].status \in {"fresh", "over"}
             /\ \E x \in {"over", "purged"} : challenge'[c] = [challenge[c] EXCEPT !.status = x]
    /\ \A s \in SessionId :
          \/ session'[s] = session[s]
          \/ /\ session[s].status # "absent"
             /\ \E x \in {"idle", "over", "revoked", "purged"} :
                    session'[s] = [session[s] EXCEPT !.status = x]
    /\ challenge' \in [ChallengeId -> ChallengeRow] /\ session' \in [SessionId -> SessionRow]
    /\ UNCHANGED <<assertion, counter, pc, job, raced, incidentVars, lines>>

\* A challenge is offered.
Offers(c, row) ==
    /\ challenge[c] = NoChallenge
    /\ row \in ChallengeRow /\ row.status = "fresh"
    /\ challenge' = [challenge EXCEPT ![c] = row]
    /\ UNCHANGED <<assertion, session, counter, pc, job, raced, incidentVars, lines>>

\* A request verifies an answer, or is over.
Verifies(h) ==
    \/ \E c \in ChallengeId : LoginFinish(h, c)
    \/ OpenSession(h)
    \/ ReadKey(h)
    \/ Count(h)
    \/ ConsumeReassertion(h)
    \/ Fail(h)

\* A request works on files, or relays.
Files(h) ==
    \/ \E s \in SessionId : JournalOpening(h, s)
    \/ \E s \in SessionId, i \in IncidentId, a \in Action \cup {None} : JournalAdding(h, s, i, a)
    \/ \E s \in SessionId, i \in IncidentId, c \in ChallengeId : CheckClose(h, s, i, c)
    \/ InsertIncident(h)
    \/ InsertEntry(h)
    \/ JournalClosing(h)
    \/ CloseIncident(h)
    \/ JournalRelay(h)
    \/ \E s \in SessionId, op \in {"ask", "sign"}, a \in Action, taken \in {"open", "executed"} :
           Post(h, s, op, a, taken)

LEMMA NextChallenge ==
    ASSUME NEW c \in FreshChallenge
    PROVE  c \in ChallengeId /\ challenge[c] = NoChallenge
  BY DEF FreshChallenge, Next1

LEMMA SessionSteps ==
    ASSUME TypeInv, SessionNext, UNCHANGED <<incidentVars, lines, action>>
    PROVE  \/ Quiet \/ Marks
           \/ \E c \in ChallengeId : \E row : Offers(c, row) /\ row.kind = "login"
           \/ \E c \in ChallengeId, x \in Answers : Answer(c, x[1], x[2])
           \/ \E h \in Handler : Verifies(h)
<1>0. /\ challenge \in [ChallengeId -> ChallengeRow] /\ session \in [SessionId -> SessionRow]
  BY DEF TypeInv, TypeOK, SessionTypeOK
<1>1. ASSUME NEW k \in Key, RevokeKey(k) PROVE Quiet
  BY <1>1 DEF RevokeKey, Quiet
<1>2. ASSUME NEW o, NEW r, ChangeRole(o, r) PROVE Quiet
  BY <1>2 DEF ChangeRole, Quiet
<1>3. ASSUME NEW c \in ChallengeId, ChallengeExpires(c) PROVE Marks
  BY <1>0, <1>3 DEF ChallengeExpires, Marks, ChallengeRow
<1>4. ASSUME NEW s \in SessionId, SessionExpires(s) \/ Logout(s) PROVE Marks
  <2>1. /\ \E x \in {"idle", "over", "revoked"} :
               session' = [session EXCEPT ![s].status = x]
        /\ session[s].status # "absent"
        /\ UNCHANGED <<challenge, assertion, counter, pc, job, raced>>
    BY <1>4 DEF SessionExpires, Logout
  <2>2. session' \in [SessionId -> SessionRow]
    BY <1>0, <2>1 DEF SessionRow
  <2> QED  BY <1>0, <2>1, <2>2 DEF Marks
<1>5. CASE Purge
  <2>1. /\ \A c \in ChallengeId : challenge'[c] =
              IF challenge[c].status = "over" THEN [challenge[c] EXCEPT !.status = "purged"]
                                              ELSE challenge[c]
        /\ \A s \in SessionId : session'[s] =
              IF session[s].status = "over" THEN [session[s] EXCEPT !.status = "purged"]
                                            ELSE session[s]
        /\ challenge' = [c \in ChallengeId |-> challenge'[c]]
        /\ session' = [s \in SessionId |-> session'[s]]
        /\ UNCHANGED <<assertion, counter, pc, job, raced>>
    BY <1>5 DEF Purge, registry
  <2>2. \A c \in ChallengeId : challenge'[c] \in ChallengeRow
    BY <1>0, <2>1 DEF ChallengeRow
  <2>3. \A s \in SessionId : session'[s] \in SessionRow
    BY <1>0, <2>1 DEF SessionRow
  <2> QED  BY <2>1, <2>2, <2>3 DEF Marks
<1>6. ASSUME NEW o \in Operator \cup {None}, LoginBegin(o)
      PROVE  \E c \in ChallengeId : \E row : Offers(c, row) /\ row.kind = "login"
  <2> DEFINE known == o # None /\ ActiveKeys(o) # {}
             row == [status |-> "fresh", kind |-> "login", incident |-> 0,
                     operator |-> IF known THEN o ELSE None,
                     keys |-> IF known THEN ActiveKeys(o) ELSE {}]
  <2>1. PICK c \in FreshChallenge :
          /\ challenge' = [challenge EXCEPT ![c] = row]
          /\ UNCHANGED <<assertion, session, counter, pc, job, raced>>
    BY <1>6 DEF LoginBegin
  <2>2. row \in ChallengeRow /\ row.status = "fresh" /\ row.kind = "login"
    BY DEF ChallengeRow, ActiveKeys
  <2> HIDE DEF row
  <2> QED  BY <2>1, <2>2, NextChallenge DEF Offers
<1> QED  BY <1>1, <1>2, <1>3, <1>4, <1>5, <1>6
         DEF SessionNext, LoginBeginRoute, LoginFinishRoute, LogoutRoute, Verifies

LEMMA StepKinds ==
    ASSUME TypeInv, [Next]_vars
    PROVE  \/ Quiet \/ Marks
           \/ \E c \in ChallengeId : \E row : /\ Offers(c, row)
                                              /\ row.kind = "incident_close" =>
                                                     row.incident \in IncidentId
           \/ /\ \E c \in ChallengeId, x \in Answers : Answer(c, x[1], x[2])
              /\ UNCHANGED <<incidentVars, lines>>
           \/ (\E h \in Handler : Verifies(h)) /\ UNCHANGED <<incidentVars, lines>>
           \/ \E h \in Handler : Files(h)
<1>1. CASE UNCHANGED vars
  BY <1>1 DEF vars, sessionVars, Quiet
<1>2. CASE SessionNext /\ UNCHANGED <<incidentVars, lines, action>>
  BY <1>2, SessionSteps
<1>3. ASSUME NEW s \in SessionId, NEW i \in IncidentId, BeginClose(s, i)
      PROVE  \E c \in ChallengeId : \E row : Offers(c, row) /\ row.incident \in IncidentId
  <2> DEFINE o == session[s].operator
             row == [status |-> "fresh", kind |-> "incident_close", incident |-> i,
                     operator |-> o, keys |-> ActiveKeys(o)]
  <2>1. PICK c \in FreshChallenge :
          /\ challenge' = [challenge EXCEPT ![c] = row]
          /\ UNCHANGED <<assertion, session, counter, pc, job, raced, incidentVars, lines>>
    BY <1>3 DEF BeginClose, Reassert
  <2>2. o \in Operator
    BY <1>3 DEF BeginClose, Writable, Writer, Authenticated, TypeInv, Rows
  <2>3. row \in ChallengeRow /\ row.status = "fresh" /\ row.incident \in IncidentId
    BY <2>2, IncidentsAssumption DEF ChallengeRow, ActiveKeys, IncidentId
  <2> HIDE DEF row, o
  <2> QED  BY <2>1, <2>3, NextChallenge DEF Offers
<1>4. CASE CloseChallengeRoute
  BY <1>3, <1>4 DEF CloseChallengeRoute
<1>5. ASSUME NEW h \in Handler, OpenRoute(h) \/ AddRoute(h) \/ CloseRoute(h) PROVE Files(h)
  BY <1>5 DEF OpenRoute, AddRoute, CloseRoute, JournalNote, JournalLink, Files
<1>6. ASSUME NEW h \in Handler, RelayRoutes(h) PROVE Files(h)
  BY <1>6 DEF RelayRoutes, PostChallenge, PostDecision, PostSignature, RelayAssertion, Files
<1> QED  BY <1>1, <1>2, <1>4, <1>5, <1>6 DEF Next

-----------------------------------------------------------------------------
(* What a request holds. *)

\* A request that presented an answer works on a challenge of its operator.
HoldsAnswer(h) ==
    LET c == job[h].challenge
        o == job[h].operator
    IN  /\ c \in ChallengeId /\ o \in Operator /\ assertion[c] # None
        /\ challenge[c].operator = o
        /\ \/ /\ job[h].op = "login" /\ challenge[c].kind = "login"
              /\ pc[h] \notin {"presented", "closing"}
           \/ /\ job[h].op = "close" /\ challenge[c].kind = "incident_close"
              /\ job[h].incident \in IncidentId /\ challenge[c].incident = job[h].incident
        /\ pc[h] # "presented" => challenge[c].status = "consumed"
        /\ pc[h] \in {"read", "verified", "closing"} => Owner[assertion[c].key] = o
        /\ pc[h] \in {"verified", "closing"} => assertion[c].key \in challenge[c].keys
        /\ pc[h] = "closing" => Closing(job[h].incident, o, assertion[c].key, c) \in lines

\* A request that opens a file or adds to one has written its line.
HoldsLine(h) ==
    LET i == job[h].incident
        o == job[h].operator
    IN  /\ i \in IncidentId /\ o \in Operator
        /\ pc[h] = "opening" => Opening(i, o) \in lines
        /\ pc[h] = "adding" => /\ job[h].entry \in EntryId
                               /\ Adding(job[h].entry, i, o, job[h].action) \in lines

JobOK(h) ==
    /\ Verifying(h) \/ pc[h] = "presented" => HoldsAnswer(h)
    /\ pc[h] \in {"opening", "adding"} => HoldsLine(h)

\* Answers, lines and consumed challenges are there for good; a challenge keeps
\* what it was offered for.
Persist ==
    /\ \A c \in ChallengeId :
          /\ assertion[c] # None => assertion'[c] = assertion[c]
          /\ challenge[c].status # "absent" =>
                 /\ challenge'[c].status # "absent"
                 /\ challenge'[c].kind = challenge[c].kind
                 /\ challenge'[c].operator = challenge[c].operator
                 /\ challenge'[c].keys = challenge[c].keys
                 /\ challenge'[c].incident = challenge[c].incident
          /\ challenge[c].status = "consumed" => challenge'[c].status = "consumed"
    /\ lines \subseteq lines'

LEMMA Persists ==
    ASSUME TypeInv, [Next]_vars
    PROVE  Persist
<1>0. challenge \in [ChallengeId -> ChallengeRow]
  BY DEF TypeInv, TypeOK, SessionTypeOK
<1>1. CASE Quiet
  BY <1>1 DEF Quiet, Persist
<1>2. CASE Marks
  BY <1>0, <1>2 DEF Marks, Persist, ChallengeRow
<1>3. ASSUME NEW c \in ChallengeId, NEW row, Offers(c, row) PROVE Persist
  BY <1>0, <1>3 DEF Offers, Persist, NoChallenge
<1>4. ASSUME NEW c \in ChallengeId, NEW k, NEW n, Answer(c, k, n), UNCHANGED lines PROVE Persist
  BY <1>0, <1>4 DEF Answer, Persist, TypeInv, TypeOK, SessionTypeOK
<1>5. ASSUME NEW h \in Handler, Verifies(h), UNCHANGED lines PROVE Persist
  <2>1. /\ UNCHANGED assertion
        /\ \/ UNCHANGED challenge
           \/ \E c \in ChallengeId : /\ challenge[c].status # "absent"
                                     /\ challenge' = [challenge EXCEPT ![c].status = "consumed"]
           \/ /\ challenge[job[h].challenge].status \in {"fresh", "over"}
              /\ challenge' = [challenge EXCEPT ![job[h].challenge].status = "consumed"]
    BY <1>5 DEF Verifies, LoginFinish, OpenSession, ReadKey, Count, ConsumeReassertion, Fail
  <2> QED  BY <1>0, <1>5, <2>1 DEF Persist, ChallengeRow
<1>6. ASSUME NEW h \in Handler, Files(h) PROVE Persist
  BY <1>6 DEF Files, JournalOpening, JournalAdding, CheckClose, Presented, InsertIncident,
              InsertEntry, JournalClosing, CloseIncident, JournalRelay, Post, Persist
<1> QED  BY <1>1, <1>2, <1>3, <1>4, <1>5, <1>6, StepKinds

LEMMA JobsPersist ==
    ASSUME TypeInv, Persist, NEW h \in Handler, JobOK(h), pc'[h] = pc[h], job'[h] = job[h]
    PROVE  JobOK(h)'
<1>1. CASE Verifying(h) \/ pc[h] = "presented"
  <2>1. HoldsAnswer(h)
    BY <1>1 DEF JobOK
  <2>2. challenge[job[h].challenge].status # "absent"
    BY <2>1 DEF HoldsAnswer, TypeInv, Rows
  <2>3. HoldsAnswer(h)'
    BY <2>1, <2>2 DEF HoldsAnswer, Persist
  <2> QED  BY <1>1, <2>3 DEF JobOK, Verifying
<1>2. CASE ~ (Verifying(h) \/ pc[h] = "presented")
  BY <1>2 DEF JobOK, Verifying, HoldsLine, Persist
<1> QED  BY <1>1, <1>2

-----------------------------------------------------------------------------
(* Types are kept. *)

LEMMA RegistryTypes ==
    ASSUME TypeOK, [Next]_vars
    PROVE  /\ role' \in [Operator -> Role] /\ revoked' \subseteq Key /\ events' \in 0 .. MaxEvents
           /\ action' \in [Action -> {"absent", "open", "executed"}]
<1>0. /\ role \in [Operator -> Role] /\ revoked \subseteq Key /\ events \in 0 .. MaxEvents
      /\ action \in [Action -> {"absent", "open", "executed"}] /\ MaxEvents \in Nat
  BY ConsoleAssumption DEF TypeOK, SessionTypeOK
<1>1. CASE UNCHANGED vars
  BY <1>0, <1>1 DEF vars, sessionVars, registry
<1>2. ASSUME Event PROVE events' \in 0 .. MaxEvents
  BY <1>0, <1>2 DEF Event
<1>3. ASSUME NEW x \in RoleChanges, ChangeRole(x[1], x[2])
      PROVE  role' \in [Operator -> Role] /\ UNCHANGED revoked /\ events' \in 0 .. MaxEvents
  BY <1>0, <1>2, <1>3, ConsoleAssumption DEF ChangeRole
<1>4. ASSUME SessionNext, ~ \E x \in RoleChanges : ChangeRole(x[1], x[2])
      PROVE  UNCHANGED role /\ revoked' \subseteq Key /\ events' \in 0 .. MaxEvents
  BY <1>0, <1>2, <1>4
     DEF SessionNext, RevokeKey, Answer, ChallengeExpires, SessionExpires, LoginBeginRoute,
         LoginBegin, LogoutRoute, Logout, LoginFinishRoute, LoginFinish, OpenSession, ReadKey,
         Count, ConsumeReassertion, Fail, Purge, registry
<1>5. ASSUME NEW h \in Handler, NEW s, NEW a \in Action,
             PostChallenge(h, s, a) \/ PostDecision(h, s, a) \/ PostSignature(h, s, a)
      PROVE  /\ UNCHANGED <<role, revoked>> /\ events' \in 0 .. MaxEvents
             /\ action' \in [Action -> {"absent", "open", "executed"}]
  BY <1>0, <1>2, <1>5 DEF PostChallenge, PostDecision, PostSignature, RelayAssertion, Post
<1>6. ASSUME NEW h \in Handler,
             OpenRoute(h) \/ AddRoute(h) \/ CloseRoute(h) \/ JournalRelay(h) \/ CloseChallengeRoute
      PROVE  UNCHANGED <<registry, action>>
  BY <1>6 DEF OpenRoute, JournalOpening, InsertIncident, AddRoute, JournalNote, JournalLink,
              JournalAdding, InsertEntry, CloseRoute, CheckClose, Presented, JournalClosing,
              CloseIncident, JournalRelay, CloseChallengeRoute, BeginClose, Reassert
<1>7. CASE CloseChallengeRoute
  BY <1>0, <1>7 DEF CloseChallengeRoute, BeginClose, Reassert, registry
<1> QED  BY <1>0, <1>1, <1>3, <1>4, <1>5, <1>6, <1>7 DEF Next, RelayRoutes, registry

LEMMA AnswerTypes ==
    ASSUME TypeInv, NEW c \in ChallengeId, NEW x \in Answers, Answer(c, x[1], x[2])
    PROVE  assertion' \in [ChallengeId -> AssertionRow \cup {None}]
<1>1. x[1] \in Key /\ x[2] \in Nat
  BY ConsoleAssumption
<1> QED  BY <1>1 DEF Answer, TypeInv, TypeOK, SessionTypeOK, AssertionRow

\* A request that begins or ends.
LEMMA JobTypes ==
    /\ NoJob \in Job
    /\ \A j \in Job : \A n \in Nat : [j EXCEPT !.last = n] \in Job
    /\ \A o \in Operator, c \in ChallengeId :
          [NoJob EXCEPT !.op = "login", !.challenge = c, !.operator = o] \in Job
    /\ \A o \in Operator, c \in ChallengeId, i \in IncidentId :
          [NoJob EXCEPT !.op = "close", !.challenge = c, !.operator = o, !.incident = i] \in Job
    /\ \A o \in Operator, i \in IncidentId :
          [NoJob EXCEPT !.op = "open", !.incident = i, !.operator = o] \in Job
    /\ \A o \in Operator, i \in IncidentId, e \in EntryId, a \in Action \cup {None} :
          [NoJob EXCEPT !.op = "add", !.incident = i, !.action = a, !.entry = e,
                        !.operator = o] \in Job
    /\ \A o \in Operator, p \in {"ask", "sign"}, a \in Action :
          [NoJob EXCEPT !.op = p, !.action = a, !.operator = o] \in Job
<1>1. /\ 0 \in 0 .. MaxChallenges /\ ChallengeId \subseteq 0 .. MaxChallenges
      /\ 0 \in 0 .. MaxIncidents /\ IncidentId \subseteq 0 .. MaxIncidents
      /\ 0 \in 0 .. MaxEntries /\ EntryId \subseteq 0 .. MaxEntries
  BY ConsoleAssumption, IncidentsAssumption DEF ChallengeId, IncidentId, EntryId
<1>2. NoJob \in Job
  BY <1>1 DEF Job, NoJob
<1>3. \A j \in Job : \A n \in Nat : [j EXCEPT !.last = n] \in Job
  BY DEF Job
<1>4. \A o \in Operator, c \in ChallengeId :
          [NoJob EXCEPT !.op = "login", !.challenge = c, !.operator = o] \in Job
  BY <1>1, <1>2 DEF Job, NoJob
<1>5. \A o \in Operator, c \in ChallengeId, i \in IncidentId :
          [NoJob EXCEPT !.op = "close", !.challenge = c, !.operator = o, !.incident = i] \in Job
  BY <1>1, <1>2 DEF Job, NoJob
<1>6. \A o \in Operator, i \in IncidentId :
          [NoJob EXCEPT !.op = "open", !.incident = i, !.operator = o] \in Job
  BY <1>1, <1>2 DEF Job, NoJob
<1>7. \A o \in Operator, i \in IncidentId, e \in EntryId, a \in Action \cup {None} :
          [NoJob EXCEPT !.op = "add", !.incident = i, !.action = a, !.entry = e,
                        !.operator = o] \in Job
  BY <1>1, <1>2 DEF Job, NoJob
<1>8. \A o \in Operator, p \in {"ask", "sign"}, a \in Action :
          [NoJob EXCEPT !.op = p, !.action = a, !.operator = o] \in Job
  BY <1>1, <1>2 DEF Job
<1> QED  BY <1>2, <1>3, <1>4, <1>5, <1>6, <1>7, <1>8

\* A key that answers the challenge of a request, and its counter.
LEMMA KeyTypes ==
    ASSUME TypeInv, NEW h \in Handler, HoldsAnswer(h)
    PROVE  LET c == job[h].challenge
           IN  /\ assertion[c].key \in Key /\ assertion[c].counter \in Nat
               /\ job[h] \in Job /\ challenge[c] \in ChallengeRow
               /\ challenge[c].keys \subseteq Key
  BY DEF HoldsAnswer, TypeInv, TypeOK, SessionTypeOK, AssertionRow, ChallengeRow

-----------------------------------------------------------------------------
(* The requests go on. *)

\* Request h is at a label with what it then holds; the other requests stay.
GoesTo(h, label, j) ==
    /\ label \in Label /\ j \in Job
    /\ pc' = [pc EXCEPT ![h] = label] /\ job' = [job EXCEPT ![h] = j]

LEMMA Ends ==
    ASSUME TypeInv, NEW h \in Handler, Over(h)
    PROVE  GoesTo(h, "idle", NoJob) /\ JobOK(h)'
<1>1. GoesTo(h, "idle", NoJob)
  BY JobTypes DEF Over, GoesTo, Label
<1>2. pc'[h] = "idle"
  BY <1>1 DEF GoesTo, TypeInv, TypeOK
<1> QED  BY <1>1, <1>2 DEF JobOK, Verifying

LEMMA Goes ==
    ASSUME TypeInv, NEW h \in Handler, NEW label, NEW j, GoesTo(h, label, j)
    PROVE  pc'[h] = label /\ job'[h] = j
  BY DEF GoesTo, TypeInv, TypeOK

LEMMA VerifyingJobs ==
    ASSUME TypeInv, NEW h \in Handler, JobOK(h), Persist, Verifies(h), UNCHANGED lines
    PROVE  (\E l, j : GoesTo(h, l, j)) /\ JobOK(h)'
<1>0. /\ challenge \in [ChallengeId -> ChallengeRow] /\ counter \in [Key -> Nat]
      /\ None \notin Operator
  BY ConsoleAssumption DEF TypeInv, TypeOK, SessionTypeOK
<1>1. ASSUME NEW c \in ChallengeId, LoginFinish(h, c), ~ Over(h)
      PROVE  (\E l, j : GoesTo(h, l, j)) /\ JobOK(h)'
  <2> DEFINE o == challenge[c].operator
             j == [NoJob EXCEPT !.op = "login", !.challenge = c, !.operator = o]
  <2>1. /\ assertion[c] # None /\ challenge[c].status = "fresh" /\ challenge[c].kind = "login"
        /\ challenge' = [challenge EXCEPT ![c].status = "consumed"]
        /\ o # None /\ At(h, "consumed", j) /\ UNCHANGED assertion
    BY <1>1 DEF LoginFinish
  <2>2. o \in Operator
    BY <1>0, <2>1 DEF ChallengeRow
  <2>3. GoesTo(h, "consumed", j)
    BY <2>1, <2>2, JobTypes DEF At, GoesTo, Label
  <2>4. pc'[h] = "consumed" /\ job'[h] = j
    BY <2>3, Goes
  <2>5. j.challenge = c /\ j.operator = o /\ j.op = "login"
    BY DEF NoJob
  <2>6. challenge'[c].status = "consumed" /\ challenge'[c].operator = o /\ challenge'[c].kind = "login"
    BY <1>0, <2>1 DEF ChallengeRow
  <2> HIDE DEF j, o
  <2> QED  BY <2>1, <2>2, <2>3, <2>4, <2>5, <2>6 DEF JobOK, Verifying, HoldsAnswer
<1>2. CASE ReadKey(h)
  <2> DEFINE k == assertion[job[h].challenge].key
             j == [job[h] EXCEPT !.last = counter[k]]
  <2>1. /\ pc[h] = "consumed" /\ Owner[k] = job[h].operator /\ At(h, "read", j)
        /\ UNCHANGED <<challenge, assertion>>
    BY <1>2 DEF ReadKey
  <2>2. HoldsAnswer(h)
    BY <2>1 DEF JobOK, Verifying
  <2>3. k \in Key /\ job[h] \in Job
    BY <2>2, KeyTypes
  <2>4. j \in Job /\ j.op = job[h].op /\ j.challenge = job[h].challenge
        /\ j.operator = job[h].operator /\ j.incident = job[h].incident
    <3>1. counter[k] \in Nat
      BY <1>0, <2>3
    <3>2. j \in Job
      BY <2>3, <3>1, JobTypes
    <3> HIDE DEF k
    <3> QED  BY <2>3, <3>2 DEF Job
  <2>5. GoesTo(h, "read", j)
    BY <2>1, <2>4 DEF At, GoesTo, Label
  <2>6. pc'[h] = "read" /\ job'[h] = j
    BY <2>5, Goes
  <2> HIDE DEF j
  <2> QED  BY <2>1, <2>2, <2>4, <2>5, <2>6 DEF JobOK, Verifying, HoldsAnswer
<1>3. CASE Count(h) \/ ConsumeReassertion(h)
  <2>1. /\ \/ pc[h] = "read" /\ At(h, "verified", job[h]) /\ UNCHANGED challenge
              /\ assertion[job[h].challenge].key \in challenge[job[h].challenge].keys
           \/ /\ pc[h] = "presented" /\ At(h, "consumed", job[h])
              /\ challenge' = [challenge EXCEPT ![job[h].challenge].status = "consumed"]
        /\ UNCHANGED assertion
    BY <1>3 DEF Count, ConsumeReassertion
  <2>2. HoldsAnswer(h) /\ job[h] \in Job
    BY <2>1 DEF JobOK, Verifying, TypeInv, TypeOK
  <2>3. \E l \in {"verified", "consumed"} : GoesTo(h, l, job[h])
    BY <2>1, <2>2 DEF At, GoesTo, Label
  <2>4. job'[h] = job[h] /\ (pc[h] = "read" => pc'[h] = "verified")
        /\ (pc[h] = "presented" => pc'[h] = "consumed")
    BY <2>1 DEF At, TypeInv, TypeOK
  <2>5. /\ pc[h] = "presented" => challenge'[job[h].challenge].status = "consumed"
        /\ challenge'[job[h].challenge].kind = challenge[job[h].challenge].kind
        /\ challenge'[job[h].challenge].operator = challenge[job[h].challenge].operator
        /\ challenge'[job[h].challenge].incident = challenge[job[h].challenge].incident
        /\ challenge'[job[h].challenge].keys = challenge[job[h].challenge].keys
    BY <1>0, <2>1, <2>2 DEF HoldsAnswer, ChallengeRow
  <2>6. HoldsAnswer(h)'
    BY <2>1, <2>2, <2>4, <2>5 DEF HoldsAnswer
  <2> QED  BY <2>1, <2>3, <2>4, <2>6 DEF JobOK, Verifying
<1>4. CASE Over(h)
  BY <1>4, Ends
<1> QED  BY <1>1, <1>2, <1>3, <1>4 DEF Verifies, OpenSession, Fail

LEMMA FilesJobs ==
    ASSUME TypeInv, NEW h \in Handler, JobOK(h), Persist, Files(h)
    PROVE  /\ (UNCHANGED <<pc, job>>) \/ \E l, j : GoesTo(h, l, j)
           /\ JobOK(h)'
<1>1. ASSUME NEW s \in SessionId, JournalOpening(h, s)
      PROVE  (\E l, j : GoesTo(h, l, j)) /\ JobOK(h)'
  <2> DEFINE o == session[s].operator
  <2>1. PICK i \in FreshIncident :
          /\ Authenticated(s) /\ lines' = lines \cup {Opening(i, o)}
          /\ At(h, "opening", [NoJob EXCEPT !.op = "open", !.incident = i, !.operator = o])
    BY <1>1 DEF JournalOpening, Writer
  <2> DEFINE j == [NoJob EXCEPT !.op = "open", !.incident = i, !.operator = o]
  <2>2. o \in Operator /\ i \in IncidentId
    BY <2>1 DEF Authenticated, TypeInv, Rows, FreshIncident
  <2>3. GoesTo(h, "opening", j)
    BY <2>1, <2>2, JobTypes DEF At, GoesTo, Label
  <2>4. pc'[h] = "opening" /\ job'[h] = j
    BY <2>3, Goes
  <2>5. j.incident = i /\ j.operator = o
    BY DEF NoJob
  <2> HIDE DEF j, o
  <2> QED  BY <2>1, <2>2, <2>3, <2>4, <2>5 DEF JobOK, Verifying, HoldsLine
<1>2. ASSUME NEW s \in SessionId, NEW i \in IncidentId, NEW a \in Action \cup {None},
             JournalAdding(h, s, i, a)
      PROVE  (\E l, j : GoesTo(h, l, j)) /\ JobOK(h)'
  <2> DEFINE o == session[s].operator
  <2>1. PICK e \in FreshEntry :
          /\ Authenticated(s) /\ lines' = lines \cup {Adding(e, i, o, a)}
          /\ At(h, "adding", [NoJob EXCEPT !.op = "add", !.incident = i, !.action = a,
                                           !.entry = e, !.operator = o])
    BY <1>2 DEF JournalAdding, Writable, Writer
  <2> DEFINE j == [NoJob EXCEPT !.op = "add", !.incident = i, !.action = a, !.entry = e,
                                !.operator = o]
  <2>2. o \in Operator /\ e \in EntryId
    BY <2>1 DEF Authenticated, TypeInv, Rows, FreshEntry
  <2>3. GoesTo(h, "adding", j)
    BY <2>1, <2>2, JobTypes DEF At, GoesTo, Label
  <2>4. pc'[h] = "adding" /\ job'[h] = j
    BY <2>3, Goes
  <2>5. j.incident = i /\ j.operator = o /\ j.entry = e /\ j.action = a
    BY DEF NoJob
  <2> HIDE DEF j, o
  <2> QED  BY <2>1, <2>2, <2>3, <2>4, <2>5 DEF JobOK, Verifying, HoldsLine
<1>3. ASSUME NEW s \in SessionId, NEW i \in IncidentId, NEW c \in ChallengeId, CheckClose(h, s, i, c)
      PROVE  (\E l, j : GoesTo(h, l, j)) /\ JobOK(h)'
  <2> DEFINE o == session[s].operator
             j == [NoJob EXCEPT !.op = "close", !.challenge = c, !.operator = o, !.incident = i]
  <2>1. /\ Authenticated(s) /\ assertion[c] # None /\ challenge[c].kind = "incident_close"
        /\ challenge[c].operator = o /\ challenge[c].incident = i
        /\ At(h, "presented", j) /\ UNCHANGED <<challenge, assertion>>
    BY <1>3 DEF CheckClose, Presented, Writable, Writer
  <2>2. o \in Operator
    BY <2>1 DEF Authenticated, TypeInv, Rows
  <2>3. GoesTo(h, "presented", j)
    BY <2>1, <2>2, JobTypes DEF At, GoesTo, Label
  <2>4. pc'[h] = "presented" /\ job'[h] = j
    BY <2>3, Goes
  <2>5. j.incident = i /\ j.operator = o /\ j.challenge = c /\ j.op = "close"
    BY DEF NoJob
  <2> HIDE DEF j, o
  <2> QED  BY <2>1, <2>2, <2>3, <2>4, <2>5 DEF JobOK, Verifying, HoldsAnswer
<1>4. CASE JournalClosing(h)
  <2>1. /\ pc[h] = "verified" /\ job[h].op = "close" /\ At(h, "closing", job[h])
        /\ lines' = lines \cup {Closing(job[h].incident, job[h].operator,
                                        assertion[job[h].challenge].key, job[h].challenge)}
        /\ UNCHANGED <<challenge, assertion>>
    BY <1>4 DEF JournalClosing
  <2>2. HoldsAnswer(h) /\ job[h] \in Job
    BY <2>1 DEF JobOK, Verifying, TypeInv, TypeOK
  <2>3. GoesTo(h, "closing", job[h])
    BY <2>1, <2>2 DEF At, GoesTo, Label
  <2>4. pc'[h] = "closing" /\ job'[h] = job[h]
    BY <2>3, Goes
  <2> QED  BY <2>1, <2>2, <2>3, <2>4 DEF JobOK, Verifying, HoldsAnswer
<1>5. ASSUME NEW s \in SessionId, NEW op \in {"ask", "sign"}, NEW a \in Action, NEW taken, Post(h, s, op, a, taken)
      PROVE  /\ (UNCHANGED <<pc, job>>) \/ \E l, j : GoesTo(h, l, j)
             /\ JobOK(h)'
  <2>1. CASE UNCHANGED <<pc, job>>
    BY <2>1, JobsPersist
  <2>2. CASE ~ UNCHANGED <<pc, job>>
    <3> DEFINE j == [NoJob EXCEPT !.op = op, !.action = a, !.operator = session[s].operator]
    <3>1. Authenticated(s) /\ At(h, "answered", j)
      BY <1>5, <2>2 DEF Post
    <3>2. session[s].operator \in Operator
      BY <3>1 DEF Authenticated, TypeInv, Rows
    <3>3. GoesTo(h, "answered", j)
      BY <3>1, <3>2, JobTypes DEF At, GoesTo, Label
    <3>4. pc'[h] = "answered"
      BY <3>3, Goes
    <3> QED  BY <3>3, <3>4 DEF JobOK, Verifying
  <2> QED  BY <2>1, <2>2
<1>6. CASE Over(h)
  BY <1>6, Ends
<1> QED  BY <1>1, <1>2, <1>3, <1>4, <1>5, <1>6
         DEF Files, InsertIncident, InsertEntry, CloseIncident, JournalRelay

JobsOK == \A h \in Handler : JobOK(h)

LEMMA OneGoes ==
    ASSUME TypeInv, JobsOK, Persist, NEW h \in Handler, JobOK(h)',
           UNCHANGED <<pc, job>> \/ \E l, j : GoesTo(h, l, j)
    PROVE  /\ pc' \in [Handler -> Label] /\ job' \in [Handler -> Job]
           /\ JobsOK'
<1>1. pc \in [Handler -> Label] /\ job \in [Handler -> Job]
  BY DEF TypeInv, TypeOK
<1>2. ASSUME NEW g \in Handler PROVE JobOK(g)'
  <2>1. CASE g = h
    BY <2>1
  <2>2. CASE g # h
    <3>1. pc'[g] = pc[g] /\ job'[g] = job[g]
      BY <1>1, <2>2 DEF GoesTo
    <3> QED  BY <3>1, JobsPersist DEF JobsOK
  <2> QED  BY <2>1, <2>2
<1> QED  BY <1>1, <1>2 DEF GoesTo, JobsOK

LEMMA JobsStep ==
    ASSUME TypeInv, JobsOK, [Next]_vars
    PROVE  /\ pc' \in [Handler -> Label] /\ job' \in [Handler -> Job]
           /\ JobsOK'
<1>1. Persist
  BY Persists
<1>2. CASE UNCHANGED <<pc, job>>
  <2>1. \A h \in Handler : JobOK(h)'
    BY <1>1, <1>2, JobsPersist DEF JobsOK
  <2> QED  BY <1>2, <2>1 DEF JobsOK, TypeInv, TypeOK
<1>3. ASSUME NEW h \in Handler, Verifies(h), UNCHANGED <<incidentVars, lines>>
      PROVE  /\ pc' \in [Handler -> Label] /\ job' \in [Handler -> Job]
             /\ JobsOK'
  BY <1>1, <1>3, VerifyingJobs, OneGoes DEF JobsOK
<1>4. ASSUME NEW h \in Handler, Files(h)
      PROVE  /\ pc' \in [Handler -> Label] /\ job' \in [Handler -> Job]
             /\ JobsOK'
  BY <1>1, <1>4, FilesJobs, OneGoes DEF JobsOK
<1> QED  BY <1>2, <1>3, <1>4, StepKinds DEF Quiet, Marks, Offers, Answer

LEMMA TablesStep ==
    ASSUME TypeInv, JobsOK, [Next]_vars
    PROVE  /\ challenge' \in [ChallengeId -> ChallengeRow]
           /\ assertion' \in [ChallengeId -> AssertionRow \cup {None}]
           /\ session' \in [SessionId -> SessionRow]
           /\ counter' \in [Key -> Nat] /\ raced' \subseteq Key
           /\ Rows'
<1>0. /\ challenge \in [ChallengeId -> ChallengeRow] /\ session \in [SessionId -> SessionRow]
      /\ assertion \in [ChallengeId -> AssertionRow \cup {None}]
      /\ counter \in [Key -> Nat] /\ raced \subseteq Key /\ Rows
  BY DEF TypeInv, TypeOK, SessionTypeOK
<1>1. CASE UNCHANGED <<challenge, assertion, session, counter, raced>>
  BY <1>0, <1>1 DEF Rows
<1>2. CASE Marks
  <2>1. \A c \in ChallengeId : challenge'[c].status = "absent" => challenge'[c] = challenge[c]
    BY <1>0, <1>2 DEF Marks, ChallengeRow
  <2>2. \A c \in ChallengeId : challenge[c].status # "absent" => challenge'[c].status # "absent"
    BY <1>0, <1>2 DEF Marks, ChallengeRow
  <2>3. \A s \in SessionId : /\ session'[s].status = "absent" => session'[s] = session[s]
                             /\ session'[s].operator = session[s].operator
                             /\ session[s].status = "absent" => session'[s] = session[s]
    BY <1>0, <1>2 DEF Marks, SessionRow
  <2> QED  BY <1>0, <1>2, <2>1, <2>2, <2>3 DEF Marks, Rows
<1>3. ASSUME NEW c \in ChallengeId, NEW row, Offers(c, row)
      PROVE  challenge' \in [ChallengeId -> ChallengeRow] /\ Rows'
  BY <1>0, <1>3 DEF Offers, Rows
<1>4. ASSUME NEW c \in ChallengeId, NEW x \in Answers, Answer(c, x[1], x[2])
      PROVE  assertion' \in [ChallengeId -> AssertionRow \cup {None}] /\ Rows'
  <2>1. Rows'
    BY <1>0, <1>4 DEF Answer, Rows
  <2> QED  BY <1>4, <2>1, AnswerTypes
<1>5. ASSUME NEW h \in Handler, Verifies(h)
      PROVE  /\ challenge' \in [ChallengeId -> ChallengeRow]
             /\ assertion' \in [ChallengeId -> AssertionRow \cup {None}]
             /\ session' \in [SessionId -> SessionRow]
             /\ counter' \in [Key -> Nat] /\ raced' \subseteq Key
             /\ Rows'
  <2> DEFINE d == job[h].challenge
  <2>1. CASE (\E c \in ChallengeId : LoginFinish(h, c)) \/ ConsumeReassertion(h)
    <3>1. \E c \in ChallengeId : /\ challenge[c].status # "absent"
                                 /\ challenge' = [challenge EXCEPT ![c].status = "consumed"]
      <4>1. CASE ConsumeReassertion(h)
        <5>1. d \in ChallengeId
          BY <4>1 DEF ConsumeReassertion, JobsOK, JobOK, HoldsAnswer
        <5> QED  BY <4>1, <5>1 DEF ConsumeReassertion
      <4>2. ASSUME NEW c \in ChallengeId, LoginFinish(h, c)
            PROVE  /\ challenge[c].status # "absent"
                   /\ challenge' = [challenge EXCEPT ![c].status = "consumed"]
        BY <4>2 DEF LoginFinish
      <4> QED  BY <2>1, <4>1, <4>2
    <3>2. UNCHANGED <<assertion, session, counter, raced>>
      BY <2>1 DEF LoginFinish, ConsumeReassertion
    <3>3. challenge' \in [ChallengeId -> ChallengeRow] /\ \A c \in ChallengeId :
              /\ challenge'[c].status = "absent" => challenge'[c] = challenge[c]
              /\ challenge[c].status # "absent" => challenge'[c].status # "absent"
      BY <1>0, <3>1 DEF ChallengeRow
    <3> QED  BY <1>0, <3>2, <3>3 DEF Rows
  <2>2. CASE Count(h)
    <3>1. /\ counter' = [counter EXCEPT ![assertion[d].key] = assertion[d].counter]
          /\ raced' \in {raced, raced \cup {assertion[d].key}}
          /\ UNCHANGED <<challenge, assertion, session>> /\ pc[h] = "read"
      BY <2>2 DEF Count
    <3>2. assertion[d].key \in Key /\ assertion[d].counter \in Nat
      BY <3>1, KeyTypes DEF JobsOK, JobOK, Verifying
    <3> QED  BY <1>0, <3>1, <3>2 DEF Rows
  <2>3. CASE OpenSession(h)
    <3>1. PICK s \in FreshSession : /\ pc[h] = "verified" /\ UNCHANGED <<challenge, assertion, counter, raced>>
                                    /\ session' = [session EXCEPT ![s] =
                                         [status |-> "open", operator |-> job[h].operator,
                                          key |-> assertion[d].key, challenge |-> d]]
      BY <2>3 DEF OpenSession
    <3>2. s \in SessionId /\ assertion[d].key \in Key /\ job[h].operator \in Operator
          /\ d \in 0 .. MaxChallenges
      BY <3>1, KeyTypes DEF FreshSession, Next1, JobsOK, JobOK, Verifying, HoldsAnswer, Job
    <3>3. [status |-> "open", operator |-> job[h].operator, key |-> assertion[d].key,
           challenge |-> d] \in SessionRow
      BY <3>2 DEF SessionRow
    <3> QED  BY <1>0, <3>1, <3>2, <3>3 DEF Rows
  <2>4. CASE ReadKey(h) \/ Fail(h)
    BY <1>1, <2>4 DEF ReadKey, Fail
  <2> QED  BY <1>5, <2>1, <2>2, <2>3, <2>4 DEF Verifies
<1>6. ASSUME NEW h \in Handler, Files(h)
      PROVE  UNCHANGED <<challenge, assertion, session, counter, raced>>
  BY <1>6 DEF Files, JournalOpening, JournalAdding, CheckClose, Presented, InsertIncident,
              InsertEntry, JournalClosing, CloseIncident, JournalRelay, Post
<1>7. CASE Quiet
  BY <1>1, <1>7 DEF Quiet
<1>8. CASE \E c \in ChallengeId : \E row : Offers(c, row)
  BY <1>0, <1>3, <1>8 DEF Offers
<1>9. CASE \E c \in ChallengeId, x \in Answers : Answer(c, x[1], x[2])
  BY <1>0, <1>4, <1>9 DEF Answer
<1>10. CASE Marks
  BY <1>0, <1>2, <1>10 DEF Marks
<1> QED  BY <1>1, <1>5, <1>6, <1>7, <1>8, <1>9, <1>10, StepKinds

LEMMA FileTypes ==
    ASSUME TypeInv, JobsOK, [Next]_vars
    PROVE  /\ incident' \in [IncidentId -> IncidentRow] /\ entry' \in [EntryId -> EntryRow]
           /\ closure' \in [IncidentId -> ClosureRow]
<1>0. /\ incident \in [IncidentId -> IncidentRow] /\ entry \in [EntryId -> EntryRow]
      /\ closure \in [IncidentId -> ClosureRow] /\ job \in [Handler -> Job]
      /\ 0 \in 0 .. MaxChallenges
  BY ConsoleAssumption DEF TypeInv, TypeOK
<1>1. CASE UNCHANGED incidentVars
  BY <1>0, <1>1 DEF incidentVars
<1>2. ASSUME NEW h \in Handler, InsertIncident(h) \/ InsertEntry(h)
      PROVE  /\ incident' \in [IncidentId -> IncidentRow] /\ entry' \in [EntryId -> EntryRow]
             /\ UNCHANGED closure
  BY <1>0, <1>2 DEF InsertIncident, InsertEntry, Job, IncidentRow, EntryRow
<1>3. ASSUME NEW h \in Handler, CloseIncident(h)
      PROVE  /\ incident' \in [IncidentId -> IncidentRow] /\ closure' \in [IncidentId -> ClosureRow]
             /\ UNCHANGED entry
  <2>1. HoldsAnswer(h)
    BY <1>3 DEF CloseIncident, JobsOK, JobOK, Verifying
  <2>2. assertion[job[h].challenge].key \in Key /\ job[h] \in Job
    BY <2>1, KeyTypes
  <2>3. incident' \in [IncidentId -> IncidentRow]
    <3> DEFINE i == job[h].incident
               o == job[h].operator
               c == job[h].challenge
    <3>1. /\ incident' = [incident EXCEPT ![i].state = "CLOS", ![i].closed = o, ![i].note = c]
          /\ i \in IncidentId
      BY <1>3, <2>1 DEF CloseIncident, HoldsAnswer
    <3>2. o \in Operator /\ c \in 0 .. MaxChallenges
      BY <2>1, <2>2 DEF HoldsAnswer, Job
    <3> HIDE DEF i, o, c
    <3>3. [incident[i] EXCEPT !.state = "CLOS", !.closed = o, !.note = c] \in IncidentRow
      BY <1>0, <3>1, <3>2 DEF IncidentRow
    <3>4. incident' = [incident EXCEPT ![i] =
                          [incident[i] EXCEPT !.state = "CLOS", !.closed = o, !.note = c]]
      BY <1>0, <3>1 DEF IncidentRow
    <3> QED  BY <1>0, <3>3, <3>4
  <2> QED  BY <1>0, <1>3, <2>2, <2>3 DEF CloseIncident, Job, ClosureRow
<1>4. ASSUME NEW h \in Handler, Files(h), ~ InsertIncident(h), ~ InsertEntry(h), ~ CloseIncident(h)
      PROVE  UNCHANGED incidentVars
  BY <1>4 DEF Files, JournalOpening, JournalAdding, CheckClose, JournalClosing, JournalRelay, Post
<1> QED  BY <1>0, <1>1, <1>2, <1>3, <1>4, StepKinds DEF Quiet, Marks, Offers

LEMMA TypesStep ==
    ASSUME TypeInv, JobsOK, [Next]_vars
    PROVE  TypeInv' /\ JobsOK'
  BY JobsStep, TablesStep, FileTypes, RegistryTypes DEF TypeInv, TypeOK, SessionTypeOK

-----------------------------------------------------------------------------
(* Sessions. *)

\* No two requests hold one consumed challenge, and none holds that of a session.
Separate ==
    /\ \A g, h \in Handler : Verifying(g) /\ Verifying(h) /\ g # h =>
           job[g].challenge # job[h].challenge
    /\ \A h \in Handler, s \in SessionId : Verifying(h) => session[s].challenge # job[h].challenge

SessionInv ==
    /\ Separate
    /\ SessionsAreProven
    /\ \A s \in SessionId : session[s].status # "absent" =>
           session[s].challenge \in ChallengeId /\ assertion[session[s].challenge] # None

\* Sessions keep what they were opened on, and no request comes to hold a challenge.
LEMMA SessionsFollow ==
    ASSUME TypeInv, TypeInv', SessionInv, Persist,
           \A s \in SessionId : /\ session'[s].status = "absent" <=> session[s].status = "absent"
                                /\ session'[s].operator = session[s].operator
                                /\ session'[s].key = session[s].key
                                /\ session'[s].challenge = session[s].challenge,
           \A h \in Handler : Verifying(h)' =>
               Verifying(h) /\ job'[h].challenge = job[h].challenge
    PROVE  SessionInv'
<1>1. Separate'
  BY DEF SessionInv, Separate
<1>2. ASSUME NEW s \in SessionId, session[s].status # "absent"
      PROVE  LET c == session[s].challenge
             IN  /\ challenge'[c].kind = "login" /\ challenge'[c].status = "consumed"
                 /\ challenge'[c].operator = session[s].operator
                 /\ session[s].key \in challenge'[c].keys
                 /\ assertion'[c] # None /\ assertion'[c].key = session[s].key
  BY <1>2 DEF SessionInv, SessionsAreProven, Persist
<1> QED  BY <1>1, <1>2 DEF SessionInv, SessionsAreProven

\* A request that holds the challenge it just consumed.
LEMMA Consuming ==
    ASSUME TypeInv, TypeInv', JobsOK, SessionInv, Persist, UNCHANGED session,
           NEW h \in Handler, NEW c \in ChallengeId, challenge[c].status # "consumed",
           job'[h].challenge = c,
           \A g \in Handler \ {h} : pc'[g] = pc[g] /\ job'[g] = job[g]
    PROVE  SessionInv'
<1>1. \A g \in Handler \ {h} : Verifying(g) => job[g].challenge # c
  <2>1. ASSUME NEW g \in Handler, Verifying(g) PROVE challenge[job[g].challenge].status = "consumed"
    BY <2>1 DEF JobsOK, JobOK, HoldsAnswer, Verifying
  <2> QED  BY <2>1
<1>2. \A s \in SessionId : session[s].challenge # c
  <2>1. ASSUME NEW s \in SessionId, session[s].challenge = c PROVE session[s].status = "absent"
    BY <2>1 DEF SessionInv, SessionsAreProven
  <2>2. ASSUME NEW s \in SessionId, session[s].status = "absent" PROVE session[s].challenge = 0
    BY <2>2 DEF TypeInv, Rows, NoSession
  <2>3. c # 0
    BY ConsoleAssumption DEF ChallengeId
  <2> QED  BY <2>1, <2>2, <2>3
<1>3. Separate'
  BY <1>1, <1>2 DEF SessionInv, Separate, Verifying
<1>4. ASSUME NEW s \in SessionId, session[s].status # "absent"
      PROVE  LET d == session[s].challenge
             IN  /\ challenge'[d].kind = "login" /\ challenge'[d].status = "consumed"
                 /\ challenge'[d].operator = session[s].operator
                 /\ session[s].key \in challenge'[d].keys
                 /\ assertion'[d] # None /\ assertion'[d].key = session[s].key
  BY <1>4 DEF SessionInv, SessionsAreProven, Persist
<1> QED  BY <1>3, <1>4 DEF SessionInv, SessionsAreProven

LEMMA OpensSession ==
    ASSUME TypeInv, TypeInv', JobsOK, SessionInv, Persist, NEW h \in Handler, OpenSession(h)
    PROVE  SessionInv'
<1> DEFINE c == job[h].challenge
           o == job[h].operator
           k == assertion[c].key
<1>1. PICK s \in FreshSession :
        /\ pc[h] = "verified" /\ job[h].op = "login" /\ Over(h) /\ UNCHANGED <<challenge, assertion>>
        /\ session' = [session EXCEPT ![s] =
               [status |-> "open", operator |-> o, key |-> k, challenge |-> c]]
  BY DEF OpenSession
<1>2. s \in SessionId /\ session[s] = NoSession /\ session \in [SessionId -> SessionRow]
  BY <1>1 DEF FreshSession, Next1, TypeInv, TypeOK, SessionTypeOK
<1>3. /\ c \in ChallengeId /\ assertion[c] # None /\ challenge[c].operator = o
      /\ challenge[c].kind = "login" /\ challenge[c].status = "consumed"
      /\ Owner[k] = o /\ k \in challenge[c].keys
  BY <1>1 DEF JobsOK, JobOK, Verifying, HoldsAnswer
<1>4. \A g \in Handler : Verifying(g)' => g # h /\ Verifying(g) /\ job'[g].challenge = job[g].challenge
  BY <1>1 DEF Over, Verifying, TypeInv, TypeOK
<1>5. /\ \A g \in Handler \ {h} : Verifying(g) => job[g].challenge # c
      /\ \A t \in SessionId : session[t].challenge # c
  BY <1>1 DEF SessionInv, Separate, Verifying
<1>6. /\ session'[s] = [status |-> "open", operator |-> o, key |-> k, challenge |-> c]
      /\ \A t \in SessionId \ {s} : session'[t] = session[t]
  BY <1>1, <1>2
<1> HIDE DEF c, o, k
<1>7. Separate'
  BY <1>4, <1>5, <1>6 DEF SessionInv, Separate
<1>8. ASSUME NEW t \in SessionId, session'[t].status # "absent"
      PROVE  LET d == session'[t].challenge
             IN  /\ d \in ChallengeId /\ assertion[d] # None
                 /\ challenge[d].kind = "login" /\ challenge[d].operator = session'[t].operator
                 /\ challenge[d].status = "consumed" /\ session'[t].key \in challenge[d].keys
                 /\ assertion[d].key = session'[t].key
                 /\ Owner[session'[t].key] = session'[t].operator
                 /\ \A u \in SessionId \ {t} : session'[u].challenge # d
  <2>1. CASE t = s
    BY <1>3, <1>5, <1>6, <2>1 DEF k
  <2>2. CASE t # s
    BY <1>5, <1>6, <1>8, <2>2 DEF SessionInv, SessionsAreProven
  <2> QED  BY <2>1, <2>2
<1> QED  BY <1>1, <1>7, <1>8 DEF SessionInv, SessionsAreProven

LEMMA SessionStep ==
    ASSUME TypeInv, JobsOK, SessionInv, [Next]_vars
    PROVE  SessionInv'
<1>1. Persist /\ TypeInv'
  BY Persists, TypesStep
<1>2. ASSUME NEW h \in Handler, NEW c \in ChallengeId, LoginFinish(h, c), ~ Over(h) PROVE SessionInv'
  <2>1. /\ challenge[c].status = "fresh" /\ UNCHANGED session
        /\ At(h, "consumed", [NoJob EXCEPT !.op = "login", !.challenge = c,
                                           !.operator = challenge[c].operator])
    BY <1>2 DEF LoginFinish
  <2>2. job'[h].challenge = c /\ \A g \in Handler \ {h} : pc'[g] = pc[g] /\ job'[g] = job[g]
    BY <2>1 DEF At, NoJob, TypeInv, TypeOK
  <2> QED  BY <1>1, <2>1, <2>2, Consuming
<1>3. ASSUME NEW h \in Handler, ConsumeReassertion(h) PROVE SessionInv'
  <2>1. /\ challenge[job[h].challenge].status # "consumed" /\ UNCHANGED session
        /\ At(h, "consumed", job[h]) /\ pc[h] = "presented"
    BY <1>3 DEF ConsumeReassertion
  <2>2. /\ job'[h].challenge = job[h].challenge /\ job[h].challenge \in ChallengeId
        /\ \A g \in Handler \ {h} : pc'[g] = pc[g] /\ job'[g] = job[g]
    BY <2>1 DEF At, TypeInv, TypeOK, JobsOK, JobOK, HoldsAnswer
  <2> QED  BY <1>1, <2>1, <2>2, Consuming
<1>4. ASSUME UNCHANGED session,
             \A h \in Handler : Verifying(h)' => Verifying(h) /\ job'[h].challenge = job[h].challenge
      PROVE  SessionInv'
  BY <1>1, <1>4, SessionsFollow
<1>5. ASSUME NEW h \in Handler, Over(h), UNCHANGED session PROVE SessionInv'
  <2>1. \A g \in Handler : Verifying(g)' => Verifying(g) /\ job'[g].challenge = job[g].challenge
    BY <1>5 DEF Over, Verifying, TypeInv, TypeOK
  <2> QED  BY <1>4, <1>5, <2>1
<1>6. ASSUME NEW h \in Handler, ReadKey(h) \/ Count(h) \/ JournalClosing(h) PROVE SessionInv'
  <2>1. UNCHANGED session /\ Verifying(h)
    BY <1>6 DEF ReadKey, Count, JournalClosing, Verifying
  <2>2. \E l, j : At(h, l, j) /\ j.challenge = job[h].challenge
    <3>1. \A n : [job[h] EXCEPT !.last = n].challenge = job[h].challenge
      BY DEF TypeInv, TypeOK, Job
    <3>2. CASE ReadKey(h)
      BY <3>1, <3>2 DEF ReadKey
    <3>3. CASE Count(h) \/ JournalClosing(h)
      BY <3>3 DEF Count, JournalClosing
    <3> QED  BY <1>6, <3>2, <3>3
  <2>3. \A g \in Handler : Verifying(g)' => Verifying(g) /\ job'[g].challenge = job[g].challenge
    BY <2>1, <2>2 DEF At, Verifying, TypeInv, TypeOK, Job
  <2> QED  BY <1>4, <2>1, <2>3
<1>7. ASSUME NEW h \in Handler, Files(h), ~ JournalClosing(h) PROVE SessionInv'
  <2>1. UNCHANGED session
    BY <1>7 DEF Files, JournalOpening, JournalAdding, CheckClose, Presented, InsertIncident,
                InsertEntry, CloseIncident, JournalRelay, Post
  <2>2. \/ Over(h) \/ UNCHANGED <<pc, job>>
        \/ \E l \in {"opening", "adding", "presented", "answered"} : \E j : At(h, l, j)
    BY <1>7 DEF Files, JournalOpening, JournalAdding, CheckClose, Presented, InsertIncident,
                InsertEntry, CloseIncident, JournalRelay, Post
  <2>3. CASE \E l \in {"opening", "adding", "presented", "answered"} : \E j : At(h, l, j)
    <3>1. \A g \in Handler : Verifying(g)' => Verifying(g) /\ job'[g].challenge = job[g].challenge
      BY <2>3 DEF At, Verifying, TypeInv, TypeOK
    <3> QED  BY <1>4, <2>1, <3>1
  <2> QED  BY <1>4, <1>5, <2>1, <2>2, <2>3 DEF Verifying
<1>8. CASE Marks
  <2>1. \A s \in SessionId : /\ session'[s].status = "absent" <=> session[s].status = "absent"
                             /\ session'[s].operator = session[s].operator
                             /\ session'[s].key = session[s].key
                             /\ session'[s].challenge = session[s].challenge
    BY <1>8 DEF Marks, TypeInv, TypeOK, SessionTypeOK, SessionRow
  <2> QED  BY <1>1, <1>8, <2>1, SessionsFollow DEF Marks, Verifying
<1>9. CASE UNCHANGED <<session, pc, job>>
  BY <1>4, <1>9 DEF Verifying
<1>10. ASSUME NEW h \in Handler, Verifies(h) PROVE SessionInv'
  BY <1>1, <1>2, <1>3, <1>5, <1>6, <1>10, OpensSession DEF Verifies, LoginFinish, Fail
<1> QED  BY <1>6, <1>7, <1>8, <1>9, <1>10, StepKinds DEF Quiet, Offers, Answer

-----------------------------------------------------------------------------
(* Counters. *)

\* The challenges answered by key k that were counted and still serve.
Counted(k) ==
    {c \in ChallengeId :
        /\ assertion[c] # None /\ assertion[c].key = k
        /\ \/ \E s \in SessionId : session[s].challenge = c
           \/ \E i \in IncidentId : closure[i].challenge = c
           \/ \E h \in Handler : pc[h] \in {"verified", "closing"} /\ job[h].challenge = c}

\* The table holds the greatest counter that was taken, each once.
CounterOK(k) ==
    \A c \in Counted(k) :
        /\ assertion[c].counter <= counter[k]
        /\ \A d \in Counted(k) : c # d =>
               assertion[c].counter # assertion[d].counter \/ assertion[c].counter = 0

CounterInv ==
    /\ \A k \in Key \ raced : CounterOK(k)
    /\ \A i \in IncidentId : closure[i].challenge \in ChallengeId =>
           assertion[closure[i].challenge] # None

\* Nothing new was counted.
LEMMA CountersFollow ==
    ASSUME TypeInv, Persist, CounterInv, UNCHANGED <<counter, raced>>,
           \A k \in Key : Counted(k)' \subseteq Counted(k),
           \A i \in IncidentId : closure'[i].challenge \in ChallengeId =>
               assertion[closure'[i].challenge] # None
    PROVE  CounterInv'
<1>1. ASSUME NEW k \in Key \ raced, NEW c \in Counted(k)'
      PROVE  c \in Counted(k) /\ assertion'[c] = assertion[c]
  BY <1>1 DEF Counted, Persist
<1>2. ASSUME NEW k \in Key \ raced PROVE CounterOK(k)'
  BY <1>1 DEF CounterInv, CounterOK
<1>3. \A i \in IncidentId : closure'[i].challenge \in ChallengeId =>
          assertion'[closure'[i].challenge] # None
  BY DEF Persist
<1> QED  BY <1>2, <1>3 DEF CounterInv

\* A request that counts an answer: greater than those before, or the first.
LEMMA Counting ==
    ASSUME TypeInv, TypeInv', JobsOK, CounterInv, NEW h \in Handler, Count(h), UNCHANGED closure
    PROVE  CounterInv'
<1>1. PICK c, k, seen :
        /\ c = job[h].challenge /\ k = assertion[c].key /\ seen = assertion[c].counter
        /\ pc[h] = "read" /\ ~ GoesBack(seen, job[h].last)
        /\ counter' = [counter EXCEPT ![k] = seen]
        /\ raced' = IF counter[k] # job[h].last THEN raced \cup {k} ELSE raced
        /\ At(h, "verified", job[h])
        /\ UNCHANGED <<challenge, assertion, session>>
  BY DEF Count
<1>2. HoldsAnswer(h) /\ c \in ChallengeId
  BY <1>1 DEF JobsOK, JobOK, Verifying, HoldsAnswer
<1>3. k \in Key /\ seen \in Nat /\ job[h].last \in Nat /\ counter \in [Key -> Nat]
  BY <1>1, <1>2, KeyTypes DEF Job, TypeInv, TypeOK, SessionTypeOK
<1>4. \A g \in Handler : /\ job'[g] = job[g]
                         /\ pc'[g] \in {"verified", "closing"} => g = h \/ pc[g] \in {"verified", "closing"}
  BY <1>1 DEF At, TypeInv, TypeOK
<1>5. ASSUME NEW q \in Key PROVE Counted(q)' \subseteq Counted(q) \cup {c}
  BY <1>1, <1>4 DEF Counted
<1>6. ASSUME NEW q \in Key \ {k} PROVE Counted(q)' \subseteq Counted(q)
  BY <1>1, <1>5 DEF Counted
<1>7. ASSUME NEW d \in ChallengeId, assertion[d] # None PROVE assertion[d].counter \in Nat
  BY <1>7 DEF TypeInv, TypeOK, SessionTypeOK, AssertionRow
<1>8. ASSUME NEW q \in Key \ raced', q # k PROVE CounterOK(q)'
  <2>1. CounterOK(q) /\ counter'[q] = counter[q]
    BY <1>1, <1>3, <1>8 DEF CounterInv
  <2> QED  BY <1>1, <1>6, <1>8, <2>1 DEF CounterOK
<1>9. ASSUME k \notin raced' PROVE CounterOK(k)'
  <2>1. CounterOK(k) /\ counter[k] = job[h].last /\ counter'[k] = seen
    BY <1>1, <1>3, <1>9 DEF CounterInv
  <2>2. job[h].last = 0 \/ seen > job[h].last
    BY <1>1, <1>3 DEF GoesBack
  <2>3. \A d \in Counted(k) : assertion[d].counter \in Nat /\ assertion[d].counter <= job[h].last
    BY <1>7, <2>1 DEF CounterOK, Counted
  <2>4. \A d \in Counted(k) : assertion[d].counter <= seen /\ (assertion[d].counter = seen => seen = 0)
    BY <1>3, <2>2, <2>3
  <2>5. \A d \in Counted(k)' : d \in Counted(k) \/ d = c
    BY <1>3, <1>5
  <2> QED  BY <1>1, <1>3, <2>1, <2>4, <2>5 DEF CounterOK
<1> QED  BY <1>1, <1>8, <1>9 DEF CounterInv

\* What was used keeps its answer.
LEMMA CounterStep ==
    ASSUME TypeInv, JobsOK, SessionInv, CounterInv, [Next]_vars
    PROVE  CounterInv'
<1>1. Persist /\ TypeInv'
  BY Persists, TypesStep
<1>2. ASSUME NEW s \in SessionId, session[s].challenge \in ChallengeId
      PROVE  assertion[session[s].challenge] # None
  <2>1. session[s].status # "absent"
    BY <1>2, ConsoleAssumption DEF TypeInv, Rows, NoSession, ChallengeId
  <2> QED  BY <2>1 DEF SessionInv
<1>3. ASSUME NEW h \in Handler, pc[h] \in {"verified", "closing"}
      PROVE  assertion[job[h].challenge] # None
  BY <1>3 DEF JobsOK, JobOK, Verifying, HoldsAnswer
<1>4. ASSUME UNCHANGED <<counter, raced>>,
             \A s \in SessionId : \/ session'[s].challenge = session[s].challenge
                                  \/ \E h \in Handler : pc[h] = "verified"
                                         /\ session'[s].challenge = job[h].challenge,
             \A i \in IncidentId : \/ closure'[i].challenge = closure[i].challenge
                                   \/ \E h \in Handler : pc[h] = "closing"
                                          /\ closure'[i].challenge = job[h].challenge,
             \A h \in Handler : pc'[h] \in {"verified", "closing"} =>
                 pc[h] \in {"verified", "closing"} /\ job'[h].challenge = job[h].challenge
      PROVE  CounterInv'
  <2>1. \A i \in IncidentId : closure'[i].challenge \in ChallengeId =>
            assertion[closure'[i].challenge] # None
    BY <1>3, <1>4 DEF CounterInv
  <2>2. ASSUME NEW k \in Key, NEW c \in Counted(k)' PROVE c \in Counted(k)
    <3>1. /\ \/ \E s \in SessionId : session[s].challenge = c
             \/ \E i \in IncidentId : closure[i].challenge = c
             \/ \E h \in Handler : pc[h] \in {"verified", "closing"} /\ job[h].challenge = c
          /\ c \in ChallengeId /\ assertion'[c] # None /\ assertion'[c].key = k
      BY <1>4, <2>2 DEF Counted
    <3>2. assertion[c] # None
      BY <1>2, <1>3, <3>1 DEF CounterInv
    <3>3. assertion'[c] = assertion[c]
      BY <1>1, <3>1, <3>2 DEF Persist
    <3> QED  BY <3>1, <3>2, <3>3 DEF Counted
  <2> QED  BY <1>1, <1>4, <2>1, <2>2, CountersFollow
<1>5. CASE Marks
  <2>1. \A s \in SessionId : session'[s].challenge = session[s].challenge
    BY <1>5 DEF Marks, TypeInv, TypeOK, SessionTypeOK, SessionRow
  <2> QED  BY <1>4, <1>5, <2>1 DEF Marks, incidentVars
<1>6. CASE UNCHANGED <<session, closure, counter, raced, pc, job>>
  BY <1>4, <1>6
<1>7. ASSUME NEW h \in Handler, Count(h), UNCHANGED closure PROVE CounterInv'
  BY <1>1, <1>7, Counting
<1>8. ASSUME NEW h \in Handler, UNCHANGED <<session, closure, counter, raced>>,
             \/ Over(h)
             \/ \E l, j : At(h, l, j) /\ l \notin {"verified", "closing"}
             \/ At(h, "closing", job[h]) /\ pc[h] = "verified"
      PROVE  CounterInv'
  <2>1. \A g \in Handler : pc'[g] \in {"verified", "closing"} =>
            pc[g] \in {"verified", "closing"} /\ job'[g].challenge = job[g].challenge
    BY <1>8 DEF Over, At, TypeInv, TypeOK
  <2> QED  BY <1>4, <1>8, <2>1
<1>9. ASSUME NEW h \in Handler, Over(h), UNCHANGED <<counter, raced>>,
             (OpenSession(h) /\ UNCHANGED closure) \/ CloseIncident(h)
      PROVE  CounterInv'
  <2>1. \A g \in Handler : pc'[g] \in {"verified", "closing"} =>
            pc[g] \in {"verified", "closing"} /\ job'[g].challenge = job[g].challenge
    BY <1>9 DEF Over, TypeInv, TypeOK
  <2>2. \A s \in SessionId : \/ session'[s].challenge = session[s].challenge
                             \/ pc[h] = "verified" /\ session'[s].challenge = job[h].challenge
    BY <1>9 DEF OpenSession, CloseIncident, TypeInv, TypeOK, SessionTypeOK
  <2>3. \A i \in IncidentId : \/ closure'[i].challenge = closure[i].challenge
                              \/ pc[h] = "closing" /\ closure'[i].challenge = job[h].challenge
    BY <1>9 DEF OpenSession, CloseIncident, TypeInv, TypeOK
  <2> QED  BY <1>4, <1>9, <2>1, <2>2, <2>3
<1>10. ASSUME NEW h \in Handler, Verifies(h), UNCHANGED <<incidentVars, lines>> PROVE CounterInv'
  <2>1. UNCHANGED closure
    BY <1>10 DEF incidentVars
  <2>2. CASE OpenSession(h)
    BY <1>9, <2>1, <2>2 DEF OpenSession
  <2>3. ASSUME ~ OpenSession(h), ~ Count(h)
        PROVE  /\ UNCHANGED <<session, counter, raced>>
               /\ \/ Over(h)
                  \/ \E l, j : At(h, l, j) /\ l \notin {"verified", "closing"}
    <3>1. ASSUME NEW c, LoginFinish(h, c)
          PROVE  Over(h) \/ \E j : At(h, "consumed", j)
      BY <3>1 DEF LoginFinish
    <3>2. UNCHANGED <<session, counter, raced>>
      BY <1>10, <2>3 DEF Verifies, LoginFinish, ReadKey, ConsumeReassertion, Fail
    <3>3. \/ Over(h) \/ (\E j : At(h, "consumed", j)) \/ \E j : At(h, "read", j)
      BY <1>10, <2>3, <3>1 DEF Verifies, ReadKey, ConsumeReassertion, Fail
    <3> QED  BY <3>2, <3>3
  <2> QED  BY <1>7, <1>8, <2>1, <2>2, <2>3
<1>11. ASSUME NEW h \in Handler, Files(h) PROVE CounterInv'
  <2>1. CASE CloseIncident(h)
    BY <1>9, <2>1 DEF CloseIncident
  <2>2. ASSUME ~ CloseIncident(h)
        PROVE  /\ UNCHANGED <<session, closure, counter, raced>>
               /\ \/ Over(h) \/ UNCHANGED <<pc, job>>
                  \/ \E l, j : At(h, l, j) /\ l \notin {"verified", "closing"}
                  \/ At(h, "closing", job[h]) /\ pc[h] = "verified"
    <3>1. UNCHANGED <<session, closure, counter, raced>>
      BY <1>11, <2>2 DEF Files, JournalOpening, JournalAdding, CheckClose, Presented,
                         InsertIncident, InsertEntry, JournalClosing, JournalRelay, Post, incidentVars
    <3>2. \/ Over(h) \/ UNCHANGED <<pc, job>>
          \/ (\E j : At(h, "opening", j)) \/ (\E j : At(h, "adding", j))
          \/ (\E j : At(h, "presented", j)) \/ (\E j : At(h, "answered", j))
          \/ At(h, "closing", job[h]) /\ pc[h] = "verified"
      BY <1>11, <2>2 DEF Files, JournalOpening, JournalAdding, CheckClose, Presented,
                         InsertIncident, InsertEntry, JournalClosing, JournalRelay, Post
    <3> QED  BY <3>1, <3>2
  <2> QED  BY <1>6, <1>8, <2>1, <2>2
<1> QED  BY <1>5, <1>6, <1>10, <1>11, StepKinds DEF Quiet, Offers, Answer, incidentVars

-----------------------------------------------------------------------------
(* Files. *)

\* A file or an entry whose line is written is inserted by one request, once.
Reserved ==
    /\ \A h \in Handler :
          /\ pc[h] = "opening" => incident[job[h].incident].state = "absent"
          /\ pc[h] = "adding" => entry[job[h].entry] = NoEntry
    /\ \A g, h \in Handler : g # h =>
          /\ pc[g] = "opening" /\ pc[h] = "opening" => job[g].incident # job[h].incident
          /\ pc[g] = "adding" /\ pc[h] = "adding" => job[g].entry # job[h].entry

FileInv ==
    /\ Reserved
    /\ JournalledFirst
    /\ ClosedOnItsEvidence
    /\ \A i \in IncidentId : closure[i] # NoClosure =>
           closure[i].challenge \in ChallengeId /\ assertion[closure[i].challenge] # None

\* The files stay as they are.
LEMMA EvidenceStays ==
    ASSUME TypeInv, Persist, FileInv, UNCHANGED incidentVars
    PROVE  /\ JournalledFirst' /\ ClosedOnItsEvidence'
           /\ \A i \in IncidentId : closure'[i] # NoClosure =>
                  closure'[i].challenge \in ChallengeId /\ assertion'[closure'[i].challenge] # None
<1>1. JournalledFirst'
  BY DEF FileInv, JournalledFirst, Persist, incidentVars
<1>2. ASSUME NEW i \in IncidentId, closure[i] # NoClosure
      PROVE  LET c == closure[i].challenge
             IN  /\ c \in ChallengeId /\ challenge[c].status = "consumed"
                 /\ assertion'[c] # None
                 /\ challenge'[c].status = challenge[c].status
                 /\ challenge'[c].kind = challenge[c].kind
                 /\ challenge'[c].operator = challenge[c].operator
                 /\ challenge'[c].keys = challenge[c].keys
                 /\ challenge'[c].incident = challenge[c].incident
  BY <1>2 DEF FileInv, ClosedOnItsEvidence, Persist
<1>3. ClosedOnItsEvidence'
  BY <1>2 DEF FileInv, ClosedOnItsEvidence, incidentVars
<1> QED  BY <1>1, <1>2, <1>3 DEF incidentVars, FileInv

\* An identifier that was just drawn is of no row and of no request.
LEMMA Drawn ==
    ASSUME TypeInv, JobsOK, FileInv
    PROVE  /\ \A i \in FreshIncident : /\ i \in IncidentId /\ incident[i].state = "absent"
                                       /\ \A h \in Handler : pc[h] = "opening" => job[h].incident # i
           /\ \A e \in FreshEntry : /\ e \in EntryId /\ entry[e] = NoEntry
                                    /\ \A h \in Handler : pc[h] = "adding" => job[h].entry # e
<1>1. \A i, o : Opening(i, o) \in lines => i \in Opened
  <2> SUFFICES ASSUME NEW i, NEW o, Opening(i, o) \in lines PROVE i \in Opened
    OBVIOUS
  <2>1. Opening(i, o).event = "opened" /\ Opening(i, o).incident = i
    BY DEF Opening
  <2> HIDE DEF Opening
  <2> QED  BY <2>1 DEF Opened
<1>2. \A e, i, o, a : Adding(e, i, o, a) \in lines => e \in Added
  <2> SUFFICES ASSUME NEW e, NEW i, NEW o, NEW a, Adding(e, i, o, a) \in lines PROVE e \in Added
    OBVIOUS
  <2>1. Adding(e, i, o, a).event = "entry" /\ Adding(e, i, o, a).what[1] = e
    BY DEF Adding
  <2> QED  BY <2>1 DEF Added
<1>3. ASSUME NEW i \in FreshIncident
      PROVE  /\ i \in IncidentId /\ incident[i].state = "absent"
             /\ \A h \in Handler : pc[h] = "opening" => job[h].incident # i
  <2>1. i \in IncidentId /\ i \notin Opened
    BY DEF FreshIncident
  <2>2. incident[i].state = "absent"
    BY <1>1, <2>1 DEF FileInv, JournalledFirst
  <2>3. ASSUME NEW h \in Handler, pc[h] = "opening" PROVE job[h].incident # i
    BY <1>1, <2>1, <2>3 DEF JobsOK, JobOK, HoldsLine
  <2> QED  BY <2>1, <2>2, <2>3
<1>4. ASSUME NEW e \in FreshEntry
      PROVE  /\ e \in EntryId /\ entry[e] = NoEntry
             /\ \A h \in Handler : pc[h] = "adding" => job[h].entry # e
  <2>1. e \in EntryId /\ e \notin Added
    BY DEF FreshEntry
  <2>2. entry[e] = NoEntry
    BY <1>2, <2>1 DEF FileInv, JournalledFirst
  <2>3. ASSUME NEW h \in Handler, pc[h] = "adding" PROVE job[h].entry # e
    BY <1>2, <2>1, <2>3 DEF JobsOK, JobOK, HoldsLine
  <2> QED  BY <2>1, <2>2, <2>3
<1> QED  BY <1>3, <1>4

\* A request that inserts nothing leaves the files as they are.
LEMMA FilesFollow ==
    ASSUME TypeInv, Persist, FileInv, UNCHANGED incidentVars,
           \A h \in Handler : pc'[h] \in {"opening", "adding"} => pc'[h] = pc[h] /\ job'[h] = job[h]
    PROVE  FileInv'
<1>1. Reserved'
  BY DEF FileInv, Reserved, incidentVars
<1> QED  BY <1>1, EvidenceStays DEF FileInv

LEMMA Reserving ==
    ASSUME TypeInv, JobsOK, Persist, FileInv, NEW h \in Handler, NEW s,
           \/ JournalOpening(h, s)
           \/ \E i \in IncidentId, a \in Action \cup {None} : JournalAdding(h, s, i, a)
    PROVE  FileInv'
<1>1. UNCHANGED incidentVars
  BY DEF JournalOpening, JournalAdding
<1>2. CASE JournalOpening(h, s)
  <2>1. PICK i \in FreshIncident : \E o :
          At(h, "opening", [NoJob EXCEPT !.op = "open", !.incident = i, !.operator = o])
    BY <1>2 DEF JournalOpening
  <2>2. /\ pc'[h] = "opening" /\ job'[h].incident = i
        /\ \A g \in Handler \ {h} : pc'[g] = pc[g] /\ job'[g] = job[g]
    BY <2>1 DEF At, NoJob, TypeInv, TypeOK
  <2>3. Reserved'
    BY <1>1, <2>2, Drawn DEF FileInv, Reserved, incidentVars
  <2> QED  BY <1>1, <2>3, EvidenceStays DEF FileInv
<1>3. CASE \E i \in IncidentId, a \in Action \cup {None} : JournalAdding(h, s, i, a)
  <2>1. PICK e \in FreshEntry : \E i, a, o :
          At(h, "adding", [NoJob EXCEPT !.op = "add", !.incident = i, !.action = a,
                                        !.entry = e, !.operator = o])
    BY <1>3 DEF JournalAdding
  <2>2. /\ pc'[h] = "adding" /\ job'[h].entry = e
        /\ \A g \in Handler \ {h} : pc'[g] = pc[g] /\ job'[g] = job[g]
    BY <2>1 DEF At, NoJob, TypeInv, TypeOK
  <2>3. Reserved'
    BY <1>1, <2>2, Drawn DEF FileInv, Reserved, incidentVars
  <2> QED  BY <1>1, <2>3, EvidenceStays DEF FileInv
<1> QED  BY <1>2, <1>3

LEMMA InsertsIncident ==
    ASSUME TypeInv, JobsOK, Persist, FileInv, NEW h \in Handler, InsertIncident(h)
    PROVE  FileInv'
<1>1. PICK i, o :
        /\ i = job[h].incident /\ o = job[h].operator /\ pc[h] = "opening" /\ Over(h)
        /\ incident' = [incident EXCEPT ![i] =
               [state |-> "OUVERT", opened |-> o, closed |-> None, note |-> 0]]
        /\ UNCHANGED <<challenge, assertion, entry, closure, lines>>
  BY DEF InsertIncident
<1>2. i \in IncidentId /\ Opening(i, o) \in lines /\ incident[i].state = "absent"
  BY <1>1 DEF JobsOK, JobOK, HoldsLine, FileInv, Reserved
<1>3. /\ incident'[i].state = "OUVERT" /\ incident'[i].opened = o
      /\ \A j \in IncidentId \ {i} : incident'[j] = incident[j]
  BY <1>1, <1>2 DEF TypeInv, TypeOK
<1>4. Reserved'
  <2>1. \A g \in Handler : pc'[g] \in {"opening", "adding"} =>
            g # h /\ pc'[g] = pc[g] /\ job'[g] = job[g]
    BY <1>1 DEF Over, TypeInv, TypeOK
  <2>2. \A g \in Handler : pc[g] = "opening" => job[g].incident \in IncidentId
    BY DEF JobsOK, JobOK, HoldsLine
  <2>3. \A g \in Handler : pc[g] = "opening" /\ g # h => job[g].incident # i
    BY <1>1 DEF FileInv, Reserved
  <2> QED  BY <1>1, <1>3, <2>1, <2>2, <2>3 DEF FileInv, Reserved
<1>5. JournalledFirst'
  BY <1>1, <1>2, <1>3 DEF FileInv, JournalledFirst
<1>6. ClosedOnItsEvidence'
  BY <1>1, <1>2, <1>3 DEF FileInv, ClosedOnItsEvidence
<1> QED  BY <1>1, <1>4, <1>5, <1>6 DEF FileInv

LEMMA InsertsEntry ==
    ASSUME TypeInv, JobsOK, Persist, FileInv, NEW h \in Handler, InsertEntry(h)
    PROVE  FileInv'
<1>1. PICK i, o, e, a :
        /\ i = job[h].incident /\ o = job[h].operator /\ e = job[h].entry /\ a = job[h].action
        /\ pc[h] = "adding" /\ Over(h)
        /\ entry' = [entry EXCEPT ![e] = [incident |-> i, action |-> a, operator |-> o]]
        /\ UNCHANGED <<challenge, assertion, incident, closure, lines>>
  BY DEF InsertEntry
<1>2. e \in EntryId /\ Adding(e, i, o, a) \in lines
  BY <1>1 DEF JobsOK, JobOK, HoldsLine
<1>3. /\ entry'[e] = [incident |-> i, action |-> a, operator |-> o]
      /\ \A d \in EntryId \ {e} : entry'[d] = entry[d]
  BY <1>1, <1>2 DEF TypeInv, TypeOK
<1>4. Reserved'
  <2>1. \A g \in Handler : pc'[g] \in {"opening", "adding"} =>
            g # h /\ pc'[g] = pc[g] /\ job'[g] = job[g]
    BY <1>1 DEF Over, TypeInv, TypeOK
  <2>2. \A g \in Handler : pc[g] = "adding" => job[g].entry \in EntryId
    BY DEF JobsOK, JobOK, HoldsLine
  <2>3. \A g \in Handler : pc[g] = "adding" /\ g # h => job[g].entry # e
    BY <1>1 DEF FileInv, Reserved
  <2> QED  BY <1>1, <1>3, <2>1, <2>2, <2>3 DEF FileInv, Reserved
<1>5. JournalledFirst'
  BY <1>1, <1>2, <1>3 DEF FileInv, JournalledFirst
<1>6. ClosedOnItsEvidence'
  BY <1>1 DEF FileInv, ClosedOnItsEvidence
<1> QED  BY <1>1, <1>4, <1>5, <1>6 DEF FileInv

LEMMA Closes ==
    ASSUME TypeInv, JobsOK, Persist, FileInv, NEW h \in Handler, CloseIncident(h)
    PROVE  FileInv'
<1>1. PICK i, o, c, k :
        /\ i = job[h].incident /\ o = job[h].operator /\ c = job[h].challenge
        /\ k = assertion[c].key
        /\ pc[h] = "closing" /\ closure[i] = NoClosure /\ incident[i].state = "OUVERT" /\ Over(h)
        /\ closure' = [closure EXCEPT ![i] = [operator |-> o, key |-> k, challenge |-> c]]
        /\ incident' = [incident EXCEPT ![i].state = "CLOS", ![i].closed = o, ![i].note = c]
        /\ UNCHANGED <<challenge, assertion, entry, lines>>
  BY DEF CloseIncident
<1>2. /\ i \in IncidentId /\ o \in Operator /\ c \in ChallengeId /\ assertion[c] # None
      /\ challenge[c].operator = o /\ challenge[c].kind = "incident_close"
      /\ challenge[c].incident = i /\ challenge[c].status = "consumed"
      /\ Owner[k] = o /\ k \in challenge[c].keys /\ Closing(i, o, k, c) \in lines
  BY <1>1 DEF JobsOK, JobOK, Verifying, HoldsAnswer
<1>3. /\ incident'[i].state = "CLOS" /\ incident'[i].opened = incident[i].opened
      /\ incident'[i].closed = o /\ incident'[i].note = c
      /\ \A j \in IncidentId \ {i} : incident'[j] = incident[j]
  BY <1>1, <1>2 DEF TypeInv, TypeOK, IncidentRow
<1>4. /\ closure'[i] = [operator |-> o, key |-> k, challenge |-> c]
      /\ closure'[i].operator = o /\ closure'[i].key = k /\ closure'[i].challenge = c
      /\ closure'[i] # NoClosure
      /\ \A j \in IncidentId \ {i} : closure'[j] = closure[j]
  BY <1>1, <1>2, ConsoleAssumption DEF TypeInv, TypeOK, NoClosure
<1>5. UNCHANGED <<challenge, assertion, entry, lines>>
  BY <1>1
<1>6. Reserved'
  <2>1. \A g \in Handler : pc'[g] \in {"opening", "adding"} =>
            g # h /\ pc'[g] = pc[g] /\ job'[g] = job[g]
    BY <1>1 DEF Over, TypeInv, TypeOK
  <2>2. incident[i].state = "OUVERT"
    BY <1>1
  <2>3. \A g \in Handler : pc[g] = "opening" => job[g].incident \in IncidentId
    BY DEF JobsOK, JobOK, HoldsLine
  <2>4. \A g \in Handler : pc[g] = "opening" => incident'[job[g].incident].state = "absent"
    BY <1>3, <2>2, <2>3 DEF FileInv, Reserved
  <2> QED  BY <1>5, <2>1, <2>4 DEF FileInv, Reserved
<1>7. JournalledFirst'
  <2>1. Closing(i, o, k, c) \in lines /\ incident[i].state # "absent"
    BY <1>1, <1>2
  <2>2. \A j \in IncidentId : incident'[j].state # "absent" =>
            incident[j].state # "absent" /\ incident'[j].opened = incident[j].opened
    BY <1>3, <2>1
  <2>3. \A j \in IncidentId : closure'[j] # NoClosure =>
            Closing(j, closure'[j].operator, closure'[j].key, closure'[j].challenge) \in lines
    BY <1>4, <2>1 DEF FileInv, JournalledFirst
  <2> QED  BY <1>5, <2>2, <2>3 DEF FileInv, JournalledFirst
<1>8. ASSUME NEW j \in IncidentId
      PROVE  /\ incident'[j].state = "CLOS" <=> closure'[j] # NoClosure
             /\ incident'[j].state = "CLOS" =>
                    LET d == closure'[j].challenge
                    IN  /\ challenge[d].kind = "incident_close" /\ challenge[d].status = "consumed"
                        /\ challenge[d].incident = j /\ incident'[j].note = d
                        /\ challenge[d].operator = incident'[j].closed
                        /\ closure'[j].operator = incident'[j].closed
                        /\ closure'[j].key \in challenge[d].keys
                        /\ Owner[closure'[j].key] = incident'[j].closed
  <2>1. CASE j = i
    BY <1>2, <1>3, <1>4, <2>1
  <2>2. CASE j # i
    BY <1>3, <1>4, <2>2 DEF FileInv, ClosedOnItsEvidence
  <2> QED  BY <2>1, <2>2
<1>9. ClosedOnItsEvidence'
  BY <1>5, <1>8 DEF ClosedOnItsEvidence
<1>10. \A j \in IncidentId : closure'[j] # NoClosure =>
           closure'[j].challenge \in ChallengeId /\ assertion[closure'[j].challenge] # None
  BY <1>2, <1>4 DEF FileInv
<1> QED  BY <1>5, <1>6, <1>7, <1>9, <1>10 DEF FileInv

LEMMA FileStep ==
    ASSUME TypeInv, JobsOK, FileInv, [Next]_vars
    PROVE  FileInv'
<1>1. Persist
  BY Persists
<1>2. CASE UNCHANGED <<incidentVars, pc, job>>
  BY <1>1, <1>2, FilesFollow
<1>3. ASSUME NEW h \in Handler, UNCHANGED incidentVars,
             Over(h) \/ \E l, j : At(h, l, j) /\ l \notin {"opening", "adding"}
      PROVE  FileInv'
  <2>1. \A g \in Handler : pc'[g] \in {"opening", "adding"} => pc'[g] = pc[g] /\ job'[g] = job[g]
    BY <1>3 DEF Over, At, TypeInv, TypeOK
  <2> QED  BY <1>1, <1>3, <2>1, FilesFollow
<1>4. ASSUME NEW h \in Handler, Verifies(h), UNCHANGED incidentVars PROVE FileInv'
  <2>1. ASSUME NEW c, LoginFinish(h, c) PROVE Over(h) \/ \E j : At(h, "consumed", j)
    BY <2>1 DEF LoginFinish
  <2>2. \/ Over(h) \/ (\E j : At(h, "consumed", j)) \/ (\E j : At(h, "read", j))
        \/ \E j : At(h, "verified", j)
    BY <1>4, <2>1 DEF Verifies, ReadKey, Count, OpenSession, ConsumeReassertion, Fail
  <2> QED  BY <1>3, <1>4, <2>2
<1>5. ASSUME NEW h \in Handler, Files(h) PROVE FileInv'
  <2>1. ASSUME ~ InsertIncident(h), ~ InsertEntry(h), ~ CloseIncident(h),
               \A s \in SessionId : ~ JournalOpening(h, s),
               \A s \in SessionId, i \in IncidentId, a \in Action \cup {None} :
                   ~ JournalAdding(h, s, i, a)
        PROVE  /\ UNCHANGED incidentVars
               /\ \/ Over(h) \/ UNCHANGED <<pc, job>> \/ (\E j : At(h, "presented", j))
                  \/ (\E j : At(h, "closing", j)) \/ \E j : At(h, "answered", j)
    BY <1>5, <2>1 DEF Files, CheckClose, Presented, JournalClosing, JournalRelay, Post
  <2> QED  BY <1>1, <1>2, <1>3, <1>5, <2>1, Reserving, InsertsIncident, InsertsEntry, Closes
<1> QED  BY <1>2, <1>4, <1>5, StepKinds DEF Quiet, Marks, Offers, Answer, incidentVars


-----------------------------------------------------------------------------
(* At the start. *)

\* A login that was answered with key k before the start, and its session.
LoginRow(k) == [status |-> "consumed", kind |-> "login", incident |-> 0, operator |-> Owner[k],
                keys |-> {q \in Key : Owner[q] = Owner[k]}]
OpenRow(k, c) == [status |-> "open", operator |-> Owner[k], key |-> k, challenge |-> c]

\* The sessions that are open at the start, each on a challenge of its own.
LEMMA Opened0 ==
    ASSUME Init
    PROVE  /\ \A c \in ChallengeId :
                 \/ challenge[c] = NoChallenge /\ assertion[c] = None
                 \/ \E k \in Key : /\ challenge[c] = LoginRow(k)
                                   /\ assertion[c] = [key |-> k, counter |-> 0]
           /\ \A s \in SessionId :
                 \/ session[s] = NoSession
                 \/ \E k \in Key : /\ session[s] = OpenRow(k, s) /\ s \in ChallengeId
                                   /\ challenge[s] = LoginRow(k)
                                   /\ assertion[s] = [key |-> k, counter |-> 0]
<1>1. PICK n \in 0 .. MaxSessions : n <= MaxChallenges /\ LoggedIn \in [1 .. n -> Key]
  BY ConsoleAssumption
<1>2. /\ DOMAIN LoggedIn = 1 .. n /\ 1 .. n \subseteq SessionId /\ 1 .. n \subseteq ChallengeId
      /\ \A c \in 1 .. n : LoggedIn[c] \in Key
  BY <1>1, ConsoleAssumption DEF SessionId, ChallengeId
<1>3. /\ \A c \in ChallengeId :
            IF c \in 1 .. n THEN /\ challenge[c] = LoginRow(LoggedIn[c])
                                 /\ assertion[c] = [key |-> LoggedIn[c], counter |-> 0]
                            ELSE challenge[c] = NoChallenge /\ assertion[c] = None
      /\ \A s \in SessionId : session[s] = IF s \in 1 .. n THEN OpenRow(LoggedIn[s], s) ELSE NoSession
  BY <1>2 DEF Init, SessionInit, LoginRow, OpenRow
<1> QED  BY <1>2, <1>3

LEMMA TypesAtStart ==
    ASSUME Init
    PROVE  TypeInv
<1>0. /\ 0 \in 0 .. MaxChallenges /\ 0 \in 0 .. MaxIncidents /\ ChallengeId \subseteq 0 .. MaxChallenges
      /\ None \notin Operator
  BY ConsoleAssumption, IncidentsAssumption DEF ChallengeId
<1>1. \A k \in Key : /\ LoginRow(k) \in ChallengeRow /\ Owner[k] \in Operator
                     /\ [key |-> k, counter |-> 0] \in AssertionRow
                     /\ \A c \in ChallengeId : OpenRow(k, c) \in SessionRow
  BY <1>0, ConsoleAssumption DEF LoginRow, OpenRow, ChallengeRow, AssertionRow, SessionRow
<1>2. NoChallenge \in ChallengeRow /\ NoSession \in SessionRow
  BY <1>0 DEF NoChallenge, ChallengeRow, NoSession, SessionRow
<1>3. /\ challenge \in [ChallengeId -> ChallengeRow]
      /\ assertion \in [ChallengeId -> AssertionRow \cup {None}]
      /\ session \in [SessionId -> SessionRow]
  <2>1. \A c \in ChallengeId : challenge[c] \in ChallengeRow /\ assertion[c] \in AssertionRow \cup {None}
    BY <1>1, <1>2, Opened0
  <2>2. \A s \in SessionId : session[s] \in SessionRow
    BY <1>1, <1>2, Opened0
  <2> QED  BY <2>1, <2>2 DEF Init, SessionInit
<1>4. SessionTypeOK
  BY <1>3, ConsoleAssumption DEF Init, SessionInit, SessionTypeOK
<1>5. pc \in [Handler -> Label] /\ job \in [Handler -> Job]
  BY JobTypes DEF Init, SessionInit, Label
<1>6. incident \in [IncidentId -> IncidentRow] /\ closure \in [IncidentId -> ClosureRow]
  BY <1>0 DEF Init, NoIncident, IncidentRow, NoClosure, ClosureRow
<1>7. entry \in [EntryId -> EntryRow] /\ action \in [Action -> {"absent", "open", "executed"}]
  BY <1>0 DEF Init, NoEntry, EntryRow
<1>8. Rows
  <2>1. ASSUME NEW c \in ChallengeId
        PROVE  /\ challenge[c].status = "absent" => challenge[c] = NoChallenge
               /\ assertion[c] # None => challenge[c].status # "absent"
    <3>1. \A k : LoginRow(k).status # "absent"
      BY DEF LoginRow
    <3> QED  BY <3>1, Opened0
  <2>2. ASSUME NEW s \in SessionId
        PROVE  /\ session[s].status = "absent" => session[s] = NoSession
               /\ session[s].status # "absent" => session[s].operator \in Operator
    <3>1. \A k : OpenRow(k, s).status # "absent" /\ OpenRow(k, s).operator = Owner[k]
      BY DEF OpenRow
    <3>2. NoSession.status = "absent"
      BY DEF NoSession
    <3>3. CASE session[s] = NoSession
      BY <3>2, <3>3
    <3>4. ASSUME NEW k \in Key, session[s] = OpenRow(k, s)
          PROVE  session[s].status # "absent" /\ session[s].operator \in Operator
      BY <1>1, <3>1, <3>4
    <3> QED  BY <3>3, <3>4, Opened0
  <2> QED  BY <2>1, <2>2 DEF Rows
<1> QED  BY <1>4, <1>5, <1>6, <1>7, <1>8 DEF TypeInv, TypeOK

\* The whole console: what the theorems rest on.
ConsoleInv == TypeInv /\ JobsOK /\ SessionInv /\ CounterInv /\ FileInv

LEMMA ConsoleStarts ==
    ASSUME Init
    PROVE  ConsoleInv
<1>1. \A h \in Handler : pc[h] = "idle"
  BY DEF Init, SessionInit
<1>2. JobsOK
  BY <1>1 DEF JobsOK, JobOK, Verifying
<1>3. SessionInv
  <2>1. ASSUME NEW s \in SessionId, session[s].status # "absent"
        PROVE  \E k \in Key : /\ session[s] = OpenRow(k, s) /\ s \in ChallengeId
                              /\ challenge[s] = LoginRow(k)
                              /\ assertion[s] = [key |-> k, counter |-> 0]
    BY <2>1, Opened0 DEF NoSession
  <2>2. ASSUME NEW s \in SessionId PROVE session[s].challenge \in {0, s}
    <3>1. NoSession.challenge = 0 /\ \A k : OpenRow(k, s).challenge = s
      BY DEF NoSession, OpenRow
    <3> QED  BY <3>1, Opened0
  <2>3. \A c \in ChallengeId : c # 0
    BY ConsoleAssumption DEF ChallengeId
  <2>4. ASSUME NEW s \in SessionId, session[s].status # "absent"
        PROVE  /\ session[s].challenge = s /\ s \in ChallengeId /\ assertion[s] # None
               /\ challenge[s].kind = "login" /\ challenge[s].operator = session[s].operator
               /\ challenge[s].status = "consumed" /\ session[s].key \in challenge[s].keys
               /\ assertion[s].key = session[s].key
               /\ Owner[session[s].key] = session[s].operator
    <3>1. PICK k \in Key : /\ session[s] = OpenRow(k, s) /\ s \in ChallengeId
                           /\ challenge[s] = LoginRow(k)
                           /\ assertion[s] = [key |-> k, counter |-> 0]
      BY <2>1, <2>4
    <3>2. assertion[s] # None
      BY <3>1, ConsoleAssumption
    <3> QED  BY <3>1, <3>2 DEF LoginRow, OpenRow
  <2>5. SessionsAreProven
    BY <2>2, <2>3, <2>4 DEF SessionsAreProven
  <2> QED  BY <1>1, <2>4, <2>5 DEF SessionInv, Separate, Verifying
<1>4. CounterInv
  <2>1. ASSUME NEW c \in ChallengeId, assertion[c] # None PROVE assertion[c].counter = 0
    <3>1. PICK k \in Key : assertion[c] = [key |-> k, counter |-> 0]
      BY <2>1, Opened0
    <3> QED  BY <3>1
  <2>2. \A k \in Key : counter[k] = 0
    BY DEF Init, SessionInit
  <2>3. ASSUME NEW k \in Key PROVE CounterOK(k)
    BY <2>1, <2>2 DEF CounterOK, Counted
  <2>4. \A i \in IncidentId : closure[i].challenge = 0
    BY DEF Init, NoClosure
  <2> QED  BY <2>3, <2>4, ConsoleAssumption DEF CounterInv, ChallengeId
<1>5. FileInv
  <2>1. \A i \in IncidentId : closure[i] = NoClosure /\ incident[i].state = "absent"
    BY DEF Init, NoIncident
  <2>2. \A e \in EntryId : entry[e] = NoEntry
    BY DEF Init
  <2> QED  BY <1>1, <2>1, <2>2 DEF FileInv, Reserved, JournalledFirst, ClosedOnItsEvidence
<1> QED  BY <1>2, <1>3, <1>4, <1>5, TypesAtStart DEF ConsoleInv

LEMMA ConsoleInductive == Spec => []ConsoleInv
<1>1. Init => ConsoleInv
  BY ConsoleStarts
<1>2. ConsoleInv /\ [Next]_vars => ConsoleInv'
  BY TypesStep, SessionStep, CounterStep, FileStep DEF ConsoleInv
<1> QED  BY <1>1, <1>2, PTL DEF Spec

-----------------------------------------------------------------------------
(* Theorems. *)

\* Every table of the console, every request and what it holds have their types.
THEOREM ConsoleTypeCorrect == Spec => []TypeOK
<1>1. ConsoleInv => TypeOK
  BY DEF ConsoleInv, TypeInv
<1> QED  BY <1>1, ConsoleInductive, PTL

\* A session is opened on a login challenge that LoginService::finish consumed for
\* it alone, answered by a key of its operator that the challenge was offered to.
THEOREM SessionsStandForAnswers == Spec => []SessionsAreProven
<1>1. ConsoleInv => SessionsAreProven
  BY DEF ConsoleInv, SessionInv
<1> QED  BY <1>1, ConsoleInductive, PTL

\* finish_authentication against login_counters: no two answers of a key are taken
\* with one positive counter, unless two verifications of that key crossed.
THEOREM CountersSpentOnce == Spec => []CountersAreSpent
<1>1. ASSUME NEW k \in Key PROVE Accepted(k) \subseteq Counted(k)
  BY DEF Accepted, Counted
<1>2. ConsoleInv => CountersAreSpent
  BY <1>1 DEF ConsoleInv, CounterInv, CounterOK, CountersAreSpent
<1> QED  BY <1>2, ConsoleInductive, PTL

\* close_incident: a file is closed exactly when it has its evidence, the answer of
\* a key of the operator to a challenge that froze this file and its note.
THEOREM ClosingsCarryEvidence == Spec => []ClosedOnItsEvidence
<1>1. ConsoleInv => ClosedOnItsEvidence
  BY DEF ConsoleInv, FileInv
<1> QED  BY <1>1, ConsoleInductive, PTL

\* The routes of the files journal before they write: no file, entry or closing is
\* in the base without its line, wherever a request stops.
THEOREM LinesComeFirst == Spec => []JournalledFirst
<1>1. ConsoleInv => JournalledFirst
  BY DEF ConsoleInv, FileInv
<1> QED  BY <1>1, ConsoleInductive, PTL

LEMMA ClosedStays ==
    ASSUME ConsoleInv, [Next]_vars, NEW i \in IncidentId, incident[i].state = "CLOS"
    PROVE  /\ incident'[i] = incident[i] /\ closure'[i] = closure[i]
           /\ {e \in EntryId : entry'[e].incident = i} = {e \in EntryId : entry[e].incident = i}
<1>0. /\ incident \in [IncidentId -> IncidentRow] /\ entry \in [EntryId -> EntryRow]
      /\ closure \in [IncidentId -> ClosureRow]
  BY DEF ConsoleInv, TypeInv, TypeOK
<1>1. CASE UNCHANGED incidentVars
  BY <1>1 DEF incidentVars
<1>2. ASSUME NEW h \in Handler, InsertIncident(h)
      PROVE  incident'[i] = incident[i] /\ UNCHANGED <<closure, entry>>
  BY <1>0, <1>2 DEF InsertIncident, ConsoleInv, FileInv, Reserved
<1>3. ASSUME NEW h \in Handler, CloseIncident(h)
      PROVE  incident'[i] = incident[i] /\ closure'[i] = closure[i] /\ UNCHANGED entry
  BY <1>0, <1>3 DEF CloseIncident
<1>4. ASSUME NEW h \in Handler, InsertEntry(h)
      PROVE  /\ UNCHANGED <<incident, closure>>
             /\ \A e \in EntryId : entry'[e].incident = i <=> entry[e].incident = i
  <2>1. PICK f, j : /\ f = job[h].entry /\ j = job[h].incident /\ incident[j].state = "OUVERT"
                    /\ \E a, o : entry' = [entry EXCEPT ![f] =
                                     [incident |-> j, action |-> a, operator |-> o]]
                    /\ pc[h] = "adding" /\ UNCHANGED <<incident, closure>>
    BY <1>4 DEF InsertEntry
  <2>2. entry[f] = NoEntry /\ i # j
    BY <2>1 DEF ConsoleInv, FileInv, Reserved
  <2>3. f \in EntryId /\ entry[f].incident # i
    BY <2>1, <2>2, IncidentsAssumption
       DEF NoEntry, IncidentId, ConsoleInv, JobsOK, JobOK, HoldsLine
  <2>4. entry'[f].incident # i /\ \A e \in EntryId \ {f} : entry'[e] = entry[e]
    BY <1>0, <2>1, <2>2, <2>3
  <2> QED  BY <2>1, <2>3, <2>4
<1>5. ASSUME NEW h \in Handler, Files(h), ~ InsertIncident(h), ~ InsertEntry(h), ~ CloseIncident(h)
      PROVE  UNCHANGED incidentVars
  BY <1>5 DEF Files, JournalOpening, JournalAdding, CheckClose, JournalClosing, JournalRelay, Post
<1> QED  BY <1>1, <1>2, <1>3, <1>4, <1>5, StepKinds DEF ConsoleInv, Quiet, Marks, Offers

\* Once the transaction of a closing is written, no request changes the file or its
\* evidence, nor adds to it, whatever it read before.
THEOREM ClosedIsFinal == Spec => NothingAfterClosing
<1>1. ConsoleInv /\ [Next]_vars =>
          [\A i \in IncidentId : incident[i].state = "CLOS" =>
              /\ incident'[i] = incident[i] /\ closure'[i] = closure[i]
              /\ {e \in EntryId : entry'[e].incident = i} =
                     {e \in EntryId : entry[e].incident = i}]_vars
  BY ClosedStays
<1> QED  BY <1>1, ConsoleInductive, PTL DEF Spec, NothingAfterClosing

=============================================================================
