------------------------------- MODULE Incidents -------------------------------
(***************************************************************************)
(* The incident files of the console and what it relays to ca-server       *)
(* (ra-console: incidents.rs, incident_routes.rs, http.rs, quorum.rs,      *)
(* registry_routes.rs; migrations 0008 and 0009 of oe-castore).  A file is *)
(* opened, receives notes and references of actions that ca-server froze,  *)
(* and is closed on an assertion of the operator; every write is in the    *)
(* journal of the console before it is in the base.  Titles and texts are  *)
(* left out: a note is its entry, a closing note is the body frozen with   *)
(* the challenge that asks for it, named by that challenge.                *)
(***************************************************************************)
EXTENDS ConsoleSessions

CONSTANTS
    MaxIncidents, MaxEntries,
    Action      \* identifiers of the actions that ca-server may freeze

IncidentId == 1 .. MaxIncidents
EntryId == 1 .. MaxEntries

ASSUME IncidentsAssumption ==
    MaxIncidents \in Nat /\ MaxEntries \in Nat /\ None \notin Action

VARIABLES
    incident,   \* the table incidents
    entry,      \* the table incident_actions
    closure,    \* the table incident_closures
    lines,      \* the lines of the console's journal about incidents and relays
    action      \* the table actions, which ca-server alone writes

incidentVars == <<incident, entry, closure>>
vars == <<sessionVars, incidentVars, lines, action>>

NoIncident == [state |-> "absent", opened |-> None, closed |-> None, note |-> 0]
NoEntry == [incident |-> 0, action |-> None, operator |-> None]
NoClosure == [operator |-> None, key |-> None, challenge |-> 0]

Opening(i, o) == [event |-> "opened", incident |-> i, operator |-> o, what |-> <<>>]
Adding(e, i, o, a) == [event |-> "entry", incident |-> i, operator |-> o, what |-> <<e, a>>]
Closing(i, o, k, c) == [event |-> "closed", incident |-> i, operator |-> o, what |-> <<k, c>>]
Relaying(o, op, a) == [event |-> "relayed", incident |-> 0, operator |-> o, what |-> <<op, a>>]

MayWrite(o) == role[o] \in {"ra_operateur", "ca_operateur"}

\* A request of session s that may write in file i: the session is good, the role
\* of its operator allows it (writable), and the file is open as it is now.
Writer(s) == Authenticated(s) /\ MayWrite(session[s].operator)
Writable(s, i) == Writer(s) /\ incident[i].state = "OUVERT"

\* The identifiers of a file and of an entry are drawn before the line is written.
Opened == {l.incident : l \in {m \in lines : m.event = "opened"}}
Added == {l.what[1] : l \in {m \in lines : m.event = "entry"}}
FreshIncident == {i \in IncidentId : i \notin Opened /\ \A j \in 1 .. i - 1 : j \in Opened}
FreshEntry == {e \in EntryId : e \notin Added /\ \A f \in 1 .. e - 1 : f \in Added}

-----------------------------------------------------------------------------
(* Opening a file and adding to it. *)

\* open: the line first.
JournalOpening(h, s) ==
    \E i \in FreshIncident :
        /\ pc[h] = "idle" /\ Writer(s)
        /\ lines' = lines \cup {Opening(i, session[s].operator)}
        /\ At(h, "opening", [NoJob EXCEPT !.op = "open", !.incident = i,
                                          !.operator = session[s].operator])
        /\ UNCHANGED <<registry, challenge, assertion, session, counter, raced, incidentVars, action>>

InsertIncident(h) ==
    /\ pc[h] = "opening"
    /\ incident' = [incident EXCEPT ![job[h].incident] =
           [state |-> "OUVERT", opened |-> job[h].operator, closed |-> None, note |-> 0]]
    /\ Over(h)
    /\ UNCHANGED <<registry, challenge, assertion, session, counter, raced, entry, closure,
                   lines, action>>

\* The line of an addition to a file that is open.
JournalAdding(h, s, i, a) ==
    \E e \in FreshEntry :
        /\ pc[h] = "idle" /\ Writable(s, i)
        /\ lines' = lines \cup {Adding(e, i, session[s].operator, a)}
        /\ At(h, "adding", [NoJob EXCEPT !.op = "add", !.incident = i, !.action = a,
                                         !.entry = e, !.operator = session[s].operator])
        /\ UNCHANGED <<registry, challenge, assertion, session, counter, raced, incidentVars, action>>

\* add_note.
JournalNote(h, s, i) == JournalAdding(h, s, i, None)

\* link_action: what is referred to is an action that ca-server has frozen.
JournalLink(h, s, i, a) == action[a] # "absent" /\ JournalAdding(h, s, i, a)

Linked(i) == {entry[e].action : e \in {f \in EntryId : entry[f].incident = i}} \ {None}

\* Mutant: the trigger does not look at the state of the file.
InsertLate(h) ==
    LET i == job[h].incident
    IN  /\ pc[h] = "adding"
        /\ job[h].action \notin Linked(i)
        /\ entry' = [entry EXCEPT ![job[h].entry] =
               [incident |-> i, action |-> job[h].action, operator |-> job[h].operator]]
        /\ Over(h)
        /\ UNCHANGED <<registry, challenge, assertion, session, counter, raced, incident, closure,
                       lines, action>>

\* The insertion and its trigger: nothing is added to a closed file, and an
\* action is referred to once in a file.
InsertEntry(h) ==
    LET i == job[h].incident
    IN  /\ pc[h] = "adding"
        /\ incident[i].state = "OUVERT"
        /\ job[h].action \notin Linked(i)
        /\ entry' = [entry EXCEPT ![job[h].entry] =
               [incident |-> i, action |-> job[h].action, operator |-> job[h].operator]]
        /\ Over(h)
        /\ UNCHANGED <<registry, challenge, assertion, session, counter, raced, incident, closure,
                       lines, action>>

-----------------------------------------------------------------------------
(* Closing a file. *)

\* begin_close: the body is frozen with the challenge.
BeginClose(s, i) ==
    /\ Writable(s, i)
    /\ Reassert(session[s].operator, i)
    /\ UNCHANGED <<incidentVars, lines, action>>

\* close, up to the consumption of the challenge.
CheckClose(h, s, i, c) ==
    /\ Writable(s, i)
    /\ Presented(h, session[s].operator, i, c)
    /\ UNCHANGED <<incidentVars, lines, action>>

\* Mutant: the closing goes on when the journal refuses its line.
JournalIgnored(h) ==
    LET c == job[h].challenge
    IN  /\ pc[h] = "verified" /\ job[h].op = "close"
        /\ \/ lines' = lines \cup
                  {Closing(job[h].incident, job[h].operator, assertion[c].key, c)}
           \/ UNCHANGED lines
        /\ At(h, "closing", job[h])
        /\ UNCHANGED <<registry, challenge, assertion, session, counter, raced, incidentVars, action>>

\* The journal first: the closing is given up when it refuses.
JournalClosing(h) ==
    LET c == job[h].challenge
    IN  /\ pc[h] = "verified" /\ job[h].op = "close"
        /\ lines' = lines \cup
               {Closing(job[h].incident, job[h].operator, assertion[c].key, c)}
        /\ At(h, "closing", job[h])
        /\ UNCHANGED <<registry, challenge, assertion, session, counter, raced, incidentVars, action>>

\* Mutant: the transaction writes its evidence over that of another.
CloseOver(h) ==
    LET i == job[h].incident
        c == job[h].challenge
    IN  /\ pc[h] = "closing"
        /\ closure' = [closure EXCEPT ![i] = [operator |-> job[h].operator,
                                              key |-> assertion[c].key, challenge |-> c]]
        /\ incident' = IF incident[i].state # "OUVERT" THEN incident
                       ELSE [incident EXCEPT ![i].state = "CLOS",
                                             ![i].closed = job[h].operator, ![i].note = c]
        /\ Over(h)
        /\ UNCHANGED <<registry, challenge, assertion, session, counter, raced, entry, lines, action>>

\* The transaction: the evidence, of which a file has one, then the file itself.
CloseIncident(h) ==
    LET i == job[h].incident
        c == job[h].challenge
    IN  /\ pc[h] = "closing"
        /\ closure[i] = NoClosure
        /\ incident[i].state = "OUVERT"
        /\ closure' = [closure EXCEPT ![i] = [operator |-> job[h].operator,
                                              key |-> assertion[c].key, challenge |-> c]]
        /\ incident' = [incident EXCEPT ![i].state = "CLOS",
                                        ![i].closed = job[h].operator, ![i].note = c]
        /\ Over(h)
        /\ UNCHANGED <<registry, challenge, assertion, session, counter, raced, entry, lines, action>>

-----------------------------------------------------------------------------
(* What is relayed to ca-server. *)

\* CaLink::post: ca-server takes what is posted, or refuses; the answer comes, or
\* is lost.
Post(h, s, op, a, taken) ==
    /\ Event
    /\ pc[h] = "idle" /\ Authenticated(s)
    /\ \/ /\ action' = [action EXCEPT ![a] = taken]
          /\ UNCHANGED <<pc, job>>
       \/ /\ action' \in {action, [action EXCEPT ![a] = taken]}
          /\ At(h, "answered", [NoJob EXCEPT !.op = op, !.action = a,
                                             !.operator = session[s].operator])
    /\ UNCHANGED <<role, revoked, challenge, assertion, session, counter, raced, incidentVars, lines>>

\* An action already executed is not proposed for a signature any more.
Proposed(a) == action[a] = "open"

\* A new action to freeze, or one more signer for a frozen one.
PostChallenge(h, s, a) ==
    (action[a] = "absent" \/ Proposed(a)) /\ Post(h, s, "ask", a, "open")

\* relay_assertion: the signature that completes a frozen action has it executed,
\* by ca-server, which does not execute it twice.
RelayAssertion(h, s, a) ==
    /\ action[a] # "absent"
    /\ Post(h, s, "sign", a, "executed")

\* The routes of a decision, of a revocation and of the actions on operators leave
\* it to ca-server to say that the action is executed already.
PostDecision(h, s, a) == RelayAssertion(h, s, a)

\* The route of one signature more reads the action first.
PostSignature(h, s, a) == Proposed(a) /\ RelayAssertion(h, s, a)

\* The answer is journalled, whether or not the journal takes it.
JournalRelay(h) ==
    /\ pc[h] = "answered"
    /\ \/ lines' = lines \cup {Relaying(job[h].operator, job[h].op, job[h].action)}
       \/ UNCHANGED lines
    /\ Over(h)
    /\ UNCHANGED <<registry, challenge, assertion, session, counter, raced, incidentVars, action>>

-----------------------------------------------------------------------------

Init ==
    /\ SessionInit
    /\ incident = [i \in IncidentId |-> NoIncident]
    /\ entry = [e \in EntryId |-> NoEntry]
    /\ closure = [i \in IncidentId |-> NoClosure]
    /\ lines = {}
    /\ action \in [Action -> {"absent", "open"}]   \* ca-server was there before

(* The routes. *)

OpenRoute(h) == (\E s \in SessionId : JournalOpening(h, s)) \/ InsertIncident(h)

AddRoute(h) ==
    \/ \E s \in SessionId, i \in IncidentId :
           JournalNote(h, s, i) \/ \E a \in Action : JournalLink(h, s, i, a)
    \/ InsertEntry(h)

CloseChallengeRoute == \E s \in SessionId, i \in IncidentId : BeginClose(s, i)

\* Between its steps handle_close has the challenge consumed and the assertion
\* verified.
CloseRoute(h) ==
    \/ \E s \in SessionId, i \in IncidentId, c \in ChallengeId : CheckClose(h, s, i, c)
    \/ JournalClosing(h)
    \/ CloseIncident(h)

RelayRoutes(h) ==
    \/ \E s \in SessionId, a \in Action :
           PostChallenge(h, s, a) \/ PostDecision(h, s, a) \/ PostSignature(h, s, a)
    \/ JournalRelay(h)

Next ==
    \/ SessionNext /\ UNCHANGED <<incidentVars, lines, action>>
    \/ CloseChallengeRoute
    \/ \E h \in Handler : OpenRoute(h) \/ AddRoute(h) \/ CloseRoute(h) \/ RelayRoutes(h)

Spec == Init /\ [][Next]_vars

-----------------------------------------------------------------------------
(* Properties. *)

\* A session stands for a person: each was opened on a login challenge of its
\* own, offered to a key of the operator, which that key answered; whatever the
\* requests that presented the same answer at the same time.
SessionsAreProven ==
    \A s \in SessionId : session[s].status # "absent" =>
        LET c == session[s].challenge
        IN  /\ challenge[c].kind = "login" /\ challenge[c].operator = session[s].operator
            /\ challenge[c].status = "consumed"
            /\ session[s].key \in challenge[c].keys
            /\ assertion[c].key = session[s].key
            /\ Owner[session[s].key] = session[s].operator
            /\ \A t \in SessionId \ {s} : session[t].challenge # c

\* The challenges on which something was opened or closed with key k.
Accepted(k) ==
    {c \in ChallengeId : /\ assertion[c] # None /\ assertion[c].key = k
                         /\ \/ \E s \in SessionId : session[s].challenge = c
                            \/ \E i \in IncidentId : closure[i].challenge = c}

\* A counter serves once, for logins and closings together: a copy of a key is
\* noticed, unless another verification of the same key was under way.
CountersAreSpent ==
    \A k \in Key \ raced : \A c, d \in Accepted(k) :
        c # d => assertion[c].counter # assertion[d].counter \/ assertion[c].counter = 0

\* A closed file carries the evidence of its closing, one answer to one challenge
\* that froze this file and the note it shows, by a key of the operator it names;
\* two requests to close that cross leave the evidence of the one that closed.
ClosedOnItsEvidence ==
    \A i \in IncidentId :
        /\ incident[i].state = "CLOS" <=> closure[i] # NoClosure
        /\ incident[i].state = "CLOS" =>
            LET c == closure[i].challenge
            IN  /\ challenge[c].kind = "incident_close" /\ challenge[c].status = "consumed"
                /\ challenge[c].incident = i /\ incident[i].note = c
                /\ challenge[c].operator = incident[i].closed
                /\ closure[i].operator = incident[i].closed
                /\ closure[i].key \in challenge[c].keys
                /\ Owner[closure[i].key] = incident[i].closed

\* Nothing is added to a file once it is closed, by a request that saw it open or
\* by any other, and its closing is final.
NothingAfterClosing ==
    [][\A i \in IncidentId : incident[i].state = "CLOS" =>
          /\ incident'[i] = incident[i] /\ closure'[i] = closure[i]
          /\ {e \in EntryId : entry'[e].incident = i} = {e \in EntryId : entry[e].incident = i}]_vars

\* No file, entry or closing without its line, written first and saying the same,
\* although any step may fail.
JournalledFirst ==
    /\ \A i \in IncidentId : incident[i].state # "absent" =>
           Opening(i, incident[i].opened) \in lines
    /\ \A e \in EntryId : entry[e] # NoEntry =>
           Adding(e, entry[e].incident, entry[e].operator, entry[e].action) \in lines
    /\ \A i \in IncidentId : closure[i] # NoClosure =>
           Closing(i, closure[i].operator, closure[i].key, closure[i].challenge) \in lines

\* What docs/WEBUI.md says (paragraph 14): once a key is revoked, a request of a
\* session opened with it is refused.  Some session admitted the request, and its
\* key was not revoked.
RevokedKeyEndsItsSessions ==
    [][\A h \in Handler : pc[h] = "idle" /\ pc'[h] \in {"opening", "adding", "presented"} =>
          \E s \in SessionId : /\ session[s].operator = job'[h].operator
                               /\ session[s].status = "open"
                               /\ session[s].key \notin revoked]_vars

=============================================================================
