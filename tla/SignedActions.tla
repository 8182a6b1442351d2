---------------------------- MODULE SignedActions ----------------------------
(***************************************************************************)
(* The actions that operators sign (oe-actions: lib.rs, quorum.rs,         *)
(* revocation.rs, audit.rs; ca-server: internal.rs).  An action is frozen  *)
(* and journalled when its first challenge is issued; each operator signs  *)
(* a challenge of his own; the signature that reaches the threshold marks  *)
(* the action executed, and its effect follows.  An effect on the registry *)
(* is one of the transactions of OperatorRegistry; an effect on a request  *)
(* or a certificate is the decision or the revocation of Enrollment and    *)
(* CaIssuer, seen from here as one step that may fail.                     *)
(*                                                                         *)
(* A task holds what execute_inner read before an await in its job; what   *)
(* it reads again inside a transaction is read from the tables.            *)
(***************************************************************************)
EXTENDS OperatorRegistry

CONSTANTS
    Target,         \* requests and certificates
    CaOnly,         \* the requests of the internal_client profile
    TwoPerson,      \* the requests of a TWO_PERSON_PROFILES profile
    Body,           \* actions the operators may ask for
    FirstSigner,    \* whose keys are proposed first for each of them
    MaxActions, MaxChallenges

ActionId == 1 .. MaxActions
ChallengeId == 1 .. MaxChallenges

External == {"approve_request", "reject_request", "revoke_certificate"}
OnRegistry == {"invite_operator", "confirm_key", "revoke_key", "set_role"}

ASSUME ActionsAssumption ==
    /\ CaOnly \subseteq Target /\ TwoPerson \subseteq Target
    /\ None \notin Target /\ None \notin Body /\ None \notin ChallengeId
    /\ MaxActions \in Nat /\ MaxChallenges \in Nat
    /\ Body \subseteq [kind : External \cup OnRegistry,
                       subject : Operator \cup Key \cup Target,
                       role : Role \cup {None}, key : {None}]
    /\ FirstSigner \in [Body -> SUBSET Operator]
    /\ \A b \in Body :
          /\ b.kind \in External => b.subject \in Target
          /\ b.kind \in {"confirm_key", "revoke_key"} => b.subject \in Key
          /\ b.kind \in {"invite_operator", "set_role"} =>
                 b.subject \in Operator /\ b.role \in Role

VARIABLES
    action,     \* the table actions
    challenge,  \* the table action_challenges
    evidence,   \* the table decision_evidence
    ceremony,   \* Service.pending: the keys each challenge may be signed with
    target,     \* whether a request is pending, a certificate issued
    lines,      \* the lines of the journal about actions
    applied     \* history: how often the effect of an action took place

actionVars == <<action, challenge, evidence, ceremony, target, lines, applied>>
vars == <<RegistryVars, actionVars>>

NoAction == [status |-> "absent", body |-> None, required |-> 0]
NoChallenge == [status |-> "absent", action |-> 0]

AllowedRoles(b) ==
    CASE b.kind \in {"approve_request", "reject_request"} -> {"ra_operateur", "ca_operateur"}
      [] b.kind = "revoke_certificate" -> {"ca_operateur"}
      [] OTHER -> {"admin"}

Signatures(a) == {e \in evidence : e.action = a}
Signers(a) == {e.operator : e \in Signatures(a)}

-----------------------------------------------------------------------------
(* Issue. *)

\* required_signatures, from the registry as it is now.
Required(b) ==
    IF \/ b.kind = "revoke_certificate"
       \/ b.kind = "approve_request" /\ b.subject \in TwoPerson
       \/ b.kind \in {"invite_operator", "set_role"} /\ b.role = "admin"
       \/ b.kind = "set_role" /\ role[b.subject] = "admin"
    THEN QUORUM ELSE 1

\* check_action: check_target, check_revocation, or the registry transaction
\* played and rolled back.
Checked(b, actor, quorum) ==
    IF b.kind \in External
    THEN /\ target[b.subject] = "open"
         /\ b.kind = "approve_request" /\ b.subject \in CaOnly => role[actor] = "ca_operateur"
    ELSE RegistryAllowed(b, actor, quorum)

Eligible(o, b) == role[o] \in AllowedRoles(b) /\ ActiveKeys(o) # {}

FreshAction == {a \in ActionId : lines.issued[a] = None /\ \A b \in 1 .. a - 1 : lines.issued[b] # None}
FreshChallenge == {c \in ChallengeId : /\ challenge[c] = NoChallenge
                                       /\ \A d \in 1 .. c - 1 : challenge[d] # NoChallenge}

\* The challenge and its ceremony, on the keys that are active now.
Challenged(c, a, o) ==
    /\ challenge' = [challenge EXCEPT ![c] = [status |-> "fresh", action |-> a]]
    /\ ceremony' = [ceremony EXCEPT ![c] = ActiveKeys(o)]

\* issue_challenge.  The line is in the journal before the rows: a failure
\* between the two leaves the line of an action that nobody can sign.
IssueChallenge(b, o) ==
    \E a \in FreshAction, c \in FreshChallenge :
        LET required == Required(b)
        IN  /\ guard = "open"
            /\ Eligible(o, b)
            /\ required > 1 => Cardinality(Holders(AllowedRoles(b))) >= required
            /\ Checked(b, o, required)
            /\ lines' = [lines EXCEPT !.issued[a] = b]
            /\ action' = [action EXCEPT ![a] =
                   [status |-> "open", body |-> b, required |-> required]]
            /\ Challenged(c, a, o)
            /\ UNCHANGED <<RegistryVars, evidence, target, applied>>

\* issue_challenge_for: one more signer for an action that is already frozen.
IssueChallengeFor(a, o) ==
    \E c \in FreshChallenge :
        /\ guard = "open"
        /\ action[a].status = "open"
        /\ Eligible(o, action[a].body)
        /\ o \notin Signers(a)
        /\ Checked(action[a].body, o, action[a].required)
        /\ Challenged(c, a, o)
        /\ UNCHANGED <<RegistryVars, action, evidence, target, lines, applied>>

-----------------------------------------------------------------------------
(* Execution. *)

\* execute_inner up to its transaction: the challenge and its action are read,
\* the ceremony leaves the memory (one attempt), the key that answered and its
\* operator are read, the assertion is verified, the target checked again.  The
\* reads follow one another; what one of them missed, the transaction sees.  An
\* assertion that does not verify leaves a challenge nobody can answer.
Present(t, c, k) ==
    LET a == challenge[c].action
        b == action[a].body
        o == key[k].owner
    IN  /\ guard = "open"
        /\ pc[t] = "idle"
        /\ challenge[c].status = "fresh"
        /\ action[a].status = "open"
        /\ k \in ceremony[c]
        /\ ceremony' = [ceremony EXCEPT ![c] = {}]
        /\ b.kind \in OnRegistry => Free(t, Exclusive(b), Shared(b))
        /\ IF /\ key[k].status = "active"
              /\ role[o] \in AllowedRoles(b)
              /\ Checked(b, o, action[a].required)
           THEN /\ pc' = [pc EXCEPT ![t] = "verified"]
                /\ job' = [job EXCEPT ![t] =
                              [change |-> b, actor |-> o, challenge |-> c, key |-> k]]
           ELSE UNCHANGED <<pc, job>>
        /\ UNCHANGED <<tables, journal, registrations, guard, suspect, faults,
                       raced, revokedAtStart, action, challenge, evidence, target, lines,
                       applied>>

\* Every signer still holds the role and a key that is not revoked.
StillEntitled(a, signatures) ==
    \A e \in signatures : /\ role[e.operator] \in AllowedRoles(action[a].body)
                          /\ key[e.key].status # "revoked"

\* Mutant: executed_at is not read again under the lock.
TakenUnlocked(c, o) ==
    /\ challenge[c].status = "fresh"
    /\ o \notin Signers(challenge[c].action)

\* What the transaction takes: the first answer to a challenge, the first
\* signature of an operator, and none once the action is executed.
Taken(c, o) ==
    /\ action[challenge[c].action].status # "executed"
    /\ challenge[c].status = "fresh"
    /\ o \notin Signers(challenge[c].action)

\* The transaction that takes the signature, under the lock of the action.
Sign(t) ==
    LET c == job[t].challenge
        a == challenge[c].action
        e == [challenge |-> c, action |-> a, operator |-> job[t].actor, key |-> job[t].key]
        signatures == Signatures(a) \cup {e}
        reached == Cardinality(signatures) >= action[a].required
    IN  /\ pc[t] = "verified"
        /\ Free(t, {<<"key", job[t].key>>}, {<<"operator", job[t].actor>>})
        /\ IF Taken(c, job[t].actor) /\ (reached => StillEntitled(a, signatures))
           THEN /\ evidence' = signatures \cup evidence
                /\ challenge' = [challenge EXCEPT ![c].status = "consumed"]
                /\ IF reached
                   THEN /\ action' = [action EXCEPT ![a].status = "executed"]
                        /\ pc' = [pc EXCEPT ![t] = "decided"]
                        /\ UNCHANGED job
                   ELSE /\ pc' = [pc EXCEPT ![t] = "idle"]
                        /\ job' = [job EXCEPT ![t] = NoJob]
                        /\ UNCHANGED action
           ELSE /\ pc' = [pc EXCEPT ![t] = "idle"]
                /\ job' = [job EXCEPT ![t] = NoJob]
                /\ UNCHANGED <<evidence, challenge, action>>
        /\ UNCHANGED <<tables, journal, registrations, guard, suspect, faults,
                       raced, revokedAtStart, ceremony, target, lines, applied>>

\* Mutant: the line names the operator who signed last.
JournalLastSigner(t) ==
    LET a == challenge[job[t].challenge].action
    IN  /\ pc[t] = "decided"
        /\ lines' = [lines EXCEPT !.executed[a] = {job[t].actor}]
        /\ pc' = [pc EXCEPT ![t] = "effect"]
        /\ UNCHANGED <<tables, journal, registrations, guard, suspect, job, faults,
                       raced, revokedAtStart, action, challenge, evidence, ceremony, target,
                       applied>>

\* The journal before the effect.
JournalExecution(t) ==
    LET a == challenge[job[t].challenge].action
    IN  /\ pc[t] = "decided"
        /\ lines' = [lines EXCEPT !.executed[a] = Signers(a)]
        /\ pc' = [pc EXCEPT ![t] = "effect"]
        /\ UNCHANGED <<tables, journal, registrations, guard, suspect, job, faults,
                       raced, revokedAtStart, action, challenge, evidence, ceremony, target,
                       applied>>

Applied(t) == [applied EXCEPT ![challenge[job[t].challenge].action] = @ + 1]

\* The decision on a request or the revocation of a certificate: it takes
\* place if the target is still open, and it may fail.
ApplyToTarget(t) ==
    /\ pc[t] = "effect"
    /\ job[t].change.kind \in External
    /\ pc' = [pc EXCEPT ![t] = "idle"]
    /\ job' = [job EXCEPT ![t] = NoJob]
    /\ IF target[job[t].change.subject] = "open"
       THEN /\ target' = [target EXCEPT ![job[t].change.subject] = "closed"]
            /\ applied' = Applied(t)
       ELSE UNCHANGED <<target, applied>>
    /\ UNCHANGED <<tables, journal, registrations, guard, suspect, faults, raced,
                   revokedAtStart, action, challenge, evidence, ceremony, lines>>

\* run_registry_action for good: checked again, then journalled.  The actor is
\* the one read before the signature was taken.
OpenEffect(t) ==
    LET b == job[t].change
        a == challenge[job[t].challenge].action
    IN  /\ pc[t] = "effect"
        /\ b.kind \in OnRegistry
        /\ Free(t, Exclusive(b), Shared(b))
        /\ IF RegistryAllowed(b, job[t].actor, action[a].required)
           THEN OpenTransaction(t, job[t])
           ELSE /\ pc' = [pc EXCEPT ![t] = "idle"]
                /\ job' = [job EXCEPT ![t] = NoJob]
                /\ UNCHANGED journal
        /\ UNCHANGED <<tables, registrations, guard, suspect, faults, raced,
                       revokedAtStart, actionVars>>

Commit(t) ==
    /\ CommitChange(t)
    /\ applied' = IF job[t].challenge = None THEN applied ELSE Applied(t)
    /\ UNCHANGED <<action, challenge, evidence, ceremony, target, lines>>

-----------------------------------------------------------------------------

\* The same database after a stop.
Restart ==
    /\ faults < MaxFaults
    /\ faults' = faults + 1
    /\ RestartRegistry(Commands)
    /\ ceremony' = [c \in ChallengeId |-> {}]
    /\ UNCHANGED <<tables, action, challenge, evidence, target, lines, applied>>

\* The database of the backup, with the journal of today.
Restore ==
    /\ faults < MaxFaults
    /\ faults' = faults + 1
    /\ role' = FirstRole /\ key' = FirstKey /\ invite' = FirstInvite
    /\ RestartRegistry({})
    /\ action' = [a \in ActionId |-> NoAction]
    /\ challenge' = [c \in ChallengeId |-> NoChallenge]
    /\ evidence' = {}
    /\ ceremony' = [c \in ChallengeId |-> {}]
    /\ target' = [x \in Target |-> "open"]
    /\ UNCHANGED <<lines, applied>>

Init ==
    /\ RegistryInit
    /\ action = [a \in ActionId |-> NoAction]
    /\ challenge = [c \in ChallengeId |-> NoChallenge]
    /\ evidence = {}
    /\ ceremony = [c \in ChallengeId |-> {}]
    /\ target = [x \in Target |-> "open"]
    /\ lines = [issued |-> [a \in ActionId |-> None], executed |-> [a \in ActionId |-> {}]]
    /\ applied = [a \in ActionId |-> 0]

(* The commands of the host, and the routes of the internal link. *)

LocalCommands ==
    \E t \in Task, x \in Commanded :
        \/ x[2] = "bootstrap-admin" /\ BootstrapAdmin(t, x[1])
        \/ x[2] = "recover-admin" /\ RecoverAdmin(t, x[1])

RegisterRoutes ==
    \/ \E o \in Operator : BeginRegistration(o)
    \/ \E t \in Task, o \in Operator : FinishRegistration(t, o)

\* An action to freeze, or one more signer for an action that is frozen.
ChallengeRoute ==
    \/ \E b \in Body : \E o \in FirstSigner[b] : IssueChallenge(b, o)
    \/ \E a \in ActionId, o \in Operator : IssueChallengeFor(a, o)

\* An assertion, whose execution goes on as far as the quorum allows.
ActionsRoute ==
    \E t \in Task :
        \/ \E c \in ChallengeId, k \in Key : Present(t, c, k)
        \/ Sign(t) \/ JournalExecution(t) \/ ApplyToTarget(t) \/ OpenEffect(t)

RegistrySteps ==
    \/ LocalCommands
    \/ RegisterRoutes
    \/ RefreshRegistry
    \/ Reconcile
    \/ \E t \in Task : Stop(t)

Next ==
    \/ RegistrySteps /\ UNCHANGED actionVars
    \/ ChallengeRoute
    \/ ActionsRoute
    \/ \E t \in Task : Commit(t)
    \/ Restart
    \/ Restore

Spec == Init /\ [][Next]_vars

-----------------------------------------------------------------------------
(* Properties. *)

ActionRow == [status : {"absent", "open", "executed"},
              body : Body \cup {None}, required : 0 .. QUORUM]
ChallengeRow == [status : {"absent", "fresh", "consumed"}, action : 0 .. MaxActions]
Evidence == [challenge : ChallengeId, action : ActionId, operator : Operator, key : Key]

\* What a task may work on: an action, a local command or a registration.
Change == [kind : External \cup OnRegistry \cup Local \cup {"register_key"},
           subject : Operator \cup Key \cup Target,
           role : Role \cup {None}, key : Key \cup {None}]
Job == [change : Change \cup {None}, actor : Operator \cup {None},
        challenge : ChallengeId \cup {None}, key : Key \cup {None}]
Replayed == [role : [Operator -> Role \cup {None}], local : SUBSET Operator,
             anchors : SUBSET Key, confirmed : SUBSET Key, revoked : SUBSET Key,
             acknowledged : SUBSET Key]
Lines == [issued : [ActionId -> Body \cup {None}], executed : [ActionId -> SUBSET Operator]]

\* The types of the tables, of the journal and of the memory of the service; the
\* journal names operators, never keys, as the signers of an action.
TypeOK ==
    /\ role \in [Operator -> Role \cup {None}]
    /\ key \in [Key -> KeyRow]
    /\ invite \in [Operator -> Invite]
    /\ journal \in Replayed
    /\ registrations \subseteq Operator
    /\ guard \in {"open", "blocked"} /\ suspect \in BOOLEAN /\ raced \in BOOLEAN
    /\ pc \in [Task -> {"idle", "verified", "decided", "effect", "commit"}]
    /\ job \in [Task -> Job]
    /\ faults \in 0 .. MaxFaults
    /\ revokedAtStart \subseteq Key
    /\ action \in [ActionId -> ActionRow]
    /\ challenge \in [ChallengeId -> ChallengeRow]
    /\ evidence \subseteq Evidence
    /\ ceremony \in [ChallengeId -> SUBSET Key]
    /\ target \in [Target -> {"open", "closed"}]
    /\ lines \in Lines
    /\ applied \in [ActionId -> Nat]

\* The tasks past the signatures of action a.
Executing(a) == {t \in Deciding : challenge[job[t].challenge].action = a}

\* An action is executed at most once, whatever the attempts, the restarts and
\* the signatures that arrive together: what took effect and what is about to
\* never add up to two ("ne jamais executer deux fois").
ExecutedOnce == \A a \in ActionId : applied[a] + Cardinality(Executing(a)) <= 1

\* What takes effect is the body that was journalled before anyone signed, and
\* the journal names as many distinct operators as the policy asks for it.
AppliedAsSigned ==
    \A a \in ActionId : applied[a] > 0 =>
        LET b == lines.issued[a]
        IN  /\ b # None
            /\ Cardinality(lines.executed[a]) >=
                 IF \/ b.kind = "revoke_certificate"
                    \/ b.kind = "approve_request" /\ b.subject \in TwoPerson
                    \/ b.kind \in {"invite_operator", "set_role"} /\ b.role = "admin"
                 THEN QUORUM ELSE 1
            /\ action[a].status = "executed" => action[a].body = b

\* The journal tells of an action that n operators signed and that gives o the role.
Told(o, newRole, n) ==
    \E a \in ActionId : /\ lines.issued[a] # None
                        /\ lines.issued[a].subject = o
                        /\ lines.issued[a].role = newRole
                        /\ Cardinality(lines.executed[a]) >= n

\* The role of administrator is given or taken by the commands of the host or
\* by an action that two operators signed, even when the threshold was frozen
\* before the operator became an administrator.  One case is left: an operator
\* whose row never came, or was lost, keeps its role in the journal when a
\* command of the host makes it an administrator, and reconcile gives it back.
AdminChangesTakeTwo ==
    [][\A o \in Operator :
          /\ role'[o] # role[o]
          /\ "admin" \in {role[o], role'[o]}
          => \/ Restore
             \/ role[o] = None /\ o \in journal.local
             \/ Told(o, role'[o], QUORUM)
             \/ Reconcile /\ role[o] = "admin" /\ o \in journal.local /\ Told(o, role'[o], 1)]_vars

\* A key that the journal had revoked when the server started takes part in no
\* decision, although a restored database shows it active.
RevokedStaysOut ==
    [][\A a \in ActionId :
          action[a].status # "executed" /\ action'[a].status = "executed" =>
              \A e \in Signatures(a)' : e.key \notin revokedAtStart]_vars

\* An applied change leaves an administrator with a key, as long as the registry
\* has not changed while another action was between its signatures and its effect.
AdministratorRemains ==
    [][\A t \in Task : pc[t] = "commit" /\ pc'[t] = "idle" /\ HasAdmin /\ ~raced
                       => HasAdmin']_vars

\* The chain of operators audit: a local key that the journal attests, or a key
\* confirmed by an executed action of enough other operators, whose own keys
\* have a chain (check_confirmation).
Anchored(k) == key[k].from \in Local /\ k \in journal.anchors

Confirmed(k, sound) ==
    \E a \in ActionId :
        /\ action[a].status = "executed"
        /\ action[a].body.kind = "confirm_key" /\ action[a].body.subject = k
        /\ Signers(a) # {} /\ Cardinality(Signers(a)) >= action[a].required
        /\ \A e \in Signatures(a) : /\ key[e.key].owner = e.operator
                                    /\ e.operator # key[k].owner
                                    /\ e.key \in sound
        /\ lines.issued[a] = action[a].body
        /\ key[k].by \in Signers(a)
        /\ k \in journal.confirmed

\* Founded on the anchors alone: in every set that holds the anchors and what it
\* confirms.
Closed(S) ==
    /\ \A k \in Key : Anchored(k) => k \in S
    /\ \A k \in Key : key[k].from \notin Local /\ Confirmed(k, S) => k \in S
Sound == {k \in Key : \A S \in SUBSET Key : Closed(S) => k \in S}

\* The keys that operators audit would name.
Findings == {k \in Key : key[k].status = "active"} \ Sound

\* operators audit finds nothing in a registry that only the program wrote,
\* wherever it stopped and whatever was restored.
AuditFindsNothing == Findings = {}

=============================================================================
