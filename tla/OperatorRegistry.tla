--------------------------- MODULE OperatorRegistry ---------------------------
(***************************************************************************)
(* The registry of the operators and its journal (oe-actions: registry.rs, *)
(* registry_actions.rs, onboarding.rs, enrollment.rs, replay.rs, guard.rs; *)
(* ca-server: registry_check.rs).  Four tables of the database (operators, *)
(* operator_invites, webauthn_credentials and pending_credentials, the     *)
(* last two merged in key) and the chained journal, a file of its own that *)
(* no restoration of the database touches.  The journal is kept as what    *)
(* its replay yields.                                                      *)
(*                                                                         *)
(* A change of the registry is one transaction: checks, row locks, the     *)
(* line in the journal, then the commit.  A task that stands at "commit"   *)
(* has written the line and not committed; the tables change at the commit *)
(* alone.  Nothing in the code disables an operator, so disabled_at is     *)
(* left out, and the two marks of a local invitation are taken apart from  *)
(* every operator's name.  Time is not kept: an invitation, a pending key, *)
(* a challenge or an action that has expired is one nobody uses any more.  *)
(***************************************************************************)
EXTENDS Integers, FiniteSets

CONSTANTS
    None,        \* no value
    Operator,    \* names of operators (UNIQUE in the table)
    Key,         \* credential identifiers
    Founder,     \* the administrators the history starts with
    FounderKey,  \* the key each of them registered locally
    Guest,       \* operators invited by a founder, not yet registered
    Commanded,   \* the names given to each local command
    Task,        \* concurrent handlers and commands
    MaxFaults    \* local invitations, steps that fail, restarts, restorations

Role == {"auditeur", "ra_operateur", "ca_operateur", "admin"}

\* The marks of the invitations created on the host itself (created_by).
Local == {"bootstrap-admin", "recover-admin"}

ASSUME RegistryAssumption ==
    /\ Founder \subseteq Operator /\ Founder # {}
    /\ Commanded \subseteq Operator \X Local
    /\ Guest \subseteq Operator \ Founder
    /\ FounderKey \in [Founder -> Key]
    /\ \A o, p \in Founder : FounderKey[o] = FounderKey[p] => o = p
    /\ None \notin Operator \cup Key \cup Role \cup Local
    /\ Operator \cap Local = {}
    /\ None \notin Task
    /\ MaxFaults \in Nat

VARIABLES
    role,           \* operators.role, None for no row
    key,            \* the rows of webauthn_credentials and pending_credentials
    invite,         \* the last invitation of each operator
    journal,        \* what the replay of the journal yields
    registrations,  \* invitations with a registration ceremony in memory
    guard,          \* RegistryGuard
    suspect,        \* a first check found a divergence, the second is due
    pc,             \* where each task stands
    job,            \* what it works on
    faults,
    raced,          \* history: the registry changed under a decided action
    revokedAtStart  \* history: keys the journal had revoked at the last start

tables == <<role, key, invite>>

KeyRow == [status : {"absent", "pending", "active", "revoked"},
           owner : Operator \cup {None},
           from : Operator \cup Local \cup {None},  \* initiated_by
           by : Operator \cup {"recover-admin", None}]  \* confirmed_by

NoKey == [status |-> "absent", owner |-> None, from |-> None, by |-> None]

Invite == [status : {"none", "live", "consumed"},
           from : Operator \cup Local \cup {None}]

\* The database at the start, which is also the backup that Restore brings back.
FirstRole == [o \in Operator |-> IF o \in Founder THEN "admin"
                                 ELSE IF o \in Guest THEN "ra_operateur" ELSE None]

FirstKey == [k \in Key |->
    IF \E o \in Founder : FounderKey[o] = k
    THEN [status |-> "active", owner |-> CHOOSE o \in Founder : FounderKey[o] = k,
          from |-> "recover-admin", by |-> "recover-admin"]
    ELSE NoKey]

FirstInvite == [o \in Operator |->
    CASE o \in Founder -> [status |-> "consumed", from |-> "recover-admin"]
      [] o \in Guest -> [status |-> "live", from |-> CHOOSE f \in Founder : TRUE]
      [] OTHER -> [status |-> "none", from |-> None]]

-----------------------------------------------------------------------------
(* What is read in the tables. *)

ActiveKeys(o) == {k \in Key : key[k].status = "active" /\ key[k].owner = o}

\* Operators of one of the roles with a key that is not revoked.
Holders(roles) == {o \in Operator : role[o] \in roles /\ ActiveKeys(o) # {}}

HasAdmin == Holders({"admin"}) # {}

QUORUM == 2

\* What run_registry_action checks inside its transaction.
InviteAllowed(b, quorum) ==
    /\ b.kind = "invite_operator"
    /\ b.role = "admin" => quorum >= QUORUM
    /\ role[b.subject] = None

ConfirmAllowed(b, actor) ==
    /\ b.kind = "confirm_key"
    /\ key[b.subject].status = "pending"
    /\ key[b.subject].owner # actor

\* Mutant: any key may be revoked.
RevokeAny(b) ==
    /\ b.kind = "revoke_key"
    /\ key[b.subject].status = "active"

RevokeAllowed(b) ==
    /\ b.kind = "revoke_key"
    /\ key[b.subject].status = "active"
    /\ role[key[b.subject].owner] = "admin" =>
           \E k \in Key \ {b.subject} : /\ key[k].status = "active"
                                        /\ role[key[k].owner] = "admin"

\* Mutant: the threshold of the day of issue is trusted.
SetRoleOnFrozenQuorum(b, actor, quorum) ==
    /\ b.kind = "set_role"
    /\ role[b.subject] \notin {None, b.role}
    /\ b.subject # actor

SetRoleAllowed(b, actor, quorum) ==
    /\ b.kind = "set_role"
    /\ role[b.subject] \notin {None, b.role}
    /\ b.subject # actor
    /\ "admin" \in {b.role, role[b.subject]} => quorum >= QUORUM

RegistryAllowed(b, actor, quorum) ==
    \/ InviteAllowed(b, quorum)
    \/ ConfirmAllowed(b, actor)
    \/ RevokeAllowed(b)
    \/ SetRoleAllowed(b, actor, quorum)

-----------------------------------------------------------------------------
(* Row locks held until the commit: FOR UPDATE, written rows, the advisory *)
(* lock of the local commands, and the share lock a foreign key takes.     *)

Exclusive(c) ==
    CASE c.kind = "invite_operator" -> {<<"name", c.subject>>}
      [] c.kind = "confirm_key" -> {<<"pending", c.subject>>}
      [] c.kind = "revoke_key" -> {<<"key", c.subject>>}
      [] c.kind = "set_role" -> {<<"operator", c.subject>>}
      [] c.kind \in Local -> {<<"bootstrap", None>>, <<"name", c.subject>>, <<"invite", c.subject>>}
      [] c.kind = "register_key" -> {<<"invite", c.subject>>} \cup
             (IF invite[c.subject].from \in Local THEN {<<"bootstrap", None>>} ELSE {})

Shared(c) ==
    CASE c.kind = "confirm_key" -> {<<"operator", key[c.subject].owner>>}
      [] c.kind \in Local \cup {"register_key"} -> {<<"operator", c.subject>>}
      [] OTHER -> {}

\* Task t may take these locks: no open transaction holds one that conflicts.
Free(t, exclusive, shared) ==
    \A u \in Task \ {t} : pc[u] = "commit" =>
        /\ (exclusive \cup shared) \cap Exclusive(job[u].change) = {}
        /\ exclusive \cap Shared(job[u].change) = {}

-----------------------------------------------------------------------------
(* The journal, as Replay::from_events folds it. *)

\* The line a change of the registry writes before its commit; actor is the
\* operator it is imputed to.
Line(j, c) ==
    CASE c.kind = "invite_operator" -> [j EXCEPT !.role[c.subject] = c.role]
      [] c.kind = "confirm_key" ->
             [j EXCEPT !.confirmed = @ \cup {c.subject}]
      [] c.kind = "revoke_key" -> [j EXCEPT !.revoked = @ \cup {c.subject}]
      [] c.kind = "set_role" -> [j EXCEPT !.role[c.subject] = c.role]
      [] c.kind \in Local ->
             [j EXCEPT !.role[c.subject] = IF @ = None THEN "admin" ELSE @,
                       !.local = @ \cup {c.subject}]
      [] c.kind = "register_key" /\ invite[c.subject].from \in Local ->
             [j EXCEPT !.anchors = @ \cup {c.key}]
      [] OTHER -> j

\* find_divergences: what the journal attests and the tables deny.
RevokedInJournal == {k \in journal.revoked : key[k].status = "active"}

RoleDiffers == {o \in Operator : /\ None \notin {journal.role[o], role[o]}
                                 /\ journal.role[o] # role[o]}

MissingKeys ==
    {k \in (journal.anchors \cup journal.confirmed)
               \ (journal.revoked \cup journal.acknowledged) :
        key[k].status \notin {"active", "revoked"}}

Diverges == RevokedInJournal \cup RoleDiffers \cup MissingKeys # {}

-----------------------------------------------------------------------------
(* Transactions. *)

NoJob == [change |-> None, actor |-> None, challenge |-> None, key |-> None]

\* Past the signatures: the action is decided and not yet applied.
Deciding == {t \in Task : pc[t] \in {"decided", "effect", "commit"}
                          /\ job[t].challenge # None}

\* Mutant: the line is written by the caller once the change is committed.
OpenUnjournalled(t, j) ==
    /\ Free(t, Exclusive(j.change), Shared(j.change))
    /\ pc' = [pc EXCEPT ![t] = "commit"]
    /\ job' = [job EXCEPT ![t] = j]
    /\ UNCHANGED journal

\* The transaction of change j.change is played up to its line in the journal.
OpenTransaction(t, j) ==
    /\ Free(t, Exclusive(j.change), Shared(j.change))
    /\ journal' = Line(journal, j.change)
    /\ pc' = [pc EXCEPT ![t] = "commit"]
    /\ job' = [job EXCEPT ![t] = j]

\* What the commit of a change makes visible.
Written(c, actor) ==
    /\ role' = CASE c.kind \in {"invite_operator", "set_role"} ->
                      [role EXCEPT ![c.subject] = c.role]
                 [] c.kind \in Local -> [role EXCEPT ![c.subject] = "admin"]
                 [] OTHER -> role
    /\ invite' = CASE c.kind = "invite_operator" ->
                        [invite EXCEPT ![c.subject] = [status |-> "live", from |-> actor]]
                   [] c.kind \in Local ->
                        [invite EXCEPT ![c.subject] = [status |-> "live", from |-> c.kind]]
                   [] c.kind = "register_key" ->
                        [invite EXCEPT ![c.subject].status = "consumed"]
                   [] OTHER -> invite
    /\ key' = CASE c.kind = "confirm_key" ->
                     [key EXCEPT ![c.subject].status = "active", ![c.subject].by = actor]
                [] c.kind = "revoke_key" -> [key EXCEPT ![c.subject].status = "revoked"]
                [] c.kind = "register_key" ->
                     LET from == invite[c.subject].from
                     IN  [key EXCEPT ![c.key] =
                            [status |-> IF from \in Local THEN "active" ELSE "pending",
                             owner |-> c.subject,
                             from |-> from,
                             by |-> IF from = "recover-admin" THEN from ELSE None]]
                [] OTHER -> key

\* The commit.  A ceremony opened for an invitation that is replaced can no
\* longer be finished.
CommitChange(t) ==
    /\ pc[t] = "commit"
    /\ Written(job[t].change, job[t].actor)
    /\ raced' = (raced \/ Deciding \ {t} # {})
    /\ pc' = [pc EXCEPT ![t] = "idle"]
    /\ job' = [job EXCEPT ![t] = NoJob]
    /\ registrations' = IF job[t].change.kind \in Local
                        THEN registrations \ {job[t].change.subject} ELSE registrations
    /\ UNCHANGED <<journal, guard, suspect, faults, revokedAtStart>>

-----------------------------------------------------------------------------
(* Commands on the host: bootstrap_admin and recover_admin. *)

\* Both commands: the name is free or an administrator's.
LocalInvite(t, o, from) ==
    /\ pc[t] = "idle"
    /\ role[o] \in {None, "admin"}
    /\ faults < MaxFaults
    /\ faults' = faults + 1
    /\ OpenTransaction(t, [NoJob EXCEPT !.change =
           [kind |-> from, subject |-> o, role |-> "admin", key |-> None]])
    /\ UNCHANGED <<tables, registrations, guard, suspect, raced, revokedAtStart>>

\* The first administrator, as long as none has a key.
BootstrapAdmin(t, o) == ~HasAdmin /\ LocalInvite(t, o, "bootstrap-admin")

\* One more, whatever there is, for whoever holds the host and the PIN of the token.
RecoverAdmin(t, o) == LocalInvite(t, o, "recover-admin")

(* The registration of a key with the token of an invitation. *)

\* begin_registration: one ceremony per invitation, none is consumed.
BeginRegistration(o) ==
    /\ guard = "open"
    /\ invite[o].status = "live"
    /\ registrations' = registrations \cup {o}
    /\ UNCHANGED <<tables, journal, guard, suspect, pc, job, faults, raced,
                   revokedAtStart>>

\* finish_registration: the ceremony leaves the memory whatever comes next.  A
\* credential identifier is new: the authenticator draws it.
FinishRegistration(t, o) ==
    /\ guard = "open"
    /\ pc[t] = "idle"
    /\ o \in registrations
    /\ registrations' = registrations \ {o}
    /\ IF /\ invite[o].status = "live"
          /\ invite[o].from = "bootstrap-admin" => ~HasAdmin
       THEN \E k \in Key :
                /\ key[k] = NoKey
                /\ k \notin journal.anchors \cup journal.confirmed \cup journal.revoked
                /\ \A u \in Task : pc[u] = "commit" => job[u].change.key # k
                /\ OpenTransaction(t, [NoJob EXCEPT !.change =
                       [kind |-> "register_key", subject |-> o, role |-> None, key |-> k]])
       ELSE UNCHANGED <<journal, pc, job>>
    /\ UNCHANGED <<tables, guard, suspect, faults, raced, revokedAtStart>>

-----------------------------------------------------------------------------
(* The check of the registry against the journal, and its repair. *)

\* refresh: a divergence closes the guard when a second check, after the
\* debounce, still finds one.
RefreshRegistry ==
    /\ \/ /\ ~Diverges
          /\ guard' = "open" /\ suspect' = FALSE
       \/ /\ Diverges /\ ~suspect
          /\ suspect' = TRUE /\ UNCHANGED guard
       \/ /\ Diverges /\ suspect
          /\ guard' = "blocked" /\ suspect' = FALSE
    /\ UNCHANGED <<tables, journal, registrations, pc, job, faults, raced,
                   revokedAtStart>>

\* The journal says that the key was revoked.
ReapplyRevocation(k) ==
    /\ Free(None, {<<"key", k>>}, {})
    /\ key' = [key EXCEPT ![k].status = "revoked"]
    /\ UNCHANGED <<role, journal>>

\* The journal says that the operator has another role.
ReapplyRole(o) ==
    /\ Free(None, {<<"operator", o>>}, {})
    /\ role' = [role EXCEPT ![o] = journal.role[o]]
    /\ UNCHANGED <<key, journal>>

\* The loss of the key is taken note of, in the journal alone.
AcknowledgeMissing(k) ==
    /\ journal' = [journal EXCEPT !.acknowledged = @ \cup {k}]
    /\ UNCHANGED <<key, role>>

\* operators reconcile, one divergence at a time.
Reconcile ==
    /\ \/ \E k \in RevokedInJournal : ReapplyRevocation(k)
       \/ \E o \in RoleDiffers : ReapplyRole(o)
       \/ \E k \in MissingKeys : AcknowledgeMissing(k)
    /\ raced' = (raced \/ Deciding # {})
    /\ UNCHANGED <<invite, registrations, guard, suspect, pc, job, faults,
                   revokedAtStart>>

\* A task stops between two awaits after it has written something: a dropped
\* connection, an error of the database or of the journal.  The lines it wrote
\* stay.  (Before, a stop is a challenge or a token that nobody uses.)
Stop(t) ==
    /\ pc[t] \in {"decided", "effect", "commit"}
    /\ faults < MaxFaults
    /\ faults' = faults + 1
    /\ pc' = [pc EXCEPT ![t] = "idle"]
    /\ job' = [job EXCEPT ![t] = NoJob]
    /\ UNCHANGED <<tables, journal, registrations, guard, suspect, raced,
                   revokedAtStart>>

\* Mutant: the guard starts open.
RestartTrusting(survivors) ==
    /\ registrations' = {}
    /\ guard' = "open"
    /\ suspect' = FALSE
    /\ pc' = [t \in Task |-> IF t \in survivors THEN pc[t] ELSE "idle"]
    /\ job' = [t \in Task |-> IF t \in survivors THEN job[t] ELSE NoJob]
    /\ revokedAtStart' = journal.revoked
    /\ UNCHANGED <<journal, raced>>

\* ca-server stops and starts: its memory is lost, its transactions are rolled
\* back, and the guard is closed until a check says otherwise.  Survivors are
\* the tasks of the commands, processes of their own.
RestartRegistry(survivors) ==
    /\ registrations' = {}
    /\ guard' = "blocked"
    /\ suspect' = FALSE
    /\ pc' = [t \in Task |-> IF t \in survivors THEN pc[t] ELSE "idle"]
    /\ job' = [t \in Task |-> IF t \in survivors THEN job[t] ELSE NoJob]
    /\ revokedAtStart' = journal.revoked
    /\ UNCHANGED <<journal, raced>>

Commands == {t \in Task : pc[t] = "commit" /\ job[t].change.kind \in Local}

-----------------------------------------------------------------------------

RegistryInit ==
    /\ role = FirstRole
    /\ key = FirstKey
    /\ invite = FirstInvite
    /\ journal = [role |-> FirstRole,
                  local |-> Founder,
                  anchors |-> {FounderKey[o] : o \in Founder},
                  confirmed |-> {}, revoked |-> {}, acknowledged |-> {}]
    /\ registrations = {}
    /\ guard = "open" /\ suspect = FALSE
    /\ pc = [t \in Task |-> "idle"]
    /\ job = [t \in Task |-> NoJob]
    /\ faults = 0
    /\ raced = FALSE
    /\ revokedAtStart = {}

RegistryVars == <<role, key, invite, journal, registrations, guard, suspect, pc, job,
                  faults, raced, revokedAtStart>>

=============================================================================
