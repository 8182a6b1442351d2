------------------------- MODULE SignedActionsProofs -------------------------
(***************************************************************************)
(* The registry of the operators and the actions they sign, for any        *)
(* operators, keys, actions, handlers and faults.                          *)
(*                                                                         *)
(* A change of the registry is decided on what is read in its transaction, *)
(* journalled, and made at its commit, other steps in between:             *)
(* TransactionsOK says what the row locks keep true meanwhile, and         *)
(* everything that is proved of the registry rests on it.                  *)
(***************************************************************************)
EXTENDS SignedActions, FiniteSetTheorems, FunctionTheorems, TLAPS

Label == {"idle", "verified", "decided", "effect", "commit"}

\* The number of signatures an action needs whoever asks for it.
Need(b) ==
    IF \/ b.kind = "revoke_certificate"
       \/ b.kind = "approve_request" /\ b.subject \in TwoPerson
       \/ b.kind \in {"invite_operator", "set_role"} /\ b.role = "admin"
    THEN QUORUM ELSE 1

-----------------------------------------------------------------------------
(* Types. *)

\* What the commands and the registrations change on their own.
HostChange == [kind : Local, subject : Operator, role : {"admin"}, key : {None}]
KeyChange == [kind : {"register_key"}, subject : Operator, role : {None}, key : Key]

RowsOK ==
    /\ \A k \in Key : key[k].status = "absent" => key[k] = NoKey
    /\ \A k \in Key : key[k].status # "absent" => key[k].owner \in Operator
    /\ \A k \in Key : key[k].status = "pending" => key[k].from \notin Local /\ key[k].by = None
    /\ \A o \in Operator : invite[o].status # "none" => role[o] # None

ActionOK(a) ==
    /\ action[a].status = "absent" => \A e \in evidence : e.action # a
    /\ action[a].status # "absent" =>
           /\ action[a].body \in Body /\ lines.issued[a] = action[a].body
           /\ action[a].required \in Need(action[a].body) .. QUORUM
           /\ action[a].body.kind = "confirm_key" => action[a].required = 1

ChallengeOK(c) ==
    /\ challenge[c].status = "absent" => challenge[c] = NoChallenge /\ ceremony[c] = {}
    /\ challenge[c].status # "absent" =>
           challenge[c].action \in ActionId /\ action[challenge[c].action].status # "absent"

\* What a task works on.
ActionOf(t) == challenge[job[t].challenge].action

MySignature(t) == [challenge |-> job[t].challenge, action |-> ActionOf(t),
                   operator |-> job[t].actor, key |-> job[t].key]

JobIs(l, j) ==
    \/ l = "idle" /\ j = NoJob
    \/ /\ l = "commit" /\ j.change \in HostChange \cup KeyChange
       /\ j.actor = None /\ j.challenge = None /\ j.key = None
    \/ /\ l # "idle" /\ j.challenge \in ChallengeId
       /\ challenge[j.challenge].status # "absent"
       /\ j.change = action[challenge[j.challenge].action].body
       /\ j.actor \in Operator /\ j.key \in Key
       /\ l = "commit" => j.change.kind \in OnRegistry

JobOK(t) == JobIs(pc[t], job[t])

\* The changes of the registry.
Placed == {b \in Body : b.kind \in OnRegistry} \cup HostChange \cup KeyChange

TypeInv ==
    /\ TypeOK
    /\ RowsOK
    /\ \A a \in ActionId : ActionOK(a)
    /\ \A c \in ChallengeId : ChallengeOK(c)
    /\ \A t \in Task : JobOK(t)

LEMMA PlacedTypes ==
    /\ Placed \subseteq Change
    /\ \A c \in Placed :
          /\ c.kind \in {"invite_operator", "set_role"} =>
                 c.subject \in Operator /\ c.role \in Role
          /\ c.kind \in {"confirm_key", "revoke_key"} => c.subject \in Key
          /\ c.kind \in Local \cup {"register_key"} => c.subject \in Operator
          /\ c.kind \in Local => c.role = "admin"
          /\ c.kind = "register_key" => c.key \in Key
          /\ c.kind \in OnRegistry \cup Local \cup {"register_key"}
<1>1. ASSUME NEW b \in Body, b.kind \in OnRegistry
      PROVE  /\ b \in Change
             /\ b.kind \in {"invite_operator", "set_role"} => b.subject \in Operator /\ b.role \in Role
             /\ b.kind \in {"confirm_key", "revoke_key"} => b.subject \in Key
             /\ b.kind \notin Local \cup {"register_key"}
  <2>1. b \in [kind : External \cup OnRegistry, subject : Operator \cup Key \cup Target,
               role : Role \cup {None}, key : {None}]
    BY ActionsAssumption
  <2>2. b \in Change
    BY <2>1 DEF Change
  <2> QED  BY <1>1, <2>2, ActionsAssumption DEF OnRegistry, Local
<1>2. HostChange \subseteq Change
  BY DEF HostChange, Change, Role
<1>3. KeyChange \subseteq Change
  BY DEF KeyChange, Change
<1> QED  BY <1>1, <1>2, <1>3 DEF Placed, HostChange, KeyChange, Local

LEMMA LineFields ==
    ASSUME NEW j \in Replayed, NEW c \in Placed
    PROVE  /\ Line(j, c) \in Replayed
           /\ Line(j, c).role =
                IF c.kind \in {"invite_operator", "set_role"} THEN [j.role EXCEPT ![c.subject] = c.role]
                ELSE IF c.kind \in Local
                     THEN [j.role EXCEPT ![c.subject] = IF @ = None THEN "admin" ELSE @]
                     ELSE j.role
           /\ Line(j, c).local = IF c.kind \in Local THEN j.local \cup {c.subject} ELSE j.local
           /\ Line(j, c).anchors = IF c.kind = "register_key" /\ invite[c.subject].from \in Local
                                   THEN j.anchors \cup {c.key} ELSE j.anchors
           /\ Line(j, c).confirmed = IF c.kind = "confirm_key" THEN j.confirmed \cup {c.subject}
                                     ELSE j.confirmed
           /\ Line(j, c).revoked = IF c.kind = "revoke_key" THEN j.revoked \cup {c.subject}
                                   ELSE j.revoked
BY PlacedTypes DEF Line, Replayed, OnRegistry, Local, Role

LEMMA WrittenTypes ==
    ASSUME TypeOK, NEW c \in Placed, NEW actor \in Operator \cup {None}, Written(c, actor)
    PROVE  /\ role' \in [Operator -> Role \cup {None}]
           /\ key' \in [Key -> KeyRow]
           /\ invite' \in [Operator -> Invite]
BY PlacedTypes DEF TypeOK, Written, KeyRow, Invite, OnRegistry, Local, Role

\* What the tables hold at the start, and after a restoration.
LEMMA FirstTypes ==
    /\ FirstRole \in [Operator -> Role \cup {None}]
    /\ FirstKey \in [Key -> KeyRow]
    /\ FirstInvite \in [Operator -> Invite]
    /\ \A o \in Founder : FirstRole[o] = "admin" /\ FirstInvite[o].status = "consumed"
                          /\ FirstKey[FounderKey[o]].status = "active"
                          /\ FirstKey[FounderKey[o]].owner = o
    /\ \A k \in Key : FirstKey[k] = NoKey \/ \E o \in Founder :
           FounderKey[o] = k /\ FirstKey[k] = [status |-> "active", owner |-> o,
                                               from |-> "recover-admin", by |-> "recover-admin"]
    /\ \A o \in Guest : FirstRole[o] = "ra_operateur"
    /\ \A o \in Operator \ (Founder \cup Guest) :
           FirstRole[o] = None /\ FirstInvite[o].status = "none"
<1> USE RegistryAssumption
<1>1. FirstRole \in [Operator -> Role \cup {None}]
  BY DEF FirstRole, Role
<1>2. ASSUME NEW k \in Key
      PROVE  \/ FirstKey[k] = NoKey
             \/ \E o \in Founder :
                    FounderKey[o] = k /\ FirstKey[k] = [status |-> "active", owner |-> o,
                                        from |-> "recover-admin", by |-> "recover-admin"]
  <2> DEFINE owner == CHOOSE o \in Founder : FounderKey[o] = k
  <2>1. CASE \E o \in Founder : FounderKey[o] = k
    <3>1. owner \in Founder /\ FounderKey[owner] = k
      BY <2>1
    <3>2. FirstKey[k] = [status |-> "active", owner |-> owner,
                         from |-> "recover-admin", by |-> "recover-admin"]
      BY <2>1 DEF FirstKey
    <3> HIDE DEF owner
    <3> QED  BY <3>1, <3>2
  <2>2. CASE ~ \E o \in Founder : FounderKey[o] = k
    BY <2>2 DEF FirstKey
  <2> QED  BY <2>1, <2>2
<1>3. FirstKey \in [Key -> KeyRow]
  <2>1. ASSUME NEW k \in Key PROVE FirstKey[k] \in KeyRow
    <3>1. CASE FirstKey[k] = NoKey
      BY <3>1 DEF NoKey, KeyRow
    <3>2. ASSUME NEW o \in Founder,
                 FirstKey[k] = [status |-> "active", owner |-> o,
                                from |-> "recover-admin", by |-> "recover-admin"]
          PROVE  FirstKey[k] \in KeyRow
      BY <3>2 DEF KeyRow, Local
    <3> QED  BY <1>2, <3>1, <3>2
  <2>2. DOMAIN FirstKey = Key /\ FirstKey = [k \in Key |-> FirstKey[k]]
    BY DEF FirstKey
  <2> QED  BY <2>1, <2>2
<1>4. FirstInvite \in [Operator -> Invite]
  <2>1. (CHOOSE f \in Founder : TRUE) \in Founder
    OBVIOUS
  <2> QED  BY <2>1 DEF FirstInvite, Invite, Local
<1>5. ASSUME NEW o \in Founder
      PROVE  FirstKey[FounderKey[o]].status = "active" /\ FirstKey[FounderKey[o]].owner = o
  <2>1. FirstKey[FounderKey[o]] # NoKey
    BY DEF FirstKey, NoKey
  <2>2. PICK p \in Founder : /\ FounderKey[p] = FounderKey[o]
                             /\ FirstKey[FounderKey[o]] =
                                  [status |-> "active", owner |-> p,
                                   from |-> "recover-admin", by |-> "recover-admin"]
    BY <1>2, <2>1
  <2> QED  BY <2>2
<1> QED  BY <1>1, <1>2, <1>3, <1>4, <1>5 DEF FirstRole, FirstInvite

LEMMA TypeInit == Init => TypeInv
<1> SUFFICES ASSUME Init PROVE TypeInv
  OBVIOUS
<1> USE FirstTypes DEF Init, RegistryInit
<1>1. journal \in Replayed /\ MaxFaults \in Nat /\ 0 \in 0 .. MaxFaults
  BY RegistryAssumption DEF Replayed
<1>2. NoJob \in Job /\ NoAction \in ActionRow /\ NoChallenge \in ChallengeRow
  BY ActionsAssumption DEF NoJob, Job, NoAction, ActionRow, NoChallenge, ChallengeRow, QUORUM
<1>3. TypeOK
  <2>1. /\ action \in [ActionId -> ActionRow]
        /\ challenge \in [ChallengeId -> ChallengeRow]
        /\ evidence \subseteq Evidence
        /\ ceremony \in [ChallengeId -> SUBSET Key]
        /\ target \in [Target -> {"open", "closed"}]
        /\ applied \in [ActionId -> Nat]
    BY <1>2
  <2>2. lines \in Lines
    BY DEF Lines
  <2>3. pc \in [Task -> Label] /\ job \in [Task -> Job]
    BY <1>2 DEF Label
  <2> QED  BY <1>1, <2>1, <2>2, <2>3 DEF TypeOK, Label
<1>4. RowsOK
  <2>1. \A k \in Key : /\ key[k].status = "absent" => key[k] = NoKey
                       /\ key[k].status # "absent" => key[k].owner \in Operator
                       /\ key[k].status # "pending"
    BY RegistryAssumption DEF NoKey
  <2>2. \A o \in Operator : invite[o].status # "none" => role[o] # None
    BY RegistryAssumption DEF Role
  <2> QED  BY <2>1, <2>2 DEF RowsOK
<1> QED  BY <1>3, <1>4 DEF TypeInv, ActionOK, ChallengeOK, JobOK, JobIs, NoAction, NoChallenge

\* Challenges are of the action they were issued for, whose body is frozen.
Persist == \A c \in ChallengeId : challenge[c].status # "absent" =>
    /\ challenge'[c].status # "absent" /\ challenge'[c].action = challenge[c].action
    /\ action'[challenge[c].action].body = action[challenge[c].action].body

LEMMA JobsKept ==
    ASSUME TypeInv, Persist, NEW t \in Task, NEW l \in Label, NEW j \in Job, JobIs(l, j),
           pc' = [pc EXCEPT ![t] = l], job' = [job EXCEPT ![t] = j]
    PROVE  /\ pc' \in [Task -> Label] /\ job' \in [Task -> Job]
           /\ \A u \in Task : JobOK(u)'
<1>1. pc \in [Task -> Label] /\ job \in [Task -> Job] /\ \A u \in Task : JobIs(pc[u], job[u])
  BY DEF TypeInv, TypeOK, Label, JobOK
<1>2. \A m, k : JobIs(m, k) => JobIs(m, k)'
  BY DEF JobIs, Persist
<1>3. \A u \in Task : JobIs(pc'[u], job'[u])
  BY <1>1
<1> QED  BY <1>1, <1>2, <1>3 DEF JobOK

LEMMA QuietTypes ==
    /\ RowsOK /\ UNCHANGED tables => RowsOK'
    /\ UNCHANGED actionVars =>
          /\ Persist
          /\ (\A a \in ActionId : ActionOK(a)) => \A a \in ActionId : ActionOK(a)'
          /\ (\A c \in ChallengeId : ChallengeOK(c)) => \A c \in ChallengeId : ChallengeOK(c)'
BY DEF RowsOK, tables, actionVars, Persist, ActionOK, ChallengeOK

LEMMA JobTypes ==
    /\ NoJob \in Job
    /\ \A c \in Placed : [NoJob EXCEPT !.change = c] \in Job
BY PlacedTypes DEF NoJob, Job

\* A transaction is opened.
LEMMA OpenTypes ==
    ASSUME TypeInv, NEW t \in Task, NEW j \in Job, OpenTransaction(t, j), j.change \in Placed,
           JobIs("commit", j), UNCHANGED <<tables, actionVars>>,
           registrations' \subseteq Operator, faults' \in 0 .. MaxFaults,
           UNCHANGED <<guard, suspect, raced, revokedAtStart>>
    PROVE  TypeInv'
<1>1. journal' \in Replayed
  BY LineFields DEF OpenTransaction, TypeInv, TypeOK
<1>2. pc' \in [Task -> Label] /\ job' \in [Task -> Job] /\ \A u \in Task : JobOK(u)'
  BY JobsKept, QuietTypes DEF OpenTransaction, Label
<1>3. TypeOK'
  BY <1>1, <1>2 DEF TypeInv, TypeOK, tables, actionVars, Label
<1> QED  BY <1>2, <1>3, QuietTypes DEF TypeInv

LEMMA LocalInviteTypes ==
    ASSUME TypeInv, NEW t \in Task, NEW o \in Operator, NEW from \in Local,
           LocalInvite(t, o, from), UNCHANGED actionVars
    PROVE  TypeInv'
<1> DEFINE c == [kind |-> from, subject |-> o, role |-> "admin", key |-> None]
           j == [NoJob EXCEPT !.change = c]
<1>1. c \in Placed /\ c \in HostChange
  BY DEF HostChange, Placed
<1>2. j \in Job /\ j.change = c /\ j.actor = None /\ j.challenge = None /\ j.key = None
  BY <1>1, JobTypes DEF NoJob
<1>3. faults' \in 0 .. MaxFaults
  BY RegistryAssumption DEF LocalInvite, TypeInv, TypeOK
<1>4. OpenTransaction(t, j) /\ UNCHANGED <<tables, registrations, guard, suspect, raced,
                                           revokedAtStart>>
  BY DEF LocalInvite
<1> HIDE DEF c, j
<1>5. JobIs("commit", j) /\ registrations' \subseteq Operator
  BY <1>1, <1>2, <1>4 DEF JobIs, TypeInv, TypeOK
<1> QED  BY <1>1, <1>2, <1>3, <1>4, <1>5, OpenTypes

\* The tables and the journal stay, and so do the jobs but one that ends.
LEMMA EndTypes ==
    ASSUME TypeInv, UNCHANGED <<tables, journal, actionVars>>,
           \/ UNCHANGED <<pc, job>>
           \/ \E t \in Task : pc' = [pc EXCEPT ![t] = "idle"] /\ job' = [job EXCEPT ![t] = NoJob],
           registrations' \subseteq Operator, faults' \in 0 .. MaxFaults,
           guard' \in {"open", "blocked"}, suspect' \in BOOLEAN, raced' \in BOOLEAN,
           revokedAtStart' \subseteq Key
    PROVE  TypeInv'
<1>1. JobIs("idle", NoJob) /\ NoJob \in Job
  BY JobTypes DEF JobIs
<1>2. pc' \in [Task -> Label] /\ job' \in [Task -> Job] /\ \A u \in Task : JobOK(u)'
  <2>1. CASE UNCHANGED <<pc, job>>
    BY <2>1, QuietTypes DEF TypeInv, TypeOK, Label, JobOK, JobIs, actionVars
  <2>2. ASSUME NEW t \in Task, pc' = [pc EXCEPT ![t] = "idle"], job' = [job EXCEPT ![t] = NoJob]
        PROVE  pc' \in [Task -> Label] /\ job' \in [Task -> Job] /\ \A u \in Task : JobOK(u)'
    BY <1>1, <2>2, QuietTypes, JobsKept DEF Label
  <2> QED  BY <2>1, <2>2
<1>3. TypeOK'
  BY <1>2 DEF TypeInv, TypeOK, tables, actionVars, Label
<1> QED  BY <1>2, <1>3, QuietTypes DEF TypeInv

LEMMA RegistrationTypes ==
    ASSUME TypeInv, RegisterRoutes, UNCHANGED actionVars
    PROVE  TypeInv'
<1>1. CASE \E o \in Operator : BeginRegistration(o)
  BY <1>1, EndTypes DEF BeginRegistration, TypeInv, TypeOK
<1>2. ASSUME NEW t \in Task, NEW o \in Operator, FinishRegistration(t, o) PROVE TypeInv'
  <2>1. registrations' \subseteq Operator /\ UNCHANGED <<tables, guard, suspect, faults, raced,
                                                         revokedAtStart>>
    BY <1>2 DEF FinishRegistration, TypeInv, TypeOK
  <2>2. CASE UNCHANGED <<journal, pc, job>>
    BY <2>1, <2>2, EndTypes DEF TypeInv, TypeOK
  <2>3. ASSUME NEW k \in Key,
               OpenTransaction(t, [NoJob EXCEPT !.change =
                   [kind |-> "register_key", subject |-> o, role |-> None, key |-> k]])
        PROVE  TypeInv'
    <3> DEFINE c == [kind |-> "register_key", subject |-> o, role |-> None, key |-> k]
               j == [NoJob EXCEPT !.change = c]
    <3>1. c \in Placed /\ c \in KeyChange
      BY DEF KeyChange, Placed
    <3>2. j \in Job /\ j.change = c /\ j.actor = None /\ j.challenge = None /\ j.key = None
      BY <3>1, JobTypes DEF NoJob
    <3>3. faults' \in 0 .. MaxFaults
      BY <2>1 DEF TypeInv, TypeOK
    <3>4. OpenTransaction(t, j)
      BY <2>3
    <3> HIDE DEF c, j
    <3>5. JobIs("commit", j)
      BY <3>1, <3>2 DEF JobIs
    <3> QED  BY <1>2, <2>1, <3>1, <3>2, <3>3, <3>4, <3>5, OpenTypes
  <2> QED  BY <1>2, <2>2, <2>3 DEF FinishRegistration
<1> QED  BY <1>1, <1>2 DEF RegisterRoutes

LEMMA ReconcileTypes ==
    ASSUME TypeInv, Reconcile, UNCHANGED actionVars
    PROVE  TypeInv'
<1> USE DEF Reconcile
<1>0. UNCHANGED <<invite, registrations, guard, suspect, pc, job, faults, revokedAtStart>>
      /\ raced' \in BOOLEAN
  BY DEF TypeInv, TypeOK
<1>1. /\ role' \in [Operator -> Role \cup {None}] /\ key' \in [Key -> KeyRow]
      /\ journal' \in Replayed /\ RowsOK'
  <2>1. ASSUME NEW k \in RevokedInJournal, ReapplyRevocation(k)
        PROVE  /\ role' \in [Operator -> Role \cup {None}] /\ key' \in [Key -> KeyRow]
               /\ journal' \in Replayed /\ RowsOK'
    <3>1. k \in Key /\ key[k].status = "active"
      BY DEF RevokedInJournal, TypeInv, TypeOK, Replayed
    <3>2. key' \in [Key -> KeyRow]
      BY <2>1, <3>1 DEF ReapplyRevocation, TypeInv, TypeOK, KeyRow
    <3>3. /\ key'[k] = [key[k] EXCEPT !.status = "revoked"]
          /\ \A x \in Key \ {k} : key'[x] = key[x]
      BY <2>1, <3>1 DEF ReapplyRevocation, TypeInv, TypeOK
    <3>4. key[k] \in KeyRow
      BY <3>1 DEF TypeInv, TypeOK
    <3>5. key'[k].status = "revoked" /\ key'[k].owner = key[k].owner
      BY <3>3, <3>4 DEF KeyRow
    <3>6. RowsOK'
      BY <1>0, <2>1, <3>1, <3>3, <3>5 DEF ReapplyRevocation, TypeInv, RowsOK
    <3> QED  BY <2>1, <3>2, <3>6 DEF ReapplyRevocation, TypeInv, TypeOK
  <2>2. ASSUME NEW o \in RoleDiffers, ReapplyRole(o)
        PROVE  /\ role' \in [Operator -> Role \cup {None}] /\ key' \in [Key -> KeyRow]
               /\ journal' \in Replayed /\ RowsOK'
    <3>1. o \in Operator /\ journal.role[o] # None /\ journal.role[o] \in Role
      BY DEF RoleDiffers, TypeInv, TypeOK, Replayed
    <3> QED  BY <1>0, <2>2, <3>1 DEF ReapplyRole, TypeInv, TypeOK, RowsOK
  <2>3. ASSUME NEW k \in MissingKeys, AcknowledgeMissing(k)
        PROVE  /\ role' \in [Operator -> Role \cup {None}] /\ key' \in [Key -> KeyRow]
               /\ journal' \in Replayed /\ RowsOK'
    <3>1. k \in Key
      BY DEF MissingKeys, TypeInv, TypeOK, Replayed
    <3>2. journal' \in Replayed
      BY <2>3, <3>1 DEF AcknowledgeMissing, TypeInv, TypeOK, Replayed
    <3> QED  BY <1>0, <2>3, <3>2, QuietTypes DEF AcknowledgeMissing, TypeInv, TypeOK, tables
  <2> QED  BY <2>1, <2>2, <2>3
<1>2. TypeOK'
  BY <1>0, <1>1 DEF TypeInv, TypeOK, actionVars
<1>3. \A u \in Task : JobOK(u)'
  BY <1>0 DEF TypeInv, JobOK, JobIs, actionVars
<1> QED  BY <1>1, <1>2, <1>3, QuietTypes DEF TypeInv

LEMMA RegistryTypes ==
    ASSUME TypeInv, RegistrySteps, UNCHANGED actionVars
    PROVE  TypeInv'
<1>1. CASE LocalCommands
  BY <1>1, LocalInviteTypes, RegistryAssumption
  DEF LocalCommands, BootstrapAdmin, RecoverAdmin, Local
<1>2. CASE RefreshRegistry
  BY <1>2, EndTypes DEF RefreshRegistry, TypeInv, TypeOK
<1>3. CASE \E t \in Task : Stop(t)
  <2>1. faults' \in 0 .. MaxFaults
    BY <1>3, RegistryAssumption DEF Stop, TypeInv, TypeOK
  <2> QED  BY <1>3, <2>1, EndTypes DEF Stop, TypeInv, TypeOK
<1> QED  BY <1>1, <1>2, <1>3, RegistrationTypes, ReconcileTypes DEF RegistrySteps

LEMMA BodyTypes ==
    /\ Body \subseteq Change
    /\ \A b \in Body : b.kind \in External \cup OnRegistry
    /\ \A b \in Body : b.kind \in OnRegistry => b \in Placed
BY ActionsAssumption DEF Change, Placed

LEMMA NeedTypes ==
    \A b \in Body : /\ Need(b) \in 1 .. QUORUM
                    /\ Required(b) \in Need(b) .. QUORUM
                    /\ b.kind = "confirm_key" => Required(b) = 1
BY DEF Need, Required, QUORUM

LEMMA IssueTypes ==
    ASSUME TypeInv, ChallengeRoute
    PROVE  TypeInv'
<1>1. ASSUME NEW b \in Body, NEW o \in FirstSigner[b], IssueChallenge(b, o) PROVE TypeInv'
  <2>1. PICK a \in FreshAction, c \in FreshChallenge :
          /\ lines' = [lines EXCEPT !.issued[a] = b]
          /\ action' = [action EXCEPT ![a] =
                 [status |-> "open", body |-> b, required |-> Required(b)]]
          /\ Challenged(c, a, o)
          /\ UNCHANGED <<RegistryVars, evidence, target, applied>>
    BY <1>1 DEF IssueChallenge
  <2>2. /\ a \in ActionId /\ lines.issued[a] = None /\ action[a].status = "absent"
        /\ c \in ChallengeId /\ challenge[c].status = "absent"
    BY <2>1, ActionsAssumption
    DEF FreshAction, FreshChallenge, NoChallenge, TypeInv, TypeOK, ActionOK, ActionRow
  <2>3. action' \in [ActionId -> ActionRow] /\ action'[a].status = "open"
        /\ action'[a].body = b /\ action'[a].required = Required(b)
        /\ \A x \in ActionId \ {a} : action'[x] = action[x]
    BY <2>1, <2>2, NeedTypes DEF TypeInv, TypeOK, ActionRow, QUORUM
  <2>4. lines' \in Lines /\ lines'.issued[a] = b
        /\ \A x \in ActionId \ {a} : lines'.issued[x] = lines.issued[x]
    BY <2>1, <2>2 DEF TypeInv, TypeOK, Lines
  <2>5. /\ challenge' \in [ChallengeId -> ChallengeRow] /\ ceremony' \in [ChallengeId -> SUBSET Key]
        /\ challenge'[c].status = "fresh" /\ challenge'[c].action = a
        /\ \A x \in ChallengeId \ {c} : challenge'[x] = challenge[x] /\ ceremony'[x] = ceremony[x]
    BY <2>1, <2>2, ActionsAssumption
    DEF Challenged, TypeInv, TypeOK, ChallengeRow, ActiveKeys, ActionId
  <2>6. \A x \in ActionId : ActionOK(x)'
    BY <2>1, <2>2, <2>3, <2>4, NeedTypes DEF TypeInv, ActionOK
  <2>7. \A x \in ChallengeId : ChallengeOK(x)'
    BY <2>2, <2>3, <2>5 DEF TypeInv, ChallengeOK
  <2>8. Persist
    BY <2>2, <2>3, <2>5 DEF TypeInv, ChallengeOK, Persist
  <2>9. \A u \in Task : JobOK(u)'
    BY <2>1, <2>8 DEF TypeInv, JobOK, JobIs, Persist, RegistryVars
  <2>10. TypeOK'
    BY <2>1, <2>3, <2>4, <2>5 DEF TypeInv, TypeOK, RegistryVars
  <2> QED  BY <2>1, <2>6, <2>7, <2>9, <2>10, QuietTypes DEF TypeInv, RegistryVars, tables
<1>2. ASSUME NEW a \in ActionId, NEW o \in Operator, IssueChallengeFor(a, o) PROVE TypeInv'
  <2>1. PICK c \in FreshChallenge :
          /\ action[a].status = "open" /\ Challenged(c, a, o)
          /\ UNCHANGED <<RegistryVars, action, evidence, target, lines, applied>>
    BY <1>2 DEF IssueChallengeFor
  <2>2. c \in ChallengeId /\ challenge[c].status = "absent"
    BY <2>1 DEF FreshChallenge, NoChallenge
  <2>3. /\ challenge' \in [ChallengeId -> ChallengeRow] /\ ceremony' \in [ChallengeId -> SUBSET Key]
        /\ challenge'[c].status = "fresh" /\ challenge'[c].action = a
        /\ \A x \in ChallengeId \ {c} : challenge'[x] = challenge[x] /\ ceremony'[x] = ceremony[x]
    BY <2>1, <2>2, ActionsAssumption
    DEF Challenged, TypeInv, TypeOK, ChallengeRow, ActiveKeys, ActionId
  <2>4. \A x \in ActionId : ActionOK(x)'
    BY <2>1 DEF TypeInv, ActionOK
  <2>5. \A x \in ChallengeId : ChallengeOK(x)'
    BY <2>1, <2>2, <2>3 DEF TypeInv, ChallengeOK
  <2>6. Persist
    BY <2>1, <2>2, <2>3 DEF TypeInv, Persist
  <2>7. \A u \in Task : JobOK(u)'
    BY <2>1, <2>6 DEF TypeInv, JobOK, JobIs, Persist, RegistryVars
  <2>8. TypeOK'
    BY <2>1, <2>3 DEF TypeInv, TypeOK, RegistryVars
  <2> QED  BY <2>1, <2>4, <2>5, <2>7, <2>8, QuietTypes DEF TypeInv, RegistryVars, tables
<1> QED  BY <1>1, <1>2 DEF ChallengeRoute

\* What a task past its reads works on.
LEMMA WorkTypes ==
    ASSUME TypeInv, NEW t \in Task, pc[t] \in {"verified", "decided", "effect"}
    PROVE  /\ job[t].challenge \in ChallengeId /\ job[t].challenge # None
           /\ challenge[job[t].challenge].status # "absent"
           /\ ActionOf(t) \in ActionId /\ action[ActionOf(t)].status # "absent"
           /\ job[t].change = action[ActionOf(t)].body /\ job[t].change \in Body
           /\ job[t].actor \in Operator /\ job[t].key \in Key
           /\ job[t] \in Job
BY ActionsAssumption DEF TypeInv, TypeOK, JobOK, JobIs, ChallengeOK, ActionOK, ActionOf

LEMMA PresentTypes ==
    ASSUME TypeInv, NEW t \in Task, NEW c \in ChallengeId, NEW k \in Key, Present(t, c, k)
    PROVE  TypeInv'
<1> DEFINE a == challenge[c].action
           b == action[a].body
           o == key[k].owner
           j == [change |-> b, actor |-> o, challenge |-> c, key |-> k]
<1>1. /\ challenge[c].status = "fresh" /\ action[a].status = "open"
      /\ ceremony' = [ceremony EXCEPT ![c] = {}]
      /\ UNCHANGED <<tables, journal, registrations, guard, suspect, faults, raced,
                     revokedAtStart, action, challenge, evidence, target, lines, applied>>
      /\ \/ UNCHANGED <<pc, job>>
         \/ key[k].status = "active" /\ pc' = [pc EXCEPT ![t] = "verified"]
            /\ job' = [job EXCEPT ![t] = j]
  BY DEF Present
<1>2. a \in ActionId /\ b \in Body
  BY <1>1 DEF TypeInv, ChallengeOK, ActionOK
<1>3. Persist
  BY <1>1 DEF Persist
<1>4. pc' \in [Task -> Label] /\ job' \in [Task -> Job] /\ \A u \in Task : JobOK(u)'
  <2>1. CASE UNCHANGED <<pc, job>>
    BY <1>1, <1>3, <2>1 DEF TypeInv, TypeOK, Label, JobOK, JobIs
  <2>2. CASE key[k].status = "active" /\ pc' = [pc EXCEPT ![t] = "verified"]
             /\ job' = [job EXCEPT ![t] = j]
    <3>1. o \in Operator
      BY <2>2 DEF TypeInv, RowsOK
    <3>2. j \in Job
      BY <1>2, <3>1, BodyTypes DEF Job
    <3>3. JobIs("verified", j)
      BY <1>1, <3>1 DEF JobIs
    <3> HIDE DEF j
    <3> QED  BY <1>3, <2>2, <3>2, <3>3, JobsKept DEF Label
  <2> QED  BY <1>1, <2>1, <2>2
<1>5. ceremony' \in [ChallengeId -> SUBSET Key] /\ \A x \in ChallengeId : ChallengeOK(x)'
  BY <1>1 DEF TypeInv, TypeOK, ChallengeOK
<1>6. \A x \in ActionId : ActionOK(x)'
  BY <1>1 DEF TypeInv, ActionOK
<1>7. TypeOK'
  BY <1>1, <1>4, <1>5 DEF TypeInv, TypeOK, tables, Label
<1> QED  BY <1>1, <1>4, <1>5, <1>6, <1>7, QuietTypes DEF TypeInv

LEMMA SignTypes ==
    ASSUME TypeInv, NEW t \in Task, Sign(t)
    PROVE  TypeInv'
<1> DEFINE c == job[t].challenge
           a == ActionOf(t)
           e == MySignature(t)
<1>0. /\ pc[t] = "verified" /\ c \in ChallengeId /\ a \in ActionId /\ action[a].status # "absent"
      /\ challenge[c].status # "absent" /\ challenge[c].action = a
      /\ job[t].actor \in Operator /\ job[t].key \in Key /\ job[t] \in Job
      /\ job[t].challenge # None /\ job[t].change = action[a].body /\ job[t].change \in Body
  BY WorkTypes DEF Sign, ActionOf
<1>1. e \in Evidence /\ e.action = a
  BY <1>0 DEF MySignature, Evidence
<1>2. /\ evidence' = evidence \/ evidence' = evidence \cup {e}
      /\ challenge' = challenge \/ challenge' = [challenge EXCEPT ![c].status = "consumed"]
      /\ action' = action \/ action' = [action EXCEPT ![a].status = "executed"]
      /\ \/ pc' = [pc EXCEPT ![t] = "decided"] /\ job' = job
         \/ pc' = [pc EXCEPT ![t] = "idle"] /\ job' = [job EXCEPT ![t] = NoJob]
      /\ UNCHANGED <<tables, journal, registrations, guard, suspect, faults, raced,
                     revokedAtStart, ceremony, target, lines, applied>>
  BY DEF Sign, MySignature, ActionOf, Signatures
<1> HIDE DEF c, a, e
<1>3. evidence' \subseteq Evidence /\ \A x \in ActionId :
          (\A f \in evidence : f.action # x) /\ x # a => \A f \in evidence' : f.action # x
  BY <1>1, <1>2 DEF TypeInv, TypeOK
<1>4. challenge' \in [ChallengeId -> ChallengeRow] /\ \A x \in ChallengeId :
          /\ challenge'[x].action = challenge[x].action
          /\ challenge'[x].status = "absent" => challenge'[x] = challenge[x]
          /\ challenge[x].status # "absent" => challenge'[x].status # "absent"
  <2>1. challenge \in [ChallengeId -> ChallengeRow] /\ challenge[c] \in ChallengeRow
    BY <1>0 DEF TypeInv, TypeOK
  <2>2. CASE challenge' = challenge
    BY <2>1, <2>2
  <2>3. CASE challenge' = [challenge EXCEPT ![c].status = "consumed"]
    BY <1>0, <2>1, <2>3 DEF ChallengeRow
  <2> QED  BY <1>2, <2>2, <2>3
<1>5. action' \in [ActionId -> ActionRow] /\ \A x \in ActionId :
          /\ action'[x].body = action[x].body /\ action'[x].required = action[x].required
          /\ action'[x].status = "absent" <=> action[x].status = "absent"
  <2>1. action[a] \in ActionRow
    BY <1>0 DEF TypeInv, TypeOK
  <2> QED  BY <1>0, <1>2, <2>1 DEF TypeInv, TypeOK, ActionRow
<1>6. Persist
  BY <1>4, <1>5 DEF Persist, TypeInv, ChallengeOK
<1>7. pc' \in [Task -> Label] /\ job' \in [Task -> Job] /\ \A u \in Task : JobOK(u)'
  <2>1. CASE pc' = [pc EXCEPT ![t] = "decided"] /\ job' = job
    <3>1. JobIs("decided", job[t])
      BY <1>0 DEF JobIs, c, a, ActionOf
    <3>2. job' = [job EXCEPT ![t] = job[t]]
      BY <2>1 DEF TypeInv, TypeOK
    <3> QED  BY <1>0, <1>6, <2>1, <3>1, <3>2, JobsKept DEF Label
  <2>2. CASE pc' = [pc EXCEPT ![t] = "idle"] /\ job' = [job EXCEPT ![t] = NoJob]
    BY <1>6, <2>2, JobTypes, JobsKept DEF Label, JobIs
  <2> QED  BY <1>2, <2>1, <2>2
<1>8. \A x \in ActionId : ActionOK(x)'
  BY <1>0, <1>2, <1>3, <1>5 DEF TypeInv, ActionOK
<1>9. \A x \in ChallengeId : ChallengeOK(x)'
  BY <1>0, <1>2, <1>4, <1>5 DEF TypeInv, ChallengeOK
<1>10. TypeOK'
  BY <1>2, <1>3, <1>4, <1>5, <1>7 DEF TypeInv, TypeOK, tables, Label
<1> QED  BY <1>2, <1>7, <1>8, <1>9, <1>10, QuietTypes DEF TypeInv

LEMMA EffectTypes ==
    ASSUME TypeInv, NEW t \in Task,
           JournalExecution(t) \/ ApplyToTarget(t) \/ OpenEffect(t)
    PROVE  TypeInv'
<1>0. /\ pc[t] \in {"decided", "effect"} /\ job[t].challenge \in ChallengeId
      /\ challenge[job[t].challenge].status # "absent"
      /\ ActionOf(t) \in ActionId /\ job[t].actor \in Operator /\ job[t].key \in Key
      /\ job[t].change = action[ActionOf(t)].body /\ job[t].change \in Body /\ job[t] \in Job
  BY WorkTypes DEF JournalExecution, ApplyToTarget, OpenEffect
<1>1. CASE JournalExecution(t)
  <2>1. Signers(ActionOf(t)) \subseteq Operator
    BY DEF Signers, Signatures, TypeInv, TypeOK, Evidence
  <2>2. /\ lines' = [lines EXCEPT !.executed[ActionOf(t)] = Signers(ActionOf(t))]
        /\ pc' = [pc EXCEPT ![t] = "effect"]
        /\ UNCHANGED <<tables, journal, registrations, guard, suspect, job, faults, raced,
                       revokedAtStart, action, challenge, evidence, ceremony, target, applied>>
    BY <1>1 DEF JournalExecution, ActionOf
  <2>3. lines' \in Lines /\ lines'.issued = lines.issued
    BY <1>0, <2>1, <2>2 DEF TypeInv, TypeOK, Lines
  <2>4. Persist /\ job' = [job EXCEPT ![t] = job[t]] /\ JobIs("effect", job[t])
    BY <1>0, <2>2 DEF Persist, JobIs, ActionOf, TypeInv, TypeOK
  <2>5. pc' \in [Task -> Label] /\ job' \in [Task -> Job] /\ \A u \in Task : JobOK(u)'
    BY <1>0, <2>2, <2>4, JobsKept DEF Label
  <2>6. /\ \A x \in ActionId : ActionOK(x)'
        /\ \A x \in ChallengeId : ChallengeOK(x)'
    BY <2>2, <2>3 DEF TypeInv, ActionOK, ChallengeOK
  <2>7. TypeOK'
    BY <2>2, <2>3, <2>5 DEF TypeInv, TypeOK, tables, Label
  <2> QED  BY <2>2, <2>5, <2>6, <2>7, QuietTypes DEF TypeInv
<1>2. CASE ApplyToTarget(t)
  <2>1. /\ pc' = [pc EXCEPT ![t] = "idle"] /\ job' = [job EXCEPT ![t] = NoJob]
        /\ UNCHANGED <<tables, journal, registrations, guard, suspect, faults, raced,
                       revokedAtStart, action, challenge, evidence, ceremony, lines>>
        /\ \/ UNCHANGED <<target, applied>>
           \/ /\ target' = [target EXCEPT ![job[t].change.subject] = "closed"]
              /\ applied' = Applied(t)
    BY <1>2 DEF ApplyToTarget
  <2>2. applied' \in [ActionId -> Nat] /\ target' \in [Target -> {"open", "closed"}]
    BY <1>0, <2>1 DEF Applied, TypeInv, TypeOK
  <2>3. Persist /\ JobIs("idle", NoJob)
    BY <2>1 DEF Persist, JobIs
  <2>4. pc' \in [Task -> Label] /\ job' \in [Task -> Job] /\ \A u \in Task : JobOK(u)'
    BY <2>1, <2>3, JobTypes, JobsKept DEF Label
  <2>5. /\ \A x \in ActionId : ActionOK(x)'
        /\ \A x \in ChallengeId : ChallengeOK(x)'
    BY <2>1 DEF TypeInv, ActionOK, ChallengeOK
  <2>6. TypeOK'
    BY <2>1, <2>2, <2>4 DEF TypeInv, TypeOK, tables, Label
  <2> QED  BY <2>1, <2>4, <2>5, <2>6, QuietTypes DEF TypeInv
<1>3. CASE OpenEffect(t)
  <2>1. /\ job[t].change.kind \in OnRegistry
        /\ UNCHANGED <<tables, registrations, guard, suspect, faults, raced,
                       revokedAtStart, actionVars>>
        /\ \/ OpenTransaction(t, job[t])
           \/ pc' = [pc EXCEPT ![t] = "idle"] /\ job' = [job EXCEPT ![t] = NoJob]
              /\ UNCHANGED journal
    BY <1>3 DEF OpenEffect
  <2>2. registrations' \subseteq Operator /\ faults' \in 0 .. MaxFaults
        /\ guard' \in {"open", "blocked"} /\ suspect' \in BOOLEAN /\ raced' \in BOOLEAN
        /\ revokedAtStart' \subseteq Key
    BY <2>1 DEF TypeInv, TypeOK
  <2>3. CASE OpenTransaction(t, job[t])
    <3>1. JobIs("commit", job[t])
      BY <1>0, <2>1 DEF JobIs, ActionOf
    <3>2. job[t].change \in Placed
      BY <1>0, <2>1, BodyTypes
    <3> QED  BY <1>0, <2>1, <2>2, <2>3, <3>1, <3>2, OpenTypes
  <2>4. CASE pc' = [pc EXCEPT ![t] = "idle"] /\ job' = [job EXCEPT ![t] = NoJob]
             /\ UNCHANGED journal
    BY <2>1, <2>2, <2>4, EndTypes
  <2> QED  BY <2>1, <2>3, <2>4
<1> QED  BY <1>1, <1>2, <1>3

-----------------------------------------------------------------------------
(* Transactions. *)

\* The locks of a change, without those that depend on the tables.
Held(c) ==
    CASE c.kind = "invite_operator" -> {<<"name", c.subject>>}
      [] c.kind = "confirm_key" -> {<<"pending", c.subject>>}
      [] c.kind = "revoke_key" -> {<<"key", c.subject>>}
      [] c.kind = "set_role" -> {<<"operator", c.subject>>}
      [] c.kind \in Local -> {<<"name", c.subject>>, <<"invite", c.subject>>}
      [] c.kind = "register_key" -> {<<"invite", c.subject>>, <<"new", c.key>>}

Referred(c) == IF c.kind \in Local \cup {"register_key"} THEN {<<"operator", c.subject>>} ELSE {}

Committing == {t \in Task : pc[t] = "commit"}

Exclusion ==
    \A t, u \in Committing : t # u =>
        Held(job[t].change) \cap (Held(job[u].change) \cup Referred(job[u].change)) = {}

\* What a change was decided on is still true at its commit.
StillAllowed(t) ==
    LET c == job[t].change
        s == c.subject
    IN  /\ c.kind = "invite_operator" => role[s] = None /\ journal.role[s] = c.role
        /\ c.kind = "confirm_key" => /\ key[s].status = "pending" /\ key[s].owner # job[t].actor
                                     /\ s \in journal.confirmed
        /\ c.kind = "revoke_key" => key[s].status = "active"
        /\ c.kind = "set_role" => /\ role[s] \notin {None, c.role} /\ journal.role[s] = c.role
                                  /\ s # job[t].actor
        /\ c.kind \in Local => role[s] \in {None, "admin"} /\ s \in journal.local
        /\ c.kind = "register_key" =>
               /\ role[s] # None /\ key[c.key] = NoKey /\ c.key \notin journal.revoked
               /\ invite[s].from \in Local => c.key \in journal.anchors

\* A change that makes or unmakes an administrator has its two signatures.
Weighed(t) ==
    LET c == job[t].change
    IN  c.kind \in {"invite_operator", "set_role"} /\ "admin" \in {c.role, role[c.subject]} =>
            action[ActionOf(t)].required >= QUORUM

TransactionsOK == Exclusion /\ \A t \in Committing : StillAllowed(t) /\ Weighed(t)

LEMMA CommittingTypes ==
    ASSUME TypeInv, NEW t \in Committing
    PROVE  /\ t \in Task /\ job[t] \in Job /\ job[t].change \in Placed
           /\ job[t].actor \in Operator \cup {None}
           /\ job[t].challenge = None <=> job[t].change.kind \in Local \cup {"register_key"}
           /\ job[t].challenge # None =>
                  /\ job[t].challenge \in ChallengeId /\ ActionOf(t) \in ActionId
                  /\ challenge[job[t].challenge].status # "absent"
                  /\ action[ActionOf(t)].status # "absent"
                  /\ job[t].change = action[ActionOf(t)].body /\ job[t].change \in Body
                  /\ job[t].change.kind \in OnRegistry
                  /\ job[t].actor \in Operator /\ job[t].key \in Key
<1>1. t \in Task /\ pc[t] = "commit" /\ job[t] \in Job /\ JobIs("commit", job[t])
  BY DEF Committing, TypeInv, TypeOK, JobOK
<1>2. CASE job[t].challenge \in ChallengeId /\ job[t].challenge # None
  <2>1. /\ challenge[job[t].challenge].status # "absent"
        /\ job[t].change = action[ActionOf(t)].body
        /\ job[t].actor \in Operator /\ job[t].key \in Key /\ job[t].change.kind \in OnRegistry
    BY <1>1, <1>2 DEF JobIs, ActionOf
  <2>2. ActionOf(t) \in ActionId /\ action[ActionOf(t)].status # "absent"
    BY <1>2, <2>1 DEF TypeInv, ChallengeOK, ActionOf
  <2>3. job[t].change \in Body
    BY <2>1, <2>2 DEF TypeInv, ActionOK
  <2> QED  BY <1>1, <1>2, <2>1, <2>2, <2>3, BodyTypes DEF OnRegistry, Local
<1>3. CASE job[t].challenge = None
  <2>1. job[t].change \in HostChange \cup KeyChange /\ job[t].actor = None
    BY <1>1, <1>3, ActionsAssumption DEF JobIs
  <2> QED  BY <1>1, <1>3, <2>1 DEF Placed, HostChange, KeyChange
<1> QED  BY <1>1, <1>2, <1>3 DEF Job

LEMMA CommitTypes ==
    ASSUME TypeInv, NEW t \in Task, Commit(t), StillAllowed(t)
    PROVE  TypeInv'
<1> DEFINE c == job[t].change
<1>0. /\ t \in Committing /\ c \in Placed /\ job[t].actor \in Operator \cup {None}
      /\ Written(c, job[t].actor)
      /\ pc' = [pc EXCEPT ![t] = "idle"] /\ job' = [job EXCEPT ![t] = NoJob]
      /\ UNCHANGED <<journal, guard, suspect, faults, revokedAtStart, action, challenge,
                     evidence, ceremony, target, lines>>
  BY CommittingTypes DEF Commit, CommitChange, Committing
<1>1. raced' \in BOOLEAN /\ registrations' \subseteq Operator
  BY DEF Commit, CommitChange, TypeInv, TypeOK
<1>2. applied' \in [ActionId -> Nat]
  <2>1. applied \in [ActionId -> Nat]
    BY DEF TypeInv, TypeOK
  <2>2. CASE job[t].challenge = None
    BY <2>1, <2>2 DEF Commit
  <2>3. CASE job[t].challenge # None
    <3>1. applied' = [applied EXCEPT ![ActionOf(t)] = applied[ActionOf(t)] + 1]
      BY <2>3 DEF Commit, Applied, ActionOf
    <3>2. ActionOf(t) \in ActionId
      BY <1>0, <2>3, CommittingTypes
    <3> QED  BY <2>1, <3>1, <3>2
  <2> QED  BY <2>2, <2>3
<1>3. /\ role' \in [Operator -> Role \cup {None}]
      /\ key' \in [Key -> KeyRow]
      /\ invite' \in [Operator -> Invite]
  BY <1>0, WrittenTypes DEF TypeInv
<1>4. Persist /\ JobIs("idle", NoJob)
  BY <1>0 DEF Persist, JobIs
<1>5. pc' \in [Task -> Label] /\ job' \in [Task -> Job] /\ \A u \in Task : JobOK(u)'
  BY <1>0, <1>4, JobTypes, JobsKept DEF Label
<1>6. TypeOK'
  BY <1>0, <1>1, <1>2, <1>3, <1>5 DEF TypeInv, TypeOK, Label
<1>7. /\ \A x \in ActionId : ActionOK(x)'
      /\ \A x \in ChallengeId : ChallengeOK(x)'
  BY <1>0 DEF TypeInv, ActionOK, ChallengeOK
<1>8. RowsOK'
  <2> USE DEF Written, StillAllowed
  <2> HIDE DEF c
  <2>0. StillAllowed(t) /\ c = job[t].change
    BY DEF c
  <2>1. CASE c.kind \in {"invite_operator", "set_role"} \cup Local
    <3>1. key' = key /\ role' = [role EXCEPT ![c.subject] = c.role] /\ c.role # None
      BY <1>0, <2>1, PlacedTypes, RegistryAssumption DEF Local, Role
    <3>2. \A o \in Operator \ {c.subject} : invite'[o] = invite[o]
      BY <1>0, <2>1, PlacedTypes DEF Local, TypeInv, TypeOK
    <3> QED  BY <3>1, <3>2 DEF TypeInv, TypeOK, RowsOK
  <2>2. CASE c.kind = "register_key"
    <3>1. role' = role /\ c.subject \in Operator /\ c.key \in Key /\ role[c.subject] # None
      BY <1>0, <2>0, <2>2, PlacedTypes DEF Local
    <3>2. \A o \in Operator \ {c.subject} : invite'[o] = invite[o]
      BY <1>0, <2>2 DEF Local, TypeInv, TypeOK
    <3>3. \A k \in Key \ {c.key} : key'[k] = key[k]
      BY <1>0, <2>2 DEF Local, TypeInv, TypeOK
    <3>4. /\ key'[c.key].owner = c.subject
          /\ \/ key'[c.key].status = "active"
             \/ key'[c.key].status = "pending" /\ key'[c.key].by = None
                /\ key'[c.key].from \notin Local
      BY <1>0, <2>2, <3>1 DEF Local, TypeInv, TypeOK
    <3> QED  BY <3>1, <3>2, <3>3, <3>4 DEF TypeInv, RowsOK
  <2>3. CASE c.kind \in {"confirm_key", "revoke_key"}
    <3>1. role' = role /\ invite' = invite /\ c.subject \in Key
          /\ key[c.subject].status # "absent"
      BY <1>0, <2>0, <2>3, PlacedTypes DEF Local
    <3>2. /\ \A k \in Key \ {c.subject} : key'[k] = key[k]
          /\ key'[c.subject].status \in {"active", "revoked"}
          /\ key'[c.subject].owner = key[c.subject].owner
      <4>1. key[c.subject] \in KeyRow
        BY <3>1 DEF TypeInv, TypeOK
      <4> QED  BY <1>0, <2>3, <3>1, <4>1 DEF Local, TypeInv, TypeOK, KeyRow
    <3> QED  BY <3>1, <3>2 DEF TypeInv, RowsOK
  <2> QED  BY <1>0, <2>1, <2>2, <2>3, PlacedTypes DEF OnRegistry
<1> QED  BY <1>5, <1>6, <1>7, <1>8 DEF TypeInv

LEMMA RestartTypes == ASSUME TypeInv, Restart PROVE TypeInv'
<1>0. /\ registrations' = {} /\ guard' = "blocked" /\ suspect' = FALSE
      /\ pc' = [t \in Task |-> IF t \in Commands THEN pc[t] ELSE "idle"]
      /\ job' = [t \in Task |-> IF t \in Commands THEN job[t] ELSE NoJob]
      /\ revokedAtStart' = journal.revoked
      /\ ceremony' = [c \in ChallengeId |-> {}]
      /\ UNCHANGED <<tables, journal, raced, action, challenge, evidence, target, lines, applied>>
  BY DEF Restart, RestartRegistry
<1>1. faults' \in 0 .. MaxFaults
  BY RegistryAssumption DEF Restart, TypeInv, TypeOK
<1>2. pc' \in [Task -> Label] /\ job' \in [Task -> Job]
  BY <1>0, JobTypes DEF TypeInv, TypeOK, Label
<1>3. \A u \in Task : JobOK(u)'
  BY <1>0 DEF TypeInv, JobOK, JobIs
<1>4. revokedAtStart' \subseteq Key
  BY <1>0 DEF TypeInv, TypeOK, Replayed
<1>5. TypeOK'
  BY <1>0, <1>1, <1>2, <1>4 DEF TypeInv, TypeOK, Label, tables
<1>6. /\ \A x \in ActionId : ActionOK(x)'
      /\ \A x \in ChallengeId : ChallengeOK(x)'
  BY <1>0 DEF TypeInv, ActionOK, ChallengeOK
<1> QED  BY <1>0, <1>3, <1>5, <1>6, QuietTypes DEF TypeInv

LEMMA RestoreTypes == ASSUME TypeInv, Restore PROVE TypeInv'
<1>0. /\ registrations' = {} /\ guard' = "blocked" /\ suspect' = FALSE
      /\ pc' = [t \in Task |-> "idle"] /\ job' = [t \in Task |-> NoJob]
      /\ revokedAtStart' = journal.revoked
      /\ role' = FirstRole /\ key' = FirstKey /\ invite' = FirstInvite
      /\ action' = [a \in ActionId |-> NoAction]
      /\ challenge' = [c \in ChallengeId |-> NoChallenge]
      /\ evidence' = {} /\ ceremony' = [c \in ChallengeId |-> {}]
      /\ target' = [x \in Target |-> "open"]
      /\ UNCHANGED <<journal, raced, lines, applied>>
  BY DEF Restore, RestartRegistry
<1>1. faults' \in 0 .. MaxFaults
  BY RegistryAssumption DEF Restore, TypeInv, TypeOK
<1>2. NoAction \in ActionRow /\ NoChallenge \in ChallengeRow
  BY ActionsAssumption DEF NoAction, ActionRow, NoChallenge, ChallengeRow, QUORUM
<1>3. revokedAtStart' \subseteq Key
  BY <1>0 DEF TypeInv, TypeOK, Replayed
<1>4. TypeOK'
  <2>1. /\ action' \in [ActionId -> ActionRow] /\ challenge' \in [ChallengeId -> ChallengeRow]
        /\ evidence' \subseteq Evidence /\ ceremony' \in [ChallengeId -> SUBSET Key]
        /\ target' \in [Target -> {"open", "closed"}]
    BY <1>0, <1>2
  <2>2. pc' \in [Task -> Label] /\ job' \in [Task -> Job]
    BY <1>0, JobTypes DEF Label
  <2> QED  BY <1>0, <1>1, <1>3, <2>1, <2>2, FirstTypes DEF TypeInv, TypeOK, Label
<1>5. RowsOK'
  <2>1. \A k \in Key : /\ key'[k].status = "absent" => key'[k] = NoKey
                       /\ key'[k].status # "absent" => key'[k].owner \in Operator
                       /\ key'[k].status # "pending"
    BY <1>0, FirstTypes, RegistryAssumption DEF NoKey
  <2>2. \A o \in Operator : invite'[o].status # "none" => role'[o] # None
    BY <1>0, FirstTypes, RegistryAssumption DEF Role
  <2> QED  BY <2>1, <2>2 DEF RowsOK
<1> QED  BY <1>0, <1>4, <1>5
         DEF TypeInv, ActionOK, ChallengeOK, JobOK, JobIs, NoAction, NoChallenge

LEMMA TypeStep ==
    ASSUME TypeInv, TransactionsOK, [Next]_vars
    PROVE  TypeInv'
<1>1. CASE UNCHANGED vars
  <2>1. /\ UNCHANGED <<tables, journal, actionVars>> /\ UNCHANGED <<pc, job>>
        /\ UNCHANGED <<registrations, faults, guard, suspect, raced, revokedAtStart>>
    BY <1>1 DEF vars, RegistryVars, actionVars, tables
  <2> QED  BY <2>1, EndTypes DEF TypeInv, TypeOK
<1>2. CASE \E t \in Task : Commit(t)
  BY <1>2, CommitTypes DEF TransactionsOK, Committing, Commit, CommitChange
<1>3. CASE ActionsRoute
  BY <1>3, PresentTypes, SignTypes, EffectTypes DEF ActionsRoute
<1> QED  BY <1>1, <1>2, <1>3, RegistryTypes, IssueTypes, RestartTypes, RestoreTypes DEF Next

\* A transaction is opened: by an action that is decided, by a command of the
\* host, or by a registration.
Opens(t, j) ==
    /\ t \in Task /\ j \in Job /\ j.change \in Placed
    /\ OpenTransaction(t, j) /\ UNCHANGED <<tables, actionVars, guard, revokedAtStart, raced>>
    /\ \/ /\ pc[t] = "effect" /\ j = job[t] /\ j.change.kind \in OnRegistry
          /\ RegistryAllowed(j.change, j.actor, action[ActionOf(t)].required)
       \/ /\ pc[t] = "idle" /\ j.change \in HostChange /\ j.challenge = None
          /\ role[j.change.subject] \in {None, "admin"}
       \/ /\ pc[t] = "idle" /\ j.change \in KeyChange /\ j.challenge = None
          /\ invite[j.change.subject].status = "live"
          /\ key[j.change.key] = NoKey /\ j.change.key \notin journal.revoked
          /\ \A u \in Committing : job[u].change.key # j.change.key

\* No transaction is opened or committed; some may be rolled back.
Aside ==
    /\ UNCHANGED <<tables, journal>>
    /\ \A u \in Committing' :
          /\ u \in Committing /\ job'[u] = job[u]
          /\ job[u].challenge # None =>
                 /\ ActionOf(u)' = ActionOf(u)
                 /\ action'[ActionOf(u)].required = action[ActionOf(u)].required

LEMMA LocalInviteOpens ==
    ASSUME NEW t \in Task, NEW o \in Operator, NEW from \in Local,
           LocalInvite(t, o, from), UNCHANGED actionVars
    PROVE  \E j : Opens(t, j)
<1> DEFINE c == [kind |-> from, subject |-> o, role |-> "admin", key |-> None]
           j == [NoJob EXCEPT !.change = c]
<1>1. c \in Placed /\ c \in HostChange /\ c.subject = o
  BY DEF HostChange, Placed
<1>2. j \in Job /\ j.change = c /\ j.challenge = None
  BY <1>1, JobTypes DEF NoJob
<1>3. OpenTransaction(t, j) /\ UNCHANGED <<tables, guard, revokedAtStart, raced>>
      /\ pc[t] = "idle" /\ role[o] \in {None, "admin"}
  BY DEF LocalInvite
<1> HIDE DEF c, j
<1>4. Opens(t, j)
  BY <1>1, <1>2, <1>3 DEF Opens
<1> QED  BY <1>4

LEMMA RegistrationOpens ==
    ASSUME TypeInv, NEW t \in Task, NEW o \in Operator, FinishRegistration(t, o),
           UNCHANGED actionVars
    PROVE  UNCHANGED <<tables, journal, pc, job>> \/ \E j : Opens(t, j)
<1>1. ASSUME NEW k \in Key, key[k] = NoKey, k \notin journal.revoked,
             \A u \in Task : pc[u] = "commit" => job[u].change.key # k,
             invite[o].status = "live",
             OpenTransaction(t, [NoJob EXCEPT !.change =
                 [kind |-> "register_key", subject |-> o, role |-> None, key |-> k]])
      PROVE  \E j : Opens(t, j)
  <2> DEFINE c == [kind |-> "register_key", subject |-> o, role |-> None, key |-> k]
             j == [NoJob EXCEPT !.change = c]
  <2>1. c \in Placed /\ c \in KeyChange /\ c.subject = o /\ c.key = k
    BY DEF KeyChange, Placed
  <2>2. j \in Job /\ j.change = c /\ j.challenge = None
    BY <2>1, JobTypes DEF NoJob
  <2>3. OpenTransaction(t, j) /\ UNCHANGED <<tables, guard, revokedAtStart, raced>>
        /\ pc[t] = "idle"
    BY <1>1 DEF FinishRegistration
  <2> HIDE DEF c, j
  <2>4. Opens(t, j)
    BY <1>1, <2>1, <2>2, <2>3 DEF Opens, Committing
  <2> QED  BY <2>4
<1> QED  BY <1>1 DEF FinishRegistration, tables

LEMMA AsideStays == UNCHANGED <<tables, journal, pc, job, action, challenge>> => Aside
BY DEF Aside, Committing, ActionOf

LEMMA AsideMoves ==
    ASSUME TypeInv, NEW t \in Task, NEW l \in Label \ {"commit"}, NEW j,
           UNCHANGED <<tables, journal, action, challenge>>,
           pc' = [pc EXCEPT ![t] = l], job' = [job EXCEPT ![t] = j]
    PROVE  Aside
BY DEF Aside, Committing, ActionOf, TypeInv, TypeOK

LEMMA RegistryKinds ==
    ASSUME TypeInv, [Next]_vars
    PROVE  \/ \E t, j : Opens(t, j)
           \/ \E t \in Task : Commit(t)
           \/ Reconcile /\ UNCHANGED actionVars
           \/ Restore
           \/ Aside
<1>1. CASE UNCHANGED vars
  BY <1>1, AsideStays DEF vars, RegistryVars, tables, actionVars
<1>2. CASE LocalCommands /\ UNCHANGED actionVars
  BY <1>2, LocalInviteOpens, RegistryAssumption
  DEF LocalCommands, BootstrapAdmin, RecoverAdmin, Local
<1>3. CASE RegisterRoutes /\ UNCHANGED actionVars
  <2>1. CASE \E o \in Operator : BeginRegistration(o)
    BY <1>3, <2>1, AsideStays DEF BeginRegistration, actionVars
  <2> QED  BY <1>3, <2>1, RegistrationOpens, AsideStays DEF RegisterRoutes, actionVars
<1>4. CASE RefreshRegistry /\ UNCHANGED actionVars
  BY <1>4, AsideStays DEF RefreshRegistry, actionVars
<1>5. ASSUME NEW t \in Task, Stop(t), UNCHANGED actionVars PROVE Aside
  BY <1>5, AsideMoves DEF Stop, actionVars, Label
<1>6. CASE ChallengeRoute
  <2>1. UNCHANGED <<tables, journal, pc, job>>
    BY <1>6 DEF ChallengeRoute, IssueChallenge, IssueChallengeFor, RegistryVars, tables
  <2>2. \A c \in ChallengeId : challenge[c].status # "absent" =>
            challenge'[c] = challenge[c]
            /\ action'[challenge[c].action] = action[challenge[c].action]
    <3>1. ASSUME NEW b \in Body, NEW o \in FirstSigner[b], IssueChallenge(b, o),
                 NEW c \in ChallengeId, challenge[c].status # "absent"
          PROVE  challenge'[c] = challenge[c]
                 /\ action'[challenge[c].action] = action[challenge[c].action]
      <4>1. PICK a \in FreshAction, d \in FreshChallenge :
              action' = [action EXCEPT ![a] =
                  [status |-> "open", body |-> b, required |-> Required(b)]]
              /\ Challenged(d, a, o)
        BY <3>1 DEF IssueChallenge
      <4>2. /\ challenge[c].action \in ActionId /\ action[challenge[c].action].status # "absent"
            /\ a \in ActionId /\ action[a].status = "absent" /\ d # c
        BY <3>1, <4>1, ActionsAssumption
        DEF FreshAction, FreshChallenge, NoChallenge, TypeInv, TypeOK, ActionOK, ChallengeOK, ActionRow
      <4> QED  BY <4>1, <4>2 DEF Challenged, TypeInv, TypeOK
    <3>2. ASSUME NEW a \in ActionId, NEW o \in Operator, IssueChallengeFor(a, o),
                 NEW c \in ChallengeId, challenge[c].status # "absent"
          PROVE  challenge'[c] = challenge[c]
                 /\ action'[challenge[c].action] = action[challenge[c].action]
      BY <3>2 DEF IssueChallengeFor, FreshChallenge, NoChallenge, Challenged, TypeInv, TypeOK
    <3> QED  BY <1>6, <3>1, <3>2 DEF ChallengeRoute
  <2>3. ASSUME NEW u \in Committing'
        PROVE  /\ u \in Committing /\ job'[u] = job[u]
               /\ job[u].challenge # None =>
                      /\ ActionOf(u)' = ActionOf(u)
                      /\ action'[ActionOf(u)].required = action[ActionOf(u)].required
    BY <2>1, <2>2, CommittingTypes DEF Committing, ActionOf
  <2> QED  BY <2>1, <2>3 DEF Aside
<1>7. ASSUME NEW t \in Task, NEW c \in ChallengeId, NEW k \in Key, Present(t, c, k) PROVE Aside
  <2>1. UNCHANGED <<tables, journal, action, challenge>>
    BY <1>7 DEF Present
  <2>2. UNCHANGED <<pc, job>> \/ \E j : pc' = [pc EXCEPT ![t] = "verified"]
                                      /\ job' = [job EXCEPT ![t] = j]
    BY <1>7 DEF Present
  <2> QED  BY <2>1, <2>2, AsideStays, AsideMoves DEF Label
<1>8. ASSUME NEW t \in Task, JournalExecution(t) \/ ApplyToTarget(t) PROVE Aside
  <2>1. job' = [job EXCEPT ![t] = job[t]] \/ job' = [job EXCEPT ![t] = NoJob]
    BY <1>8 DEF JournalExecution, ApplyToTarget, TypeInv, TypeOK
  <2> QED  BY <1>8, <2>1, AsideMoves DEF JournalExecution, ApplyToTarget, Label
<1>9. ASSUME NEW t \in Task, Sign(t) PROVE Aside
  <2>1. /\ UNCHANGED <<tables, journal>>
        /\ \/ pc' = [pc EXCEPT ![t] = "decided"] /\ UNCHANGED job
           \/ pc' = [pc EXCEPT ![t] = "idle"] /\ job' = [job EXCEPT ![t] = NoJob]
        /\ \/ UNCHANGED challenge
           \/ challenge' = [challenge EXCEPT ![job[t].challenge].status = "consumed"]
        /\ UNCHANGED action \/ action' = [action EXCEPT ![ActionOf(t)].status = "executed"]
    BY <1>9 DEF Sign, ActionOf
  <2>2. \A c \in ChallengeId : challenge'[c].action = challenge[c].action
    BY <2>1 DEF TypeInv, TypeOK, ChallengeRow
  <2>3. \A a \in ActionId : action'[a].required = action[a].required
    BY <2>1 DEF TypeInv, TypeOK, ActionRow
  <2>4. ASSUME NEW u \in Committing'
        PROVE  /\ u \in Committing /\ job'[u] = job[u]
               /\ job[u].challenge # None =>
                      /\ ActionOf(u)' = ActionOf(u)
                      /\ action'[ActionOf(u)].required = action[ActionOf(u)].required
    <3>1. u \in Committing /\ job'[u] = job[u]
      BY <2>1 DEF Committing, TypeInv, TypeOK
    <3> QED  BY <2>2, <2>3, <3>1, CommittingTypes DEF ActionOf
  <2> QED  BY <2>1, <2>4 DEF Aside
<1>10. ASSUME NEW t \in Task, OpenEffect(t) PROVE Aside \/ \E j : Opens(t, j)
  <2>1. CASE UNCHANGED journal /\ pc' = [pc EXCEPT ![t] = "idle"]
             /\ job' = [job EXCEPT ![t] = NoJob]
    BY <1>10, <2>1, AsideMoves DEF OpenEffect, actionVars, Label
  <2>2. CASE OpenTransaction(t, job[t])
             /\ RegistryAllowed(job[t].change, job[t].actor, action[ActionOf(t)].required)
    <3>1. job[t] \in Job /\ job[t].change \in Placed
      BY <1>10, WorkTypes, BodyTypes DEF OpenEffect
    <3>2. Opens(t, job[t])
      BY <1>10, <2>2, <3>1 DEF OpenEffect, Opens
    <3> QED  BY <3>2
  <2> QED  BY <1>10, <2>1, <2>2 DEF OpenEffect, ActionOf
<1>11. CASE Restart
  BY <1>11 DEF Restart, RestartRegistry, Commands, Aside, Committing, ActionOf, tables
<1> QED  BY <1>1, <1>2, <1>3, <1>4, <1>5, <1>6, <1>7, <1>8, <1>9, <1>10, <1>11
         DEF Next, RegistrySteps, ActionsRoute

\* The kinds of a change, and what is locked for each.
LEMMA Locks ==
    ASSUME NEW c \in Placed
    PROVE  /\ \A x : x \in Held(c) /\ x[1] # "new" => x \in Exclusive(c)
           /\ Referred(c) \subseteq Shared(c)
           /\ \A x \in Referred(c) : x[1] = "operator"
           /\ \A x \in Held(c) : x[1] = "new" => c.kind = "register_key" /\ x[2] = c.key
BY PlacedTypes DEF Held, Exclusive, Referred, Shared, OnRegistry, Local

LEMMA OpenFree ==
    ASSUME TypeInv, NEW t, NEW j, Opens(t, j), NEW u \in Committing
    PROVE  /\ t # u
           /\ Held(j.change) \cap (Held(job[u].change) \cup Referred(job[u].change)) = {}
           /\ Held(job[u].change) \cap Referred(j.change) = {}
<1>1. t # u /\ t \in Task /\ u \in Task /\ pc[u] = "commit" /\ Free(t, Exclusive(j.change), Shared(j.change))
  BY DEF Opens, OpenTransaction, Committing
<1>2. /\ (Exclusive(j.change) \cup Shared(j.change)) \cap Exclusive(job[u].change) = {}
      /\ Exclusive(j.change) \cap Shared(job[u].change) = {}
  BY <1>1 DEF Free
<1>3. j.change \in Placed /\ job[u].change \in Placed
  BY CommittingTypes DEF Opens
<1>4. ASSUME NEW x \in Held(j.change), x \in Held(job[u].change) PROVE FALSE
  <2>1. CASE x[1] # "new"
    BY <1>2, <1>3, <1>4, <2>1, Locks
  <2>2. CASE x[1] = "new"
    <3>1. /\ j.change.kind = "register_key" /\ x[2] = j.change.key
          /\ job[u].change.kind = "register_key" /\ x[2] = job[u].change.key
      BY <1>3, <1>4, <2>2, Locks
    <3>2. j.change \notin HostChange /\ j.change.kind \notin OnRegistry
      BY <3>1 DEF HostChange, OnRegistry, Local
    <3> QED  BY <3>1, <3>2 DEF Opens
  <2> QED  BY <2>1, <2>2
<1> QED  BY <1>1, <1>2, <1>3, <1>4, Locks

LEMMA OpenKeeps ==
    ASSUME TypeInv, TransactionsOK, NEW t, NEW j, Opens(t, j)
    PROVE  TransactionsOK'
<1> DEFINE c == j.change
<1>0. /\ t \in Task /\ t \notin Committing /\ c \in Placed /\ UNCHANGED <<tables, actionVars>>
      /\ journal' = Line(journal, c) /\ journal \in Replayed
      /\ Committing' = Committing \cup {t} /\ job'[t] = j
      /\ \A u \in Committing : job'[u] = job[u]
  BY DEF Opens, OpenTransaction, Committing, TypeInv, TypeOK
<1>1. UNCHANGED <<role, key, invite, challenge, action>>
  BY <1>0 DEF tables, actionVars
<1>2. Exclusion'
  <2>1. ASSUME NEW u \in Committing', NEW v \in Committing', u # v
        PROVE  Held(job'[u].change) \cap (Held(job'[v].change) \cup Referred(job'[v].change)) = {}
    <3>1. CASE u = t
      BY <1>0, <2>1, <3>1, OpenFree
    <3>2. CASE v = t
      <4>1. u \in Committing /\ job'[u] = job[u] /\ job'[v] = j
        BY <1>0, <2>1, <3>2
      <4> QED  BY <4>1, OpenFree
    <3>3. CASE u # t /\ v # t
      BY <1>0, <2>1, <3>3 DEF TransactionsOK, Exclusion
    <3> QED  BY <3>1, <3>2, <3>3
  <2> QED  BY <2>1 DEF Exclusion
<1>3. /\ journal'.role =
           IF c.kind \in {"invite_operator", "set_role"} THEN [journal.role EXCEPT ![c.subject] = c.role]
           ELSE IF c.kind \in Local
                THEN [journal.role EXCEPT ![c.subject] = IF @ = None THEN "admin" ELSE @]
                ELSE journal.role
      /\ journal'.local = IF c.kind \in Local THEN journal.local \cup {c.subject} ELSE journal.local
      /\ journal'.anchors = IF c.kind = "register_key" /\ invite[c.subject].from \in Local
                            THEN journal.anchors \cup {c.key} ELSE journal.anchors
      /\ journal'.confirmed = IF c.kind = "confirm_key" THEN journal.confirmed \cup {c.subject}
                              ELSE journal.confirmed
      /\ journal'.revoked = IF c.kind = "revoke_key" THEN journal.revoked \cup {c.subject}
                            ELSE journal.revoked
  BY <1>0, LineFields
<1>4. /\ c.kind = "invite_operator" => role[c.subject] = None
      /\ c.kind = "confirm_key" => key[c.subject].status = "pending" /\ key[c.subject].owner # j.actor
      /\ c.kind = "revoke_key" => key[c.subject].status = "active"
      /\ c.kind = "set_role" => role[c.subject] \notin {None, c.role} /\ c.subject # j.actor
      /\ c.kind \in {"invite_operator", "set_role"} /\ "admin" \in {c.role, role[c.subject]} =>
             j = job[t] /\ action[ActionOf(t)].required >= QUORUM
      /\ c.kind \in Local => role[c.subject] \in {None, "admin"}
      /\ c.kind = "register_key" => /\ role[c.subject] # None /\ key[c.key] = NoKey
                                    /\ c.key \notin journal.revoked
  <2>1. CASE c.kind \in OnRegistry
    <3>1. j = job[t] /\ RegistryAllowed(c, j.actor, action[ActionOf(t)].required)
      BY <2>1 DEF Opens, HostChange, KeyChange, OnRegistry, Local
    <3> QED  BY <2>1, <3>1, RegistryAssumption
             DEF RegistryAllowed, InviteAllowed, ConfirmAllowed, RevokeAllowed, SetRoleAllowed,
                 OnRegistry, Local, Role
  <2>2. CASE c \in HostChange /\ role[c.subject] \in {None, "admin"}
    BY <2>2 DEF HostChange, Local
  <2>3. CASE c \in KeyChange /\ invite[c.subject].status = "live" /\ key[c.key] = NoKey
             /\ c.key \notin journal.revoked
    BY <2>3 DEF KeyChange, Local, TypeInv, RowsOK
  <2> QED  BY <2>1, <2>2, <2>3 DEF Opens
<1>5. \A o \in Operator : role[o] \in Role \cup {None} /\ journal.role[o] \in Role \cup {None}
  BY DEF TypeInv, TypeOK, Replayed
<1> HIDE DEF c
<1>6. StillAllowed(t)' /\ Weighed(t)'
  <2>1. job'[t].change = c /\ job'[t].actor = j.actor
    BY <1>0 DEF c
  <2>2. StillAllowed(t)'
    BY <1>0, <1>1, <1>3, <1>4, <1>5, <2>1, PlacedTypes DEF StillAllowed, Replayed, OnRegistry, Local
  <2>3. Weighed(t)'
    BY <1>0, <1>1, <1>4, <2>1 DEF Weighed, ActionOf
  <2> QED  BY <2>2, <2>3
<1>7. ASSUME NEW u \in Committing PROVE StillAllowed(u)' /\ Weighed(u)'
  <2>1. /\ Held(c) \cap (Held(job[u].change) \cup Referred(job[u].change)) = {}
        /\ Held(job[u].change) \cap Referred(c) = {}
        /\ job[u].change \in Placed /\ job'[u] = job[u] /\ StillAllowed(u) /\ Weighed(u)
    BY <1>0, OpenFree, CommittingTypes DEF TransactionsOK, c
  <2>2. Weighed(u)'
    BY <1>1, <2>1 DEF Weighed, ActionOf
  <2>3. CASE job[u].change.kind \in {"invite_operator", "set_role"}
    <3> DEFINE s == job[u].change.subject
    <3>1. s \in Operator
      BY <2>1, <2>3, PlacedTypes
    <3>2. c.kind \in {"invite_operator", "set_role"} \cup Local => c.subject # s
      <4>1. CASE job[u].change.kind = "invite_operator"
        <5>1. role[s] = None
          BY <2>1, <4>1 DEF StillAllowed
        <5>2. c.kind \in {"invite_operator"} \cup Local => <<"name", c.subject>> \in Held(c)
          BY DEF Held, Local
        <5>3. <<"name", s>> \in Held(job[u].change)
          BY <4>1 DEF Held
        <5> QED  BY <1>4, <2>1, <5>1, <5>2, <5>3
      <4>2. CASE job[u].change.kind = "set_role"
        <5>1. role[s] # None
          BY <2>1, <4>2 DEF StillAllowed
        <5>2. /\ c.kind \in Local => <<"operator", c.subject>> \in Referred(c)
              /\ c.kind = "set_role" => <<"operator", c.subject>> \in Held(c)
          BY DEF Held, Referred, Local
        <5>3. <<"operator", s>> \in Held(job[u].change)
          BY <4>2 DEF Held, Local
        <5> QED  BY <1>4, <2>1, <5>1, <5>2, <5>3
      <4> QED  BY <2>3, <4>1, <4>2
    <3>3. journal'.role[s] = journal.role[s]
      BY <1>0, <1>3, <3>1, <3>2 DEF Replayed
    <3> QED  BY <1>1, <2>1, <2>2, <2>3, <3>3 DEF StillAllowed, Local
  <2>4. CASE job[u].change.kind \notin {"invite_operator", "set_role"}
    <3>1. c.kind = "revoke_key" /\ job[u].change.kind = "register_key" =>
              c.subject # job[u].change.key
      BY <1>4, <2>1 DEF StillAllowed, NoKey, Local
    <3>2. /\ journal.local \subseteq journal'.local /\ journal.anchors \subseteq journal'.anchors
          /\ journal.confirmed \subseteq journal'.confirmed
      BY <1>3
    <3>3. job[u].change.kind = "register_key" => job[u].change.key \notin journal'.revoked
      BY <1>3, <2>1, <3>1 DEF StillAllowed, Local
    <3>4. job[u].change.kind \in {"confirm_key", "revoke_key", "register_key"} \cup Local
      BY <2>1, <2>4, PlacedTypes DEF OnRegistry
    <3>5. CASE job[u].change.kind \in {"confirm_key", "revoke_key"}
      BY <1>1, <2>1, <2>2, <3>2, <3>5 DEF StillAllowed
    <3>6. CASE job[u].change.kind \in Local
      BY <1>1, <2>1, <2>2, <3>2, <3>6 DEF StillAllowed, Local
    <3>7. CASE job[u].change.kind = "register_key"
      BY <1>1, <2>1, <2>2, <3>2, <3>3, <3>7 DEF StillAllowed, Local
    <3> QED  BY <2>2, <3>4, <3>5, <3>6, <3>7
  <2> QED  BY <2>3, <2>4
<1> QED  BY <1>0, <1>2, <1>6, <1>7 DEF TransactionsOK

\* What a commit writes, table by table.
LEMMA CommitFields ==
    ASSUME TypeInv, NEW t \in Task, Commit(t)
    PROVE  LET c == job[t].change
           IN  /\ t \in Committing /\ c \in Placed
               /\ Committing' = Committing \ {t}
               /\ \A u \in Committing \ {t} : job'[u] = job[u]
               /\ UNCHANGED <<journal, guard, suspect, faults, revokedAtStart, action, challenge,
                              evidence, ceremony, target, lines>>
               /\ role' = IF c.kind \in {"invite_operator", "set_role"} \cup Local
                          THEN [role EXCEPT ![c.subject] = c.role] ELSE role
               /\ \A o \in Operator :
                      \/ invite'[o] = invite[o]
                      \/ o = c.subject /\ c.kind \in {"invite_operator", "register_key"} \cup Local
               /\ \A k \in Key :
                      \/ key'[k] = key[k]
                      \/ k = c.subject /\ c.kind \in {"confirm_key", "revoke_key"}
                      \/ k = c.key /\ c.kind = "register_key"
<1> DEFINE c == job[t].change
<1>1. /\ t \in Committing /\ c \in Placed /\ Written(c, job[t].actor)
      /\ pc' = [pc EXCEPT ![t] = "idle"] /\ job' = [job EXCEPT ![t] = NoJob]
      /\ UNCHANGED <<journal, guard, suspect, faults, revokedAtStart, action, challenge,
                     evidence, ceremony, target, lines>>
  BY CommittingTypes DEF Commit, CommitChange, Committing
<1>2. Committing' = Committing \ {t} /\ \A u \in Committing \ {t} : job'[u] = job[u]
  BY <1>1 DEF Committing, TypeInv, TypeOK
<1>3. c.kind \in Local => c.role = "admin"
  BY <1>1, PlacedTypes
<1> HIDE DEF c
<1>4. role' = IF c.kind \in {"invite_operator", "set_role"} \cup Local
              THEN [role EXCEPT ![c.subject] = c.role] ELSE role
  BY <1>1, <1>3 DEF Written, Local
<1>5. ASSUME NEW o \in Operator
      PROVE  \/ invite'[o] = invite[o]
             \/ o = c.subject /\ c.kind \in {"invite_operator", "register_key"} \cup Local
  BY <1>1 DEF Written, Local, TypeInv, TypeOK
<1>6. ASSUME NEW k \in Key
      PROVE  \/ key'[k] = key[k]
             \/ k = c.subject /\ c.kind \in {"confirm_key", "revoke_key"}
             \/ k = c.key /\ c.kind = "register_key"
  BY <1>1 DEF Written, TypeInv, TypeOK
<1> QED  BY <1>1, <1>2, <1>4, <1>5, <1>6 DEF c

LEMMA CommitKeeps ==
    ASSUME TypeInv, TransactionsOK, NEW t \in Task, Commit(t)
    PROVE  TransactionsOK'
<1> DEFINE c == job[t].change
<1>1. /\ t \in Committing /\ c \in Placed /\ StillAllowed(t)
      /\ Committing' = Committing \ {t} /\ \A u \in Committing \ {t} : job'[u] = job[u]
      /\ UNCHANGED <<journal, action, challenge>>
      /\ role' = IF c.kind \in {"invite_operator", "set_role"} \cup Local
                 THEN [role EXCEPT ![c.subject] = c.role] ELSE role
      /\ \A o \in Operator :
             \/ invite'[o] = invite[o]
             \/ o = c.subject /\ c.kind \in {"invite_operator", "register_key"} \cup Local
      /\ \A k \in Key :
             \/ key'[k] = key[k]
             \/ k = c.subject /\ c.kind \in {"confirm_key", "revoke_key"}
             \/ k = c.key /\ c.kind = "register_key"
  BY CommitFields DEF TransactionsOK
<1>2. /\ c.kind = "invite_operator" => role[c.subject] = None
      /\ c.kind = "confirm_key" => key[c.subject].status = "pending"
      /\ c.kind = "revoke_key" => key[c.subject].status = "active"
      /\ c.kind = "set_role" => role[c.subject] # None
      /\ c.kind = "register_key" => key[c.key].status = "absent"
      /\ c.kind \in {"invite_operator", "set_role"} \cup Local => c.role \in Role /\ c.role # None
  BY <1>1, PlacedTypes, RegistryAssumption DEF StillAllowed, NoKey, Role
<1>3. Exclusion'
  BY <1>1 DEF TransactionsOK, Exclusion
<1>4. ASSUME NEW u \in Committing \ {t} PROVE StillAllowed(u)' /\ Weighed(u)'
  <2> DEFINE d == job[u].change
  <2>1. /\ Held(c) \cap (Held(d) \cup Referred(d)) = {} /\ Held(d) \cap Referred(c) = {}
        /\ d \in Placed /\ job'[u] = job[u] /\ StillAllowed(u) /\ Weighed(u)
    BY <1>1, CommittingTypes DEF TransactionsOK, Exclusion
  <2> HIDE DEF c, d
  <2>2. ASSUME d.kind \in {"invite_operator", "set_role"} PROVE role'[d.subject] = role[d.subject]
    <3>1. d.subject \in Operator
      BY <2>1, <2>2, PlacedTypes
    <3>2. ASSUME c.kind \in {"invite_operator", "set_role"} \cup Local, c.subject = d.subject
          PROVE  FALSE
      <4>1. CASE d.kind = "invite_operator"
        <5>1. role[d.subject] = None
          BY <2>1, <4>1 DEF StillAllowed, d
        <5>2. c.kind \in {"invite_operator"} \cup Local
          BY <1>2, <3>2, <5>1
        <5>3. <<"name", c.subject>> \in Held(c) /\ <<"name", d.subject>> \in Held(d)
          BY <4>1, <5>2 DEF Held, Local
        <5> QED  BY <2>1, <3>2, <5>3
      <4>2. CASE d.kind = "set_role"
        <5>1. role[d.subject] # None
          BY <2>1, <4>2 DEF StillAllowed, d
        <5>2. c.kind \in {"set_role"} \cup Local
          BY <1>2, <3>2, <5>1
        <5>3. <<"operator", c.subject>> \in Held(c) \cup Referred(c)
              /\ <<"operator", d.subject>> \in Held(d)
          BY <4>2, <5>2 DEF Held, Referred, Local
        <5> QED  BY <2>1, <3>2, <5>3
      <4> QED  BY <2>2, <4>1, <4>2
    <3> QED  BY <1>1, <3>1, <3>2 DEF TypeInv, TypeOK
  <2>3. CASE d.kind \in {"invite_operator", "set_role"}
    BY <1>1, <2>1, <2>2, <2>3 DEF StillAllowed, Weighed, ActionOf, Local, d
  <2>4. CASE d.kind \in {"confirm_key", "revoke_key"}
    <3>1. d.subject \in Key
      BY <2>1, <2>4, PlacedTypes
    <3>2. /\ d.kind = "confirm_key" => key[d.subject].status = "pending"
          /\ d.kind = "revoke_key" => key[d.subject].status = "active"
      BY <2>1 DEF StillAllowed, d
    <3>3. ASSUME c.kind = d.kind PROVE c.subject # d.subject
      BY <2>1, <2>4, <3>3 DEF Held, Local
    <3>4. key'[d.subject] = key[d.subject]
      BY <1>1, <1>2, <2>4, <3>1, <3>2, <3>3
    <3> QED  BY <1>1, <2>1, <2>4, <3>4 DEF StillAllowed, Weighed, Local, d
  <2>5. CASE d.kind \in Local
    <3>1. d.subject \in Operator /\ role[d.subject] \in {None, "admin"}
          /\ <<"operator", d.subject>> \in Referred(d) /\ <<"name", d.subject>> \in Held(d)
      BY <2>1, <2>5, PlacedTypes DEF StillAllowed, Held, Referred, Local, d
    <3>2. ASSUME c.kind \in {"invite_operator", "set_role"} PROVE c.subject # d.subject
      <4>1. <<"name", c.subject>> \in Held(c) \/ <<"operator", c.subject>> \in Held(c)
        BY <3>2 DEF Held
      <4> QED  BY <2>1, <3>1, <4>1
    <3>3. c.kind \in Local => c.role = "admin"
      BY <1>1, PlacedTypes
    <3>4. role'[d.subject] \in {None, "admin"}
      BY <1>1, <3>1, <3>2, <3>3 DEF TypeInv, TypeOK
    <3> QED  BY <1>1, <2>1, <2>5, <3>4 DEF StillAllowed, Weighed, Local, d
  <2>6. CASE d.kind = "register_key"
    <3>1. /\ d.subject \in Operator /\ d.key \in Key
          /\ role[d.subject] # None /\ key[d.key] = NoKey /\ d.key \notin journal.revoked
          /\ invite[d.subject].from \in Local => d.key \in journal.anchors
          /\ <<"invite", d.subject>> \in Held(d) /\ <<"new", d.key>> \in Held(d)
      BY <2>1, <2>6, PlacedTypes DEF StillAllowed, Held, Local, d
    <3>2. role'[d.subject] # None
      BY <1>1, <1>2, <3>1 DEF TypeInv, TypeOK
    <3>3. c.kind \in {"register_key"} \cup Local => c.subject # d.subject
      <4>1. c.kind \in {"register_key"} \cup Local => <<"invite", c.subject>> \in Held(c)
        BY DEF Held, Local
      <4> QED  BY <2>1, <3>1, <4>1
    <3>4. invite'[d.subject] = invite[d.subject]
      BY <1>1, <1>2, <3>1, <3>3
    <3>5. c.kind = "register_key" => c.key # d.key
      <4>1. c.kind = "register_key" => <<"new", c.key>> \in Held(c)
        BY DEF Held, Local
      <4> QED  BY <2>1, <3>1, <4>1
    <3>6. key'[d.key] = NoKey
      BY <1>1, <1>2, <3>1, <3>5 DEF NoKey
    <3> QED  BY <1>1, <2>1, <2>6, <3>1, <3>2, <3>4, <3>6 DEF StillAllowed, Weighed, Local, d
  <2> QED  BY <2>1, <2>3, <2>4, <2>5, <2>6, PlacedTypes DEF OnRegistry
<1> QED  BY <1>1, <1>3, <1>4 DEF TransactionsOK

\* A row that reconcile writes is one no transaction has locked.
LEMMA ReconcileFields ==
    ASSUME TypeInv, Reconcile
    PROVE  /\ UNCHANGED <<invite, pc, job, guard, revokedAtStart>>
           /\ \/ \E k \in RevokedInJournal :
                    /\ \A u \in Committing : <<"key", k>> \notin Held(job[u].change)
                    /\ key' = [key EXCEPT ![k].status = "revoked"] /\ UNCHANGED <<role, journal>>
              \/ \E o \in RoleDiffers :
                    /\ \A u \in Committing :
                          <<"operator", o>> \notin Held(job[u].change) \cup Referred(job[u].change)
                    /\ role' = [role EXCEPT ![o] = journal.role[o]] /\ UNCHANGED <<key, journal>>
              \/ /\ UNCHANGED <<key, role>>
                 /\ \E k \in MissingKeys :
                       journal' = [journal EXCEPT !.acknowledged = @ \cup {k}]
<1>1. ASSUME NEW x, NEW u \in Committing, x[1] # "new",
             Free(None, {x}, {})
      PROVE  x \notin Held(job[u].change) \cup Referred(job[u].change)
  <2>1. u \in Task \ {None} /\ pc[u] = "commit" /\ job[u].change \in Placed
    BY CommittingTypes, RegistryAssumption DEF Committing
  <2>2. x \notin Exclusive(job[u].change) /\ x \notin Shared(job[u].change)
    BY <1>1, <2>1 DEF Free
  <2> QED  BY <1>1, <2>1, <2>2, Locks
<1> QED  BY <1>1 DEF Reconcile, ReapplyRevocation, ReapplyRole, AcknowledgeMissing

LEMMA ReconcileKeeps ==
    ASSUME TypeInv, TransactionsOK, Reconcile, UNCHANGED actionVars
    PROVE  TransactionsOK'
<1>1. UNCHANGED <<invite, pc, job, action, challenge>>
  BY ReconcileFields DEF actionVars
<1>2. Exclusion' /\ Committing' = Committing
  BY <1>1 DEF TransactionsOK, Exclusion, Committing
<1>3. ASSUME NEW k \in RevokedInJournal,
             \A u \in Committing : <<"key", k>> \notin Held(job[u].change),
             key' = [key EXCEPT ![k].status = "revoked"], UNCHANGED <<role, journal>>,
             NEW u \in Committing
      PROVE  StillAllowed(u)' /\ Weighed(u)'
  <2>1. key[k].status = "active" /\ StillAllowed(u) /\ Weighed(u)
        /\ \A h \in Key \ {k} : key'[h] = key[h]
    BY <1>3 DEF RevokedInJournal, TransactionsOK, TypeInv, TypeOK
  <2>2. job[u].change.kind = "revoke_key" => job[u].change.subject # k
    BY <1>3 DEF Held, Local
  <2>3. job[u].change.kind = "confirm_key" => job[u].change.subject # k
    BY <2>1 DEF StillAllowed
  <2>4. job[u].change.kind = "register_key" => job[u].change.key # k
    BY <2>1 DEF StillAllowed, NoKey
  <2>5. StillAllowed(u)'
    BY <1>1, <1>3, <2>1, <2>2, <2>3, <2>4, CommittingTypes, PlacedTypes DEF StillAllowed
  <2> QED  BY <1>1, <1>3, <2>1, <2>5 DEF Weighed, ActionOf
<1>4. ASSUME NEW o \in RoleDiffers,
             \A u \in Committing :
                 <<"operator", o>> \notin Held(job[u].change) \cup Referred(job[u].change),
             role' = [role EXCEPT ![o] = journal.role[o]], UNCHANGED <<key, journal>>,
             NEW u \in Committing
      PROVE  StillAllowed(u)' /\ Weighed(u)'
  <2> DEFINE d == job[u].change
  <2>1. role[o] # None /\ journal.role[o] # None /\ StillAllowed(u) /\ Weighed(u)
        /\ \A p \in Operator : role'[p] = IF p = o THEN journal.role[o] ELSE role[p]
    BY <1>4 DEF RoleDiffers, TransactionsOK, TypeInv, TypeOK
  <2>2. d.kind = "invite_operator" => d.subject # o
    BY <2>1 DEF StillAllowed
  <2>3. d.kind = "set_role" => d.subject # o
    BY <1>4 DEF Held, Local
  <2>4. d.kind \in Local => d.subject # o
    BY <1>4 DEF Referred
  <2>5. d \in Placed
    BY CommittingTypes
  <2>6. d.kind \in {"invite_operator", "set_role", "register_key"} \cup Local =>
            d.subject \in Operator
    BY <2>5, PlacedTypes
  <2> HIDE DEF d
  <2>7. StillAllowed(u)'
    BY <1>1, <1>4, <2>1, <2>2, <2>3, <2>4, <2>6 DEF StillAllowed, d
  <2>8. Weighed(u)'
    BY <1>1, <2>1, <2>2, <2>3, <2>6 DEF Weighed, ActionOf, d
  <2> QED  BY <2>7, <2>8
<1>5. ASSUME UNCHANGED <<key, role>>, NEW k,
             journal' = [journal EXCEPT !.acknowledged = @ \cup {k}], NEW u \in Committing
      PROVE  StillAllowed(u)' /\ Weighed(u)'
  <2>1. /\ journal'.role = journal.role /\ journal'.local = journal.local
        /\ journal'.anchors = journal.anchors /\ journal'.confirmed = journal.confirmed
        /\ journal'.revoked = journal.revoked
    BY <1>5 DEF TypeInv, TypeOK, Replayed
  <2>2. StillAllowed(u) /\ Weighed(u)
    BY DEF TransactionsOK
  <2> QED  BY <1>1, <1>5, <2>1, <2>2 DEF StillAllowed, Weighed, ActionOf
<1>6. \A u \in Committing : StillAllowed(u)' /\ Weighed(u)'
  BY <1>3, <1>4, <1>5, ReconcileFields
<1> QED  BY <1>2, <1>6 DEF TransactionsOK

LEMMA AsideKeeps == ASSUME TypeInv, TransactionsOK, Aside PROVE TransactionsOK'
<1>1. Exclusion'
  BY DEF Aside, TransactionsOK, Exclusion
<1>2. ASSUME NEW u \in Committing' PROVE StillAllowed(u)' /\ Weighed(u)'
  <2>1. /\ UNCHANGED <<role, key, invite, journal>> /\ u \in Committing /\ job'[u] = job[u]
        /\ StillAllowed(u) /\ Weighed(u)
    BY DEF Aside, TransactionsOK, tables
  <2>2. job[u].change.kind \in {"invite_operator", "set_role"} => job[u].challenge # None
    BY <2>1, CommittingTypes DEF Local
  <2>3. Weighed(u)'
    BY <2>1, <2>2 DEF Weighed, Aside
  <2> QED  BY <2>1, <2>3 DEF StillAllowed
<1> QED  BY <1>1, <1>2 DEF TransactionsOK

LEMMA TransactionsStep ==
    ASSUME TypeInv, TransactionsOK, [Next]_vars
    PROVE  TransactionsOK'
<1>1. CASE Restore
  <2>1. Committing' = {}
    BY <1>1 DEF Restore, RestartRegistry, Committing
  <2> QED  BY <2>1 DEF TransactionsOK, Exclusion
<1> QED  BY <1>1, RegistryKinds, OpenKeeps, CommitKeeps, ReconcileKeeps, AsideKeeps DEF Opens

CoreInv == TypeInv /\ TransactionsOK

LEMMA CoreInvariant == Spec => []CoreInv
<1>1. Init => CoreInv
  <2>1. Init => Committing = {}
    BY DEF Init, RegistryInit, Committing
  <2> QED  BY <2>1, TypeInit DEF CoreInv, TransactionsOK, Exclusion
<1>2. CoreInv /\ [Next]_vars => CoreInv'
  BY TypeStep, TransactionsStep DEF CoreInv
<1> QED  BY <1>1, <1>2, PTL DEF Spec

\* A key that was confirmed stays confirmed, unless the database is restored.
KeysKept ==
    \A k \in Key : key[k].status \in {"active", "revoked"} =>
        /\ key'[k].status \in {"active", "revoked"}
        /\ key'[k].owner = key[k].owner /\ key'[k].from = key[k].from /\ key'[k].by = key[k].by
        /\ key[k].status = "revoked" => key'[k].status = "revoked"

LEMMA CommitKeepsKeys ==
    ASSUME TypeInv, TransactionsOK, NEW t \in Task, Commit(t)
    PROVE  KeysKept
<1> DEFINE c == job[t].change
<1>1. /\ c \in Placed /\ StillAllowed(t) /\ Written(c, job[t].actor)
      /\ \A k \in Key :
             \/ key'[k] = key[k]
             \/ k = c.subject /\ c.kind \in {"confirm_key", "revoke_key"}
             \/ k = c.key /\ c.kind = "register_key"
  BY CommitFields DEF TransactionsOK, Commit, CommitChange
<1>2. /\ c.kind = "confirm_key" => key[c.subject].status = "pending"
      /\ c.kind = "revoke_key" => key[c.subject].status = "active" /\ c.subject \in Key
      /\ c.kind = "register_key" => key[c.key].status = "absent"
  BY <1>1, PlacedTypes DEF StillAllowed, NoKey
<1> HIDE DEF c
<1>3. c.kind = "revoke_key" =>
          /\ key'[c.subject].status = "revoked"
          /\ key'[c.subject].owner = key[c.subject].owner
          /\ key'[c.subject].from = key[c.subject].from
          /\ key'[c.subject].by = key[c.subject].by
  <2>1. c.kind = "revoke_key" => key' = [key EXCEPT ![c.subject].status = "revoked"]
    BY <1>1 DEF Written, Local
  <2> QED  BY <1>2, <2>1 DEF TypeInv, TypeOK, KeyRow
<1> QED  BY <1>1, <1>2, <1>3 DEF KeysKept

LEMMA KeysStay ==
    ASSUME TypeInv, TransactionsOK, [Next]_vars, ~ Restore
    PROVE  KeysKept
<1>1. CASE Reconcile
  <2>1. \/ key' = key
        \/ \E k \in RevokedInJournal : key' = [key EXCEPT ![k].status = "revoked"]
    BY <1>1, ReconcileFields
  <2>2. \A k \in RevokedInJournal : k \in Key /\ key[k] \in KeyRow
    BY DEF RevokedInJournal, TypeInv, TypeOK, Replayed
  <2> QED  BY <2>1, <2>2 DEF KeysKept, TypeInv, TypeOK, KeyRow
<1>2. CASE UNCHANGED key
  BY <1>2 DEF KeysKept
<1> QED  BY <1>1, <1>2, RegistryKinds, CommitKeepsKeys DEF Opens, Aside, tables

-----------------------------------------------------------------------------
(* Execution. *)

\* An action is executed by the signature that reaches its threshold, one task
\* works on it until it is applied, and its line holds who signed.
ExecutionOK(a) ==
    /\ lines.issued[a] = None =>
           action[a].status = "absent" /\ applied[a] = 0 /\ lines.executed[a] = {}
    /\ action[a].status # "executed" => Executing(a) = {}
    /\ action[a].status = "open" =>
           /\ applied[a] = 0 /\ lines.executed[a] = {}
           /\ Cardinality(Signatures(a)) < action[a].required
    /\ action[a].status = "executed" => Cardinality(Signatures(a)) = action[a].required
    /\ applied[a] \in {0, 1}
    /\ applied[a] = 1 =>
           Executing(a) = {} /\ Cardinality(lines.executed[a]) >= Need(lines.issued[a])
    /\ \A t, u \in Executing(a) : t = u
    /\ \A t \in Executing(a) :
           /\ MySignature(t) \in evidence
           /\ pc[t] = "decided" => lines.executed[a] = {}
           /\ pc[t] \in {"effect", "commit"} =>
                  Cardinality(lines.executed[a]) = action[a].required

\* One signature of an action per operator, each by a key of its own that was confirmed.
EvidenceOK ==
    /\ IsFiniteSet(evidence)
    /\ \A e, f \in evidence : e.action = f.action /\ e.operator = f.operator => e = f
    /\ \A e \in evidence : /\ key[e.key].status \in {"active", "revoked"}
                           /\ key[e.key].owner = e.operator

VerifiedOK(t) ==
    job[t].challenge # None => /\ key[job[t].key].status \in {"active", "revoked"}
                               /\ key[job[t].key].owner = job[t].actor

ExecInv ==
    /\ EvidenceOK
    /\ \A t \in Task : VerifiedOK(t)
    /\ \A a \in ActionId : ExecutionOK(a)

\* Nothing happens to the execution of action a, but a task that stops.
Calm(t) ==
    t \in Deciding' => /\ t \in Deciding /\ job'[t] = job[t]
                       /\ pc'[t] = pc[t] \/ {pc[t], pc'[t]} = {"effect", "commit"}

Untouched(a) ==
    /\ lines'.issued[a] = lines.issued[a] /\ lines'.executed[a] = lines.executed[a]
    /\ applied'[a] = applied[a] /\ Signatures(a)' = Signatures(a)
    /\ action'[a].status = action[a].status /\ action'[a].required = action[a].required
    /\ \A t \in Executing(a)' : t \in Executing(a) /\ Calm(t)

LEMMA ExecutionQuiet ==
    ASSUME NEW a \in ActionId, ExecutionOK(a), Untouched(a)
    PROVE  ExecutionOK(a)'
<1>1. ASSUME NEW t \in Executing(a)'
      PROVE  /\ t \in Executing(a) /\ MySignature(t)' \in evidence'
             /\ pc'[t] = pc[t] \/ {pc[t], pc'[t]} = {"effect", "commit"}
  <2>1. /\ t \in Executing(a) /\ t \in Deciding' /\ job'[t] = job[t]
        /\ pc'[t] = pc[t] \/ {pc[t], pc'[t]} = {"effect", "commit"}
    BY <1>1 DEF Untouched, Calm, Executing
  <2>2. MySignature(t)' = MySignature(t) /\ MySignature(t).action = a
    BY <1>1, <2>1 DEF MySignature, ActionOf, Executing
  <2>3. MySignature(t) \in Signatures(a)
    BY <2>1, <2>2 DEF ExecutionOK, Signatures
  <2>4. MySignature(t) \in Signatures(a)'
    BY <2>3 DEF Untouched
  <2> QED  BY <2>1, <2>2, <2>4 DEF Signatures
<1>2. Executing(a)' \subseteq Executing(a)
  BY <1>1
<1>3. /\ lines'.issued[a] = lines.issued[a] /\ lines'.executed[a] = lines.executed[a]
      /\ applied'[a] = applied[a] /\ Signatures(a)' = Signatures(a)
      /\ action'[a].status = action[a].status /\ action'[a].required = action[a].required
  BY DEF Untouched
<1>4. ASSUME NEW t \in Executing(a)'
      PROVE  /\ pc'[t] = "decided" => lines'.executed[a] = {}
             /\ pc'[t] \in {"effect", "commit"} =>
                    Cardinality(lines'.executed[a]) = action'[a].required
  <2>1. /\ pc[t] = "decided" => lines.executed[a] = {}
        /\ pc[t] \in {"effect", "commit"} => Cardinality(lines.executed[a]) = action[a].required
    BY <1>1, <1>4 DEF ExecutionOK
  <2> QED  BY <1>1, <1>3, <2>1
<1> QED  BY <1>1, <1>2, <1>3, <1>4 DEF ExecutionOK

LEMMA CalmUntouched ==
    ASSUME UNCHANGED <<action, challenge, evidence, lines, applied>>, \A t \in Task : Calm(t)
    PROVE  \A a \in ActionId : Untouched(a)
BY DEF Untouched, Signatures, Executing, Calm, Deciding

LEMMA EvidenceQuiet ==
    ASSUME TypeInv, EvidenceOK, \A t \in Task : VerifiedOK(t), KeysKept
    PROVE  /\ UNCHANGED evidence => EvidenceOK'
           /\ (\A t \in Task : job'[t] = job[t] \/ job'[t].challenge = None) =>
                  \A t \in Task : VerifiedOK(t)'
<1>1. UNCHANGED evidence => EvidenceOK'
  BY DEF EvidenceOK, KeysKept, TypeInv, TypeOK, Evidence
<1>2. ASSUME NEW t \in Task, job'[t] = job[t], job[t].challenge # None PROVE VerifiedOK(t)'
  <2>1. job[t].key \in Key
    BY <1>2 DEF TypeInv, JobOK, JobIs, NoJob
  <2> QED  BY <1>2, <2>1 DEF VerifiedOK, KeysKept
<1> QED  BY <1>1, <1>2 DEF VerifiedOK

\* An operator signs an action once.
LEMMA SignersCounted ==
    ASSUME EvidenceOK, NEW a
    PROVE  /\ IsFiniteSet(Signatures(a)) /\ Cardinality(Signatures(a)) \in Nat
           /\ Cardinality(Signers(a)) = Cardinality(Signatures(a))
<1> DEFINE S == Signatures(a)
           f == [e \in S |-> e.operator]
<1>1. IsFiniteSet(S) /\ Cardinality(S) \in Nat
  BY FS_Subset, FS_CardinalityType DEF EvidenceOK, Signatures
<1>2. f \in Surjection(S, Signers(a))
  BY Fun_IsSurj DEF Signers
<1>3. f \in Injection(S, Signers(a))
  <2>1. f \in [S -> Signers(a)]
    BY DEF Signers
  <2>2. \A d, e \in S : f[d] = f[e] => d = e
    BY DEF EvidenceOK, Signatures
  <2> QED  BY <2>1, <2>2, Fun_IsInj
<1> HIDE DEF S, f
<1>4. Cardinality(Signers(a)) = Cardinality(S)
  BY <1>1, <1>2, <1>3, FS_Surjection
<1> QED  BY <1>1, <1>4 DEF S

\* A task that opens a transaction of its own was idle.
LEMMA OpenCalm ==
    ASSUME TypeInv, NEW t \in Task, pc[t] = "idle", NEW j, j.challenge = None,
           OpenTransaction(t, j)
    PROVE  /\ \A u \in Task : Calm(u)
           /\ \A u \in Task : job'[u] = job[u] \/ job'[u].challenge = None
BY DEF OpenTransaction, Calm, Deciding, TypeInv, TypeOK

LEMMA RegistryCalm ==
    ASSUME TypeInv, RegistrySteps
    PROVE  /\ \A u \in Task : Calm(u)
           /\ \A u \in Task : job'[u] = job[u] \/ job'[u].challenge = None
<1>1. CASE UNCHANGED <<pc, job>>
  BY <1>1 DEF Calm, Deciding
<1>2. ASSUME NEW t \in Task, NEW o, NEW from, LocalInvite(t, o, from)
      PROVE  \E j : j.challenge = None /\ OpenTransaction(t, j) /\ pc[t] = "idle"
  BY <1>2 DEF LocalInvite, NoJob
<1>3. CASE LocalCommands
  BY <1>2, <1>3, OpenCalm DEF LocalCommands, BootstrapAdmin, RecoverAdmin
<1>4. ASSUME NEW t \in Task, NEW o, FinishRegistration(t, o)
      PROVE  UNCHANGED <<pc, job>>
             \/ \E j : j.challenge = None /\ OpenTransaction(t, j) /\ pc[t] = "idle"
  <2>1. \A x : [NoJob EXCEPT !.change = x].challenge = None
    BY DEF NoJob
  <2> QED  BY <1>4, <2>1 DEF FinishRegistration
<1>5. CASE RegisterRoutes
  BY <1>1, <1>4, <1>5, OpenCalm DEF RegisterRoutes, BeginRegistration
<1>6. ASSUME NEW t \in Task, Stop(t)
      PROVE  \A u \in Task : Calm(u) /\ (job'[u] = job[u] \/ job'[u].challenge = None)
  BY <1>6 DEF Stop, Calm, Deciding, NoJob, TypeInv, TypeOK
<1> QED  BY <1>1, <1>3, <1>5, <1>6 DEF RegistrySteps, RefreshRegistry, Reconcile

LEMMA CalmExec ==
    ASSUME TypeInv, ExecInv, KeysKept, UNCHANGED <<action, challenge, evidence, lines, applied>>,
           \A t \in Task : Calm(t),
           \A t \in Task : job'[t] = job[t] \/ job'[t].challenge = None
    PROVE  ExecInv'
BY EvidenceQuiet, CalmUntouched, ExecutionQuiet DEF ExecInv

LEMMA IssueExec ==
    ASSUME TypeInv, ExecInv, KeysKept, ChallengeRoute
    PROVE  ExecInv'
<1>1. UNCHANGED <<pc, job, evidence, applied>>
  BY DEF ChallengeRoute, IssueChallenge, IssueChallengeFor, RegistryVars
<1>2. EvidenceOK' /\ \A t \in Task : VerifiedOK(t)'
  BY <1>1, EvidenceQuiet DEF ExecInv
<1>3. ASSUME NEW c \in ChallengeId, challenge[c].status # "absent"
      PROVE  challenge'[c] = challenge[c]
  BY <1>3 DEF ChallengeRoute, IssueChallenge, IssueChallengeFor, FreshChallenge, NoChallenge,
              Challenged, TypeInv, TypeOK
<1>4. \A a : Executing(a)' = Executing(a) /\ Signatures(a)' = Signatures(a)
             /\ \A t \in Executing(a) : Calm(t)
  <2>1. \A t \in Deciding : job[t].challenge \in ChallengeId /\ challenge[job[t].challenge].status # "absent"
    BY DEF Deciding, TypeInv, JobOK, JobIs, NoJob
  <2> QED  BY <1>1, <1>3, <2>1 DEF Executing, Deciding, Signatures, Calm
<1>5. ASSUME NEW b \in Body, NEW o \in FirstSigner[b], IssueChallenge(b, o), NEW x \in ActionId
      PROVE  ExecutionOK(x)'
  <2>1. PICK a \in FreshAction :
          /\ lines' = [lines EXCEPT !.issued[a] = b]
          /\ action' = [action EXCEPT ![a] =
                 [status |-> "open", body |-> b, required |-> Required(b)]]
    BY <1>5 DEF IssueChallenge
  <2>2. CASE x # a
    <3>1. Untouched(x)
      BY <1>1, <1>4, <2>1, <2>2 DEF Untouched, TypeInv, TypeOK, Lines
    <3> QED  BY <3>1, ExecutionQuiet DEF ExecInv
  <2>3. CASE x = a
    <3>1. lines.issued[a] = None /\ action[a].status = "absent" /\ applied[a] = 0
          /\ lines.executed[a] = {} /\ Executing(a) = {}
      BY <2>1, <2>3 DEF FreshAction, ExecInv, ExecutionOK
    <3>2. Signatures(a) = {}
      BY <2>3, <3>1 DEF Signatures, TypeInv, ActionOK
    <3>3. /\ action'[a].status = "open" /\ action'[a].required = Required(b)
          /\ lines'.issued[a] = b /\ lines'.executed[a] = {} /\ b # None
      BY <2>1, <2>3, <3>1, ActionsAssumption DEF TypeInv, TypeOK, Lines
    <3>4. Required(b) \in {1, 2}
      BY DEF Required, QUORUM
    <3>5. Cardinality(Signatures(a)') < action'[a].required /\ Signatures(a)' = {}
          /\ Executing(a)' = {}
      BY <1>4, <3>1, <3>2, <3>3, <3>4, FS_EmptySet
    <3> QED  BY <1>1, <2>3, <3>1, <3>3, <3>5 DEF ExecutionOK
  <2> QED  BY <2>2, <2>3
<1>6. ASSUME NEW a \in ActionId, NEW o \in Operator, IssueChallengeFor(a, o), NEW x \in ActionId
      PROVE  ExecutionOK(x)'
  <2>1. Untouched(x)
    BY <1>1, <1>4, <1>6 DEF Untouched, IssueChallengeFor
  <2> QED  BY <2>1, ExecutionQuiet DEF ExecInv
<1> QED  BY <1>2, <1>5, <1>6 DEF ChallengeRoute, ExecInv

LEMMA PresentExec ==
    ASSUME TypeInv, ExecInv, KeysKept, NEW t \in Task, NEW c \in ChallengeId, NEW k \in Key,
           Present(t, c, k)
    PROVE  ExecInv'
<1>1. /\ UNCHANGED <<key, action, challenge, evidence, lines, applied>>
      /\ pc[t] = "idle"
      /\ \/ UNCHANGED <<pc, job>>
         \/ /\ key[k].status = "active" /\ pc' = [pc EXCEPT ![t] = "verified"]
            /\ job' = [job EXCEPT ![t] =
                   [change |-> action[challenge[c].action].body, actor |-> key[k].owner,
                    challenge |-> c, key |-> k]]
  BY DEF Present, tables
<1>2. \A u \in Task : Calm(u)
  BY <1>1 DEF Calm, Deciding, TypeInv, TypeOK
<1>3. \A u \in Task : VerifiedOK(u)'
  BY <1>1 DEF ExecInv, VerifiedOK, TypeInv, TypeOK
<1> QED  BY <1>1, <1>2, <1>3, EvidenceQuiet, CalmUntouched, ExecutionQuiet DEF ExecInv

\* The tasks past the signatures of an action that is not executed are none.
LEMMA NotYetExecuted ==
    ASSUME ExecInv, NEW a \in ActionId, NEW t \in Executing(a)
    PROVE  action[a].status = "executed" /\ applied[a] = 0 /\ Executing(a) = {t}
BY DEF ExecInv, ExecutionOK

LEMMA SignExec ==
    ASSUME TypeInv, ExecInv, KeysKept, NEW t \in Task, Sign(t)
    PROVE  ExecInv'
<1>a. PICK a \in ActionId, c \in ChallengeId, e \in Evidence :
        a = ActionOf(t) /\ c = job[t].challenge /\ e = MySignature(t)
  BY WorkTypes DEF Sign, MySignature, Evidence
<1>0. /\ pc[t] = "verified" /\ job[t].challenge = c /\ job[t].challenge # None
      /\ action[a].status # "absent" /\ action[a].required \in Nat
      /\ job[t].actor \in Operator /\ job[t].key \in Key
      /\ e.action = a /\ e.operator = job[t].actor /\ e.key = job[t].key
  BY <1>a, WorkTypes DEF Sign, MySignature, TypeInv, TypeOK, ActionRow, QUORUM
<1>1. UNCHANGED <<tables, lines, applied>>
  BY DEF Sign
<1>2. CASE /\ pc' = [pc EXCEPT ![t] = "idle"] /\ job' = [job EXCEPT ![t] = NoJob]
           /\ UNCHANGED <<evidence, challenge, action>>
  <2>1. \A u \in Task : Calm(u) /\ (job'[u] = job[u] \/ job'[u].challenge = None)
    BY <1>2 DEF Calm, Deciding, NoJob, TypeInv, TypeOK
  <2> QED  BY <1>1, <1>2, <2>1, CalmExec
<1>3. CASE Taken(c, job[t].actor) /\ evidence' = Signatures(a) \cup {e} \cup evidence
           /\ challenge' = [challenge EXCEPT ![c].status = "consumed"]
           /\ IF Cardinality(Signatures(a) \cup {e}) >= action[a].required
              THEN /\ action' = [action EXCEPT ![a].status = "executed"]
                   /\ pc' = [pc EXCEPT ![t] = "decided"] /\ UNCHANGED job
              ELSE /\ pc' = [pc EXCEPT ![t] = "idle"] /\ job' = [job EXCEPT ![t] = NoJob]
                   /\ UNCHANGED action
  <2>1. evidence' = evidence \cup {e} /\ action[a].status = "open" /\ e.operator \notin Signers(a)
    BY <1>0, <1>a, <1>3 DEF Signatures, Taken, ActionOf, TypeInv, TypeOK, ActionRow
  <2>2. /\ applied[a] = 0 /\ lines.executed[a] = {} /\ Executing(a) = {}
        /\ Cardinality(Signatures(a)) < action[a].required /\ lines.issued[a] # None
    BY <1>0, <2>1 DEF ExecInv, ExecutionOK
  <2>3. \A x \in ChallengeId : challenge'[x].action = challenge[x].action
    BY <1>3 DEF TypeInv, TypeOK, ChallengeRow
  <2>4. Signatures(a)' = Signatures(a) \cup {e} /\ e \notin Signatures(a)
    BY <1>0, <2>1 DEF Signatures, Signers
  <2>5. Cardinality(Signatures(a)') = Cardinality(Signatures(a)) + 1
        /\ Cardinality(Signatures(a)) \in Nat
    BY <2>4, SignersCounted, FS_AddElement DEF ExecInv
  <2>6. \A x \in ActionId \ {a} : Signatures(x)' = Signatures(x)
    BY <1>0, <2>1 DEF Signatures
  <2>7. EvidenceOK'
    <3>1. IsFiniteSet(evidence')
      BY <2>1, FS_AddElement DEF ExecInv, EvidenceOK
    <3>2. \A d, f \in evidence' : d.action = f.action /\ d.operator = f.operator => d = f
      BY <1>0, <2>1 DEF ExecInv, EvidenceOK, Signers, Signatures
    <3>3. key[e.key].status \in {"active", "revoked"} /\ key[e.key].owner = e.operator
      BY <1>0 DEF ExecInv, VerifiedOK
    <3> QED  BY <1>1, <2>1, <3>1, <3>2, <3>3 DEF ExecInv, EvidenceOK, tables
  <2>8. CASE /\ Cardinality(Signatures(a) \cup {e}) >= action[a].required
             /\ action' = [action EXCEPT ![a].status = "executed"]
             /\ pc' = [pc EXCEPT ![t] = "decided"] /\ UNCHANGED job
    <3>1. action'[a].status = "executed" /\ action'[a].required = action[a].required
          /\ \A x \in ActionId \ {a} : action'[x] = action[x]
      BY <1>0, <2>8 DEF TypeInv, TypeOK, ActionRow
    <3>2. Deciding' = Deciding \cup {t} /\ \A u \in Deciding : pc'[u] = pc[u] /\ u # t
      BY <1>0, <2>8 DEF Deciding, TypeInv, TypeOK
    <3>3. \A u \in Deciding' : job[u].challenge \in ChallengeId
      BY <1>0, <3>2 DEF Deciding, TypeInv, JobOK, JobIs, NoJob
    <3>4. \A u \in Deciding' : challenge'[job'[u].challenge].action = challenge[job[u].challenge].action
      BY <2>3, <2>8, <3>3
    <3>5. Executing(a)' = {t} /\ \A x \in ActionId \ {a} : Executing(x)' = Executing(x)
      BY <1>0, <1>a, <2>2, <3>2, <3>4 DEF Executing, ActionOf
    <3>6. MySignature(t)' = e
      BY <1>0, <1>a, <2>3, <2>8 DEF MySignature, ActionOf
    <3>7. ExecutionOK(a)'
      <4>1. Cardinality(Signatures(a)') = action'[a].required
        BY <1>0, <2>2, <2>4, <2>5, <2>8, <3>1
      <4>2. pc'[t] = "decided"
        BY <2>8 DEF TypeInv, TypeOK
      <4> QED  BY <1>1, <2>1, <2>2, <3>1, <3>5, <3>6, <4>1, <4>2 DEF ExecutionOK
    <3>8. ASSUME NEW x \in ActionId \ {a} PROVE ExecutionOK(x)'
      <4>1. Untouched(x)
        BY <1>1, <2>6, <2>8, <3>1, <3>2, <3>5 DEF Untouched, Calm, Executing
      <4> QED  BY <4>1, ExecutionQuiet DEF ExecInv
    <3>9. \A u \in Task : VerifiedOK(u)'
      BY <2>8, EvidenceQuiet DEF ExecInv
    <3> QED  BY <2>7, <3>7, <3>8, <3>9 DEF ExecInv
  <2>9. CASE /\ ~ Cardinality(Signatures(a) \cup {e}) >= action[a].required
             /\ UNCHANGED action
             /\ pc' = [pc EXCEPT ![t] = "idle"] /\ job' = [job EXCEPT ![t] = NoJob]
    <3>1. \A u \in Task : Calm(u) /\ (job'[u] = job[u] \/ job'[u].challenge = None)
      BY <2>9 DEF Calm, Deciding, NoJob, TypeInv, TypeOK
    <3>2. \A u \in Deciding' : /\ u \in Deciding /\ job'[u] = job[u]
                               /\ job[u].challenge \in ChallengeId
      BY <3>1 DEF Calm, Deciding, TypeInv, JobOK, JobIs, NoJob
    <3>3. \A x : Executing(x)' \subseteq Executing(x)
      BY <2>3, <3>2 DEF Executing
    <3>4. ExecutionOK(a)'
      <4>1. Cardinality(Signatures(a)') < action[a].required
        BY <1>0, <2>4, <2>5, <2>9
      <4> QED  BY <1>1, <2>1, <2>2, <2>9, <3>3, <4>1 DEF ExecutionOK
    <3>5. ASSUME NEW x \in ActionId \ {a} PROVE ExecutionOK(x)'
      <4>1. Untouched(x)
        BY <1>1, <2>6, <2>9, <3>1, <3>3 DEF Untouched, Executing, Deciding
      <4> QED  BY <4>1, ExecutionQuiet DEF ExecInv
    <3>6. \A u \in Task : VerifiedOK(u)'
      BY <3>1, EvidenceQuiet DEF ExecInv
    <3> QED  BY <2>7, <3>4, <3>5, <3>6 DEF ExecInv
  <2> QED  BY <1>3, <2>8, <2>9
<1> QED  BY <1>a, <1>2, <1>3 DEF Sign, MySignature, ActionOf

LEMMA JournalExec ==
    ASSUME TypeInv, ExecInv, KeysKept, NEW t \in Task, JournalExecution(t)
    PROVE  ExecInv'
<1>1. PICK a \in ActionId : a = ActionOf(t) /\ t \in Executing(a)
  BY WorkTypes DEF JournalExecution, Executing, Deciding, ActionOf
<1>2. /\ pc[t] = "decided" /\ lines' = [lines EXCEPT !.executed[a] = Signers(a)]
      /\ pc' = [pc EXCEPT ![t] = "effect"]
      /\ UNCHANGED <<job, action, challenge, evidence, applied>>
  BY <1>1 DEF JournalExecution, ActionOf
<1>3. Deciding' = Deciding /\ \A x : Executing(x)' = Executing(x) /\ Signatures(x)' = Signatures(x)
  BY <1>1, <1>2 DEF Deciding, Executing, Signatures, TypeInv, TypeOK
<1>4. /\ action[a].status = "executed" /\ applied[a] = 0 /\ Executing(a) = {t}
      /\ Cardinality(Signatures(a)) = action[a].required /\ lines.issued[a] # None
      /\ MySignature(t) \in evidence
  BY <1>1, NotYetExecuted DEF ExecInv, ExecutionOK
<1>5. Cardinality(Signers(a)) = action[a].required
  BY <1>4, SignersCounted DEF ExecInv
<1>6. lines'.issued = lines.issued /\ lines'.executed[a] = Signers(a)
      /\ \A x \in ActionId \ {a} : lines'.executed[x] = lines.executed[x]
  BY <1>2 DEF TypeInv, TypeOK, Lines
<1>7. ExecutionOK(a)'
  <2>1. MySignature(t)' = MySignature(t)
    BY <1>2 DEF MySignature, ActionOf
  <2>2. pc'[t] = "effect"
    BY <1>2 DEF TypeInv, TypeOK
  <2> QED  BY <1>2, <1>3, <1>4, <1>5, <1>6, <2>1, <2>2 DEF ExecutionOK
<1>8. ASSUME NEW x \in ActionId \ {a} PROVE ExecutionOK(x)'
  <2>1. t \notin Executing(x)
    BY <1>1 DEF Executing, ActionOf
  <2>2. \A u \in Deciding \ {t} : Calm(u)
    BY <1>2 DEF Calm, Deciding, TypeInv, TypeOK
  <2>3. Untouched(x)
    BY <1>2, <1>3, <1>6, <2>1, <2>2 DEF Untouched, Executing
  <2> QED  BY <2>3, ExecutionQuiet DEF ExecInv
<1> QED  BY <1>2, <1>7, <1>8, EvidenceQuiet DEF ExecInv

\* The effect of action a takes place, and the task that made it is idle again.
LEMMA AppliedExec ==
    ASSUME TypeInv, ExecInv, KeysKept, NEW t \in Task, NEW a \in ActionId,
           a = ActionOf(t), t \in Executing(a), pc[t] \in {"effect", "commit"},
           applied' = [applied EXCEPT ![a] = applied[a] + 1],
           pc' = [pc EXCEPT ![t] = "idle"], job' = [job EXCEPT ![t] = NoJob],
           UNCHANGED <<action, challenge, evidence, lines>>
    PROVE  ExecInv'
<1>1. /\ action[a].status = "executed" /\ applied[a] = 0 /\ Executing(a) = {t}
      /\ Cardinality(Signatures(a)) = action[a].required /\ lines.issued[a] # None
      /\ Cardinality(lines.executed[a]) = action[a].required
  BY NotYetExecuted DEF ExecInv, ExecutionOK
<1>2. action[a].required >= Need(lines.issued[a])
  <2>1. Need(action[a].body) \in {1, 2}
    BY DEF Need, QUORUM
  <2> QED  BY <1>1, <2>1 DEF TypeInv, ActionOK, QUORUM
<1>3. \A u \in Task : Calm(u) /\ (job'[u] = job[u] \/ job'[u].challenge = None)
  BY DEF Calm, Deciding, NoJob, TypeInv, TypeOK
<1>4. t \notin Deciding' /\ \A x : Executing(x)' \subseteq Executing(x)
  BY <1>3 DEF Calm, Deciding, Executing, TypeInv, TypeOK
<1>5. ExecutionOK(a)'
  <2>1. Executing(a)' = {} /\ applied'[a] = 1
    BY <1>1, <1>4 DEF Executing, TypeInv, TypeOK
  <2>2. Signatures(a)' = Signatures(a)
    BY DEF Signatures
  <2> QED  BY <1>1, <1>2, <2>1, <2>2 DEF ExecutionOK
<1>6. ASSUME NEW x \in ActionId \ {a} PROVE ExecutionOK(x)'
  <2>1. Untouched(x)
    BY <1>3, <1>4 DEF Untouched, Signatures, Executing, Deciding, TypeInv, TypeOK
  <2> QED  BY <2>1, ExecutionQuiet DEF ExecInv
<1> QED  BY <1>3, <1>5, <1>6, EvidenceQuiet DEF ExecInv

LEMMA EffectExec ==
    ASSUME TypeInv, ExecInv, KeysKept, NEW t \in Task, ApplyToTarget(t) \/ OpenEffect(t)
    PROVE  ExecInv'
<1>1. PICK a \in ActionId : a = ActionOf(t) /\ t \in Executing(a) /\ pc[t] = "effect"
  BY WorkTypes DEF ApplyToTarget, OpenEffect, Executing, Deciding, ActionOf
<1>2. UNCHANGED <<action, challenge, evidence, lines>>
  BY DEF ApplyToTarget, OpenEffect, actionVars
<1>3. CASE pc' = [pc EXCEPT ![t] = "idle"] /\ job' = [job EXCEPT ![t] = NoJob] /\ UNCHANGED applied
  <2>1. \A u \in Task : Calm(u) /\ (job'[u] = job[u] \/ job'[u].challenge = None)
    BY <1>3 DEF Calm, Deciding, NoJob, TypeInv, TypeOK
  <2> QED  BY <1>2, <1>3, <2>1, CalmExec
<1>4. CASE OpenTransaction(t, job[t]) /\ UNCHANGED applied
  <2>1. \A u \in Task : Calm(u) /\ job'[u] = job[u]
    BY <1>1, <1>4 DEF OpenTransaction, Calm, Deciding, Executing, TypeInv, TypeOK
  <2> QED  BY <1>2, <1>4, <2>1, CalmExec
<1>5. CASE ApplyToTarget(t) /\ applied' = Applied(t)
  BY <1>1, <1>5, AppliedExec DEF ApplyToTarget, Applied, ActionOf
<1> QED  BY <1>3, <1>4, <1>5 DEF ApplyToTarget, OpenEffect, actionVars

LEMMA CommitExec ==
    ASSUME TypeInv, ExecInv, KeysKept, NEW t \in Task, Commit(t)
    PROVE  ExecInv'
<1>1. /\ pc[t] = "commit" /\ pc' = [pc EXCEPT ![t] = "idle"] /\ job' = [job EXCEPT ![t] = NoJob]
      /\ UNCHANGED <<action, challenge, evidence, lines>>
  BY DEF Commit, CommitChange
<1>2. CASE job[t].challenge = None
  <2>1. \A u \in Task : Calm(u) /\ (job'[u] = job[u] \/ job'[u].challenge = None)
    BY <1>1 DEF Calm, Deciding, NoJob, TypeInv, TypeOK
  <2> QED  BY <1>1, <1>2, <2>1, CalmExec DEF Commit
<1>3. CASE job[t].challenge # None
  <2>1. PICK a \in ActionId : a = ActionOf(t) /\ t \in Executing(a)
    BY <1>1, <1>3, CommittingTypes DEF Committing, Executing, Deciding, ActionOf
  <2>2. applied' = [applied EXCEPT ![a] = applied[a] + 1]
    BY <1>3, <2>1 DEF Commit, Applied, ActionOf
  <2> QED  BY <1>1, <2>1, <2>2, AppliedExec
<1> QED  BY <1>2, <1>3

LEMMA RestoreExec == ASSUME ExecInv, Restore PROVE ExecInv'
<1>1. /\ Deciding' = {} /\ evidence' = {} /\ \A a \in ActionId : action'[a].status = "absent"
      /\ \A t \in Task : job'[t].challenge = None
      /\ UNCHANGED <<lines, applied>>
  BY DEF Restore, RestartRegistry, Deciding, NoJob, NoAction
<1>2. EvidenceOK'
  BY <1>1, FS_EmptySet DEF EvidenceOK
<1>3. \A a : Executing(a)' = {}
  BY <1>1 DEF Executing
<1> QED  BY <1>1, <1>2, <1>3 DEF ExecInv, ExecutionOK, VerifiedOK

LEMMA RestartCalm ==
    ASSUME TypeInv, Restart
    PROVE  /\ \A u \in Task : Calm(u)
           /\ \A u \in Task : job'[u] = job[u] \/ job'[u].challenge = None
<1>1. \A u \in Commands : job[u].challenge = None
  BY CommittingTypes DEF Commands, Committing
<1> QED  BY <1>1 DEF Restart, RestartRegistry, Calm, Deciding, NoJob

LEMMA ExecStep ==
    ASSUME CoreInv, ExecInv, [Next]_vars
    PROVE  ExecInv'
<1>0. TypeInv /\ TransactionsOK
  BY DEF CoreInv
<1>1. CASE Restore
  BY <1>1, RestoreExec
<1>2. CASE ~ Restore
  <2>1. KeysKept
    BY <1>0, <1>2, KeysStay
  <2>2. CASE UNCHANGED vars
    <3>1. UNCHANGED <<pc, job, action, challenge, evidence, lines, applied>>
      BY <2>2 DEF vars, RegistryVars, actionVars
    <3> QED  BY <1>0, <2>1, <3>1, CalmExec DEF Calm, Deciding
  <2>3. CASE RegistrySteps /\ UNCHANGED actionVars
    BY <1>0, <2>1, <2>3, RegistryCalm, CalmExec DEF actionVars
  <2>4. CASE Restart
    BY <1>0, <2>1, <2>4, RestartCalm, CalmExec DEF Restart
  <2>5. CASE ActionsRoute
    BY <1>0, <2>1, <2>5, PresentExec, SignExec, JournalExec, EffectExec DEF ActionsRoute
  <2> QED  BY <1>0, <1>2, <2>1, <2>2, <2>3, <2>4, <2>5, IssueExec, CommitExec DEF Next
<1> QED  BY <1>1, <1>2

LEMMA ExecInit == Init => ExecInv
<1> SUFFICES ASSUME Init PROVE ExecInv
  OBVIOUS
<1>1. /\ evidence = {} /\ Deciding = {} /\ \A t \in Task : job[t].challenge = None
      /\ \A a \in ActionId : /\ action[a].status = "absent" /\ applied[a] = 0
                             /\ lines.issued[a] = None /\ lines.executed[a] = {}
  BY DEF Init, RegistryInit, Deciding, NoJob, NoAction
<1> QED  BY <1>1, FS_EmptySet DEF ExecInv, EvidenceOK, VerifiedOK, ExecutionOK, Executing

LEMMA ExecInvariant == Spec => [](CoreInv /\ ExecInv)
<1>1. CoreInv /\ ExecInv /\ [Next]_vars => ExecInv'
  BY ExecStep
<1> QED  BY <1>1, ExecInit, CoreInvariant, PTL DEF Spec

\* Every value is of the sort its table, the journal or the memory declares; the
\* body and the threshold of an action stay what they were when it was frozen
\* (oe-actions lib.rs, registry.rs, replay.rs).
THEOREM SignedActionsTypeCorrect == Spec => []TypeOK
<1>1. CoreInv => TypeOK
  BY DEF CoreInv, TypeInv
<1> QED  BY <1>1, CoreInvariant, PTL

\* However many challenges are answered at once, whatever fails, restarts or is
\* restored, an action takes effect at most once (lib.rs execute_inner: the
\* status is read again under the lock of the action).
THEOREM ActionsRunOnce == Spec => []ExecutedOnce
<1>1. ExecInv => ExecutedOnce
  <2> SUFFICES ASSUME ExecInv, NEW a \in ActionId
               PROVE  applied[a] + Cardinality(Executing(a)) <= 1
    BY DEF ExecutedOnce
  <2>1. applied[a] \in {0, 1} /\ (applied[a] = 1 => Executing(a) = {})
        /\ \A t, u \in Executing(a) : t = u
    BY DEF ExecInv, ExecutionOK
  <2>2. Cardinality(Executing(a)) \in {0, 1} /\ (Executing(a) = {} => Cardinality(Executing(a)) = 0)
    <3>1. CASE Executing(a) = {}
      BY <3>1, FS_EmptySet
    <3>2. CASE Executing(a) # {}
      <4>1. PICK t \in Executing(a) : TRUE
        BY <3>2
      <4>2. Executing(a) = {t}
        BY <2>1, <4>1
      <4> QED  BY <3>2, <4>2, FS_Singleton
    <3> QED  BY <3>1, <3>2
  <2> QED  BY <2>1, <2>2
<1> QED  BY <1>1, ExecInvariant, PTL

\* What takes effect is what was journalled before anyone signed, and the line
\* that precedes the effect names as many distinct operators as the policy asks
\* for (lib.rs issue_challenge, journal_execution; docs/CA.md on two persons).
THEOREM EffectsAreSigned == Spec => []AppliedAsSigned
<1>1. CoreInv /\ ExecInv => AppliedAsSigned
  <2> SUFFICES ASSUME CoreInv, ExecInv, NEW a \in ActionId, applied[a] > 0
               PROVE  /\ lines.issued[a] # None
                      /\ Cardinality(lines.executed[a]) >= Need(lines.issued[a])
                      /\ action[a].status = "executed" => action[a].body = lines.issued[a]
    BY DEF AppliedAsSigned, Need
  <2>1. applied[a] = 1
    BY DEF ExecInv, ExecutionOK
  <2> QED  BY <2>1 DEF ExecInv, ExecutionOK, CoreInv, TypeInv, ActionOK
<1> QED  BY <1>1, ExecInvariant, PTL

-----------------------------------------------------------------------------
(* What was revoked. *)

\* The guard opens when no key revoked in the journal is active any more, and what
\* is verified was verified with the guard open.
RevokedOK ==
    /\ revokedAtStart \subseteq journal.revoked
    /\ \A k \in journal.revoked : key[k].status # "pending"
    /\ guard = "open" \/ (\E t \in Task : pc[t] = "verified") =>
           \A k \in revokedAtStart : key[k].status # "active"

\* Where the guard opens, and where a signature starts.
LEMMA GuardSteps ==
    ASSUME TypeInv, [Next]_vars, ~ Restart, ~ Restore
    PROVE  /\ revokedAtStart' = revokedAtStart
           /\ guard' \in {guard, "blocked"} \/ (RefreshRegistry /\ ~ Diverges)
           /\ \A t \in Task : pc'[t] = "verified" => pc[t] = "verified" \/ guard = "open"
<1>1. CASE UNCHANGED vars
  BY <1>1 DEF vars, RegistryVars
<1>2. ASSUME RegistrySteps
      PROVE  /\ revokedAtStart' = revokedAtStart
             /\ guard' \in {guard, "blocked"} \/ (RefreshRegistry /\ ~ Diverges)
             /\ \A t \in Task : pc'[t] = "verified" => pc[t] = "verified" \/ guard = "open"
  BY <1>2 DEF RegistrySteps, LocalCommands, BootstrapAdmin, RecoverAdmin, LocalInvite,
              OpenTransaction, RegisterRoutes, BeginRegistration, FinishRegistration,
              RefreshRegistry, Reconcile, Stop, TypeInv, TypeOK
<1>3. CASE ChallengeRoute
  BY <1>3 DEF ChallengeRoute, IssueChallenge, IssueChallengeFor, RegistryVars
<1>4. ASSUME NEW t \in Task, NEW c \in ChallengeId, NEW k \in Key, Present(t, c, k)
      PROVE  UNCHANGED <<revokedAtStart, guard>> /\ guard = "open"
  BY <1>4 DEF Present
<1>5. ASSUME NEW t \in Task,
             Sign(t) \/ JournalExecution(t) \/ ApplyToTarget(t) \/ OpenEffect(t) \/ Commit(t)
      PROVE  /\ UNCHANGED <<revokedAtStart, guard>>
             /\ \A u \in Task : pc'[u] = "verified" => pc[u] = "verified"
  <2>1. UNCHANGED <<revokedAtStart, guard>>
    BY <1>5 DEF Sign, JournalExecution, ApplyToTarget, OpenEffect, Commit, CommitChange
  <2>2. \E l \in Label \ {"verified"} : pc' = [pc EXCEPT ![t] = l]
    BY <1>5 DEF Sign, JournalExecution, ApplyToTarget, OpenEffect, OpenTransaction, Commit,
                CommitChange, Label
  <2> QED  BY <2>1, <2>2 DEF TypeInv, TypeOK
<1> QED  BY <1>1, <1>2, <1>3, <1>4, <1>5 DEF Next, ActionsRoute

LEMMA RevokedStep ==
    ASSUME CoreInv, RevokedOK, [Next]_vars
    PROVE  RevokedOK'
<1>0. TypeInv /\ TransactionsOK
  BY DEF CoreInv
<1>1. CASE Restore
  BY <1>1, FirstTypes DEF Restore, RestartRegistry, RevokedOK, NoKey, TypeInv, TypeOK, Replayed,
                          CoreInv
<1>2. CASE Restart
  <2>1. /\ guard' = "blocked" /\ revokedAtStart' = journal.revoked /\ UNCHANGED <<key, journal>>
        /\ \A t \in Task : pc'[t] # "verified"
    BY <1>2 DEF Restart, RestartRegistry, Commands, tables
  <2> QED  BY <2>1 DEF RevokedOK
<1>3. CASE ~ Restart /\ ~ Restore
  <2>1. /\ revokedAtStart' = revokedAtStart
        /\ guard' \in {guard, "blocked"} \/ (RefreshRegistry /\ ~ Diverges)
        /\ \A t \in Task : pc'[t] = "verified" => pc[t] = "verified" \/ guard = "open"
    BY <1>0, <1>3, GuardSteps
  <2>2. CASE RefreshRegistry /\ ~ Diverges
    <3>1. \A k \in journal.revoked : key[k].status # "active"
      BY <2>2 DEF Diverges, RevokedInJournal
    <3>2. UNCHANGED <<key, journal, pc>>
      BY <2>2 DEF RefreshRegistry, tables
    <3> QED  BY <2>1, <3>1, <3>2 DEF RevokedOK
  <2>3. CASE guard' \in {guard, "blocked"}
    <3>1. guard' = "open" \/ (\E t \in Task : pc'[t] = "verified") =>
              \A k \in revokedAtStart : key[k].status # "active"
      BY <2>1, <2>3 DEF RevokedOK
    <3>2. CASE \E t, j : Opens(t, j)
      <4>1. PICK t, j : Opens(t, j)
        BY <3>2
      <4>2. UNCHANGED key /\ journal' = Line(journal, j.change) /\ j.change \in Placed
            /\ journal \in Replayed
        BY <1>0, <4>1 DEF Opens, OpenTransaction, tables, TypeInv, TypeOK
      <4>3. j.change.kind = "revoke_key" => key[j.change.subject].status = "active"
        BY <4>1 DEF Opens, HostChange, KeyChange, Local, RegistryAllowed, InviteAllowed,
                    ConfirmAllowed, RevokeAllowed, SetRoleAllowed
      <4>4. journal'.revoked = IF j.change.kind = "revoke_key"
                               THEN journal.revoked \cup {j.change.subject} ELSE journal.revoked
        BY <4>2, LineFields
      <4> QED  BY <2>1, <3>1, <4>2, <4>3, <4>4 DEF RevokedOK
    <3>3. CASE \E t \in Task : Commit(t)
      <4>1. PICK t \in Task : Commit(t)
        BY <3>3
      <4> DEFINE c == job[t].change
      <4>2. /\ c \in Placed /\ StillAllowed(t) /\ Written(c, job[t].actor) /\ UNCHANGED journal
            /\ \A k \in Key :
                   \/ key'[k] = key[k]
                   \/ k = c.subject /\ c.kind \in {"confirm_key", "revoke_key"}
                   \/ k = c.key /\ c.kind = "register_key"
        BY <1>0, <4>1, CommitFields DEF TransactionsOK, Commit, CommitChange
      <4>3. /\ c.kind = "confirm_key" => key[c.subject].status = "pending"
            /\ c.kind = "revoke_key" => c.subject \in Key
            /\ c.kind = "register_key" => c.key \notin journal.revoked
        BY <4>2, PlacedTypes DEF StillAllowed
      <4> HIDE DEF c
      <4>4. c.kind = "revoke_key" => key'[c.subject].status = "revoked"
        <5>1. c.kind = "revoke_key" => key' = [key EXCEPT ![c.subject].status = "revoked"]
          BY <4>2 DEF Written, Local
        <5> QED  BY <1>0, <4>3, <5>1 DEF TypeInv, TypeOK, KeyRow
      <4>5. ASSUME NEW k \in journal.revoked, key'[k] # key[k] PROVE key'[k].status = "revoked"
        <5>1. k \in Key /\ key[k].status # "pending"
          BY <1>0, <4>5 DEF TypeInv, TypeOK, Replayed, RevokedOK
        <5> QED  BY <4>2, <4>3, <4>4, <4>5, <5>1
      <4> QED  BY <2>1, <3>1, <4>2, <4>5 DEF RevokedOK
    <3>4. CASE Reconcile
      <4>1. \/ key' = key
            \/ \E k \in RevokedInJournal : key' = [key EXCEPT ![k].status = "revoked"]
        BY <1>0, <3>4, ReconcileFields
      <4>2. \A k \in Key : key'[k] = key[k] \/ key'[k].status = "revoked"
        BY <1>0, <4>1 DEF TypeInv, TypeOK, KeyRow
      <4>3. journal'.revoked = journal.revoked
        BY <1>0, <3>4, ReconcileFields DEF TypeInv, TypeOK, Replayed
      <4>4. journal.revoked \subseteq Key
        BY <1>0 DEF TypeInv, TypeOK, Replayed
      <4> QED  BY <2>1, <3>1, <4>2, <4>3, <4>4 DEF RevokedOK
    <3>5. CASE Aside
      BY <2>1, <3>1, <3>5 DEF RevokedOK, Aside, tables
    <3> QED  BY <1>0, <1>3, <3>2, <3>3, <3>4, <3>5, RegistryKinds
  <2> QED  BY <2>1, <2>2, <2>3
<1> QED  BY <1>1, <1>2, <1>3

\* An action is marked executed by the signature that reaches its threshold.
LEMMA ExecutedBySign ==
    ASSUME TypeInv, [Next]_vars, NEW a \in ActionId,
           action[a].status # "executed", action'[a].status = "executed"
    PROVE  \E t \in Task : Sign(t) /\ a = ActionOf(t)
<1>1. CASE Restore
  BY <1>1 DEF Restore, NoAction
<1>2. CASE ChallengeRoute
  <2>1. \/ action' = action
        \/ \E x \in ActionId : \E b, n : action' = [action EXCEPT ![x] =
               [status |-> "open", body |-> b, required |-> n]]
    BY <1>2 DEF ChallengeRoute, IssueChallenge, IssueChallengeFor, FreshAction
  <2> QED  BY <2>1 DEF TypeInv, TypeOK
<1>3. ASSUME NEW t \in Task, Sign(t) PROVE a = ActionOf(t)
  <2>1. ActionOf(t) \in ActionId
    BY <1>3, WorkTypes DEF Sign
  <2>2. action' = action \/ action' = [action EXCEPT ![ActionOf(t)].status = "executed"]
    BY <1>3 DEF Sign, ActionOf
  <2> QED  BY <2>1, <2>2 DEF TypeInv, TypeOK
<1>4. CASE UNCHANGED action
  BY <1>4
<1>5. CASE UNCHANGED vars
  BY <1>5 DEF vars, actionVars
<1>6. CASE ActionsRoute
  <2>1. UNCHANGED action \/ \E t \in Task : Sign(t)
    BY <1>6 DEF actionVars, ActionsRoute, Present, JournalExecution, ApplyToTarget, OpenEffect
  <2> QED  BY <1>3, <1>4, <2>1
<1>7. CASE (RegistrySteps /\ UNCHANGED actionVars) \/ Restart \/ \E t \in Task : Commit(t)
  BY <1>4, <1>7 DEF actionVars, Commit, Restart
<1> QED  BY <1>1, <1>2, <1>5, <1>6, <1>7 DEF Next

\* The journal is believed before the database: a key it had revoked when the
\* server started signs no decision, whatever rows a restoration brought back
\* (ca-server registry_check.rs, guard.rs; lib.rs, the signers checked again).
THEOREM RevokedKeysDecideNothing == Spec => RevokedStaysOut
<1>1. ASSUME CoreInv, ExecInv, RevokedOK, [Next]_vars, NEW a \in ActionId,
             action[a].status # "executed", action'[a].status = "executed",
             NEW e \in Signatures(a)'
      PROVE  e.key \notin revokedAtStart
  <2>1. PICK t \in Task : Sign(t) /\ a = ActionOf(t)
    BY <1>1, ExecutedBySign DEF CoreInv
  <2>2. TypeInv /\ pc[t] = "verified" /\ job[t].challenge # None
    BY <1>1, <2>1, WorkTypes DEF CoreInv, Sign
  <2>3. /\ e \in Signatures(a) \cup {MySignature(t)}
        /\ StillEntitled(a, Signatures(a) \cup {MySignature(t)})
    <3>1. /\ evidence' = Signatures(a) \cup {MySignature(t)} \cup evidence
          /\ StillEntitled(a, Signatures(a) \cup {MySignature(t)})
      BY <1>1, <2>1 DEF Sign, MySignature, ActionOf
    <3> QED  BY <1>1, <3>1 DEF Signatures
  <2>4. key[e.key].status # "revoked"
    BY <2>3 DEF StillEntitled
  <2>5. key[e.key].status \in {"active", "revoked"}
    BY <1>1, <2>2, <2>3 DEF ExecInv, EvidenceOK, VerifiedOK, Signatures, MySignature
  <2> QED  BY <1>1, <2>2, <2>4, <2>5 DEF RevokedOK
<1>2. CoreInv /\ ExecInv /\ RevokedOK /\ [Next]_vars =>
        [\A a \in ActionId :
            action[a].status # "executed" /\ action'[a].status = "executed" =>
                \A e \in Signatures(a)' : e.key \notin revokedAtStart]_vars
  BY <1>1
<1>3. Init => RevokedOK
  BY DEF Init, RegistryInit, RevokedOK
<1>4. CoreInv /\ RevokedOK /\ [Next]_vars => RevokedOK'
  BY RevokedStep
<1> QED  BY <1>2, <1>3, <1>4, ExecInvariant, PTL DEF Spec, RevokedStaysOut

(* Administrators. *)

\* The role of an operator and the last one the journal gave him.  They differ
\* when a transaction is rolled back or the database restored; signatures told of
\* the journal's, but for the first history and the commands of the host.
RoleOK(o) ==
    /\ o \in Founder => o \in journal.local
    /\ o \in Guest => role[o] # None /\ journal.role[o] # None
    /\ journal.role[o] = "admin" =>
           \/ Told(o, "admin", QUORUM)
           \/ o \notin Guest /\ role[o] \in {None, "admin"}
    /\ journal.role[o] \notin {None, "admin"} =>
           /\ Told(o, journal.role[o], 1) \/ (o \in Guest /\ role[o] # "admin")
           /\ role[o] = "admin" => \/ Told(o, journal.role[o], QUORUM)
                                   \/ o \in journal.local

RolesTold == \A o \in Operator : RoleOK(o)

\* The lines of the journal are there for good.
LEMMA ToldStays ==
    ASSUME CoreInv, ExecInv, [Next]_vars, NEW o, NEW newRole, NEW n \in {1, 2}, Told(o, newRole, n)
    PROVE  Told(o, newRole, n)'
<1>1. PICK a \in ActionId : /\ lines.issued[a] # None /\ lines.issued[a].subject = o
                            /\ lines.issued[a].role = newRole
                            /\ Cardinality(lines.executed[a]) >= n
  BY DEF Told
<1>2. lines \in Lines
  BY DEF CoreInv, TypeInv, TypeOK
<1>3. CASE UNCHANGED lines
  BY <1>1, <1>3 DEF Told
<1>4. CASE UNCHANGED vars
  BY <1>3, <1>4 DEF vars, actionVars
<1>5. ASSUME NEW b \in Body, NEW p \in FirstSigner[b], IssueChallenge(b, p)
      PROVE  lines'.issued[a] = lines.issued[a] /\ lines'.executed = lines.executed
  <2>1. PICK x \in FreshAction : lines' = [lines EXCEPT !.issued[x] = b]
    BY <1>5 DEF IssueChallenge
  <2>2. x # a
    BY <1>1 DEF FreshAction
  <2> QED  BY <1>2, <2>1, <2>2 DEF Lines
<1>6. ASSUME NEW t \in Task, JournalExecution(t)
      PROVE  lines'.issued = lines.issued /\ lines'.executed[a] = lines.executed[a]
  <2>1. /\ lines' = [lines EXCEPT !.executed[ActionOf(t)] = Signers(ActionOf(t))]
        /\ ActionOf(t) \in ActionId /\ t \in Executing(ActionOf(t)) /\ pc[t] = "decided"
    BY <1>6, WorkTypes DEF CoreInv, JournalExecution, Executing, Deciding, ActionOf
  <2>2. lines.executed[ActionOf(t)] = {}
    BY <2>1 DEF ExecInv, ExecutionOK
  <2>3. ActionOf(t) # a
    BY <1>1, <2>2, FS_EmptySet
  <2> QED  BY <1>2, <2>1, <2>3 DEF Lines
<1>7. CASE ChallengeRoute
  <2>1. lines'.issued[a] = lines.issued[a] /\ lines'.executed = lines.executed
    BY <1>5, <1>7 DEF ChallengeRoute, IssueChallengeFor
  <2> QED  BY <1>1, <2>1 DEF Told
<1>8. ASSUME NEW t \in Task, JournalExecution(t) PROVE Told(o, newRole, n)'
  <2>1. lines'.issued = lines.issued /\ lines'.executed[a] = lines.executed[a]
    BY <1>6, <1>8
  <2> QED  BY <1>1, <2>1 DEF Told
<1>9. CASE ActionsRoute
  <2>1. ASSUME NEW t \in Task, NEW c \in ChallengeId, NEW k \in Key, Present(t, c, k)
        PROVE  UNCHANGED lines
    BY <2>1 DEF Present
  <2>2. ASSUME NEW t \in Task, Sign(t) \/ ApplyToTarget(t) \/ OpenEffect(t)
        PROVE  UNCHANGED lines
    BY <2>2 DEF Sign, ApplyToTarget, OpenEffect, actionVars
  <2>3. UNCHANGED lines \/ \E t \in Task : JournalExecution(t)
    BY <1>9, <2>1, <2>2 DEF ActionsRoute
  <2> QED  BY <1>3, <1>8, <2>3
<1>10. ASSUME (RegistrySteps /\ UNCHANGED actionVars) \/ Restart \/ Restore
                  \/ \E t \in Task : Commit(t)
       PROVE  UNCHANGED lines
  BY <1>10 DEF actionVars, Commit, Restart, Restore
<1> QED  BY <1>3, <1>4, <1>7, <1>9, <1>10 DEF Next

\* An invitation or a role that a task is about to give was journalled as signed.
LEMMA WorkIsTold ==
    ASSUME CoreInv, ExecInv, NEW t \in Task, pc[t] \in {"effect", "commit"},
           job[t].change.kind \in {"invite_operator", "set_role"}
    PROVE  LET c == job[t].change
           IN  /\ Told(c.subject, c.role, 1)
               /\ action[ActionOf(t)].required >= QUORUM => Told(c.subject, c.role, QUORUM)
<1>0. TypeInv
  BY DEF CoreInv
<1>1. /\ job[t].challenge # None /\ ActionOf(t) \in ActionId
      /\ action[ActionOf(t)].status # "absent" /\ job[t].change = action[ActionOf(t)].body
      /\ job[t].change \in Body
  <2>1. CASE pc[t] = "effect"
    BY <1>0, <2>1, WorkTypes
  <2>2. CASE pc[t] = "commit"
    BY <1>0, <2>2, CommittingTypes DEF Committing, Local
  <2> QED  BY <2>1, <2>2
<1>2. PICK a \in ActionId : a = ActionOf(t) /\ t \in Executing(a)
  BY <1>1 DEF Executing, Deciding, ActionOf
<1>3. Cardinality(lines.executed[a]) = action[a].required
  BY <1>2 DEF ExecInv, ExecutionOK
<1>4. lines.issued[a] = job[t].change /\ job[t].change # None
      /\ action[a].required \in Need(job[t].change) .. QUORUM
  BY <1>0, <1>1, <1>2, ActionsAssumption DEF TypeInv, ActionOK
<1>5. action[a].required \in Nat /\ action[a].required >= 1
  BY <1>4 DEF Need, QUORUM
<1> QED  BY <1>2, <1>3, <1>4, <1>5 DEF Told, QUORUM

LEMMA RoleQuiet ==
    ASSUME CoreInv, ExecInv, [Next]_vars, NEW o \in Operator, RoleOK(o),
           role'[o] = role[o], journal'.role[o] = journal.role[o],
           journal.local \subseteq journal'.local
    PROVE  RoleOK(o)'
<1>1. \A r : \A n \in {1, 2} : Told(o, r, n) => Told(o, r, n)'
  BY ToldStays
<1> QED  BY <1>1 DEF RoleOK, QUORUM

LEMMA RoleOpens ==
    ASSUME CoreInv, ExecInv, [Next]_vars, NEW t, NEW j, Opens(t, j), NEW o \in Operator, RoleOK(o)
    PROVE  RoleOK(o)'
<1> DEFINE c == j.change
<1>1. /\ t \in Task /\ c \in Placed /\ UNCHANGED <<role, lines>> /\ journal \in Replayed
      /\ journal' = Line(journal, c)
  BY DEF Opens, OpenTransaction, tables, actionVars, CoreInv, TypeInv, TypeOK
<1>2. /\ journal'.role =
           IF c.kind \in {"invite_operator", "set_role"} THEN [journal.role EXCEPT ![c.subject] = c.role]
           ELSE IF c.kind \in Local
                THEN [journal.role EXCEPT ![c.subject] = IF @ = None THEN "admin" ELSE @]
                ELSE journal.role
      /\ journal'.local = IF c.kind \in Local THEN journal.local \cup {c.subject} ELSE journal.local
  BY <1>1, LineFields
<1>3. CASE c.kind \in {"invite_operator", "set_role"} /\ o = c.subject
  <2>1. /\ pc[t] = "effect" /\ j = job[t]
        /\ RegistryAllowed(c, j.actor, action[ActionOf(t)].required)
    BY <1>3 DEF Opens, HostChange, KeyChange, Local
  <2>2. /\ Told(o, c.role, 1)
        /\ action[ActionOf(t)].required >= QUORUM => Told(o, c.role, QUORUM)
    BY <1>1, <1>3, <2>1, WorkIsTold
  <2>3. /\ c.kind = "invite_operator" => role[o] = None
        /\ "admin" \in {c.role, role[o]} => action[ActionOf(t)].required >= QUORUM
    BY <1>3, <2>1, RegistryAssumption
    DEF RegistryAllowed, InviteAllowed, ConfirmAllowed, RevokeAllowed, SetRoleAllowed, Role
  <2>4. journal'.role[o] = c.role /\ c.role \in Role /\ c.role # None /\ journal'.local = journal.local
    BY <1>1, <1>2, <1>3, PlacedTypes, RegistryAssumption DEF Replayed, Local, Role
  <2>5. Told(o, c.role, 1)' /\ ("admin" \in {c.role, role[o]} => Told(o, c.role, QUORUM)')
    BY <2>2, <2>3, <2>4, ToldStays DEF QUORUM
  <2> HIDE DEF c
  <2>6. o \in Guest => role'[o] # None /\ journal'.role[o] # None
    BY <1>1, <2>4 DEF RoleOK
  <2> QED  BY <1>1, <2>4, <2>5, <2>6 DEF RoleOK
<1>4. CASE c.kind \in Local /\ o = c.subject /\ journal.role[o] = None
  <2>1. role[o] \in {None, "admin"}
    BY <1>4 DEF Opens, OnRegistry, KeyChange, Local
  <2>2. journal'.role[o] = "admin"
    BY <1>1, <1>2, <1>4 DEF Replayed, Local
  <2> QED  BY <1>1, <1>2, <1>4, <2>1, <2>2, RegistryAssumption DEF RoleOK, Role
<1>5. CASE journal'.role[o] = journal.role[o]
  BY <1>1, <1>2, <1>5, RoleQuiet
<1> QED  BY <1>1, <1>2, <1>3, <1>4, <1>5 DEF Replayed

LEMMA RoleCommits ==
    ASSUME CoreInv, ExecInv, [Next]_vars, NEW t \in Task, Commit(t), NEW o \in Operator, RoleOK(o)
    PROVE  /\ RoleOK(o)'
           /\ role'[o] # role[o] /\ "admin" \in {role[o], role'[o]} =>
                  \/ role[o] = None /\ o \in journal.local
                  \/ Told(o, role'[o], QUORUM)
<1>0. TypeInv /\ TransactionsOK
  BY DEF CoreInv
<1> DEFINE c == job[t].change
<1>1. /\ t \in Committing /\ c \in Placed /\ UNCHANGED <<journal, lines>>
      /\ StillAllowed(t) /\ Weighed(t) /\ pc[t] = "commit" /\ role \in [Operator -> Role \cup {None}]
      /\ role' = IF c.kind \in {"invite_operator", "set_role"} \cup Local
                 THEN [role EXCEPT ![c.subject] = c.role] ELSE role
  BY <1>0, CommitFields DEF TransactionsOK, Committing, TypeInv, TypeOK
<1>2. CASE c.kind \in {"invite_operator", "set_role"} /\ o = c.subject
  <2>1. /\ role'[o] = c.role /\ journal.role[o] = c.role /\ c.role \in Role /\ c.role # None
        /\ c.kind = "invite_operator" => role[o] = None
    BY <1>1, <1>2, PlacedTypes, RegistryAssumption DEF StillAllowed, Role
  <2>2. /\ Told(o, c.role, 1)
        /\ "admin" \in {c.role, role[o]} => Told(o, c.role, QUORUM)
    BY <1>1, <1>2, WorkIsTold DEF Weighed
  <2> HIDE DEF c
  <2> QED  BY <1>1, <2>1, <2>2 DEF RoleOK, Told
<1>3. CASE c.kind \in Local /\ o = c.subject
  <2>1. role'[o] = "admin" /\ role[o] \in {None, "admin"} /\ o \in journal.local
    BY <1>1, <1>3, PlacedTypes DEF StillAllowed, Local
  <2> HIDE DEF c
  <2> QED  BY <1>1, <2>1 DEF RoleOK, Told
<1>4. CASE role'[o] = role[o]
  BY <1>1, <1>4, RoleQuiet
<1> QED  BY <1>1, <1>2, <1>3, <1>4

LEMMA RoleReconciles ==
    ASSUME CoreInv, ExecInv, [Next]_vars, Reconcile, UNCHANGED actionVars,
           NEW o \in Operator, RoleOK(o)
    PROVE  /\ RoleOK(o)'
           /\ role'[o] # role[o] /\ "admin" \in {role[o], role'[o]} =>
                  \/ Told(o, role'[o], QUORUM)
                  \/ role[o] = "admin" /\ o \in journal.local /\ Told(o, role'[o], 1)
<1>1. \/ UNCHANGED <<role, journal>>
      \/ \E p \in RoleDiffers : role' = [role EXCEPT ![p] = journal.role[p]] /\ UNCHANGED journal
      \/ UNCHANGED role /\ \E k : journal' = [journal EXCEPT !.acknowledged = @ \cup {k}]
  BY ReconcileFields DEF CoreInv
<1>2. journal \in Replayed /\ role \in [Operator -> Role \cup {None}] /\ UNCHANGED lines
  BY DEF CoreInv, TypeInv, TypeOK, actionVars
<1>3. CASE role'[o] = role[o]
  <2>1. journal'.role[o] = journal.role[o] /\ journal.local \subseteq journal'.local
    BY <1>1, <1>2 DEF Replayed
  <2> QED  BY <1>3, <2>1, RoleQuiet
<1>4. CASE role'[o] # role[o]
  <2>1. /\ role'[o] = journal.role[o] /\ UNCHANGED journal
        /\ role[o] # None /\ journal.role[o] # None /\ journal.role[o] # role[o]
    BY <1>1, <1>2, <1>4 DEF RoleDiffers
  <2> QED  BY <1>2, <2>1 DEF RoleOK, Told
<1> QED  BY <1>3, <1>4

LEMMA RoleRestored ==
    ASSUME Restore, NEW o \in Operator, RoleOK(o)
    PROVE  RoleOK(o)'
<1>1. role' = FirstRole /\ UNCHANGED <<journal, lines>>
  BY DEF Restore, RestartRegistry
<1>2. /\ o \in Founder => FirstRole[o] = "admin" /\ o \notin Guest
      /\ o \in Guest => FirstRole[o] = "ra_operateur"
      /\ o \notin Founder \cup Guest => FirstRole[o] = None
  BY FirstTypes, RegistryAssumption
<1> QED  BY <1>1, <1>2, RegistryAssumption DEF RoleOK, Told, Role

LEMMA RolesStep ==
    ASSUME CoreInv, ExecInv, RolesTold, [Next]_vars, NEW o \in Operator
    PROVE  /\ RoleOK(o)'
           /\ role'[o] # role[o] /\ "admin" \in {role[o], role'[o]} =>
                  \/ Restore
                  \/ role[o] = None /\ o \in journal.local
                  \/ Told(o, role'[o], QUORUM)
                  \/ Reconcile /\ role[o] = "admin" /\ o \in journal.local /\ Told(o, role'[o], 1)
<1>0. TypeInv /\ RoleOK(o)
  BY DEF CoreInv, RolesTold
<1>1. CASE \E t, j : Opens(t, j)
  BY <1>0, <1>1, RoleOpens DEF Opens, tables
<1>2. CASE \E t \in Task : Commit(t)
  BY <1>0, <1>2, RoleCommits
<1>3. CASE Reconcile /\ UNCHANGED actionVars
  BY <1>0, <1>3, RoleReconciles
<1>4. CASE Restore
  BY <1>0, <1>4, RoleRestored
<1>5. CASE Aside
  <2>1. UNCHANGED <<role, journal>>
    BY <1>5 DEF Aside, tables
  <2> QED  BY <1>0, <2>1, RoleQuiet
<1> QED  BY <1>0, <1>1, <1>2, <1>3, <1>4, <1>5, RegistryKinds

\* No single operator makes or unmakes an administrator, even with a threshold
\* frozen before the target became one (registry_actions.rs set_role,
\* invite_operator; replay.rs on the journal's last word).
THEOREM AdministratorsTakeTwo == Spec => AdminChangesTakeTwo
<1>1. Init => RolesTold
  <2> SUFFICES ASSUME Init, NEW o \in Operator PROVE RoleOK(o)
    BY DEF RolesTold
  <2>1. role = FirstRole /\ journal.role = FirstRole /\ journal.local = Founder
    BY DEF Init, RegistryInit
  <2>2. /\ o \in Founder => FirstRole[o] = "admin" /\ o \notin Guest
        /\ o \in Guest => FirstRole[o] = "ra_operateur"
        /\ o \notin Founder \cup Guest => FirstRole[o] = None
    BY FirstTypes, RegistryAssumption
  <2> QED  BY <2>1, <2>2, RegistryAssumption DEF RoleOK, Role
<1>2. CoreInv /\ ExecInv /\ RolesTold /\ [Next]_vars => RolesTold'
  BY RolesStep DEF RolesTold
<1>3. CoreInv /\ ExecInv /\ RolesTold /\ [Next]_vars =>
        [\A o \in Operator :
            /\ role'[o] # role[o]
            /\ "admin" \in {role[o], role'[o]}
            => \/ Restore
               \/ role[o] = None /\ o \in journal.local
               \/ Told(o, role'[o], QUORUM)
               \/ Reconcile /\ role[o] = "admin" /\ o \in journal.local
                  /\ Told(o, role'[o], 1)]_vars
  BY RolesStep
<1> QED  BY <1>1, <1>2, <1>3, ExecInvariant, PTL DEF Spec, AdminChangesTakeTwo

\* Unless the registry changed meanwhile, who signed last is still entitled, and
\* what is revoked leaves an administrator.
Unraced ==
    ~ raced => \A t \in Deciding :
        /\ role[job[t].actor] \in AllowedRoles(job[t].change)
        /\ key[job[t].key].status = "active"
        /\ pc[t] = "commit" /\ job[t].change.kind = "revoke_key" => RevokeAllowed(job[t].change)

\* Who decides on an unchanged registry decided already, or signs.
LEMMA DecidingSteps ==
    ASSUME TypeInv, [Next]_vars, ~ Restore, ~ Reconcile, \A t \in Task : ~ Commit(t)
    PROVE  /\ UNCHANGED <<role, key, raced>>
           /\ \A u \in Deciding' : (u \in Deciding /\ job'[u] = job[u]) \/ Sign(u)
<1>1. UNCHANGED <<role, key>>
  BY RegistryKinds DEF Opens, Aside, tables
<1>2. CASE UNCHANGED vars
  BY <1>1, <1>2 DEF vars, RegistryVars, Deciding
<1>3. CASE RegistrySteps
  <2>1. raced' = raced
    BY <1>3 DEF RegistrySteps, LocalCommands, BootstrapAdmin, RecoverAdmin, LocalInvite,
                RegisterRoutes, BeginRegistration, FinishRegistration, RefreshRegistry, Stop
  <2> QED  BY <1>1, <1>3, <2>1, RegistryCalm DEF Calm, Deciding
<1>4. CASE ChallengeRoute
  BY <1>1, <1>4 DEF ChallengeRoute, IssueChallenge, IssueChallengeFor, RegistryVars, Deciding
<1>5. CASE Restart
  BY <1>1, <1>5, RestartCalm DEF Restart, RestartRegistry, Calm, Deciding
<1>6. ASSUME NEW t \in Task, NEW c \in ChallengeId, NEW k \in Key, Present(t, c, k)
      PROVE  raced' = raced /\ \A u \in Deciding' : u \in Deciding /\ job'[u] = job[u]
  BY <1>6 DEF Present, Deciding, TypeInv, TypeOK
<1>7. ASSUME NEW t \in Task, Sign(t)
      PROVE  raced' = raced /\ \A u \in Deciding' : (u \in Deciding /\ job'[u] = job[u]) \/ Sign(u)
  <2>1. \A u \in Task \ {t} : pc'[u] = pc[u] /\ job'[u] = job[u]
    BY <1>7 DEF Sign, TypeInv, TypeOK
  <2> QED  BY <1>7, <2>1 DEF Sign, Deciding
<1>8. ASSUME NEW t \in Task, JournalExecution(t) \/ ApplyToTarget(t) \/ OpenEffect(t)
      PROVE  raced' = raced /\ \A u \in Deciding' : u \in Deciding /\ job'[u] = job[u]
  <2>1. raced' = raced /\ t \in Deciding
    BY <1>8, WorkTypes DEF JournalExecution, ApplyToTarget, OpenEffect, Deciding
  <2>2. \/ job' = job /\ \A u \in Task \ {t} : pc'[u] = pc[u]
        \/ \E l : /\ pc' = [pc EXCEPT ![t] = l] /\ job' = [job EXCEPT ![t] = job[t]]
        \/ pc' = [pc EXCEPT ![t] = "idle"] /\ job' = [job EXCEPT ![t] = NoJob]
    BY <1>8 DEF JournalExecution, ApplyToTarget, OpenEffect, OpenTransaction, TypeInv, TypeOK
  <2> QED  BY <2>1, <2>2 DEF Deciding, TypeInv, TypeOK
<1> QED  BY <1>1, <1>2, <1>3, <1>4, <1>5, <1>6, <1>7, <1>8 DEF Next, ActionsRoute

LEMMA UnracedStep ==
    ASSUME CoreInv, ExecInv, Unraced, [Next]_vars
    PROVE  Unraced'
<1>0. TypeInv
  BY DEF CoreInv
<1>1. CASE Restore
  BY <1>1 DEF Restore, RestartRegistry, Deciding, Unraced
<1>2. CASE \E t \in Task : Commit(t)
  <2>1. PICK t \in Task : pc' = [pc EXCEPT ![t] = "idle"] /\ job' = [job EXCEPT ![t] = NoJob]
                         /\ raced' = (raced \/ Deciding \ {t} # {})
    BY <1>2 DEF Commit, CommitChange
  <2>2. Deciding' \subseteq Deciding \ {t}
    BY <1>0, <2>1 DEF Deciding, TypeInv, TypeOK
  <2>3. Deciding \ {t} # {} => raced'
    BY <2>1
  <2> QED  BY <2>2, <2>3 DEF Unraced
<1>3. CASE Reconcile
  BY <1>3 DEF Reconcile, Deciding, Unraced
<1>4. CASE ~ Restore /\ ~ Reconcile /\ \A t \in Task : ~ Commit(t)
  <2>1. /\ UNCHANGED <<role, key, raced>>
        /\ \A u \in Deciding' : (u \in Deciding /\ job'[u] = job[u]) \/ Sign(u)
    BY <1>0, <1>4, DecidingSteps
  <2>2. ASSUME ~ raced, NEW u \in Deciding'
        PROVE  role[job'[u].actor] \in AllowedRoles(job'[u].change)
               /\ key[job'[u].key].status = "active"
    <3>1. CASE u \in Deciding /\ job'[u] = job[u]
      BY <2>2, <3>1 DEF Unraced
    <3>2. CASE Sign(u) /\ u \in Task
      <4>1. job'[u] = job[u] /\ job[u].challenge # None /\ job[u].change = action[ActionOf(u)].body
        BY <1>0, <2>2, <3>2, WorkTypes DEF Sign, Deciding, NoJob, TypeInv, TypeOK
      <4>2. StillEntitled(ActionOf(u), Signatures(ActionOf(u)) \cup {MySignature(u)})
        BY <1>0, <2>2, <3>2 DEF Sign, Deciding, MySignature, ActionOf, TypeInv, TypeOK
      <4>3. role[job[u].actor] \in AllowedRoles(job[u].change) /\ key[job[u].key].status # "revoked"
        <5>1. MySignature(u).operator = job[u].actor /\ MySignature(u).key = job[u].key
          BY DEF MySignature
        <5> QED  BY <4>1, <4>2, <5>1 DEF StillEntitled
      <4> QED  BY <3>2, <4>1, <4>3 DEF ExecInv, VerifiedOK
    <3> QED  BY <2>1, <2>2, <3>1, <3>2 DEF Deciding
  <2>3. ASSUME ~ raced, NEW u \in Deciding', pc'[u] = "commit", job'[u].change.kind = "revoke_key"
        PROVE  RevokeAllowed(job'[u].change)
    <3>1. u \in Deciding /\ job'[u] = job[u]
      BY <1>0, <2>1, <2>3 DEF Sign, TypeInv, TypeOK, Deciding
    <3>2. CASE pc[u] = "commit"
      BY <2>3, <3>1, <3>2 DEF Unraced
    <3>3. CASE pc[u] # "commit"
      <4>1. PICK t, j : Opens(t, j)
        BY <1>0, <1>4, <2>3, <3>1, <3>3, RegistryKinds DEF Aside, Committing, Deciding
      <4>2. t = u /\ j = job'[u]
        BY <1>0, <2>3, <3>1, <3>3, <4>1 DEF Opens, OpenTransaction, TypeInv, TypeOK, Deciding
      <4> QED  BY <2>3, <4>1, <4>2
               DEF Opens, HostChange, KeyChange, Local, RegistryAllowed, InviteAllowed,
                   ConfirmAllowed, RevokeAllowed, SetRoleAllowed
    <3> QED  BY <3>2, <3>3
  <2> QED  BY <2>1, <2>2, <2>3 DEF Unraced, RevokeAllowed
<1> QED  BY <1>1, <1>2, <1>3, <1>4

LEMMA CommitLeavesAdmin ==
    ASSUME CoreInv, ExecInv, Unraced, NEW t \in Task, Commit(t), HasAdmin, ~ raced
    PROVE  HasAdmin'
<1>0. TypeInv /\ TransactionsOK
  BY DEF CoreInv
<1> DEFINE c == job[t].change
<1>1. /\ t \in Committing /\ c \in Placed /\ StillAllowed(t) /\ Written(c, job[t].actor)
      /\ role' = IF c.kind \in {"invite_operator", "set_role"} \cup Local
                 THEN [role EXCEPT ![c.subject] = c.role] ELSE role
      /\ \A k \in Key :
             \/ key'[k] = key[k]
             \/ k = c.subject /\ c.kind \in {"confirm_key", "revoke_key"}
             \/ k = c.key /\ c.kind = "register_key"
  BY <1>0, CommitFields DEF TransactionsOK, Commit, CommitChange
<1>2. PICK o \in Operator, k \in Key : role[o] = "admin" /\ key[k].status = "active" /\ key[k].owner = o
  BY DEF HasAdmin, Holders, ActiveKeys
<1>3. ASSUME NEW p \in Operator, NEW h \in Key, role'[p] = "admin", key'[h].status = "active",
             key'[h].owner = p
      PROVE  HasAdmin'
  BY <1>3 DEF HasAdmin, Holders, ActiveKeys
<1>4. CASE c.kind \in {"invite_operator"} \cup Local
  <2>1. role'[o] = "admin"
    <3>1. c.kind \in Local => c.role = "admin"
      BY <1>1, PlacedTypes
    <3>2. c.kind = "invite_operator" => c.subject # o
      BY <1>1, <1>2, RegistryAssumption DEF StillAllowed, Role
    <3> QED  BY <1>0, <1>1, <1>2, <1>4, <3>1, <3>2 DEF TypeInv, TypeOK
  <2>2. key'[k] = key[k]
    BY <1>1, <1>4 DEF Local
  <2> QED  BY <1>2, <1>3, <2>1, <2>2
<1>5. CASE c.kind \in {"confirm_key", "register_key"}
  <2>1. key'[k] = key[k]
    BY <1>1, <1>2, <1>5 DEF StillAllowed, NoKey
  <2> QED  BY <1>1, <1>2, <1>3, <1>5, <2>1 DEF Local
<1>6. CASE c.kind = "revoke_key"
  <2>1. role' = role /\ t \in Deciding
    BY <1>0, <1>1, <1>6, CommittingTypes DEF Local, Deciding, Committing
  <2>2. RevokeAllowed(c)
    BY <1>1, <1>6, <2>1 DEF Unraced, Committing
  <2>3. \A h \in Key \ {c.subject} : key'[h] = key[h]
    BY <1>1, <1>6
  <2>4. CASE k # c.subject
    BY <1>2, <1>3, <2>1, <2>3, <2>4
  <2>5. CASE k = c.subject
    <3>1. PICK h \in Key \ {c.subject} : key[h].status = "active" /\ role[key[h].owner] = "admin"
      BY <1>2, <2>2, <2>5 DEF RevokeAllowed
    <3>2. key[h].owner \in Operator
      BY <1>0, <3>1 DEF TypeInv, RowsOK
    <3> QED  BY <1>3, <2>1, <2>3, <3>1, <3>2
  <2> QED  BY <2>4, <2>5
<1>7. CASE c.kind = "set_role"
  <2>1. key' = key /\ t \in Deciding /\ job[t].challenge # None /\ job[t].actor \in Operator
        /\ job[t].key \in Key
    BY <1>0, <1>1, <1>7, CommittingTypes DEF Written, Local, Deciding, Committing
  <2>2. role[job[t].actor] = "admin" /\ key[job[t].key].status = "active"
        /\ key[job[t].key].owner = job[t].actor
    BY <1>7, <2>1 DEF Unraced, AllowedRoles, ExecInv, VerifiedOK, Committing
  <2>3. c.subject # job[t].actor
    BY <1>1, <1>7 DEF StillAllowed
  <2>4. role'[job[t].actor] = role[job[t].actor]
    BY <1>0, <1>1, <2>1, <2>3 DEF TypeInv, TypeOK
  <2> QED  BY <1>3, <2>1, <2>2, <2>4
<1> QED  BY <1>1, <1>4, <1>5, <1>6, <1>7, PlacedTypes DEF OnRegistry

\* As long as no other change slips in between the signatures of an action and
\* its effect, no applied change takes the last administrator away
\* (registry_actions.rs: the last administrator's key, one's own role).
THEOREM AnAdministratorIsLeft == Spec => AdministratorRemains
<1>1. Init => Unraced
  BY DEF Init, RegistryInit, Deciding, Unraced
<1>2. CoreInv /\ ExecInv /\ Unraced /\ [Next]_vars => Unraced'
  BY UnracedStep
<1>3. ASSUME CoreInv, ExecInv, Unraced, [Next]_vars, NEW t \in Task,
             pc[t] = "commit", pc'[t] = "idle", HasAdmin, ~ raced
      PROVE  HasAdmin'
  <2>1. CASE Restore
    <3>1. PICK o \in Founder : TRUE
      BY RegistryAssumption
    <3>2. /\ role' = FirstRole /\ key' = FirstKey /\ o \in Operator /\ FounderKey[o] \in Key
          /\ FirstRole[o] = "admin" /\ FirstKey[FounderKey[o]].status = "active"
          /\ FirstKey[FounderKey[o]].owner = o
      BY <2>1, <3>1, FirstTypes, RegistryAssumption DEF Restore
    <3> QED  BY <3>2 DEF HasAdmin, Holders, ActiveKeys
  <2>2. CASE Reconcile
    BY <1>3, <2>2 DEF Reconcile
  <2>3. CASE UNCHANGED tables
    BY <1>3, <2>3 DEF tables, HasAdmin, Holders, ActiveKeys
  <2>4. CASE \E u \in Task : Commit(u)
    BY <1>3, <2>4, CommitLeavesAdmin
  <2> QED  BY <1>3, <2>1, <2>2, <2>3, <2>4, RegistryKinds DEF CoreInv, Opens, Aside
<1>4. CoreInv /\ ExecInv /\ Unraced /\ [Next]_vars =>
        [\A t \in Task : pc[t] = "commit" /\ pc'[t] = "idle" /\ HasAdmin /\ ~raced
                         => HasAdmin']_vars
  BY <1>3
<1> QED  BY <1>1, <1>2, <1>4, ExecInvariant, PTL DEF Spec, AdministratorRemains

(* The chain of confirmations. *)

\* Every confirmed key is in the least set that the audit finds sound.
Chained ==
    /\ \A o \in Founder : FounderKey[o] \in journal.anchors
    /\ \A k \in Key : key[k].from \in Local => k \in journal.anchors
    /\ \A k \in Key : key[k].status \in {"active", "revoked"} => k \in Sound

\* An executed action, its signatures and its line do not change any more.
LEMMA ExecutedStays ==
    ASSUME CoreInv, ExecInv, [Next]_vars, ~ Restore, NEW a \in ActionId,
           action[a].status = "executed"
    PROVE  /\ action'[a] = action[a] /\ Signatures(a)' = Signatures(a)
           /\ lines'.issued[a] = lines.issued[a]
<1>0. TypeInv /\ lines \in Lines /\ lines.issued[a] # None
  BY DEF CoreInv, ExecInv, ExecutionOK, TypeInv, TypeOK
<1>1. CASE UNCHANGED <<action, evidence, lines>>
  BY <1>1 DEF Signatures
<1>2. CASE UNCHANGED vars
  BY <1>1, <1>2 DEF vars, actionVars
<1>3. ASSUME NEW b \in Body, NEW o \in FirstSigner[b], IssueChallenge(b, o)
      PROVE  action'[a] = action[a] /\ evidence' = evidence
             /\ lines'.issued[a] = lines.issued[a]
  <2>1. PICK x \in FreshAction :
          /\ lines' = [lines EXCEPT !.issued[x] = b]
          /\ action' = [action EXCEPT ![x] =
                 [status |-> "open", body |-> b, required |-> Required(b)]]
          /\ evidence' = evidence
    BY <1>3 DEF IssueChallenge
  <2>2. x # a
    BY <1>0 DEF FreshAction
  <2> QED  BY <1>0, <2>1, <2>2 DEF TypeInv, TypeOK, Lines
<1>4. CASE ChallengeRoute
  <2>1. /\ action'[a] = action[a] /\ evidence' = evidence
        /\ lines'.issued[a] = lines.issued[a]
    BY <1>3, <1>4 DEF ChallengeRoute, IssueChallengeFor
  <2> QED  BY <2>1 DEF Signatures
<1>5. ASSUME NEW t \in Task, Sign(t)
      PROVE  action'[a] = action[a] /\ Signatures(a)' = Signatures(a) /\ lines' = lines
  <2>1. CASE UNCHANGED <<action, evidence>>
    BY <1>5, <2>1 DEF Sign, Signatures
  <2>2. CASE /\ action[ActionOf(t)].status # "executed"
             /\ evidence' = Signatures(ActionOf(t)) \cup {MySignature(t)} \cup evidence
             /\ action' = action \/ action' = [action EXCEPT ![ActionOf(t)].status = "executed"]
    <3>1. ActionOf(t) # a /\ MySignature(t).action = ActionOf(t)
      BY <2>2 DEF MySignature
    <3> QED  BY <1>0, <1>5, <2>2, <3>1 DEF Sign, Signatures, TypeInv, TypeOK
  <2> QED  BY <1>5, <2>1, <2>2 DEF Sign, Taken, MySignature, ActionOf
<1>6. ASSUME NEW t \in Task, JournalExecution(t)
      PROVE  lines'.issued = lines.issued /\ UNCHANGED <<action, evidence>>
  BY <1>0, <1>6 DEF JournalExecution, Lines
<1>7. ASSUME NEW t \in Task, JournalExecution(t)
      PROVE  action'[a] = action[a] /\ Signatures(a)' = Signatures(a)
             /\ lines'.issued[a] = lines.issued[a]
  BY <1>6, <1>7 DEF Signatures
<1> QED  BY <1>1, <1>2, <1>4, <1>5, <1>7
         DEF Next, actionVars, ActionsRoute, Present, ApplyToTarget, OpenEffect, Commit, Restart

LEMMA JournalGrows ==
    ASSUME CoreInv, [Next]_vars
    PROVE  journal.anchors \subseteq journal'.anchors /\ journal.confirmed \subseteq journal'.confirmed
<1>0. TypeInv /\ journal \in Replayed
  BY DEF CoreInv, TypeInv, TypeOK
<1>1. ASSUME NEW t, NEW j, Opens(t, j)
      PROVE  journal.anchors \subseteq journal'.anchors /\ journal.confirmed \subseteq journal'.confirmed
  BY <1>0, <1>1, LineFields DEF Opens, OpenTransaction
<1>2. CASE Reconcile
  BY <1>0, <1>2, ReconcileFields DEF Replayed
<1>3. CASE UNCHANGED journal
  BY <1>3
<1> QED  BY <1>0, <1>1, <1>2, <1>3, RegistryKinds
         DEF Commit, CommitChange, Restore, RestartRegistry, Aside

\* Where a key comes from and whose it is are written once.
LEMMA OriginStays ==
    ASSUME CoreInv, [Next]_vars, ~ Restore, NEW k \in Key, key[k].status # "absent"
    PROVE  key'[k].from = key[k].from /\ key'[k].owner = key[k].owner
<1>0. TypeInv /\ TransactionsOK
  BY DEF CoreInv
<1>1. ASSUME NEW t \in Task, Commit(t)
      PROVE  key'[k].from = key[k].from /\ key'[k].owner = key[k].owner
  <2> DEFINE c == job[t].change
  <2>1. c \in Placed /\ StillAllowed(t) /\ Written(c, job[t].actor)
    BY <1>0, <1>1, CommitFields DEF TransactionsOK, Commit, CommitChange
  <2>2. c.kind = "register_key" => c.key # k
    BY <2>1 DEF StillAllowed, NoKey
  <2> HIDE DEF c
  <2>3. \/ key' = key
        \/ \E h, by : key' = [key EXCEPT ![h].status = "active", ![h].by = by]
        \/ \E h : key' = [key EXCEPT ![h].status = "revoked"]
        \/ \E h, row : h # k /\ key' = [key EXCEPT ![h] = row]
    BY <2>1, <2>2 DEF Written, Local
  <2>4. key \in [Key -> KeyRow] /\ key[k] \in KeyRow
    BY <1>0 DEF TypeInv, TypeOK
  <2>5. ASSUME NEW h, NEW by, key' = [key EXCEPT ![h].status = "active", ![h].by = by]
        PROVE  key'[k].from = key[k].from /\ key'[k].owner = key[k].owner
    BY <2>4, <2>5 DEF KeyRow
  <2>6. ASSUME NEW h, key' = [key EXCEPT ![h].status = "revoked"]
        PROVE  key'[k].from = key[k].from /\ key'[k].owner = key[k].owner
    BY <2>4, <2>6 DEF KeyRow
  <2>7. ASSUME NEW h, NEW row, h # k, key' = [key EXCEPT ![h] = row]
        PROVE  key'[k] = key[k]
    BY <2>4, <2>7
  <2> QED  BY <2>3, <2>5, <2>6, <2>7
<1>2. CASE Reconcile
  <2>1. \/ key' = key
        \/ \E h \in RevokedInJournal : key' = [key EXCEPT ![h].status = "revoked"]
    BY <1>0, <1>2, ReconcileFields
  <2> QED  BY <1>0, <2>1 DEF TypeInv, TypeOK, KeyRow
<1>3. CASE UNCHANGED key
  BY <1>3
<1> QED  BY <1>0, <1>1, <1>2, <1>3, RegistryKinds DEF Opens, Aside, tables

LEMMA SoundGrows ==
    ASSUME CoreInv, ExecInv, [Next]_vars, ~ Restore
    PROVE  Sound \subseteq Sound'
<1>0. TypeInv /\ TransactionsOK /\ KeysKept
  BY KeysStay DEF CoreInv
<1>1. ASSUME NEW k \in Key, Anchored(k) PROVE Anchored(k)'
  <2>1. key[k].status # "absent"
    BY <1>0, <1>1, RegistryAssumption DEF Anchored, TypeInv, RowsOK, NoKey
  <2> QED  BY <1>1, <2>1, OriginStays, JournalGrows DEF Anchored
<1>2. ASSUME NEW k \in Key, NEW S, key[k].from \notin Local, Confirmed(k, S)
      PROVE  key'[k].from \notin Local /\ Confirmed(k, S)'
  <2>1. PICK a \in ActionId :
          /\ action[a].status = "executed"
          /\ action[a].body.kind = "confirm_key" /\ action[a].body.subject = k
          /\ Signers(a) # {} /\ Cardinality(Signers(a)) >= action[a].required
          /\ \A e \in Signatures(a) : /\ key[e.key].owner = e.operator
                                      /\ e.operator # key[k].owner
                                      /\ e.key \in S
          /\ lines.issued[a] = action[a].body
          /\ key[k].by \in Signers(a)
          /\ k \in journal.confirmed
    BY <1>2 DEF Confirmed
  <2>2. /\ action'[a] = action[a] /\ Signatures(a)' = Signatures(a) /\ Signers(a)' = Signers(a)
        /\ lines'.issued[a] = lines.issued[a]
    BY <2>1, ExecutedStays DEF Signers
  <2>3. key[k].status \in {"active", "revoked"}
    <3>1. key[k].by \in Operator
      BY <1>0, <2>1 DEF Signers, Signatures, TypeInv, TypeOK, Evidence
    <3>2. key[k].status \notin {"absent", "pending"}
      BY <1>0, <3>1, RegistryAssumption DEF TypeInv, RowsOK, NoKey
    <3> QED  BY <1>0, <3>2 DEF TypeInv, TypeOK, KeyRow
  <2>4. key'[k].owner = key[k].owner /\ key'[k].from = key[k].from /\ key'[k].by = key[k].by
    BY <1>0, <2>3 DEF KeysKept
  <2>5. \A e \in Signatures(a) : key'[e.key].owner = key[e.key].owner
    BY <1>0 DEF KeysKept, ExecInv, EvidenceOK, Signatures, TypeInv, TypeOK, Evidence
  <2>6. k \in journal'.confirmed
    BY <2>1, JournalGrows
  <2> QED  BY <1>2, <2>1, <2>2, <2>4, <2>5, <2>6 DEF Confirmed
<1>3. ASSUME NEW S, Closed(S)' PROVE Closed(S)
  BY <1>1, <1>2, <1>3 DEF Closed
<1> QED  BY <1>3 DEF Sound

\* What a confirmation rests on, when its transaction commits.
LEMMA ConfirmedBySound ==
    ASSUME CoreInv, ExecInv, Chained, NEW t \in Task, Commit(t),
           job[t].change.kind = "confirm_key"
    PROVE  job[t].change.subject \in Sound'
<1>0. TypeInv /\ TransactionsOK
  BY DEF CoreInv
<1>1. PICK k \in Key : /\ k = job[t].change.subject /\ key[k].status = "pending"
                       /\ key[k].owner # job[t].actor /\ k \in journal.confirmed
  BY <1>0, CommitFields, PlacedTypes DEF TransactionsOK, StillAllowed
<1>2. key' = [key EXCEPT ![k].status = "active", ![k].by = job[t].actor]
      /\ UNCHANGED <<journal, action, evidence, lines>>
  BY <1>1 DEF Commit, CommitChange, Written, Local
<1>3. key'[k].by = job[t].actor /\ key'[k].owner = key[k].owner /\ key'[k].from = key[k].from
      /\ key[k].from \notin Local /\ \A h \in Key : key'[h].owner = key[h].owner
  BY <1>0, <1>1, <1>2 DEF TypeInv, TypeOK, KeyRow, RowsOK
<1>4. PICK a \in ActionId : /\ a = ActionOf(t) /\ t \in Executing(a)
                            /\ action[a].body = job[t].change /\ action[a].status # "absent"
  <2>1. t \in Committing /\ job[t].challenge # None
    BY <1>0, CommitFields, CommittingTypes DEF Local
  <2> QED  BY <1>0, <2>1, CommittingTypes DEF Executing, Deciding, Committing, ActionOf
<1>5. /\ action[a].status = "executed" /\ MySignature(t) \in Signatures(a)
      /\ Cardinality(Signatures(a)) = action[a].required
      /\ action[a].required = 1 /\ lines.issued[a] = action[a].body
  <2>1. action[a].status = "executed"
    BY <1>4, NotYetExecuted
  <2>2. MySignature(t) \in evidence /\ Cardinality(Signatures(a)) = action[a].required
    BY <1>4, <2>1 DEF ExecInv, ExecutionOK
  <2>3. MySignature(t).action = a
    BY <1>4 DEF MySignature
  <2>4. action[a].required = 1 /\ lines.issued[a] = action[a].body
    BY <1>0, <1>4 DEF TypeInv, ActionOK
  <2> QED  BY <2>1, <2>2, <2>3, <2>4 DEF Signatures
<1>6. Signatures(a) = {MySignature(t)}
  BY <1>5, SignersCounted, FS_Singleton DEF ExecInv
<1>7. Signers(a) = {job[t].actor} /\ Cardinality(Signers(a)) = 1
  <2>1. MySignature(t).operator = job[t].actor
    BY DEF MySignature
  <2>2. Signers(a) = {job[t].actor}
    BY <1>6, <2>1 DEF Signers
  <2> QED  BY <2>2, FS_Singleton
<1>8. \A e \in Signatures(a) : /\ e.operator = job[t].actor /\ key[e.key].owner = e.operator
                               /\ e.key \in Key /\ key[e.key].status \in {"active", "revoked"}
  BY <1>0, <1>6 DEF MySignature, ExecInv, EvidenceOK, Signatures, TypeInv, TypeOK, Evidence
<1>9. Signatures(a)' = Signatures(a) /\ Signers(a)' = Signers(a)
  BY <1>2 DEF Signatures, Signers
<1>10. [Next]_vars /\ ~ Restore
  <2>1. Next
    BY DEF Next
  <2>2. pc[t] = "commit" /\ faults' = faults
    BY DEF Commit, CommitChange
  <2>3. ~ Restore
    BY <1>0, <2>2, RegistryAssumption DEF Restore, TypeInv, TypeOK
  <2> QED  BY <2>1, <2>3
<1>11. \A e \in Signatures(a) : e.key \in Sound'
  BY <1>8, <1>10, SoundGrows DEF Chained
<1>12. ASSUME NEW S \in SUBSET Key, Closed(S)' PROVE k \in S
  <2>1. \A e \in Signatures(a) : e.key \in S
    BY <1>11, <1>12 DEF Sound
  <2>2. /\ action'[a].status = "executed" /\ lines'.issued[a] = action'[a].body
        /\ action'[a].body.kind = "confirm_key" /\ action'[a].body.subject = k
      BY <1>1, <1>2, <1>4, <1>5
  <2>3. /\ Signers(a)' # {} /\ Cardinality(Signers(a)') >= action'[a].required
        /\ key'[k].by \in Signers(a)'
    BY <1>2, <1>3, <1>5, <1>7, <1>9
  <2>4. \A e \in Signatures(a)' : /\ key'[e.key].owner = e.operator
                                  /\ e.operator # key'[k].owner
                                  /\ e.key \in S
    BY <1>1, <1>3, <1>8, <1>9, <2>1
  <2>5. k \in journal'.confirmed
    BY <1>1, <1>2
  <2>6. Confirmed(k, S)'
    BY <2>2, <2>3, <2>4, <2>5 DEF Confirmed
  <2> QED  BY <1>3, <1>12, <2>6 DEF Closed
<1> QED  BY <1>1, <1>12 DEF Sound

LEMMA ChainedCommits ==
    ASSUME CoreInv, ExecInv, Chained, [Next]_vars, NEW t \in Task, Commit(t)
    PROVE  Chained'
<1>0. TypeInv /\ TransactionsOK
  BY DEF CoreInv
<1> DEFINE c == job[t].change
<1>1. /\ c \in Placed /\ StillAllowed(t) /\ Written(c, job[t].actor) /\ UNCHANGED journal
      /\ \A k \in Key :
             \/ key'[k] = key[k]
             \/ k = c.subject /\ c.kind \in {"confirm_key", "revoke_key"}
             \/ k = c.key /\ c.kind = "register_key"
  BY <1>0, CommitFields DEF TransactionsOK, Commit, CommitChange
<1>2. ~ Restore
  <2>1. pc[t] = "commit" /\ faults' = faults
    BY DEF Commit, CommitChange
  <2> QED  BY <1>0, <2>1, RegistryAssumption DEF Restore, TypeInv, TypeOK
<1>3. Sound \subseteq Sound'
  BY <1>2, SoundGrows
<1>4. CASE c.kind = "register_key"
  <2>1. /\ c.key \in Key
        /\ key'[c.key].from = invite[c.subject].from
        /\ key'[c.key].status = IF invite[c.subject].from \in Local THEN "active" ELSE "pending"
        /\ invite[c.subject].from \in Local => c.key \in journal.anchors
    <3>1. c.key \in Key /\ (invite[c.subject].from \in Local => c.key \in journal.anchors)
      BY <1>1, <1>4, PlacedTypes DEF StillAllowed
    <3> HIDE DEF c
    <3> QED  BY <1>0, <1>1, <1>4, <3>1 DEF Written, Local, TypeInv, TypeOK
  <2>2. ASSUME invite[c.subject].from \in Local PROVE c.key \in Sound'
    <3>1. PICK k \in Key : k = c.key
      BY <2>1
    <3>2. Anchored(k)'
      BY <1>1, <2>1, <2>2, <3>1 DEF Anchored
    <3>3. k \in Sound'
      BY <3>2 DEF Sound, Closed
    <3> QED  BY <3>1, <3>3
  <2> QED  BY <1>1, <1>3, <1>4, <2>1, <2>2 DEF Chained
<1>5. CASE c.kind \in {"confirm_key", "revoke_key"}
  <2>1. /\ c.subject \in Key /\ key[c.subject].status \in {"pending", "active"}
        /\ c.kind = "revoke_key" => c.subject \in Sound
    BY <1>1, <1>5, PlacedTypes DEF StillAllowed, Chained
  <2>2. c.subject \in Sound'
    BY <1>3, <1>5, <2>1, ConfirmedBySound
  <2>3. \A k \in Key : key[k].status # "absent" => key'[k].from = key[k].from
    BY <1>2, OriginStays
  <2> QED  BY <1>1, <1>3, <1>5, <2>1, <2>2, <2>3 DEF Chained
<1>6. CASE c.kind \notin {"register_key", "confirm_key", "revoke_key"}
  <2>1. \A k \in Key : key'[k] = key[k]
    BY <1>1, <1>6
  <2> QED  BY <1>1, <1>3, <2>1 DEF Chained
<1> QED  BY <1>4, <1>5, <1>6

LEMMA ChainedStep ==
    ASSUME CoreInv, ExecInv, Chained, [Next]_vars
    PROVE  Chained'
<1>0. TypeInv
  BY DEF CoreInv
<1>1. CASE Restore
  <2>1. key' = FirstKey /\ UNCHANGED journal
    BY <1>1 DEF Restore, RestartRegistry
  <2>2. ASSUME NEW k \in Key, key'[k].from \in Local \/ key'[k].status \in {"active", "revoked"}
        PROVE  Anchored(k)'
    BY <2>1, <2>2, FirstTypes, RegistryAssumption DEF Anchored, Chained, NoKey, Local
  <2>3. \A k \in Key : Anchored(k)' => k \in Sound' /\ k \in journal.anchors
    BY <2>1 DEF Sound, Closed, Anchored
  <2> QED  BY <2>1, <2>2, <2>3 DEF Chained
<1>2. CASE Reconcile /\ ~ Restore
  <2>1. Sound \subseteq Sound' /\ journal.anchors \subseteq journal'.anchors
    BY <1>2, SoundGrows, JournalGrows
  <2>2. \/ key' = key
        \/ \E k \in RevokedInJournal : key' = [key EXCEPT ![k].status = "revoked"]
    BY <1>0, <1>2, ReconcileFields
  <2>3. \A k \in Key : /\ key'[k].from = key[k].from
                       /\ key'[k].status \in {"active", "revoked"} =>
                              key[k].status \in {"active", "revoked"}
    BY <1>0, <2>2 DEF RevokedInJournal, TypeInv, TypeOK, KeyRow
  <2> QED  BY <2>1, <2>3 DEF Chained
<1>3. CASE UNCHANGED key /\ ~ Restore
  <2>1. Sound \subseteq Sound' /\ journal.anchors \subseteq journal'.anchors
    BY <1>3, SoundGrows, JournalGrows
  <2> QED  BY <1>3, <2>1 DEF Chained
<1> QED  BY <1>0, <1>1, <1>2, <1>3, ChainedCommits, RegistryKinds DEF Opens, Aside, tables

\* Wherever the program stopped and whatever was restored, every active key has
\* a chain of confirmations that ends in a local registration of the journal
\* (audit.rs check_confirmation; docs/CA.md on operators audit).
THEOREM AuditIsClean == Spec => []AuditFindsNothing
<1>1. Init => Chained
  <2> SUFFICES ASSUME Init PROVE Chained
    OBVIOUS
  <2>1. key = FirstKey /\ journal.anchors = {FounderKey[o] : o \in Founder}
    BY DEF Init, RegistryInit
  <2>2. ASSUME NEW k \in Key, key[k].from \in Local \/ key[k].status \in {"active", "revoked"}
        PROVE  Anchored(k)
    BY <2>1, <2>2, FirstTypes, RegistryAssumption DEF Anchored, NoKey, Local
  <2>3. \A k \in Key : Anchored(k) => k \in Sound /\ k \in journal.anchors
    BY DEF Sound, Closed, Anchored
  <2> QED  BY <2>1, <2>2, <2>3 DEF Chained
<1>2. CoreInv /\ ExecInv /\ Chained /\ [Next]_vars => Chained'
  BY ChainedStep
<1>3. Chained => AuditFindsNothing
  BY DEF Chained, AuditFindsNothing, Findings
<1> QED  BY <1>1, <1>2, <1>3, ExecInvariant, PTL DEF Spec

=============================================================================
