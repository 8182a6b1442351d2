# open-eidas in TLA+

A verification project for [open-eidas](../src/README.md): TLA+ modules that
model the parts of the program where steps of several actors meet, TLC
configurations that check them on small instances, and theorems that TLAPS
proves for every instance. File and line references are to this repository;
`PROJECT.json` gives, for each definition, the lines it stands for.

## 1. The system

open-eidas is a trust service provider: a certification authority (`ca-server`),
an OCSP responder (`ocsp-responder`), a time stamping authority (`tsa-server`)
and a web console for operators (`ra-console`). They are separate processes;
several processes of `ca-server` (the service, and one per operator command)
share one PostgreSQL database and one journal file.

| Part | State | Operations | Talks to |
|---|---|---|---|
| Registry (`oe-castore`) | tables certificates, requests, crls, authorities; the sequence of CRL numbers | one SQL statement per call | everything in `ca-server` |
| Issuing engine (`oe-ca-core`) | none in memory: each call reads and writes the registry | `issue`, `revoke`, `publish_crl`; `revoke_authority` for the root | registry, journal, HSM |
| Request workflow (`oe-raflow`) | requests: PENDING, APPROVED or REJECTED, ISSUED | `submit`, `submit_mtls`, `approve`, `reject` | issuing engine, registry, journal |
| `ca-server` | the connections of mutual-TLS peers; a timer; a cached CRL | enrolment, CRL publication, operator commands | workflow, issuing engine |
| OCSP responder (`oe-ocsp-core`) | a snapshot of the last CRL accepted, the instant of the last on-demand refresh | `refresh`, `handle` | `ca-server`, through its CRLs |
| Journal (`oe-audit`) | a file of chained lines | `append`, `verify` | all processes, through a file lock |
| Signed actions (`oe-actions`) | actions, challenges, signatures; operators, their keys and invitations; the guard | `issue_challenge`, `execute`, registration, local commands, `reconcile`, `audit_registry` | console, workflow, issuing engine, journal |
| Time source (`oe-timesource`) | the status published by the last poll | `poll_once`, `now` | NTP servers, journal |
| TSA (`oe-tsa-core`, `tsa-server`) | certificate, chain and key in use; the generations of keys in the token; two files | `timestamp`, `reload`, `enroll`, `retire-key` | time source, HSM, `ca-server` (`oe-enroll`) |
| Tokens (`oe-hsm`) | a session, the provenance and the public key it remembers | open, generate, sign | PKCS#11 |
| Hierarchy (`oe-ca-core`: ceremony, root) | tables authorities and arls | `ceremony`, `authority revoke`, `authority publish-arl` | tokens, registry, journal |
| Console (`ra-console`, `oe-webauthn`) | challenges, sessions, signature counters, incident files, its journal | login, reassertion, incident files, relays, purge | registry of operators (reads), `ca-server` |
| Seals (`oe-seal`) | last sealed head, health | `once`, periodic | journal, TSA, S3 |
| Copies (`oe-replicate`, `oe-s3`), third-party time stamps, conformance checks, encodings | none | | |

What is hard in it: nothing excludes two tasks of `ca-server` (or a task and an
operator's command in another process) from running the same operation at the
same time, and every `await` is a point where the others run, where the
connection of the requester may go away with its handler, and where the process
may die, and where a token may lose its session or its keys. The database makes each call atomic and nothing more; the code relies
on the unique key of requests, on the compare-and-set of their state, on the
sequence of CRL numbers, on "the first revocation wins", and on the order of
the journal and the registry. The responder and the authority share nothing but
CRLs, which arrive late, in the wrong order, or again. The console and
`ca-server` write disjoint tables of one database and each reads the other's;
the time-stamping threads see the clock only through a status that another
thread publishes, and the key only through a certificate that another process
wrote to a file.

What makes each part correct, in a sentence each: a certificate exists only
after an operator's decision and only one is delivered per request (workflow);
nothing is in the registry that the journal does not tell, and what is decided
or revoked stays so (issuing engine); CRLs have distinct numbers, say only what
is true and end up saying everything (publication); answers come from the
newest CRL accepted and are never false (responder); the chain is unbroken
whatever the writers and their crashes (journal); an action is executed once,
with the signatures its policy asks for, and every key of an operator descends
from one the host made (signed actions); a session stands for one answer of one
key, and what an incident file shows was journalled and signed (console); no time
stamp is given on time that is not trusted, or by a key other than its
certificate's (time source, TSA); the root and the issuing authority are those of
one ceremony and a published ARL keeps what was revoked (hierarchy).

`PROJECT.json` lists under `hazards` the places where this is hard to test, and
the property that covers each.

## 2. The modules

```
CaStore ── CaIssuer ─┬─ Enrollment ──── implements ── RequestLifecycle
                     │     ├─ EnrollmentProofs      (theorems)
                     │     └─ MCEnrollment          (values for TLC)
                     └─ CrlPublication ─ implements ── CrlFeed ── OcspResponder
                           ├─ PublicationProofs  (theorems)    ├─ OcspProofs  (theorems)
                           └─ MCCrlPublication                 └─ MCOcspResponder

AuditLog ── JournalSealing ─┬─ JournalProofs      (theorems)
                            └─ MCJournalSealing

OperatorRegistry ── SignedActions ─┬─ SignedActionsProofs  (theorems)
                                   └─ MCSignedActions

TimeSource ── TsaKeys ── Tsa ─┬─ TsaProofs        (theorems)
                              └─ MCTsa

ConsoleSessions ── Incidents ─┬─ ConsoleProofs    (theorems)
                              └─ MCConsole

Hsm ── Hierarchy ─┬─ HierarchyProofs              (theorems)
                  └─ MCHierarchy
```

* **CaStore** is the registry and the journal: variables for the tables, one
  operator per SQL statement. The journal is the set of its lines (the
  properties ask whether a line was written before something else happened,
  never at which rank). A certificate's subject and requester are those of its
  request, so they are not stored twice. A serial number is `free`, `reserved`
  (drawn, perhaps lost), `issued` or `revoked`.
* **CaIssuer** is `Issuer`: `issue`, `revoke` and `publish_crl` as chains of
  steps of a task, `pc[p]` naming the await the task is at. `Abort` is a task
  that stops before its next step: a failing call (every error is returned at
  once), a dropped connection, or the death of the process.
* **Enrollment** adds `Flow` and `Decider`: a submission goes through the check
  of the bootstrap secret, the look-up of the request by its fingerprint, the
  journal and the creation of the request, or through issuance, the update of
  the request, the revocation of the certificates it replaces and a CRL. A
  decision reads, compares and sets, and only then writes to the journal - the
  exception the code documents. The root's revocation of the authority, expiry,
  and mutual-TLS connections (checked when they open, not after) are the
  environment. A submission refused before its first await changes nothing and
  is not a step.
* **RequestLifecycle** is what the workflow promises without its tasks: a
  request is received, decided once, certified (several times if handlers
  race), settled on one certificate, and only that one is answered. Enrollment
  implements it (`ImplementsLifecycle`).
* **CrlPublication** is who publishes: the timer of the service, every
  revocation command, the end of every issuance.
* **CrlFeed** is what readers of CRLs may rely on: numbers are distinct and
  contents true. It deliberately does not promise that a greater number lists
  more. CrlPublication implements it (`ImplementsCrlFeed`), and
* **OcspResponder** takes its CRLs from it: any CRL ever published may be
  downloaded at any time, as a late or replayed one would be.
* **AuditLog** is `Log`: a file of records, complete or torn, with or without
  the newline that ends their line; the lock; and per process how far the file
  was read. `append` is three steps under the lock (catch up, write,
  synchronize), and a write, a process or the machine may stop between or
  inside them. What `scan_chain` accepts is `Readable` and `Follows`. A hash is
  the identity of the record it covers: that two records have two hashes is
  assumed of SHA-256. CaStore's journal is the same file seen as a set.
* **JournalSealing** is `Sealer` as one more writer: a pass reads the head, has
  it stamped, has it counter-stamped, copies the file, and after each of these
  awaits appends a record or counts a failure; `Degraded` is what `/healthz`
  says. Its specification composes it with the other writers.
* **OperatorRegistry** is the tables of operators, keys and invitations with
  everything that writes them: registration (a PENDING key on an invitation, or
  an ACTIVE one on an invitation of the host), the commands `bootstrap-admin` and
  `recover-admin`, the four actions on the registry with the checks and row locks
  of each (`RegistryAllowed`, `Exclusive`, `Shared`, `Free`), the line written
  before each commit (`Written`, `Line`), the replay of the journal
  (`RevokedInJournal`, `RoleDiffers`, `MissingKeys`), the guard that closes the
  service while the registry diverges, its periodic check, and the three
  resolutions of `reconcile`. `RestartRegistry` rolls back what was not committed
  and closes the guard; a backup may have been restored meanwhile.
* **SignedActions** is `Service`: an action frozen with its body and its number
  of signatures, challenges to its signers, and `execute` as four steps - what is
  presented is checked, the challenge is taken and the signature stored (perhaps
  the last one needed), the execution is journalled, the effect is applied. The
  disjuncts of `Next` are the routes of the internal API and the local commands.
  `Sound` is the audit of the chain of confirmations, as the least set of keys
  closed under it, `Findings` what `operators audit` prints. `Told` is what the
  journal says that operators signed, which outlives the rows. The decision on a request or the revocation of a
  certificate is one step that may fail: Enrollment has the inside of it.
* **TimeSource** is `Monitor`: a poll asks the servers one after the other,
  evaluates, journals and publishes, each a step, with a clock that wanders, time
  that passes meanwhile, servers that do not answer and liars. `Traceable`,
  `Announced` and `LeapBlocks` are the rules of `evaluate` and
  `leap_second_blocks`. Time is a few slots, the ones the rules tell apart.
* **TsaKeys** is `enroll` and `retire-key`, each a chain of steps over the token,
  the issuer and the two files (`write_file` truncates, then writes). A key asks
  for its certificate with one and the same request, so an enrolment that died
  after the issuer answered is given the same certificate again
  (`EnrollAsksAgain`, `oe-enroll`).
* **Tsa** composes them with the service: `Boot` and `Serve` (the material of
  the start), the reload task, and a handler that takes the material, asks the
  monitor whether it may stamp, reads the clock and signs. Its container enrols,
  then serves, and may die at any step; time passes between any two.
* **ConsoleSessions** is `LoginService` and `Sessions`: challenges of a login or a
  reassertion, consumed once; the reading of the key, the comparison and the update
  of its counter, the new session, each a step; deadlines and the purge. What
  `ca-server` does to keys and roles happens beside them.
* **Incidents** adds the incident files, each operation its line first and its
  row, or its transaction, afterwards, and the relay of challenges and signatures:
  `Post` is `CaLink::post`, whose answer may be lost after `ca-server` did what was
  asked. Its actions are grouped by route.
* **Hsm** is `Pkcs11Token` as the processes of one host use it: opening a session,
  the unique key under a label, its provenance (an imported pair is refused), the
  public key it remembers, reconnection, and tokens that lose their sessions or
  their keys (`HsmEvent`).
* **Hierarchy** is `ceremony`, `serve`'s checks of the keys, `authority revoke` and
  `authority publish-arl`, several of which may run at the same time. A certificate of
  the hierarchy takes two calls of a token: the reading of a public key (`ReadRootKey`,
  `ReadIssuingKey`) and the signature (`SignRoot`, `SignIssuing`).

Mutants: an operator preceded by "Mutant:" is a definition as a plausible bug
would have it. Nothing uses it; `PROJECT.json` says which definition it stands
in for and which property then fails.

## 3. The runs

| Run | Instance | Properties |
|---|---|---|
| `EnrollmentConcurrent` | 2 tasks in any role, 2 requests of one requester for one subject, 2 serials, 1 stop, 1 operator revocation | `IssuedOnlyAfterApproval`, `DeliveredIsRecorded`, `JournalPrecedesRegistry`, `JournalledDecisionsTookPlace`, `NothingIsUndone`, `ImplementsLifecycle` |
| `EnrollmentSequential` | 1 handler and 1 desk, 2 requesters with client certificates, 2 requests, 2 serials, 1 expiry, 1 operator revocation, no stop | `OneActiveAtRest`, `BootstrapOnce`, `PeerSpeaksForItself`, `SupersededByItsOwner`, `FewLateIssues` |
| `EnrollmentLiveness` | 2 tasks, 1 request, 1 stop, fairness | `ApprovedEventuallyDelivered` |
| `BootstrapViolated` | 2 handlers, no stop | `BootstrapOnce` fails |
| `CrlConcurrent` | timer, revocation, issuance; 1 certificate, 1 stop, 1 expiry, fairness | `AnsweredIsListed`, `ImplementsCrlFeed`, `RevocationEventuallyListed` |
| `OcspAnswers` | 1 request at a time, the periodic refresh, 2 serials, 2 CRL numbers | `AnswersAreTruthful`, `SnapshotNeverGoesBack` |
| `JournalWriters` | a service with its sealer and an operator's command, 3 records, 2 failures or crashes, fairness | `OneChain`, `AcknowledgedIsKept`, `SealsCoverThePast`, `TornLineIsNoticed` |
| `SignedActions` | 2 handlers; 2 administrators, a guest, a fourth person; 3 keys; 7 bodies, 2 actions, 3 challenges, 1 fault | `ExecutedOnce`, `AppliedAsSigned`, `AuditFindsNothing`, `AdminChangesTakeTwo`, `RevokedStaysOut`, `AdministratorRemains` |
| `Tsa` | 2 servers, one a liar; 3 slots around a leap second; 3 generations, 3 certificates; 1 handler, 3 jobs, fairness | `ClockErrorIsSeen`, `LeapSecondIsHeld`, `TokenVerifies`, `EachCertificateItsKey`, `LeapBlockEnds` |
| `Console` | 2 requests at a time, 2 operators with a key each, 3 challenges, 3 sessions, 1 file, 1 entry, 1 action, 1 event | `SessionsAreProven`, `CountersAreSpent`, `ClosedOnItsEvidence`, `JournalledFirst`, `NothingAfterClosing` |
| `RevokedKeySession` | the same | `RevokedKeyEndsItsSessions` fails |
| `Hierarchy` | 2 processes, 3 pairs and an imported one, 4 certificates, 2 ARLs, 1 event | `OneHierarchy`, `SignaturesAreOwn`, `RevocationIsListed` |

The type invariants hold on these instances too. Those of Enrollment,
CrlPublication, OcspResponder, JournalSealing, SignedActions, Tsa, Hsm and the
console are theorems (section 5);
none is a property of a run, where it would say nothing that the others do not.

**What each run shows.** The first three: the workflow keeps its promises in any
interleaving of two tasks, the promises that need one submission at a time hold so
whatever an operator does meanwhile, and a
certificate approved is delivered in the end. `CrlConcurrent`: publications may
cross, and the CRL ends up complete. `OcspAnswers`: no answer is false, whatever
CRL is replayed. `JournalWriters`: the file is one chain, what was acknowledged is
kept, a seal stamps its own past, and damage is noticed. `SignedActions`: two
handlers with one challenge, or with two challenges of one quorum, execute an
action once, on the body that was signed and by enough distinct signers; the
policy of the action holds when its target changed meanwhile; a restored database
gives a revoked key back to nobody. `Tsa`: a clock that is wrong since a whole poll
stamps nothing, no stamp tells the minute of the leap second or goes past it on
measures from before, every token verifies with the certificate it names although
the certificate is reloaded under the handler, and a key is never destroyed
while the current certificate needs it. `Console`: two answers to one challenge
open one session, one counter is accepted once, two closings of one file leave
one, with its own evidence. `Hierarchy`: whatever ceremonies failed half-way, what is
registered is one hierarchy, whose two certificates one key signed, and that key is the
root's own unless the token lost it between the reading of the public key and the
signature.

**Why the bounds are enough.** Conflicts are between two parties: two handlers
on one request, two operators, a renewal and a revocation. Two tasks in any
role give all of these, and a third task adds no new kind of conflict over the
same request. Two serials let one be lost or superseded,
and make one more issuance after the end of the authority than
`EnrollmentSequential` has handlers. One stop is enough to leave each
operation at each of its awaits; what a second stop leaves is left by the
first. A certificate enters and leaves CRLs independently of the others, so
`CrlConcurrent` needs one; its timer does not repeat a CRL that lists
everything, which keeps numbers finite. In `OcspResponder` two CRL numbers are
needed to be older and newer. In `JournalWriters` three records are the
shortest chain with a record between a head and its seal; two faults let a
crash follow a torn or unsynchronized line; the disk is then full, so that
writes that fail for want of room are in the run too. `MaxFailures` is 2 rather
than 3: a counter that is saturated after several passes is what matters, and
the theorems hold for any value. In `SignedActions` an action of two signatures
needs two challenges and the third is the one of a rival signer or of a second
action; two actions are enough for one to change what the other's policy read
(a promotion between the freezing and the execution of another change). Local
commands, faults, restarts and restorations share `MaxFaults = 1`: one of them, at
any point of everything else. `FirstSigner` says who asks for which body, to
spare permutations of roles that the code does not tell apart. In `Tsa` three slots
are the leap day, its last minute and the next day; two servers with a quorum of
two are the least in which an answer may be missing and a liar lie. Commands begun,
faults and clock errors share `MaxJobs = 3`: a renewal, the retirement of the old
key and one thing going wrong. In `Console` the second operator has a session at
the start, which took one of the three challenges: the others are for two closings
that cross, or for a login and a closing. An action may be open at the start, so that
the one event is left for what happens beside its relay; the purge, which only
forgets rows that are over, is free. In `Hierarchy` two processes are two ceremonies, or a revocation and a
publication, or a command beside the service; three pairs let a token be emptied
and filled again.

**Bounds in the modules:** `MaxFaults`, `MaxRevokeCommands`, `MaxExpired`;
`AuthorityEnds` (whether the root may revoke the authority: it may in
`EnrollmentSequential` and `EnrollmentLiveness`); the
guards of `Tick` and `StartIssuance` in CrlPublication marked "Bound";
in SignedActions `MaxActions`, `MaxChallenges`, `MaxFaults` and the sets `Body`,
`Commanded`, `FirstSigner` (bodies that the instance leaves out: revocations of
certificates, rejections, requests that need two people); in Tsa `MaxSlot`,
`MaxGeneration` (64 in the code), `MaxCertificates`, `MaxJobs`, and one enrolment at
a time, as the entry point of the container runs it; in the console
`MaxChallenges`, `MaxSessions`, `MaxIncidents`, `MaxEntries`, the sets `Answers` and
`RoleChanges`, and `MaxEvents` for what comes from outside (changes of keys and
roles, deadlines, logouts, relays); in Hierarchy `MaxCertificates`,
`MaxArls`, and `MaxEvents` (sessions and tokens lost, imports, reads that fail,
processes that die);
`MaxRecords` (the room on the disk, a real limit) and `MaxFailures` (the
counters of failures saturate there rather than at 2^32 - 1) in JournalSealing.
`CHECK_DEADLOCK FALSE` appears for CrlPublication, where these guards let
everything come to rest, and for JournalSealing, which really may stop: a
journal that does not verify is not opened again, by any process. It appears for
the console, Tsa and Hierarchy too, where challenges, time or certificates are used
up in the end.

**Premises in the properties.** Some properties hold but in a case the code lets
through, and name it: `raced` in `AdministratorRemains` (the registry changed between
the signatures of another action and its effect) and in `CountersAreSpent` (another
verification of the key was under way); `overlapped`, `swapped`, `crossed` and `lost`
in `OneHierarchy` and `RevocationIsListed` (two ceremonies at the same time, a root whose
key was lost before it signed it, a publication across the revocation, a token that lost
its keys); `newlineLost` in those of the
journal; `FewLiars` in those of the time source (fewer liars than the quorum asks for).
Section 4 says what happens in each of these cases.

**Fairness.** Enrollment: the runtime polls every task that can run (weak
fairness on `Step`); a client that waits keeps submitting (`oe-enroll` polls)
and `ca-server` opens a handler per connection - the finite set `Handler` is a
bound of the model, hence strong fairness on each submission. Nothing is
assumed of operators or of failures. CrlPublication: the timer ticks and tasks
are polled (weak fairness on `Step`, which includes `Tick` for the timer).
JournalSealing: `spawn_periodic` begins a pass after each other, a call of the
network ends with or without an answer, a write ends; nothing is assumed of who gets the lock, nor that a process that stopped starts again.
Tsa: the thread of the monitor goes on (weak fairness on `MonitorStep`: a loop with
timeouts on every exchange); time, commands and failures are free. SignedActions, the
console and Hierarchy state no fairness and no liveness: an action that nobody signs
stays.

## 4. Where the code and its documents part

Two runs are expected to fail:

* **A bootstrap secret opens one request** (`BootstrapViolated`; oe-raflow,
  lib.rs:559). The check reads, the creation comes three awaits later. It holds
  of one submission at a time (`EnrollmentSequential`, `OneSubmissionBootstrapsOnce`).
* **The sessions of a revoked key end** (`RevokedKeySession`; docs/WEBUI.md:2258-2259).
  `Sessions::authenticate` reads the session and its operator, never the key the
  session was opened with (session.rs:115): the session goes on until it expires.

Met while modelling, without a run of their own. Several were runs first; the models
still have these behaviours.

*Authority.*

* One active certificate per subject (docs/CA.md:422-424, "à tout instant"):
  `Flow::issue` reads the active certificates before it issues and revokes those;
  two overlapping renewals do not see each other and both certificates stay active.
  `OneActiveAtRest` holds of one submission at a time, none stopping half-way.
* A revoked certificate leaves the CRL for a while (docs/CA.md:456): `publish_crl`
  reads the revoked certificates, then draws the number (lib.rs:499), and a slower
  publication can have the greater number and the older contents. The next round of
  the timer repairs it: `RevocationEventuallyListed` holds. The same happens with
  ARLs (root.rs:103), which no timer repairs: `RevocationIsListed` holds up to
  `crossed`.
* A stale snapshot means tryLater (oe-ocsp-core, lib.rs:329-330): when the snapshot
  goes stale during the on-demand refresh, `handle_inner` answers with what the
  first pass found. The statuses of one response may come from two CRLs.
* The line of a revocation is written before the registry, so a task that stops in
  between leaves a revocation "à moitié consignée" (oe-ca-core, lib.rs:473-475).
* A write cut exactly before its newline leaves a line that `scan_chain` accepts
  (oe-audit, lib.rs:294), behind which the next append writes on the same line; no
  process can open that journal again.
* The count of remaining administrators (registry_actions.rs:229) is read when a key
  or a role is taken away: two such actions that cross can leave none (`raced`).

*Operators.*

* An administrator takes two signatures (docs/CA.md), but the journal's last word on a
  role may come from an invitation that one operator signed and whose row was never
  committed. When `recover-admin` then makes that name an administrator, the registry
  and the journal differ, and `reconcile`, for which the journal is right
  (docs/CA.md:269-299), gives back the role of the invitation. It is the last case of
  `AdminChangesTakeTwo`. The instance of the run, with one fault, does not reach it; one
  with that invitation, that command and two faults does, in ten steps.

*Hierarchy.*

* `open_key` takes any error of the reading of the key for its absence and generates
  a pair; the label then names two pairs, and nothing signs with it any more.
* `RootAuthority` does not compare the key of the root's token with the root's
  certificate. With a token that lost its key, `authority publish-arl` generates
  another and publishes an ARL that does not verify (`lost`).
* Two ceremonies that overlap may each leave one certificate (`overlapped`);
  `serve` then refuses to start, the keys not being those of the certificates, or
  serves a mixed pair.
* `sign_root` reads the public key in one call of the token (ceremony.rs:177) and has
  the certificate signed in another (ceremony.rs:206); docs/CA.md:41 says that the root
  is self-signed. The token remembers no key until its first signature: when it is lost
  between the two calls and another command generates a key in it, the ceremony
  reconnects, signs with that key, verifies with that key, and registers a root that
  holds the first one. A later `ceremony` refuses it (`matches_signer`); nothing before
  does. The mark `swapped` names the case: `RootIsSelfSigned` without it fails on the
  instance of `Hierarchy`, in 17 steps. The two certificates are still signed by one key.

*Time stamps.*

* The age of the last measure is compared to `OPENEIDAS_TIME_MAX_AGE` when a poll
  evaluates, never when a stamp is given (docs/ARCHITECTURE.md:172 lists it among
  the conditions of a stamp): between two polls, or when a poll takes long, a stamp
  may rest on an older measure.
* The line that an announced leap second was applied is written at the first poll
  of the next day; if the journal refuses it, it is not written again. An
  announcement also counts as applied when the server that made it no longer answers.
* `retire-key` decides on the certificate in the file: `serve` may still sign with
  the key it destroys, until it reloads.
* The certificate and its chain are written one after the other and the reload
  compares the certificate only: it can keep an older or empty chain, and an
  enrolment that died between the two leaves a certificate that the next start
  finds usable. A certificate refused at a reload for a failure of the token that
  would have passed is not tried again.
* At 64 generations the error advises to destroy old keys, which does not help: a
  generation is not used twice.
* An enrolment that died after the issuer answered is given the same certificate
  again, which may be as old as the first attempt.

*Console.*

* The counter of a key is compared, then written (login.rs): when two answers of one
  key are verified at a time, it can go back (`raced`).
* "Chaque relais est inscrit au journal de la console" (http.rs:663): not one whose
  answer from `ca-server` is lost, whatever `ca-server` did of it.

## 5. What is proved

Theorems hold for any sets of tasks, requesters, requests, serials, journals,
threads, servers, slots, processes and keys and any bounds, from the assumptions
named in CaStore, Enrollment, CrlPublication, CrlFeed, OcspResponder, AuditLog,
JournalSealing, OperatorRegistry, SignedActions, TimeSource, TsaKeys, Tsa,
ConsoleSessions, Incidents, Hsm and Hierarchy (values are distinct from `None`, the
constants have their types, `ClientCn` is one to one, handlers are finitely many, the
first registry has founders). Every safety invariant and every action property of every
passing run is such a theorem.

**Enrollment.** Every property of `EnrollmentConcurrent` and of
`EnrollmentSequential` is a theorem of `Enrollment!Spec`, two of the latter under a
hypothesis. In `EnrollmentProofs`:

* `TypeCorrect`: `[]TypeOK`;
* `NoCertificateWithoutApproval`: `[]IssuedOnlyAfterApproval`;
* `OneCertificateDelivered`: `[]DeliveredIsRecorded`.

None of the last two is inductive: whether a certificate may be saved depends
on what its task read awaits ago. The invariant `IInv` adds

* `RequestsOK`: a request that is APPROVED or ISSUED has a named operator, one
  that is ISSUED has a serial, one that is ABSENT has no operator;
* `TasksOK`, one conjunct per kind of local state: a task that issues works for
  a request that is APPROVED or ISSUED (`IssuesApproved` - these two states are
  never left for another, which is why a read stays true across awaits); one
  past the save holds a serial saved for that request (`HoldsCertificate`); one
  past the update of the request holds the serial the request records
  (`HoldsRecorded`), which is what makes the answer right although a rival
  handler may have saved a certificate too.

`Invariance` proves `IInv` inductive with one step per action. TLC checked
`IInv` on the instances of the runs before it was proved.

The same module proves `DecisionsAreFinal` (`NothingIsUndone`) and
`EnrollmentIsLifecycle` (`ImplementsLifecycle`). `WhoWrites` lists the few
actions that write a request, a certificate or an answer, and what each writes;
every other step maps to a stutter of RequestLifecycle. Each writing step maps
to one of its actions, with `IInv` supplying the guard the action does not
test itself (an issuing task's request was approved, an answered serial is the
one recorded).

It also proves `NothingUntold` (`JournalPrecedesRegistry`) and
`ToldDecisionsTookPlace` (`JournalledDecisionsTookPlace`). Its invariant `JInv`
adds, per task (`Announced`), that a task about to write to the registry has
written its line, and one about to write a decision's line holds the decision
the registry records. Finality of decisions is what keeps the second true until
the line is written.

Three properties that `EnrollmentSequential` checks of one handler are proved of any
number of handlers and desks, wherever they stop. All use `Stable`: a request keeps
its requester and its profile, a certificate its request; hence its subject and owner.

* `SupersedingKeepsToItsOwner` (`SupersededByItsOwner`), by `SInv`: from the moment it
  has saved, a handler that renews holds a saved certificate of its request, which is
  not among those it read before, all of that request's subject; the one it is revoking
  belongs to its requester (`KnowsPrevious`).
* `PeersAreTheirRequesters` (`PeerSpeaksForItself`), by `PInv`: every request asks for
  the name its requester was given, since the checks of `submit_as` are on what the task
  keeps until it creates the request. A name being one requester's, whoever is admitted
  under it is that one.
* `LateIssuesAreFew` (`FewLateIssues`), by `LInv`: what was saved after the end of the
  authority, plus the handlers still between the check and the save, are not more than
  the handlers.

The last two properties hold of one submission at a time, and section 4 says what happens
otherwise. `OneHandler` says just that: operators, in any number, still decide and revoke
between any two awaits of the submission, certificates expire, connections open.

* `OneSubmissionBootstrapsOnce` (`BootstrapOnce`, under `OneHandler`): past the check no
  other request has used the secret, since only submissions open requests and a rejected
  request stays rejected (`BInv`).
* `OneSubmissionLeavesOneActive` (`OneActiveAtRest`, under `OneHandler` and `NoFaults`, no
  task stopping half-way): a handler that has not saved knows every active certificate
  of its subject (`KnowsAll`), its request is still to be issued (`StillApproved`, so that
  it goes on to supersede), and two active certificates of one subject and requester are
  the one it saved and one it has still to revoke (`Covers`, `AInv`). A task that stops
  between the two leaves both active: `NoFaults` cannot be dropped.

**Journal.** Every property of `JournalWriters` but `TornLineIsNoticed` is a
theorem of `JournalSealing!Spec`, in `JournalProofs`: `JournalTypeCorrect`,
`ChainIsUnbroken`, `NothingAcknowledgedIsLost`, `SealsSealThePast`,
`AcknowledgementsAreOnAWholeJournal`, `SuccessIsARecord`. `OneChain` is not
inductive: it says nothing of a record that is drawn up but not written.
`IInv` adds `PositionsOK` (what an open journal has read is a beginning of the
file that ends with a whole record), `ThreadsOK` (the thread in the middle of
an append holds the lock, its journal is at the end of the file and its draft
continues that end; after the write its line is the last), and `FileOK` (the
chain itself, the synchronized place of each acknowledged record, a newline
behind every record while none was lost). A power failure keeps each piece but
the last, which it may cut (`Kept`).

**Time stamps.** Every invariant of the run `Tsa` is a theorem of `Tsa!Spec`, in
`TsaProofs`. Each of the three modules sees few kinds of steps of the whole, so
`NextIsTimeStep`, `NextIsKeyStep` and `NextIsServiceStep` first say which, and each
part has its own induction.

* `ClockErrorsAreSeen`: `ErrorInv` follows an error that lasts from the answers of a
  poll, through its draft, to its status. Its core is `QuorumHasAnHonest`: with
  fewer liars than the quorum, a set of answers that satisfies `Traceable` has an
  honest one.
* `KeysAreKept`: `KeyInv` says what `EachCertificateItsKey` leaves out of a renewal
  under way: the certificate in the file has the newest key of all that were in it,
  and that key is in the token (`FileIsNewest`); while the file is empty, some key of
  the token is newer than those (`SomeKeyIsAbove`); so is the one being enrolled
  (`EnrolsAbove`), and the one being destroyed is older than one of them
  (`RetiresBelow`).
* `TokensVerify`: `ServiceInv` keeps, for each handler, the certificate it took and
  the limits of what it read since (`HandlersOK`).
* `LeapSecondsAreHeld`: `LeapInv` relates a status, its draft and the answers
  to the day they were measured on, and a handler's `leap` and `lastSync` to the
  status it read.
* `TsaTypeCorrect`: `[]TypeOK`.

**CRLs.** `PublicationProofs` sees every step of `CrlPublication` as one of six
(`StepKinds`): a publication draws its number, reads what was issued, journals,
publishes, is answered, or something else moves. Its invariant `IInv` says:

* numbers come from the sequence: none is above it, and the one that a publication
  holds is of no CRL yet and of no other publication (`NumbersOK`,
  `NumbersAreUnique`: the theorem `NumbersAreNeverShared`). Without this the promise
  of one CRL per number is not inductive: `save_crl` compares nothing;
* what a publication read is still so, revocations being final, and what it lists as
  revoked it lists as issued, since it reads the revoked before the issued
  (`ContentsOK`);
* `Covered(s, n)`: `s` is registered, and every CRL whose number is `n` or more,
  published or still being built, lists it. An issuance is covered from the moment
  its own publication draws its number, since whoever draws a greater one reads
  later (`IssuanceOK`); its CRL stays covering (`AnswersCovered`).

The last gives `AnsweredAreListed`; the first two give the guard of `CrlFeed!Publish`,
and `PublicationIsFeed`: under `CrlNumber = Nat`, `CrlPublication!Spec` implements
`CrlFeed!FeedSpec` (TLC takes an interval of numbers). It also proves
`PublicationTypeCorrect`.

**OCSP.** `OcspProofs` proves `OcspTypeCorrect`, `AnswersAreTrue`
(`[]AnswersAreTruthful`) and `CacheNeverGoesBack` (`SnapshotNeverGoesBack`) of
`OcspResponder!Spec`. What is installed was published (`DownloadsOK`); the feed tells
what is so, and stays so (`FeedIsTrue`); the cache and what a request has been told
so far come from the feed (`SnapshotIsPublished`, `RequestsAreTold`). The responder
relies on `CrlFeed` only, and `PublicationIsFeed` says that the publications provide
it.

**Tokens.** `HierarchyProofs` shows that each step of the composition is one of a
few steps of tokens (`NextIsHsmStep`) and proves `HierarchyTypeCorrect`
(`[]HsmTypeOK`) and `OneKeySigns` (`[]SignaturesAreOwn`): a process that opened a
token signs with one pair, born in the module, through losses and reconnections.
Its invariant `HandlesOK` adds that what it signed with is the pair whose public key
it remembers, and that while the session in which it verified that pair lasts, the pair
is still in the token (so that a single pair under the label is that one).

`HierarchyIsOne` (`[]OneHierarchy`) rests on `HierarchyInv`. Its part `JobOK` says what
a process holds of the root is `Genuine`: signed by its own key unless `swapped`, and that
key is in the token until the token loses keys. Between the two calls of `sign_root` it
says that the key that was read is still there unless `swapped`, so that a token that
holds a single pair signs with that one; after them, that the token remembers the key
that signed the root, which then signs the issuing authority or nothing. And the line
of the ceremony precedes its rows.
`RegistryOK` says that the row of the root precedes that of the issuing authority, and
that a creating ceremony that nothing overlapped finds no issuing authority until it
registers its own. `RevocationsAreListed` (`[]RevocationIsListed`) adds
`RevocationInv`: once the authority is revoked and no publication that read the
registry before is under way, every publication lists it, and, numbers being drawn from
a sequence, so does every ARL whose number is not below one of theirs. Neither
theorem bounds the processes, the pairs or the ARLs; they name the cases
`overlapped`, `swapped`, `crossed` and `lost` that section 4 reports.

**Signed actions.** `SignedActionsProofs` proves `SignedActionsTypeCorrect` and every
property of the run `SignedActions`. All of them rest on `TransactionsOK`. A change of
the registry is decided in its transaction, journalled, and made at its commit;
`Exclusion` says that two open transactions do not hold one lock, `StillAllowed` that
what a change was decided on is still so at the commit, whatever committed meanwhile,
and `Weighed` that a change of administrator has its two signatures. On it:

* `ActionsRunOnce`, `EffectsAreSigned`: `ExecInv`. The signature that reaches the
  threshold is the one that marks the action executed, and one task works on it from
  there until it is applied or given up (`ExecutionOK`); each operator has one
  signature, by a confirmed key of its own (`EvidenceOK`).
* `RevokedKeysDecideNothing`: `RevokedOK`. The guard opens only on a registry that
  shows as revoked what the journal revokes; no step makes a revoked key active, but a
  restoration, which stops the service and closes the guard.
* `AdministratorsTakeTwo`: `RolesTold` relates the role of an operator, the last one
  the journal gave it, and the signatures that the journal tells of.
* `AnAdministratorIsLeft`: `Unraced`. Until the registry changes under an action, who
  signed last is entitled and what is revoked leaves another administrator.
* `AuditIsClean`: `Chained`. Every confirmed key is in the least set the audit accepts,
  the signatures of its confirmation being by keys that were in it before.

**Console.** `ConsoleProofs` proves `ConsoleTypeCorrect` and every property of the run
`Console`. It sees a step as one of a few kinds (`StepKinds`): rows are marked by
deadlines, logouts and the purge; a challenge is offered or answered; a request verifies,
or works on files. What a request holds between two steps stays true (`Persist`: a
consumed challenge is never fresh again, an answer is never replaced, a line never
leaves), and `JobsOK` says what that is at each label.

* `SessionsStandForAnswers`: `SessionInv`, with `Separate`: two requests never hold one
  challenge, nor a request one on which a session stands.
* `CountersSpentOnce`: `CounterInv`. The answers of a key that count (`Counted`: behind
  a session, behind a closing, or verified by a request that has not written yet) are
  not above the stored counter and have distinct ones, 0 apart, while no verifications
  of that key crossed.
* `ClosingsCarryEvidence`, `LinesComeFirst`, `ClosedIsFinal`: `FileInv`. The row a
  request is about to insert is its own (`Reserved`) and its line is written; the
  transaction of a closing tests the state again and writes the file and its evidence
  together, or nothing.

**Only model-checked:** liveness under fairness (`ApprovedEventuallyDelivered`,
`RevocationEventuallyListed`, `TornLineIsNoticed`, `LeapBlockEnds`), which is out of the
prover's reach, and the two violations of section 4, which are counterexamples.

## 6. What is not modelled

* **Data without state.** Signatures, DER, dates and extensions of certificates (one
  that breaks its profile is `Refuse`), names and validities of the hierarchy,
  digests and schemes of `oe-hsm` and its software tokens; the contents of comments and
  of journal lines beyond who, what and which; the encoding of tokens and what is
  wrong with a time-stamping request; the WebAuthn assertion itself (verified or
  not); texts, titles and displays of the console. `oe-conformance`, `oe-certs`,
  `oe-rfc3161-asn1` and the profiles of `oe-ca-core` are such functions.
* **Of signed actions**: the expiry of actions, challenges and invitations (what
  expired is no longer used, a case of what is never used), the limit on pending
  ceremonies, the counters of signatures there (ConsoleSessions has the same rule),
  what a route expects of an action (`Expect`), the line `action_signed`,
  `disabled_at` (nothing writes it).
* **Of the time source**: the NTP and NTS exchanges, `Policy::Disabled`.
* **Of the authority**: the cache of the last CRL (http.rs:189), the review and
  provenance commands, the third-party copies of the journal, PostgreSQL's failures
  other than a call that fails.
* **Of the console**: reading routes, the relay of registrations, the search in the
  audit, the TLS of the link, its assets.
* Configuration, HTTP plumbing, object storage: input and output.

`PROJECT.json` has the status of each component and the reason.

## 7. Plan

1. *Done*: the modules of section 2 and the theorems of section 5.
2. `oe-conformance` against the profiles of `oe-ca-core`, as pure operators: what the
   issuer signs by its profile passes the check.
3. The cache of the last CRL in `ca-server`, with the publications it may outlive.
