--------------------------- MODULE JournalSealing ---------------------------
(***************************************************************************)
(* The periodic seal of the audit journal (crates/oe-seal, Sealer) among   *)
(* the other writers of the journal.  A pass reads the head of the chain,  *)
(* has it stamped by the house's authority and by third parties, then      *)
(* copies the journal away; each of these stages awaits the network and    *)
(* then appends a record, whatever became of the stages before, and        *)
(* counts its failures in a row for /healthz.                              *)
(*                                                                         *)
(* The Sealer is a thread of one of the processes.  Tokens, dates and the  *)
(* copy's bytes are left out; one third party stands for all.              *)
(***************************************************************************)
EXTENDS AuditLog

CONSTANTS
    Sealer,       \* the thread that seals
    MaxFailures   \* MAX_FAILURES; also the bound of the counters

ASSUME SealerAssumption ==
    Sealer \in Thread /\ MaxFailures \in Nat \ {0}

VARIABLES
    stage,        \* where the pass is
    sealedHead,   \* the head it has stamped, None when it could not be read
    failures      \* per stage, failures in a row

sealVars == <<stage, sealedHead, failures>>
vars == <<logVars, sealVars>>

Stage == {"seal", "cross_seal", "copy"}

Init ==
    /\ LogInit
    /\ stage = "asleep"
    /\ sealedHead = None
    /\ failures = [g \in Stage |-> 0]

(* Mutant: failures in a row are not added up.                             *)
FailedOnce(gs) ==
    failures' = [g \in Stage |-> IF g \in gs THEN 1 ELSE failures[g]]

Failed(gs) ==
    failures' = [g \in Stage |-> IF g \in gs /\ failures[g] < MaxFailures
                                 THEN failures[g] + 1 ELSE failures[g]]
Succeeded(g) == failures' = [failures EXCEPT ![g] = 0]

(* once, first step: Log::head, which catches up under the lock.  Without  *)
(* a head the seal and the cross seal fail at once.                        *)
ReadHead ==
    LET l == LogOf[Sealer]
    IN  /\ stage = "asleep"
        /\ state[l].open
        /\ holder = None
        /\ \/ /\ ScanOk(state[l])
              /\ state' = [state EXCEPT ![l] = CaughtUp(@)]
              /\ sealedHead' = CaughtUp(state[l]).head
              /\ stage' = "seal"
              /\ UNCHANGED failures
           \/ /\ ~ScanOk(state[l])
              /\ sealedHead' = None
              /\ stage' = "copy"
              /\ Failed({"seal", "cross_seal"})
              /\ UNCHANGED state
        /\ UNCHANGED <<file, synced, holder, pc, draft, acked, written,
                       newlineLost, faults>>

NextStage ==
    stage' = CASE stage = "seal"       -> "cross_seal"
               [] stage = "cross_seal" -> "copy"
               [] stage = "copy"       -> "asleep"

(* The network does not answer: the stage fails, the next one begins.      *)
NoAnswer ==
    /\ stage \in Stage
    /\ pc[Sealer] = "idle"
    /\ Failed({stage})
    /\ NextStage
    /\ UNCHANGED <<logVars, sealedHead>>

(* It does: a record is appended.                                          *)
Answered ==
    /\ stage \in Stage
    /\ pc[Sealer] = "idle"
    /\ Begin(Sealer, IF stage = "copy" THEN None ELSE sealedHead)
    /\ UNCHANGED sealVars

StageEnds ==
    /\ stage \in Stage
    /\ IF pc[Sealer] = "ok" THEN Succeeded(stage) ELSE Failed({stage})
    /\ Return(Sealer)
    /\ NextStage
    /\ UNCHANGED sealedHead

SealerStep ==
    \/ ReadHead
    \/ Answered
    \/ Appending(Sealer) /\ UNCHANGED sealVars
    \/ StageEnds

(* /healthz: what Health::report calls degraded.                           *)
Degraded == \E g \in Stage : failures[g] >= MaxFailures

-----------------------------------------------------------------------------
Other(t) ==
    /\ \/ pc[t] = "idle" /\ Begin(t, None)
       \/ Appending(t)
       \/ Return(t)
    /\ UNCHANGED sealVars

(* A process that starts again counts its failures from zero.              *)
Stops ==
    /\ Crash
    /\ IF state'[LogOf[Sealer]].open THEN UNCHANGED sealVars
       ELSE /\ stage' = "asleep"
            /\ sealedHead' = None
            /\ failures' = [g \in Stage |-> 0]

Next ==
    \/ \E l \in Log : Open(l) /\ UNCHANGED sealVars
    \/ \E t \in Thread \ {Sealer} : Other(t)
    \/ SealerStep
    \/ NoAnswer
    \/ Stops

Spec == Init /\ [][Next]_vars

(* spawn_periodic: passes follow each other for ever, and a call of the    *)
(* network ends, with an answer or without; a write ends.  Nothing is      *)
(* assumed of who gets the lock of the file among those that wait.         *)
Fairness ==
    /\ WF_vars(ReadHead)
    /\ WF_vars(Answered \/ NoAnswer)
    /\ WF_vars(StageEnds)
    /\ \A t \in Thread : WF_vars(Appending(t) /\ UNCHANGED sealVars)
FairSpec == Spec /\ Fairness

-----------------------------------------------------------------------------
(* Properties. *)

TypeOK ==
    /\ LogTypeOK
    /\ pc \in [Thread -> {"idle", "write", "sync", "ok", "err"}]
    /\ stage \in Stage \cup {"asleep"}
    /\ sealedHead \in Nat \cup {None}
    /\ failures \in [Stage -> 0..MaxFailures]

Torn == \E i \in 1..Len(file) : file[i].kind = "torn"

(* A seal is stamped awaits before its record is written, while the other  *)
(* writers go on: its head is nevertheless a record that precedes it in    *)
(* the same file, so that the token does cover a part of this journal.     *)
SealsCoverThePast ==
    \A i \in 1..Len(file) :
        file[i].seals \notin {None, 0} => \E j \in 1..(i - 1) : file[j].id = file[i].seals

(* A torn line stops every append of every process: the service says so on *)
(* /healthz before long, unless it stops or the machine's restart repairs. *)
TornLineIsNoticed ==
    Torn ~> (Degraded \/ ~state[LogOf[Sealer]].open \/ ~Torn)

(* Health is not degraded by the failures of other threads or passes: a    *)
(* stage that succeeds clears its own count, and only a record on the disk *)
(* is a success (Sealer::once).                                            *)
OnlyRecordsClearFailures ==
    [][\A g \in Stage : failures'[g] < failures[g] =>
          \/ draft[Sealer].id \in acked
          \/ ~state'[LogOf[Sealer]].open]_vars
=============================================================================
