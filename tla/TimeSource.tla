----------------------------- MODULE TimeSource -----------------------------
(***************************************************************************)
(* The monitor of the clock of the time-stamping authority                 *)
(* (crates/oe-timesource).  A thread measures the local clock against      *)
(* servers, one after the other, decides whether it can be traced to UTC,  *)
(* journals the measure and publishes a status, which the threads that     *)
(* stamp read through now().  Without trace the authority does not stamp,  *)
(* nor in the last minute of a day for which a leap second is announced,   *)
(* nor afterwards until a measure of the next day.                         *)
(*                                                                         *)
(* Time is a number of slots, the instants the rules tell apart; several   *)
(* steps happen within a slot.  The clock's error is a whole number of     *)
(* units.  A server answers the clock's error and the announcement as they *)
(* are, a liar answers what it likes, and either may fail to answer.  The  *)
(* exchange itself (NTP, NTS), round-trip times and strata are left out.   *)
(***************************************************************************)
EXTENDS Integers, Sequences, FiniteSets

CONSTANTS
    Servers,        \* how many Options.servers there are, named by position
    Liar,           \* those that may answer anything
    MinSources, MaxOffset, MaxAge, PollInterval,  \* Options, in slots or units
    Enforce,        \* whether the policy is Policy::Enforce (or Monitor)
    Skew,           \* errors the local clock may have
    Lie,            \* errors a liar may answer
    MaxSlot,        \* bound on time
    DayOf,          \* the UTC day of each slot
    LastMinute,     \* the slots in the last minute of their day
    LeapDay,        \* the day at whose end a leap second is due, the first
    None

Slot == 0 .. MaxSlot

ASSUME TimeAssumption ==
    /\ MinSources \in Nat \ {0} /\ MaxOffset \in Nat
    /\ MaxAge \in Nat /\ PollInterval \in Nat \ {0} /\ MaxSlot \in Nat
    /\ Enforce \in BOOLEAN
    /\ Servers \in Nat /\ MinSources <= Servers
    /\ Liar \subseteq 1 .. Servers
    /\ Skew \subseteq Int /\ Lie \subseteq Int
    /\ DayOf \in [Slot -> Nat]
    /\ \A s, t \in Slot : s <= t => DayOf[s] <= DayOf[t]
    /\ DayOf[0] = LeapDay
    /\ LastMinute \subseteq Slot
    /\ None \notin Slot

VARIABLES
    slot,       \* the present
    skew,       \* the error of the local clock
    samples,    \* answers of the poll under way
    monitor,    \* what the thread does
    lastPoll,   \* when its last poll ended
    draft,      \* the status it has evaluated and not yet published
    status,     \* Monitor.status
    noticed     \* history: whether a poll saw an error that still lasts

timeVars == <<slot, skew, samples, monitor, lastPoll, draft, status, noticed>>

Position == 1 .. Servers
Abs(n) == IF n < 0 THEN -n ELSE n
InBounds(e) == Abs(e) <= MaxOffset

NoStatus == [traceable |-> FALSE, leap |-> FALSE, lastSync |-> None]
Failed(t) == [ok |-> FALSE, offset |-> 0, leap |-> FALSE, at |-> t]

TimeInit ==
    /\ slot = 0
    /\ skew \in {e \in Skew : InBounds(e)}
    /\ samples = <<>>
    /\ monitor = "off"
    /\ lastPoll = 0
    /\ draft = NoStatus
    /\ status = NoStatus
    /\ noticed = "no"

----------------------------------------------------------------------------
(* The rule of decision.                                                   *)

(* Mutant: a source that failed counts, with the zeros of its sample.      *)
ReachedOrNot(ss) == DOMAIN ss

Reached(ss) == {i \in DOMAIN ss : ss[i].ok}

(* newest: the latest of the measures that succeeded, None without one.    *)
IsNewest(t, ss) ==
    \/ Reached(ss) = {} /\ t = None
    \/ /\ \E i \in Reached(ss) : ss[i].at = t
       /\ \A i \in Reached(ss) : ss[i].at <= t

(* Mutant: the announcement must come from every source.                   *)
AnnouncedByAll(ss) ==
    Reached(ss) # {} /\ \A i \in Reached(ss) : ss[i].leap

Announced(ss) == \E i \in Reached(ss) : ss[i].leap

Traceable(ss, newest, now) ==
    /\ Cardinality(Reached(ss)) >= MinSources
    /\ Reached(ss) # {}
    /\ now - newest <= MaxAge
    /\ \A i \in Reached(ss) : InBounds(ss[i].offset)
    /\ \A i, j \in Reached(ss) : ss[i].offset - ss[j].offset <= MaxOffset

(* evaluate                                                                *)
Evaluated(ss, newest, now) ==
    [traceable |-> Traceable(ss, newest, now),
     leap      |-> Announced(ss),
     lastSync  |-> newest]

(* leap_second_blocks                                                      *)
LeapBlocks(st, now) ==
    /\ st.leap
    /\ \/ now \in LastMinute
       \/ st.lastSync = None
       \/ DayOf[st.lastSync] < DayOf[now]

----------------------------------------------------------------------------
(* The thread.                                                             *)

Query(i) ==
    IF i \in Liar
    THEN [ok : {TRUE}, offset : Lie, leap : BOOLEAN, at : {slot}]
    ELSE {[ok |-> TRUE, offset |-> skew, leap |-> DayOf[slot] = LeapDay,
           at |-> slot]}

(* leap_poll_due                                                           *)
(* Mutant: the end of the day does not hasten the next poll.               *)
NeverDue == FALSE

LeapPollDue ==
    /\ status.leap
    /\ status.lastSync # None
    /\ DayOf[status.lastSync] < DayOf[slot]

(* The loop of start_background, then the first line of poll_once.         *)
BeginPoll ==
    /\ monitor = "idle"
    /\ slot - lastPoll >= PollInterval \/ LeapPollDue
    /\ monitor' = "querying"
    /\ samples' = <<>>
    /\ noticed' = IF InBounds(skew) THEN "no"
                  ELSE IF noticed = "no" THEN "polling" ELSE noticed
    /\ UNCHANGED <<slot, skew, lastPoll, draft, status>>

(* query_source, for the next server                                       *)
QueryNext ==
    LET i == Len(samples) + 1
    IN  /\ monitor = "querying"
        /\ i \in Position
        /\ \E s \in Query(i) \cup {Failed(slot)} : samples' = Append(samples, s)
        /\ UNCHANGED <<slot, skew, monitor, lastPoll, draft, status, noticed>>

Evaluate ==
    /\ monitor = "querying"
    /\ Len(samples) = Servers
    /\ \E newest \in Slot \cup {None} :
          /\ IsNewest(newest, samples)
          /\ draft' = Evaluated(samples, newest, slot)
    /\ monitor' = "recording"
    /\ samples' = <<>>
    /\ UNCHANGED <<slot, skew, lastPoll, status, noticed>>

(* record, record_leap and the write of the status; recorded is whether    *)
(* the journal took the line of the measure, and that of the leap second.  *)
Publish(recorded) ==
    /\ monitor = "recording"
    /\ status' = [draft EXCEPT !.traceable = draft.traceable /\ recorded]
    /\ draft' = NoStatus
    /\ monitor' = "idle"
    /\ lastPoll' = slot
    /\ noticed' = IF noticed = "polling" THEN "yes" ELSE noticed
    /\ UNCHANGED <<slot, skew, samples>>

Poll(recorded) == BeginPoll \/ QueryNext \/ Evaluate \/ Publish(recorded)

(* serve builds the monitor and waits for a first poll.                    *)
StartMonitor ==
    /\ monitor' = "querying"
    /\ samples' = <<>>
    /\ draft' = NoStatus
    /\ status' = NoStatus
    /\ noticed' = IF InBounds(skew) THEN "no" ELSE "polling"
    /\ UNCHANGED <<slot, skew, lastPoll>>

StopMonitor ==
    /\ monitor' = "off"
    /\ samples' = <<>>
    /\ lastPoll' = 0
    /\ draft' = NoStatus
    /\ status' = NoStatus
    /\ noticed' = "no"
    /\ UNCHANGED <<slot, skew>>

----------------------------------------------------------------------------
(* The world.                                                              *)

(* The error of the clock becomes e; an error that begins is one no poll   *)
(* has seen.                                                               *)
ClockIs(e) ==
    /\ skew' = e
    /\ noticed' = IF InBounds(skew) \/ InBounds(e) THEN "no" ELSE noticed

(* Time passes; at the end of the leap day the clock follows UTC or not.   *)
Tick ==
    /\ slot < MaxSlot
    /\ slot' = slot + 1
    /\ \/ /\ DayOf[slot] = LeapDay /\ DayOf[slot + 1] # LeapDay
          /\ \E e \in Skew : ClockIs(e)
       \/ /\ ~(DayOf[slot] = LeapDay /\ DayOf[slot + 1] # LeapDay)
          /\ UNCHANGED <<skew, noticed>>
    /\ UNCHANGED <<samples, monitor, lastPoll, draft, status>>

ClockMoves ==
    /\ \E e \in Skew \ {skew} : ClockIs(e)
    /\ UNCHANGED <<slot, samples, monitor, lastPoll, draft, status>>

----------------------------------------------------------------------------
Sample == [ok : BOOLEAN, offset : Skew \cup Lie \cup {0}, leap : BOOLEAN, at : Slot]
Status == [traceable : BOOLEAN, leap : BOOLEAN, lastSync : Slot \cup {None}]

(* Every variable of the monitor has its type, and a poll has at most one  *)
(* answer for each server.                                                 *)
TimeTypeOK ==
    /\ slot \in Slot
    /\ skew \in Skew
    /\ samples \in Seq(Sample) /\ Len(samples) <= Servers
    /\ monitor \in {"off", "idle", "querying", "recording"}
    /\ lastPoll \in Slot
    /\ draft \in Status /\ status \in Status
    /\ noticed \in {"no", "polling", "yes"}

(* The premise of the quorum: fewer liars than the answers it takes.       *)
FewLiars == Cardinality(Liar) < MinSources

(* A clock that was out of bounds during a whole poll and still is leaves  *)
(* no status that lets the authority stamp, whatever the liars answered,   *)
(* the failures, and the order of the polls (evaluate, Monitor::now).      *)
ClockErrorIsSeen == FewLiars /\ noticed = "yes" => ~status.traceable

(* The suspension of stamps for a leap second ends: once the day has       *)
(* changed, the monitor polls again (leap_poll_due), whatever it finds.    *)
LeapBlockEnds ==
    (monitor # "off" /\ LeapBlocks(status, slot) /\ slot \notin LastMinute)
        ~> (monitor = "off" \/ ~LeapBlocks(status, slot))
=============================================================================
