------------------------------ MODULE AuditLog ------------------------------
(***************************************************************************)
(* The audit journal (crates/oe-audit, Log): one file of hash-chained      *)
(* lines, several processes that append to it, and a lock on the file.     *)
(* Each process keeps how far it has read and verified the file, and reads *)
(* the rest before it appends.                                             *)
(*                                                                         *)
(* The file is a sequence of pieces: a complete record or a torn one, each *)
(* with or without the newline that ends its line.  A hash is the identity *)
(* of the record it covers, 0 for the genesis hash.  Where a piece starts  *)
(* and ends a line is what a reader goes by: two records on one line are   *)
(* as unreadable as a torn one - to a reader that starts at the first.     *)
(*                                                                         *)
(* A step that holds the lock from its beginning to its end is one step.   *)
(* An append holds it over three: catch up, write, synchronize; the        *)
(* process, or the machine, may stop between them, and a write may stop    *)
(* anywhere in its line.  This module gives the steps; JournalSealing adds *)
(* the periodic seal and the specification.                                *)
(***************************************************************************)
EXTENDS Naturals, Sequences, FiniteSets

CONSTANTS
    Log,          \* open journals, one per process
    Thread,       \* threads that append
    LogOf,        \* the journal each thread writes through
    None,         \* no value
    MaxRecords,   \* bound: records the disk has room for
    MaxFaults     \* bound: failures and crashes

ASSUME LogAssumption ==
    /\ LogOf \in [Thread -> Log]
    /\ None \notin Thread /\ None \notin Nat
    /\ MaxRecords \in Nat /\ MaxFaults \in Nat

VARIABLES
    file,         \* the pieces of the file, in order
    synced,       \* how many of them the disk surely has
    holder,       \* the thread that holds the file's lock
    state,        \* per journal: last record and position read so far
    pc,           \* where each thread is
    draft,        \* the record it appends
    acked,        \* history: records whose append returned Ok
    written,      \* history: records drawn up so far, their identities
    newlineLost,  \* history: a record was left on the disk without newline
    faults        \* history: what the bound counts

logVars == <<file, synced, holder, state, pc, draft, acked, written,
             newlineLost, faults>>

Piece == [kind : {"record", "torn"}, id : Nat, seq : Nat, prev : Nat,
          seals : Nat \cup {None}, newline : BOOLEAN]
State == [open : BOOLEAN, seq : Nat, head : Nat, offset : Nat]
Closed == [open |-> FALSE, seq |-> 0, head |-> 0, offset |-> 0]
NoDraft == [kind |-> "torn", id |-> 0, seq |-> 0, prev |-> 0, seals |-> None,
            newline |-> FALSE]

LogInit ==
    /\ file = <<>>
    /\ synced = 0
    /\ holder = None
    /\ state = [l \in Log |-> Closed]
    /\ pc = [t \in Thread |-> "idle"]
    /\ draft = [t \in Thread |-> NoDraft]
    /\ acked = {}
    /\ written = 0
    /\ newlineLost = FALSE
    /\ faults = 0

-----------------------------------------------------------------------------
(* scan_chain, from a position known to be the end of what was verified.   *)

(* The line of piece i, seen from position k, is one complete record; the  *)
(* last line may lack its newline.                                         *)
Readable(k, i) ==
    /\ file[i].kind = "record"
    /\ i > k + 1 => file[i - 1].newline
    /\ i < Len(file) => file[i].newline

(* Its hash and number continue those of the record before.  The first     *)
(* record of a journal may have any number.                                *)
Follows(st, i) ==
    LET before == IF i = st.offset + 1 THEN [id |-> st.head, seq |-> st.seq]
                                       ELSE [id |-> file[i - 1].id, seq |-> file[i - 1].seq]
    IN  /\ file[i].prev = before.id
        /\ before.seq = 0 \/ file[i].seq = before.seq + 1

ScanOk(st) ==
    \A i \in (st.offset + 1)..Len(file) : Readable(st.offset, i) /\ Follows(st, i)

(* Mutant: what others wrote is not read again.                            *)
CaughtUpToOwnWrites(st) == st

CaughtUp(st) ==
    IF st.offset = Len(file) THEN st
    ELSE [st EXCEPT !.seq = file[Len(file)].seq, !.head = file[Len(file)].id,
                    !.offset = Len(file)]

(* verify: the whole file, from the genesis hash.                          *)
Verifies == ScanOk(Closed)

-----------------------------------------------------------------------------
GotoOf(t, label) == pc' = [pc EXCEPT ![t] = label]

(* Log::open, under the lock: a journal that does not verify does not open.*)
Open(l) ==
    /\ ~state[l].open
    /\ holder = None
    /\ Verifies
    /\ state' = [state EXCEPT ![l] = [CaughtUp(Closed) EXCEPT !.open = TRUE]]
    /\ UNCHANGED <<file, synced, holder, pc, draft, acked, written, newlineLost,
                   faults>>

(* Mutant: the head moves before the record is written.                    *)
BeginMovesHead(t, seals) ==
    LET l == LogOf[t]
        st == CaughtUp(state[l])
    IN  /\ state[l].open
        /\ holder = None
        /\ ScanOk(state[l])
        /\ state' = [state EXCEPT ![l] = [st EXCEPT !.seq = @ + 1, !.head = written + 1]]
        /\ written' = IF written < MaxRecords THEN written + 1 ELSE written
        /\ draft' = [draft EXCEPT ![t] =
              [kind |-> "record", id |-> written + 1, seq |-> st.seq + 1,
               prev |-> st.head, seals |-> seals, newline |-> TRUE]]
        /\ holder' = t
        /\ GotoOf(t, "write")
        /\ UNCHANGED <<file, synced, acked, newlineLost, faults>>

(* append, first part: the lock, then catch_up.  A scan that fails leaves  *)
(* the position where it was, and the append fails.                        *)
Begin(t, seals) ==
    LET l == LogOf[t]
        st == CaughtUp(state[l])
    IN  /\ state[l].open
        /\ holder = None
        /\ \/ /\ ScanOk(state[l])
              /\ state' = [state EXCEPT ![l] = st]
              /\ written' = IF written < MaxRecords THEN written + 1 ELSE written
              /\ draft' = [draft EXCEPT ![t] =
                    [kind |-> "record", id |-> written + 1, seq |-> st.seq + 1,
                     prev |-> st.head, seals |-> seals, newline |-> TRUE]]
              /\ holder' = t
              /\ GotoOf(t, "write")
           \/ /\ ~ScanOk(state[l])
              /\ GotoOf(t, "err")
              /\ UNCHANGED <<state, written, draft, holder>>
        /\ UNCHANGED <<file, synced, acked, newlineLost, faults>>

Fits(t) == draft[t].id <= MaxRecords

WriteLine(t) ==
    /\ pc[t] = "write"
    /\ Fits(t)
    /\ file' = Append(file, draft[t])
    /\ GotoOf(t, "sync")
    /\ UNCHANGED <<synced, holder, state, draft, acked, written, newlineLost, faults>>

(* What a write that is cut short leaves: part of the record, or all of it *)
(* but the newline.                                                        *)
CutShort(r) == {[r EXCEPT !.kind = "torn", !.newline = FALSE],
                [r EXCEPT !.newline = FALSE]}

LacksNewline(r) == r.kind = "record" /\ ~r.newline

(* write_all fails, for want of room or otherwise: the error is returned   *)
(* and what was written stays.                                             *)
WriteFails(t) ==
    /\ pc[t] = "write"
    /\ \/ ~Fits(t) /\ UNCHANGED <<file, newlineLost, faults>>
       \/ /\ faults < MaxFaults
          /\ faults' = faults + 1
          /\ \/ UNCHANGED <<file, newlineLost>>
             \/ \E r \in CutShort(draft[t]) :
                  /\ Fits(t)
                  /\ file' = Append(file, r)
                  /\ newlineLost' = (newlineLost \/ LacksNewline(r))
    /\ holder' = None
    /\ GotoOf(t, "err")
    /\ UNCHANGED <<synced, state, draft, acked, written>>

(* The position behind a record that was just written.                     *)
Advanced(st, r) == [st EXCEPT !.seq = r.seq, !.head = r.id, !.offset = @ + 1]

(* Mutant: the append returns before the disk has the line.                *)
ReturnUnsynced(t) ==
    /\ pc[t] = "sync"
    /\ state' = [state EXCEPT ![LogOf[t]] = Advanced(@, draft[t])]
    /\ acked' = acked \cup {draft[t].id}
    /\ holder' = None
    /\ GotoOf(t, "ok")
    /\ UNCHANGED <<file, synced, draft, written, newlineLost, faults>>

(* sync_all, then the new head and position; the lock is released.         *)
Sync(t) ==
    /\ pc[t] = "sync"
    /\ synced' = Len(file)
    /\ state' = [state EXCEPT ![LogOf[t]] = Advanced(@, draft[t])]
    /\ acked' = acked \cup {draft[t].id}
    /\ holder' = None
    /\ GotoOf(t, "ok")
    /\ UNCHANGED <<file, draft, written, newlineLost, faults>>

(* sync_all fails: the error is returned although the line is in the file. *)
(* Neither head nor position moves: the next catch_up reads the line.      *)
SyncFails(t) ==
    /\ pc[t] = "sync"
    /\ faults < MaxFaults
    /\ faults' = faults + 1
    /\ holder' = None
    /\ GotoOf(t, "err")
    /\ UNCHANGED <<file, synced, state, draft, acked, written, newlineLost>>

(* The caller has its answer.                                              *)
Return(t) ==
    /\ pc[t] \in {"ok", "err"}
    /\ GotoOf(t, "idle")
    /\ draft' = [draft EXCEPT ![t] = NoDraft]
    /\ UNCHANGED <<file, synced, holder, state, acked, written, newlineLost, faults>>

-----------------------------------------------------------------------------
(* A process dies: its threads, its lock and what it knew are gone.  In    *)
(* the middle of a write, part of the line may be in the file.             *)
Forget(ts) ==
    /\ pc' = [t \in Thread |-> IF t \in ts THEN "idle" ELSE pc[t]]
    /\ draft' = [t \in Thread |-> IF t \in ts THEN NoDraft ELSE draft[t]]

ProcessDies(l) ==
    LET dead == {t \in Thread : LogOf[t] = l}
    IN  /\ state[l].open
        /\ faults < MaxFaults
        /\ faults' = faults + 1
        /\ \/ UNCHANGED <<file, newlineLost>>
           \/ \E t \in dead : \E r \in CutShort(draft[t]) :
                /\ pc[t] = "write" /\ Fits(t)
                /\ file' = Append(file, r)
                /\ newlineLost' = (newlineLost \/ LacksNewline(r))
        /\ state' = [state EXCEPT ![l] = Closed]
        /\ holder' = IF holder \in dead THEN None ELSE holder
        /\ Forget(dead)
        /\ UNCHANGED <<synced, acked, written>>

(* The machine stops: every process dies, and of what was not synchronized *)
(* the disk has a beginning, perhaps cut in its last line.                 *)
PowerFails ==
    /\ faults < MaxFaults
    /\ faults' = faults + 1
    /\ \E n \in synced..Len(file) :
         LET kept == SubSeq(file, 1, n)
         IN  \/ file' = kept /\ synced' = n /\ UNCHANGED newlineLost
             \/ /\ n > synced
                /\ \E r \in CutShort(file[n]) :
                     /\ file' = [kept EXCEPT ![n] = r]
                     /\ newlineLost' = (newlineLost \/ LacksNewline(r))
                /\ synced' = n
    /\ state' = [l \in Log |-> Closed]
    /\ holder' = None
    /\ Forget(Thread)
    /\ UNCHANGED <<acked, written>>

-----------------------------------------------------------------------------
Appending(t) == WriteLine(t) \/ WriteFails(t) \/ Sync(t) \/ SyncFails(t)
Crash == PowerFails \/ \E l \in Log : ProcessDies(l)

-----------------------------------------------------------------------------
(* Properties. *)

LogTypeOK ==
    /\ file \in Seq(Piece)
    /\ synced \in 0..Len(file)
    /\ holder \in Thread \cup {None}
    /\ state \in [Log -> State]
    /\ draft \in [Thread -> Piece]
    /\ acked \subseteq Nat
    /\ written \in Nat
    /\ newlineLost \in BOOLEAN
    /\ faults \in Nat

(* Whatever the order of the writers, their failures and crashes, two      *)
(* neighbours in the file are chained: no two records have one predecessor *)
(* (the lock and catch_up), and nothing is written after a torn line.      *)
OneChain ==
    \A i \in 2..Len(file) :
        /\ file[i - 1].kind = "record"
        /\ file[i].prev = file[i - 1].id
        /\ file[i].seq = file[i - 1].seq + 1

(* A record whose append returned Ok is on the disk for good, where a      *)
(* reader of the whole journal gets to it before any torn line - as long   *)
(* as no record was left without its newline.                              *)
AcknowledgedIsKept ==
    ~newlineLost =>
        \A id \in acked : \E i \in 1..synced :
            /\ file[i].id = id
            /\ \A j \in 1..i : Readable(0, j)

(* append returns Ok only on a journal that verifies (same condition).     *)
AcknowledgedOnAWholeJournal ==
    [][acked' # acked /\ ~newlineLost' => Verifies']_logVars
=============================================================================
