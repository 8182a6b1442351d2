---------------------------- MODULE JournalProofs ----------------------------
(***************************************************************************)
(* Theorems of JournalSealing, for any number of journals and threads and  *)
(* any bounds: the file is one chain, what was acknowledged is kept, and   *)
(* seals cover what precedes them.                                         *)
(***************************************************************************)
EXTENDS JournalSealing, SequenceTheorems, TLAPS

(* What a journal that is open has read is a beginning of the file that    *)
(* ends with a whole record.                                               *)
Position(st) ==
    /\ st.offset <= Len(file)
    /\ st.offset = 0 => st.head = 0 /\ st.seq = 0
    /\ st.offset > 0 => /\ file[st.offset].kind = "record"
                        /\ file[st.offset].id = st.head
                        /\ file[st.offset].seq = st.seq

Past(id) == id \in {None, 0} \/ \E j \in 1..Len(file) : file[j].id = id

(* The file alone. *)
FileOK ==
    /\ file \in Seq(Piece)
    /\ synced \in 0..Len(file)
    /\ newlineLost \in BOOLEAN
    /\ OneChain
    /\ Len(file) > 0 => file[1].prev = 0
    /\ ~newlineLost =>
          \A i \in 1..Len(file) : file[i].kind = "record" => file[i].newline
    /\ \A id \in acked : \E i \in 1..synced :
          file[i].id = id /\ file[i].kind = "record"
    /\ SealsCoverThePast

(* The thread that is in the middle of an append holds the lock; nobody    *)
(* moves the end of the file in the meantime.                              *)
ThreadOK(t) ==
    LET st == state[LogOf[t]] IN
    /\ pc[t] \in {"write", "sync"} => holder = t /\ st.open
    /\ pc[t] = "write" => /\ st.offset = Len(file)
                          /\ draft[t].kind = "record"
                          /\ draft[t].newline
                          /\ draft[t].prev = st.head
                          /\ draft[t].seq = st.seq + 1
                          /\ Past(draft[t].seals)
    /\ pc[t] = "sync" => /\ st.offset + 1 = Len(file)
                         /\ file[Len(file)] = draft[t]
                         /\ draft[t].kind = "record"
    /\ pc[t] = "ok" => draft[t].id \in acked

PositionsOK == \A l \in Log : state[l].open => Position(state[l])
ThreadsOK == \A t \in Thread : ThreadOK(t)

LInv ==
    /\ LogTypeOK
    /\ pc \in [Thread -> {"idle", "write", "sync", "ok", "err"}]
    /\ FileOK
    /\ PositionsOK
    /\ ThreadsOK

SInv ==
    /\ stage \in Stage \cup {"asleep"}
    /\ sealedHead \in Nat \cup {None}
    /\ failures \in [Stage -> 0..MaxFailures]
    /\ Past(sealedHead)

IInv == LInv /\ SInv

-----------------------------------------------------------------------------
(* The file. *)

(* What can be written behind the last piece without breaking the chain.   *)
Chained(r) ==
    /\ Len(file) = 0 => r.prev = 0
    /\ Len(file) > 0 => /\ file[Len(file)].kind = "record"
                        /\ r.prev = file[Len(file)].id
                        /\ r.seq = file[Len(file)].seq + 1
    /\ Past(r.seals)

(* append: a whole or torn record behind the last piece.                   *)
LEMMA AppendKeeps ==
    ASSUME FileOK, NEW r \in Piece, Chained(r),
           file' = Append(file, r), UNCHANGED <<synced, acked>>,
           newlineLost' = (newlineLost \/ LacksNewline(r))
    PROVE  /\ FileOK'
           /\ \A st \in State : Position(st) => Position(st)'
           /\ \A id \in Nat \cup {None} : Past(id) => Past(id)'
           /\ Len(file') = Len(file) + 1
           /\ file'[Len(file')] = r
  <1>1. /\ file' \in Seq(Piece)
        /\ Len(file') = Len(file) + 1
        /\ file'[Len(file')] = r
        /\ \A i \in 1..Len(file) : file'[i] = file[i]
        /\ Len(file) \in Nat
    BY DEF FileOK
  <1>2. OneChain'
    BY <1>1 DEF FileOK, OneChain, Chained
  <1>3. Len(file') > 0 => file'[1].prev = 0
    BY <1>1 DEF FileOK, Chained
  <1>4. ~newlineLost' =>
            \A i \in 1..Len(file') : file'[i].kind = "record" => file'[i].newline
    <2>1. SUFFICES ASSUME ~newlineLost', NEW i \in 1..Len(file'),
                          file'[i].kind = "record"
                   PROVE  file'[i].newline
      OBVIOUS
    <2>2. ~newlineLost /\ ~LacksNewline(r)
      BY <2>1 DEF FileOK
    <2>3. CASE i = Len(file')
      BY <1>1, <2>1, <2>2, <2>3 DEF LacksNewline
    <2>4. CASE i # Len(file')
      <3>1. i \in 1..Len(file) /\ file'[i] = file[i]
        BY <1>1, <2>4
      <3> QED
        BY <2>1, <2>2, <3>1 DEF FileOK
    <2> QED
      BY <2>3, <2>4
  <1>5. \A id \in acked' : \E i \in 1..synced' :
            file'[i].id = id /\ file'[i].kind = "record"
    BY <1>1 DEF FileOK
  <1>6. SealsCoverThePast'
    BY <1>1 DEF FileOK, SealsCoverThePast, Chained, Past
  <1>7. synced' \in 0..Len(file') /\ newlineLost' \in BOOLEAN
    BY <1>1 DEF FileOK, LacksNewline
  <1>8. FileOK'
    BY <1>1, <1>2, <1>3, <1>4, <1>5, <1>6, <1>7 DEF FileOK
  <1>9. \A st \in State : Position(st) => Position(st)'
    BY <1>1 DEF Position, State
  <1>10. \A id \in Nat \cup {None} : Past(id) => Past(id)'
    BY <1>1 DEF Past
  <1> QED
    BY <1>1, <1>8, <1>9, <1>10

(* What a write cut short leaves is a piece chained like the whole record. *)
LEMMA CutKeeps ==
    ASSUME NEW d \in Piece, NEW r \in CutShort(d)
    PROVE  /\ r \in Piece
           /\ r.id = d.id /\ r.seq = d.seq /\ r.prev = d.prev /\ r.seals = d.seals
           /\ r.newline = FALSE
           /\ r.kind \in {"torn", d.kind}
  BY DEF CutShort, Piece

LEMMA DraftIsChained ==
    ASSUME LInv, NEW t \in Thread, pc[t] = "write"
    PROVE  draft[t] \in Piece /\ Chained(draft[t]) /\ draft[t].newline
  <1>1. LogOf[t] \in Log
    BY LogAssumption
  <1>2. ThreadOK(t) /\ state[LogOf[t]].open /\ Position(state[LogOf[t]])
    BY <1>1 DEF LInv, ThreadsOK, ThreadOK, PositionsOK
  <1>3. state[LogOf[t]] \in State /\ draft[t] \in Piece
    BY <1>1 DEF LInv, LogTypeOK
  <1>4. Len(file) \in Nat
    BY DEF LInv, LogTypeOK
  <1> QED
    BY <1>2, <1>3, <1>4 DEF ThreadOK, Position, Chained, State

(* catch_up: after a scan that succeeds the position is the end of the     *)
(* file, and the last piece is a record.                                   *)
LEMMA CaughtUpIsAtTheEnd ==
    ASSUME FileOK, NEW st \in State, Position(st), ScanOk(st)
    PROVE  /\ CaughtUp(st) \in State
           /\ CaughtUp(st).open = st.open
           /\ CaughtUp(st).offset = Len(file)
           /\ Position(CaughtUp(st))
  <1>1. Len(file) \in Nat /\ \A i \in 1..Len(file) : file[i] \in Piece
    BY DEF FileOK
  <1>2. CASE st.offset = Len(file)
    BY <1>1, <1>2 DEF CaughtUp
  <1>3. CASE st.offset # Len(file)
    <2>1. Len(file) \in (st.offset + 1)..Len(file) /\ Len(file) > 0
      BY <1>1, <1>3 DEF Position, State
    <2>2. file[Len(file)].kind = "record"
      BY <2>1 DEF ScanOk, Readable
    <2>3. /\ CaughtUp(st).offset = Len(file)
          /\ CaughtUp(st).seq = file[Len(file)].seq
          /\ CaughtUp(st).head = file[Len(file)].id
          /\ CaughtUp(st).open = st.open
          /\ CaughtUp(st) \in State
      <3>1. file[Len(file)].seq \in Nat /\ file[Len(file)].id \in Nat
        BY <1>1, <2>1 DEF Piece
      <3>2. CaughtUp(st) = [st EXCEPT !.seq = file[Len(file)].seq,
                                      !.head = file[Len(file)].id,
                                      !.offset = Len(file)]
        BY <1>3 DEF CaughtUp
      <3> QED
        BY <1>1, <3>1, <3>2 DEF State
    <2> QED
      BY <2>1, <2>2, <2>3 DEF Position
  <1> QED
    BY <1>2, <1>3

-----------------------------------------------------------------------------
(* The steps. *)

(* Nobody is in the middle of an append while the lock is free.            *)
LEMMA FreeLock ==
    ASSUME LInv, holder = None
    PROVE  \A t \in Thread : pc[t] \notin {"write", "sync"}
  BY LogAssumption DEF LInv, ThreadsOK, ThreadOK

(* Steps that leave the file alone. *)
LEMMA FileStays ==
    ASSUME FileOK, UNCHANGED <<file, synced, acked, newlineLost>>
    PROVE  /\ FileOK'
           /\ \A st \in State : Position(st) => Position(st)'
           /\ \A id \in Nat \cup {None} : Past(id) => Past(id)'
  BY DEF FileOK, OneChain, SealsCoverThePast, Position, Past

(* Every position is one of the file before, and those stay positions.     *)
LEMMA PositionsStay ==
    ASSUME \A st \in State : Position(st) => Position(st)',
           \A k \in Log : state'[k].open => state'[k] \in State /\ Position(state'[k])
    PROVE  PositionsOK'
  BY DEF PositionsOK, Position

LEMMA OpenKeeps == ASSUME LInv, NEW l \in Log, Open(l) PROVE LInv'
  <1> USE DEF Open
  <1>1. Closed \in State /\ Position(Closed) /\ FileOK
    BY DEF Closed, State, Position, LInv, FileOK
  <1>2. LET c == CaughtUp(Closed)
        IN  c \in State /\ [c EXCEPT !.open = TRUE] \in State
            /\ Position([c EXCEPT !.open = TRUE])
    BY <1>1, CaughtUpIsAtTheEnd DEF Verifies, Position, State
  <1>3. LogTypeOK'
    BY <1>2 DEF LInv, LogTypeOK
  <1>4. FileOK' /\ \A st \in State : Position(st) => Position(st)'
    BY <1>1, FileStays
  <1>5. PositionsOK'
    <2>1. SUFFICES ASSUME NEW k \in Log, state'[k].open
                   PROVE  state'[k] \in State /\ Position(state'[k])
      BY <1>4, PositionsStay
    <2>2. CASE k = l
      BY <1>2, <2>2 DEF LInv, LogTypeOK
    <2>3. CASE k # l
      BY <2>1, <2>3 DEF LInv, LogTypeOK, PositionsOK
    <2> QED
      BY <2>2, <2>3
  <1>6. ThreadsOK'
    BY FreeLock DEF LInv, ThreadsOK, ThreadOK
  <1>7. pc' \in [Thread -> {"idle", "write", "sync", "ok", "err"}]
    BY DEF LInv
  <1> QED
    BY <1>3, <1>4, <1>5, <1>6, <1>7 DEF LInv

LEMMA BeginKeeps ==
    ASSUME LInv, NEW t \in Thread, pc[t] = "idle",
           NEW seals \in Nat \cup {None}, Past(seals), Begin(t, seals)
    PROVE  LInv'
  <1> DEFINE l == LogOf[t]
             st == CaughtUp(state[l])
  <1>1. l \in Log /\ state[l] \in State /\ Position(state[l]) /\ FileOK
    BY LogAssumption DEF Begin, LInv, LogTypeOK, PositionsOK
  <1>2. FileOK' /\ \A s \in State : Position(s) => Position(s)'
    BY <1>1, FileStays DEF Begin
  <1>3. Past(seals)'
    BY FileStays, <1>1 DEF Begin
  <1>4. \A u \in Thread : pc[u] \notin {"write", "sync"}
    BY FreeLock DEF Begin
  <1>5. CASE ScanOk(state[l])
    <2>1. /\ st \in State /\ st.open = state[l].open
          /\ st.offset = Len(file) /\ Position(st)
      BY <1>1, <1>5, CaughtUpIsAtTheEnd
    <2>2. /\ file' = file /\ synced' = synced /\ acked' = acked
          /\ newlineLost' = newlineLost /\ faults' = faults
          /\ state[l].open
          /\ state' = [state EXCEPT ![l] = st]
          /\ written' = IF written < MaxRecords THEN written + 1 ELSE written
          /\ draft' = [draft EXCEPT ![t] =
                [kind |-> "record", id |-> written + 1, seq |-> st.seq + 1,
                 prev |-> st.head, seals |-> seals, newline |-> TRUE]]
          /\ holder' = t
          /\ pc' = [pc EXCEPT ![t] = "write"]
      BY <1>5 DEF Begin, GotoOf
    <2> HIDE DEF st, l
    <2>3. LogTypeOK'
      <3>1. [kind |-> "record", id |-> written + 1, seq |-> st.seq + 1,
             prev |-> st.head, seals |-> seals, newline |-> TRUE] \in Piece
        BY <2>1 DEF LInv, LogTypeOK, State, Piece
      <3>2. written' \in Nat
        BY <2>2 DEF LInv, LogTypeOK
      <3> QED
        BY <1>1, <2>1, <2>2, <3>1, <3>2 DEF LInv, LogTypeOK
    <2>4. pc' \in [Thread -> {"idle", "write", "sync", "ok", "err"}]
      BY <2>2 DEF LInv
    <2>5. PositionsOK'
      <3>1. SUFFICES ASSUME NEW k \in Log, state'[k].open
                     PROVE  state'[k] \in State /\ Position(state'[k])
        BY <1>2, PositionsStay
      <3>2. CASE k = l
        BY <1>1, <2>1, <2>2, <3>2 DEF LInv, LogTypeOK
      <3>3. CASE k # l
        BY <2>2, <3>1, <3>3 DEF LInv, LogTypeOK, PositionsOK
      <3> QED
        BY <3>2, <3>3
    <2>6. ThreadsOK'
      <3>1. SUFFICES ASSUME NEW u \in Thread PROVE ThreadOK(u)'
        BY DEF ThreadsOK
      <3>2. CASE u = t
        <4>1. /\ pc'[u] = "write" /\ state'[LogOf[u]] = st
              /\ draft'[u] = [kind |-> "record", id |-> written + 1,
                     seq |-> st.seq + 1, prev |-> st.head, seals |-> seals,
                     newline |-> TRUE]
          BY <1>1, <2>2, <3>2 DEF LInv, LogTypeOK, l
        <4>2. /\ draft'[u].kind = "record" /\ draft'[u].newline
              /\ draft'[u].prev = st.head /\ draft'[u].seq = st.seq + 1
              /\ draft'[u].seals = seals
          BY <4>1
        <4>3. Past(draft[u].seals)'
          BY <1>3, <4>2 DEF Past
        <4>4. st.open /\ st.offset = Len(file')
          BY <2>1, <2>2
        <4> QED
          BY <2>2, <3>2, <4>1, <4>2, <4>3, <4>4 DEF ThreadOK
      <3>3. CASE u # t
        <4>1. pc'[u] = pc[u] /\ draft'[u] = draft[u]
          BY <2>2, <3>3 DEF LInv, LogTypeOK
        <4> QED
          BY <1>4, <2>2, <4>1 DEF LInv, ThreadsOK, ThreadOK
      <3> QED
        BY <3>2, <3>3
    <2> QED
      BY <1>2, <2>3, <2>4, <2>5, <2>6 DEF LInv
  <1>6. CASE ~ScanOk(state[l])
    <2>1. /\ file' = file /\ synced' = synced /\ acked' = acked
          /\ newlineLost' = newlineLost /\ faults' = faults
          /\ state' = state /\ written' = written /\ draft' = draft
          /\ holder' = holder
          /\ pc' = [pc EXCEPT ![t] = "err"]
      BY <1>6 DEF Begin, GotoOf
    <2>2. LogTypeOK' /\ pc' \in [Thread -> {"idle", "write", "sync", "ok", "err"}]
      BY <2>1 DEF LInv, LogTypeOK
    <2>3. PositionsOK'
      BY <2>1, <1>2, PositionsStay DEF LInv, LogTypeOK, PositionsOK
    <2>4. ThreadsOK'
      BY <1>4, <2>1 DEF LInv, ThreadsOK, ThreadOK
    <2> QED
      BY <1>2, <2>2, <2>3, <2>4 DEF LInv
  <1> QED
    BY <1>5, <1>6

(* A thread appends to the file while it holds the lock: the positions of  *)
(* the others stay, and nobody else is in the middle of an append.         *)
LEMMA WriteLineKeeps ==
    ASSUME LInv, NEW t \in Thread, WriteLine(t) PROVE LInv'
  <1>1. pc[t] = "write" /\ draft[t] \in Piece /\ Chained(draft[t])
        /\ draft[t].newline /\ FileOK /\ ThreadOK(t)
    BY DraftIsChained DEF WriteLine, LInv, ThreadsOK
  <1>2. newlineLost' = (newlineLost \/ LacksNewline(draft[t]))
    BY <1>1 DEF WriteLine, LacksNewline, FileOK
  <1>3. /\ FileOK'
        /\ \A st \in State : Position(st) => Position(st)'
        /\ Len(file') = Len(file) + 1
        /\ file'[Len(file')] = draft[t]
    BY <1>1, <1>2, AppendKeeps DEF WriteLine
  <1>4. LogTypeOK'
    BY <1>3 DEF WriteLine, LInv, LogTypeOK, FileOK
  <1>5. pc' \in [Thread -> {"idle", "write", "sync", "ok", "err"}]
    BY DEF WriteLine, GotoOf, LInv
  <1>6. PositionsOK'
    BY <1>3, PositionsStay DEF WriteLine, LInv, LogTypeOK, PositionsOK
  <1>7. ThreadsOK'
    <2>1. SUFFICES ASSUME NEW u \in Thread PROVE ThreadOK(u)'
      BY DEF ThreadsOK
    <2>2. CASE u = t
      <3>1. pc'[u] = "sync" /\ state' = state /\ draft' = draft /\ holder' = holder
        BY <2>2 DEF WriteLine, GotoOf, LInv
      <3> QED
        BY <1>1, <1>3, <2>2, <3>1 DEF ThreadOK
    <2>3. CASE u # t
      <3>1. pc[u] \notin {"write", "sync"}
        BY <1>1, <2>3 DEF LInv, ThreadsOK, ThreadOK
      <3>2. pc'[u] = pc[u] /\ draft' = draft /\ acked' = acked
        BY <2>3 DEF WriteLine, GotoOf, LInv
      <3> QED
        BY <3>1, <3>2 DEF LInv, ThreadsOK, ThreadOK
    <2> QED
      BY <2>2, <2>3
  <1> QED
    BY <1>3, <1>4, <1>5, <1>6, <1>7 DEF LInv

(* The end of an append that failed, or what a dead process leaves: the    *)
(* file as it was or with a cut line, the lock free.                       *)
LeavesCut(t) ==
    \/ UNCHANGED <<file, newlineLost>>
    \/ /\ pc[t] = "write"
       /\ \E r \in CutShort(draft[t]) :
            file' = Append(file, r) /\ newlineLost' = (newlineLost \/ LacksNewline(r))

LEMMA CutFileKeeps ==
    ASSUME LInv, NEW t \in Thread, LeavesCut(t), UNCHANGED <<synced, acked>>
    PROVE  /\ FileOK'
           /\ \A st \in State : Position(st) => Position(st)'
           /\ \A id \in Nat \cup {None} : Past(id) => Past(id)'
  <1>1. CASE UNCHANGED <<file, newlineLost>>
    BY <1>1, FileStays DEF LInv
  <1>2. ASSUME pc[t] = "write", NEW r \in CutShort(draft[t]),
               file' = Append(file, r),
               newlineLost' = (newlineLost \/ LacksNewline(r))
        PROVE  /\ FileOK'
               /\ \A st \in State : Position(st) => Position(st)'
               /\ \A id \in Nat \cup {None} : Past(id) => Past(id)'
    <2>1. draft[t] \in Piece /\ Chained(draft[t])
      BY <1>2, DraftIsChained
    <2>2. r \in Piece /\ r.prev = draft[t].prev /\ r.seq = draft[t].seq
          /\ r.seals = draft[t].seals
      BY <2>1, CutKeeps
    <2>3. Chained(r)
      BY <2>1, <2>2 DEF Chained
    <2> QED
      BY <1>2, <2>2, <2>3, AppendKeeps DEF LInv
  <1> QED
    BY <1>1, <1>2 DEF LeavesCut

LEMMA WriteFailsKeeps ==
    ASSUME LInv, NEW t \in Thread, WriteFails(t) PROVE LInv'
  <1>1. /\ FileOK'
        /\ \A st \in State : Position(st) => Position(st)'
    BY CutFileKeeps DEF WriteFails, LeavesCut
  <1>2. LogTypeOK' /\ pc' \in [Thread -> {"idle", "write", "sync", "ok", "err"}]
    BY <1>1 DEF WriteFails, GotoOf, LInv, LogTypeOK, FileOK
  <1>3. PositionsOK'
    BY <1>1, PositionsStay DEF WriteFails, LInv, LogTypeOK, PositionsOK
  <1>4. ThreadsOK'
    <2>1. SUFFICES ASSUME NEW u \in Thread PROVE ThreadOK(u)'
      BY DEF ThreadsOK
    <2>2. pc'[u] \notin {"write", "sync"} /\ (pc'[u] = "ok" => pc[u] = "ok")
      BY DEF WriteFails, GotoOf, LInv, ThreadsOK, ThreadOK
    <2> QED
      BY <2>2 DEF WriteFails, LInv, ThreadsOK, ThreadOK
  <1> QED
    BY <1>1, <1>2, <1>3, <1>4 DEF LInv

(* sync_all: the line the thread wrote is the last of the file.            *)
LEMMA SyncKeeps ==
    ASSUME LInv, NEW t \in Thread, Sync(t) PROVE LInv'
  <1> DEFINE l == LogOf[t]
             st == Advanced(state[l], draft[t])
  <1>1. /\ l \in Log /\ state[l] \in State /\ draft[t] \in Piece
        /\ FileOK /\ Len(file) \in Nat
    BY LogAssumption DEF LInv, LogTypeOK
  <1>2. /\ holder = t /\ state[l].offset + 1 = Len(file)
        /\ file[Len(file)] = draft[t] /\ draft[t].kind = "record"
    BY DEF Sync, LInv, ThreadsOK, ThreadOK
  <1>3. /\ file' = file /\ synced' = Len(file) /\ newlineLost' = newlineLost
        /\ state' = [state EXCEPT ![l] = st]
        /\ acked' = acked \cup {draft[t].id}
        /\ holder' = None /\ draft' = draft
        /\ written' = written /\ faults' = faults
        /\ pc' = [pc EXCEPT ![t] = "ok"]
    BY DEF Sync, GotoOf
  <1>4. st \in State /\ Position(st)
    <2>1. /\ st \in State /\ st.offset = Len(file)
          /\ st.seq = draft[t].seq /\ st.head = draft[t].id
      BY <1>1, <1>2 DEF Advanced, State, Piece
    <2>2. Len(file) > 0
      BY <1>1, <1>2 DEF State
    <2> HIDE DEF st
    <2> QED
      BY <1>1, <1>2, <2>1, <2>2 DEF Position
  <1> HIDE DEF st, l
  <1>5. FileOK'
    <2>1. \A id \in acked' : \E i \in 1..synced' :
            file'[i].id = id /\ file'[i].kind = "record"
      <3>1. SUFFICES ASSUME NEW id \in acked'
                     PROVE  \E i \in 1..Len(file) : file[i].id = id /\ file[i].kind = "record"
        BY <1>3
      <3>2. CASE id \in acked
        BY <1>1, <3>2 DEF FileOK
      <3>3. CASE id = draft[t].id
        <4>1. Len(file) \in 1..Len(file)
          BY <1>1, <1>2 DEF State
        <4> QED
          BY <1>2, <3>3, <4>1
      <3> QED
        BY <1>3, <3>2, <3>3
    <2> QED
      BY <1>1, <1>3, <2>1 DEF FileOK, OneChain, SealsCoverThePast
  <1>6. LogTypeOK'
    <2>1. draft[t].id \in Nat /\ synced' \in 0..Len(file)
      BY <1>1, <1>3 DEF Piece
    <2> QED
      BY <1>1, <1>3, <1>4, <2>1 DEF LInv, LogTypeOK
  <1>7. pc' \in [Thread -> {"idle", "write", "sync", "ok", "err"}]
    BY <1>3 DEF LInv
  <1>8. PositionsOK'
    <2>1. SUFFICES ASSUME NEW k \in Log, state'[k].open
                   PROVE  state'[k] \in State /\ Position(state'[k])
      BY <1>3, PositionsStay DEF Position
    <2>2. CASE k = l
      BY <1>3, <1>4, <2>2 DEF LInv, LogTypeOK
    <2>3. CASE k # l
      BY <1>3, <2>1, <2>3 DEF LInv, LogTypeOK, PositionsOK
    <2> QED
      BY <2>2, <2>3
  <1>9. ThreadsOK'
    <2>1. SUFFICES ASSUME NEW u \in Thread PROVE ThreadOK(u)'
      BY DEF ThreadsOK
    <2>2. CASE u = t
      <3>1. pc'[u] = "ok" /\ draft'[u].id \in acked'
        BY <1>3, <2>2 DEF LInv
      <3> QED
        BY <3>1 DEF ThreadOK
    <2>3. CASE u # t
      <3>1. pc'[u] = pc[u] /\ pc[u] \notin {"write", "sync"}
        BY <1>2, <1>3, <2>3 DEF LInv, ThreadsOK, ThreadOK
      <3> QED
        BY <1>3, <3>1 DEF LInv, ThreadsOK, ThreadOK
    <2> QED
      BY <2>2, <2>3
  <1> QED
    BY <1>5, <1>6, <1>7, <1>8, <1>9 DEF LInv

LEMMA SyncFailsKeeps ==
    ASSUME LInv, NEW t \in Thread, SyncFails(t) PROVE LInv'
  <1>1. /\ FileOK'
        /\ \A st \in State : Position(st) => Position(st)'
    BY FileStays DEF SyncFails, LInv
  <1>2. LogTypeOK' /\ pc' \in [Thread -> {"idle", "write", "sync", "ok", "err"}]
    BY DEF SyncFails, GotoOf, LInv, LogTypeOK
  <1>3. PositionsOK'
    BY <1>1, PositionsStay DEF SyncFails, LInv, LogTypeOK, PositionsOK
  <1>4. ThreadsOK'
    <2>1. SUFFICES ASSUME NEW u \in Thread PROVE ThreadOK(u)'
      BY DEF ThreadsOK
    <2>2. pc'[u] \notin {"write", "sync"} /\ (pc'[u] = "ok" => pc[u] = "ok")
      BY DEF SyncFails, GotoOf, LInv, ThreadsOK, ThreadOK
    <2> QED
      BY <2>2 DEF SyncFails, LInv, ThreadsOK, ThreadOK
  <1> QED
    BY <1>1, <1>2, <1>3, <1>4 DEF LInv

LEMMA ReturnKeeps ==
    ASSUME LInv, NEW t \in Thread, Return(t) PROVE LInv'
  <1>1. /\ FileOK'
        /\ \A st \in State : Position(st) => Position(st)'
        /\ \A id \in Nat \cup {None} : Past(id) => Past(id)'
    BY FileStays DEF Return, LInv
  <1>2. LogTypeOK' /\ pc' \in [Thread -> {"idle", "write", "sync", "ok", "err"}]
    BY DEF Return, GotoOf, LInv, LogTypeOK, NoDraft, Piece
  <1>3. PositionsOK'
    BY <1>1, PositionsStay DEF Return, LInv, LogTypeOK, PositionsOK
  <1>4. ThreadsOK'
    <2>1. SUFFICES ASSUME NEW u \in Thread PROVE ThreadOK(u)'
      BY DEF ThreadsOK
    <2>2. \/ pc'[u] = "idle"
          \/ pc'[u] = pc[u] /\ draft'[u] = draft[u]
      BY DEF Return, GotoOf, LInv, LogTypeOK
    <2> QED
      BY <2>2 DEF Return, LInv, ThreadsOK, ThreadOK, Past
  <1> QED
    BY <1>1, <1>2, <1>3, <1>4 DEF LInv

LEMMA ProcessDiesKeeps ==
    ASSUME LInv, NEW l \in Log, ProcessDies(l) PROVE LInv'
  <1> DEFINE dead == {t \in Thread : LogOf[t] = l}
  <1>1. /\ FileOK'
        /\ \A st \in State : Position(st) => Position(st)'
    <2>1. CASE UNCHANGED <<file, newlineLost>>
      BY <2>1, FileStays DEF ProcessDies, LInv
    <2>2. ASSUME NEW t \in Thread, LeavesCut(t)
          PROVE  /\ FileOK'
                 /\ \A st \in State : Position(st) => Position(st)'
      BY <2>2, CutFileKeeps DEF ProcessDies
    <2> QED
      BY <2>1, <2>2 DEF ProcessDies, LeavesCut
  <1>2. /\ holder' = IF holder \in dead THEN None ELSE holder
        /\ state' = [state EXCEPT ![l] = Closed]
        /\ pc' = [t \in Thread |-> IF t \in dead THEN "idle" ELSE pc[t]]
        /\ draft' = [t \in Thread |-> IF t \in dead THEN NoDraft ELSE draft[t]]
        /\ synced' = synced /\ acked' = acked /\ written' = written
        /\ faults' = faults + 1
    BY DEF ProcessDies, Forget
  <1>3. LogTypeOK'
    BY <1>1, <1>2 DEF LInv, LogTypeOK, FileOK, Closed, State, NoDraft, Piece
  <1>4. pc' \in [Thread -> {"idle", "write", "sync", "ok", "err"}]
    BY <1>2 DEF LInv
  <1>5. PositionsOK'
    <2>1. SUFFICES ASSUME NEW k \in Log, state'[k].open
                   PROVE  state'[k] \in State /\ \E st \in State :
                              st = state'[k] /\ Position(st)
      BY <1>1, PositionsStay
    <2>2. k # l
      BY <1>2, <2>1 DEF Closed, LInv, LogTypeOK
    <2> QED
      BY <1>2, <2>1, <2>2 DEF LInv, LogTypeOK, PositionsOK
  <1>6. ThreadsOK'
    <2>1. SUFFICES ASSUME NEW u \in Thread PROVE ThreadOK(u)'
      BY DEF ThreadsOK
    <2>2. CASE u \in dead
      <3>1. pc'[u] = "idle"
        BY <1>2, <2>2
      <3> QED
        BY <3>1 DEF ThreadOK
    <2>3. CASE u \notin dead
      <3>1. /\ pc'[u] = pc[u] /\ draft'[u] = draft[u]
            /\ state'[LogOf[u]] = state[LogOf[u]]
            /\ holder = u => holder' = u
        BY <1>2, <2>3, LogAssumption DEF LInv, LogTypeOK
      <3>2. pc[u] \in {"write", "sync"} => holder = u /\ UNCHANGED file
        BY <2>3 DEF ProcessDies, LInv, ThreadsOK, ThreadOK
      <3> QED
        BY <1>2, <3>1, <3>2 DEF LInv, ThreadsOK, ThreadOK, Past
    <2> QED
      BY <2>2, <2>3
  <1> QED
    BY <1>1, <1>3, <1>4, <1>5, <1>6 DEF LInv

(* What is left of the file, piece by piece. *)
Kept(n) ==
    /\ file' \in Seq(Piece) /\ Len(file') = n
    /\ \A i \in 1..n : /\ file'[i].id = file[i].id
                       /\ file'[i].seq = file[i].seq
                       /\ file'[i].prev = file[i].prev
                       /\ file'[i].seals = file[i].seals
    /\ \A i \in 1..(n - 1) : file'[i] = file[i]
    /\ \A i \in 1..synced : file'[i] = file[i]
    /\ newlineLost' \in BOOLEAN
    /\ ~newlineLost' => ~newlineLost
    /\ ~newlineLost' /\ n > 0 /\ file'[n].kind = "record" =>
           file'[n] = file[n] \/ file'[n].newline

(* A power failure keeps what was synchronized and a beginning of the rest.*)
LEMMA PowerFailsKeeps == ASSUME LInv, PowerFails PROVE LInv'
  <1>1. FileOK
    BY DEF LInv
  <1>2. PICK n \in synced..Len(file) :
           /\ synced' = n
           /\ \/ file' = SubSeq(file, 1, n) /\ UNCHANGED newlineLost
              \/ /\ n > synced
                 /\ \E r \in CutShort(file[n]) :
                      /\ file' = [SubSeq(file, 1, n) EXCEPT ![n] = r]
                      /\ newlineLost' = (newlineLost \/ LacksNewline(r))
    BY DEF PowerFails
  <1>3. /\ n \in Nat /\ synced \in Nat /\ synced <= n /\ n <= Len(file)
        /\ Len(file) \in Nat /\ \A i \in 1..Len(file) : file[i] \in Piece
    BY <1>1, <1>2 DEF FileOK
  <1>4. /\ SubSeq(file, 1, n) \in Seq(Piece)
        /\ Len(SubSeq(file, 1, n)) = n
        /\ \A i \in 1..n : SubSeq(file, 1, n)[i] = file[i]
    BY <1>1, <1>3 DEF FileOK
  <1>5. ASSUME file' = SubSeq(file, 1, n), UNCHANGED newlineLost
        PROVE  Kept(n)
    BY <1>1, <1>3, <1>4, <1>5 DEF FileOK, Kept
  <1>6. ASSUME n > synced, NEW r \in CutShort(file[n]),
               file' = [SubSeq(file, 1, n) EXCEPT ![n] = r],
               newlineLost' = (newlineLost \/ LacksNewline(r))
        PROVE  Kept(n)
    <2>1. n \in 1..Len(file) /\ n \in 1..n /\ file[n] \in Piece
      BY <1>3, <1>6
    <2>2. /\ r \in Piece /\ r.id = file[n].id /\ r.seq = file[n].seq
          /\ r.prev = file[n].prev /\ r.seals = file[n].seals
      BY <1>6, <2>1, CutKeeps
    <2>3. /\ file' \in Seq(Piece) /\ Len(file') = n
          /\ file'[n] = r
          /\ \A i \in 1..(n - 1) : file'[i] = file[i]
      <3> DEFINE kept == SubSeq(file, 1, n)
      <3>1. kept \in Seq(Piece) /\ Len(kept) = n /\ \A i \in 1..n : kept[i] = file[i]
        BY <1>4
      <3> HIDE DEF kept
      <3>2. /\ [kept EXCEPT ![n] = r] \in Seq(Piece)
            /\ Len([kept EXCEPT ![n] = r]) = n
            /\ \A i \in 1..n : [kept EXCEPT ![n] = r][i] = IF i = n THEN r ELSE kept[i]
        BY <2>1, <2>2, <3>1, ExceptSeq
      <3>3. file' = [kept EXCEPT ![n] = r]
        BY <1>6 DEF kept
      <3>4. \A i \in 1..(n - 1) : i \in 1..n /\ i # n
        BY <1>3
      <3> QED
        BY <2>1, <3>1, <3>2, <3>3, <3>4
    <2>4. /\ newlineLost' \in BOOLEAN
          /\ ~newlineLost' => ~newlineLost /\ ~LacksNewline(r)
      BY <1>1, <1>6 DEF FileOK, LacksNewline
    <2>5. \A i \in 1..n : i = n \/ i \in 1..(n - 1)
      BY <1>3
    <2>6. \A i \in 1..synced : i \in 1..(n - 1)
      BY <1>3, <1>6
    <2> QED
      BY <2>2, <2>3, <2>4, <2>5, <2>6 DEF Kept, LacksNewline
  <1>7. Kept(n)
    BY <1>2, <1>5, <1>6
  <1>8. FileOK'
    <2>1. \A i \in 1..n : i \in 1..Len(file)
      BY <1>3
    <2>2. OneChain'
      <3>1. SUFFICES ASSUME NEW i \in 2..n
                     PROVE  /\ file'[i - 1].kind = "record"
                            /\ file'[i].prev = file'[i - 1].id
                            /\ file'[i].seq = file'[i - 1].seq + 1
        BY <1>7 DEF OneChain, Kept
      <3>2. i \in 1..n /\ i - 1 \in 1..(n - 1) /\ i - 1 \in 1..n
            /\ i \in 2..Len(file)
        BY <1>3
      <3>3. /\ file[i - 1].kind = "record"
            /\ file[i].prev = file[i - 1].id
            /\ file[i].seq = file[i - 1].seq + 1
        BY <1>1, <3>2 DEF FileOK, OneChain
      <3>4. /\ file'[i - 1] = file[i - 1]
            /\ file'[i].prev = file[i].prev
            /\ file'[i].seq = file[i].seq
        BY <1>7, <3>2 DEF Kept
      <3> QED
        BY <3>3, <3>4
    <2>3. n > 0 => file'[1].prev = 0
      BY <1>1, <1>3, <1>7 DEF FileOK, Kept
    <2>4. ASSUME ~newlineLost', NEW i \in 1..n, file'[i].kind = "record"
          PROVE  file'[i].newline
      <3>1. i \in 1..(n - 1) \/ (i = n /\ n > 0)
        BY <1>3
      <3> QED
        BY <1>1, <1>7, <2>1, <2>4, <3>1 DEF FileOK, Kept
    <2>5. \A id \in acked' : \E i \in 1..n :
              file'[i].id = id /\ file'[i].kind = "record"
      <3>1. SUFFICES ASSUME NEW id \in acked
                     PROVE  \E i \in 1..n : file'[i].id = id /\ file'[i].kind = "record"
        BY DEF PowerFails
      <3>2. PICK i \in 1..synced : file[i].id = id /\ file[i].kind = "record"
        BY <1>1 DEF FileOK
      <3>3. i \in 1..n /\ file'[i] = file[i]
        BY <1>3, <1>7 DEF Kept
      <3> QED
        BY <3>2, <3>3
    <2>6. SealsCoverThePast'
      <3>1. SUFFICES ASSUME NEW i \in 1..n, file'[i].seals \notin {None, 0}
                     PROVE  \E j \in 1..(i - 1) : file'[j].id = file'[i].seals
        BY <1>7 DEF SealsCoverThePast, Kept
      <3>2. PICK j \in 1..(i - 1) : file[j].id = file[i].seals
        BY <1>1, <1>7, <2>1, <3>1 DEF FileOK, SealsCoverThePast, Kept
      <3>3. j \in 1..n
        BY <1>3
      <3> QED
        BY <1>7, <3>2, <3>3 DEF Kept
    <2>7. n \in 0..n
      BY <1>3
    <2> QED
      BY <1>2, <1>7, <2>2, <2>3, <2>4, <2>5, <2>6, <2>7 DEF FileOK, Kept
  <1>9. /\ state' = [l \in Log |-> Closed] /\ holder' = None
        /\ pc' = [t \in Thread |-> IF t \in Thread THEN "idle" ELSE pc[t]]
        /\ draft' = [t \in Thread |-> IF t \in Thread THEN NoDraft ELSE draft[t]]
        /\ acked' = acked /\ written' = written /\ faults' = faults + 1
    BY DEF PowerFails, Forget
  <1>10. LogTypeOK'
    BY <1>8, <1>9 DEF LInv, LogTypeOK, FileOK, Closed, State, NoDraft, Piece
  <1>11. pc' \in [Thread -> {"idle", "write", "sync", "ok", "err"}]
    BY <1>9
  <1>12. PositionsOK'
    BY <1>9 DEF PositionsOK, Closed
  <1>13. ThreadsOK'
    BY <1>9 DEF ThreadsOK, ThreadOK
  <1> QED
    BY <1>8, <1>10, <1>11, <1>12, <1>13 DEF LInv

-----------------------------------------------------------------------------
(* The sealer. *)

LEMMA ReadHeadKeeps == ASSUME IInv, ReadHead PROVE IInv'
  <1> DEFINE l == LogOf[Sealer]
             st == CaughtUp(state[l])
  <1>1. /\ l \in Log /\ state[l] \in State /\ Position(state[l])
        /\ state[l].open /\ FileOK /\ LInv
    BY LogAssumption, SealerAssumption
       DEF ReadHead, IInv, LInv, LogTypeOK, PositionsOK
  <1>2. FileOK' /\ \A s \in State : Position(s) => Position(s)'
    BY <1>1, FileStays DEF ReadHead
  <1>3. /\ file' = file /\ synced' = synced /\ acked' = acked
        /\ newlineLost' = newlineLost /\ faults' = faults
        /\ written' = written /\ draft' = draft /\ holder' = holder
        /\ pc' = pc
    BY DEF ReadHead
  <1>4. \A u \in Thread : pc[u] \notin {"write", "sync"}
    BY <1>1, FreeLock DEF ReadHead
  <1>5. CASE ScanOk(state[l])
    <2>1. st \in State /\ st.offset = Len(file) /\ Position(st) /\ st.open
      BY <1>1, <1>5, CaughtUpIsAtTheEnd
    <2>2. /\ state' = [state EXCEPT ![l] = st]
          /\ sealedHead' = st.head /\ stage' = "seal" /\ failures' = failures
      BY <1>5 DEF ReadHead
    <2> HIDE DEF st, l
    <2>3. LogTypeOK' /\ pc' \in [Thread -> {"idle", "write", "sync", "ok", "err"}]
      BY <1>1, <1>3, <2>1, <2>2 DEF LInv, LogTypeOK
    <2>4. PositionsOK'
      <3>1. SUFFICES ASSUME NEW k \in Log, state'[k].open
                     PROVE  state'[k] \in State /\ Position(state'[k])
        BY <1>2, PositionsStay
      <3>2. CASE k = l
        BY <1>1, <2>1, <2>2, <3>2 DEF LInv, LogTypeOK
      <3>3. CASE k # l
        BY <1>1, <2>2, <3>1, <3>3 DEF LInv, LogTypeOK, PositionsOK
      <3> QED
        BY <3>2, <3>3
    <2>5. ThreadsOK'
      BY <1>1, <1>3, <1>4 DEF LInv, ThreadsOK, ThreadOK
    <2>6. SInv'
      <3>1. st.head \in Nat
        BY <2>1 DEF State
      <3>2. Past(st.head)
        <4>1. Len(file) \in Nat
          BY <1>1 DEF FileOK
        <4>2. CASE Len(file) = 0
          BY <2>1, <4>2 DEF Position, Past
        <4>3. CASE Len(file) > 0
          <5>1. Len(file) \in 1..Len(file)
            BY <4>1, <4>3
          <5> QED
            BY <2>1, <4>3, <5>1 DEF Position, Past
        <4> QED
          BY <4>1, <4>2, <4>3
      <3> QED
        BY <1>3, <2>2, <3>1, <3>2 DEF IInv, SInv, Stage, Past
    <2> QED
      BY <1>2, <2>3, <2>4, <2>5, <2>6 DEF IInv, LInv
  <1>6. CASE ~ScanOk(state[l])
    <2>1. /\ state' = state /\ sealedHead' = None /\ stage' = "copy"
          /\ Failed({"seal", "cross_seal"})
      BY <1>6 DEF ReadHead
    <2>2. LInv'
      BY <1>1, <1>2, <1>3, <1>4, <2>1
         DEF LInv, LogTypeOK, PositionsOK, Position, ThreadsOK, ThreadOK
    <2>3. SInv'
      BY <2>1, SealerAssumption DEF IInv, SInv, Failed, Stage, Past
    <2> QED
      BY <2>2, <2>3 DEF IInv
  <1> QED
    BY <1>5, <1>6

(* No step but a power failure takes a record out of the file.             *)
LEMMA PastStays ==
    ASSUME LInv, NEW id \in Nat \cup {None}, Past(id),
           \/ UNCHANGED file
           \/ \E t \in Thread : WriteLine(t) \/ WriteFails(t)
           \/ \E l \in Log : ProcessDies(l)
    PROVE  Past(id)'
  <1>1. CASE UNCHANGED file
    BY <1>1 DEF Past
  <1>2. ASSUME NEW t \in Thread, WriteLine(t) PROVE Past(id)'
    <2>1. /\ draft[t] \in Piece /\ Chained(draft[t]) /\ FileOK
          /\ newlineLost' = (newlineLost \/ LacksNewline(draft[t]))
      BY <1>2, DraftIsChained DEF WriteLine, LacksNewline, LInv, FileOK
    <2> QED
      BY <1>2, <2>1, AppendKeeps DEF WriteLine
  <1>3. ASSUME NEW t \in Thread, WriteFails(t) PROVE Past(id)'
    BY <1>3, CutFileKeeps DEF WriteFails, LeavesCut
  <1>4. ASSUME NEW l \in Log, ProcessDies(l) PROVE Past(id)'
    <2>1. CASE UNCHANGED file
      BY <2>1 DEF Past
    <2>2. ASSUME NEW t \in Thread, LeavesCut(t) PROVE Past(id)'
      BY <1>4, <2>2, CutFileKeeps DEF ProcessDies
    <2> QED
      BY <1>4, <2>1, <2>2 DEF ProcessDies, LeavesCut
  <1> QED
    BY <1>1, <1>2, <1>3, <1>4

LEMMA FailedIsTyped ==
    ASSUME failures \in [Stage -> 0..MaxFailures], NEW gs, Failed(gs)
    PROVE  failures' \in [Stage -> 0..MaxFailures]
  BY SealerAssumption DEF Failed

LEMMA AppendingKeeps ==
    ASSUME IInv, NEW t \in Thread, Appending(t), UNCHANGED sealVars
    PROVE  IInv'
  <1>1. LInv'
    BY WriteLineKeeps, WriteFailsKeeps, SyncKeeps, SyncFailsKeeps
       DEF Appending, IInv
  <1>2. \/ UNCHANGED file
        \/ \E u \in Thread : WriteLine(u) \/ WriteFails(u)
    BY DEF Appending, Sync, SyncFails
  <1>3. Past(sealedHead)'
    <2>1. \A id \in Nat \cup {None} : Past(id) => Past(id)'
      BY <1>2, PastStays DEF IInv
    <2> QED
      BY <2>1 DEF IInv, SInv, sealVars, Past
  <1> QED
    BY <1>1, <1>3 DEF IInv, SInv, sealVars

LEMMA StopsKeeps == ASSUME IInv, Stops PROVE IInv'
  <1>1. LInv'
    BY ProcessDiesKeeps, PowerFailsKeeps DEF Stops, Crash, IInv
  <1>2. CASE state'[LogOf[Sealer]].open /\ UNCHANGED sealVars
    <2>1. ~PowerFails
      BY <1>2, LogAssumption, SealerAssumption DEF PowerFails, Closed
    <2>2. \A id \in Nat \cup {None} : Past(id) => Past(id)'
      BY <2>1, PastStays DEF Stops, Crash, IInv
    <2> QED
      BY <1>1, <1>2, <2>2 DEF IInv, SInv, sealVars, Past
  <1>3. CASE stage' = "asleep" /\ sealedHead' = None
             /\ failures' = [g \in Stage |-> 0]
    BY <1>1, <1>3, SealerAssumption DEF IInv, SInv, Past
  <1> QED
    BY <1>2, <1>3 DEF Stops

LEMMA StageEndsKeeps == ASSUME IInv, StageEnds PROVE IInv'
  <1>1. LInv' /\ UNCHANGED <<file, sealedHead>>
    BY ReturnKeeps, SealerAssumption DEF StageEnds, IInv, Return
  <1>2. stage' \in Stage \cup {"asleep"}
    BY DEF StageEnds, NextStage, Stage
  <1>3. failures' \in [Stage -> 0..MaxFailures]
    BY FailedIsTyped, SealerAssumption DEF StageEnds, Succeeded, IInv, SInv
  <1> QED
    BY <1>1, <1>2, <1>3 DEF IInv, SInv, Past

LEMMA NoAnswerKeeps == ASSUME IInv, NoAnswer PROVE IInv'
  <1>1. LInv'
    <2> USE DEF NoAnswer, logVars
    <2>1. FileOK' /\ \A st \in State : Position(st) => Position(st)'
      BY FileStays DEF IInv, LInv
    <2> QED
      BY <2>1 DEF IInv, LInv, LogTypeOK, PositionsOK, Position, ThreadsOK,
                  ThreadOK, Past
  <1>2. stage' \in Stage \cup {"asleep"}
    BY DEF NoAnswer, NextStage, Stage
  <1>3. failures' \in [Stage -> 0..MaxFailures]
    BY FailedIsTyped DEF NoAnswer, IInv, SInv
  <1> QED
    BY <1>1, <1>2, <1>3 DEF NoAnswer, logVars, IInv, SInv, Past

(* A step of another thread, or an append of the sealer.                   *)
LEMMA BeginStepKeeps ==
    ASSUME IInv, NEW t \in Thread, pc[t] = "idle",
           NEW seals \in {None, sealedHead}, Begin(t, seals), UNCHANGED sealVars
    PROVE  IInv'
  <1>1. seals \in Nat \cup {None} /\ Past(seals)
    BY DEF IInv, SInv, Past
  <1>2. LInv' /\ UNCHANGED file
    BY <1>1, BeginKeeps DEF IInv, Begin
  <1> QED
    BY <1>2 DEF IInv, SInv, sealVars, Past

LEMMA InitInvariant == ASSUME Init PROVE IInv
  <1>1. file \in Seq(Piece) /\ Len(file) = 0
    BY DEF Init, LogInit
  <1>2. 1..Len(file) = {} /\ 2..Len(file) = {} /\ 0 \in 0..Len(file) /\ ~(Len(file) > 0)
    BY <1>1
  <1>3. /\ synced = 0 /\ holder = None /\ state = [l \in Log |-> Closed]
        /\ pc = [t \in Thread |-> "idle"] /\ draft = [t \in Thread |-> NoDraft]
        /\ acked = {} /\ written = 0 /\ newlineLost = FALSE /\ faults = 0
        /\ stage = "asleep" /\ sealedHead = None
        /\ failures = [g \in Stage |-> 0]
    BY DEF Init, LogInit
  <1>4. LogTypeOK
    <2>1. Closed \in State /\ NoDraft \in Piece
      BY DEF Closed, State, NoDraft, Piece
    <2> QED
      BY <1>1, <1>2, <1>3, <2>1 DEF LogTypeOK
  <1>5. FileOK
    BY <1>1, <1>2, <1>3 DEF FileOK, OneChain, SealsCoverThePast
  <1>6. PositionsOK /\ ThreadsOK
    BY <1>3 DEF PositionsOK, ThreadsOK, ThreadOK, Closed
  <1>7. SInv
    BY <1>3, SealerAssumption DEF SInv, Past
  <1>8. pc \in [Thread -> {"idle", "write", "sync", "ok", "err"}]
    BY <1>3
  <1> QED
    BY <1>4, <1>5, <1>6, <1>7, <1>8 DEF IInv, LInv

LEMMA StepInvariant == ASSUME IInv, [Next]_vars PROVE IInv'
  <1>1. ASSUME NEW l \in Log, Open(l), UNCHANGED sealVars PROVE IInv'
    BY <1>1, OpenKeeps DEF IInv, SInv, sealVars, Past, Open
  <1>2. ASSUME NEW t \in Thread \ {Sealer}, Other(t) PROVE IInv'
    <2>1. CASE pc[t] = "idle" /\ Begin(t, None)
      BY <1>2, <2>1, BeginStepKeeps DEF Other
    <2>2. CASE Appending(t)
      BY <1>2, <2>2, AppendingKeeps DEF Other
    <2>3. CASE Return(t)
      BY <1>2, <2>3, ReturnKeeps DEF Other, IInv, SInv, sealVars, Past, Return
    <2> QED
      BY <1>2, <2>1, <2>2, <2>3 DEF Other
  <1>3. CASE ReadHead
    BY <1>3, ReadHeadKeeps
  <1>4. CASE Answered
    BY <1>4, BeginStepKeeps, SealerAssumption DEF Answered
  <1>5. CASE Appending(Sealer) /\ UNCHANGED sealVars
    BY <1>5, AppendingKeeps, SealerAssumption
  <1>6. CASE StageEnds
    BY <1>6, StageEndsKeeps
  <1>7. CASE NoAnswer
    BY <1>7, NoAnswerKeeps
  <1>8. CASE Stops
    BY <1>8, StopsKeeps
  <1>9. CASE UNCHANGED vars
    <2> USE <1>9 DEF vars, logVars, sealVars
    <2>1. FileOK' /\ \A st \in State : Position(st) => Position(st)'
      BY FileStays DEF IInv, LInv
    <2> QED
      BY <2>1 DEF IInv, LInv, LogTypeOK, PositionsOK, Position, ThreadsOK,
                  ThreadOK, SInv, Past
  <1> QED
    BY <1>1, <1>2, <1>3, <1>4, <1>5, <1>6, <1>7, <1>8, <1>9 DEF Next, SealerStep

LEMMA Invariance == Spec => []IInv
  BY InitInvariant, StepInvariant, PTL DEF Spec

-----------------------------------------------------------------------------
(* Theorems. *)

(* Log and Sealer: every variable keeps its type; the counters of failures *)
(* stay within their limit.                                                *)
THEOREM JournalTypeCorrect == Spec => []TypeOK
  <1>1. IInv => TypeOK
    BY DEF IInv, LInv, SInv, TypeOK
  <1> QED
    BY <1>1, Invariance, PTL

(* Log::append under the lock: whoever writes, whatever fails and whoever  *)
(* dies, the file is one chain and nothing follows a torn line.            *)
THEOREM ChainIsUnbroken == Spec => []OneChain
  <1>1. IInv => OneChain
    BY DEF IInv, LInv, FileOK
  <1> QED
    BY <1>1, Invariance, PTL

(* While no newline is lost, a record is on a line of its own and every    *)
(* piece before a record is a record: scan_chain reads up to it.           *)
LEMMA RecordsAreReadable ==
    ASSUME FileOK, ~newlineLost, NEW i \in 1..Len(file), file[i].kind = "record"
    PROVE  \A j \in 1..i : Readable(0, j)
  <1>1. Len(file) \in Nat
    BY DEF FileOK
  <1>2. SUFFICES ASSUME NEW j \in 1..i PROVE Readable(0, j)
    OBVIOUS
  <1>3. \A k \in 1..i : file[k].kind = "record"
    <2>1. SUFFICES ASSUME NEW k \in 1..i, k # i PROVE file[k].kind = "record"
      OBVIOUS
    <2>2. k + 1 \in 2..Len(file) /\ (k + 1) - 1 = k
      BY <1>1, <2>1
    <2> QED
      BY <2>2 DEF FileOK, OneChain
  <1>4. \A k \in 1..i : k \in 1..Len(file)
    BY <1>1
  <1>5. \A k \in 1..i : file[k].newline
    BY <1>3, <1>4 DEF FileOK
  <1>6. j > 1 => j - 1 \in 1..i
    BY <1>1
  <1> QED
    BY <1>3, <1>5, <1>6 DEF Readable

(* Log::append returns Ok after sync_all: that record stays on the disk,   *)
(* and a reader of the journal reaches it.                                 *)
THEOREM NothingAcknowledgedIsLost == Spec => []AcknowledgedIsKept
  <1>1. IInv => AcknowledgedIsKept
    <2>1. SUFFICES ASSUME IInv, ~newlineLost, NEW id \in acked
                   PROVE  \E i \in 1..synced :
                              file[i].id = id /\ \A j \in 1..i : Readable(0, j)
      BY DEF AcknowledgedIsKept
    <2>2. FileOK
      BY <2>1 DEF IInv, LInv
    <2>3. PICK i \in 1..synced : file[i].id = id /\ file[i].kind = "record"
      BY <2>2 DEF FileOK
    <2>4. i \in 1..Len(file)
      BY <2>2 DEF FileOK
    <2> QED
      BY <2>1, <2>2, <2>3, <2>4, RecordsAreReadable
  <1> QED
    BY <1>1, Invariance, PTL

(* Sealer::seal, cross_seal: the head that was stamped is a record that    *)
(* precedes the seal in the file, whatever was written while the network   *)
(* was asked.                                                              *)
THEOREM SealsSealThePast == Spec => []SealsCoverThePast
  <1>1. IInv => SealsCoverThePast
    BY DEF IInv, LInv, FileOK
  <1> QED
    BY <1>1, Invariance, PTL

(* Log::append returns Ok only on a journal that verify accepts.           *)
THEOREM AcknowledgementsAreOnAWholeJournal == Spec => AcknowledgedOnAWholeJournal
  <1>1. ASSUME IInv, [Next]_vars, acked' # acked, ~newlineLost' PROVE Verifies'
    <2>1. PICK t \in Thread : Sync(t)
      BY <1>1, SealerAssumption
         DEF Next, vars, logVars, Other, Begin, Appending, WriteLine, WriteFails,
             SyncFails, Return, Open, ReadHead, Answered, StageEnds, NoAnswer,
             SealerStep, Stops, Crash, ProcessDies, PowerFails
    <2>2. /\ file' = file /\ newlineLost' = newlineLost
          /\ FileOK /\ Len(file) \in Nat /\ ThreadOK(t) /\ pc[t] = "sync"
      BY <1>1, <2>1 DEF Sync, IInv, LInv, ThreadsOK, FileOK
    <2>3. state[LogOf[t]] \in State
      BY <1>1, LogAssumption DEF IInv, LInv, LogTypeOK
    <2>4. Len(file) \in 1..Len(file) /\ file[Len(file)].kind = "record"
      BY <2>2, <2>3 DEF ThreadOK, State
    <2>5. \A i \in 1..Len(file) : Readable(0, i)
      BY <1>1, <2>2, <2>4, RecordsAreReadable
    <2>6. \A i \in 1..Len(file) : Follows(Closed, i)
      BY <2>2 DEF FileOK, OneChain, Follows, Closed
    <2>7. Verifies
      BY <2>5, <2>6 DEF Verifies, ScanOk, Closed
    <2> QED
      BY <2>2, <2>7 DEF Verifies, ScanOk, Readable, Follows
  <1>2. IInv /\ [Next]_vars => [acked' # acked /\ ~newlineLost' => Verifies']_logVars
    BY <1>1
  <1> QED
    BY <1>2, Invariance, PTL DEF Spec, AcknowledgedOnAWholeJournal

(* Sealer::once: a count of failures goes back to zero only behind a       *)
(* record the sealer appended, or with its process.                        *)
THEOREM SuccessIsARecord == Spec => OnlyRecordsClearFailures
  <1>1. ASSUME IInv, [Next]_vars, NEW g \in Stage, failures'[g] < failures[g]
        PROVE  draft[Sealer].id \in acked \/ ~state'[LogOf[Sealer]].open
    <2>1. failures \in [Stage -> 0..MaxFailures] /\ MaxFailures \in Nat
      BY <1>1, SealerAssumption DEF IInv, SInv
    <2>2. ASSUME NEW gs, Failed(gs) PROVE FALSE
      BY <1>1, <2>1, <2>2 DEF Failed
    <2>3. ASSUME UNCHANGED failures PROVE FALSE
      BY <1>1, <2>1, <2>3
    <2>4. CASE StageEnds
      <3>1. pc[Sealer] = "ok"
        BY <2>2, <2>4 DEF StageEnds
      <3> QED
        BY <1>1, <3>1, SealerAssumption DEF IInv, LInv, ThreadsOK, ThreadOK
    <2>5. CASE Stops
      BY <2>3, <2>5 DEF Stops, sealVars
    <2> QED
      BY <1>1, <2>2, <2>3, <2>4, <2>5
         DEF Next, vars, sealVars, Other, ReadHead, Answered, NoAnswer, SealerStep
  <1>2. IInv /\ [Next]_vars =>
            [\A g \in Stage : failures'[g] < failures[g] =>
                \/ draft[Sealer].id \in acked
                \/ ~state'[LogOf[Sealer]].open]_vars
    BY <1>1
  <1> QED
    BY <1>2, Invariance, PTL DEF Spec, OnlyRecordsClearFailures
=============================================================================
