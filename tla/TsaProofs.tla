----------------------------- MODULE TsaProofs ------------------------------
(***************************************************************************)
(* Proofs about Tsa, for any servers, liars, clocks, handlers and bounds.  *)
(* Every step of Next is a step of the clock and its monitor (TimeStep)    *)
(* and a step of the keys and files (KeyStep), one of the two at rest most *)
(* of the time; each invariant is shown for these steps once, then carried *)
(* over to Next.                                                           *)
(***************************************************************************)
EXTENDS Tsa, FiniteSetTheorems, SequenceTheorems, TLAPS

TimeStep ==
    \/ BeginPoll \/ QueryNext \/ Evaluate
    \/ \E recorded \in BOOLEAN : Publish(recorded)
    \/ StartMonitor \/ StopMonitor \/ Tick \/ ClockMoves
    \/ UNCHANGED timeVars

Killed == enroll' = Idle /\ UNCHANGED <<keys, issued, certFile, chainFile, retire, used>>

KeyStep ==
    \/ EnrollBegin \/ EnrollGenerate \/ EnrollRequest \/ EnrollAsksAgain
    \/ EnrollTruncate \/ EnrollWrite
    \/ EnrollTruncateChain \/ EnrollWriteChain
    \/ \E g \in Generation : RetireDecide(g)
    \/ RetireDestroy \/ RetireGivesUp
    \/ Killed
    \/ UNCHANGED keyVars

LEMMA NextIsTimeStep == [Next]_vars => TimeStep
<1> SUFFICES ASSUME [Next]_vars PROVE TimeStep
  OBVIOUS
<1>1. CASE MonitorStep  BY <1>1 DEF MonitorStep, Poll, TimeStep
<1>2. CASE World        BY <1>2 DEF World, TimeStep
<1>3. CASE Commands     BY <1>3 DEF Commands, TimeStep
<1>4. CASE Enrolled \/ Serve \/ ReloadRead \/ ReloadNothing \/ ReloadAdopt
  BY <1>4 DEF Enrolled, Serve, ReloadRead, ReloadNothing, ReloadAdopt, TimeStep
<1>5. CASE Boot         BY <1>5 DEF Boot, TimeStep
<1>6. CASE CannotServe \/ Crash
  BY <1>6 DEF CannotServe, Crash, Down, TimeStep
<1>7. CASE \E h \in Handler : Stamp(h)
  BY <1>7 DEF Stamp, Take, Trace, ReadClock, Sign, Fails, Refuse, TimeStep
<1>8. CASE UNCHANGED vars
  BY <1>8 DEF vars, timeVars, TimeStep
<1> QED  BY <1>1, <1>2, <1>3, <1>4, <1>5, <1>6, <1>7, <1>8 DEF Next

LEMMA NextIsKeyStep == [Next]_vars => KeyStep
<1> SUFFICES ASSUME [Next]_vars PROVE KeyStep
  OBVIOUS
<1>1. CASE MonitorStep  BY <1>1 DEF MonitorStep, KeyStep
<1>2. CASE World        BY <1>2 DEF World, KeyStep
<1>3. CASE Commands
  BY <1>3 DEF Commands, Enroll, EnrollDies, Retire, Killed, KeyStep
<1>4. CASE Enrolled \/ Boot \/ Serve \/ CannotServe \/ ReloadRead
           \/ ReloadNothing \/ ReloadAdopt
  BY <1>4 DEF Enrolled, Boot, Serve, CannotServe, ReloadRead, ReloadNothing,
              ReloadAdopt, KeyStep
<1>5. CASE Crash        BY <1>5 DEF Crash, Killed, KeyStep
<1>6. CASE \E h \in Handler : Stamp(h)
  BY <1>6 DEF Stamp, Take, Trace, ReadClock, Sign, Fails, Refuse, KeyStep
<1>7. CASE UNCHANGED vars
  BY <1>7 DEF vars, keyVars, KeyStep
<1> QED  BY <1>1, <1>2, <1>3, <1>4, <1>5, <1>6, <1>7 DEF Next

----------------------------------------------------------------------------
(* Types of the clock and its monitor.                                     *)

LEMMA TimeTyped == Init => TimeTypeOK
<1> SUFFICES ASSUME Init PROVE TimeTypeOK
  OBVIOUS
<1>1. samples \in Seq(Sample) /\ Len(samples) = 0
  BY DEF Init, TimeInit
<1> QED
  BY <1>1, TimeAssumption DEF Init, TimeInit, TimeTypeOK, Slot, NoStatus, Status

LEMMA TimeStaysTyped == TimeTypeOK /\ TimeStep => TimeTypeOK'
<1> SUFFICES ASSUME TimeTypeOK, TimeStep PROVE TimeTypeOK'
  OBVIOUS
<1> USE TimeAssumption
<1> USE DEF TimeTypeOK
<1>0. NoStatus \in Status
  BY DEF NoStatus, Status
<1>1. CASE BeginPoll
  BY <1>1 DEF BeginPoll
<1>2. CASE QueryNext
  <2> DEFINE S == Query(Len(samples) + 1) \cup {Failed(slot)}
  <2>0. skew \in Skew /\ slot \in Slot
    OBVIOUS
  <2>1. S \subseteq Sample
    <3>1. Failed(slot) \in Sample
      BY <2>0 DEF Failed, Sample
    <3>2. CASE Len(samples) + 1 \in Liar
      BY <2>0, <3>1, <3>2 DEF Query, Sample
    <3>3. CASE Len(samples) + 1 \notin Liar
      BY <2>0, <3>1, <3>3 DEF Query, Sample
    <3> QED  BY <3>2, <3>3
  <2>2. PICK s \in S : samples' = Append(samples, s)
    BY <1>2 DEF QueryNext
  <2>3. samples' \in Seq(Sample) /\ Len(samples') = Len(samples) + 1
    BY <2>1, <2>2
  <2>4. Len(samples') <= Servers
    BY <1>2, <2>3 DEF QueryNext, Position
  <2> HIDE DEF S
  <2> QED  BY <1>2, <2>3, <2>4 DEF QueryNext
<1>3. CASE Evaluate
  <2>1. PICK t \in Slot \cup {None} : draft' = Evaluated(samples, t, slot)
    BY <1>3 DEF Evaluate
  <2>2. draft' \in Status
    BY <2>1 DEF Evaluated, Status, Traceable, Announced
  <2> QED  BY <1>3, <2>2 DEF Evaluate
<1>4. ASSUME NEW recorded \in BOOLEAN, Publish(recorded) PROVE TimeTypeOK'
  <2>1. status' \in Status
    BY <1>4 DEF Publish, Status
  <2> QED  BY <1>0, <1>4, <2>1 DEF Publish
<1>5. CASE StartMonitor \/ StopMonitor
  <2>0. samples' = <<>>
    BY <1>5 DEF StartMonitor, StopMonitor
  <2>1. samples' \in Seq(Sample) /\ Len(samples') = 0
    BY <2>0, EmptySeq
  <2>2. slot' \in Slot /\ lastPoll' \in Slot
    BY <1>5 DEF StartMonitor, StopMonitor, Slot
  <2>3. Len(samples') <= Servers
    BY <2>1
  <2> QED  BY <1>0, <1>5, <2>1, <2>2, <2>3 DEF StartMonitor, StopMonitor
<1>6. CASE Tick
  BY <1>6 DEF Tick, ClockIs, Slot
<1>7. CASE ClockMoves
  BY <1>7 DEF ClockMoves, ClockIs
<1>8. CASE UNCHANGED timeVars
  BY <1>8 DEF timeVars
<1> QED  BY <1>1, <1>2, <1>3, <1>4, <1>5, <1>6, <1>7, <1>8 DEF TimeStep

----------------------------------------------------------------------------
(* The error of the clock.  An answer that a server other than a liar gave *)
(* during an error that still lasts shows it, and a quorum holds such an   *)
(* answer, so that the status drawn from it is without trace.              *)

ErrorLasts == noticed # "no" => ~InBounds(skew)
AnswersShowIt ==
    noticed # "no" =>
        \A i \in Reached(samples) \ Liar : ~InBounds(samples[i].offset)
DraftShowsIt == noticed # "no" /\ monitor = "recording" => ~draft.traceable
StatusShowsIt == noticed = "yes" => ~status.traceable

ErrorInv ==
    /\ TimeTypeOK
    /\ FewLiars =>
         ErrorLasts /\ AnswersShowIt /\ DraftShowsIt /\ StatusShowsIt

LEMMA QuorumHasAnHonest ==
  ASSUME FewLiars, NEW ss, NEW t, NEW now, Traceable(ss, t, now)
  PROVE  \E i \in Reached(ss) : i \notin Liar
<1> SUFFICES ASSUME Reached(ss) \subseteq Liar PROVE FALSE
  OBVIOUS
<1>1. IsFiniteSet(1 .. Servers)
  BY FS_Interval, TimeAssumption
<1>2. IsFiniteSet(Liar) /\ Cardinality(Liar) \in Nat
  BY <1>1, FS_Subset, FS_CardinalityType, TimeAssumption
<1>3. Cardinality(Reached(ss)) \in Nat /\ Cardinality(Reached(ss)) <= Cardinality(Liar)
  BY <1>2, FS_Subset, FS_CardinalityType
<1> QED  BY <1>2, <1>3, TimeAssumption DEF FewLiars, Traceable

LEMMA ReachedOfNone == Reached(<<>>) = {}
  BY DEF Reached

LEMMA ReachedOfAppend ==
  ASSUME NEW ss \in Seq(Sample), NEW s \in Sample, NEW i \in Reached(Append(ss, s))
  PROVE  \/ i \in Reached(ss) /\ Append(ss, s)[i] = ss[i]
         \/ i = Len(ss) + 1 /\ s.ok /\ Append(ss, s)[i] = s
  BY DEF Reached

LEMMA QueryGives ==
  ASSUME TimeTypeOK, QueryNext
  PROVE  \E s \in Sample :
            /\ samples' = Append(samples, s)
            /\ s.at = slot
            /\ s.ok /\ Len(samples) + 1 \notin Liar =>
                 s.offset = skew /\ (s.leap <=> DayOf[slot] = LeapDay)
<1> DEFINE i == Len(samples) + 1
<1>0. skew \in Skew /\ slot \in Slot
  BY DEF TimeTypeOK
<1>1. PICK s \in Query(i) \cup {Failed(slot)} : samples' = Append(samples, s)
  BY DEF QueryNext
<1>2. CASE s = Failed(slot)
  <2>1. s \in Sample
    BY <1>0, <1>2 DEF Failed, Sample
  <2>2. s.at = slot /\ s.ok = FALSE
    BY <1>2 DEF Failed
  <2> QED  BY <1>1, <2>1, <2>2
<1>3. CASE s \in Query(i) /\ i \in Liar
  <2>1. s \in Sample /\ s.at = slot
    BY <1>0, <1>3 DEF Query, Sample
  <2> QED  BY <1>1, <1>3, <2>1
<1>4. CASE s \in Query(i) /\ i \notin Liar
  <2>1. s = [ok |-> TRUE, offset |-> skew, leap |-> DayOf[slot] = LeapDay, at |-> slot]
    BY <1>4 DEF Query
  <2>2. s \in Sample
    BY <1>0, <2>1 DEF Sample
  <2> QED  BY <1>1, <2>1, <2>2
<1> QED  BY <1>1, <1>2, <1>3, <1>4

LEMMA ErrorInit == Init => ErrorInv
<1> SUFFICES ASSUME Init PROVE ErrorInv
  OBVIOUS
<1> QED
  BY TimeTyped DEF Init, TimeInit, ErrorInv, ErrorLasts, AnswersShowIt, DraftShowsIt,
     StatusShowsIt

LEMMA ErrorStep == ErrorInv /\ TimeStep => ErrorInv'
<1> SUFFICES ASSUME ErrorInv, TimeStep, FewLiars
             PROVE  ErrorLasts' /\ AnswersShowIt' /\ DraftShowsIt' /\ StatusShowsIt'
  BY TimeStaysTyped DEF ErrorInv, FewLiars
<1> USE DEF ErrorLasts, AnswersShowIt, DraftShowsIt, StatusShowsIt
<1>0. TimeTypeOK /\ ErrorLasts /\ AnswersShowIt /\ DraftShowsIt /\ StatusShowsIt
  BY DEF ErrorInv
<1>1. CASE BeginPoll
  <2>1. AnswersShowIt'
    BY <1>1, ReachedOfNone DEF BeginPoll
  <2> QED  BY <1>0, <1>1, <2>1 DEF BeginPoll
<1>2. CASE QueryNext
  <2>0. UNCHANGED <<slot, skew, monitor, lastPoll, draft, status, noticed>>
    BY <1>2 DEF QueryNext
  <2>1. PICK s \in Sample :
           /\ samples' = Append(samples, s)
           /\ s.ok /\ Len(samples) + 1 \notin Liar => s.offset = skew
    BY <1>0, <1>2, QueryGives
  <2>2. ASSUME noticed' # "no", NEW i \in Reached(samples') \ Liar
        PROVE  ~InBounds(samples'[i].offset)
    <3>0. samples \in Seq(Sample) /\ i \in Reached(Append(samples, s))
      BY <1>0, <2>1, <2>2 DEF TimeTypeOK
    <3>1. CASE i \in Reached(samples) /\ samples'[i] = samples[i]
      BY <1>0, <2>0, <2>2, <3>1
    <3>2. CASE i = Len(samples) + 1 /\ s.ok /\ samples'[i] = s
      BY <1>0, <2>0, <2>1, <2>2, <3>2
    <3> QED  BY <2>1, <3>0, <3>1, <3>2, ReachedOfAppend
  <2>3. AnswersShowIt'
    BY <2>2
  <2> QED  BY <1>0, <2>0, <2>3
<1>3. CASE Evaluate
  <2>0. UNCHANGED <<slot, skew, status, noticed>> /\ samples' = <<>>
    BY <1>3 DEF Evaluate
  <2>1. PICK t \in Slot \cup {None} : draft' = Evaluated(samples, t, slot)
    BY <1>3 DEF Evaluate
  <2>2. ASSUME noticed # "no", Traceable(samples, t, slot) PROVE FALSE
    <3>1. PICK i \in Reached(samples) : i \notin Liar
      BY <2>2, QuorumHasAnHonest
    <3> QED  BY <1>0, <2>2, <3>1 DEF Traceable
  <2>3. DraftShowsIt'
    BY <2>0, <2>1, <2>2 DEF Evaluated
  <2>4. AnswersShowIt'
    BY <2>0, ReachedOfNone
  <2> QED  BY <1>0, <2>0, <2>3, <2>4
<1>4. ASSUME NEW recorded \in BOOLEAN, Publish(recorded)
      PROVE  ErrorLasts' /\ AnswersShowIt' /\ DraftShowsIt' /\ StatusShowsIt'
  <2>1. status'.traceable => draft.traceable
    BY <1>0, <1>4 DEF Publish, TimeTypeOK, Status
  <2> QED  BY <1>0, <1>4, <2>1 DEF Publish
<1>5. CASE StartMonitor
  <2>1. AnswersShowIt'
    BY <1>5, ReachedOfNone DEF StartMonitor
  <2> QED  BY <1>0, <1>5, <2>1 DEF StartMonitor
<1>6. CASE StopMonitor
  BY <1>0, <1>6 DEF StopMonitor
<1>7. CASE Tick \/ ClockMoves
  <2>1. \/ UNCHANGED <<skew, noticed>>
        \/ \E e \in Skew : ClockIs(e)
    BY <1>7 DEF Tick, ClockMoves
  <2>2. UNCHANGED <<samples, monitor, lastPoll, draft, status>>
    BY <1>7 DEF Tick, ClockMoves
  <2> QED  BY <1>0, <2>1, <2>2 DEF ClockIs
<1>8. CASE UNCHANGED timeVars
  BY <1>0, <1>8 DEF timeVars
<1> QED
  BY <1>1, <1>2, <1>3, <1>4, <1>5, <1>6, <1>7, <1>8 DEF TimeStep

(* A clock that was out of bounds during a whole poll and still is leaves  *)
(* no status that lets the authority stamp, for any number of servers and  *)
(* of liars below the quorum, any errors and any timing of the polls       *)
(* (evaluate, Monitor::now).                                               *)
THEOREM ClockErrorsAreSeen == Spec => []ClockErrorIsSeen
<1>1. ErrorInv => ClockErrorIsSeen
  BY DEF ErrorInv, StatusShowsIt, ClockErrorIsSeen
<1>2. ErrorInv /\ [Next]_vars => ErrorInv'
  BY ErrorStep, NextIsTimeStep
<1> QED  BY <1>1, <1>2, ErrorInit, PTL DEF Spec

----------------------------------------------------------------------------
(* Types of the keys and files.                                            *)

KeysShape ==
    /\ keys \subseteq Generation
    /\ issued \in Seq([generation : Generation, at : Slot])
    /\ Len(issued) <= MaxCertificates
    /\ certFile \in 0 .. Len(issued) /\ chainFile \in 0 .. Len(issued)
    /\ enroll \in [at : {"idle", "generate", "request", "truncate", "write",
                         "truncate_chain", "write_chain"},
                   generation : Generation \cup {0},
                   certificate : 0 .. Len(issued)]
    /\ enroll.at = "generate" => enroll.generation # 0
    /\ enroll.at \in {"truncate", "write"} => enroll.certificate # 0
    /\ retire \in Generation \cup {0}
    /\ used \subseteq 1 .. Len(issued)

LEMMA KeysShapedInit == Init => KeysShape
<1> SUFFICES ASSUME Init PROVE KeysShape
  OBVIOUS
<1>1. 1 \in Generation /\ 0 \in Slot
  BY KeysAssumption, TimeAssumption DEF Generation, Slot
<1>2. Len(issued) = 1 /\ issued \in Seq([generation : Generation, at : Slot])
  BY <1>1 DEF Init, KeysInit
<1>3. enroll = Idle /\ keys = {1} /\ certFile = 1 /\ chainFile = 1 /\ retire = 0 /\ used = {1}
  BY DEF Init, KeysInit
<1> QED  BY <1>1, <1>2, <1>3, KeysAssumption DEF KeysShape, Idle

(* What is issued stays as it is.                                          *)
LEMMA IssuedGrows ==
  ASSUME KeysShape, slot \in Slot, KeyStep
  PROVE  /\ issued' \in Seq([generation : Generation, at : Slot])
         /\ Len(issued) <= Len(issued')
         /\ \A c \in 1 .. Len(issued) : issued'[c] = issued[c]
<1>1. CASE EnrollRequest
  <2>1. enroll.generation \in Generation
    BY <1>1 DEF EnrollRequest, KeysShape
  <2>2. issued' = Append(issued, [generation |-> enroll.generation, at |-> slot])
    BY <1>1 DEF EnrollRequest
  <2> QED  BY <2>1, <2>2 DEF KeysShape
<1>2. CASE UNCHANGED issued
  BY <1>2 DEF KeysShape
<1> QED
  BY <1>1, <1>2 DEF KeyStep, EnrollBegin, EnrollGenerate, EnrollAsksAgain,
     EnrollTruncate, EnrollWrite, EnrollTruncateChain, EnrollWriteChain, RetireDecide, RetireDestroy,
     RetireGivesUp, Killed, keyVars

LEMMA KeysStayShaped == KeysShape /\ slot \in Slot /\ KeyStep => KeysShape'
<1> SUFFICES ASSUME KeysShape, slot \in Slot, KeyStep PROVE KeysShape'
  OBVIOUS
<1>0. /\ issued' \in Seq([generation : Generation, at : Slot])
      /\ Len(issued) <= Len(issued') /\ Len(issued) \in Nat /\ Len(issued') \in Nat
  BY IssuedGrows DEF KeysShape
<1>k. Idle \in [at : {"idle", "generate", "request", "truncate", "write",
                      "truncate_chain", "write_chain"},
                generation : Generation \cup {0}, certificate : 0 .. Len(issued)]
  BY <1>0 DEF Idle
<1> USE <1>0 DEF KeysShape
<1>1. CASE EnrollBegin
  <2>1. PICK n \in Generation \cup {0} :
           /\ Plan(n) \in Generation
           /\ enroll' = [at |-> IF Plan(n) \in keys THEN "request" ELSE "generate",
                         generation |-> Plan(n), certificate |-> 0]
    BY <1>1 DEF EnrollBegin
  <2>2. /\ enroll'.at \in {"request", "generate"}
        /\ enroll'.generation \in Generation /\ enroll'.certificate = 0
        /\ enroll' \in [at : {"idle", "generate", "request", "truncate", "write",
                             "truncate_chain", "write_chain"},
                       generation : Generation \cup {0},
                       certificate : 0 .. Len(issued)]
    BY <2>1
  <2>3. UNCHANGED <<keys, issued, certFile, chainFile, retire, used>>
    BY <1>1 DEF EnrollBegin
  <2> QED  BY <2>2, <2>3 DEF Generation
<1>2. CASE EnrollGenerate
  <2>1. enroll.generation \in Generation
    BY <1>2 DEF EnrollGenerate, KeysShape
  <2> QED  BY <1>2, <2>1 DEF EnrollGenerate
<1>3. CASE EnrollRequest
  <2>1. Len(issued') = Len(issued) + 1
    BY <1>3, AppendProperties DEF EnrollRequest
  <2>2. Len(issued') <= MaxCertificates
    BY <1>3, <2>1, KeysAssumption DEF EnrollRequest
  <2>3. enroll' \in [at : {"idle", "generate", "request", "truncate", "write",
                          "truncate_chain", "write_chain"},
                    generation : Generation \cup {0},
                    certificate : 0 .. Len(issued')]
    <3>1. enroll.generation \in Generation /\ Len(issued) + 1 \in 0 .. Len(issued')
      BY <1>3, <2>1 DEF EnrollRequest
    <3>2. enroll' = [at |-> "truncate", generation |-> enroll.generation,
                     certificate |-> Len(issued) + 1]
      BY <1>3 DEF EnrollRequest
    <3> QED  BY <3>1, <3>2
  <2>4. enroll'.at = "truncate" /\ enroll'.certificate # 0
    BY <1>3 DEF EnrollRequest
  <2>5. UNCHANGED <<keys, certFile, chainFile, retire, used>>
    BY <1>3 DEF EnrollRequest
  <2>6. /\ certFile \in 0 .. Len(issued') /\ chainFile \in 0 .. Len(issued')
        /\ used \subseteq 1 .. Len(issued')
    BY <2>1
  <2> QED  BY <2>2, <2>3, <2>4, <2>5, <2>6
<1>4. CASE EnrollTruncate   BY <1>4 DEF EnrollTruncate
<1>5. CASE EnrollWrite      BY <1>5 DEF EnrollWrite
<1>6. CASE EnrollTruncateChain  BY <1>6 DEF EnrollTruncateChain
<1>7. CASE EnrollWriteChain
  <2>1. chainFile' \in 0 .. Len(issued) /\ enroll' = Idle
    BY <1>7 DEF EnrollWriteChain
  <2>2. UNCHANGED <<keys, issued, certFile, retire, used>>
    BY <1>7 DEF EnrollWriteChain
  <2> QED  BY <1>k, <2>1, <2>2 DEF Idle
<1>8. ASSUME NEW g \in Generation, RetireDecide(g) PROVE KeysShape'
  BY <1>8 DEF RetireDecide
<1>9. CASE RetireDestroy \/ RetireGivesUp
  BY <1>9 DEF RetireDestroy, RetireGivesUp
<1>10. CASE Killed   BY <1>10, <1>k DEF Killed, Idle
<1>11. CASE UNCHANGED keyVars   BY <1>11 DEF keyVars
<1>12. CASE EnrollAsksAgain
  <2>1. PICK c \in 1 .. Len(issued) :
           enroll' = [enroll EXCEPT !.at = "truncate", !.certificate = c]
    BY <1>12 DEF EnrollAsksAgain
  <2>2. c # 0 /\ c \in 0 .. Len(issued)
    OBVIOUS
  <2>3. UNCHANGED <<keys, issued, certFile, chainFile, retire, used>>
    BY <1>12 DEF EnrollAsksAgain
  <2> QED  BY <2>1, <2>2, <2>3
<1> QED
  BY <1>1, <1>2, <1>3, <1>4, <1>5, <1>6, <1>7, <1>8, <1>9, <1>10, <1>11, <1>12 DEF KeyStep

----------------------------------------------------------------------------
(* Each certificate its key.  Whatever the commands do, the generation an  *)
(* enrolment works on is above those of the certificates that were in the  *)
(* file, one of which is above the key an operator destroys.               *)

Above(g) == \A c \in used : KeyOf(c) < g

FileIsNewest ==
    certFile # 0 => /\ certFile \in used
                    /\ KeyOf(certFile) \in keys
                    /\ \A c \in used : KeyOf(c) <= KeyOf(certFile)
SomeKeyIsAbove == certFile = 0 => \E k \in keys : Above(k)
EnrolsAbove ==
    /\ enroll.at \in {"generate", "request", "truncate", "write"} =>
          Above(enroll.generation)
    /\ enroll.at \in {"request", "truncate", "write"} => enroll.generation \in keys
    /\ enroll.at \in {"truncate", "write"} =>
          KeyOf(enroll.certificate) = enroll.generation
RetiresBelow == retire # 0 => \E c \in used : retire < KeyOf(c)

KeyInv ==
    /\ KeysShape
    /\ FileIsNewest /\ SomeKeyIsAbove /\ EnrolsAbove /\ RetiresBelow
    /\ OneKeyPerCertificate

LEMMA KeyInit == Init => KeyInv
<1> SUFFICES ASSUME Init PROVE KeyInv
  OBVIOUS
<1>1. /\ keys = {1} /\ certFile = 1 /\ retire = 0 /\ used = {1}
      /\ KeyOf(1) = 1 /\ enroll.at = "idle"
  BY DEF Init, KeysInit, KeyOf, Idle
<1> QED
  BY <1>1, KeysShapedInit DEF KeyInv, FileIsNewest, SomeKeyIsAbove, EnrolsAbove,
     RetiresBelow, OneKeyPerCertificate

LEMMA KeyStays == KeyInv /\ slot \in Slot /\ KeyStep => KeyInv'
<1> SUFFICES ASSUME KeyInv, slot \in Slot, KeyStep PROVE KeyInv'
  OBVIOUS
<1>0. KeysShape /\ KeysShape'
  BY KeysStayShaped DEF KeyInv
<1>s. /\ Len(issued) \in Nat /\ used \subseteq 1 .. Len(issued)
      /\ keys \subseteq Nat /\ Generation \subseteq Nat \ {0}
      /\ certFile \in 0 .. Len(issued) /\ enroll.certificate \in 0 .. Len(issued)
  BY <1>0 DEF KeysShape, Generation
<1>k. ASSUME NEW c \in 1 .. Len(issued)
      PROVE  KeyOf(c)' = KeyOf(c) /\ KeyOf(c) \in Nat
  <2>1. issued'[c] = issued[c]
    BY <1>0, IssuedGrows
  <2>2. issued[c].generation \in Nat
    <3>1. issued[c] \in [generation : Generation, at : Slot]
      BY <1>0, ElementOfSeq DEF KeysShape
    <3> QED  BY <3>1 DEF Generation
  <2> QED  BY <2>1, <2>2 DEF KeyOf
<1>i. FileIsNewest /\ SomeKeyIsAbove /\ EnrolsAbove /\ RetiresBelow /\ OneKeyPerCertificate
  BY DEF KeyInv
<1>g. SUFFICES /\ FileIsNewest' /\ SomeKeyIsAbove' /\ EnrolsAbove' /\ RetiresBelow'
               /\ OneKeyPerCertificate'
  BY <1>0 DEF KeyInv
<1>1. CASE EnrollBegin
  <2>1. PICK n \in Generation \cup {0} :
           /\ IsNewestKey(n)
           /\ enroll'.at = (IF Plan(n) \in keys THEN "request" ELSE "generate")
           /\ enroll'.generation = Plan(n)
    BY <1>1 DEF EnrollBegin
  <2>2. UNCHANGED <<keys, issued, certFile, chainFile, retire, used>>
    BY <1>1 DEF EnrollBegin
  <2>3. Above(Plan(n))
    <3>1. n \in Nat /\ \A g \in keys : g <= n
      BY <1>s, <2>1 DEF IsNewestKey
    <3>2. CASE certFile = 0
      <4>1. PICK k \in keys : Above(k)
        BY <1>i, <3>2 DEF SomeKeyIsAbove
      <4>2. Plan(n) = n
        BY <1>0, <1>s, <3>1, <3>2, <4>1 DEF Plan, Matching, KeysShape, Generation
      <4>3. k \in Nat /\ k <= n
        BY <1>s, <3>1, <4>1
      <4> QED  BY <1>s, <1>k, <3>1, <4>1, <4>2, <4>3 DEF Above
    <3>3. CASE certFile # 0
      <4>1. /\ Matching = KeyOf(certFile) /\ Matching \in keys
            /\ \A c \in used : KeyOf(c) <= Matching
        BY <1>i, <3>3 DEF FileIsNewest, Matching
      <4>2. Matching \in Nat /\ Matching <= n
        BY <1>s, <3>1, <4>1
      <4>3. Matching < Plan(n) /\ Plan(n) \in Nat
        BY <3>1, <4>2 DEF Plan
      <4> QED  BY <1>s, <1>k, <4>1, <4>2, <4>3 DEF Above
    <3> QED  BY <3>2, <3>3
  <2>4. EnrolsAbove'
    BY <2>1, <2>2, <2>3 DEF EnrolsAbove, Above, KeyOf
  <2> QED
    BY <1>i, <2>2, <2>4 DEF FileIsNewest, SomeKeyIsAbove, RetiresBelow,
       OneKeyPerCertificate, Above, KeyOf
<1>2. CASE EnrollGenerate
  <2>1. /\ UNCHANGED <<issued, certFile, chainFile, retire, used>>
        /\ keys' = keys \cup {enroll.generation}
        /\ enroll.at = "generate" /\ enroll'.at = "request"
        /\ enroll'.generation = enroll.generation
    BY <1>0, <1>2 DEF EnrollGenerate, KeysShape
  <2> QED
    BY <1>i, <2>1 DEF FileIsNewest, SomeKeyIsAbove, EnrolsAbove, RetiresBelow,
       OneKeyPerCertificate, Above, KeyOf
<1>3. CASE EnrollRequest
  <2>1. /\ UNCHANGED <<keys, certFile, chainFile, retire, used>>
        /\ issued' = Append(issued, [generation |-> enroll.generation, at |-> slot])
        /\ enroll.at = "request" /\ enroll'.at = "truncate"
        /\ enroll'.generation = enroll.generation
        /\ enroll'.certificate = Len(issued) + 1
    BY <1>0, <1>3 DEF EnrollRequest, KeysShape
  <2>a. enroll.generation \in Generation
    BY <1>0, <1>3 DEF EnrollRequest, KeysShape
  <2>b. issued'[Len(issued) + 1] = [generation |-> enroll.generation, at |-> slot]
    BY <1>0, <2>1, <2>a, AppendProperties DEF KeysShape
  <2>2. KeyOf(enroll.certificate)' = enroll.generation
    BY <1>s, <2>1, <2>b DEF KeyOf
  <2>3. \A c \in used : KeyOf(c)' = KeyOf(c)
    BY <1>s, <1>k
  <2>4. FileIsNewest'
    BY <1>i, <2>1, <2>3 DEF FileIsNewest
  <2>5. \A g : Above(g) => Above(g)'
    BY <2>1, <2>3 DEF Above
  <2>6. SomeKeyIsAbove' /\ EnrolsAbove'
    BY <1>i, <2>1, <2>2, <2>5 DEF SomeKeyIsAbove, EnrolsAbove, KeyOf
  <2>7. RetiresBelow' /\ OneKeyPerCertificate'
    BY <1>i, <2>1, <2>3 DEF RetiresBelow, OneKeyPerCertificate
  <2> QED  BY <2>4, <2>6, <2>7
<1>4. CASE EnrollTruncate
  <2>1. /\ UNCHANGED <<keys, issued, chainFile, retire, used>>
        /\ certFile' = 0
        /\ enroll.at = "truncate" /\ enroll'.at = "write"
        /\ enroll'.generation = enroll.generation
        /\ enroll'.certificate = enroll.certificate
    BY <1>0, <1>4 DEF EnrollTruncate, KeysShape
  <2> QED
    BY <1>i, <2>1 DEF FileIsNewest, SomeKeyIsAbove, EnrolsAbove, RetiresBelow,
       OneKeyPerCertificate, Above, KeyOf
<1>5. CASE EnrollWrite
  <2>1. /\ UNCHANGED <<keys, issued, chainFile, retire>>
        /\ certFile' = enroll.certificate
        /\ used' = used \cup {enroll.certificate}
        /\ enroll.at = "write" /\ enroll'.at = "truncate_chain"
    BY <1>0, <1>5 DEF EnrollWrite, KeysShape
  <2>2. enroll.certificate \in 1 .. Len(issued)
    BY <1>0, <1>s, <2>1 DEF KeysShape
  <2>3. /\ KeyOf(enroll.certificate) = enroll.generation /\ enroll.generation \in keys
        /\ Above(enroll.generation)
    BY <1>i, <2>1 DEF EnrolsAbove
  <2>4. \A c \in used : KeyOf(c) \in Nat /\ KeyOf(c) < KeyOf(enroll.certificate)
    BY <1>s, <1>k, <2>3 DEF Above
  <2>5. KeyOf(enroll.certificate) \in Nat
    BY <1>k, <2>2
  <2>6. FileIsNewest'
    BY <2>1, <2>3, <2>4, <2>5 DEF FileIsNewest, KeyOf
  <2>7. SomeKeyIsAbove' /\ EnrolsAbove'
    BY <2>1, <2>2 DEF SomeKeyIsAbove, EnrolsAbove
  <2>8. RetiresBelow'
    BY <1>i, <2>1 DEF RetiresBelow, KeyOf
  <2>9. OneKeyPerCertificate'
    BY <1>i, <2>1, <2>4, <2>5 DEF OneKeyPerCertificate, KeyOf
  <2> QED  BY <2>6, <2>7, <2>8, <2>9
<1>6. CASE EnrollTruncateChain \/ EnrollWriteChain \/ Killed
  <2>1. /\ UNCHANGED <<keys, issued, certFile, retire, used>>
        /\ enroll'.at \in {"idle", "write_chain"}
    BY <1>0, <1>6 DEF EnrollTruncateChain, EnrollWriteChain, Killed, Idle, KeysShape
  <2> QED
    BY <1>i, <2>1 DEF FileIsNewest, SomeKeyIsAbove, EnrolsAbove, RetiresBelow,
       OneKeyPerCertificate, Above, KeyOf
<1>7. ASSUME NEW g \in Generation, RetireDecide(g)
      PROVE  /\ FileIsNewest' /\ SomeKeyIsAbove' /\ EnrolsAbove' /\ RetiresBelow'
             /\ OneKeyPerCertificate'
  <2>1. UNCHANGED <<keys, issued, certFile, chainFile, enroll, used>> /\ retire' = g
    BY <1>7 DEF RetireDecide
  <2>2. certFile # 0 /\ g < KeyOf(certFile)
    BY <1>7 DEF RetireDecide, Retirable, Matching
  <2>3. RetiresBelow'
    BY <1>i, <2>1, <2>2 DEF RetiresBelow, FileIsNewest, KeyOf
  <2> QED
    BY <1>i, <2>1, <2>3 DEF FileIsNewest, SomeKeyIsAbove, EnrolsAbove,
       OneKeyPerCertificate, Above, KeyOf
<1>8. CASE RetireDestroy
  <2>1. /\ UNCHANGED <<issued, certFile, chainFile, enroll, used>>
        /\ keys' = keys \ {retire} /\ retire' = 0 /\ retire # 0
    BY <1>8 DEF RetireDestroy
  <2>2. PICK c \in used : retire < KeyOf(c)
    BY <1>i, <2>1 DEF RetiresBelow
  <2>3. retire \in Nat /\ KeyOf(c) \in Nat
    BY <1>0, <1>s, <1>k, <2>1, <2>2 DEF KeysShape
  <2>4. \A k \in keys : KeyOf(c) <= k => k \in keys'
    BY <1>s, <2>1, <2>2, <2>3
  <2>5. \A k \in keys : Above(k) => k \in keys'
    BY <1>s, <2>2, <2>3, <2>4 DEF Above
  <2>6. FileIsNewest'
    BY <1>i, <2>1, <2>2, <2>4 DEF FileIsNewest, KeyOf
  <2>7. SomeKeyIsAbove' /\ EnrolsAbove'
    BY <1>i, <2>1, <2>5 DEF SomeKeyIsAbove, EnrolsAbove, Above, KeyOf
  <2> QED
    BY <1>i, <2>1, <2>6, <2>7 DEF RetiresBelow, OneKeyPerCertificate, KeyOf
<1>9. CASE RetireGivesUp \/ UNCHANGED keyVars
  <2>1. /\ UNCHANGED <<keys, issued, certFile, chainFile, enroll, used>>
        /\ retire' \in {0, retire}
    BY <1>9 DEF RetireGivesUp, keyVars
  <2> QED
    BY <1>i, <2>1 DEF FileIsNewest, SomeKeyIsAbove, EnrolsAbove, RetiresBelow,
       OneKeyPerCertificate, Above, KeyOf
<1>10. CASE EnrollAsksAgain
  <2>1. /\ UNCHANGED <<keys, issued, certFile, chainFile, retire, used>>
        /\ enroll.at = "request" /\ enroll'.at = "truncate"
        /\ enroll'.generation = enroll.generation
        /\ KeyOf(enroll'.certificate) = enroll.generation
    BY <1>0, <1>10 DEF EnrollAsksAgain, KeysShape
  <2> QED
    BY <1>i, <2>1 DEF FileIsNewest, SomeKeyIsAbove, EnrolsAbove, RetiresBelow,
       OneKeyPerCertificate, Above, KeyOf
<1> QED
  BY <1>1, <1>2, <1>3, <1>4, <1>5, <1>6, <1>7, <1>8, <1>9, <1>10 DEF KeyStep

(* The certificate in the file keeps its key whatever keys are destroyed   *)
(* meanwhile, and no two certificates share one, for any number of         *)
(* generations, enrolments, failures and retirements (keys.rs).            *)
THEOREM KeysAreKept == Spec => []EachCertificateItsKey
<1> DEFINE I == TimeTypeOK /\ KeyInv
<1>1. Init => I
  BY TimeTyped, KeyInit
<1>2. I /\ [Next]_vars => I'
  <2> SUFFICES ASSUME I, [Next]_vars PROVE I'
    OBVIOUS
  <2>1. slot \in Slot
    BY DEF TimeTypeOK
  <2> QED  BY <2>1, TimeStaysTyped, NextIsTimeStep, KeyStays, NextIsKeyStep
<1>3. I => EachCertificateItsKey
  BY DEF KeyInv, FileIsNewest, EnrolsAbove, EachCertificateItsKey,
     CertificateKeepsItsKey
<1> QED  BY <1>1, <1>2, <1>3, PTL DEF Spec

----------------------------------------------------------------------------
(* The service.  A step of Next refits it (or leaves it alone), takes it   *)
(* down, or is a step of one handler.                                      *)

Refit ==
    /\ \/ UNCHANGED <<phase, material, reload, refused>>
       \/ Enrolled \/ Boot \/ Serve \/ ReloadRead \/ ReloadNothing \/ ReloadAdopt
    /\ UNCHANGED <<handler, token>>

LEMMA NextIsServiceStep ==
  [Next]_vars => Refit \/ Down \/ \E h \in Handler : Stamp(h)
<1> SUFFICES ASSUME [Next]_vars
             PROVE  Refit \/ Down \/ \E h \in Handler : Stamp(h)
  OBVIOUS
<1>1. CASE MonitorStep  BY <1>1 DEF MonitorStep, serviceVars, Refit
<1>2. CASE World        BY <1>2 DEF World, serviceVars, Refit
<1>3. CASE Commands     BY <1>3 DEF Commands, serviceVars, Refit
<1>4. CASE Enrolled \/ Boot \/ Serve \/ ReloadRead \/ ReloadNothing \/ ReloadAdopt
  BY <1>4 DEF Enrolled, Boot, Serve, ReloadRead, ReloadNothing, ReloadAdopt, Refit
<1>5. CASE CannotServe \/ Crash  BY <1>5 DEF CannotServe, Crash
<1>6. CASE UNCHANGED vars  BY <1>6 DEF vars, serviceVars, Refit
<1> QED  BY <1>1, <1>2, <1>3, <1>4, <1>5, <1>6 DEF Next

JobOf == [at : {"idle", "trace", "clock", "sign"}, certificate : 0 .. Len(issued),
          leap : BOOLEAN, lastSync : Slot \cup {None}, genTime : Slot \cup {None}]

TokenOf == [certificate : 0 .. Len(issued), key : Generation \cup {0},
            lastSync : Slot \cup {None}, genTime : Slot \cup {None}]

MaterialShape ==
    /\ phase \in {"down", "enrolled", "booting", "serving"}
    /\ material \in [certificate : 0 .. Len(issued), chain : 0 .. Len(issued)]
    /\ reload \in 0 .. Len(issued) /\ refused \in 0 .. Len(issued)
    /\ phase \in {"booting", "serving"} => material.certificate # 0

(* What a handler carries: a certificate, and at the time of signing an    *)
(* instant before the end of its key.                                      *)
HandlerOK(r) ==
    /\ r \in JobOf
    /\ r.at # "idle" => r.certificate # 0
    /\ r.at = "sign" => r.genTime \in Slot /\ r.genTime < KeyEnd(r.certificate)

HandlersOK ==
    handler \in [Handler -> JobOf] /\ \A h \in Handler : HandlerOK(handler[h])

TokenOK ==
    /\ token \in TokenOf
    /\ token # NoToken =>
          /\ token.certificate # 0 /\ token.genTime \in Slot
          /\ token.key = KeyOf(token.certificate)
          /\ token.genTime < KeyEnd(token.certificate)

ServiceInv == MaterialShape /\ HandlersOK /\ TokenOK

LEMMA ServiceInit == Init => ServiceInv
<1> SUFFICES ASSUME Init PROVE ServiceInv
  OBVIOUS
<1>1. Len(issued) = 1
  BY DEF Init, KeysInit
<1>2. MaterialShape
  BY <1>1 DEF Init, MaterialShape, NoMaterial
<1>3. HandlersOK
  <2>1. AtRest \in JobOf
    BY <1>1 DEF AtRest, JobOf
  <2> QED  BY <2>1 DEF Init, HandlersOK, HandlerOK, AtRest
<1>4. TokenOK
  BY <1>1 DEF Init, TokenOK, TokenOf, NoToken
<1> QED  BY <1>2, <1>3, <1>4 DEF ServiceInv

(* What every step does to the certificates and to the time.               *)
LEMMA CertificatesStay ==
  ASSUME KeysShape, slot \in Slot, KeyStep
  PROVE  /\ Len(issued) \in Nat /\ Len(issued') \in Nat /\ Len(issued) <= Len(issued')
         /\ \A c \in 1 .. Len(issued) : KeyOf(c)' = KeyOf(c) /\ KeyEnd(c)' = KeyEnd(c)
         /\ \A c \in 1 .. Len(issued) : KeyOf(c) \in Generation /\ KeyEnd(c) \in Nat
<1>1. /\ issued' \in Seq([generation : Generation, at : Slot])
      /\ Len(issued) <= Len(issued')
      /\ \A c \in 1 .. Len(issued) : issued'[c] = issued[c]
  BY IssuedGrows
<1>2. issued \in Seq([generation : Generation, at : Slot])
  BY DEF KeysShape
<1>3. ASSUME NEW c \in 1 .. Len(issued)
      PROVE  issued[c].generation \in Generation /\ issued[c].at \in Slot
  <2>1. issued[c] \in [generation : Generation, at : Slot]
    BY <1>2, ElementOfSeq
  <2> QED  BY <2>1
<1>4. ASSUME NEW c \in 1 .. Len(issued)
      PROVE  KeyOf(c)' = KeyOf(c) /\ KeyEnd(c)' = KeyEnd(c)
  BY <1>1 DEF KeyOf, KeyEnd
<1>5. ASSUME NEW c \in 1 .. Len(issued)
      PROVE  KeyOf(c) \in Generation /\ KeyEnd(c) \in Nat
  BY <1>3, KeysAssumption DEF KeyOf, KeyEnd, Slot
<1> QED  BY <1>1, <1>2, <1>4, <1>5

LEMMA TimeGoesOn == TimeTypeOK /\ TimeStep => slot' \in Slot /\ slot <= slot'
<1> SUFFICES ASSUME TimeTypeOK, TimeStep PROVE slot' \in Slot /\ slot <= slot'
  OBVIOUS
<1>1. slot' = slot \/ slot' = slot + 1
  BY DEF TimeStep, BeginPoll, QueryNext, Evaluate, Publish, StartMonitor,
     StopMonitor, Tick, ClockMoves, timeVars
<1>2. slot \in Nat /\ slot' \in Slot
  BY TimeStaysTyped DEF TimeTypeOK, Slot
<1> QED  BY <1>1, <1>2

LEMMA MaterialStays ==
  ASSUME TimeTypeOK, KeysShape, MaterialShape, [Next]_vars
  PROVE  MaterialShape'
<1>0. /\ Len(issued) \in Nat /\ Len(issued') \in Nat /\ Len(issued) <= Len(issued')
  BY CertificatesStay, NextIsKeyStep DEF TimeTypeOK
<1>1. CASE UNCHANGED <<phase, material, reload, refused>>
  BY <1>0, <1>1 DEF MaterialShape
<1>2. CASE Boot
  <2>1. /\ material' = [certificate |-> certFile, chain |-> chainFile]
        /\ phase' = "booting" /\ UNCHANGED <<issued, reload, refused>>
    BY <1>2 DEF Boot, keyVars
  <2>2. certFile # 0
    BY <1>2 DEF Boot, Matching
  <2>3. certFile \in 0 .. Len(issued) /\ chainFile \in 0 .. Len(issued)
    BY DEF KeysShape
  <2> QED  BY <2>1, <2>2, <2>3 DEF MaterialShape
<1>3. CASE Enrolled \/ Serve
  BY <1>3 DEF MaterialShape, Enrolled, Serve, keyVars
<1>4. CASE ReloadRead \/ ReloadNothing
  <2>1. certFile \in 0 .. Len(issued)
    BY DEF KeysShape
  <2> QED  BY <1>4, <2>1 DEF MaterialShape, ReloadRead, ReloadNothing, keyVars
<1>5. CASE ReloadAdopt
  <2>1. /\ reload # 0 /\ reload' = 0 /\ UNCHANGED <<issued, phase>>
        /\ refused' \in {0, reload}
        /\ material' \in {material, [certificate |-> reload, chain |-> chainFile]}
    BY <1>5 DEF ReloadAdopt, keyVars
  <2>2. chainFile \in 0 .. Len(issued)
    BY DEF KeysShape
  <2> QED  BY <2>1, <2>2 DEF MaterialShape
<1>6. CASE Down
  BY <1>0, <1>6 DEF MaterialShape, Down, NoMaterial
<1>7. CASE \E h \in Handler : Stamp(h)
  <2>1. UNCHANGED <<issued, phase, material, reload, refused>>
    BY <1>7 DEF Stamp, Take, Trace, ReadClock, Sign, Fails, Refuse, keyVars
  <2> QED  BY <2>1 DEF MaterialShape
<1> QED
  BY <1>1, <1>2, <1>3, <1>4, <1>5, <1>6, <1>7, NextIsServiceStep DEF Refit

(* What holds of a handler and of a token holds after any step.            *)
LEMMA WhatIsHeldStays ==
  ASSUME KeysShape, slot \in Slot, KeyStep
  PROVE  /\ \A r : HandlerOK(r) => HandlerOK(r)'
         /\ TokenOK /\ UNCHANGED token => TokenOK'
<1>0. /\ Len(issued) \in Nat /\ Len(issued') \in Nat /\ Len(issued) <= Len(issued')
      /\ \A c \in 1 .. Len(issued) : KeyOf(c)' = KeyOf(c) /\ KeyEnd(c)' = KeyEnd(c)
  BY CertificatesStay
<1>1. ASSUME NEW r, HandlerOK(r) PROVE HandlerOK(r)'
  <2>1. r \in JobOf'
    BY <1>0, <1>1 DEF HandlerOK, JobOf
  <2>2. r.certificate \in 0 .. Len(issued)
    BY <1>1 DEF HandlerOK, JobOf
  <2>3. r.at = "sign" => KeyEnd(r.certificate)' = KeyEnd(r.certificate)
    BY <1>0, <1>1, <2>2 DEF HandlerOK
  <2> QED  BY <1>1, <2>1, <2>3 DEF HandlerOK
<1>2. ASSUME TokenOK, UNCHANGED token PROVE TokenOK'
  <2>1. token' \in TokenOf'
    BY <1>0, <1>2 DEF TokenOK, TokenOf
  <2>2. token.certificate \in 0 .. Len(issued)
    BY <1>2 DEF TokenOK, TokenOf
  <2>3. token # NoToken =>
           /\ KeyOf(token.certificate)' = KeyOf(token.certificate)
           /\ KeyEnd(token.certificate)' = KeyEnd(token.certificate)
    BY <1>0, <1>2, <2>2 DEF TokenOK
  <2> QED  BY <1>2, <2>1, <2>3 DEF TokenOK
<1> QED  BY <1>1, <1>2

LEMMA OneHandlerMoves ==
  ASSUME HandlersOK, \A r : HandlerOK(r) => HandlerOK(r)',
         NEW h \in Handler, NEW r, HandlerOK(r)', handler' = [handler EXCEPT ![h] = r]
  PROVE  HandlersOK'
<1>1. r \in JobOf'
  BY DEF HandlerOK
<1>2. \A g \in Handler : handler'[g] = IF g = h THEN r ELSE handler[g]
  BY DEF HandlersOK
<1>3. \A g \in Handler : HandlerOK(handler[g])'
  <2> TAKE g \in Handler
  <2>1. CASE g = h
    BY <1>2, <2>1 DEF HandlerOK
  <2>2. CASE g # h
    <3>1. HandlerOK(handler[g])
      BY DEF HandlersOK
    <3>2. handler'[g] = handler[g]
      BY <1>2, <2>2
    <3>3. ASSUME NEW q, q = handler[g] PROVE HandlerOK(q)'
      BY <3>1, <3>3
    <3>4. ASSUME NEW q, q = handler[g] PROVE q = handler'[g] /\ HandlerOK(q)'
      BY <3>2, <3>3, <3>4
    <3> QED  BY <3>4 DEF HandlerOK
  <2> QED  BY <2>1, <2>2
<1>4. handler' \in [Handler -> JobOf']
  <2>1. \A g \in Handler : handler'[g] \in JobOf'
    BY <1>3 DEF HandlerOK
  <2>2. handler' = [g \in Handler |-> handler'[g]]
    BY DEF HandlersOK
  <2> QED  BY <2>1, <2>2
<1> QED  BY <1>3, <1>4 DEF HandlersOK

LEMMA RestIsOK ==
  ASSUME TimeTypeOK, Len(issued) \in Nat
  PROVE  HandlerOK(AtRest)
BY DEF HandlerOK, AtRest, JobOf

LEMMA ServiceStays ==
  ASSUME TimeTypeOK, KeysShape, ServiceInv, [Next]_vars
  PROVE  ServiceInv'
<1>0. /\ slot \in Slot /\ KeyStep /\ TimeTypeOK' /\ KeysShape'
      /\ MaterialShape /\ HandlersOK /\ TokenOK
  BY NextIsKeyStep, NextIsTimeStep, TimeStaysTyped, KeysStayShaped
     DEF TimeTypeOK, ServiceInv
<1>1. /\ Len(issued) \in Nat /\ Len(issued') \in Nat
      /\ \A c \in 1 .. Len(issued) : KeyOf(c) \in Generation /\ KeyEnd(c) \in Nat
  BY <1>0, CertificatesStay
<1>2. (\A r : HandlerOK(r) => HandlerOK(r)') /\ (UNCHANGED token => TokenOK')
  BY <1>0, WhatIsHeldStays
<1>3. HandlerOK(AtRest)
  BY <1>0, <1>1, RestIsOK
<1>m. MaterialShape'
  BY <1>0, MaterialStays
<1>g. SUFFICES HandlersOK' /\ TokenOK'
  BY <1>m DEF ServiceInv
<1>4. CASE Refit
  <2>1. UNCHANGED <<handler, token>>
    BY <1>4 DEF Refit
  <2>2. ASSUME NEW h \in Handler PROVE HandlerOK(handler[h])'
    <3>1. ASSUME NEW r, r = handler[h] PROVE HandlerOK(r)' /\ r = handler'[h]
      BY <1>0, <1>2, <2>1, <3>1 DEF HandlersOK
    <3> QED  BY <3>1 DEF HandlerOK
  <2>3. handler' \in [Handler -> JobOf']
    <3>1. handler' = [h \in Handler |-> handler'[h]]
      BY <1>0, <2>1 DEF HandlersOK
    <3> QED  BY <2>2, <3>1 DEF HandlerOK
  <2> QED  BY <1>2, <2>1, <2>2, <2>3 DEF HandlersOK
<1>5. CASE Down
  <2>1. handler' = [h \in Handler |-> AtRest] /\ UNCHANGED token
    BY <1>5 DEF Down
  <2>2. AtRest \in JobOf' /\ AtRest.at = "idle"
    BY <1>1, <1>3 DEF AtRest, JobOf
  <2> QED  BY <1>2, <2>1, <2>2 DEF HandlersOK, HandlerOK
<1>6. ASSUME NEW h \in Handler, Stamp(h) PROVE HandlersOK' /\ TokenOK'
  <2>1. HandlerOK(handler[h])
    BY <1>0 DEF HandlersOK
  <2>m. ASSUME NEW r, HandlerOK(r), handler' = [handler EXCEPT ![h] = r]
        PROVE  HandlersOK'
    <3>1. HandlerOK(r)'
      BY <1>2, <2>m
    <3> QED  BY <1>0, <1>2, <2>m, <3>1, OneHandlerMoves
  <2>2. CASE Take(h)
    <3> DEFINE r == [at |-> "trace", certificate |-> material.certificate,
                     leap |-> FALSE, lastSync |-> None, genTime |-> None]
    <3>1. /\ phase = "serving" /\ handler' = [handler EXCEPT ![h] = r]
          /\ token' = NoToken
      BY <2>2 DEF Take
    <3>2. material.certificate \in 1 .. Len(issued)
      BY <1>0, <1>1, <3>1 DEF MaterialShape
    <3>4. r \in JobOf /\ r.at = "trace" /\ r.certificate = material.certificate
      BY <1>1, <3>2 DEF JobOf
    <3>5. HandlerOK(r)
      BY <3>2, <3>4 DEF HandlerOK
    <3>6. TokenOK'
      BY <1>1, <3>1 DEF TokenOK, TokenOf, NoToken
    <3> HIDE DEF r
    <3> QED  BY <2>m, <3>1, <3>5, <3>6
  <2>3. CASE Refuse(h)
    <3>1. handler' = [handler EXCEPT ![h] = AtRest] /\ UNCHANGED token
      BY <2>3 DEF Refuse
    <3> QED  BY <1>2, <1>3, <2>m, <3>1
  <2>4. CASE Trace(h) /\ ~Refuse(h)
    <3> DEFINE r == [handler[h] EXCEPT !.at = "clock", !.leap = status.leap,
                                       !.lastSync = status.lastSync]
    <3>1. /\ handler' = [handler EXCEPT ![h] = r] /\ handler[h].at = "trace"
          /\ UNCHANGED token
      BY <2>4 DEF Trace
    <3>2. status.leap \in BOOLEAN /\ status.lastSync \in Slot \cup {None}
      BY DEF TimeTypeOK, Status
    <3>3. r \in JobOf /\ r.at = "clock" /\ r.certificate = handler[h].certificate
      BY <2>1, <3>2 DEF HandlerOK, JobOf
    <3>4. HandlerOK(r)
      BY <2>1, <3>1, <3>3 DEF HandlerOK
    <3> HIDE DEF r
    <3> QED  BY <1>2, <2>m, <3>1, <3>4
  <2>5. CASE ReadClock(h) /\ ~Refuse(h)
    <3> DEFINE r == [handler[h] EXCEPT !.at = "sign", !.genTime = slot]
    <3>1. /\ handler' = [handler EXCEPT ![h] = r] /\ handler[h].at = "clock"
          /\ ~(slot >= KeyEnd(handler[h].certificate))
          /\ UNCHANGED token
      BY <2>5 DEF ReadClock
    <3>2. handler[h].certificate \in 1 .. Len(issued)
      BY <1>1, <2>1, <3>1 DEF HandlerOK, JobOf
    <3>3. slot < KeyEnd(handler[h].certificate)
      BY <1>0, <1>1, <3>1, <3>2 DEF Slot
    <3>4. /\ r \in JobOf /\ r.at = "sign" /\ r.certificate = handler[h].certificate
          /\ r.genTime = slot
      BY <1>0, <2>1 DEF HandlerOK, JobOf
    <3>5. HandlerOK(r)
      BY <1>0, <2>1, <3>1, <3>3, <3>4 DEF HandlerOK
    <3> HIDE DEF r
    <3> QED  BY <1>2, <2>m, <3>1, <3>5
  <2>6. CASE Sign(h)
    <3>1. /\ handler' = [handler EXCEPT ![h] = AtRest] /\ handler[h].at = "sign"
          /\ UNCHANGED issued
          /\ token' = [certificate |-> handler[h].certificate,
                       key |-> KeyOf(handler[h].certificate),
                       lastSync |-> handler[h].lastSync, genTime |-> handler[h].genTime]
      BY <2>6 DEF Sign, Signer, keyVars
    <3>2. /\ handler[h].certificate \in 1 .. Len(issued)
          /\ handler[h].genTime \in Slot
          /\ handler[h].genTime < KeyEnd(handler[h].certificate)
          /\ handler[h].lastSync \in Slot \cup {None}
      BY <1>1, <2>1, <3>1 DEF HandlerOK, JobOf
    <3>3. token' \in TokenOf /\ TokenOf' = TokenOf
      BY <1>1, <3>1, <3>2 DEF TokenOf
    <3>4. TokenOK'
      BY <1>1, <3>1, <3>2, <3>3 DEF TokenOK, KeyOf, KeyEnd
    <3> QED  BY <1>3, <2>m, <3>1, <3>4
  <2>7. Fails(h) => Refuse(h)
    BY DEF Fails
  <2> QED  BY <1>6, <2>2, <2>3, <2>4, <2>5, <2>6, <2>7 DEF Stamp
<1> QED  BY <1>4, <1>5, <1>6, NextIsServiceStep

LEMMA ModelInv == Spec => [](TimeTypeOK /\ KeyInv /\ ServiceInv)
<1> DEFINE I == TimeTypeOK /\ KeyInv /\ ServiceInv
<1>1. Init => I
  BY TimeTyped, KeyInit, ServiceInit
<1>2. I /\ [Next]_vars => I'
  <2> SUFFICES ASSUME I, [Next]_vars PROVE I'
    OBVIOUS
  <2>1. slot \in Slot /\ KeysShape
    BY DEF TimeTypeOK, KeyInv
  <2>2. TimeTypeOK' /\ KeyInv'
    BY <2>1, TimeStaysTyped, NextIsTimeStep, KeyStays, NextIsKeyStep
  <2>3. ServiceInv'
    BY <2>1, ServiceStays
  <2> QED  BY <2>2, <2>3
<1> QED  BY <1>1, <1>2, PTL DEF Spec

JobsOK == jobs \in 0 .. MaxJobs

LEMMA JobsBounded == JobsOK /\ [Next]_vars => JobsOK'
<1> SUFFICES ASSUME JobsOK, [Next]_vars PROVE JobsOK'
  OBVIOUS
<1>1. jobs' = jobs \/ Count
  <2>1. CASE MonitorStep \/ World
    BY <2>1 DEF MonitorStep, World
  <2>2. CASE Commands
    BY <2>2 DEF Commands, Enroll, EnrollBegin, EnrollGenerate, EnrollRequest,
       EnrollAsksAgain, EnrollTruncate, EnrollWrite, EnrollTruncateChain,
       EnrollWriteChain, EnrollDies, Retire, RetireDecide, RetireDestroy, RetireGivesUp
  <2>3. CASE Enrolled \/ Boot \/ Serve \/ CannotServe \/ Crash
    BY <2>3 DEF Enrolled, Boot, Serve, CannotServe, Crash
  <2>4. CASE ReloadRead \/ ReloadNothing \/ ReloadAdopt
    BY <2>4 DEF ReloadRead, ReloadNothing, ReloadAdopt
  <2>5. CASE \E h \in Handler : Stamp(h)
    BY <2>5 DEF Stamp, Take, Trace, ReadClock, Sign, Fails, Refuse
  <2>6. CASE UNCHANGED vars
    BY <2>6 DEF vars
  <2> QED  BY <2>1, <2>2, <2>3, <2>4, <2>5, <2>6 DEF Next
<1> QED  BY <1>1, KeysAssumption DEF Count, JobsOK

(* Every variable has its type, for every value of the constants.          *)
THEOREM TsaTypeCorrect == Spec => []TypeOK
<1>1. Init => JobsOK
  BY KeysAssumption DEF Init, KeysInit, JobsOK
<1>2. TimeTypeOK /\ KeyInv /\ ServiceInv /\ JobsOK => TypeOK
  BY DEF JobsOK, KeyInv, KeysShape, ServiceInv, MaterialShape, HandlersOK, JobOf, TokenOK,
     TokenOf, KeysTypeOK, TypeOK
<1> QED  BY <1>1, <1>2, ModelInv, JobsBounded, PTL DEF Spec

(* A token verifies: the key that signed it is the one that the            *)
(* certificate it carries names, at a time before the end of that key, for *)
(* any number of handlers, renewals, reloads and retirements               *)
(* (timestamp_inner).                                                      *)
THEOREM TokensVerify == Spec => []TokenVerifies
<1>1. TimeTypeOK /\ KeyInv /\ ServiceInv => TokenVerifies
  BY DEF ServiceInv, TokenOK, TokenVerifies
<1> QED  BY <1>1, ModelInv, PTL

----------------------------------------------------------------------------
(* The leap second.  A status with trace rests on the answer of a server   *)
(* that is no liar: it announces the leap second, or was measured after    *)
(* the leap day.  So do what a handler copies from it and the token.       *)

Fresh(x) ==
    /\ x.lastSync \in Slot /\ x.lastSync <= slot
    /\ x.leap \/ DayOf[x.lastSync] > LeapDay

Held(x) ==
    /\ ~(x.genTime \in LastMinute /\ DayOf[x.genTime] = LeapDay)
    /\ DayOf[x.genTime] > LeapDay => DayOf[x.lastSync] > LeapDay

AnswersAreTrue ==
    /\ \A i \in Reached(samples) : samples[i].at <= slot
    /\ \A i \in Reached(samples) \ Liar :
          samples[i].leap <=> DayOf[samples[i].at] = LeapDay
DraftIsFresh == draft.traceable => Fresh(draft)
StatusIsFresh == status.traceable => Fresh(status)
HandlerIsFresh(r) ==
    /\ r.at \in {"clock", "sign"} => Fresh(r)
    /\ r.at = "sign" => Held(r)
HandlersAreFresh == \A h \in Handler : HandlerIsFresh(handler[h])
TokenIsHeld == token # NoToken => Held(token)

LeapInv ==
    FewLiars /\ Enforce =>
        /\ AnswersAreTrue /\ DraftIsFresh /\ StatusIsFresh
        /\ HandlersAreFresh /\ TokenIsHeld

LEMMA DaysGoOn ==
  /\ LeapDay \in Nat
  /\ \A s \in Slot : DayOf[s] \in Nat /\ LeapDay <= DayOf[s]
  /\ \A s, t \in Slot : s <= t => DayOf[s] <= DayOf[t]
<1>1. 0 \in Slot /\ \A s \in Slot : 0 <= s
  BY TimeAssumption DEF Slot
<1>2. \A s \in Slot : DayOf[s] \in Nat
  BY TimeAssumption
<1> QED  BY <1>1, <1>2, TimeAssumption

LEMMA EvaluatedIsFresh ==
  ASSUME TimeTypeOK, FewLiars, AnswersAreTrue, NEW t \in Slot \cup {None},
         IsNewest(t, samples), Traceable(samples, t, slot)
  PROVE  Fresh(Evaluated(samples, t, slot))
<1>1. PICK i \in Reached(samples) : i \notin Liar
  BY QuorumHasAnHonest
<1>2. PICK j \in Reached(samples) :
         samples[j].at = t /\ \A k \in Reached(samples) : samples[k].at <= t
  BY <1>1 DEF IsNewest
<1>3. samples[i].at \in Slot /\ samples[j].at \in Slot
  <2>1. samples[i] \in Sample /\ samples[j] \in Sample
    BY ElementOfSeq DEF TimeTypeOK, Reached
  <2> QED  BY <2>1 DEF Sample
<1>4. t \in Slot /\ t <= slot /\ samples[i].at <= t
  BY <1>1, <1>2, <1>3 DEF AnswersAreTrue
<1>5. Announced(samples) \/ DayOf[t] > LeapDay
  <2>1. CASE samples[i].leap
    BY <1>1, <2>1 DEF Announced
  <2>2. CASE ~samples[i].leap
    <3>1. DayOf[samples[i].at] # LeapDay
      BY <1>1, <2>2 DEF AnswersAreTrue
    <3>2. /\ DayOf[samples[i].at] \in Nat /\ DayOf[t] \in Nat /\ LeapDay \in Nat
          /\ LeapDay <= DayOf[samples[i].at] /\ DayOf[samples[i].at] <= DayOf[t]
      BY <1>3, <1>4, DaysGoOn
    <3> QED  BY <3>1, <3>2
  <2> QED  BY <2>1, <2>2
<1> QED  BY <1>4, <1>5 DEF Fresh, Evaluated

LEMMA FreshStays ==
  ASSUME TimeTypeOK, TimeStep, NEW x, Fresh(x)
  PROVE  x.lastSync \in Slot /\ x.lastSync <= slot'
<1>1. slot \in Nat /\ slot' \in Nat /\ slot <= slot' /\ x.lastSync \in Nat
  BY TimeGoesOn DEF TimeTypeOK, Slot, Fresh
<1> QED  BY <1>1 DEF Fresh

LEMMA LeapInit == Init => LeapInv
  BY ReachedOfNone DEF Init, TimeInit, LeapInv, AnswersAreTrue, DraftIsFresh,
     StatusIsFresh, HandlersAreFresh, HandlerIsFresh, TokenIsHeld, NoStatus, AtRest

LEMMA ClockTellsLeap ==
  ASSUME TimeTypeOK, FewLiars, TimeStep, AnswersAreTrue, DraftIsFresh, StatusIsFresh
  PROVE  AnswersAreTrue' /\ DraftIsFresh' /\ StatusIsFresh'
<1> USE DEF DraftIsFresh, StatusIsFresh
<1>t. slot \in Nat /\ slot' \in Nat /\ slot <= slot' /\ Slot \subseteq Nat
  BY TimeGoesOn DEF TimeTypeOK, Slot
<1>d. UNCHANGED draft => DraftIsFresh'
  BY FreshStays DEF Fresh
<1>s. UNCHANGED status => StatusIsFresh'
  BY FreshStays DEF Fresh
<1>e. samples' = <<>> => AnswersAreTrue'
  BY ReachedOfNone DEF AnswersAreTrue
<1>a. UNCHANGED samples => AnswersAreTrue'
  <2>1. ASSUME NEW i \in Reached(samples) PROVE samples[i].at <= slot'
    <3>1. samples[i] \in Sample
      BY ElementOfSeq DEF TimeTypeOK, Reached
    <3>2. samples[i].at \in Nat /\ samples[i].at <= slot
      BY <1>t, <3>1 DEF Sample, AnswersAreTrue
    <3> QED  BY <1>t, <3>2
  <2> QED  BY <2>1 DEF AnswersAreTrue
<1>n. NoStatus.traceable = FALSE
  BY DEF NoStatus
<1>1. CASE BeginPoll
  BY <1>1, <1>d, <1>s, <1>e DEF BeginPoll
<1>2. CASE QueryNext
  <2>0. UNCHANGED <<slot, draft, status>>
    BY <1>2 DEF QueryNext
  <2>1. PICK s \in Sample :
           /\ samples' = Append(samples, s) /\ s.at = slot
           /\ s.ok /\ Len(samples) + 1 \notin Liar => (s.leap <=> DayOf[slot] = LeapDay)
    BY <1>2, QueryGives
  <2>2. ASSUME NEW i \in Reached(samples')
        PROVE  /\ samples'[i].at <= slot
               /\ i \notin Liar => (samples'[i].leap <=> DayOf[samples'[i].at] = LeapDay)
    <3>0. samples \in Seq(Sample) /\ i \in Reached(Append(samples, s))
      BY <2>1, <2>2 DEF TimeTypeOK
    <3>1. CASE i \in Reached(samples) /\ samples'[i] = samples[i]
      BY <3>1 DEF AnswersAreTrue
    <3>2. CASE i = Len(samples) + 1 /\ s.ok /\ samples'[i] = s
      BY <1>t, <2>1, <3>2
    <3> QED  BY <2>1, <3>0, <3>1, <3>2, ReachedOfAppend
  <2>3. AnswersAreTrue'
    BY <2>0, <2>2 DEF AnswersAreTrue
  <2> QED  BY <1>d, <1>s, <2>0, <2>3
<1>3. CASE Evaluate
  <2>1. PICK t \in Slot \cup {None} :
           IsNewest(t, samples) /\ draft' = Evaluated(samples, t, slot)
    BY <1>3 DEF Evaluate
  <2>2. UNCHANGED <<slot, status>> /\ samples' = <<>>
    BY <1>3 DEF Evaluate
  <2>3. draft'.traceable = Traceable(samples, t, slot)
    BY <2>1 DEF Evaluated
  <2>4. ASSUME draft'.traceable PROVE Fresh(draft)'
    <3>1. Fresh(Evaluated(samples, t, slot))
      BY <2>1, <2>3, <2>4, EvaluatedIsFresh
    <3> QED  BY <2>1, <2>2, <3>1 DEF Fresh
  <2> QED  BY <1>s, <1>e, <2>2, <2>4
<1>4. ASSUME NEW recorded \in BOOLEAN, Publish(recorded)
      PROVE  AnswersAreTrue' /\ DraftIsFresh' /\ StatusIsFresh'
  <2>1. UNCHANGED <<slot, samples>> /\ draft' = NoStatus
    BY <1>4 DEF Publish
  <2>2. /\ status'.traceable => draft.traceable
        /\ status'.leap = draft.leap /\ status'.lastSync = draft.lastSync
    BY <1>4 DEF Publish, TimeTypeOK, Status
  <2>3. StatusIsFresh'
    BY <2>1, <2>2 DEF Fresh
  <2> QED  BY <1>a, <1>n, <2>1, <2>3
<1>5. CASE StartMonitor \/ StopMonitor
  BY <1>5, <1>e, <1>n DEF StartMonitor, StopMonitor
<1>6. CASE Tick \/ ClockMoves \/ UNCHANGED timeVars
  <2>1. UNCHANGED <<samples, draft, status>>
    BY <1>6 DEF Tick, ClockMoves, timeVars
  <2> QED  BY <1>a, <1>d, <1>s, <2>1
<1> QED  BY <1>1, <1>2, <1>3, <1>4, <1>5, <1>6 DEF TimeStep

LEMMA HandlersHoldLeap ==
  ASSUME TimeTypeOK, ServiceInv, Enforce, [Next]_vars,
         StatusIsFresh, HandlersAreFresh, TokenIsHeld
  PROVE  HandlersAreFresh' /\ TokenIsHeld'
<1>0. TimeStep /\ slot \in Slot /\ Slot \subseteq Nat /\ None \notin Slot
  BY NextIsTimeStep, TimeAssumption DEF TimeTypeOK, Slot
<1>h. handler \in [Handler -> JobOf]
  BY DEF ServiceInv, HandlersOK
<1>1. CASE Refit
  <2>1. UNCHANGED <<handler, token>>
    BY <1>1 DEF Refit
  <2> QED
    BY <1>0, <2>1, FreshStays DEF HandlersAreFresh, HandlerIsFresh, TokenIsHeld,
       Fresh, Held
<1>2. CASE Down
  <2>1. handler' = [h \in Handler |-> AtRest] /\ UNCHANGED token
    BY <1>2 DEF Down
  <2>2. AtRest.at = "idle"
    BY DEF AtRest
  <2> QED  BY <2>1, <2>2 DEF HandlersAreFresh, HandlerIsFresh, TokenIsHeld, Held
<1>3. ASSUME NEW h \in Handler, Stamp(h) PROVE HandlersAreFresh' /\ TokenIsHeld'
  <2>1. UNCHANGED slot
    BY <1>3 DEF Stamp, Take, Trace, ReadClock, Sign, Fails, Refuse, timeVars
  <2>2. HandlerIsFresh(handler[h])
    BY DEF HandlersAreFresh
  <2>m. ASSUME NEW r, HandlerIsFresh(r), handler' = [handler EXCEPT ![h] = r]
        PROVE  HandlersAreFresh'
    <3>1. \A g \in Handler : handler'[g] = IF g = h THEN r ELSE handler[g]
      BY <1>h, <2>m
    <3>2. \A g \in Handler : HandlerIsFresh(handler'[g])
      BY <2>m, <3>1 DEF HandlersAreFresh
    <3> QED  BY <2>1, <3>2 DEF HandlersAreFresh, HandlerIsFresh, Fresh, Held
  <2>u. UNCHANGED token => TokenIsHeld'
    BY DEF TokenIsHeld, Held
  <2>3. HandlerIsFresh(AtRest)
    BY DEF HandlerIsFresh, AtRest
  <2>4. CASE Take(h)
    <3> DEFINE r == [at |-> "trace", certificate |-> material.certificate,
                     leap |-> FALSE, lastSync |-> None, genTime |-> None]
    <3>1. handler' = [handler EXCEPT ![h] = r] /\ token' = NoToken
      BY <2>4 DEF Take
    <3>2. HandlerIsFresh(r)
      BY DEF HandlerIsFresh
    <3> HIDE DEF r
    <3> QED  BY <2>m, <3>1, <3>2 DEF TokenIsHeld
  <2>5. CASE Refuse(h)
    <3>1. handler' = [handler EXCEPT ![h] = AtRest] /\ UNCHANGED token
      BY <2>5 DEF Refuse
    <3> QED  BY <2>m, <2>u, <2>3, <3>1
  <2>6. CASE Trace(h) /\ ~Refuse(h)
    <3> DEFINE r == [handler[h] EXCEPT !.at = "clock", !.leap = status.leap,
                                       !.lastSync = status.lastSync]
    <3>1. /\ handler' = [handler EXCEPT ![h] = r] /\ status.traceable
          /\ UNCHANGED token
      BY <2>6 DEF Trace
    <3>2. r.at = "clock" /\ r.leap = status.leap /\ r.lastSync = status.lastSync
      BY <1>h DEF JobOf
    <3>3. HandlerIsFresh(r)
      BY <3>1, <3>2 DEF HandlerIsFresh, StatusIsFresh, Fresh
    <3> HIDE DEF r
    <3> QED  BY <2>m, <2>u, <3>1, <3>3
  <2>7. CASE ReadClock(h) /\ ~Refuse(h)
    <3> DEFINE r == [handler[h] EXCEPT !.at = "sign", !.genTime = slot]
    <3>1. /\ handler' = [handler EXCEPT ![h] = r] /\ handler[h].at = "clock"
          /\ ~LeapBlocks(handler[h], slot) /\ UNCHANGED token
      BY <2>7 DEF ReadClock
    <3>2. /\ r.at = "sign" /\ r.leap = handler[h].leap
          /\ r.lastSync = handler[h].lastSync /\ r.genTime = slot
      BY <1>h DEF JobOf
    <3>3. Fresh(handler[h])
      BY <2>2, <3>1 DEF HandlerIsFresh
    <3>4. DayOf[slot] \in Nat /\ DayOf[handler[h].lastSync] \in Nat /\ LeapDay \in Nat
          /\ DayOf[handler[h].lastSync] <= DayOf[slot]
      BY <1>0, <3>3, DaysGoOn DEF Fresh
    <3>5. /\ ~(slot \in LastMinute /\ DayOf[slot] = LeapDay)
          /\ DayOf[slot] > LeapDay => DayOf[handler[h].lastSync] > LeapDay
      <4>1. CASE handler[h].leap
        BY <3>1, <3>4, <4>1 DEF LeapBlocks
      <4>2. CASE DayOf[handler[h].lastSync] > LeapDay
        BY <3>4, <4>2
      <4> QED  BY <3>3, <4>1, <4>2 DEF Fresh
    <3>6. HandlerIsFresh(r)
      BY <3>2, <3>3, <3>5 DEF HandlerIsFresh, Fresh, Held
    <3> HIDE DEF r
    <3> QED  BY <2>m, <2>u, <3>1, <3>6
  <2>8. CASE Sign(h)
    <3>1. /\ handler' = [handler EXCEPT ![h] = AtRest] /\ handler[h].at = "sign"
          /\ token'.lastSync = handler[h].lastSync
          /\ token'.genTime = handler[h].genTime
      BY <2>8 DEF Sign
    <3>2. Held(handler[h])
      BY <2>2, <3>1 DEF HandlerIsFresh
    <3>3. TokenIsHeld'
      BY <3>1, <3>2 DEF TokenIsHeld, Held
    <3> QED  BY <2>m, <2>3, <3>1, <3>3
  <2>9. Fails(h) => Refuse(h)
    BY DEF Fails
  <2> QED  BY <1>3, <2>4, <2>5, <2>6, <2>7, <2>8, <2>9 DEF Stamp
<1> QED  BY <1>1, <1>2, <1>3, NextIsServiceStep

(* No token tells a time of the last minute of the leap day, nor one of    *)
(* the next day on the strength of measures of the leap day, for any       *)
(* servers, liars below the quorum and handlers (leap_second_blocks).      *)
THEOREM LeapSecondsAreHeld == Spec => []LeapSecondIsHeld
<1> DEFINE M == TimeTypeOK /\ KeyInv /\ ServiceInv
<1>1. Init => LeapInv
  BY LeapInit
<1>2. LeapInv /\ M /\ [Next]_vars => LeapInv'
  <2> SUFFICES ASSUME LeapInv, M, [Next]_vars, FewLiars /\ Enforce
               PROVE  /\ AnswersAreTrue' /\ DraftIsFresh' /\ StatusIsFresh'
                      /\ HandlersAreFresh' /\ TokenIsHeld'
    BY DEF LeapInv, FewLiars
  <2>1. TimeStep
    BY NextIsTimeStep
  <2> QED  BY <2>1, ClockTellsLeap, HandlersHoldLeap DEF LeapInv
<1>3. LeapInv => LeapSecondIsHeld
  BY DEF LeapInv, TokenIsHeld, Held, LeapSecondIsHeld
<1>4. Spec => []M
  BY ModelInv
<1> QED  BY <1>1, <1>2, <1>3, <1>4, PTL DEF Spec
=============================================================================
