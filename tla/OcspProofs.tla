------------------------------ MODULE OcspProofs ------------------------------
(***************************************************************************)
(* Theorems about the OCSP responder, for any serials, requests and CRLs.  *)
(* What is answered comes from a CRL that was published, and what a        *)
(* published CRL tells stays true.                                         *)
(***************************************************************************)
EXTENDS OcspResponder, TLAPS

USE DEF feedVars, responderVars

LEMMA CallersAsk == Asker \subseteq Caller /\ Refresher \in Caller
BY DEF Caller

-----------------------------------------------------------------------------
(* Types. *)

\* A CRL to install was published.
DownloadsOK == \A a \in Caller : pc[a] = "install" => download[a] \in feed

LEMMA TypeInit == Init => TypeOK /\ DownloadsOK
<1> SUFFICES ASSUME Init PROVE TypeOK /\ DownloadsOK
  OBVIOUS
<1>1. FeedTypeOK
  BY DEF Init, FeedInit, FeedTypeOK
<1>2. EmptyCrl \in Snapshot
  BY DEF EmptyCrl, Snapshot
<1>3. NoReply \in [kind : {"none", "tryLater", "successful"}, found : SUBSET Found]
  BY DEF NoReply
<1>4. DownloadsOK
  BY DEF Init, DownloadsOK
<1> QED  BY <1>1, <1>2, <1>3, <1>4 DEF Init, TypeOK

LEMMA StatusOfType == ASSUME NEW s PROVE StatusOf(s) \in Answer
BY DEF StatusOf, Answer

\* A lookup adds one status to one of the two lists of its request.
LEMMA LookupAdds ==
    ASSUME TypeOK, NEW a \in Caller, Lookup(a)
    PROVE  \E s \in Serial :
              LET f == [serial |-> s, status |-> StatusOf(s), number |-> snapshot.number]
              IN  /\ f \in Found
                  /\ \/ again' = [again EXCEPT ![a] = @ \cup {f}] /\ UNCHANGED found
                     \/ found' = [found EXCEPT ![a] = @ \cup {f}] /\ UNCHANGED again
<1>1. PICK s \in Unlooked(a) :
          LET f == [serial |-> s, status |-> StatusOf(s), number |-> snapshot.number]
          IN  IF second[a]
              THEN again' = [again EXCEPT ![a] = @ \cup {f}] /\ UNCHANGED found
              ELSE found' = [found EXCEPT ![a] = @ \cup {f}] /\ UNCHANGED again
  BY DEF Lookup
<1>2. s \in Serial
  BY DEF Unlooked, TypeOK
<1>3. [serial |-> s, status |-> StatusOf(s), number |-> snapshot.number] \in Found
  BY <1>2, StatusOfType DEF Found, TypeOK, Snapshot
<1> QED  BY <1>1, <1>2, <1>3

\* The authority adds to what it issued, revoked and published, and touches
\* nothing of the responder.
LEMMA AuthorityType ==
    ASSUME FeedTypeOK, FeedNext
    PROVE  FeedTypeOK' /\ feed \subseteq feed'
BY DEF FeedTypeOK, FeedNext, IssueCertificate, Revoke, Publish

LEMMA TypeStep == TypeOK /\ DownloadsOK /\ [Next]_vars => TypeOK' /\ DownloadsOK'
<1> SUFFICES ASSUME TypeOK, DownloadsOK, [Next]_vars PROVE TypeOK' /\ DownloadsOK'
  OBVIOUS
<1> USE CallersAsk DEF DownloadsOK
<1>1. CASE StartPeriodic
  BY <1>1 DEF TypeOK, FeedTypeOK, StartPeriodic, Goto
<1>2. ASSUME NEW a \in Caller, Get(a) PROVE TypeOK' /\ DownloadsOK'
  <2>1. Resumes(a) \in {"idle", "lookup"}
    BY DEF Resumes
  <2>2. pc' \in [Caller -> {"idle", "get", "install", "lookup"}]
    BY <1>2, <2>1 DEF Get, Goto, TypeOK
  <2>3. download' \in [Caller -> FeedCrl \cup {NoCrl}]
    BY <1>2 DEF Get, TypeOK, FeedTypeOK
  <2>4. DownloadsOK'
    BY <1>2, <2>1 DEF Get, Goto, TypeOK
  <2> QED  BY <1>2, <2>2, <2>3, <2>4 DEF Get, TypeOK, FeedTypeOK
<1>3. ASSUME NEW a \in Caller, Install(a) PROVE TypeOK' /\ DownloadsOK'
  <2>1. Resumes(a) \in {"idle", "lookup"}
    BY DEF Resumes
  <2>2. pc' \in [Caller -> {"idle", "get", "install", "lookup"}]
    BY <1>3, <2>1 DEF Install, Goto, TypeOK
  <2>3. download' \in [Caller -> FeedCrl \cup {NoCrl}]
    BY <1>3 DEF Install, TypeOK
  <2>4. download[a] \in Snapshot
    BY <1>3 DEF Install, TypeOK, FeedTypeOK, FeedCrl, Snapshot
  <2>5. snapshot' \in Snapshot /\ fetched' \in BOOLEAN /\ aged' \in BOOLEAN
    BY <1>3, <2>4 DEF Install, TypeOK
  <2>6. DownloadsOK'
    BY <1>3, <2>1 DEF Install, Goto, TypeOK
  <2> QED  BY <1>3, <2>2, <2>3, <2>5, <2>6 DEF Install, TypeOK, FeedTypeOK
<1>4. ASSUME NEW a \in Asker, Lookup(a) PROVE TypeOK' /\ DownloadsOK'
  <2>1. PICK f \in Found :
            \/ again' = [again EXCEPT ![a] = @ \cup {f}] /\ UNCHANGED found
            \/ found' = [found EXCEPT ![a] = @ \cup {f}] /\ UNCHANGED again
    BY <1>4, LookupAdds
  <2>2. found' \in [Caller -> SUBSET Found] /\ again' \in [Caller -> SUBSET Found]
    BY <2>1 DEF TypeOK
  <2> QED  BY <1>4, <2>2 DEF Lookup, TypeOK, FeedTypeOK
<1>5. ASSUME NEW a \in Asker, LookupStale(a) \/ Conclude(a) PROVE TypeOK' /\ DownloadsOK'
  <2>1. PICK r : AnswerWith(a, r) /\ r \in {TryLater, Successful(found[a]), Successful(again[a])}
    BY <1>5 DEF LookupStale, Conclude, Collected
  <2>2. r \in [kind : {"none", "tryLater", "successful"}, found : SUBSET Found]
    BY <2>1 DEF TryLater, Successful, TypeOK
  <2>3. UNCHANGED <<feedVars, snapshot, fetched, aged, lapsed, cooldown, asked,
                    found, again, download, second>>
    BY <1>5 DEF LookupStale, Conclude
  <2>4. /\ reply' \in [Caller -> [kind : {"none", "tryLater", "successful"}, found : SUBSET Found]]
        /\ pc' \in [Caller -> {"idle", "get", "install", "lookup"}]
    BY <2>1, <2>2 DEF AnswerWith, Goto, TypeOK
  <2> QED  BY <2>1, <2>3, <2>4 DEF AnswerWith, Goto, TypeOK, FeedTypeOK
<1>6. ASSUME NEW a \in Asker, RefreshOnDemand(a) PROVE TypeOK' /\ DownloadsOK'
  BY <1>6 DEF RefreshOnDemand, Goto, TypeOK, FeedTypeOK
<1>7. ASSUME NEW a \in Asker, NEW S \in SUBSET Serial, Ask(a, S) PROVE TypeOK' /\ DownloadsOK'
  <2>1. /\ asked' \in [Caller -> SUBSET Serial]
        /\ found' \in [Caller -> SUBSET Found] /\ again' \in [Caller -> SUBSET Found]
        /\ second' \in [Caller -> BOOLEAN]
        /\ pc' \in [Caller -> {"idle", "get", "install", "lookup"}]
    BY <1>7 DEF Ask, Goto, TypeOK
  <2>2. reply' \in [Caller -> [kind : {"none", "tryLater", "successful"}, found : SUBSET Found]]
    BY <1>7 DEF Ask, TypeOK, NoReply
  <2> QED  BY <1>7, <2>1, <2>2 DEF Ask, Goto, TypeOK, FeedTypeOK
<1>8. CASE Age \/ CooldownEnds
  BY <1>8 DEF Age, CooldownEnds, TypeOK, FeedTypeOK
<1>9. CASE Lapse
  <2>1. lapsed' \subseteq CrlNumber
    BY <1>9 DEF Lapse, TypeOK, FeedTypeOK, FeedCrl
  <2> QED  BY <1>9, <2>1 DEF Lapse, TypeOK, FeedTypeOK
<1>10. CASE Authority
  BY <1>10, AuthorityType DEF Authority, TypeOK
<1>11. CASE Restart
  BY <1>11 DEF Restart, TypeOK, FeedTypeOK, Snapshot, EmptyCrl, NoReply
<1>12. CASE UNCHANGED vars
  BY <1>12 DEF vars, TypeOK, FeedTypeOK
<1> QED
  BY <1>1, <1>2, <1>3, <1>4, <1>5, <1>6, <1>7, <1>8, <1>9, <1>10, <1>11, <1>12
  DEF Next, Refresh, Handle

\* Every variable has its type.
THEOREM OcspTypeCorrect == Spec => []TypeOK
BY TypeInit, TypeStep, PTL DEF Spec

-----------------------------------------------------------------------------
(* What is told is true. *)

\* What a CRL lists is so, and stays so.
FeedIsTrue ==
    \A c \in feed : /\ c.revoked \subseteq c.issued
                    /\ \A s \in c.issued : status[s] # "unissued"
                    /\ \A s \in c.revoked : status[s] = "revoked"

\* The snapshot of a responder that has one is a CRL that was published.
SnapshotIsPublished == fetched => snapshot \in feed

\* The status is the one that some published CRL gives to the serial.
Told(f) ==
    \E c \in feed : /\ c.number = f.number
                    /\ f.status = "revoked" <=> f.serial \in c.revoked
                    /\ f.status = "unknown" <=> f.serial \notin c.issued

RequestsAreTold ==
    \A a \in Caller : \A f \in found[a] \cup again[a] \cup reply[a].found : Told(f)

TruthInv == FeedIsTrue /\ SnapshotIsPublished /\ RequestsAreTold

LEMMA TruthInit == Init => TruthInv
BY DEF Init, FeedInit, TruthInv, FeedIsTrue, SnapshotIsPublished, RequestsAreTold, NoReply

\* The authority keeps its promises, so that what it published stays true.
LEMMA FeedStaysTrue ==
    ASSUME FeedTypeOK, FeedIsTrue, FeedNext
    PROVE  FeedIsTrue' /\ feed \subseteq feed'
<1>1. CASE \E c \in FeedCrl : Publish(c)
  BY <1>1 DEF Publish, FeedIsTrue
<1>2. ASSUME NEW s \in Serial, IssueCertificate(s) \/ Revoke(s)
      PROVE  FeedIsTrue' /\ feed \subseteq feed'
  <2>1. /\ UNCHANGED feed
        /\ \/ status' = [status EXCEPT ![s] = "good"] /\ status[s] = "unissued"
           \/ status' = [status EXCEPT ![s] = "revoked"] /\ status[s] = "good"
    BY <1>2 DEF IssueCertificate, Revoke
  <2>2. ASSUME NEW c \in feed PROVE c.issued \subseteq Serial /\ c.revoked \subseteq Serial
    BY DEF FeedTypeOK, FeedCrl
  <2> QED  BY <2>1, <2>2 DEF FeedIsTrue, FeedTypeOK
<1> QED  BY <1>1, <1>2 DEF FeedNext

\* A lookup tells what the snapshot does.
LEMMA LookupTells ==
    ASSUME TypeOK, TruthInv, ~Stale, NEW s, NEW f,
           f = [serial |-> s, status |-> StatusOf(s), number |-> snapshot.number]
    PROVE  Told(f)
<1>1. snapshot \in feed
  BY DEF Stale, TruthInv, SnapshotIsPublished
<1>2. snapshot.revoked \subseteq snapshot.issued
  BY <1>1 DEF TruthInv, FeedIsTrue
<1>3. /\ StatusOf(s) = "revoked" <=> s \in snapshot.revoked
      /\ StatusOf(s) = "unknown" <=> s \notin snapshot.issued
  BY <1>2 DEF StatusOf
<1> QED  BY <1>1, <1>3 DEF Told

LEMMA TruthStep ==
    ASSUME TypeOK, DownloadsOK, TruthInv, [Next]_vars
    PROVE  TruthInv'
<1> USE CallersAsk DEF TruthInv
<1>1. CASE StartPeriodic \/ Age \/ Lapse \/ CooldownEnds \/ UNCHANGED vars
  BY <1>1 DEF StartPeriodic, Age, Lapse, CooldownEnds, vars, FeedIsTrue,
     SnapshotIsPublished, RequestsAreTold, Told
<1>2. ASSUME NEW a \in Caller, Get(a) PROVE TruthInv'
  BY <1>2 DEF Get, FeedIsTrue, SnapshotIsPublished, RequestsAreTold, Told
<1>3. ASSUME NEW a \in Caller, Install(a) PROVE TruthInv'
  BY <1>3 DEF Install, DownloadsOK, FeedIsTrue, SnapshotIsPublished, RequestsAreTold, Told
<1>4. ASSUME NEW a \in Asker, Lookup(a) PROVE TruthInv'
  <2>1. PICK s \in Serial :
            LET f == [serial |-> s, status |-> StatusOf(s), number |-> snapshot.number]
            IN  \/ again' = [again EXCEPT ![a] = @ \cup {f}] /\ UNCHANGED found
                \/ found' = [found EXCEPT ![a] = @ \cup {f}] /\ UNCHANGED again
    BY <1>4, LookupAdds
  <2> DEFINE f == [serial |-> s, status |-> StatusOf(s), number |-> snapshot.number]
  <2>2. Told(f)
    BY <1>4, LookupTells DEF Lookup
  <2>3. UNCHANGED <<feedVars, snapshot, fetched, reply>>
    BY <1>4 DEF Lookup
  <2>4. ASSUME NEW b \in Caller,
               NEW g \in found'[b] \cup again'[b] \cup reply'[b].found
        PROVE  g \in found[b] \cup again[b] \cup reply[b].found \/ g = f
    <3> HIDE DEF f
    <3> QED  BY <2>1, <2>3, <2>4 DEF TypeOK, f
  <2>5. \A g : Told(g) => Told(g)'
    BY <2>3 DEF Told
  <2>6. RequestsAreTold'
    <3> HIDE DEF f
    <3> QED  BY <2>2, <2>4, <2>5 DEF RequestsAreTold
  <2> QED  BY <2>3, <2>6 DEF FeedIsTrue, SnapshotIsPublished
<1>5. ASSUME NEW a \in Asker, LookupStale(a) \/ Conclude(a) PROVE TruthInv'
  <2>1. PICK r : AnswerWith(a, r) /\ r \in {TryLater, Successful(found[a]), Successful(again[a])}
    BY <1>5 DEF LookupStale, Conclude, Collected
  <2>2. r.found \subseteq found[a] \cup again[a]
    BY <2>1 DEF TryLater, Successful
  <2>3. UNCHANGED <<feedVars, snapshot, fetched, found, again>>
    BY <1>5 DEF LookupStale, Conclude
  <2>4. \A b \in Caller : reply'[b].found \subseteq reply[b].found \cup found[b] \cup again[b]
    BY <2>1, <2>2 DEF AnswerWith, TypeOK
  <2>5. \A g : Told(g) => Told(g)'
    BY <2>3 DEF Told
  <2>6. RequestsAreTold'
    BY <2>3, <2>4, <2>5 DEF RequestsAreTold
  <2> QED  BY <2>3, <2>6 DEF FeedIsTrue, SnapshotIsPublished
<1>6. ASSUME NEW a \in Asker, RefreshOnDemand(a) PROVE TruthInv'
  BY <1>6 DEF RefreshOnDemand, FeedIsTrue, SnapshotIsPublished, RequestsAreTold, Told
<1>7. ASSUME NEW a \in Asker, NEW S \in SUBSET Serial, Ask(a, S) PROVE TruthInv'
  <2>1. \A b \in Caller : /\ found'[b] \subseteq found[b] /\ again'[b] \subseteq again[b]
                          /\ reply'[b].found \subseteq reply[b].found
    BY <1>7 DEF Ask, TypeOK, NoReply
  <2>2. UNCHANGED <<feedVars, snapshot, fetched>>
    BY <1>7 DEF Ask
  <2>3. \A g : Told(g) => Told(g)'
    BY <2>2 DEF Told
  <2> QED  BY <2>1, <2>2, <2>3 DEF FeedIsTrue, SnapshotIsPublished, RequestsAreTold
<1>8. CASE Authority
  <2>1. FeedIsTrue' /\ feed \subseteq feed' /\ UNCHANGED responderVars
    BY <1>8, FeedStaysTrue DEF Authority, TypeOK
  <2>2. \A g : Told(g) => Told(g)'
    BY <2>1 DEF Told
  <2> QED  BY <2>1, <2>2 DEF SnapshotIsPublished, RequestsAreTold
<1>9. CASE Restart
  BY <1>9 DEF Restart, FeedIsTrue, SnapshotIsPublished, RequestsAreTold, NoReply
<1> QED
  BY <1>1, <1>2, <1>3, <1>4, <1>5, <1>6, <1>7, <1>8, <1>9 DEF Next, Refresh, Handle

\* No answer says what the authority did not publish, nor what is not so.
THEOREM AnswersAreTrue == Spec => []AnswersAreTruthful
<1>1. ASSUME TypeOK, TruthInv PROVE AnswersAreTruthful
  <2>1. ASSUME NEW a \in Asker, NEW f \in reply[a].found
        PROVE  /\ \E c \in feed : /\ c.number = f.number
                                  /\ f.status = "revoked" <=> f.serial \in c.revoked
                                  /\ f.status = "unknown" <=> f.serial \notin c.issued
               /\ f.status # "unknown" => status[f.serial] # "unissued"
               /\ f.status = "revoked" => status[f.serial] = "revoked"
    <3>1. Told(f)
      BY <1>1, <2>1, CallersAsk DEF TruthInv, RequestsAreTold
    <3> QED  BY <1>1, <3>1 DEF Told, TruthInv, FeedIsTrue
  <2> QED  BY <2>1 DEF AnswersAreTruthful, ComesFromTheFeed
<1>2. TypeOK /\ DownloadsOK /\ TruthInv /\ [Next]_vars => TruthInv'
  BY TruthStep
<1> QED  BY <1>1, <1>2, TypeInit, TypeStep, TruthInit, PTL DEF Spec

-----------------------------------------------------------------------------

\* The cache of a running responder never goes back.
THEOREM CacheNeverGoesBack == Spec => SnapshotNeverGoesBack
<1>1. ASSUME TypeOK, DownloadsOK, [Next]_vars
      PROVE  [fetched /\ fetched' => snapshot'.number >= snapshot.number]_vars
  <2> SUFFICES ASSUME fetched, fetched' PROVE snapshot'.number >= snapshot.number
    OBVIOUS
  <2>1. snapshot.number \in Nat
    <3>1. CrlNumber \cup {0} \subseteq Nat
      BY CrlNumberAssumption
    <3>2. snapshot.number \in CrlNumber \cup {0}
      BY <1>1 DEF TypeOK, Snapshot
    <3> QED  BY <3>1, <3>2
  <2>2. ASSUME NEW a \in Caller, Install(a) PROVE snapshot'.number >= snapshot.number
    <3>1. download[a].number \in Nat
      BY <1>1, <2>2, CrlNumberAssumption DEF Install, DownloadsOK, TypeOK, FeedTypeOK, FeedCrl
    <3> QED  BY <2>1, <2>2, <3>1 DEF Install
  <2>3. CASE UNCHANGED snapshot
    BY <2>1, <2>3
  <2>4. CASE Restart
    BY <2>4 DEF Restart
  <2> QED
    BY <1>1, <2>2, <2>3, <2>4 DEF Next, Refresh, Handle, StartPeriodic, Get, Ask, Lookup,
       LookupStale, RefreshOnDemand, Conclude, Age, Lapse, CooldownEnds, Authority, vars
<1> QED  BY <1>1, TypeInit, TypeStep, PTL DEF Spec, SnapshotNeverGoesBack
=============================================================================
