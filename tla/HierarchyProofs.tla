---------------------------- MODULE HierarchyProofs ----------------------------
(***************************************************************************)
(* Proofs about Hierarchy and the tokens it uses, for any tokens' keys,    *)
(* processes and bounds.  Every step of Next is one of the few things that *)
(* can happen to the tokens (HsmStep), to the registered hierarchy         *)
(* (RegistryKinds) and to the ARLs (ArlKinds), or nothing.                 *)
(***************************************************************************)
EXTENDS Hierarchy, FiniteSetTheorems, TLAPS

Eventless == UNCHANGED events \/ Event

HsmStep ==
    \/ \E p \in Process, t \in Token : Open(p, t) /\ UNCHANGED <<keys, made, lost>> /\ Eventless
    \/ \E p \in Process : CloseAll(p) /\ UNCHANGED <<keys, made, lost>> /\ Eventless
    \/ \E t \in Token : Generate(t) /\ UNCHANGED <<handle, lost, events>>
    \/ \E p \in Process, t \in Token, k \in AnyPair : Signs(p, t, k)
    \/ HsmEvent
    \/ UNCHANGED hsmVars

LEMMA ProcessIsHsmStep ==
    ASSUME NEW p \in Process, Step(p)
    PROVE  HsmStep
<1> USE HierarchyAssumption
<1>1. CASE \E op \in {"ceremony", "revoke", "publish", "serve"} : Start(p, op)
  BY <1>1 DEF Start, hsmVars, HsmStep
<1>2. CASE \E t \in Token : OpenKey(p, t)
  BY <1>2 DEF OpenKey, Eventless, HsmStep
<1>3. CASE \E t \in Token : GenerateKey(p, t)
  BY <1>3 DEF GenerateKey, HsmStep
<1>4. CASE ReadRoot(p) \/ ReadIssuing(p)
  <2>1. UNCHANGED <<keys, made, lost, events>> /\ (UNCHANGED handle \/ CloseAll(p))
    BY <1>4 DEF ReadRoot, ReadIssuing, NothingThere, Create, Ends
  <2> QED  BY <2>1 DEF hsmVars, Eventless, HsmStep
<1>5. CASE MatchesRoot(p) \/ Matches(p) \/ ReadRootKey(p) \/ ReadIssuingKey(p)
           \/ JournalCeremony(p) \/ Register(p) \/ RevokeAuthority(p)
           \/ ReadRevokedAuthorities(p) \/ DrawArlNumber(p)
  BY <1>5 DEF MatchesRoot, Matches, ReadRootKey, ReadIssuingKey, JournalCeremony, Register,
              RevokeAuthority, ReadRevokedAuthorities, DrawArlNumber, HsmStep
<1>6. CASE SignRoot(p) \/ SignIssuing(p) \/ SignArl(p) \/ Serve(p)
  <2>1. \E t \in Token, k \in AnyPair : Signs(p, t, k)
    BY <1>6 DEF SignRoot, SignIssuing, SignArl, Serve
  <2> QED  BY <2>1 DEF HsmStep
<1>7. CASE ReadArl(p) \/ SaveArl(p) \/ End(p)
  <2>1. UNCHANGED <<keys, made, lost, events>> /\ (UNCHANGED handle \/ CloseAll(p))
    BY <1>7 DEF ReadArl, SaveArl, End, Ends
  <2> QED  BY <2>1 DEF hsmVars, Eventless, HsmStep
<1>8. CASE Die(p)
  BY <1>8 DEF Die, Ends, Eventless, HsmStep
<1> QED  BY <1>1, <1>2, <1>3, <1>4, <1>5, <1>6, <1>7, <1>8 DEF Step

LEMMA NextIsHsmStep == [Next]_vars => HsmStep
<1> SUFFICES ASSUME [Next]_vars PROVE HsmStep
  OBVIOUS
<1>1. CASE \E p \in Process : Step(p)
  BY <1>1, ProcessIsHsmStep
<1>2. CASE TokenEvent
  BY <1>2 DEF TokenEvent, HsmStep
<1>3. CASE UNCHANGED vars
  BY <1>3 DEF vars, HsmStep
<1> QED  BY <1>1, <1>2, <1>3 DEF Next

-----------------------------------------------------------------------------
(* Types. *)

HandleType ==
    [session : {"closed", "live", "lost"}, checked : BOOLEAN,
     cached : AnyPair \cup {None}, used : SUBSET AnyPair]

LEMMA ReadyType == ASSUME NEW h \in HandleType, NEW t PROVE Ready(h, t) \in HandleType
BY DEF HandleType, Ready, Reconnected

LEMMA TypeInit == Init => HsmTypeOK
BY HsmAssumption DEF Init, HsmInit, HsmTypeOK, Closed, AnyPair

LEMMA EventType == ASSUME HsmTypeOK, Event PROVE events' \in 0 .. MaxEvents
BY HsmAssumption DEF HsmTypeOK, Event

LEMMA TypeStep == HsmTypeOK /\ [Next]_vars => HsmTypeOK'
<1> SUFFICES ASSUME HsmTypeOK, HsmStep PROVE HsmTypeOK'
  BY NextIsHsmStep
<1> USE DEF HsmTypeOK
<1>1. ASSUME NEW p \in Process, NEW t \in Token,
             Open(p, t), UNCHANGED <<keys, made, lost>>, Eventless
      PROVE  HsmTypeOK'
  BY <1>1, EventType DEF Open, Opened, Closed, Eventless
<1>2. ASSUME NEW p \in Process, CloseAll(p), UNCHANGED <<keys, made, lost>>, Eventless
      PROVE  HsmTypeOK'
  BY <1>2, EventType DEF CloseAll, Closed, Eventless
<1>3. ASSUME NEW t \in Token, Generate(t), UNCHANGED <<handle, lost, events>>
      PROVE  HsmTypeOK'
  BY <1>3 DEF Generate, AnyPair
<1>4. ASSUME NEW p \in Process, NEW t \in Token, NEW k \in AnyPair, Signs(p, t, k)
      PROVE  HsmTypeOK'
  <2>1. handle[p][t] \in HandleType
    BY DEF HandleType
  <2>2. [Ready(handle[p][t], t) EXCEPT !.checked = TRUE, !.cached = k,
             !.used = @ \cup {k}] \in HandleType
    BY <2>1, ReadyType DEF HandleType
  <2>3. handle' \in [Process -> [Token -> HandleType]]
    BY <1>4, <2>2 DEF Signs, HandleType
  <2> QED  BY <1>4, <2>3 DEF Signs, HandleType
<1>5. CASE HsmEvent
  <2> PICK t \in Token : \/ SessionLost(t) \/ TokenLost(t)
                         \/ \E i \in Imported : Import(t, i)
    BY <1>5 DEF HsmEvent
  <2>1. events' \in 0 .. MaxEvents
    BY EventType DEF SessionLost, TokenLost, Import
  <2>2. ASSUME Disconnected(t) PROVE handle' \in [Process -> [Token -> HandleType]]
    <3>1. \A h \in HandleType :
              (IF h.session = "live" THEN [h EXCEPT !.session = "lost"] ELSE h) \in HandleType
      BY DEF HandleType
    <3>2. handle \in [Process -> [Token -> HandleType]]
      BY DEF HandleType
    <3> QED  BY <2>2, <3>1, <3>2 DEF Disconnected
  <2>3. CASE SessionLost(t) \/ TokenLost(t)
    BY <2>1, <2>2, <2>3 DEF SessionLost, TokenLost, HandleType
  <2>4. CASE \E i \in Imported : Import(t, i)
    BY <2>1, <2>4 DEF Import, AnyPair
  <2> QED  BY <2>3, <2>4
<1>6. CASE UNCHANGED hsmVars
  BY <1>6 DEF hsmVars
<1> QED  BY <1>1, <1>2, <1>3, <1>4, <1>5, <1>6 DEF HsmStep

\* The tokens and what processes hold open on them keep their type.
THEOREM HierarchyTypeCorrect == Spec => []HsmTypeOK
BY TypeInit, TypeStep, PTL DEF Spec

-----------------------------------------------------------------------------
(* One key signs. *)

\* What a process knows of a token: it signed with the key it remembers only,
\* born in the module; and while it holds the session in which it verified that
\* key, the key is there, so that the only key of the token is that one.
HandleOK(h, t) ==
    /\ h.used \subseteq {h.cached} \ Imported
    /\ h.session = "live" /\ h.checked => h.cached \in keys[t] \ Imported

HandlesOK ==
    /\ \A t \in Token : IsFiniteSet(keys[t])
    /\ \A p \in Process, t \in Token : HandleOK(handle[p][t], t)

LEMMA HandlesInit == Init => HandlesOK
<1> SUFFICES ASSUME Init PROVE HandlesOK
  OBVIOUS
<1>1. \A t \in Token : IsFiniteSet(keys[t])
  BY FS_EmptySet DEF Init, HsmInit
<1> QED  BY <1>1 DEF Init, HsmInit, HandlesOK, HandleOK, Closed

\* A token that grows keeps what is known of it.
LEMMA Grown ==
    ASSUME HsmTypeOK, HandlesOK, NEW t \in Token, NEW k,
           keys' = [keys EXCEPT ![t] = @ \cup {k}], UNCHANGED handle
    PROVE  HandlesOK'
<1>1. \A u \in Token : IsFiniteSet(keys'[u])
  BY FS_AddElement DEF HandlesOK, HsmTypeOK
<1>2. \A u \in Token : keys[u] \subseteq keys'[u]
  BY DEF HsmTypeOK
<1> QED  BY <1>1, <1>2 DEF HandlesOK, HandleOK

\* sign_digest_with.
LEMMA SignsOK ==
    ASSUME HsmTypeOK, HandlesOK, NEW p \in Process, NEW t \in Token,
           NEW k \in AnyPair, Signs(p, t, k)
    PROVE  HandlesOK'
<1> DEFINE h == Ready(handle[p][t], t)
           after == [h EXCEPT !.checked = TRUE, !.cached = k, !.used = @ \cup {k}]
<1>1. /\ handle[p][t].used \subseteq {handle[p][t].cached} \ Imported
      /\ handle[p][t] \in HandleType
  BY DEF HandlesOK, HandleOK, HsmTypeOK, HandleType
<1>2. keys[t] = {k}
  <2>1. k \in keys[t] /\ Cardinality(keys[t]) = 1
    BY DEF Signs, CanSign, TheKey
  <2>2. \E x : keys[t] = {x}
    BY <2>1, FS_Singleton DEF HandlesOK
  <2> QED  BY <2>1, <2>2
<1>3. /\ h.session = "live" /\ h.cached \in {None, k}
      /\ h.checked \/ k \notin Imported
      /\ handle' = [handle EXCEPT ![p][t] = after]
      /\ UNCHANGED keys
  BY DEF Signs, CanSign
<1>4. /\ h \in HandleType
      /\ h.used = handle[p][t].used /\ h.cached = handle[p][t].cached
      /\ h = handle[p][t] \/ ~ h.checked
  BY <1>1, ReadyType DEF Ready, Reconnected, HandleType
<1>5. h.used \subseteq {k}
  BY <1>1, <1>3, <1>4, HsmAssumption DEF AnyPair, HandleType
<1>6. k \notin Imported
  <2>1. CASE h.checked
    BY <1>2, <1>3, <1>4, <2>1, HsmAssumption DEF HandlesOK, HandleOK, AnyPair
  <2> QED  BY <1>3, <2>1
<1>7. after.used \subseteq {k} /\ after.cached = k
  BY <1>4, <1>5 DEF HandleType
<1>8. after.used \subseteq {after.cached} \ Imported /\ after.cached \in keys'[t] \ Imported
  BY <1>2, <1>3, <1>6, <1>7
<1>9. handle'[p][t] = after
  BY <1>3 DEF HsmTypeOK
<1>10. \A q \in Process, u \in Token : q # p \/ u # t => handle'[q][u] = handle[q][u]
  BY <1>3 DEF HsmTypeOK
<1>11. ASSUME NEW q \in Process, NEW u \in Token PROVE HandleOK(handle[q][u], u)'
  <2>1. CASE q = p /\ u = t  BY <1>8, <1>9, <2>1 DEF HandleOK
  <2>2. CASE q # p \/ u # t  BY <1>3, <1>10, <2>2 DEF HandlesOK, HandleOK
  <2> QED  BY <2>1, <2>2
<1> QED  BY <1>3, <1>11 DEF HandlesOK

\* Sessions lost on a token, with its keys or not.
LEMMA DisconnectedOK ==
    ASSUME HsmTypeOK, HandlesOK, NEW t \in Token, Disconnected(t),
           UNCHANGED keys \/ keys' = [keys EXCEPT ![t] = {}]
    PROVE  HandlesOK'
<1>1. \A u \in Token : IsFiniteSet(keys'[u])
  BY FS_EmptySet DEF HandlesOK, HsmTypeOK
<1>2. ASSUME NEW p \in Process, NEW u \in Token PROVE HandleOK(handle[p][u], u)'
  <2>1. CASE u = t
    <3>1. handle'[p][t].used = handle[p][t].used /\ handle'[p][t].cached = handle[p][t].cached
      BY DEF Disconnected, HsmTypeOK
    <3>2. handle'[p][t].session # "live"
      BY DEF Disconnected, HsmTypeOK
    <3> QED  BY <2>1, <3>1, <3>2 DEF HandlesOK, HandleOK
  <2>2. CASE u # t
    <3>1. handle'[p][u] = handle[p][u] /\ keys'[u] = keys[u]
      BY <2>2 DEF Disconnected, HsmTypeOK
    <3> QED  BY <3>1 DEF HandlesOK, HandleOK
  <2> QED  BY <2>1, <2>2
<1> QED  BY <1>1, <1>2 DEF HandlesOK

LEMMA HandlesStep == HsmTypeOK /\ HandlesOK /\ [Next]_vars => HandlesOK'
<1> SUFFICES ASSUME HsmTypeOK, HandlesOK, HsmStep PROVE HandlesOK'
  BY NextIsHsmStep
<1>1. ASSUME NEW p \in Process, NEW t \in Token,
             Open(p, t), UNCHANGED <<keys, made, lost>>
      PROVE  HandlesOK'
  <2>1. \A q \in Process, u \in Token :
            handle'[q][u] = handle[q][u] \/ handle'[q][u] = Opened
    BY <1>1 DEF Open, HsmTypeOK
  <2>2. Opened.used = {} /\ ~ Opened.checked
    BY DEF Opened, Closed
  <2> QED  BY <1>1, <2>1, <2>2 DEF HandlesOK, HandleOK
<1>2. ASSUME NEW p \in Process, CloseAll(p), UNCHANGED <<keys, made, lost>>
      PROVE  HandlesOK'
  <2>1. \A q \in Process, u \in Token :
            handle'[q][u] = handle[q][u] \/ handle'[q][u] = Closed
    BY <1>2 DEF CloseAll, HsmTypeOK
  <2>2. Closed.used = {} /\ ~ Closed.checked
    BY DEF Closed
  <2> QED  BY <1>2, <2>1, <2>2 DEF HandlesOK, HandleOK
<1>3. ASSUME NEW t \in Token, Generate(t), UNCHANGED <<handle, lost, events>>
      PROVE  HandlesOK'
  BY <1>3, Grown DEF Generate
<1>4. CASE HsmEvent
  <2> PICK t \in Token : \/ SessionLost(t) \/ TokenLost(t)
                         \/ \E i \in Imported : Import(t, i)
    BY <1>4 DEF HsmEvent
  <2>1. CASE SessionLost(t) \/ TokenLost(t)
    BY <2>1, DisconnectedOK DEF SessionLost, TokenLost
  <2>2. CASE \E i \in Imported : Import(t, i)
    BY <2>2, Grown DEF Import
  <2> QED  BY <2>1, <2>2
<1>5. CASE UNCHANGED hsmVars
  BY <1>5 DEF hsmVars, HandlesOK, HandleOK
<1> QED  BY <1>1, <1>2, <1>3, <1>4, <1>5, SignsOK DEF HsmStep

\* Pkcs11Token: a process signs with one key of a token, never an imported one.
THEOREM OneKeySigns == Spec => []SignaturesAreOwn
<1>1. HandlesOK => SignaturesAreOwn
  BY DEF HandlesOK, HandleOK, SignaturesAreOwn
<1> QED  BY <1>1, TypeInit, TypeStep, HandlesInit, HandlesStep, PTL DEF Spec

-----------------------------------------------------------------------------
(* One hierarchy: what each process holds, and what is registered. *)

CertificateType == [id : Nat, key : AnyPair \cup {None}, signer : AnyPair \cup {None}]

Op == {"ceremony", "revoke", "publish", "serve"}

JobType ==
    [op : Op \cup {None}, root : CertificateType, issuing : CertificateType,
     revoked : SUBSET Nat, number : Nat, signer : AnyPair \cup {None}]

Label ==
    {"idle", "open root", "open issuing", "generate root", "generate issuing",
     "read root", "read issuing", "match root", "match", "serving",
     "read root key", "sign root", "read issuing key", "sign issuing",
     "journal", "save root", "save issuing", "read arl", "revoke", "read revoked",
     "draw number", "sign arl", "save arl"}

Arl == [number : Nat, lists : SUBSET Nat, signer : AnyPair \cup {None}, root : CertificateType]

TypeInv ==
    /\ HsmTypeOK
    /\ authorities \in [Token -> CertificateType]
    /\ revokedAt \in BOOLEAN /\ overlapped \in BOOLEAN
    /\ swapped \in BOOLEAN /\ crossed \in BOOLEAN /\ answered \in BOOLEAN
    /\ arls \subseteq Arl
    /\ arlNumber \in Nat /\ serials \in Nat
    /\ pc \in [Process -> Label]
    /\ job \in [Process -> JobType]
    /\ \A p \in Process : pc[p] # "idle" => job[p].op \in Op

\* A certificate that a ceremony signed for the root: its key signed it, unless a
\* root lost its key while it was signed; and that key is in the token until the
\* token loses its keys.
Genuine(c) ==
    /\ c.id # 0 /\ c.key \in AnyPair /\ c.signer \in AnyPair
    /\ ~ swapped => c.signer = c.key
    /\ "root" \notin lost => c.key \in keys["root"]

\* Where a process holds the certificate of the root.
HoldsRoot(p) ==
    /\ pc[p] \notin {"idle", "read root", "read root key", "sign root", "serving"}
    /\ pc[p] \in {"open root", "generate root", "open issuing", "generate issuing"}
           => job[p].op # "ceremony"

JobOK(p) ==
    /\ pc[p] \in {"open root", "generate root"} => job[p].op # "serve"
    /\ HoldsRoot(p) => Genuine(job[p].root)
    /\ pc[p] = "sign root" =>
           /\ job[p].root.key \in AnyPair
           /\ ~ swapped \/ "root" \notin lost => job[p].root.key \in keys["root"]
    /\ pc[p] \in {"read issuing key", "sign issuing"} =>
           handle[p]["root"].cached = job[p].root.signer
    /\ pc[p] \in {"journal", "save root", "save issuing"} =>
           job[p].issuing.signer = job[p].root.signer /\ job[p].issuing.id # 0
    /\ pc[p] \in {"save root", "save issuing"} =>
           CeremonyLine(job[p].root, job[p].issuing) \in lines
    /\ pc[p] = "save arl" /\ "root" \notin lost => job[p].signer = job[p].root.key
    /\ pc[p] \in {"generate issuing", "match root", "match"} /\ job[p].op = "serve" =>
           handle[p]["issuing"].used = {}
    /\ pc[p] = "serving" /\ "issuing" \notin lost =>
           /\ job[p].issuing.key \in keys["issuing"]
           /\ handle[p]["issuing"].used \subseteq {job[p].issuing.key}

\* The row of the root comes first; a ceremony that creates finds no issuing
\* authority until it registers its own.
RegistryOK ==
    /\ authorities["root"] = NoCertificate \/ Genuine(authorities["root"])
    /\ authorities["issuing"] # NoCertificate => authorities["root"] # NoCertificate
    /\ \A p \in Process : pc[p] = "save issuing" => authorities["root"] # NoCertificate
    /\ ~ overlapped =>
           \A p \in Process : Creating(p) =>
               /\ authorities["issuing"] = NoCertificate
               /\ pc[p] = "save issuing" => authorities["root"] = job[p].root
               /\ \A q \in Process \ {p} : ~ Creating(q)
    /\ "root" \notin lost => \A a \in arls : a.signer = a.root.key

HierarchyInv ==
    /\ TypeInv /\ HandlesOK
    /\ \A p \in Process : JobOK(p)
    /\ RegistryOK
    /\ OneCeremony

LEMMA AtType ==
    ASSUME TypeInv, NEW p \in Process, NEW l \in Label, NEW v \in JobType,
           v.op \in Op \/ l = "idle", At(p, l, v)
    PROVE  /\ pc' \in [Process -> Label] /\ job' \in [Process -> JobType]
           /\ \A q \in Process : pc'[q] # "idle" => job'[q].op \in Op
BY DEF TypeInv, At

LEMMA NoneType == NoCertificate \in CertificateType /\ NoJob \in JobType
BY DEF NoCertificate, CertificateType, NoJob, JobType

LEMMA HierarchyInit == Init => TypeInv
<1> SUFFICES ASSUME Init PROVE TypeInv
  OBVIOUS
<1> QED  BY TypeInit, NoneType DEF Init, TypeInv, Label

LEMMA ProcessTypes ==
    ASSUME TypeInv, HsmTypeOK', NEW p \in Process, Step(p)
    PROVE  TypeInv'
<1> USE HierarchyAssumption, NoneType
<1>0. job[p] \in JobType /\ (pc[p] # "idle" => job[p].op \in Op)
      /\ authorities["root"] \in CertificateType /\ authorities["issuing"] \in CertificateType
  BY DEF TypeInv
<1>a. ASSUME NEW l \in Label, At(p, l, job[p]), pc[p] # "idle",
             UNCHANGED <<tables, serials, marks>>
      PROVE  TypeInv'
  BY <1>0, <1>a, AtType DEF TypeInv, tables, marks
<1>b. ASSUME At(p, "idle", NoJob)
      PROVE  /\ pc' \in [Process -> Label] /\ job' \in [Process -> JobType]
             /\ \A q \in Process : pc'[q] # "idle" => job'[q].op \in Op
  BY <1>b, AtType DEF Label
<1>1. ASSUME NEW op \in Op, Start(p, op) PROVE TypeInv'
  <2>1. [NoJob EXCEPT !.op = op] \in JobType /\ [NoJob EXCEPT !.op = op].op = op
    BY DEF JobType, NoJob
  <2>2. PICK l \in Label : At(p, l, [NoJob EXCEPT !.op = op])
    BY <1>1 DEF Start, Label
  <2> QED  BY <1>1, <2>1, <2>2, AtType DEF Start, tables, marks, TypeInv
<1>2. ASSUME NEW t \in Token, OpenKey(p, t) \/ GenerateKey(p, t) PROVE TypeInv'
  <2>1. AfterOpening(p, t) \in Label /\ GenerateLabel(t) \in Label /\ pc[p] # "idle"
    BY <1>0, <1>2 DEF AfterOpening, GenerateLabel, OpenLabel, OpenKey, GenerateKey, Label, Op
  <2>2. PICK l \in Label : At(p, l, job[p])
    BY <1>2, <2>1 DEF OpenKey, GenerateKey, Goto
  <2> QED  BY <1>2, <1>a, <2>1, <2>2 DEF OpenKey, GenerateKey
<1>3. CASE ReadRoot(p)
  <2>1. CASE At(p, "idle", NoJob) /\ UNCHANGED overlapped
    BY <1>3, <1>b, <2>1 DEF ReadRoot, tables, TypeInv
  <2>2. CASE Create(p)
    <3>1. pc' \in [Process -> Label] /\ job' \in [Process -> JobType]
          /\ \A q \in Process : pc'[q] # "idle" => job'[q].op \in Op
      BY <1>0, <1>3, <2>2, AtType DEF Create, Goto, ReadRoot, Label
    <3>2. overlapped' \in BOOLEAN
      BY <2>2 DEF Create, TypeInv
    <3> QED  BY <1>3, <3>1, <3>2 DEF ReadRoot, tables, TypeInv
  <2>3. CASE /\ At(p, "read issuing", [job[p] EXCEPT !.root = authorities["root"]])
             /\ UNCHANGED overlapped
    <3>1. [job[p] EXCEPT !.root = authorities["root"]] \in JobType
          /\ [job[p] EXCEPT !.root = authorities["root"]].op = job[p].op
      BY <1>0 DEF JobType
    <3>2. "read issuing" \in Label /\ job[p].op \in Op
      BY <1>0, <1>3 DEF ReadRoot, Label
    <3>3. pc' \in [Process -> Label] /\ job' \in [Process -> JobType]
          /\ \A q \in Process : pc'[q] # "idle" => job'[q].op \in Op
      BY <2>3, <3>1, <3>2, AtType
    <3> QED  BY <1>3, <2>3, <3>3 DEF ReadRoot, tables, TypeInv
  <2> QED  BY <1>3, <2>1, <2>2, <2>3 DEF ReadRoot, NothingThere, Ends
<1>4. CASE ReadIssuing(p)
  <2>1. CASE At(p, "idle", NoJob) /\ UNCHANGED overlapped
    BY <1>4, <1>b, <2>1 DEF ReadIssuing, tables, TypeInv
  <2>2. CASE Create(p)
    <3>1. pc' \in [Process -> Label] /\ job' \in [Process -> JobType]
          /\ \A q \in Process : pc'[q] # "idle" => job'[q].op \in Op
      BY <1>0, <1>4, <2>2, AtType DEF Create, Goto, ReadIssuing, Label
    <3>2. overlapped' \in BOOLEAN
      BY <2>2 DEF Create, TypeInv
    <3> QED  BY <1>4, <3>1, <3>2 DEF ReadIssuing, tables, TypeInv
  <2>3. CASE UNCHANGED overlapped /\ \E l \in Label :
                 \/ At(p, l, job[p])
                 \/ At(p, l, [job[p] EXCEPT !.issuing = authorities["issuing"]])
    <3>1. [job[p] EXCEPT !.issuing = authorities["issuing"]] \in JobType
          /\ [job[p] EXCEPT !.issuing = authorities["issuing"]].op = job[p].op
      BY <1>0 DEF JobType
    <3>2. job[p].op \in Op
      BY <1>0, <1>4 DEF ReadIssuing
    <3>3. pc' \in [Process -> Label] /\ job' \in [Process -> JobType]
          /\ \A q \in Process : pc'[q] # "idle" => job'[q].op \in Op
      BY <1>0, <2>3, <3>1, <3>2, AtType
    <3> QED  BY <1>4, <2>3, <3>3 DEF ReadIssuing, tables, TypeInv
  <2>4. {"open root", "open issuing", "match root"} \subseteq Label
    BY DEF Label
  <2> QED  BY <1>4, <2>1, <2>2, <2>3, <2>4 DEF ReadIssuing, NothingThere, Ends, Goto
<1>5. CASE MatchesRoot(p) \/ Matches(p) \/ Register(p)
  <2>1. [job[p] EXCEPT !.issuing = NoCertificate] \in JobType
        /\ [job[p] EXCEPT !.issuing = NoCertificate].op = job[p].op /\ job[p].op \in Op
    BY <1>0, <1>5 DEF JobType, MatchesRoot, Matches, Register
  <2>2. \E l \in Label : At(p, l, job[p]) \/ At(p, l, [job[p] EXCEPT !.issuing = NoCertificate])
    BY <1>5 DEF MatchesRoot, Matches, Register, Goto, Label
  <2>3. pc' \in [Process -> Label] /\ job' \in [Process -> JobType]
        /\ \A q \in Process : pc'[q] # "idle" => job'[q].op \in Op
    BY <1>0, <2>1, <2>2, AtType
  <2>4. /\ authorities' \in [Token -> CertificateType]
        /\ UNCHANGED <<revokedAt, arls, arlNumber, serials, marks>>
    BY <1>0, <1>5 DEF MatchesRoot, Matches, Register, SaveAuthority, tables, TypeInv, JobType
  <2> QED  BY <2>3, <2>4 DEF TypeInv, marks
<1>6. CASE ReadRootKey(p) \/ SignRoot(p) \/ ReadIssuingKey(p) \/ SignIssuing(p)
  <2>1. serials' \in Nat
    <3>1. NextSerial \/ UNCHANGED serials
      BY <1>6 DEF ReadRootKey, SignRoot, ReadIssuingKey, SignIssuing
    <3> QED  BY <3>1 DEF NextSerial, TypeInv
  <2>2. \A k \in AnyPair : [NoCertificate EXCEPT !.key = k] \in CertificateType
    BY DEF CertificateType, NoCertificate
  <2>3. \A c \in CertificateType, s \in AnyPair :
            [c EXCEPT !.id = serials', !.signer = s] \in CertificateType
    BY <2>1 DEF CertificateType
  <2>4. job[p].root \in CertificateType /\ job[p].issuing \in CertificateType
    BY <1>0 DEF JobType
  <2>5. PICK c \in CertificateType, l \in Label :
            \/ At(p, l, [job[p] EXCEPT !.root = c])
            \/ At(p, l, [job[p] EXCEPT !.issuing = c])
    <3>1. CASE ReadRootKey(p)
      <4>1. PICK k \in AnyPair :
                At(p, "sign root", [job[p] EXCEPT !.root = [NoCertificate EXCEPT !.key = k]])
        BY <3>1 DEF ReadRootKey, PublicKeys, TypeInv, HsmTypeOK
      <4> QED  BY <2>2, <4>1 DEF Label
    <3>2. CASE SignRoot(p)
      <4>1. PICK s \in AnyPair :
                At(p, "read issuing key",
                   [job[p] EXCEPT !.root = [@ EXCEPT !.id = serials', !.signer = s]])
        BY <3>2 DEF SignRoot
      <4>2. At(p, "read issuing key",
               [job[p] EXCEPT !.root = [job[p].root EXCEPT !.id = serials', !.signer = s]])
        BY <1>0, <4>1 DEF JobType
      <4> QED  BY <2>3, <2>4, <4>2 DEF Label
    <3>3. CASE ReadIssuingKey(p)
      <4>1. PICK k \in AnyPair :
                At(p, "sign issuing",
                   [job[p] EXCEPT !.issuing = [NoCertificate EXCEPT !.key = k]])
        BY <3>3 DEF ReadIssuingKey, PublicKeys, TypeInv, HsmTypeOK
      <4> QED  BY <2>2, <4>1 DEF Label
    <3>4. CASE SignIssuing(p)
      <4>1. PICK s \in AnyPair :
                At(p, "journal",
                   [job[p] EXCEPT !.issuing = [@ EXCEPT !.id = serials', !.signer = s]])
        BY <3>4 DEF SignIssuing
      <4>2. At(p, "journal",
               [job[p] EXCEPT !.issuing = [job[p].issuing EXCEPT !.id = serials', !.signer = s]])
        BY <1>0, <4>1 DEF JobType
      <4> QED  BY <2>3, <2>4, <4>2 DEF Label
    <3> QED  BY <1>6, <3>1, <3>2, <3>3, <3>4
  <2>6. PICK v \in JobType : At(p, l, v) /\ v.op = job[p].op
    <3>1. /\ [job[p] EXCEPT !.root = c] \in JobType /\ [job[p] EXCEPT !.root = c].op = job[p].op
          /\ [job[p] EXCEPT !.issuing = c] \in JobType
          /\ [job[p] EXCEPT !.issuing = c].op = job[p].op
      BY <1>0 DEF JobType
    <3> QED  BY <2>5, <3>1
  <2>7. pc[p] # "idle" /\ UNCHANGED <<tables, marks>>
    BY <1>6 DEF ReadRootKey, SignRoot, ReadIssuingKey, SignIssuing
  <2> QED  BY <1>0, <2>1, <2>6, <2>7, AtType DEF TypeInv, tables, marks
<1>7. CASE JournalCeremony(p)
  BY <1>7, <1>a DEF JournalCeremony, Goto, Label
<1>8. CASE ReadArl(p) \/ End(p)
  <2>1. CASE At(p, "idle", NoJob)
    BY <1>8, <1>b, <2>1 DEF ReadArl, End, tables, marks, TypeInv
  <2>2. CASE Goto(p, "read revoked") /\ pc[p] = "read arl"
    BY <1>8, <1>a, <2>2 DEF ReadArl, End, Goto, Label
  <2> QED  BY <1>8, <2>1, <2>2 DEF ReadArl, End, Ends
<1>9. CASE RevokeAuthority(p)
  <2>1. pc' \in [Process -> Label] /\ job' \in [Process -> JobType]
        /\ \A q \in Process : pc'[q] # "idle" => job'[q].op \in Op
    BY <1>0, <1>9, AtType DEF RevokeAuthority, Goto, Label
  <2>2. crossed' \in BOOLEAN
    BY <1>9 DEF RevokeAuthority, TypeInv
  <2> QED  BY <1>9, <2>1, <2>2 DEF RevokeAuthority, TypeInv
<1>10. CASE ReadRevokedAuthorities(p)
  <2>1. PICK r \in SUBSET Nat : At(p, "draw number", [job[p] EXCEPT !.revoked = r])
    BY <1>0, <1>10 DEF ReadRevokedAuthorities, CertificateType
  <2>2. /\ [job[p] EXCEPT !.revoked = r] \in JobType /\ [job[p] EXCEPT !.revoked = r].op = job[p].op
        /\ job[p].op \in Op /\ "draw number" \in Label
    BY <1>0, <1>10 DEF JobType, ReadRevokedAuthorities, Label
  <2>3. pc' \in [Process -> Label] /\ job' \in [Process -> JobType]
        /\ \A q \in Process : pc'[q] # "idle" => job'[q].op \in Op
    BY <2>1, <2>2, AtType
  <2> QED  BY <1>10, <2>3 DEF ReadRevokedAuthorities, tables, marks, TypeInv
<1>11. CASE DrawArlNumber(p)
  <2>1. PICK n \in Nat : n = arlNumber'
    <3>1. arlNumber \in Nat
      BY DEF TypeInv
    <3>2. arlNumber' = arlNumber + 1
      BY <1>11 DEF DrawArlNumber
    <3> QED  BY <3>1, <3>2
  <2>3. At(p, "sign arl", [job[p] EXCEPT !.number = n])
    BY <1>11, <2>1 DEF DrawArlNumber
  <2>2. /\ [job[p] EXCEPT !.number = n] \in JobType /\ [job[p] EXCEPT !.number = n].op = job[p].op
        /\ job[p].op \in Op /\ "sign arl" \in Label
    BY <1>0, <1>11 DEF JobType, DrawArlNumber, Label
  <2> QED  BY <1>11, <2>1, <2>3, <2>2, AtType DEF DrawArlNumber, tables, marks, TypeInv
<1>12. CASE SignArl(p)
  <2>1. PICK s \in AnyPair : At(p, "save arl", [job[p] EXCEPT !.signer = s])
    BY <1>12 DEF SignArl
  <2>2. /\ [job[p] EXCEPT !.signer = s] \in JobType /\ [job[p] EXCEPT !.signer = s].op = job[p].op
        /\ job[p].op \in Op /\ "save arl" \in Label
    BY <1>0, <1>12 DEF JobType, SignArl, Label
  <2> QED  BY <1>12, <2>1, <2>2, AtType DEF SignArl, tables, marks, TypeInv
<1>13. CASE SaveArl(p)
  <2>1. [number |-> job[p].number, lists |-> job[p].revoked,
         signer |-> job[p].signer, root |-> job[p].root] \in Arl
    BY <1>0 DEF Arl, JobType
  <2> QED  BY <1>13, <1>b, <2>1 DEF SaveArl, Ends, TypeInv
<1>14. CASE Serve(p)
  BY <1>14 DEF Serve, tables, marks, TypeInv
<1>15. CASE Die(p)
  BY <1>15, <1>b DEF Die, Ends, tables, marks, TypeInv
<1> QED
  BY <1>1, <1>2, <1>3, <1>4, <1>5, <1>6, <1>7, <1>8, <1>9, <1>10, <1>11, <1>12, <1>13,
     <1>14, <1>15
  DEF Step, Op

LEMMA HierarchyTypes == TypeInv /\ [Next]_vars => TypeInv'
<1> SUFFICES ASSUME TypeInv, [Next]_vars PROVE TypeInv'
  OBVIOUS
<1>0. HsmTypeOK'
  BY TypeStep DEF TypeInv
<1>1. CASE \E p \in Process : Step(p)
  BY <1>0, <1>1, ProcessTypes
<1>2. CASE TokenEvent
  <2>1. swapped' \in BOOLEAN
    BY <1>2 DEF TokenEvent, TypeInv
  <2> QED  BY <1>0, <1>2, <2>1 DEF TokenEvent, TypeInv, tables
<1>3. CASE UNCHANGED vars
  BY <1>0, <1>3 DEF TypeInv, vars, tables, marks
<1> QED  BY <1>1, <1>2, <1>3 DEF Next

-----------------------------------------------------------------------------
(* What a step does to the tokens and to the other processes. *)

\* A process only adds keys.
LEMMA ProcessesKeepKeys ==
    ASSUME HsmTypeOK, NEW p \in Process, Step(p)
    PROVE  (\A t \in Token : keys[t] \subseteq keys'[t]) /\ UNCHANGED swapped
<1>1. UNCHANGED swapped
  BY DEF Step, Start, OpenKey, GenerateKey, ReadRoot, NothingThere, Create, ReadIssuing,
     MatchesRoot, Matches, ReadRootKey, SignRoot, ReadIssuingKey, SignIssuing, JournalCeremony,
     Register, ReadArl, RevokeAuthority, ReadRevokedAuthorities, DrawArlNumber, SignArl, SaveArl,
     Serve, End, Die, marks
<1>2. UNCHANGED keys \/ \E t \in Token : Generate(t)
  BY DEF Step, Start, OpenKey, GenerateKey, ReadRoot, ReadIssuing, MatchesRoot, Matches,
     ReadRootKey, SignRoot, ReadIssuingKey, SignIssuing, JournalCeremony, Register, ReadArl,
     RevokeAuthority, ReadRevokedAuthorities, DrawArlNumber, SignArl, SaveArl, Serve, End, Die,
     Signs, hsmVars
<1>3. \A t \in Token : keys[t] \subseteq keys'[t]
  BY <1>2 DEF Generate, HsmTypeOK
<1> QED  BY <1>1, <1>3

\* A token keeps its keys until it loses them; that of the root keeps them while a
\* root is signed, unless it is marked.
Kept ==
    /\ \A t \in Token : t \notin lost' => t \notin lost /\ keys[t] \subseteq keys'[t]
    /\ swapped => swapped'
    /\ ~ swapped' /\ (\E p \in Process : pc[p] = "sign root") =>
           keys["root"] \subseteq keys'["root"]

LEMMA TokensKept == ASSUME TypeInv, [Next]_vars PROVE Kept
<1> USE HierarchyAssumption DEF HsmTypeOK, TypeInv
<1>1. \A t \in Token : t \notin lost' => t \notin lost /\ keys[t] \subseteq keys'[t]
  <2>1. CASE UNCHANGED <<keys, lost>>
    BY <2>1
  <2>2. ASSUME NEW u \in Token, Generate(u), UNCHANGED lost
        PROVE  \A t \in Token : t \notin lost' => t \notin lost /\ keys[t] \subseteq keys'[t]
    BY <2>2 DEF Generate
  <2>3. ASSUME NEW u \in Token, TokenLost(u)
        PROVE  \A t \in Token : t \notin lost' => t \notin lost /\ keys[t] \subseteq keys'[t]
    BY <2>3 DEF TokenLost
  <2>4. ASSUME NEW u \in Token, NEW i, Import(u, i)
        PROVE  \A t \in Token : t \notin lost' => t \notin lost /\ keys[t] \subseteq keys'[t]
    BY <2>4 DEF Import
  <2> QED
    BY <2>1, <2>2, <2>3, <2>4, NextIsHsmStep DEF HsmStep, HsmEvent, Signs, SessionLost, hsmVars
<1>2. CASE \E p \in Process : Step(p)
  BY <1>1, <1>2, ProcessesKeepKeys DEF Kept
<1>3. CASE TokenEvent
  <2>1. swapped => swapped'
    BY <1>3 DEF TokenEvent
  <2>2. keys["root"] \subseteq keys'["root"] \/ keys'["root"] = {}
    <3>1. ASSUME NEW t \in Token, TokenLost(t)
          PROVE  keys["root"] \subseteq keys'["root"] \/ keys'["root"] = {}
      BY <3>1 DEF TokenLost
    <3>2. ASSUME NEW t \in Token, NEW i, Import(t, i)
          PROVE  keys["root"] \subseteq keys'["root"]
      BY <3>2 DEF Import
    <3> QED  BY <1>3, <3>1, <3>2 DEF TokenEvent, HsmEvent, SessionLost
  <2>3. keys'["root"] = {} /\ (\E p \in Process : pc[p] = "sign root") => swapped'
    BY <1>3 DEF TokenEvent
  <2> QED  BY <1>1, <2>1, <2>2, <2>3 DEF Kept
<1>4. CASE UNCHANGED vars
  BY <1>1, <1>4 DEF vars, hsmVars, marks, Kept
<1> QED  BY <1>2, <1>3, <1>4 DEF Next

\* Sessions are lost, and not what a process knows of its tokens.
LEMMA KnowledgeStays ==
    ASSUME HsmTypeOK, HsmEvent, NEW p \in Process, NEW t \in Token
    PROVE  handle'[p][t].used = handle[p][t].used /\ handle'[p][t].cached = handle[p][t].cached
<1>1. ASSUME NEW u \in Token, Disconnected(u)
      PROVE  /\ handle'[p][t].used = handle[p][t].used
             /\ handle'[p][t].cached = handle[p][t].cached
  BY <1>1 DEF Disconnected, HsmTypeOK
<1> QED  BY <1>1 DEF HsmEvent, SessionLost, TokenLost, Import

\* sign_digest_with: the token holds one key, the one that the process remembers.
LEMMA Signed ==
    ASSUME HsmTypeOK, HandlesOK, NEW p \in Process, NEW t \in Token, NEW k \in AnyPair,
           Signs(p, t, k)
    PROVE  /\ keys[t] = {k} /\ UNCHANGED <<keys, lost>>
           /\ handle[p][t].cached \in {None, k} /\ handle'[p][t].cached = k
           /\ handle'[p][t].used = handle[p][t].used \cup {k}
           /\ \A q \in Process, u \in Token : q # p \/ u # t => handle'[q][u] = handle[q][u]
<1> DEFINE h == Ready(handle[p][t], t)
<1>1. handle[p][t] \in HandleType
  BY DEF HsmTypeOK, HandleType
<1>2. h \in HandleType /\ h.used = handle[p][t].used /\ h.cached = handle[p][t].cached
  BY <1>1, ReadyType DEF Ready, Reconnected, HandleType
<1>3. /\ h.cached \in {None, k} /\ k \in TheKey(t) /\ UNCHANGED <<keys, lost>>
      /\ handle' = [handle EXCEPT ![p][t] =
             [h EXCEPT !.checked = TRUE, !.cached = k, !.used = @ \cup {k}]]
  BY DEF Signs, CanSign
<1>4. keys[t] = {k}
  <2>1. k \in keys[t] /\ Cardinality(keys[t]) = 1
    BY <1>3 DEF TheKey
  <2>2. \E x : keys[t] = {x}
    BY <2>1, FS_Singleton DEF HandlesOK
  <2> QED  BY <2>1, <2>2
<1>5. handle'[p][t] = [h EXCEPT !.checked = TRUE, !.cached = k, !.used = @ \cup {k}]
  BY <1>3 DEF HsmTypeOK
<1>6. handle'[p][t].cached = k /\ handle'[p][t].used = h.used \cup {k}
  BY <1>2, <1>5 DEF HandleType
<1>7. \A q \in Process, u \in Token : q # p \/ u # t => handle'[q][u] = handle[q][u]
  BY <1>3 DEF HsmTypeOK
<1> QED  BY <1>2, <1>3, <1>4, <1>6, <1>7

\* A process that does nothing goes on holding what it held.
LEMMA JobStays ==
    ASSUME TypeInv, Kept, NEW q \in Process, JobOK(q), pc'[q] = pc[q], job'[q] = job[q],
           lines \subseteq lines',
           \A t \in Token : /\ handle'[q][t].used = handle[q][t].used
                            /\ handle'[q][t].cached = handle[q][t].cached
    PROVE  JobOK(q)'
<1>1. "root" \in Token /\ "issuing" \in Token
  BY HierarchyAssumption
<1>2. HoldsRoot(q)' => HoldsRoot(q)
  BY DEF HoldsRoot
<1>3. Genuine(job[q].root) => Genuine(job[q].root)'
  BY <1>1 DEF Genuine, Kept
<1>4. HoldsRoot(q)' => Genuine(job[q].root)'
  BY <1>2, <1>3 DEF JobOK
<1>5. pc[q] = "sign root" =>
           /\ job[q].root.key \in AnyPair
           /\ ~ swapped' \/ "root" \notin lost' => job[q].root.key \in keys'["root"]
  BY <1>1 DEF JobOK, Kept
<1>6. pc[q] = "serving" /\ "issuing" \notin lost' =>
           /\ job[q].issuing.key \in keys'["issuing"]
           /\ handle[q]["issuing"].used \subseteq {job[q].issuing.key}
  BY <1>1 DEF JobOK, Kept
<1>7. pc[q] = "save arl" /\ "root" \notin lost' => job[q].signer = job[q].root.key
  BY <1>1 DEF JobOK, Kept
<1> QED  BY <1>1, <1>4, <1>5, <1>6, <1>7 DEF JobOK

\* The other processes do nothing.
Alone(p) ==
    /\ \A q \in Process \ {p} : pc'[q] = pc[q] /\ job'[q] = job[q] /\ handle'[q] = handle[q]
    /\ lines \subseteq lines'

LEMMA StepsAlone ==
    ASSUME TypeInv, HandlesOK, NEW p \in Process, Step(p)
    PROVE  Alone(p)
<1>0. ASSUME NEW q \in Process \ {p} PROVE pc'[q] = pc[q] /\ job'[q] = job[q]
  BY <1>0 DEF Step, Start, OpenKey, GenerateKey, ReadRoot, NothingThere, Create, ReadIssuing,
     MatchesRoot, Matches, ReadRootKey, SignRoot, ReadIssuingKey, SignIssuing, JournalCeremony,
     Register, ReadArl, RevokeAuthority, ReadRevokedAuthorities, DrawArlNumber, SignArl, SaveArl,
     Serve, End, Die, Ends, Goto, At, TypeInv
<1>1. lines \subseteq lines'
  BY DEF Step, Start, OpenKey, GenerateKey, ReadRoot, ReadIssuing, MatchesRoot, Matches,
     ReadRootKey, SignRoot, ReadIssuingKey, SignIssuing, JournalCeremony, Register, ReadArl,
     RevokeAuthority, ReadRevokedAuthorities, DrawArlNumber, SignArl, SaveArl, Serve, End, Die
<1>2. ASSUME NEW q \in Process \ {p} PROVE handle'[q] = handle[q]
  <2>1. CASE UNCHANGED handle
    BY <2>1
  <2>2. CASE (\E t \in Token : Open(p, t)) \/ CloseAll(p)
    BY <2>2 DEF Open, CloseAll, TypeInv, HsmTypeOK
  <2>3. ASSUME NEW t \in Token, NEW k \in AnyPair, Signs(p, t, k) PROVE handle'[q] = handle[q]
    BY <2>3 DEF Signs, TypeInv, HsmTypeOK
  <2>4. \/ UNCHANGED handle \/ (\E t \in Token : Open(p, t)) \/ CloseAll(p)
        \/ \E t \in Token, k \in AnyPair : Signs(p, t, k)
    BY HierarchyAssumption DEF Step, Start, OpenKey, GenerateKey, ReadRoot, NothingThere, Create,
       ReadIssuing, MatchesRoot, Matches, ReadRootKey, SignRoot, ReadIssuingKey, SignIssuing,
       JournalCeremony, Register, ReadArl, RevokeAuthority, ReadRevokedAuthorities, DrawArlNumber,
       SignArl, SaveArl, Serve, End, Die, Ends, hsmVars
  <2> QED  BY <2>1, <2>2, <2>3, <2>4
<1> QED  BY <1>0, <1>1, <1>2 DEF Alone

-----------------------------------------------------------------------------
(* What the process that moves holds. *)

LEMMA OpeningJob ==
    ASSUME TypeInv, Kept, NEW p \in Process, JobOK(p), NEW t \in Token,
           OpenKey(p, t) \/ GenerateKey(p, t)
    PROVE  JobOK(p)'
<1> USE HierarchyAssumption
<1>0. job'[p] = job[p] /\ job[p].op \in Op
      /\ pc'[p] \in {AfterOpening(p, t), GenerateLabel(t)}
      /\ (GenerateKey(p, t) => pc'[p] = AfterOpening(p, t))
  BY DEF OpenKey, GenerateKey, Goto, At, TypeInv, OpenLabel, GenerateLabel
<1>1. HoldsRoot(p)' => Genuine(job[p].root)
  BY <1>0 DEF JobOK, HoldsRoot, OpenKey, GenerateKey, OpenLabel, GenerateLabel, AfterOpening
<1>2. HoldsRoot(p)' => Genuine(job[p].root)'
  BY <1>0, <1>1 DEF Genuine, Kept
<1>3. job[p].op = "serve" => t = "issuing"
  BY DEF JobOK, OpenKey, GenerateKey, OpenLabel, GenerateLabel
<1>4. job[p].op = "serve" => handle'[p]["issuing"].used = {}
  <2>1. CASE OpenKey(p, t)
    BY <1>3, <2>1 DEF OpenKey, Open, Opened, Closed, TypeInv, HsmTypeOK
  <2>2. CASE GenerateKey(p, t)
    BY <1>3, <2>2 DEF GenerateKey, GenerateLabel, JobOK
  <2> QED  BY <2>1, <2>2
<1>5. /\ pc'[p] \in {"open issuing", "read root", "revoke", "read revoked", "match",
                    "generate root", "generate issuing"}
      /\ pc'[p] = "generate root" => t = "root"
  BY <1>0 DEF AfterOpening, GenerateLabel, Op
<1> QED  BY <1>0, <1>2, <1>3, <1>4, <1>5 DEF JobOK

LEMMA AtGives ==
    ASSUME TypeInv, NEW p \in Process, NEW l, NEW v, At(p, l, v)
    PROVE  pc'[p] = l /\ job'[p] = v
BY DEF At, TypeInv

\* At most the issuing authority of the job changes.
LEMMA SameRoot ==
    ASSUME TypeInv, NEW p \in Process, NEW l, NEW c,
           At(p, l, job[p]) \/ At(p, l, [job[p] EXCEPT !.issuing = c])
    PROVE  job'[p].root = job[p].root /\ job'[p].op = job[p].op
<1>1. job[p] \in JobType
  BY DEF TypeInv
<1>2. job'[p] = job[p] \/ job'[p] = [job[p] EXCEPT !.issuing = c]
  BY AtGives
<1> QED  BY <1>1, <1>2 DEF JobType

LEMMA ReadingJob ==
    ASSUME TypeInv, Kept, RegistryOK, NEW p \in Process, JobOK(p),
           ReadRoot(p) \/ ReadIssuing(p) \/ MatchesRoot(p) \/ Matches(p)
    PROVE  JobOK(p)'
<1> USE HierarchyAssumption DEF JobOK
<1>0. job[p] \in JobType /\ (pc[p] # "idle" => job[p].op \in Op)
  BY DEF TypeInv
<1>1. CASE Ends(p)
  BY <1>1 DEF Ends, At, HoldsRoot, TypeInv
<1>2. CASE Create(p)
  BY <1>2 DEF Create, Goto, At, HoldsRoot, TypeInv
<1>3. CASE At(p, "read issuing", [job[p] EXCEPT !.root = authorities["root"]])
           /\ authorities["root"] # NoCertificate
  <2>1. job'[p].root = authorities["root"] /\ pc'[p] = "read issuing"
    BY <1>0, <1>3 DEF At, TypeInv, JobType
  <2>2. Genuine(job[p].root)'
    BY <1>3, <2>1 DEF RegistryOK, Genuine, Kept
  <2> QED  BY <2>1, <2>2
<1>4. CASE ReadIssuing(p) /\ authorities["issuing"] # NoCertificate
  <2>1. job'[p].root = job[p].root /\ job'[p].op = job[p].op
    <3>1. PICK l : \/ At(p, l, job[p])
                   \/ At(p, l, [job[p] EXCEPT !.issuing = authorities["issuing"]])
      BY <1>4 DEF ReadIssuing, Goto
    <3> QED  BY <3>1, SameRoot
  <2>2. Genuine(job[p].root)'
    BY <1>4, <2>1 DEF ReadIssuing, HoldsRoot, Genuine, Kept
  <2>3. \/ pc'[p] = "open root" /\ job[p].op \in {"revoke", "publish"}
        \/ pc'[p] = "open issuing"
        \/ pc'[p] = "match root" /\ job[p].op # "serve"
    BY <1>0, <1>4 DEF ReadIssuing, Goto, At, TypeInv
  <2> QED  BY <2>1, <2>2, <2>3
<1>5. CASE Matches(p)
  <2>1. job'[p].root = job[p].root /\ handle' = handle
    <3>1. PICK l : \/ At(p, l, job[p])
                   \/ At(p, l, [job[p] EXCEPT !.issuing = NoCertificate])
      BY <1>5 DEF Matches, Goto
    <3>2. handle' = handle
      BY <1>5 DEF Matches, hsmVars
    <3> QED  BY <3>1, <3>2, SameRoot
  <2>2. CASE job[p].op = "serve"
    <3>1. job'[p] = job[p] /\ pc'[p] = "serving" /\ job[p].issuing.key \in keys["issuing"]
      BY <1>5, <2>2 DEF Matches, Goto, At, TypeInv, PublicKeys
    <3>2. handle[p]["issuing"].used = {}
      BY <1>5, <2>2 DEF Matches
    <3> QED  BY <2>1, <3>1, <3>2 DEF Kept, HoldsRoot
  <2>3. CASE job[p].op # "serve"
    <3>1. pc'[p] = "read arl"
      BY <1>5, <2>3 DEF Matches, Goto, At, TypeInv
    <3>2. Genuine(job[p].root)'
      BY <1>5, <2>1 DEF Matches, HoldsRoot, Genuine, Kept
    <3> QED  BY <3>1, <3>2
  <2> QED  BY <2>2, <2>3
<1>6. CASE MatchesRoot(p)
  <2>1. /\ pc[p] = "match root" /\ pc'[p] = "match" /\ job'[p] = job[p]
        /\ job[p].op = "serve" => handle[p]["issuing"].used = {}
        /\ handle' = handle
    BY <1>6 DEF MatchesRoot, Goto, At, TypeInv, hsmVars
  <2>2. Genuine(job[p].root)'
    BY <2>1 DEF HoldsRoot, Genuine, Kept
  <2> QED  BY <2>1, <2>2
<1> QED  BY <1>1, <1>2, <1>3, <1>4, <1>5, <1>6 DEF ReadRoot, ReadIssuing, NothingThere

LEMMA NewSerial == ASSUME TypeInv, NextSerial PROVE serials' # 0
<1>1. serials \in Nat
  BY DEF TypeInv
<1>2. serials' = serials + 1
  BY DEF NextSerial
<1> QED  BY <1>1, <1>2

LEMMA CeremonyJob ==
    ASSUME TypeInv, HandlesOK, Kept, NEW p \in Process, JobOK(p),
           \/ ReadRootKey(p) \/ SignRoot(p) \/ ReadIssuingKey(p) \/ SignIssuing(p)
           \/ JournalCeremony(p) \/ Register(p) \/ ReadArl(p)
    PROVE  JobOK(p)'
<1> USE HierarchyAssumption DEF JobOK
<1>0. HsmTypeOK /\ job[p] \in JobType
  BY DEF TypeInv
<1>1. CASE SignRoot(p)
  <2>1. PICK s \in AnyPair :
            /\ pc[p] = "sign root" /\ NextSerial /\ Signs(p, "root", s)
            /\ UNCHANGED <<tables, lines, marks>>
            /\ At(p, "read issuing key",
                  [job[p] EXCEPT !.root = [@ EXCEPT !.id = serials', !.signer = s]])
    BY <1>1 DEF SignRoot
  <2>2. handle'[p]["root"].cached = s /\ keys["root"] = {s} /\ UNCHANGED <<keys, lost>>
    BY <1>0, <2>1, Signed
  <2>3. swapped' = swapped
    BY <2>1 DEF marks
  <2>4. serials' # 0
    BY <2>1, NewSerial
  <2>5. /\ job'[p].root.id = serials' /\ job'[p].root.key = job[p].root.key
        /\ job'[p].root.signer = s /\ pc'[p] = "read issuing key"
    BY <1>0, <2>1 DEF At, TypeInv, JobType, CertificateType
  <2>6. /\ job[p].root.key \in AnyPair
        /\ ~ swapped \/ "root" \notin lost => job[p].root.key = s
    BY <2>1, <2>2
  <2>7. Genuine(job[p].root)'
    BY <2>2, <2>3, <2>4, <2>5, <2>6 DEF Genuine
  <2> QED  BY <2>2, <2>5, <2>7
<1>2. CASE SignIssuing(p)
  <2>1. PICK s \in AnyPair :
            /\ pc[p] = "sign issuing" /\ NextSerial /\ Signs(p, "root", s)
            /\ At(p, "journal",
                  [job[p] EXCEPT !.issuing = [@ EXCEPT !.id = serials', !.signer = s]])
    BY <1>2 DEF SignIssuing
  <2>2. handle[p]["root"].cached \in {None, s}
    BY <1>0, <2>1, Signed
  <2>3. Genuine(job[p].root) /\ handle[p]["root"].cached = job[p].root.signer
    BY <2>1 DEF HoldsRoot
  <2>4. job[p].root.signer = s
    BY <2>2, <2>3, HsmAssumption DEF Genuine, AnyPair
  <2>5. /\ job'[p].root = job[p].root /\ pc'[p] = "journal"
        /\ job'[p].issuing.id = serials' /\ job'[p].issuing.signer = s
    BY <1>0, <2>1 DEF At, TypeInv, JobType, CertificateType
  <2>6. serials' # 0
    BY <2>1, NewSerial
  <2>7. Genuine(job[p].root)'
    BY <2>3, <2>5 DEF Genuine, Kept
  <2> QED  BY <2>4, <2>5, <2>6, <2>7
<1>6. CASE ReadRootKey(p)
  <2>1. PICK k \in keys["root"] :
            /\ UNCHANGED keys
            /\ At(p, "sign root", [job[p] EXCEPT !.root = [NoCertificate EXCEPT !.key = k]])
    BY <1>6 DEF ReadRootKey, PublicKeys, hsmVars
  <2>2. k \in AnyPair
    BY <1>0 DEF HsmTypeOK
  <2>3. pc'[p] = "sign root" /\ job'[p].root.key = k
    BY <1>0, <2>1 DEF At, TypeInv, JobType, NoCertificate
  <2> QED  BY <2>1, <2>2, <2>3 DEF HoldsRoot
<1>7. CASE ReadIssuingKey(p)
  <2>1. PICK c : /\ pc[p] = "read issuing key" /\ UNCHANGED hsmVars
                 /\ At(p, "sign issuing", [job[p] EXCEPT !.issuing = c])
    BY <1>7 DEF ReadIssuingKey
  <2>2. pc'[p] = "sign issuing" /\ job'[p].root = job[p].root
    BY <2>1, SameRoot, AtGives
  <2>3. handle'[p]["root"].cached = job[p].root.signer
    BY <2>1 DEF hsmVars
  <2>4. Genuine(job[p].root)'
    BY <2>1, <2>2 DEF HoldsRoot, Genuine, Kept
  <2> QED  BY <2>2, <2>3, <2>4
<1>3. CASE JournalCeremony(p)
  <2>1. /\ job'[p] = job[p] /\ pc[p] = "journal" /\ pc'[p] = "save root"
        /\ CeremonyLine(job[p].root, job[p].issuing) \in lines'
    BY <1>3 DEF JournalCeremony, Goto, At, TypeInv
  <2>2. Genuine(job[p].root)'
    BY <2>1 DEF HoldsRoot, Genuine, Kept
  <2> QED  BY <2>1, <2>2
<1>4. CASE Register(p)
  <2>1. job'[p].root = job[p].root /\ lines' = lines
    <3>1. PICK l : \/ At(p, l, job[p])
                   \/ At(p, l, [job[p] EXCEPT !.issuing = NoCertificate])
      BY <1>4 DEF Register, Goto
    <3>2. lines' = lines
      BY <1>4 DEF Register
    <3> QED  BY <3>1, <3>2, SameRoot
  <2>2. Genuine(job[p].root)'
    BY <1>4, <2>1 DEF Register, HoldsRoot, Genuine, Kept
  <2>3. \/ pc[p] = "save root" /\ pc'[p] = "save issuing" /\ job'[p] = job[p]
        \/ pc'[p] = "read arl"
    BY <1>4 DEF Register, Goto, At, TypeInv
  <2> QED  BY <2>1, <2>2, <2>3
<1>5. CASE ReadArl(p)
  <2>1. CASE pc'[p] = "idle"
    BY <2>1 DEF HoldsRoot
  <2>2. CASE pc'[p] = "read revoked" /\ job'[p] = job[p]
    <3>1. Genuine(job[p].root)'
      BY <1>5, <2>2 DEF ReadArl, HoldsRoot, Genuine, Kept
    <3> QED  BY <2>2, <3>1
  <2> QED  BY <1>5, <2>1, <2>2 DEF ReadArl, Ends, Goto, At, TypeInv
<1> QED  BY <1>1, <1>2, <1>3, <1>4, <1>5, <1>6, <1>7

LEMMA RevocationJob ==
    ASSUME TypeInv, HandlesOK, Kept, NEW p \in Process, JobOK(p),
           RevokeAuthority(p) \/ ReadRevokedAuthorities(p) \/ DrawArlNumber(p) \/ SignArl(p)
    PROVE  JobOK(p)'
<1> USE HierarchyAssumption DEF JobOK
<1>0. HsmTypeOK /\ job[p] \in JobType
  BY DEF TypeInv
<1>1. /\ job'[p].root = job[p].root
      /\ pc'[p] \in {"read revoked", "draw number", "sign arl", "save arl"}
      /\ pc'[p] = "save arl" => SignArl(p)
  <2>1. CASE RevokeAuthority(p)
    BY <1>0, <2>1 DEF RevokeAuthority, Goto, At, TypeInv
  <2>2. CASE ReadRevokedAuthorities(p)
    <3>1. \E r : At(p, "draw number", [job[p] EXCEPT !.revoked = r])
      BY <2>2 DEF ReadRevokedAuthorities
    <3>2. \E r : pc'[p] = "draw number" /\ job'[p] = [job[p] EXCEPT !.revoked = r]
      BY <3>1, AtGives
    <3> QED  BY <1>0, <3>2 DEF JobType
  <2>3. CASE DrawArlNumber(p)
    <3>1. \E n : pc'[p] = "sign arl" /\ job'[p] = [job[p] EXCEPT !.number = n]
      BY <2>3, AtGives DEF DrawArlNumber
    <3> QED  BY <1>0, <3>1 DEF JobType
  <2>4. CASE SignArl(p)
    <3>1. \E s : pc'[p] = "save arl" /\ job'[p] = [job[p] EXCEPT !.signer = s]
      BY <2>4, AtGives DEF SignArl
    <3> QED  BY <1>0, <2>4, <3>1 DEF JobType
  <2> QED  BY <2>1, <2>2, <2>3, <2>4
<1>2. Genuine(job[p].root)
  BY DEF RevokeAuthority, ReadRevokedAuthorities, DrawArlNumber, SignArl, HoldsRoot
<1>3. Genuine(job[p].root)'
  BY <1>1, <1>2 DEF Genuine, Kept
<1>4. SignArl(p) /\ "root" \notin lost' => job'[p].signer = job[p].root.key
  <2> SUFFICES ASSUME SignArl(p), "root" \notin lost' PROVE job'[p].signer = job[p].root.key
    OBVIOUS
  <2>1. PICK s \in AnyPair :
            Signs(p, "root", s) /\ At(p, "save arl", [job[p] EXCEPT !.signer = s])
    BY DEF SignArl
  <2>2. keys["root"] = {s}
    <3>1. "root" \in Token /\ Signs(p, "root", s)
      BY <2>1
    <3> HIDE DEF JobOK
    <3> QED  BY ONLY <1>0, <3>1, HandlesOK, Signed
  <2>3. job'[p].signer = s
    <3>1. job'[p] = [job[p] EXCEPT !.signer = s]
      BY <2>1, AtGives
    <3> QED  BY <1>0, <3>1 DEF JobType
  <2> QED  BY <1>2, <2>2, <2>3 DEF Genuine, Kept
<1> QED  BY <1>1, <1>3, <1>4

LEMMA JobStep ==
    ASSUME TypeInv, HandlesOK, Kept, RegistryOK, NEW p \in Process, JobOK(p), Step(p)
    PROVE  JobOK(p)'
<1> USE HierarchyAssumption
<1>1. ASSUME NEW op \in Op, Start(p, op) PROVE JobOK(p)'
  <2>1. /\ job'[p].op = op
        /\ \/ pc'[p] = "open root" /\ op = "ceremony"
           \/ pc'[p] = "read root"
    BY <1>1 DEF Start, At, NoJob, TypeInv
  <2> QED  BY <2>1 DEF JobOK, HoldsRoot
<1>2. CASE Serve(p)
  <2>1. PICK s \in AnyPair : pc[p] = "serving" /\ Signs(p, "issuing", s) /\ UNCHANGED <<pc, job>>
    BY <1>2 DEF Serve
  <2>2. /\ keys["issuing"] = {s} /\ keys' = keys /\ lost' = lost
        /\ handle'[p]["issuing"].used = handle[p]["issuing"].used \cup {s}
    BY <2>1, Signed DEF TypeInv
  <2> QED  BY <2>1, <2>2 DEF JobOK, HoldsRoot
<1>3. CASE Ends(p)
  BY <1>3 DEF Ends, At, JobOK, HoldsRoot, TypeInv
<1> QED
  BY <1>1, <1>2, <1>3, OpeningJob, ReadingJob, CeremonyJob, RevocationJob
  DEF Step, Op, SaveArl, End, Die

-----------------------------------------------------------------------------
(* What is registered. *)

Creates(p) ==
    /\ pc'[p] = "read root key"
    /\ authorities["root"] = NoCertificate \/ authorities["issuing"] = NoCertificate
    /\ overlapped' = (overlapped \/ \E q \in Process \ {p} : Creating(q))
    /\ UNCHANGED <<authorities, arls>>

RegistersRoot(p) ==
    /\ pc[p] = "save root" /\ pc'[p] = "save issuing" /\ job'[p] = job[p]
    /\ authorities' = [authorities EXCEPT !["root"] = job[p].root]
    /\ UNCHANGED <<arls, overlapped>>

RegistersIssuing(p) ==
    /\ pc[p] = "save issuing" /\ pc'[p] = "read arl"
    /\ authorities' = [authorities EXCEPT !["issuing"] = job[p].issuing]
    /\ UNCHANGED <<arls, overlapped>>

Publishes(p) ==
    /\ pc[p] = "save arl" /\ pc'[p] = "idle"
    /\ arls' = arls \cup {[number |-> job[p].number, lists |-> job[p].revoked,
                           signer |-> job[p].signer, root |-> job[p].root]}
    /\ UNCHANGED <<authorities, overlapped>>

Elsewhere(p) ==
    /\ pc'[p] \in {"sign root", "read issuing key", "sign issuing", "journal", "save root"} =>
           Creating(p)
    /\ pc'[p] \notin {"read root key", "save issuing"}
    /\ UNCHANGED <<authorities, arls, overlapped>>

LEMMA RegistryKinds ==
    ASSUME TypeInv, NEW p \in Process, Step(p)
    PROVE  Creates(p) \/ RegistersRoot(p) \/ RegistersIssuing(p) \/ Publishes(p) \/ Elsewhere(p)
<1> USE HierarchyAssumption DEF TypeInv, At, Goto, Ends
<1>1. CASE \E op \in Op : Start(p, op)
  BY <1>1 DEF Start, Elsewhere, tables, marks
<1>2. ASSUME NEW t \in Token, OpenKey(p, t) \/ GenerateKey(p, t) PROVE Elsewhere(p)
  <2>1. pc'[p] \in {AfterOpening(p, t), GenerateLabel(t)} /\ job[p].op \in Op
    BY <1>2 DEF OpenKey, GenerateKey, OpenLabel, GenerateLabel
  <2>2. pc'[p] \in {"open issuing", "read root", "revoke", "read revoked", "match",
                    "generate root", "generate issuing"}
    BY <2>1 DEF AfterOpening, GenerateLabel, Op
  <2> QED  BY <1>2, <2>2 DEF OpenKey, GenerateKey, Elsewhere, tables, marks
<1>3. CASE ReadRoot(p) \/ ReadIssuing(p)
  <2>1. CASE Create(p)
    <3>1. authorities["root"] = NoCertificate \/ authorities["issuing"] = NoCertificate
          \/ pc'[p] # "read root key"
      BY <1>3 DEF ReadRoot, ReadIssuing
    <3> QED  BY <1>3, <2>1, <3>1 DEF ReadRoot, ReadIssuing, Create, Creates, tables
  <2>2. CASE pc'[p] \in {"idle", "read issuing", "open root", "open issuing", "match root"}
             /\ UNCHANGED overlapped
    BY <1>3, <2>2 DEF ReadRoot, ReadIssuing, Elsewhere, tables
  <2> QED  BY <1>3, <2>1, <2>2 DEF ReadRoot, ReadIssuing, NothingThere
<1>4. CASE MatchesRoot(p) \/ Matches(p) \/ JournalCeremony(p) \/ ReadArl(p) \/ End(p)
           \/ Die(p) \/ Serve(p)
  BY <1>4 DEF MatchesRoot, Matches, JournalCeremony, ReadArl, End, Die, Serve, Creating,
     Elsewhere, tables, marks
<1>5. CASE ReadRootKey(p) \/ SignRoot(p) \/ ReadIssuingKey(p) \/ SignIssuing(p)
  <2>1. /\ pc[p] \in {"read root key", "sign root", "read issuing key", "sign issuing"}
        /\ pc'[p] \in {"sign root", "read issuing key", "sign issuing", "journal"}
        /\ UNCHANGED <<tables, marks>>
    BY <1>5 DEF ReadRootKey, SignRoot, ReadIssuingKey, SignIssuing
  <2> QED  BY <2>1 DEF Creating, Elsewhere, tables, marks
<1>6. CASE Register(p)
  <2>1. CASE pc[p] = "save root"
    BY <1>6, <2>1 DEF Register, SaveAuthority, RegistersRoot, marks
  <2>2. CASE pc[p] # "save root"
    BY <1>6, <2>2 DEF Register, SaveAuthority, RegistersIssuing, marks
  <2> QED  BY <2>1, <2>2
<1>7. CASE RevokeAuthority(p) \/ ReadRevokedAuthorities(p) \/ DrawArlNumber(p) \/ SignArl(p)
  <2>1. pc'[p] \in {"read revoked", "draw number", "sign arl", "save arl"}
    BY <1>7 DEF RevokeAuthority, ReadRevokedAuthorities, DrawArlNumber, SignArl
  <2>2. UNCHANGED <<authorities, arls, overlapped>>
    BY <1>7 DEF RevokeAuthority, ReadRevokedAuthorities, DrawArlNumber, SignArl, tables, marks
  <2> QED  BY <2>1, <2>2 DEF Elsewhere
<1>8. CASE SaveArl(p)
  BY <1>8 DEF SaveArl, Publishes
<1> QED  BY <1>1, <1>2, <1>3, <1>4, <1>5, <1>6, <1>7, <1>8 DEF Step, Op

\* What a ceremony that creates holds while nothing overlapped it.
CreatorOK(p) ==
    Creating(p) =>
        /\ authorities["issuing"] = NoCertificate
        /\ pc[p] = "save issuing" => authorities["root"] = job[p].root
        /\ \A q \in Process \ {p} : ~ Creating(q)

LEMMA CreatorsStep ==
    ASSUME TypeInv, RegistryOK, NEW p \in Process, Alone(p), ~ overlapped',
           Creates(p) \/ RegistersRoot(p) \/ RegistersIssuing(p) \/ Publishes(p) \/ Elsewhere(p)
    PROVE  \A q \in Process : CreatorOK(q)'
<1>0. ~ overlapped /\ \A q \in Process : CreatorOK(q)
  BY DEF RegistryOK, CreatorOK, Creates, RegistersRoot, RegistersIssuing, Publishes, Elsewhere,
     TypeInv
<1> USE HierarchyAssumption DEF CreatorOK, Creating, Alone
<1>1. CASE Creates(p)
  <2>1. authorities["issuing"] = NoCertificate /\ \A q \in Process \ {p} : ~ Creating(q)
    BY <1>1 DEF Creates, RegistryOK
  <2> QED  BY <1>1, <2>1 DEF Creates
<1>2. CASE RegistersRoot(p)
  BY <1>0, <1>2 DEF RegistersRoot, TypeInv
<1>3. CASE RegistersIssuing(p)
  BY <1>0, <1>3 DEF RegistersIssuing
<1>4. CASE Publishes(p) \/ Elsewhere(p)
  BY <1>0, <1>4 DEF Publishes, Elsewhere
<1> QED  BY <1>1, <1>2, <1>3, <1>4

LEMMA RegistryStep ==
    ASSUME TypeInv, Kept, RegistryOK, OneCeremony, NEW p \in Process, JobOK(p), Alone(p),
           Creates(p) \/ RegistersRoot(p) \/ RegistersIssuing(p) \/ Publishes(p) \/ Elsewhere(p)
    PROVE  RegistryOK' /\ OneCeremony'
<1> USE HierarchyAssumption
<1>0. /\ job[p] \in JobType /\ authorities \in [Token -> CertificateType]
      /\ pc[p] = "save arl" /\ "root" \notin lost => job[p].signer = job[p].root.key
      /\ "root" \notin lost' => "root" \notin lost
  BY DEF TypeInv, JobOK, Kept
<1>1. pc[p] \in {"save root", "save issuing"} =>
          /\ Genuine(job[p].root) /\ CeremonyLine(job[p].root, job[p].issuing) \in lines
          /\ job[p].issuing.signer = job[p].root.signer
  BY DEF JobOK, HoldsRoot
<1>2. ~ overlapped' => \A q \in Process : CreatorOK(q)'
  BY CreatorsStep
<1>3. \/ UNCHANGED authorities /\ ~ RegistersRoot(p)
      \/ RegistersRoot(p) \/ RegistersIssuing(p)
  BY DEF Creates, Publishes, Elsewhere, RegistersRoot
<1>4. (authorities["root"] = NoCertificate \/ Genuine(authorities["root"]))'
  <2>1. CASE RegistersRoot(p)
    BY <1>0, <1>1, <2>1 DEF RegistersRoot, Genuine, Kept
  <2>2. CASE authorities'["root"] = authorities["root"]
    BY <2>2 DEF RegistryOK, Genuine, Kept
  <2> QED  BY <1>0, <1>3, <2>1, <2>2 DEF RegistersIssuing
<1>5. /\ authorities'["issuing"] # NoCertificate => authorities'["root"] # NoCertificate
      /\ \A q \in Process : pc'[q] = "save issuing" => authorities'["root"] # NoCertificate
  <2>1. CASE RegistersRoot(p)
    <3>1. authorities'["root"] = job[p].root
      BY <1>0, <2>1 DEF RegistersRoot
    <3>2. job[p].root.id # 0
      BY <1>1, <2>1 DEF RegistersRoot, Genuine
    <3>3. job[p].root # NoCertificate
      BY <3>2 DEF NoCertificate
    <3> QED  BY <3>1, <3>3
  <2>2. CASE RegistersIssuing(p)
    BY <1>0, <2>2 DEF RegistersIssuing, RegistryOK, Alone
  <2>3. CASE UNCHANGED authorities /\ ~ RegistersRoot(p)
    <3>1. pc'[p] # "save issuing"
      BY <2>3 DEF Creates, RegistersIssuing, Publishes, Elsewhere
    <3> QED  BY <2>3, <3>1 DEF RegistryOK, Alone
  <2> QED  BY <1>3, <2>1, <2>2, <2>3
<1>6. "root" \notin lost' => \A a \in arls' : a.signer = a.root.key
  <2>1. CASE UNCHANGED arls
    BY <1>0, <2>1 DEF RegistryOK
  <2>2. CASE Publishes(p)
    <3> DEFINE new == [number |-> job[p].number, lists |-> job[p].revoked,
                       signer |-> job[p].signer, root |-> job[p].root]
    <3>1. pc[p] = "save arl" /\ arls' = arls \cup {new}
      BY <2>2 DEF Publishes
    <3>2. new.signer = job[p].signer /\ new.root = job[p].root
      OBVIOUS
    <3>3. "root" \notin lost => \A a \in arls : a.signer = a.root.key
      BY DEF RegistryOK
    <3> HIDE DEF new
    <3> QED  BY <1>0, <3>1, <3>2, <3>3
  <2> QED  BY <2>1, <2>2 DEF Creates, RegistersRoot, RegistersIssuing, Elsewhere
<1>7. RegistryOK'
  BY <1>2, <1>4, <1>5, <1>6 DEF RegistryOK, CreatorOK
<1>8. OneCeremony'
  <2>1. CASE UNCHANGED authorities
    <3>1. overlapped => overlapped'
      BY DEF Creates, RegistersRoot, RegistersIssuing, Publishes, Elsewhere, TypeInv
    <3> QED  BY <2>1, <3>1 DEF OneCeremony, Complete, Alone, TypeInv
  <2>2. CASE RegistersRoot(p) /\ ~ overlapped
    <3>1. authorities'["issuing"] = NoCertificate
      BY <1>0, <2>2 DEF RegistersRoot, RegistryOK, Creating
    <3> QED  BY <3>1 DEF OneCeremony, Complete
  <2>3. CASE RegistersIssuing(p) /\ ~ overlapped
    <3>1. authorities'["root"] = job[p].root /\ authorities'["issuing"] = job[p].issuing
      BY <1>0, <2>3 DEF RegistersIssuing, RegistryOK, Creating
    <3> QED  BY <1>1, <2>3, <3>1 DEF OneCeremony, RegistersIssuing, Alone
  <2>4. CASE overlapped'
    BY <2>4 DEF OneCeremony
  <2>5. RegistersRoot(p) \/ RegistersIssuing(p) => ~ overlapped \/ overlapped'
    BY DEF RegistersRoot, RegistersIssuing, TypeInv
  <2> QED  BY <1>3, <2>1, <2>2, <2>3, <2>4, <2>5
<1> QED  BY <1>7, <1>8

LEMMA InvInit == Init => HierarchyInv
<1> SUFFICES ASSUME Init PROVE HierarchyInv
  OBVIOUS
<1> USE HierarchyAssumption DEF Init
<1>1. \A p \in Process : JobOK(p)
  BY DEF JobOK, HoldsRoot
<1>2. RegistryOK
  BY DEF RegistryOK, Creating
<1>3. OneCeremony
  BY DEF OneCeremony, Complete
<1> QED  BY <1>1, <1>2, <1>3, HierarchyInit, HandlesInit DEF HierarchyInv

LEMMA InvStep == HierarchyInv /\ [Next]_vars => HierarchyInv'
<1> SUFFICES ASSUME HierarchyInv, [Next]_vars PROVE HierarchyInv'
  OBVIOUS
<1> USE DEF HierarchyInv
<1>0. TypeInv' /\ HandlesOK' /\ HsmTypeOK
  BY HierarchyTypes, HandlesStep DEF TypeInv
<1>1. Kept
  BY TokensKept
<1>2. ASSUME NEW p \in Process, Step(p) PROVE HierarchyInv'
  <2>1. Alone(p)
    BY <1>2, StepsAlone
  <2>2. RegistryOK' /\ OneCeremony'
    BY <1>1, <1>2, <2>1, RegistryKinds, RegistryStep
  <2>3. ASSUME NEW q \in Process PROVE JobOK(q)'
    <3>1. CASE q = p
      BY <1>1, <1>2, <3>1, JobStep
    <3>2. CASE q # p
      BY <1>1, <2>1, <3>2, JobStays DEF Alone
    <3> QED  BY <3>1, <3>2
  <2> QED  BY <1>0, <2>2, <2>3
<1>3. CASE TokenEvent \/ UNCHANGED vars
  <2>0. /\ UNCHANGED <<tables, lines, serials, pc, job, overlapped>>
        /\ HsmEvent \/ UNCHANGED hsmVars
    BY <1>3 DEF TokenEvent, vars, marks
  <2>1. ASSUME NEW p \in Process, NEW t \in Token
        PROVE  /\ handle'[p][t].used = handle[p][t].used
               /\ handle'[p][t].cached = handle[p][t].cached
    BY <1>0, <2>0, KnowledgeStays DEF hsmVars
  <2>2. \A p \in Process : JobOK(p)'
    BY <1>1, <2>0, <2>1, JobStays
  <2>3. RegistryOK'
    BY HierarchyAssumption, <1>1, <2>0
    DEF RegistryOK, Genuine, Kept, Creating, tables
  <2>4. OneCeremony'
    BY <2>0 DEF OneCeremony, Complete, tables
  <2> QED  BY <1>0, <2>2, <2>3, <2>4
<1> QED  BY <1>2, <1>3 DEF Next

\* Ceremonies that die anywhere, and tokens that lose keys or hold others: what is
\* registered is one hierarchy, signed by one key, and what is signed verifies with it
\* but for the losses that SignaturesVerify names.
THEOREM HierarchyIsOne == Spec => []OneHierarchy
<1>1. HierarchyInv => SignaturesVerify
  <2> SUFFICES ASSUME HierarchyInv PROVE SignaturesVerify
    OBVIOUS
  <2>1. ~ swapped => RootIsSelfSigned
    BY DEF HierarchyInv, RegistryOK, RootIsSelfSigned, Genuine
  <2>2. \A p \in Process : pc[p] = "serving" /\ "issuing" \notin lost =>
            handle[p]["issuing"].used \subseteq {job[p].issuing.key}
    BY DEF HierarchyInv, JobOK
  <2> QED  BY <2>1, <2>2 DEF SignaturesVerify, HierarchyInv, RegistryOK
<1>2. HierarchyInv => OneHierarchy
  BY <1>1 DEF OneHierarchy, HierarchyInv
<1> QED  BY <1>2, InvInit, InvStep, PTL DEF Spec

-----------------------------------------------------------------------------
(* A revocation is listed. *)

\* Revoked, and no publication that had read the registry before was under way.
Undisturbed == revokedAt /\ ~ crossed /\ ~ overlapped
Lists(a) == authorities["issuing"].id \in a.lists

\* A revocation command found the authority that it revokes, and publishes after
\* it revoked.
RevokerOK(p) ==
    /\ pc[p] = "revoke" => job[p].op = "revoke"
    /\ job[p].op = "revoke" =>
           /\ pc[p] \notin {"match root", "match", "read root key", "sign root",
                            "read issuing key", "sign issuing", "journal", "save root",
                            "save issuing", "read arl"}
           /\ pc[p] \in {"open root", "open issuing", "generate root", "generate issuing",
                         "revoke"} => authorities["issuing"] # NoCertificate
           /\ pc[p] \in {"read revoked", "draw number", "sign arl", "save arl"} => revokedAt

\* Once it is revoked, every publication under way lists the authority, and so do
\* the ARLs with a greater number than one of theirs.
PublisherOK(p) ==
    /\ pc[p] \in {"sign arl", "save arl"} => job[p].number <= arlNumber
    /\ Undisturbed =>
           /\ Publishing(p) => authorities["issuing"].id \in job[p].revoked
           /\ pc[p] \in {"sign arl", "save arl"} =>
                  \A a \in arls : a.number >= job[p].number => Lists(a)

ArlsOK ==
    /\ \A a \in arls : a.number <= arlNumber
    /\ arls # {} => \E a \in arls : \A b \in arls : b.number <= a.number
    /\ revokedAt => authorities["issuing"] # NoCertificate
    /\ answered => revokedAt
    /\ answered /\ Undisturbed =>
           \E a \in arls : \A b \in arls : b.number >= a.number => Lists(b)

RevocationInv ==
    /\ HierarchyInv
    /\ \A p \in Process : RevokerOK(p) /\ PublisherOK(p)
    /\ ArlsOK

-----------------------------------------------------------------------------

Revokes(p) ==
    /\ pc[p] = "revoke" /\ pc'[p] = "read revoked" /\ job'[p] = job[p]
    /\ revokedAt' = TRUE
    /\ crossed' = (crossed \/ (~ revokedAt /\ \E q \in Process \ {p} : Publishing(q)))
    /\ UNCHANGED <<authorities, overlapped, arls, arlNumber, answered>>

ReadsRevoked(p) ==
    /\ pc[p] = "read revoked" /\ pc'[p] = "draw number" /\ job'[p].op = job[p].op
    /\ job'[p].revoked = IF revokedAt THEN {authorities["issuing"].id} ELSE {}
    /\ UNCHANGED <<authorities, overlapped, revokedAt, crossed, arls, arlNumber, answered>>

Numbers(p) ==
    /\ pc[p] = "draw number" /\ pc'[p] = "sign arl"
    /\ arlNumber' = arlNumber + 1 /\ job'[p].number = arlNumber + 1
    /\ job'[p].op = job[p].op /\ job'[p].revoked = job[p].revoked
    /\ UNCHANGED <<authorities, overlapped, revokedAt, crossed, arls, answered>>

SignsArl(p) ==
    /\ pc[p] = "sign arl" /\ pc'[p] = "save arl"
    /\ job'[p].op = job[p].op /\ job'[p].revoked = job[p].revoked
    /\ job'[p].number = job[p].number
    /\ UNCHANGED <<authorities, overlapped, revokedAt, crossed, arls, arlNumber, answered>>

SavesArl(p) ==
    /\ Publishes(p)
    /\ answered' = (answered \/ job[p].op = "revoke")
    /\ UNCHANGED <<revokedAt, crossed, arlNumber>>

NoArl(p) ==
    /\ pc'[p] \notin {"draw number", "sign arl", "save arl"}
    /\ UNCHANGED <<revokedAt, crossed, arls, arlNumber, answered>>

ArlStep(p) ==
    Revokes(p) \/ ReadsRevoked(p) \/ Numbers(p) \/ SignsArl(p) \/ SavesArl(p) \/ NoArl(p)

LEMMA ArlKinds == ASSUME TypeInv, NEW p \in Process, Step(p) PROVE ArlStep(p)
<1> USE HierarchyAssumption DEF At, Goto, Ends
<1>0. job[p] \in JobType /\ job \in [Process -> JobType] /\ pc \in [Process -> Label]
      /\ (pc[p] # "idle" => job[p].op \in Op)
  BY DEF TypeInv
<1>1. CASE \E op \in Op : Start(p, op)
  BY <1>0, <1>1 DEF Start, NoArl, ArlStep, tables, marks
<1>2. ASSUME NEW t \in Token, OpenKey(p, t) \/ GenerateKey(p, t) PROVE ArlStep(p)
  <2>1. pc'[p] \in {AfterOpening(p, t), GenerateLabel(t)} /\ job[p].op \in Op
    BY <1>0, <1>2 DEF OpenKey, GenerateKey, OpenLabel, GenerateLabel
  <2>2. pc'[p] \notin {"draw number", "sign arl", "save arl"}
    BY <2>1 DEF AfterOpening, GenerateLabel, Op
  <2> QED  BY <1>2, <2>2 DEF OpenKey, GenerateKey, NoArl, ArlStep, tables, marks
<1>3. CASE ReadRoot(p) \/ ReadIssuing(p)
  BY <1>0, <1>3 DEF ReadRoot, ReadIssuing, NothingThere, Create, NoArl, ArlStep, tables
<1>4. CASE \/ MatchesRoot(p) \/ Matches(p) \/ JournalCeremony(p) \/ ReadArl(p) \/ End(p)
           \/ Die(p) \/ Serve(p) \/ ReadRootKey(p) \/ SignRoot(p) \/ ReadIssuingKey(p)
           \/ SignIssuing(p) \/ Register(p)
  <2>1. pc'[p] \in {"match", "serving", "read arl", "save root", "read revoked", "idle",
                    "sign root", "read issuing key", "sign issuing", "journal", "save issuing"}
    BY <1>0, <1>4 DEF MatchesRoot, Matches, JournalCeremony, ReadArl, End, Die, Serve,
       ReadRootKey, SignRoot, ReadIssuingKey, SignIssuing, Register
  <2>2. UNCHANGED <<revokedAt, crossed, arls, arlNumber, answered>>
    BY <1>4 DEF MatchesRoot, Matches, JournalCeremony, ReadArl, End, Die, Serve, ReadRootKey,
       SignRoot, ReadIssuingKey, SignIssuing, Register, SaveAuthority, tables, marks
  <2> QED  BY <2>1, <2>2 DEF NoArl, ArlStep
<1>5. CASE RevokeAuthority(p)
  BY <1>0, <1>5 DEF RevokeAuthority, Revokes, ArlStep
<1>6. CASE ReadRevokedAuthorities(p)
  BY <1>0, <1>6 DEF ReadRevokedAuthorities, ReadsRevoked, ArlStep, JobType, tables, marks
<1>7. CASE DrawArlNumber(p)
  BY <1>0, <1>7 DEF DrawArlNumber, Numbers, ArlStep, JobType, marks
<1>8. CASE SignArl(p)
  <2>1. PICK s \in AnyPair : /\ pc[p] = "sign arl"
                             /\ At(p, "save arl", [job[p] EXCEPT !.signer = s])
    BY <1>8 DEF SignArl
  <2>2. UNCHANGED <<tables, marks>>
    BY <1>8 DEF SignArl
  <2> QED  BY <1>0, <2>1, <2>2 DEF SignsArl, ArlStep, JobType, tables, marks
<1>9. CASE SaveArl(p)
  BY <1>0, <1>9 DEF SaveArl, Publishes, SavesArl, ArlStep
<1> QED  BY <1>1, <1>2, <1>3, <1>4, <1>5, <1>6, <1>7, <1>8, <1>9 DEF Step, Op

\* An issuing authority is registered for good, and an undisturbed revocation is
\* of the one that is.
LEMMA IssuingStays ==
    ASSUME TypeInv, RegistryOK, NEW p \in Process, JobOK(p), Step(p)
    PROVE  /\ authorities["issuing"] # NoCertificate => authorities'["issuing"] # NoCertificate
           /\ authorities["issuing"] # NoCertificate /\ ~ overlapped =>
                  authorities'["issuing"] = authorities["issuing"]
<1> USE HierarchyAssumption
<1>1. Creates(p) \/ RegistersRoot(p) \/ RegistersIssuing(p) \/ Publishes(p) \/ Elsewhere(p)
  BY RegistryKinds
<1>2. CASE authorities'["issuing"] = authorities["issuing"]
  BY <1>2
<1>3. CASE RegistersIssuing(p)
  <2>1. authorities'["issuing"] = job[p].issuing /\ pc[p] = "save issuing"
    BY <1>3 DEF RegistersIssuing, TypeInv
  <2>2. job[p].issuing.id # 0
    BY <2>1 DEF JobOK
  <2>3. job[p].issuing # NoCertificate
    BY <2>2 DEF NoCertificate
  <2>4. ~ overlapped => authorities["issuing"] = NoCertificate
    BY <2>1 DEF RegistryOK, Creating
  <2> QED  BY <2>1, <2>3, <2>4
<1>4. RegistersIssuing(p) \/ authorities'["issuing"] = authorities["issuing"]
  BY <1>1 DEF Creates, RegistersRoot, Publishes, Elsewhere, TypeInv
<1> QED  BY <1>2, <1>3, <1>4

LEMMA RevokerStep ==
    ASSUME HierarchyInv, NEW p \in Process, Step(p), Alone(p), NEW q \in Process, RevokerOK(q)
    PROVE  RevokerOK(q)'
<1> USE HierarchyAssumption
<1>0. TypeInv /\ ArlStep(p) /\ job[p] \in JobType /\ job \in [Process -> JobType]
      /\ pc \in [Process -> Label] /\ (pc[p] # "idle" => job[p].op \in Op)
  BY ArlKinds DEF HierarchyInv, TypeInv
<1>1. authorities["issuing"] # NoCertificate => authorities'["issuing"] # NoCertificate
  BY IssuingStays DEF HierarchyInv
<1>2. revokedAt => revokedAt'
  BY <1>0 DEF ArlStep, Revokes, ReadsRevoked, Numbers, SignsArl, SavesArl, NoArl, TypeInv
<1>3. CASE q # p
  BY <1>1, <1>2, <1>3 DEF RevokerOK, Alone
<1>4. CASE q = p
  <2> USE DEF At, Goto, Ends
  <2>1. CASE \E op \in Op : Start(p, op)
    <3>1. /\ pc'[p] \in {"open root", "read root"}
          /\ pc'[p] = "open root" => job'[p].op = "ceremony"
      BY <1>0, <2>1 DEF Start, NoJob
    <3> QED  BY <1>4, <3>1 DEF RevokerOK
  <2>2. ASSUME NEW t \in Token, OpenKey(p, t) \/ GenerateKey(p, t) PROVE RevokerOK(q)'
    <3>1. /\ pc[p] \in {"open root", "open issuing", "generate root", "generate issuing"}
          /\ pc'[p] \in {AfterOpening(p, t), GenerateLabel(t)} /\ job'[p] = job[p]
      BY <1>0, <2>2 DEF OpenKey, GenerateKey, OpenLabel, GenerateLabel
    <3>2. /\ job[p].op = "revoke" =>
                 pc'[p] \in {"revoke", "generate root", "generate issuing"}
          /\ pc'[p] = "revoke" => job[p].op = "revoke"
      BY <1>0, <3>1 DEF AfterOpening, GenerateLabel, Op
    <3> QED  BY <1>1, <1>4, <3>1, <3>2 DEF RevokerOK
  <2>3. CASE Ends(p)
    BY <1>0, <1>4, <2>3 DEF RevokerOK
  <2>4. CASE ReadRoot(p) \/ ReadIssuing(p)
    <3>1. CASE job'[p].op # "revoke" /\ pc'[p] # "revoke"
      BY <1>4, <3>1 DEF RevokerOK
    <3>2. CASE pc'[p] \in {"idle", "read issuing"}
      BY <1>4, <3>2 DEF RevokerOK
    <3>3. CASE pc'[p] = "open root" /\ authorities["issuing"] # NoCertificate
      BY <1>1, <1>4, <3>3 DEF RevokerOK
    <3>4. \/ job'[p].op # "revoke" /\ pc'[p] # "revoke"
          \/ pc'[p] \in {"idle", "read issuing"}
          \/ pc'[p] = "open root" /\ authorities["issuing"] # NoCertificate
      BY <1>0, <2>4 DEF ReadRoot, ReadIssuing, NothingThere, Create, JobType
    <3> QED  BY <3>1, <3>2, <3>3, <3>4
  <2>5. CASE \/ MatchesRoot(p) \/ Matches(p) \/ ReadRootKey(p) \/ SignRoot(p)
             \/ ReadIssuingKey(p) \/ SignIssuing(p) \/ JournalCeremony(p) \/ Register(p)
             \/ ReadArl(p)
    <3>1. job[p].op # "revoke"
      BY <1>4, <2>5 DEF RevokerOK, MatchesRoot, Matches, ReadRootKey, SignRoot, ReadIssuingKey,
         SignIssuing, JournalCeremony, Register, ReadArl
    <3>2. CASE Ends(p)
      BY <2>3, <3>2
    <3>3. CASE ~ Ends(p)
      <4>1. \E l \in Label \ {"revoke"} : \E x, y :
              \/ At(p, l, job[p])
              \/ At(p, l, [job[p] EXCEPT !.root = x])
              \/ At(p, l, [job[p] EXCEPT !.issuing = y])
        BY <2>5, <3>3 DEF MatchesRoot, Matches, ReadRootKey, SignRoot, ReadIssuingKey, SignIssuing,
           JournalCeremony, Register, ReadArl, Label
      <4>2. job'[p].op = job[p].op /\ pc'[p] # "revoke"
        BY <1>0, <4>1 DEF JobType
      <4> QED  BY <1>4, <3>1, <4>2 DEF RevokerOK
    <3> QED  BY <3>2, <3>3
  <2>6. CASE Serve(p)
    BY <1>1, <1>2, <1>4, <2>6 DEF Serve, RevokerOK
  <2>7. CASE RevokeAuthority(p) \/ ReadRevokedAuthorities(p) \/ DrawArlNumber(p) \/ SignArl(p)
    <3>1. pc'[p] \in {"read revoked", "draw number", "sign arl", "save arl"}
          /\ pc[p] \in {"revoke", "read revoked", "draw number", "sign arl"}
      BY <1>0, <2>7 DEF RevokeAuthority, ReadRevokedAuthorities, DrawArlNumber, SignArl
    <3>2. job'[p].op = job[p].op /\ (pc[p] = "revoke" => revokedAt')
      <4>1. job'[p].op = job[p].op
        <5>1. \E l, r, n, s : \/ At(p, l, job[p])
                              \/ At(p, l, [job[p] EXCEPT !.revoked = r])
                              \/ At(p, l, [job[p] EXCEPT !.number = n])
                              \/ At(p, l, [job[p] EXCEPT !.signer = s])
          BY <2>7 DEF RevokeAuthority, ReadRevokedAuthorities, DrawArlNumber, SignArl
        <5> QED  BY <1>0, <5>1 DEF JobType
      <4>2. pc[p] = "revoke" => revokedAt'
        BY <2>7 DEF RevokeAuthority, ReadRevokedAuthorities, DrawArlNumber, SignArl
      <4> QED  BY <4>1, <4>2
    <3> QED  BY <1>2, <1>4, <3>1, <3>2 DEF RevokerOK
  <2> QED
    BY <2>1, <2>2, <2>3, <2>4, <2>5, <2>6, <2>7 DEF Step, Op, SaveArl, End, Die
<1> QED  BY <1>3, <1>4

\* A revocation that nothing disturbed yet was so before, or takes place now while
\* no publication is under way.
LEMMA FirstRevocation ==
    ASSUME RevocationInv, NEW p \in Process, Step(p), Undisturbed'
    PROVE  \/ Undisturbed /\ authorities'["issuing"] = authorities["issuing"]
           \/ Revokes(p) /\ ~ revokedAt /\ \A q \in Process \ {p} : ~ Publishing(q)
<1>0. ArlStep(p) /\ TypeInv
  BY ArlKinds DEF RevocationInv, HierarchyInv
<1>1. ~ overlapped
  BY <1>0, RegistryKinds
  DEF Undisturbed, Creates, RegistersRoot, RegistersIssuing, Publishes, Elsewhere, TypeInv
<1>2. Undisturbed => authorities'["issuing"] = authorities["issuing"]
  BY IssuingStays DEF Undisturbed, RevocationInv, HierarchyInv, ArlsOK
<1>3. CASE Revokes(p)
  BY <1>0, <1>1, <1>2, <1>3 DEF Revokes, Undisturbed, TypeInv
<1>4. CASE revokedAt' = revokedAt /\ crossed' = crossed
  BY <1>1, <1>2, <1>4 DEF Undisturbed
<1> QED
  BY <1>0, <1>3, <1>4 DEF ArlStep, ReadsRevoked, Numbers, SignsArl, SavesArl, NoArl

\* An ARL that is added was numbered, and lists an authority revoked by then.
LEMMA NewArls ==
    ASSUME RevocationInv, NEW p \in Process, Step(p)
    PROVE  \/ UNCHANGED <<arls, answered>>
           \/ \E c \in Arl : /\ SavesArl(p) /\ arls' = arls \cup {c}
                             /\ c.number = job[p].number /\ c.number <= arlNumber
                             /\ pc[p] = "save arl"
                             /\ Undisturbed => Lists(c)
<1>0. ArlStep(p) /\ job[p] \in JobType /\ PublisherOK(p)
  BY ArlKinds DEF RevocationInv, HierarchyInv, TypeInv
<1>1. CASE SavesArl(p)
  <2> DEFINE new == [number |-> job[p].number, lists |-> job[p].revoked,
                     signer |-> job[p].signer, root |-> job[p].root]
  <2>1. new \in Arl /\ new.number = job[p].number /\ new.lists = job[p].revoked
    BY <1>0 DEF Arl, JobType
  <2>2. pc[p] = "save arl" /\ arls' = arls \cup {new}
    BY <1>1 DEF SavesArl, Publishes
  <2> HIDE DEF new
  <2>3. new.number <= arlNumber /\ (Undisturbed => Lists(new))
    BY <1>0, <2>1, <2>2 DEF PublisherOK, Publishing, Lists
  <2> QED  BY <1>1, <2>1, <2>2, <2>3
<1>2. CASE ~ SavesArl(p)
  BY <1>0, <1>2 DEF ArlStep, Revokes, ReadsRevoked, Numbers, SignsArl, NoArl
<1> QED  BY <1>1, <1>2

LEMMA PublisherStep ==
    ASSUME RevocationInv, NEW p \in Process, Step(p), Alone(p), NEW q \in Process
    PROVE  PublisherOK(q)'
<1>0. /\ ArlStep(p) /\ PublisherOK(q) /\ PublisherOK(p)
      /\ arlNumber \in Nat /\ \A r \in Process : job[r].number \in Nat
      /\ \A a \in arls : a.number \in Nat /\ a.number <= arlNumber
  BY ArlKinds DEF RevocationInv, HierarchyInv, TypeInv, JobType, Arl, ArlsOK
<1> USE DEF Publishing
<1>1. pc'[q] \in {"sign arl", "save arl"} => job'[q].number <= arlNumber'
  <2>1. arlNumber' = arlNumber \/ arlNumber' = arlNumber + 1
    BY <1>0 DEF ArlStep, Revokes, ReadsRevoked, Numbers, SignsArl, SavesArl, NoArl
  <2>2. CASE q # p
    <3>1. pc'[q] = pc[q] /\ job'[q] = job[q]
      BY <2>2 DEF Alone
    <3>2. pc[q] \in {"sign arl", "save arl"} => job[q].number <= arlNumber
      BY <1>0 DEF PublisherOK
    <3>3. arlNumber \in Nat /\ job[q].number \in Nat
      BY <1>0
    <3>4. job[q].number <= arlNumber => job[q].number <= arlNumber'
      BY <2>1, <3>3
    <3> QED  BY <3>1, <3>2, <3>4
  <2>3. CASE q = p
    <3>1. CASE Numbers(p)
      <4>1. job'[q].number = arlNumber + 1 /\ arlNumber' = arlNumber + 1
        BY <2>3, <3>1 DEF Numbers
      <4>2. arlNumber + 1 <= arlNumber + 1
        BY <1>0
      <4> QED  BY <4>1, <4>2
    <3>2. CASE SignsArl(p)
      <4>1. job[p].number <= arlNumber
        BY <1>0, <3>2 DEF SignsArl, PublisherOK
      <4> QED  BY <2>3, <3>2, <4>1 DEF SignsArl
    <3>3. CASE Revokes(p) \/ ReadsRevoked(p) \/ SavesArl(p) \/ NoArl(p)
      BY <2>3, <3>3 DEF Revokes, ReadsRevoked, SavesArl, Publishes, NoArl
    <3> QED  BY <1>0, <3>1, <3>2, <3>3 DEF ArlStep
  <2> QED  BY <2>2, <2>3
<1>2. ASSUME Undisturbed', Undisturbed, authorities'["issuing"] = authorities["issuing"]
      PROVE  /\ Publishing(q)' => authorities'["issuing"].id \in job'[q].revoked
             /\ pc'[q] \in {"sign arl", "save arl"} =>
                    \A a \in arls' : a.number >= job'[q].number => Lists(a)'
  <2>1. CASE q # p
    <3>1. pc'[q] = pc[q] /\ job'[q] = job[q]
      BY <2>1 DEF Alone
    <3>2. pc[q] \in {"sign arl", "save arl"} =>
              \A a \in arls' : a.number >= job[q].number => Lists(a)
      BY <1>0, <1>2, NewArls DEF PublisherOK
    <3> QED  BY <1>0, <1>2, <3>1, <3>2 DEF PublisherOK, Lists
  <2>2. CASE q = p /\ ReadsRevoked(p)
    BY <1>2, <2>2 DEF ReadsRevoked, Undisturbed
  <2>3. CASE q = p /\ Numbers(p)
    <3>1. \A a \in arls' : ~ a.number >= job'[q].number
      <4>1. job'[q].number = arlNumber + 1 /\ arls' = arls
        BY <2>3 DEF Numbers
      <4> QED  BY <1>0, <4>1
    <3>2. authorities["issuing"].id \in job[p].revoked
      BY <1>0, <1>2, <2>3 DEF Numbers, PublisherOK
    <3> QED  BY <1>2, <2>3, <3>1, <3>2 DEF Numbers
  <2>4. CASE q = p /\ SignsArl(p)
    BY <1>0, <1>2, <2>4 DEF SignsArl, PublisherOK, Lists
  <2>5. CASE q = p /\ (Revokes(p) \/ SavesArl(p) \/ NoArl(p))
    BY <2>5 DEF Revokes, SavesArl, Publishes, NoArl
  <2> QED  BY <1>0, <2>1, <2>2, <2>3, <2>4, <2>5 DEF ArlStep
<1>3. ASSUME Revokes(p), \A r \in Process \ {p} : ~ Publishing(r)
      PROVE  ~ Publishing(q)'
  BY <1>3 DEF Revokes, Alone
<1>4. Undisturbed' =>
          /\ Publishing(q)' => authorities'["issuing"].id \in job'[q].revoked
          /\ pc'[q] \in {"sign arl", "save arl"} =>
                 \A a \in arls' : a.number >= job'[q].number => Lists(a)'
  BY <1>2, <1>3, FirstRevocation
<1> QED  BY <1>1, <1>4 DEF PublisherOK

LEMMA ArlsStep ==
    ASSUME RevocationInv, NEW p \in Process, Step(p)
    PROVE  ArlsOK'
<1>0. /\ ArlStep(p) /\ ArlsOK /\ RevokerOK(p) /\ PublisherOK(p) /\ TypeInv
      /\ arlNumber \in Nat /\ job[p].number \in Nat
      /\ \A a \in arls : a.number \in Nat
  BY ArlKinds DEF RevocationInv, HierarchyInv, TypeInv, JobType, Arl
<1>1. arlNumber' = arlNumber \/ arlNumber' = arlNumber + 1
  BY <1>0 DEF ArlStep, Revokes, ReadsRevoked, Numbers, SignsArl, SavesArl, NoArl
<1>2. \A a \in arls' : a.number <= arlNumber'
  <2>1. \A a \in arls : a.number <= arlNumber
    BY <1>0 DEF ArlsOK
  <2>2. arls' = arls \/ \E c \in Arl : arls' = arls \cup {c} /\ c.number <= arlNumber
    BY NewArls
  <2>3. \A a \in arls' : a.number \in Nat /\ a.number <= arlNumber
    BY <1>0, <2>1, <2>2 DEF Arl
  <2> QED  BY <1>0, <1>1, <2>3
<1>3. arls' # {} => \E a \in arls' : \A b \in arls' : b.number <= a.number
  <2>1. CASE UNCHANGED arls
    BY <1>0, <2>1 DEF ArlsOK
  <2>2. ASSUME NEW c \in Arl, arls' = arls \cup {c}
        PROVE  \E a \in arls' : \A b \in arls' : b.number <= a.number
    <3>0. c.number \in Nat
      BY DEF Arl
    <3>1. CASE \A a \in arls : a.number <= c.number
      BY <2>2, <3>0, <3>1
    <3>2. ASSUME NEW d \in arls, ~ d.number <= c.number
          PROVE  \E a \in arls' : \A b \in arls' : b.number <= a.number
      <4>1. PICK a \in arls : \A b \in arls : b.number <= a.number
        BY <1>0, <3>2 DEF ArlsOK
      <4>2. c.number <= a.number
        BY <1>0, <3>0, <3>2, <4>1
      <4> QED  BY <2>2, <4>1, <4>2
    <3> QED  BY <3>1, <3>2
  <2> QED  BY <2>1, <2>2, NewArls
<1>4. /\ revokedAt' => authorities'["issuing"] # NoCertificate
      /\ answered' => revokedAt'
  <2>1. authorities["issuing"] # NoCertificate => authorities'["issuing"] # NoCertificate
    BY IssuingStays DEF RevocationInv, HierarchyInv
  <2>2. CASE Revokes(p)
    BY <1>0, <2>1, <2>2 DEF Revokes, RevokerOK, ArlsOK, HierarchyInv
  <2>3. CASE SavesArl(p)
    BY <1>0, <2>1, <2>3 DEF SavesArl, Publishes, RevokerOK, ArlsOK, TypeInv
  <2>4. CASE revokedAt' = revokedAt /\ answered' = answered
    BY <1>0, <2>1, <2>4 DEF ArlsOK
  <2> QED  BY <1>0, <2>2, <2>3, <2>4 DEF ArlStep, ReadsRevoked, Numbers, SignsArl, NoArl
<1>5. ASSUME answered', Undisturbed'
      PROVE  \E a \in arls' : \A b \in arls' : b.number >= a.number => Lists(b)'
  <2>1. Undisturbed /\ authorities'["issuing"] = authorities["issuing"]
    <3>1. ~ (Revokes(p) /\ ~ revokedAt)
      BY <1>0, <1>5 DEF Revokes, ArlsOK
    <3> QED  BY <1>5, <3>1, FirstRevocation
  <2>2. \A a : Lists(a)' <=> Lists(a)
    BY <2>1 DEF Lists
  <2>3. CASE UNCHANGED <<arls, answered>>
    BY <1>0, <1>5, <2>1, <2>2, <2>3 DEF ArlsOK
  <2>4. ASSUME NEW c \in Arl, SavesArl(p), arls' = arls \cup {c}, c.number = job[p].number,
               pc[p] = "save arl", Lists(c)
        PROVE  \E a \in arls' : \A b \in arls' : b.number >= a.number => Lists(b)
    <3>1. \A a \in arls : a.number >= c.number => Lists(a)
      BY <1>0, <2>1, <2>4 DEF PublisherOK
    <3> QED  BY <2>4, <3>1
  <2> QED  BY <2>1, <2>2, <2>3, <2>4, NewArls
<1> QED  BY <1>2, <1>3, <1>4, <1>5 DEF ArlsOK

LEMMA RevocationStep == RevocationInv /\ [Next]_vars => RevocationInv'
<1> SUFFICES ASSUME RevocationInv, [Next]_vars PROVE RevocationInv'
  OBVIOUS
<1>0. HierarchyInv'
  BY InvStep DEF RevocationInv
<1>1. ASSUME NEW p \in Process, Step(p) PROVE RevocationInv'
  <2>1. Alone(p)
    BY <1>1, StepsAlone DEF RevocationInv, HierarchyInv
  <2>2. \A q \in Process : RevokerOK(q)'
    BY <1>1, <2>1, RevokerStep DEF RevocationInv
  <2>3. \A q \in Process : PublisherOK(q)'
    BY <1>1, <2>1, PublisherStep
  <2> QED  BY <1>0, <1>1, <2>2, <2>3, ArlsStep DEF RevocationInv
<1>2. CASE TokenEvent \/ UNCHANGED vars
  <2>1. UNCHANGED <<tables, pc, job, overlapped, crossed, answered>>
    BY <1>2 DEF TokenEvent, vars, marks
  <2> QED
    BY <1>0, <2>1 DEF RevocationInv, RevokerOK, PublisherOK, ArlsOK, Undisturbed, Publishing,
       Lists, tables
<1> QED  BY <1>1, <1>2 DEF Next

\* A revocation that was answered and that nothing crossed stays in the latest ARL,
\* whatever is published after it, in whatever order the numbers are drawn.
THEOREM RevocationsAreListed == Spec => []RevocationIsListed
<1>1. Init => RevocationInv
  BY InvInit DEF Init, RevocationInv, RevokerOK, PublisherOK, ArlsOK, NoJob, Undisturbed
<1>2. RevocationInv => RevocationIsListed
  <2> SUFFICES ASSUME RevocationInv, answered, ~ crossed, ~ overlapped
               PROVE  authorities["issuing"].id \in Latest.lists
    BY DEF RevocationIsListed
  <2>1. PICK a \in arls : \A b \in arls : b.number >= a.number => Lists(b)
    BY DEF RevocationInv, ArlsOK, Undisturbed
  <2>2. Latest \in arls /\ \A b \in arls : b.number <= Latest.number
    BY <2>1 DEF Latest, RevocationInv, ArlsOK
  <2>3. Latest.number >= a.number
    BY <2>2 DEF RevocationInv, HierarchyInv, TypeInv, Arl
  <2> QED  BY <2>1, <2>2, <2>3 DEF Lists
<1> QED  BY <1>1, <1>2, RevocationStep, PTL DEF Spec

================================================================================
