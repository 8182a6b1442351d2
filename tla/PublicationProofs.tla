-------------------------- MODULE PublicationProofs --------------------------
(***************************************************************************)
(* Theorems about the publication of CRLs, for any publishers, commands,   *)
(* issuances and serials, and any number of tasks that stop half-way: the  *)
(* type, the uniqueness of numbers, that what is answered is listed, and   *)
(* the implementation of CrlFeed.                                          *)
(***************************************************************************)
EXTENDS CrlPublication, TLAPS

USE DEF storeVars, issuerVars, history

-----------------------------------------------------------------------------
(* Types, with what each step needs of the locals of its task. *)

\* What a task holds at the steps that write it to the registry or the journal.
LocalsOK(p) ==
    /\ pc[p] \in {"ensure_not_revoked", "reserve_serial", "check_profile",
                  "save_certificate"} => handled[p] \in Csr
    /\ pc[p] \in {"check_profile", "save_certificate"} => newSerial[p] \in Serial
    /\ pc[p] \in {"journal_revocation", "store_revocation"} =>
           target[p] \in [serial : Serial, reason : AllowedReasons, by : Revoker]

TypeInv == TypeOK /\ \A p \in Task : LocalsOK(p)

LEMMA TypeInit == Init => TypeInv
<1> SUFFICES ASSUME Init PROVE TypeInv
  OBVIOUS
<1>1. NoRow \in Certificate /\ NoTarget \in Target /\ NoDraft \in Crl
  BY DEF NoRow, Certificate, CertificateStatus, NoTarget, Target, NoDraft, Crl
<1> QED  BY <1>1 DEF Init, IssuerInit, StoreInit, TypeInv, TypeOK, LocalsOK, IssuerLabel

LEMMA TypeStep == TypeInv /\ [Next]_vars => TypeInv'
<1> SUFFICES ASSUME TypeInv, [Next]_vars PROVE TypeInv'
  OBVIOUS
<1> USE DEF TypeInv, TypeOK, LocalsOK
<1>1. ASSUME NEW p \in Task, Tick(p) PROVE TypeInv'
  BY <1>1 DEF Tick, Goto, IssuerLabel
<1>2. ASSUME NEW p \in Task, EnsureNotRevoked(p), UNCHANGED history PROVE TypeInv'
  BY <1>2 DEF EnsureNotRevoked, Goto, IssuerLabel
<1>3. ASSUME NEW p \in Task, DrawSerial(p), UNCHANGED history PROVE TypeInv'
  <2>1. certificates' \in [Serial -> Certificate]
    BY <1>3 DEF DrawSerial, ReserveSerial, Certificate, CertificateStatus
  <2> QED  BY <1>3, <2>1 DEF DrawSerial, Goto, IssuerLabel
<1>4. ASSUME NEW p \in Task, JournalIssuance(p), UNCHANGED history PROVE TypeInv'
  BY <1>4 DEF JournalIssuance, Record, Goto, IssuerLabel, IssuerEvent
<1>5. ASSUME NEW p \in Task, RegisterCertificate(p), UNCHANGED history PROVE TypeInv'
  <2>1. certificates' \in [Serial -> Certificate]
    BY <1>5 DEF RegisterCertificate, SaveCertificate, Certificate, CertificateStatus
  <2> QED  BY <1>5, <2>1 DEF RegisterCertificate, Goto, IssuerLabel
<1>6. ASSUME NEW p \in Task, JournalRevocation(p), UNCHANGED history PROVE TypeInv'
  BY <1>6 DEF JournalRevocation, Record, Goto, IssuerLabel, IssuerEvent
<1>7. ASSUME NEW p \in Task, StoreRevocation(p), UNCHANGED history PROVE TypeInv'
  <2>1. certificates' \in [Serial -> Certificate]
    BY <1>7 DEF StoreRevocation, RevokeCertificate, Certificate, CertificateStatus
  <2> QED  BY <1>7, <2>1 DEF StoreRevocation, Goto, IssuerLabel
<1>8. ASSUME NEW p \in Task, ReadRevoked(p), UNCHANGED history PROVE TypeInv'
  <2>1. [NoDraft EXCEPT !.revoked = RevokedSerials] \in Crl
    BY DEF NoDraft, RevokedSerials, Crl
  <2> QED  BY <1>8, <2>1 DEF ReadRevoked, Goto, IssuerLabel
<1>9. ASSUME NEW p \in Task, DrawNumber(p), UNCHANGED history PROVE TypeInv'
  <2>1. draft' \in [Task -> Crl] /\ crlSequence' \in Nat
    BY <1>9 DEF DrawNumber, NextCrlNumber, Crl
  <2> QED  BY <1>9, <2>1 DEF DrawNumber, NextCrlNumber, Goto, IssuerLabel
<1>10. ASSUME NEW p \in Task, ReadIssued(p), UNCHANGED history PROVE TypeInv'
  <2>1. draft' \in [Task -> Crl]
    BY <1>10 DEF ReadIssued, IssuedSerials, Saved, Crl
  <2> QED  BY <1>10, <2>1 DEF ReadIssued, Goto, IssuerLabel
<1>11. ASSUME NEW p \in Task, JournalCrl(p), UNCHANGED history PROVE TypeInv'
  <2>1. draft[p].number \in Nat
    BY DEF Crl
  <2> QED  BY <1>11, <2>1 DEF JournalCrl, Record, Goto, IssuerLabel, IssuerEvent
<1>12. ASSUME NEW p \in Task, PublishCrl(p), UNCHANGED history PROVE TypeInv'
  BY <1>12 DEF PublishCrl, SaveCrl, Goto, IssuerLabel
<1>13. ASSUME NEW p \in Task, PublishAtOnce(p) PROVE TypeInv'
  BY <1>13 DEF PublishAtOnce, Goto, IssuerLabel
<1>14. ASSUME NEW p \in Task, Stop(p) PROVE TypeInv'
  BY <1>14 DEF Stop, Abort, Goto, IssuerLabel
<1>15. ASSUME NEW p \in Task, End(p) PROVE TypeInv'
  <2>1. answered' \subseteq Serial
    BY <1>15 DEF End
  <2>2. NoTarget \in Target /\ NoDraft \in Crl
    BY DEF NoTarget, Target, NoDraft, Crl
  <2> QED  BY <1>15, <2>1, <2>2 DEF End, Goto, IssuerLabel
<1>16. ASSUME NEW p \in Task, NEW o \in Operator, NEW s \in Serial, NEW r \in Reason,
              StartRevocation(p, o, s, r)
       PROVE  TypeInv'
  <2>1. [serial |-> s, reason |-> r, by |-> o]
            \in [serial : Serial, reason : AllowedReasons, by : Revoker]
    BY ReasonAssumption DEF Revoker
  <2>2. [serial |-> s, reason |-> r, by |-> o] \in Target
    BY ReasonAssumption DEF Revoker, Target
  <2> QED  BY <1>16, <2>1, <2>2 DEF StartRevocation, Goto, IssuerLabel
<1>17. ASSUME NEW p \in Task, NEW c \in Csr, StartIssuance(p, c) PROVE TypeInv'
  BY <1>17 DEF StartIssuance, Goto, IssuerLabel
<1>18. ASSUME NEW s \in Serial, Expire(s) PROVE TypeInv'
  BY <1>18 DEF Expire
<1>19. CASE UNCHANGED vars
  BY <1>19 DEF vars
<1> QED
  BY <1>1, <1>2, <1>3, <1>4, <1>5, <1>6, <1>7, <1>8, <1>9, <1>10, <1>11, <1>12, <1>13,
     <1>14, <1>15, <1>16, <1>17, <1>18, <1>19
  DEF Next, Step, Issuing, IssuerStep

\* Every variable has its type.
THEOREM PublicationTypeCorrect == Spec => []TypeOK
<1>1. TypeInv => TypeOK
  BY DEF TypeInv
<1> QED  BY <1>1, TypeInit, TypeStep, PTL DEF Spec

-----------------------------------------------------------------------------
(* What the steps do to the registry and to the publications. *)

\* A task of the publication holds a number until it publishes.
Drawn(p) == pc[p] \in {"read_issued", "journal_crl", "save_crl"}
HasRead(p) == pc[p] \in {"journal_crl", "save_crl"}

\* The number is compared by nobody: it must come from the sequence.
NumbersOK ==
    /\ \A c \in crls : c.number <= crlSequence
    /\ \A p \in Task :
          /\ draft[p].number <= crlSequence
          /\ Drawn(p) => /\ draft[p].number # 0
                         /\ \A c \in crls : c.number # draft[p].number

\* What a publication has read is still so, revocations being final.
ContentsOK(p) ==
    /\ draft[p].revoked \subseteq RevokedSerials
    /\ HasRead(p) => draft[p].issued \subseteq Saved /\ draft[p].revoked \subseteq draft[p].issued

\* Every CRL whose number is n or more lists s, those to come included.
Covered(s, n) ==
    /\ s \in Saved
    /\ \A c \in crls : c.number >= n => s \in c.issued
    /\ \A q \in Task : HasRead(q) /\ draft[q].number >= n => s \in draft[q].issued

\* An issuance covers its certificate when it draws a number, and leaves a CRL
\* with that number when it ends.
IssuanceOK(p) ==
    /\ pc[p] \in {"check_profile", "save_certificate", "failed"}
       \/ newSerial[p] = None \/ newSerial[p] \in Saved
    /\ Drawn(p) \/ pc[p] = "done" =>
          newSerial[p] = None \/ Covered(newSerial[p], draft[p].number)
    /\ pc[p] = "done" => draft[p] \in crls

AnswersCovered == \A s \in answered : \E c \in crls : Covered(s, c.number)

IInv ==
    /\ TypeInv
    /\ NumbersOK /\ NumbersAreUnique
    /\ \A p \in Task : ContentsOK(p) /\ IssuanceOK(p)
    /\ AnswersCovered

-----------------------------------------------------------------------------
(* The steps, as the invariant sees them. *)

\* What was issued or revoked stays so, and the other tasks are where they were.
Others(p) ==
    /\ Saved \subseteq Saved' /\ RevokedSerials \subseteq RevokedSerials'
    /\ \A q \in Task \ {p} : /\ pc'[q] = pc[q] /\ draft'[q] = draft[q]
                             /\ newSerial'[q] = newSerial[q]

Draws(p) ==
    /\ pc[p] = "next_number" /\ pc'[p] = "read_issued"
    /\ crlSequence' = crlSequence + 1
    /\ draft'[p] = [draft[p] EXCEPT !.number = crlSequence + 1]
    /\ newSerial'[p] = newSerial[p] /\ UNCHANGED <<crls, answered>>

Reads(p) ==
    /\ pc[p] = "read_issued" /\ pc'[p] = "journal_crl"
    /\ draft'[p] = [draft[p] EXCEPT !.issued = Saved]
    /\ newSerial'[p] = newSerial[p] /\ UNCHANGED <<crls, crlSequence, answered>>

Journals(p) ==
    /\ pc[p] = "journal_crl" /\ pc'[p] = "save_crl"
    /\ draft'[p] = draft[p] /\ newSerial'[p] = newSerial[p]
    /\ UNCHANGED <<crls, crlSequence, answered>>

Publishes(p) ==
    /\ pc[p] = "save_crl" /\ pc'[p] = "done"
    /\ crls' = crls \cup {draft[p]}
    /\ draft'[p] = draft[p] /\ newSerial'[p] = newSerial[p]
    /\ UNCHANGED <<crlSequence, answered>>

Ends(p) ==
    /\ pc[p] = "done" /\ pc'[p] = "idle"
    /\ answered' = answered \cup ({newSerial[p]} \ {None})
    /\ draft'[p] = NoDraft /\ newSerial'[p] = None
    /\ UNCHANGED <<crls, crlSequence>>

\* A step of an issuance or of a revocation, a publication that begins, a task
\* that stops.
Goes(p) ==
    /\ pc'[p] \notin {"read_issued", "journal_crl", "save_crl", "done"}
    /\ draft'[p] \in {draft[p], NoDraft, [NoDraft EXCEPT !.revoked = RevokedSerials]}
    /\ pc'[p] \in {"check_profile", "save_certificate", "failed"}
       \/ newSerial'[p] = None \/ newSerial'[p] \in Saved'
    /\ UNCHANGED <<crls, crlSequence, answered>>

StepOf(p) ==
    /\ Others(p)
    /\ Draws(p) \/ Reads(p) \/ Journals(p) \/ Publishes(p) \/ Ends(p) \/ Goes(p)

LEMMA Grows ==
    ASSUME TypeInv, [Next]_vars
    PROVE  Saved \subseteq Saved' /\ RevokedSerials \subseteq RevokedSerials'
<1> USE DEF Saved, RevokedSerials
<1>1. CASE UNCHANGED certificates
  BY <1>1
<1>2. ASSUME NEW s, ReserveSerial(s)
      PROVE  Saved \subseteq Saved' /\ RevokedSerials \subseteq RevokedSerials'
  BY <1>2 DEF ReserveSerial, TypeInv, TypeOK
<1>3. ASSUME NEW s, NEW t, SaveCertificate(s, t)
      PROVE  Saved \subseteq Saved' /\ RevokedSerials \subseteq RevokedSerials'
  BY <1>3 DEF SaveCertificate, TypeInv, TypeOK
<1>4. ASSUME NEW s, NEW r, RevokeCertificate(s, r)
      PROVE  Saved \subseteq Saved' /\ RevokedSerials \subseteq RevokedSerials'
  BY <1>4 DEF RevokeCertificate, TypeInv, TypeOK, Certificate
<1>5. \/ UNCHANGED certificates
      \/ \E s : ReserveSerial(s) \/ (\E t : SaveCertificate(s, t))
                                 \/ (\E r : RevokeCertificate(s, r))
  BY DEF Next, Step, Issuing, IssuerStep, Tick, EnsureNotRevoked, DrawSerial, JournalIssuance,
     RegisterCertificate, JournalRevocation, StoreRevocation, ReadRevoked, DrawNumber,
     ReadIssued, JournalCrl, PublishCrl, PublishAtOnce, Stop, Abort, End, StartRevocation,
     StartIssuance, Expire, vars
<1> QED  BY <1>1, <1>2, <1>3, <1>4, <1>5

LEMMA StepKinds ==
    ASSUME TypeInv, \A p \in Task : IssuanceOK(p), [Next]_vars
    PROVE  \/ \E p \in Task : StepOf(p)
           \/ /\ UNCHANGED <<crls, crlSequence, answered, pc, draft, newSerial>>
              /\ Saved \subseteq Saved' /\ RevokedSerials \subseteq RevokedSerials'
<1>0. Saved \subseteq Saved' /\ RevokedSerials \subseteq RevokedSerials'
  BY Grows
<1>a. ASSUME NEW p \in Task
      PROVE  pc[p] \in {"check_profile", "save_certificate", "failed"}
             \/ newSerial[p] = None \/ newSerial[p] \in Saved'
  BY <1>0 DEF IssuanceOK
<1> USE DEF TypeInv, TypeOK
<1>1. ASSUME NEW p \in Task, Issuing(p) PROVE StepOf(p)
  <2>1. /\ \A q \in Task \ {p} : pc'[q] = pc[q] /\ draft'[q] = draft[q]
                                 /\ newSerial'[q] = newSerial[q]
        /\ UNCHANGED answered
    BY <1>1 DEF Issuing, IssuerStep, EnsureNotRevoked, DrawSerial, JournalIssuance,
       RegisterCertificate, JournalRevocation, StoreRevocation, ReadRevoked, DrawNumber,
       ReadIssued, JournalCrl, PublishCrl, Goto
  <2>2. CASE EnsureNotRevoked(p) \/ JournalIssuance(p) \/ JournalRevocation(p)
             \/ StoreRevocation(p) \/ DrawSerial(p)
    <3>1. Goes(p)
      BY <1>a, <2>1, <2>2 DEF EnsureNotRevoked, JournalIssuance, JournalRevocation, StoreRevocation,
         DrawSerial, Goto, Goes
    <3> QED  BY <1>0, <2>1, <3>1 DEF StepOf, Others
  <2>3. CASE RegisterCertificate(p)
    <3>1. newSerial[p] \in Saved'
      BY <2>3 DEF RegisterCertificate, SaveCertificate, LocalsOK, Saved
    <3>2. Goes(p)
      BY <2>1, <2>3, <3>1 DEF RegisterCertificate, Goto, Goes
    <3> QED  BY <1>0, <2>1, <3>2 DEF StepOf, Others
  <2>4. CASE ReadRevoked(p)
    <3>1. Goes(p)
      BY <1>a, <2>1, <2>4 DEF ReadRevoked, Goto, Goes
    <3> QED  BY <1>0, <2>1, <3>1 DEF StepOf, Others
  <2>5. CASE DrawNumber(p)
    <3>1. Draws(p)
      BY <2>1, <2>5 DEF DrawNumber, NextCrlNumber, Goto, Draws
    <3> QED  BY <1>0, <2>1, <3>1 DEF StepOf, Others
  <2>6. CASE ReadIssued(p)
    <3>1. Reads(p)
      BY <2>1, <2>6 DEF ReadIssued, IssuedSerials, Goto, Reads
    <3> QED  BY <1>0, <2>1, <3>1 DEF StepOf, Others
  <2>7. CASE JournalCrl(p)
    <3>1. Journals(p)
      BY <2>1, <2>7 DEF JournalCrl, Goto, Journals
    <3> QED  BY <1>0, <2>1, <3>1 DEF StepOf, Others
  <2>8. CASE PublishCrl(p)
    <3>1. Publishes(p)
      BY <2>1, <2>8 DEF PublishCrl, SaveCrl, Goto, Publishes
    <3> QED  BY <1>0, <2>1, <3>1 DEF StepOf, Others
  <2> QED  BY <1>1, <2>2, <2>3, <2>4, <2>5, <2>6, <2>7, <2>8 DEF Issuing, IssuerStep
<1>2. ASSUME NEW p \in Task, Tick(p) \/ PublishAtOnce(p) \/ Stop(p)
      PROVE  StepOf(p)
  BY <1>0, <1>a, <1>2 DEF Tick, PublishAtOnce, Stop, Abort, Goto, StepOf, Others, Goes
<1>3. ASSUME NEW p \in Task, End(p) PROVE StepOf(p)
  <2>1. Others(p)
    BY <1>0, <1>3 DEF End, Goto, Others
  <2>2. CASE pc[p] = "done"
    BY <1>3, <2>1, <2>2 DEF End, Goto, StepOf, Ends
  <2>3. CASE pc[p] = "failed"
    BY <1>3, <2>1, <2>3 DEF End, Goto, StepOf, Goes
  <2> QED  BY <1>3, <2>2, <2>3 DEF End
<1>4. ASSUME NEW p \in Task, NEW o \in Operator, NEW s \in Serial, NEW r \in Reason,
             StartRevocation(p, o, s, r)
      PROVE  StepOf(p)
  BY <1>0, <1>a, <1>4 DEF StartRevocation, Goto, StepOf, Others, Goes
<1>5. ASSUME NEW p \in Task, NEW c \in Csr, StartIssuance(p, c) PROVE StepOf(p)
  BY <1>0, <1>a, <1>5 DEF StartIssuance, Goto, StepOf, Others, Goes
<1>6. ASSUME NEW s \in Serial, Expire(s)
      PROVE  UNCHANGED <<crls, crlSequence, answered, pc, draft, newSerial>>
  BY <1>6 DEF Expire
<1>7. CASE UNCHANGED vars
  BY <1>0, <1>7 DEF vars
<1> QED  BY <1>0, <1>1, <1>2, <1>3, <1>4, <1>5, <1>6, <1>7 DEF Next, Step

-----------------------------------------------------------------------------
(* The invariant. *)

LEMMA InvInit == Init => IInv
<1> SUFFICES ASSUME Init PROVE IInv
  OBVIOUS
<1> USE DEF Init, IssuerInit, StoreInit
<1>1. TypeInv
  BY TypeInit
<1>2. NumbersOK
  BY DEF NumbersOK, NoDraft, Drawn
<1>3. NumbersAreUnique
  BY DEF NumbersAreUnique, NoDraft
<1>4. ASSUME NEW p \in Task PROVE ContentsOK(p) /\ IssuanceOK(p)
  BY <1>4 DEF ContentsOK, IssuanceOK, NoDraft, Drawn, HasRead
<1>5. AnswersCovered
  BY DEF AnswersCovered
<1> QED  BY <1>1, <1>2, <1>3, <1>4, <1>5 DEF IInv

LEMMA NumbersStep ==
    ASSUME TypeInv, NumbersOK, NumbersAreUnique, NEW p \in Task, StepOf(p), TypeInv'
    PROVE  NumbersOK' /\ NumbersAreUnique'
<1>0. /\ crlSequence \in Nat /\ \A c \in crls : c.number \in Nat
      /\ \A q \in Task : draft[q] \in Crl /\ draft[q].number \in Nat
      /\ draft \in [Task -> Crl] /\ draft' \in [Task -> Crl]
  BY DEF TypeInv, TypeOK, Crl
<1> USE DEF StepOf, Others, NumbersOK, NumbersAreUnique, Drawn
<1>1. CASE Draws(p)
  <2>1. draft'[p].number = crlSequence + 1
    BY <1>0, <1>1 DEF Draws, Crl
  <2>2. /\ pc'[p] = "read_issued" /\ crlSequence' = crlSequence + 1 /\ crls' = crls
        /\ \A q \in Task : q # p => pc'[q] = pc[q] /\ draft'[q].number = draft[q].number
    BY <1>1 DEF Draws
  <2>3. NumbersOK'
    BY <1>0, <2>1, <2>2
  <2>4. NumbersAreUnique'
    BY <1>0, <2>1, <2>2
  <2> QED  BY <2>3, <2>4
<1>2. CASE Reads(p)
  <2>1. draft'[p].number = draft[p].number
    BY <1>0, <1>2 DEF Reads, Crl
  <2>2. /\ pc[p] = "read_issued" /\ crlSequence' = crlSequence /\ crls' = crls
        /\ \A q \in Task : q # p => pc'[q] = pc[q] /\ draft'[q].number = draft[q].number
    BY <1>2 DEF Reads
  <2> QED  BY <1>0, <2>1, <2>2
<1>3. CASE Journals(p)
  BY <1>0, <1>3 DEF Journals
<1>4. CASE Publishes(p)
  <2>1. \A q \in Task : draft'[q] = draft[q]
    BY <1>4 DEF Publishes
  <2> QED  BY <1>0, <1>4, <2>1 DEF Publishes
<1>5. CASE Ends(p)
  BY <1>0, <1>5 DEF Ends, NoDraft
<1>6. CASE Goes(p)
  <2>1. draft'[p].number \in {draft[p].number, 0}
    BY <1>0, <1>6 DEF Goes, NoDraft
  <2> QED  BY <1>0, <1>6, <2>1 DEF Goes
<1> QED  BY <1>1, <1>2, <1>3, <1>4, <1>5, <1>6

LEMMA ContentsStep ==
    ASSUME TypeInv, NEW p \in Task, StepOf(p), NEW q \in Task, ContentsOK(q)
    PROVE  ContentsOK(q)'
<1>0. draft[p] \in Crl /\ RevokedSerials \subseteq Saved
  BY DEF TypeInv, TypeOK, RevokedSerials, Saved
<1> USE DEF StepOf, Others, ContentsOK, HasRead
<1>1. CASE q # p
  BY <1>1
<1>2. CASE q = p /\ (Draws(p) \/ Reads(p))
  BY <1>0, <1>2 DEF Draws, Reads, Crl
<1>3. CASE q = p /\ (Journals(p) \/ Publishes(p) \/ Ends(p))
  BY <1>3 DEF Journals, Publishes, Ends, NoDraft
<1>4. CASE q = p /\ Goes(p)
  BY <1>4 DEF Goes, NoDraft
<1> QED  BY <1>1, <1>2, <1>3, <1>4

\* What the next publications will list, they go on listing.
LEMMA CoveredStays ==
    ASSUME TypeInv, NEW p \in Task, StepOf(p), NEW s, NEW n \in Nat, Covered(s, n)
    PROVE  Covered(s, n)'
<1>0. draft[p] \in Crl
  BY DEF TypeInv, TypeOK
<1> USE DEF StepOf, Others, Covered, HasRead
<1>1. CASE Draws(p) \/ Journals(p) \/ Ends(p) \/ Goes(p)
  BY <1>1 DEF Draws, Journals, Ends, Goes
<1>2. CASE Reads(p)
  BY <1>0, <1>2 DEF Reads, Crl
<1>3. CASE Publishes(p)
  BY <1>3 DEF Publishes
<1> QED  BY <1>1, <1>2, <1>3

LEMMA IssuanceStep ==
    ASSUME TypeInv, NumbersOK, NEW p \in Task, StepOf(p), NEW q \in Task, IssuanceOK(q)
    PROVE  IssuanceOK(q)'
<1>0. /\ crlSequence \in Nat /\ \A c \in crls : c.number \in Nat
      /\ \A r \in Task : draft[r] \in Crl /\ draft[r].number \in Nat
  BY DEF TypeInv, TypeOK, Crl
<1> USE DEF StepOf, Others, IssuanceOK, Drawn
\* A task that keeps its number and its certificate keeps them covered.
<1>1. ASSUME Covered(newSerial[q], draft[q].number), newSerial'[q] = newSerial[q],
             draft'[q].number = draft[q].number
      PROVE  Covered(newSerial[q], draft[q].number)'
  <2>1. PICK s, n : s = newSerial[q] /\ n = draft[q].number
    OBVIOUS
  <2>2. Covered(s, n) /\ n \in Nat
    BY <1>0, <1>1, <2>1
  <2>3. Covered(s, n)'
    BY <2>2, CoveredStays
  <2> QED  BY <1>1, <2>1, <2>3 DEF Covered
<1>2. CASE q # p
  <2>1. draft[q] \in crls => draft'[q] \in crls'
    BY <1>2 DEF Draws, Reads, Journals, Publishes, Ends, Goes
  <2> QED  BY <1>1, <1>2, <2>1
<1>3. CASE q = p /\ Draws(p)
  <2>1. newSerial[p] = None \/ newSerial[p] \in Saved
    BY <1>3 DEF Draws
  <2>2. draft'[p].number = crlSequence + 1 /\ newSerial'[p] = newSerial[p]
    BY <1>0, <1>3 DEF Draws, Crl
  <2>3. ASSUME NEW r \in Task, HasRead(r)' PROVE r # p /\ draft'[r].number <= crlSequence
    BY <1>3, <2>3 DEF Draws, HasRead, NumbersOK
  <2>4. newSerial[p] \in Saved => Covered(newSerial[p], draft[p].number)'
    BY <1>0, <1>3, <2>2, <2>3 DEF Draws, Covered, NumbersOK
  <2> QED  BY <1>3, <2>1, <2>2, <2>4 DEF Draws
<1>4. CASE q = p /\ (Reads(p) \/ Journals(p))
  <2>1. draft'[p].number = draft[p].number
    BY <1>0, <1>4 DEF Reads, Journals, Crl
  <2> QED  BY <1>1, <1>4, <2>1 DEF Reads, Journals
<1>5. CASE q = p /\ Publishes(p)
  BY <1>1, <1>5 DEF Publishes
<1>6. CASE q = p /\ (Ends(p) \/ Goes(p))
  BY <1>6 DEF Ends, Goes
<1> QED  BY <1>2, <1>3, <1>4, <1>5, <1>6

LEMMA AnswersStep ==
    ASSUME TypeInv, AnswersCovered, NEW p \in Task, StepOf(p), IssuanceOK(p)
    PROVE  AnswersCovered'
<1>0. \A c \in crls : c.number \in Nat
  BY DEF TypeInv, TypeOK, Crl
<1>1. ASSUME NEW s, NEW c \in crls, Covered(s, c.number)
      PROVE  \E d \in crls' : Covered(s, d.number)'
  <2>1. PICK b, n : b = c /\ n = c.number
    OBVIOUS
  <2>2. Covered(s, n)'
    BY <1>0, <1>1, <2>1, CoveredStays
  <2>3. c \in crls'
    BY DEF StepOf, Draws, Reads, Journals, Publishes, Ends, Goes
  <2> QED  BY <2>1, <2>2, <2>3 DEF Covered
<1>2. CASE answered' = answered
  BY <1>1, <1>2 DEF AnswersCovered
<1>3. CASE Ends(p)
  <2>1. newSerial[p] # None =>
            \E c \in crls : Covered(newSerial[p], c.number)
    BY <1>3 DEF Ends, IssuanceOK, Drawn
  <2>2. PICK s : s = newSerial[p]
    OBVIOUS
  <2>3. s # None => \E d \in crls' : Covered(s, d.number)'
    BY <1>1, <2>1, <2>2
  <2> QED  BY <1>1, <1>3, <2>2, <2>3 DEF AnswersCovered, Ends
<1> QED  BY <1>2, <1>3 DEF StepOf, Draws, Reads, Journals, Publishes, Goes

LEMMA InvStep == IInv /\ [Next]_vars => IInv'
<1> SUFFICES ASSUME IInv, [Next]_vars PROVE IInv'
  OBVIOUS
<1>0. TypeInv'
  BY TypeStep DEF IInv
<1>1. ASSUME NEW p \in Task, StepOf(p) PROVE IInv'
  <2>1. NumbersOK' /\ NumbersAreUnique'
    BY <1>0, <1>1, NumbersStep DEF IInv
  <2>2. ASSUME NEW q \in Task PROVE ContentsOK(q)' /\ IssuanceOK(q)'
    BY <1>1, <2>2, ContentsStep, IssuanceStep DEF IInv
  <2>3. AnswersCovered'
    BY <1>1, AnswersStep DEF IInv
  <2> QED  BY <1>0, <2>1, <2>2, <2>3 DEF IInv
<1>2. CASE /\ UNCHANGED <<crls, crlSequence, answered, pc, draft, newSerial>>
           /\ Saved \subseteq Saved' /\ RevokedSerials \subseteq RevokedSerials'
  <2>1. NumbersOK' /\ NumbersAreUnique'
    BY <1>2 DEF IInv, NumbersOK, NumbersAreUnique, Drawn
  <2>2. ASSUME NEW s, NEW n, Covered(s, n) PROVE Covered(s, n)'
    BY <1>2, <2>2 DEF Covered, HasRead
  <2>3. ASSUME NEW q \in Task PROVE ContentsOK(q)'
    BY <1>2, <2>3 DEF IInv, ContentsOK, HasRead
  <2>4. ASSUME NEW q \in Task PROVE IssuanceOK(q)'
    BY <1>2, <2>4 DEF IInv, IssuanceOK, Drawn, Covered, HasRead
  <2>5. AnswersCovered'
    BY <1>2 DEF IInv, AnswersCovered, Covered, HasRead
  <2> QED  BY <1>0, <2>1, <2>3, <2>4, <2>5 DEF IInv
<1> QED  BY <1>1, <1>2, StepKinds DEF IInv

\* The number of a CRL is the one of no other CRL and of no other publication.
THEOREM NumbersAreNeverShared == Spec => []NumbersAreUnique
<1>1. IInv => NumbersAreUnique
  BY DEF IInv
<1> QED  BY <1>1, InvInit, InvStep, PTL DEF Spec

\* The current CRL lists every certificate that was answered to its requester,
\* whatever publications ended since, in whatever order they drew and read.
THEOREM AnsweredAreListed == Spec => []AnsweredIsListed
<1>1. IInv => AnsweredIsListed
  <2> SUFFICES ASSUME IInv, NEW c \in crls, Latest(c), NEW s \in answered
               PROVE  s \in c.issued
    BY DEF AnsweredIsListed
  <2>1. PICK d \in crls : Covered(s, d.number)
    BY DEF IInv, AnswersCovered
  <2> QED  BY <2>1 DEF Latest, Covered, IInv, TypeInv, TypeOK, Crl
<1> QED  BY <1>1, InvInit, InvStep, PTL DEF Spec

-----------------------------------------------------------------------------
(* The implementation of CrlFeed. *)

\* A certificate as CrlFeed sees it.
StatusOf(s) ==
    CASE certificates[s].status = "revoked" -> "revoked"
      [] certificates[s].status = "issued"  -> "good"
      [] OTHER                              -> "unissued"
StatusMap == [s \in Serial |-> StatusOf(s)]

LEMMA StatusIs ==
    ASSUME NEW s \in Serial
    PROVE  /\ StatusMap[s] = "good" <=> certificates[s].status = "issued"
           /\ StatusMap[s] = "revoked" <=> s \in RevokedSerials
           /\ s \in Saved => StatusMap[s] # "unissued"
           /\ certificates[s].status \in {"free", "reserved"} => StatusMap[s] = "unissued"
BY DEF StatusMap, StatusOf, RevokedSerials, Saved

LEMMA InitIsFeed == Init => Feed!FeedInit
BY DEF Init, IssuerInit, StoreInit, NoRow, Feed!FeedInit

\* An issuance, a revocation, a publication, or nothing that a reader sees.
LEMMA SaveIsIssue ==
    ASSUME TypeInv, NEW p \in Task, RegisterCertificate(p)
    PROVE  \E s \in Serial : Feed!IssueCertificate(s)
<1>1. PICK s \in Serial : s = newSerial[p]
  BY DEF RegisterCertificate, TypeInv, LocalsOK
<1>2. certificates[s].status = "reserved"
  BY <1>1 DEF RegisterCertificate, SaveCertificate
<1>3. StatusMap[s] = "unissued"
  BY <1>2, StatusIs
<1>4. StatusMap' = [StatusMap EXCEPT ![s] = "good"]
  BY <1>1 DEF RegisterCertificate, SaveCertificate, StatusMap, StatusOf, TypeInv, TypeOK
<1>5. crls' = crls
  BY DEF RegisterCertificate
<1>6. Feed!IssueCertificate(s)
  BY <1>3, <1>4, <1>5 DEF Feed!IssueCertificate, StatusMap, StatusOf
<1> QED  BY <1>6

LEMMA StoreIsRevoke ==
    ASSUME TypeInv, NEW p \in Task, StoreRevocation(p)
    PROVE  (\E s \in Serial : Feed!Revoke(s)) \/ UNCHANGED <<StatusMap, crls>>
<1>1. PICK s \in Serial : s = target[p].serial
  BY DEF StoreRevocation, TypeInv, LocalsOK
<1>2. crls' = crls
  BY DEF StoreRevocation
<1>3. CASE certificates[s].status = "issued"
  <2>1. StatusMap[s] = "good"
    BY <1>3, StatusIs
  <2>2. StatusMap' = [StatusMap EXCEPT ![s] = "revoked"]
    BY <1>1, <1>3 DEF StoreRevocation, RevokeCertificate, StatusMap, StatusOf, TypeInv, TypeOK,
       Certificate
  <2>3. Feed!Revoke(s)
    BY <1>2, <2>1, <2>2 DEF Feed!Revoke, StatusMap, StatusOf
  <2> QED  BY <2>3
<1>4. CASE certificates[s].status # "issued"
  BY <1>1, <1>2, <1>4 DEF StoreRevocation, RevokeCertificate, StatusMap, StatusOf
<1> QED  BY <1>3, <1>4

LEMMA SaveIsPublish ==
    ASSUME IInv, CrlNumber = Nat, NEW p \in Task, PublishCrl(p)
    PROVE  \E c \in Feed!FeedCrl : Feed!Publish(c)
<1>1. draft[p] \in Feed!FeedCrl
  BY DEF IInv, TypeInv, TypeOK, Crl, Feed!FeedCrl
<1>2. \A d \in crls : d.number # draft[p].number
  BY DEF PublishCrl, IInv, NumbersOK, Drawn
<1>3. /\ draft[p].issued \subseteq Saved
      /\ draft[p].revoked \subseteq RevokedSerials
      /\ draft[p].revoked \subseteq draft[p].issued
  BY DEF PublishCrl, IInv, ContentsOK, HasRead
<1>4. \A s \in draft[p].issued : StatusMap[s] # "unissued"
  BY <1>3, StatusIs DEF Saved
<1>5. \A s \in draft[p].revoked : StatusMap[s] = "revoked"
  BY <1>3, StatusIs DEF RevokedSerials
<1>6. crls' = crls \cup {draft[p]} /\ StatusMap' = StatusMap
  BY DEF PublishCrl, SaveCrl, StatusMap, StatusOf
<1>7. Feed!Publish(draft[p])
  BY <1>2, <1>3, <1>4, <1>5, <1>6 DEF Feed!Publish, StatusMap, StatusOf
<1> QED  BY <1>1, <1>7

LEMMA StepIsFeed ==
    ASSUME CrlNumber = Nat, IInv, [Next]_vars
    PROVE  [Feed!FeedNext]_Feed!feedVars
<1>0. UNCHANGED <<StatusMap, crls>> => [Feed!FeedNext]_Feed!feedVars
  BY DEF Feed!feedVars, StatusMap, StatusOf
<1>1. ASSUME NEW p \in Task, RegisterCertificate(p) PROVE Feed!FeedNext
  BY <1>1, SaveIsIssue DEF Feed!FeedNext, IInv
<1>2. ASSUME NEW p \in Task, StoreRevocation(p) PROVE [Feed!FeedNext]_Feed!feedVars
  BY <1>0, <1>2, StoreIsRevoke DEF Feed!FeedNext, IInv
<1>3. ASSUME NEW p \in Task, PublishCrl(p) PROVE Feed!FeedNext
  BY <1>3, SaveIsPublish DEF Feed!FeedNext
<1>4. ASSUME NEW p \in Task, DrawSerial(p) PROVE UNCHANGED <<StatusMap, crls>>
  <2>1. crls' = crls /\ (UNCHANGED certificates \/ \E s \in Serial : ReserveSerial(s))
    BY <1>4 DEF DrawSerial
  <2> QED  BY <2>1 DEF ReserveSerial, StatusMap, StatusOf, IInv, TypeInv, TypeOK, Certificate
<1>5. UNCHANGED <<certificates, crls>> => UNCHANGED <<StatusMap, crls>>
  BY DEF StatusMap, StatusOf
<1>6. \/ UNCHANGED <<certificates, crls>>
      \/ \E p \in Task : \/ RegisterCertificate(p) \/ StoreRevocation(p)
                         \/ PublishCrl(p) \/ DrawSerial(p)
  BY DEF Next, Step, Issuing, IssuerStep, Tick, EnsureNotRevoked, JournalIssuance,
     JournalRevocation, ReadRevoked, DrawNumber, NextCrlNumber, ReadIssued, JournalCrl,
     PublishAtOnce, Stop, Abort, End, StartRevocation, StartIssuance, Expire, vars
<1> QED  BY <1>0, <1>1, <1>2, <1>3, <1>4, <1>5, <1>6

\* Whoever reads the CRLs may rely on CrlFeed: the publications, the commands
\* and the issuances together implement it.
THEOREM PublicationIsFeed ==
    ASSUME CrlNumber = Nat
    PROVE  Spec => ImplementsCrlFeed
<1>1. IInv /\ [Next]_vars => [Feed!FeedNext]_Feed!feedVars
  BY StepIsFeed
<1> QED  BY <1>1, InvInit, InvStep, InitIsFeed, PTL DEF Spec, ImplementsCrlFeed, Feed!FeedSpec
=============================================================================
