------------------------- MODULE PlatformReviewProofs -------------------------
(***************************************************************************)
(* The platform case, for every set of rules and contents and every bound, *)
(* in three parts: its types; IInv is inductive and implies the safety     *)
(* properties; it implements VersionVerdicts under the mapping Rounds, its *)
(* initial states map to the initial state, submit to Submit, send and     *)
(* complete_review to Judge, and every other operation to a stutter.       *)
(***************************************************************************)
EXTENDS PlatformReviewInvariant, SequenceTheorems, TLAPS

---------------------------------------------------------------------------
(* Sequences of rows *)

\* Inserting a row (INSERT) gives rows of the same kind, one more of them.
LEMMA InsertRow ==
    ASSUME NEW S, NEW s \in Seq(S), NEW e \in S
    PROVE  Append(s, e) \in Seq(S) /\ Len(Append(s, e)) = Len(s) + 1
OBVIOUS

\* Changing a row (UPDATE of one row), or none when the index names none.
LEMMA UpdateRow ==
    ASSUME NEW S, NEW s \in Seq(S), NEW i, NEW e, i \in DOMAIN s => e \in S
    PROVE  [s EXCEPT ![i] = e] \in Seq(S) /\ Len([s EXCEPT ![i] = e]) = Len(s)
<1>1. CASE i \in DOMAIN s
  BY <1>1, LenProperties, ExceptSeq
<1>2. CASE i \notin DOMAIN s
  <2>1. [s EXCEPT ![i] = e] = s
    BY <1>2, LenProperties
  <2> QED
    BY <2>1
<1> QED
  BY <1>1, <1>2

\* Changing many rows (UPDATE ... WHERE).
LEMMA UpdateRows ==
    ASSUME NEW S, NEW s \in Seq(S), NEW f \in [DOMAIN s -> S]
    PROVE  f \in Seq(S) /\ Len(f) = Len(s)
<1>1. DOMAIN s = 1..Len(s) /\ Len(s) \in Nat
  BY LenProperties
<1>2. f \in [1..Len(s) -> S]
  BY <1>1
<1>3. f \in Seq(S)
  BY <1>1, <1>2, SeqDef
<1>4. DOMAIN f = 1..Len(f) /\ Len(f) \in Nat
  BY <1>3, LenProperties
<1> QED
  BY <1>1, <1>2, <1>3, <1>4

---------------------------------------------------------------------------
(* Types *)

\* A removed document that an upload revives (DocumentService.upload).
LEMMA DocumentRowRevived ==
    ASSUME NEW row \in DocumentRows, NEW v \in Nat
    PROVE  [row EXCEPT !.version = v, !.active = TRUE] \in DocumentRows
BY DEF DocumentRows

\* The columns of a correction request that send, registration and recheck
\* write.
LEMMA CorrectionRowUpdates ==
    ASSUME NEW row \in CorrectionRows, NEW status \in CorrectionStatuses,
           NEW d \in Nat, NEW items \in ItemSets
    PROVE  /\ [row EXCEPT !.status = status] \in CorrectionRows
           /\ [row EXCEPT !.status = status, !.response = d] \in CorrectionRows
           /\ [row EXCEPT !.status = status, !.items = items] \in CorrectionRows
BY DEF CorrectionRows

\* A case starts well typed.
LEMMA InitTypes == Init => TypeInv
<1> SUFFICES ASSUME Init PROVE TypeInv
  OBVIOUS
<1>1. /\ packages \in Seq(PackageRows) /\ documents \in Seq(DocumentRows)
      /\ submissions \in Seq(SubmissionRows) /\ findings \in Seq(FindingSets)
      /\ corrections \in Seq(CorrectionRows)
      /\ runs \in Seq([submission : Nat, evaluated : SUBSET Rules])
      /\ decisions \in Seq([decision : {"RETURNED_FOR_REVISION", "APPROVED"},
                            run : Nat])
  BY DEF Init
<1>2. caseStatus \in CaseStatuses /\ review \in ReviewRows
  BY DEF Init, CaseStatuses, ReviewRows, ReviewStatuses
<1>3. References
  BY DEF Init, References
<1> QED
  BY <1>1, <1>2, <1>3 DEF TypeInv, TypeOK

\* The type of the documents after a version group was deactivated.
LEMMA DeactivatedType ==
    ASSUME TypeInv, NEW g
    PROVE  /\ Deactivated(g) \in Seq(DocumentRows)
           /\ Len(Deactivated(g)) = Len(documents)
           /\ DOMAIN Deactivated(g) = DOMAIN documents
<1>1. documents \in Seq(DocumentRows)
  BY DEF TypeInv, TypeOK
<1>2. \A i \in DOMAIN documents : documents[i] \in DocumentRows
  BY <1>1, LenProperties
<1>3. Deactivated(g) \in [DOMAIN documents -> DocumentRows]
  BY <1>2 DEF Deactivated, DocumentRows
<1> QED
  BY <1>1, <1>3, UpdateRows

\* A package row is replaced by another, whose output exists.
LEMMA PackageStep ==
    ASSUME TypeInv, NEW p, NEW row \in PackageRows,
           row.output \in 0..Len(documents'), Len(documents) <= Len(documents'),
           documents' \in Seq(DocumentRows),
           packages' = [packages EXCEPT ![p] = row]
    PROVE  /\ packages' \in Seq(PackageRows)
           /\ \A q \in DOMAIN packages' : packages'[q].output \in 0..Len(documents')
<1>1. packages \in Seq(PackageRows) /\ documents \in Seq(DocumentRows)
  BY DEF TypeInv, TypeOK
<1>2. packages' \in Seq(PackageRows) /\ DOMAIN packages' = DOMAIN packages
  BY <1>1, UpdateRow
<1>3. ASSUME NEW q \in DOMAIN packages'
      PROVE  packages'[q].output \in 0..Len(documents')
  <2>1. packages'[q] = IF q = p THEN row ELSE packages[q]
    BY <1>2, <1>3
  <2>2. packages[q].output \in 0..Len(documents)
    BY <1>2, <1>3 DEF TypeInv, References
  <2>3. Len(documents) \in Nat /\ Len(documents') \in Nat
    BY <1>1, LenProperties
  <2> QED
    BY <2>1, <2>2, <2>3
<1> QED
  BY <1>2, <1>3

\* What the steps of the owner do to the types.
LEMMA OwnerTypes == TypeInv /\ Owner => TypeInv'
<1> SUFFICES ASSUME TypeInv, Owner PROVE TypeInv'
  OBVIOUS
<1> USE ContentAssumption, BoundAssumption DEF ContentAssumption, BoundAssumption
<1> DEFINE CaseOnly == UNCHANGED <<packages, documents, submissions, reviewVars>>
<1>t. /\ caseStatus \in CaseStatuses /\ packages \in Seq(PackageRows)
      /\ documents \in Seq(DocumentRows) /\ submissions \in Seq(SubmissionRows)
      /\ review \in ReviewRows /\ corrections \in Seq(CorrectionRows)
      /\ Len(documents) \in Nat /\ Len(packages) \in Nat
      /\ DOMAIN documents = 1..Len(documents)
      /\ DOMAIN packages = 1..Len(packages)
  BY LenProperties DEF TypeInv, TypeOK
<1>r. /\ \A p \in DOMAIN packages : /\ packages[p] \in PackageRows
                                    /\ packages[p].output \in 0..Len(documents)
      /\ \A d \in DOMAIN documents : documents[d] \in DocumentRows
  BY <1>t, ElementOfSeq DEF TypeInv, References
<1>c. ASSUME caseStatus' \in CaseStatuses, CaseOnly
      PROVE  TypeInv'
  BY <1>c DEF TypeInv, TypeOK, References, reviewVars
<1>d. ASSUME documents' \in Seq(DocumentRows), Len(documents') >= Len(documents),
             packages' \in Seq(PackageRows), 
             \A p \in DOMAIN packages' : packages'[p].output \in 0..Len(documents'),
             caseStatus' \in CaseStatuses, UNCHANGED <<submissions, reviewVars>>
      PROVE  TypeInv'
  BY <1>d DEF TypeInv, TypeOK, References, reviewVars
<1>p. ASSUME NEW p, NEW row \in PackageRows, row.output \in 0..Len(documents),
             packages' = [packages EXCEPT ![p] = row],
             UNCHANGED <<caseStatus, documents, submissions, reviewVars>>
      PROVE  TypeInv'
  <2>1. /\ packages' \in Seq(PackageRows)
        /\ \A q \in DOMAIN packages' : packages'[q].output \in 0..Len(documents')
    <3>1. /\ documents' = documents
          /\ row.output \in 0..Len(documents')
          /\ Len(documents) <= Len(documents')
          /\ documents' \in Seq(DocumentRows)
      BY <1>p, <1>t
    <3> QED
      BY <1>p, <3>1, PackageStep
  <2> QED
    BY <1>p, <1>t, <1>d, <2>1
<1>f. ASSUME NEW s \in Seq(DocumentRows), documents' = s, Len(s) >= Len(documents),
             UNCHANGED <<caseStatus, packages, submissions, reviewVars>>
      PROVE  TypeInv'
  <2>1. \A p \in DOMAIN packages : packages[p].output \in 0..Len(s)
    BY <1>f, <1>r, <1>t, LenProperties
  <2> QED
    BY <2>1, <1>f, <1>t, <1>d
<1>1. CASE BeginWork
  BY <1>1, <1>c DEF BeginWork, Started, CaseStatuses
<1>2. CASE ArchiveCase
  BY <1>2, <1>c DEF ArchiveCase, CaseStatuses
<1>3. CASE CreatePackage
  <2> DEFINE row == [content |-> Blank, final |-> FALSE, output |-> 0,
                     validated |-> NoContent]
  <2>1. row \in PackageRows
    BY DEF PackageRows
  <2>2. packages' = Append(packages, row) /\ documents' = documents
    BY <1>3 DEF CreatePackage
  <2>3. packages' \in Seq(PackageRows) /\ Len(packages') = Len(packages) + 1
    BY <2>1, <2>2, <1>t, InsertRow
  <2>4. \A p \in DOMAIN packages' : packages'[p].output \in 0..Len(documents')
    BY <2>2, <2>3, <1>t, <1>r
  <2>5. caseStatus' \in CaseStatuses
    BY <1>3, <1>t DEF CreatePackage, Started, CaseStatuses
  <2> QED
    BY <1>3, <2>2, <2>3, <2>4, <2>5, <1>t, <1>d DEF CreatePackage
<1>4. ASSUME NEW c \in Contents, ReopenPackage(c) PROVE TypeInv'
  <2>1. Len(packages) \in DOMAIN packages
    BY <1>4, <1>t DEF ReopenPackage
  <2>2. PICK r \in PackageRows : r = packages[Len(packages)]
    BY <2>1, <1>r
  <2> DEFINE row == [r EXCEPT !.content = c, !.final = FALSE, !.output = 0]
  <2>3. row \in PackageRows /\ row.output = 0
    BY DEF PackageRows
  <2>4. packages' = [packages EXCEPT ![Len(packages)] = row]
    BY <1>4, <2>2 DEF ReopenPackage
  <2> HIDE DEF row
  <2>5. row.output \in 0..Len(documents)
    BY <2>3, <1>t
  <2>6. UNCHANGED <<caseStatus, documents, submissions, reviewVars>>
    BY <1>4 DEF ReopenPackage
  <2> QED
    BY <2>3, <2>4, <2>5, <2>6, <1>p
<1>5. ASSUME NEW p \in DOMAIN packages, NEW c \in Contents, EditPackage(p, c)
      PROVE  TypeInv'
  <2> DEFINE row == [packages[p] EXCEPT !.content = c]
  <2>1. row \in PackageRows /\ row.output \in 0..Len(documents)
    BY <1>r DEF PackageRows
  <2>2. packages' = [packages EXCEPT ![p] = row]
    BY <1>5 DEF EditPackage
  <2> QED
    BY <1>5, <2>1, <2>2, <1>p DEF EditPackage
<1>6. ASSUME NEW p \in DOMAIN packages, ValidatePackage(p) PROVE TypeInv'
  <2> DEFINE row == [packages[p] EXCEPT !.validated = packages[p].content,
                                        !.final = FALSE]
  <2>1. row \in PackageRows /\ row.output \in 0..Len(documents)
    BY <1>r DEF PackageRows
  <2>2. packages' = [packages EXCEPT ![p] = row]
    BY <1>6 DEF ValidatePackage
  <2> QED
    BY <1>6, <2>1, <2>2, <1>p DEF ValidatePackage
<1>7. ASSUME NEW p \in DOMAIN packages, NEW d \in DOMAIN documents, ReuseReport(p, d)
      PROVE  TypeInv'
  <2>0. PICK r \in PackageRows : r = packages[p]
    BY <1>r
  <2> DEFINE row == [r EXCEPT !.final = TRUE, !.output = d]
  <2>1. d \in Nat /\ d \in 0..Len(documents)
    BY <1>t
  <2>3. row \in PackageRows /\ row.output = d
    BY <2>1 DEF PackageRows
  <2>2. packages' = [packages EXCEPT ![p] = row]
    BY <1>7, <2>0 DEF ReuseReport, Finalised
  <2> HIDE DEF row
  <2> QED
    BY <1>7, <2>1, <2>2, <2>3, <1>p DEF ReuseReport
<1>8. ASSUME NEW p \in DOMAIN packages, NEW k \in Nat, GenerateReport(p, k)
      PROVE  TypeInv'
  <2>0. PICK r \in PackageRows : r = packages[p]
    BY <1>r
  <2> DEFINE d     == Len(documents) + 1
             group == IF packages[p].output = 0 THEN d
                      ELSE documents[packages[p].output].group
             row   == [r EXCEPT !.final = TRUE, !.output = d]
  <2>1. PICK v \in 1..MaxDocVersion :
            documents' = Append(Deactivated(group),
                [type |-> "report", group |-> group, version |-> v,
                 active |-> TRUE, bytes |-> Pdf(packages[p].content, k)])
    BY <1>8 DEF GenerateReport
  <2>2. group \in Int
    BY <1>r, <1>t DEF DocumentRows
  <2>3. [type |-> "report", group |-> group, version |-> v, active |-> TRUE,
         bytes |-> Pdf(packages[p].content, k)] \in DocumentRows
    BY <2>2, <1>r DEF DocumentRows, PackageRows, Bytes, Pdf
  <2>4. documents' \in Seq(DocumentRows) /\ Len(documents') = d
    BY <2>1, <2>3, DeactivatedType, InsertRow, SMTT(30)
  <2> HIDE DEF group
  <2>a. d \in Nat /\ d \in 0..Len(documents')
    BY <2>4, <1>t
  <2>5. row \in PackageRows /\ row.output \in 0..Len(documents')
    <3> HIDE DEF d
    <3>1. row \in PackageRows /\ row.output = d
      BY <2>a DEF PackageRows
    <3> QED
      BY <3>1, <2>a
  <2>6. packages' = [packages EXCEPT ![p] = row]
    BY <1>8, <2>0 DEF GenerateReport, Finalised
  <2>7. Len(documents) <= Len(documents')
    BY <2>4, <1>t
  <2>8. /\ packages' \in Seq(PackageRows)
        /\ \A q \in DOMAIN packages' : packages'[q].output \in 0..Len(documents')
    BY <2>4, <2>5, <2>6, <2>7, PackageStep
  <2> QED
    BY <1>8, <2>4, <2>7, <2>8, <1>t, <1>d DEF GenerateReport
<1>9. ASSUME NEW p \in DOMAIN packages, ExportTemplates(p) PROVE TypeInv'
  <2>1. Xlsx(packages[p].content) \in Bytes
    BY <1>r DEF Xlsx, Bytes, PackageRows
  <2>2. CASE InGroup(-p) = {}
    <3> DEFINE row == [type |-> "template", group |-> -p, version |-> 1,
                       active |-> TRUE, bytes |-> Xlsx(packages[p].content)]
    <3>1. row \in DocumentRows
      BY <2>1, <1>t DEF DocumentRows
    <3>2. documents' = Append(documents, row)
      BY <1>9, <2>2 DEF ExportTemplates
    <3>3. documents' \in Seq(DocumentRows) /\ Len(documents') >= Len(documents)
      BY <3>1, <3>2, <1>t, InsertRow
    <3> QED
      BY <1>9, <3>3, <1>f DEF ExportTemplates
  <2>3. CASE InGroup(-p) # {}
    <3> DEFINE s == [i \in DOMAIN documents |->
               IF i \in InGroup(-p)
               THEN [documents[i] EXCEPT !.bytes = Xlsx(packages[p].content)]
               ELSE documents[i]]
    <3>1. s \in [DOMAIN documents -> DocumentRows]
      BY <2>1, <1>r DEF DocumentRows
    <3>2. s \in Seq(DocumentRows) /\ Len(s) = Len(documents)
      BY <3>1, <1>t, UpdateRows
    <3>3. documents' = s
      BY <1>9, <2>3 DEF ExportTemplates
    <3> HIDE DEF s
    <3> QED
      BY <1>9, <3>2, <3>3, <1>f, <1>t DEF ExportTemplates
  <2> QED
    BY <2>2, <2>3
<1>10. ASSUME NEW bytes \in Bytes, NEW g \in Int, UploadReport(bytes, g)
       PROVE  TypeInv'
  <2> DEFINE removed == Removed(bytes)
             group   == IF g # 0 THEN g
                        ELSE IF removed # {}
                             THEN documents[CHOOSE i \in removed : TRUE].group
                             ELSE Len(documents) + 1
  <2>1. removed \subseteq DOMAIN documents
    BY DEF Removed
  <2>2. group \in Int
    <3>1. removed # {} => (CHOOSE i \in removed : TRUE) \in DOMAIN documents
      BY <2>1
    <3> QED
      BY <3>1, <1>r, <1>t DEF DocumentRows
  <2>3. PICK v \in 1..MaxDocVersion :
           \/ documents' = Append(Deactivated(group),
                 [type |-> "report", group |-> group, version |-> v,
                  active |-> TRUE, bytes |-> bytes])
           \/ \E i \in removed :
                 documents' = [Deactivated(group) EXCEPT
                                  ![i].version = v, ![i].active = TRUE]
    BY <1>10 DEF UploadReport
  <2> HIDE DEF group, removed
  <2>4. documents' \in Seq(DocumentRows) /\ Len(documents') >= Len(documents)
    <3>1. CASE documents' = Append(Deactivated(group),
                 [type |-> "report", group |-> group, version |-> v,
                  active |-> TRUE, bytes |-> bytes])
      <4>1. [type |-> "report", group |-> group, version |-> v,
             active |-> TRUE, bytes |-> bytes] \in DocumentRows
        BY <2>2 DEF DocumentRows
      <4> QED
        BY <3>1, <4>1, <1>t, DeactivatedType, InsertRow
    <3>2. ASSUME NEW i \in removed,
                 documents' = [Deactivated(group) EXCEPT
                                  ![i].version = v, ![i].active = TRUE]
          PROVE  documents' \in Seq(DocumentRows) /\ Len(documents') >= Len(documents)
      <4>1. PICK r \in DocumentRows : r = Deactivated(group)[i]
        BY <2>1, <1>t, DeactivatedType, ElementOfSeq
      <4> DEFINE row == [r EXCEPT !.version = v, !.active = TRUE]
      <4>2. row \in DocumentRows
        <5>1. v \in Nat
          BY BoundAssumption DEF BoundAssumption
        <5> QED
          BY <5>1, DocumentRowRevived
      <4>3. documents' = [Deactivated(group) EXCEPT ![i] = row]
        BY <3>2, <4>1
      <4> HIDE DEF row
      <4> QED
        <5>1. /\ Deactivated(group) \in Seq(DocumentRows)
              /\ Len(Deactivated(group)) = Len(documents)
          BY DeactivatedType
        <5>2. /\ [Deactivated(group) EXCEPT ![i] = row] \in Seq(DocumentRows)
              /\ Len([Deactivated(group) EXCEPT ![i] = row]) = Len(documents)
          BY <4>2, <5>1, UpdateRow
        <5> QED
          BY <4>3, <5>2, <1>t
    <3> QED
      BY <2>3, <3>1, <3>2
  <2> QED
    BY <1>10, <2>4, <1>f DEF UploadReport
<1>11. ASSUME NEW d \in DOMAIN documents, NEW outcome \in RuleOutcomes,
              NEW readiness \in {"READY", "INCOMPLETE", "INVALID"},
              SubmitVersion(d, readiness, outcome)
       PROVE  TypeInv'
  <2> DEFINE row == [version |-> Len(packages), document |-> d,
                     docVersion |-> documents[d].version,
                     bytes |-> documents[d].bytes,
                     readiness |-> readiness, outcome |-> outcome]
  <2>1. row \in SubmissionRows
    BY <1>r, <1>t DEF SubmissionRows, DocumentRows
  <2>2. submissions' = Append(submissions, row)
    BY <1>11 DEF SubmitVersion
  <2>3. submissions' \in Seq(SubmissionRows) /\ Len(submissions') = Len(submissions) + 1
    BY <2>1, <2>2, <1>t, InsertRow
  <2>4. corrections' \in Seq(CorrectionRows)
    <3>1. CASE UNCHANGED corrections
      BY <3>1, <1>t
    <3>2. ASSUME NEW i \in DOMAIN corrections, Registers(i, d)
          PROVE  corrections' \in Seq(CorrectionRows)
      <4>1. PICK r \in CorrectionRows : r = corrections[i]
        BY <1>t, LenProperties
      <4> DEFINE c == [r EXCEPT !.status = "RESUBMITTED", !.response = d]
      <4>2. c \in CorrectionRows
        <5>1. r.items \in ItemSets /\ d \in Nat /\ "RESUBMITTED" \in CorrectionStatuses
          BY <1>t DEF CorrectionRows, CorrectionStatuses
        <5> QED
          BY <5>1, CorrectionRowUpdates
      <4>3. corrections' = [corrections EXCEPT ![i] = c]
        BY <3>2, <4>1 DEF Registers
      <4> HIDE DEF c
      <4> QED
        BY <4>2, <4>3, <1>t, UpdateRow
    <3> QED
      BY <1>11, <3>1, <3>2 DEF SubmitVersion, ActiveCorrections
  <2>5. review' \in ReviewRows /\ review'.latestSubmission = Len(submissions')
        /\ review'.latestRun = review.latestRun
    <3>1. PICK st \in ReviewStatuses :
              review' = [review EXCEPT !.latestSubmission = Len(submissions) + 1, !.status = st]
      <4>1. review.status \in ReviewStatuses /\ "RECEIVED" \in ReviewStatuses
        BY <1>t DEF ReviewRows, ReviewStatuses
      <4>2. CASE caseStatus = "REVISION_REQUIRED"
        <5>1. review' = [review EXCEPT !.latestSubmission = Len(submissions) + 1,
                                       !.status = review.status]
          BY <1>11, <4>2 DEF SubmitVersion
        <5> QED
          BY <4>1, <5>1
      <4>3. CASE caseStatus # "REVISION_REQUIRED"
        <5>1. review' = [review EXCEPT !.latestSubmission = Len(submissions) + 1,
                                       !.status = "RECEIVED"]
          BY <1>11, <4>3 DEF SubmitVersion
        <5> QED
          BY <4>1, <5>1
      <4> QED
        BY <4>2, <4>3
    <3>2. Len(submissions) + 1 \in Nat
      BY <1>t, LenProperties
    <3> QED
      BY <3>1, <3>2, <2>3, <1>t DEF ReviewRows
  <2>6. caseStatus' \in CaseStatuses
    BY <1>11 DEF SubmitVersion, CaseStatuses
  <2>7. UNCHANGED <<packages, documents, runs, findings, decisions>>
    BY <1>11 DEF SubmitVersion
  <2> QED
    BY <2>3, <2>4, <2>5, <2>6, <2>7 DEF TypeInv, TypeOK, References
<1>12. ASSUME NEW outcome \in RuleOutcomes,
              NEW readiness \in {"READY", "INCOMPLETE", "INVALID"},
              SubmitReport(readiness, outcome)
       PROVE  TypeInv'
  <2>1. Len(packages) \in DOMAIN packages
    BY <1>12, <1>t DEF SubmitReport
  <2>2. packages[Len(packages)].output \in DOMAIN documents
    BY <2>1, <1>12, <1>r, <1>t DEF SubmitReport
  <2> QED
    BY <2>2, <1>11, <1>12 DEF SubmitReport
<1>13. \A k \in {0, Len(documents) + 1} : k \in Nat
  BY <1>t
<1>14. \A c \in Contents : Pdf(c, 0) \in Bytes
  BY DEF Pdf, Bytes
<1>15. \A i \in DOMAIN documents : documents[i].bytes \in Bytes
  BY <1>r DEF DocumentRows
<1>16. \A g \in {0} \cup {documents[i].group : i \in DOMAIN documents} : g \in Int
  BY <1>r DEF DocumentRows
<1> QED
  BY <1>1, <1>2, <1>3, <1>4, <1>5, <1>6, <1>7, <1>8, <1>9, <1>10, <1>11, <1>12,
     <1>13, <1>14, <1>15, <1>16 DEF Owner, SubmitTemplates

\* What the steps of the review do to the types.
LEMMA ReviewTypes == TypeInv /\ Review => TypeInv'
<1> SUFFICES ASSUME TypeInv, Review PROVE TypeInv'
  OBVIOUS
<1> DEFINE RunRows == [submission : Nat, evaluated : SUBSET Rules]
           DecisionRows == [decision : {"RETURNED_FOR_REVISION", "APPROVED"},
                            run : Nat]
<1>t. /\ caseStatus \in CaseStatuses /\ submissions \in Seq(SubmissionRows)
      /\ review \in ReviewRows /\ corrections \in Seq(CorrectionRows)
      /\ runs \in Seq(RunRows) /\ findings \in Seq(FindingSets)
      /\ decisions \in Seq(DecisionRows)
      /\ Len(runs) \in Nat /\ Len(submissions) \in Nat
      /\ review.latestSubmission = Len(submissions)
      /\ review.latestRun = Len(runs) /\ Len(findings) = Len(runs)
  BY LenProperties DEF TypeInv, TypeOK, References
<1>u. UNCHANGED <<documents, submissions, packages>>
  BY DEF Review
<1>g. ASSUME review' \in ReviewRows, review'.latestSubmission = Len(submissions),
             review'.latestRun = Len(runs'), Len(findings') = Len(runs'),
             runs' \in Seq(RunRows), findings' \in Seq(FindingSets),
             corrections' \in Seq(CorrectionRows), caseStatus' \in CaseStatuses,
             decisions' \in Seq(DecisionRows)
      PROVE  TypeInv'
  BY <1>g, <1>u DEF TypeInv, TypeOK, References
\* Only the review row, its pointers kept.
<1>v. ASSUME review' \in ReviewRows, review'.latestSubmission = review.latestSubmission,
             review'.latestRun = review.latestRun, corrections' \in Seq(CorrectionRows),
             UNCHANGED <<runs, findings>>, caseStatus' \in CaseStatuses,
             decisions' \in Seq(DecisionRows)
      PROVE  TypeInv'
  BY <1>v, <1>t, <1>g
\* A run of the latest submission is added.
<1>n. ASSUME NEW outcome \in RuleOutcomes, NEW rv \in ReviewRows,
             rv.latestSubmission = review.latestSubmission,
             RunCreated(outcome), review' = Analysed(rv),
             corrections' \in Seq(CorrectionRows), UNCHANGED <<caseStatus, decisions>>
      PROVE  TypeInv'
  <2>1. FindingsOf(outcome) \in FindingSets
    BY DEF FindingsOf, FindingSets
  <2>2. [submission |-> review.latestSubmission,
         evaluated  |-> {r \in Rules : outcome[r] # "NOT_RUN"}] \in RunRows
    BY <1>t
  <2>3. /\ runs' \in Seq(RunRows) /\ Len(runs') = Len(runs) + 1
        /\ findings' \in Seq(FindingSets) /\ Len(findings') = Len(findings) + 1
    BY <1>n, <1>t, <2>1, <2>2, InsertRow DEF RunCreated
  <2>4. Len(runs) + 1 \in Nat /\ "REVIEW_REQUIRED" \in ReviewStatuses
    BY <1>t DEF ReviewStatuses
  <2>5. /\ Analysed(rv) \in ReviewRows
        /\ Analysed(rv).latestSubmission = rv.latestSubmission
        /\ Analysed(rv).latestRun = Len(runs) + 1
    BY <2>4 DEF Analysed, ReviewRows
  <2> QED
    BY <1>n, <1>t, <1>g, <2>3, <2>5
<1>k. \A ready \in BOOLEAN :
        /\ Checked(ready) \in ReviewRows
        /\ Checked(ready).latestSubmission = review.latestSubmission
        /\ Checked(ready).latestRun = review.latestRun
  BY <1>t DEF Checked, ReviewRows, ReviewStatuses
<1>m. \A s \in ReviewStatuses :
        /\ [review EXCEPT !.status = s] \in ReviewRows
        /\ [review EXCEPT !.status = s].latestSubmission = review.latestSubmission
        /\ [review EXCEPT !.status = s].latestRun = review.latestRun
  BY <1>t DEF ReviewRows
<1>l. Loadable => Latest \in SubmissionRows /\ Latest.outcome \in RuleOutcomes
  <2>1. ASSUME Loadable PROVE Latest \in SubmissionRows
    <3>1. review.latestSubmission \in 1..Len(submissions)
      BY <2>1, <1>t DEF Loadable
    <3> QED
      BY <3>1, <1>t, ElementOfSeq DEF Latest
  <2> QED
    BY <2>1 DEF SubmissionRows
<1>b. Complete \in BOOLEAN
  BY DEF Complete
<1>f. LatestFindings \in FindingSets
  <2>1. CASE HasRun
    BY <2>1, <1>t, ElementOfSeq DEF LatestFindings, HasRun
  <2>2. CASE ~HasRun
    BY <2>2 DEF LatestFindings, NoFindings, FindingSets
  <2> QED
    BY <2>1, <2>2
<1>1. ASSUME Loadable, Preflight(Complete) PROVE TypeInv'
  BY <1>1, <1>t, <1>k, <1>b, <1>v DEF Preflight
<1>2. ASSUME Loadable, StartReview(Complete, Latest.outcome) PROVE TypeInv'
  BY <1>2, <1>t, <1>k, <1>l, <1>n DEF StartReview
<1>3. ASSUME Loadable, CreateRun(Complete, Latest.outcome) PROVE TypeInv'
  BY <1>3, <1>t, <1>l, <1>n DEF CreateRun
<1>4. ASSUME NEW target \in MutableStatuses \cup {"PENDING_MATERIALS"},
             UpdateReview(target)
      PROVE  TypeInv'
  <2>1. target \in ReviewStatuses
    BY DEF MutableStatuses, ReviewStatuses
  <2> QED
    BY <1>4, <2>1, <1>t, <1>m, <1>v DEF UpdateReview
<1>5. ASSUME NEW r \in Rules, NEW decision \in TriageDecisions,
             TriageFinding(r, decision)
      PROVE  TypeInv'
  <2>1. PICK f \in FindingSets : f = findings[review.latestRun]
    BY <1>5, <1>t, ElementOfSeq DEF TriageFinding, HasRun
  <2> DEFINE g == [f EXCEPT ![r] = decision]
  <2>2. g \in FindingSets
    BY DEF FindingSets
  <2>3. findings' = [findings EXCEPT ![review.latestRun] = g]
    BY <1>5, <2>1 DEF TriageFinding
  <2> HIDE DEF g
  <2>4. findings' \in Seq(FindingSets) /\ Len(findings') = Len(findings)
    BY <2>2, <2>3, <1>t, UpdateRow
  <2> QED
    BY <1>5, <2>4, <1>t, <1>g DEF TriageFinding
<1>6. ASSUME review.latestSubmission # 0, CreateCorrectionDraft(BaseDocument)
      PROVE  TypeInv'
  <2> DEFINE row == [status      |-> "DRAFT",
                     run         |-> review.latestRun,
                     base        |-> BaseDocument.document,
                     baseVersion |-> BaseDocument.version,
                     response    |-> 0,
                     items       |-> ItemsFor(LatestFindings)]
  <2>1. Latest \in SubmissionRows
    BY <1>6, <1>t, ElementOfSeq DEF Latest
  <2>2. BaseDocument.document \in Nat /\ BaseDocument.version \in Nat
    BY <2>1 DEF BaseDocument, SubmissionRows
  <2>3. ItemsFor(LatestFindings) \in ItemSets
    BY DEF ItemsFor, ItemSets
  <2>4. row \in CorrectionRows
    BY <2>2, <2>3, <1>t DEF CorrectionRows, CorrectionStatuses
  <2>5. corrections' = Append(corrections, row)
    BY <1>6 DEF CreateCorrectionDraft
  <2>6. corrections' \in Seq(CorrectionRows)
    BY <2>4, <2>5, <1>t, InsertRow
  <2> QED
    BY <1>6, <2>6, <1>t, <1>v DEF CreateCorrectionDraft
<1>7. ASSUME NEW i \in DOMAIN corrections
      PROVE  /\ SendCorrection(i) => TypeInv'
             /\ \A d \in DOMAIN documents : RegisterResubmission(i, d) => TypeInv'
             /\ Loadable /\ RecheckIncomplete(i) => TypeInv'
             /\ Loadable /\ RecheckComplete(i, Latest.outcome) => TypeInv'
  <2>c. PICK c \in CorrectionRows : c = corrections[i]
    BY <1>7, <1>t, LenProperties
  <2>i. c.items \in ItemSets
    BY DEF CorrectionRows
  <2>1. ASSUME SendCorrection(i) PROVE TypeInv'
    <3> DEFINE row == [c EXCEPT !.status = "SENT"]
    <3>1. row \in CorrectionRows
      BY DEF CorrectionRows, CorrectionStatuses
    <3>2. corrections' = [corrections EXCEPT ![i] = row]
      BY <2>1, <2>c DEF SendCorrection
    <3> HIDE DEF row
    <3>3. corrections' \in Seq(CorrectionRows)
      BY <3>1, <3>2, <1>t, UpdateRow
    <3>4. decisions' \in Seq(DecisionRows)
      <4>1. [decision |-> "RETURNED_FOR_REVISION", run |-> review.latestRun]
               \in DecisionRows
        BY <1>t
      <4> QED
        BY <2>1, <4>1, <1>t, InsertRow DEF SendCorrection
    <3>5. "RETURNED_FOR_REVISION" \in ReviewStatuses /\ caseStatus' \in CaseStatuses
      BY <2>1 DEF SendCorrection, ReviewStatuses, CaseStatuses
    <3> QED
      BY <2>1, <3>3, <3>4, <3>5, <1>m, <1>v DEF SendCorrection
  <2>2. ASSUME NEW d \in DOMAIN documents, RegisterResubmission(i, d) PROVE TypeInv'
    <3> DEFINE row == [c EXCEPT !.status = "RESUBMITTED", !.response = d]
    <3>1. d \in Nat
      BY LenProperties DEF TypeInv, TypeOK
    <3>2. row \in CorrectionRows
      BY <3>1 DEF CorrectionRows, CorrectionStatuses
    <3>3. corrections' = [corrections EXCEPT ![i] = row]
      BY <2>2, <2>c DEF RegisterResubmission, Registers
    <3> HIDE DEF row
    <3>4. corrections' \in Seq(CorrectionRows)
      BY <3>2, <3>3, <1>t, UpdateRow
    <3> QED
      BY <2>2, <3>4, <1>t, <1>v DEF RegisterResubmission
  <2>3. ASSUME RecheckIncomplete(i) PROVE TypeInv'
    BY <2>3, <1>t, <1>k, <1>v DEF RecheckIncomplete
  <2>4. ASSUME Loadable, RecheckComplete(i, Latest.outcome) PROVE TypeInv'
    <3> DEFINE items == RecheckItems(c.items, c.run = review.latestRun, Latest.outcome)
               row   == [c EXCEPT !.status = "RECHECKED", !.items = items]
    <3>1. items \in ItemSets
      BY <2>i DEF RecheckItems, ItemSets
    <3>2. corrections' = [corrections EXCEPT ![i] = row]
      BY <2>4, <2>c DEF RecheckComplete
    <3> HIDE DEF items
    <3>3. row \in CorrectionRows
      BY <3>1 DEF CorrectionRows, CorrectionStatuses
    <3> HIDE DEF row
    <3>4. corrections' \in Seq(CorrectionRows)
      BY <3>2, <3>3, <1>t, UpdateRow
    <3> QED
      BY <2>4, <3>4, <1>k, <1>l, <1>n DEF RecheckComplete
  <2> QED
    BY <2>1, <2>2, <2>3, <2>4
<1>8. ASSUME CompleteReview PROVE TypeInv'
  <2>1. decisions' \in Seq(DecisionRows)
    <3>1. [decision |-> "APPROVED", run |-> review.latestRun] \in DecisionRows
      BY <1>t
    <3> QED
      BY <1>8, <3>1, <1>t, InsertRow DEF CompleteReview
  <2>2. "REVIEW_COMPLETED" \in ReviewStatuses /\ caseStatus' \in CaseStatuses
    BY <1>8 DEF CompleteReview, ReviewStatuses, CaseStatuses
  <2> QED
    BY <1>8, <2>1, <2>2, <1>t, <1>m, <1>v DEF CompleteReview
<1> QED
  BY <1>1, <1>2, <1>3, <1>4, <1>5, <1>6, <1>7, <1>8 DEF Review, ReviewStep

\* Every reachable state is well typed: the committed rows never hold a value
\* their columns have no place for (the status sets of three tables, the
\* document and run pointers), whatever the order of the calls.
THEOREM TypeCorrect == Spec => []TypeOK
<1>1. TypeInv /\ [Next]_vars => TypeInv'
  <2>1. TypeInv /\ UNCHANGED vars => TypeInv'
    BY DEF TypeInv, TypeOK, References, vars
  <2> QED
    BY <2>1, OwnerTypes, ReviewTypes DEF Next
<1>2. TypeInv => TypeOK
  BY DEF TypeInv
<1> QED
  BY InitTypes, <1>1, <1>2, PTL DEF Spec

---------------------------------------------------------------------------
(* What the types say of each row *)

\* Each table is a sequence of rows of its type.
LEMMA Rows ==
    ASSUME TypeInv
    PROVE  /\ Len(documents) \in Nat /\ Len(submissions) \in Nat
           /\ Len(runs) \in Nat /\ Len(corrections) \in Nat
           /\ Len(decisions) \in Nat
           /\ DOMAIN documents = 1..Len(documents)
           /\ DOMAIN submissions = 1..Len(submissions)
           /\ DOMAIN runs = 1..Len(runs) /\ DOMAIN findings = 1..Len(runs)
           /\ DOMAIN corrections = 1..Len(corrections)
           /\ DOMAIN decisions = 1..Len(decisions)
           /\ \A i \in DOMAIN findings : findings[i] \in FindingSets
           /\ \A i \in DOMAIN corrections : corrections[i] \in CorrectionRows
           /\ review \in ReviewRows
           /\ review.latestSubmission = Len(submissions)
           /\ review.latestRun = Len(runs)
BY LenProperties, ElementOfSeq DEF TypeInv, TypeOK, References

\* A review without a run has no request and no decision.
LEMMA NothingWithoutRun ==
    ASSUME IInv, ~HasRun
    PROVE  DOMAIN runs = {} /\ DOMAIN corrections = {} /\ DOMAIN decisions = {}
<1>1. TypeInv
  BY DEF IInv
<1>2. DOMAIN runs = {}
  BY <1>1, Rows DEF HasRun
<1> QED
  BY <1>2 DEF IInv, Requests, RequestOK, Decided

---------------------------------------------------------------------------
(* The invariant *)

\* A new case satisfies the invariant.
LEMMA InitInv == Init => IInv
<1> SUFFICES ASSUME Init PROVE IInv
  OBVIOUS
<1>1. TypeInv
  BY InitTypes
<1>2. DOMAIN runs = {} /\ DOMAIN corrections = {} /\ DOMAIN decisions = {}
  BY DEF Init
<1>3. /\ caseStatus = "DRAFT" /\ review.status = "NONE" /\ review.latestRun = 0
      /\ submissions = <<>>
  BY DEF Init
<1>4. Phases
  BY <1>3 DEF Phases, HasRun
<1>5. RunOrder /\ Requests /\ Decided
  BY <1>2 DEF RunOrder, RunsExamineNewVersions, Requests, Decided
<1>6. CompletionSound /\ FrozenFile
  BY <1>3 DEF CompletionSound, FrozenFile
<1> QED
  BY <1>1, <1>4, <1>5, <1>6 DEF IInv

\* The owner's operations other than submit leave the review alone; documents
\* change, and the case moves on, only while the case is editable.
LEMMA OwnerQuiet ==
    ASSUME IInv, TypeInv', UNCHANGED <<submissions, reviewVars>>,
           documents' = documents \/ Editable,
           \/ caseStatus' = caseStatus
           \/ caseStatus' = "ARCHIVED"
           \/ Editable /\ caseStatus' = Started
    PROVE  IInv'
<1> USE DEF reviewVars
<1>1. UNCHANGED <<submissions, review, runs, findings, corrections, decisions>>
  OBVIOUS
<1>2. \/ caseStatus' = caseStatus
      \/ caseStatus' = "ARCHIVED"
      \/ caseStatus = "DRAFT" /\ caseStatus' = "PROCESSING"
  BY DEF Editable, Started
<1>3. Phases'
  BY <1>1, <1>2 DEF IInv, Phases, HasRun, Examined, Loadable, Complete, Latest
<1>4. RunOrder' /\ Decided'
  BY <1>1 DEF IInv, RunOrder, RunsExamineNewVersions, Decided, Some
<1>5. Requests'
  BY <1>1, <1>2 DEF IInv, Requests, RequestOK, Examined, Answers, Latest, Some, ItemsFor
<1>6. CompletionSound'
  BY <1>1, <1>2 DEF IInv, CompletionSound, HasRun, LatestFindings, ActiveCorrections, Active
<1>7. FrozenFile'
  <2>1. CASE documents' = documents
    BY <2>1, <1>1, <1>2 DEF IInv, Phases, FrozenFile, Intact, Latest, Examined
  <2>2. CASE Editable
    <3>1. \/ review.status = "NONE"
          \/ /\ review.status = "RETURNED_FOR_REVISION"
             /\ caseStatus = "REVISION_REQUIRED" /\ Examined
      BY <2>2 DEF IInv, Phases, Editable
    <3> QED
      BY <3>1, <1>1, <1>2 DEF FrozenFile, Examined
  <2> QED
    BY <2>1, <2>2
<1> QED
  BY <1>3, <1>4, <1>5, <1>6, <1>7 DEF IInv

\* A first submission begins the review, a revision answers the open request.
LEMMA SubmitInv ==
    ASSUME IInv, TypeInv', NEW d \in DOMAIN documents, documents[d].active,
           NEW readiness, NEW outcome, SubmitVersion(d, readiness, outcome)
    PROVE  IInv'
<1> DEFINE row == [version |-> Len(packages), document |-> d,
                   docVersion |-> documents[d].version, bytes |-> documents[d].bytes,
                   readiness |-> readiness, outcome |-> outcome]
           new == Len(submissions) + 1
<1>t. TypeInv
  BY DEF IInv
<1>u. /\ UNCHANGED <<documents, runs, findings, decisions>>
      /\ caseStatus' = "IN_REVIEW"
  BY DEF SubmitVersion
<1>n. /\ submissions' = Append(submissions, row)
      /\ new \in Nat /\ DOMAIN submissions' = 1..new /\ submissions' # <<>>
      /\ submissions'[new] = row
      /\ \A i \in 1..Len(submissions) : submissions'[i] = submissions[i]
      /\ Len(submissions') = new
  <2>1. submissions' = Append(submissions, row)
    BY DEF SubmitVersion
  <2>2. submissions \in Seq(SubmissionRows)
    BY <1>t DEF TypeInv, TypeOK
  <2> QED
    BY <2>1, <2>2, LenProperties
<1>r. /\ review'.latestSubmission = new /\ review'.latestRun = review.latestRun
      /\ review'.status = IF caseStatus = "REVISION_REQUIRED" THEN review.status
                                                              ELSE "RECEIVED"
  BY <1>t, Rows DEF SubmitVersion, ReviewRows
<1>l. Latest' = row
  BY <1>n, <1>r DEF Latest
<1>1. RunOrder'
  <2>1. \A i \in DOMAIN runs : runs[i].submission \in 1..new
    BY <1>t, Rows DEF IInv, RunOrder
  <2> QED
    BY <1>n, <1>u, <2>1 DEF IInv, RunOrder, RunsExamineNewVersions
<1>2. Decided'
  BY <1>u DEF IInv, Decided, Some
<1>3. FrozenFile'
  BY <1>l, <1>u DEF FrozenFile, Intact
<1>4. CASE caseStatus # "REVISION_REQUIRED"
  <2>1. ~HasRun /\ UNCHANGED corrections /\ review'.status = "RECEIVED"
    BY <1>4, <1>r DEF SubmitVersion, Submittable, IInv, Phases, Unanalysed
  <2>2. Phases'
    BY <2>1, <1>u, <1>n, <1>r DEF Phases, HasRun
  <2>3. Requests'
    BY <2>1, NothingWithoutRun DEF Requests
  <2>4. CompletionSound'
    BY <2>1 DEF CompletionSound
  <2> QED
    BY <1>1, <1>2, <1>3, <2>2, <2>3, <2>4 DEF IInv
<1>5. CASE caseStatus = "REVISION_REQUIRED"
  <2>1. /\ review.status = "RETURNED_FOR_REVISION" /\ HasRun /\ Examined
        /\ review'.status = "RETURNED_FOR_REVISION"
    BY <1>5, <1>r DEF IInv, Phases
  <2>2. PICK i \in ActiveCorrections : Registers(i, d)
    BY <1>5 DEF SubmitVersion
  <2>3. /\ i \in DOMAIN corrections /\ corrections[i] \in CorrectionRows
        /\ RequestOK(i)
    BY <2>2, <1>t, Rows DEF ActiveCorrections, IInv, Requests
  <2>4. PICK c \in CorrectionRows : c = corrections[i]
    BY <2>3
  <2> DEFINE answered == [c EXCEPT !.status = "RESUBMITTED", !.response = d]
  <2>5. /\ corrections' = [corrections EXCEPT ![i] = answered]
        /\ c.status = "SENT" /\ documents[d].version > c.baseVersion
    BY <2>2, <2>4 DEF Registers, ValidResubmission
  <2>6. /\ answered.status = "RESUBMITTED" /\ answered.response = d
        /\ answered.run = c.run /\ answered.items = c.items
        /\ answered.baseVersion = c.baseVersion
    BY DEF CorrectionRows
  <2> HIDE DEF answered
  <2>7. /\ DOMAIN corrections' = DOMAIN corrections
        /\ corrections'[i] = answered
        /\ \A j \in DOMAIN corrections : j # i => corrections'[j] = corrections[j]
        /\ Len(corrections') = Len(corrections)
    <3>1. /\ corrections' \in Seq(CorrectionRows)
          /\ DOMAIN corrections' = DOMAIN corrections
      BY <2>5 DEF TypeInv, TypeOK
    <3>2. Len(corrections') = Len(corrections)
      BY <3>1, <1>t, LenProperties DEF TypeInv, TypeOK
    <3> QED
      BY <3>1, <3>2, <2>3, <2>5
  <2>8. Phases'
    <3>1. review'.status # "NONE" /\ HasRun'
      BY <2>1, <1>r DEF HasRun
    <3> QED
      BY <3>1, <2>1, <1>u, <1>n DEF Phases, Unanalysed
  <2>9. ASSUME NEW j \in DOMAIN corrections' PROVE RequestOK(j)'
    <3>1. CASE j = i
      <4>1. /\ answered.run \in DOMAIN runs' /\ i = Len(corrections')
            /\ answered.run = review'.latestRun
            /\ answered.items = ItemsFor(findings'[review'.latestRun])
            /\ ~Some(findings'[review'.latestRun], "OPEN")
        BY <2>3, <2>4, <2>5, <2>6, <2>7, <1>u, <1>r DEF RequestOK
      <4>2. Answers(row, answered)
        BY <2>5, <2>6 DEF Answers
      <4> QED
        BY <3>1, <4>1, <4>2, <2>1, <2>6, <2>7, <1>l DEF RequestOK, ItemsFor, Some, Answers
    <3>2. CASE j # i
      <4>1. j \in DOMAIN corrections /\ RequestOK(j) /\ corrections'[j] = corrections[j]
        BY <3>2, <2>7 DEF IInv, Requests
      <4>2. corrections[j].status = "RECHECKED"
        <5>1. j # Len(corrections)
          BY <3>2, <2>3, <2>4, <2>5 DEF RequestOK
        <5> QED
          BY <4>1, <5>1 DEF RequestOK
      <4>3. \A k \in DOMAIN runs : submissions'[runs[k].submission]
                                     = submissions[runs[k].submission]
        BY <1>n DEF IInv, RunOrder
      <4> QED
        BY <4>1, <4>2, <4>3, <1>u DEF RequestOK, Answers
    <3> QED
      BY <3>1, <3>2
  <2>10. CompletionSound'
    BY <2>1 DEF CompletionSound
  <2> QED
    BY <1>1, <1>2, <1>3, <2>8, <2>9, <2>10 DEF IInv, Requests
<1> QED
  BY <1>4, <1>5

\* Every step of the owner keeps the invariant.
LEMMA OwnerInv == IInv /\ Owner => IInv'
<1> SUFFICES ASSUME IInv, Owner PROVE IInv'
  OBVIOUS
<1>t. TypeInv /\ TypeInv'
  BY OwnerTypes DEF IInv
<1>1. ASSUME NEW d \in DOMAIN documents, documents[d].active,
             NEW readiness, NEW outcome, SubmitVersion(d, readiness, outcome)
      PROVE  IInv'
  BY <1>1, <1>t, SubmitInv
<1>2. ASSUME NEW readiness, NEW outcome, SubmitReport(readiness, outcome)
      PROVE  IInv'
  <2>1. packages[Len(packages)].output \in DOMAIN documents
    <3>1. Len(packages) \in DOMAIN packages
      BY <1>2, <1>t, LenProperties DEF SubmitReport, TypeInv, TypeOK
    <3> QED
      BY <3>1, <1>2, <1>t, Rows DEF SubmitReport, TypeInv, References
  <2> QED
    BY <1>1, <1>2, <2>1 DEF SubmitReport
<1>3. CASE BeginWork \/ ArchiveCase \/ CreatePackage
  BY <1>3, <1>t, OwnerQuiet DEF BeginWork, ArchiveCase, CreatePackage, Editable
<1>4. ASSUME NEW c, ReopenPackage(c) PROVE IInv'
  BY <1>4, <1>t, OwnerQuiet DEF ReopenPackage
<1>5. ASSUME NEW p, NEW c, EditPackage(p, c) PROVE IInv'
  BY <1>5, <1>t, OwnerQuiet DEF EditPackage
<1>6. ASSUME NEW p, ValidatePackage(p) PROVE IInv'
  BY <1>6, <1>t, OwnerQuiet DEF ValidatePackage
<1>7. ASSUME NEW p, NEW d, ReuseReport(p, d) PROVE IInv'
  BY <1>7, <1>t, OwnerQuiet DEF ReuseReport
<1>8. ASSUME NEW p, NEW k, GenerateReport(p, k) PROVE IInv'
  BY <1>8, <1>t, OwnerQuiet DEF GenerateReport
<1>9. ASSUME NEW p, ExportTemplates(p) PROVE IInv'
  BY <1>9, <1>t, OwnerQuiet DEF ExportTemplates
<1>10. ASSUME NEW bytes, NEW g, UploadReport(bytes, g) PROVE IInv'
  BY <1>10, <1>t, OwnerQuiet DEF UploadReport
<1> QED
  BY <1>1, <1>2, <1>3, <1>4, <1>5, <1>6, <1>7, <1>8, <1>9, <1>10
     DEF Owner, SubmitTemplates

---------------------------------------------------------------------------
(* The steps of the review *)

\* Without a run, a step that changes only the status of a review, to one that
\* comes before the verdicts, keeps the invariant; so does a completeness
\* check that confirms what the review already waits for.
LEMMA StatusInv ==
    ASSUME IInv, TypeInv', Review, submissions # <<>>,
           UNCHANGED <<caseStatus, runs, findings, corrections, decisions>>,
           review'.latestSubmission = review.latestSubmission,
           review'.latestRun = review.latestRun,
           review.status \notin {"NONE", "RETURNED_FOR_REVISION", "REVIEW_COMPLETED"},
           review'.status \in {"PREPROCESSING", "PENDING_MATERIALS", "READY_FOR_REVIEW",
                               "ANALYZING", "REVIEW_REQUIRED"},
           HasRun => /\ review.status = "PENDING_MATERIALS"
                     /\ review'.status = "PENDING_MATERIALS"
    PROVE  IInv'
<1>u. UNCHANGED <<documents, submissions>>
  BY DEF Review
<1>l. Latest' = Latest /\ HasRun' = HasRun /\ Examined' = Examined
  BY <1>u DEF Latest, HasRun, Examined
<1>1. Phases'
  BY <1>u, <1>l DEF IInv, Phases, Unanalysed, Loadable, Complete
<1>2. RunOrder' /\ Decided'
  BY <1>u DEF IInv, RunOrder, RunsExamineNewVersions, Decided, Some
<1>3. Requests'
  <2>1. CASE HasRun
    BY <2>1, <1>u, <1>l DEF IInv, Requests, RequestOK, Answers, Some, ItemsFor
  <2>2. CASE ~HasRun
    BY <2>2, NothingWithoutRun DEF Requests
  <2> QED
    BY <2>1, <2>2
<1>4. CompletionSound'
  BY DEF CompletionSound
<1>5. FrozenFile'
  BY <1>u, <1>l DEF IInv, FrozenFile, Intact
<1> QED
  BY <1>1, <1>2, <1>3, <1>4, <1>5 DEF IInv

\* A run is added to a review that is ready for one: the first one, or one
\* that examines a version no run examined.
LEMMA RunInv ==
    ASSUME IInv, TypeInv', Review, NEW outcome, RunCreated(outcome), Loadable,
           review'.status = "REVIEW_REQUIRED",
           review'.latestSubmission = review.latestSubmission,
           review'.latestRun = Len(runs) + 1,
           UNCHANGED <<caseStatus, decisions>>,
           caseStatus # "REVISION_REQUIRED",
           caseStatus # "REVIEW_COMPLETED",
           HasRun => ~Examined, Intact,
           DOMAIN corrections' = DOMAIN corrections,
           \A i \in DOMAIN corrections :
              /\ corrections'[i].status = "RECHECKED"
              /\ corrections'[i].run = corrections[i].run
              /\ corrections'[i].response = corrections[i].response
              /\ corrections'[i].baseVersion = corrections[i].baseVersion
              /\ \/ corrections[i].status = "RECHECKED"
                 \/ corrections[i].status = "RESUBMITTED"
    PROVE  IInv'
<1> DEFINE n == Len(runs) + 1
<1>t. TypeInv
  BY DEF IInv
<1>u. UNCHANGED <<documents, submissions>>
  BY DEF Review
<1>n. /\ n \in Nat /\ DOMAIN runs' = 1..n
      /\ runs'[n].submission = Len(submissions)
      /\ \A i \in 1..Len(runs) : runs'[i] = runs[i] /\ findings'[i] = findings[i]
  <2>1. /\ runs \in Seq([submission : Nat, evaluated : SUBSET Rules])
        /\ findings \in Seq(FindingSets) /\ Len(findings) = Len(runs)
    BY <1>t DEF TypeInv, TypeOK, References
  <2> QED
    BY <2>1, <1>t, Rows, LenProperties DEF RunCreated
<1>l. Latest' = Latest /\ Examined'
  BY <1>u, <1>n, <1>t, Rows DEF Latest, Examined
\* Every run so far examined an earlier submission.
<1>e. \A i \in 1..Len(runs) :
         runs[i].submission \in 1..Len(submissions) /\ runs[i].submission < Len(submissions)
  <2>1. ASSUME NEW i \in 1..Len(runs)
        PROVE  /\ runs[i].submission \in 1..Len(submissions)
               /\ runs[i].submission < Len(submissions)
    <3>1. /\ Len(runs) \in 1..Len(runs) /\ review.latestRun = Len(runs)
          /\ Len(submissions) \in Nat /\ review.latestSubmission = Len(submissions)
      BY <1>t, Rows
    <3>2. \A j \in 1..Len(runs) : runs[j].submission \in 1..Len(submissions)
      BY <1>t, Rows DEF IInv, RunOrder
    <3>3. runs[Len(runs)].submission # Len(submissions)
      BY <3>1 DEF HasRun, Examined
    <3>4. runs[Len(runs)].submission < Len(submissions)
      BY <3>1, <3>2, <3>3
    <3>5. i = Len(runs) \/ runs[i].submission < runs[Len(runs)].submission
      BY <3>1, <1>t, Rows DEF IInv, RunOrder, RunsExamineNewVersions
    <3> QED
      BY <3>1, <3>2, <3>4, <3>5
  <2> QED
    BY <2>1
<1>s. Len(submissions) \in Nat /\ Len(submissions) >= 1 /\ submissions # <<>>
  <2>1. Len(submissions) \in Nat /\ Len(submissions) # 0
    BY <1>t, Rows DEF Loadable
  <2> QED
    BY <2>1
<1>1. Phases'
  <2>1. caseStatus \notin {"DRAFT", "PROCESSING"} /\ HasRun'
    BY <1>s, <1>n DEF IInv, Phases, HasRun
  <2> QED
    BY <2>1, <1>u, <1>l, <1>s DEF Phases, Unanalysed
<1>2. RunOrder'
  <2>1. \A i \in 1..n : runs'[i].submission \in 1..Len(submissions)
    BY <1>n, <1>e, <1>s
  <2>2. ASSUME NEW i \in 1..n, NEW j \in 1..n, i < j
        PROVE  runs'[i].submission < runs'[j].submission
    <3>1. i \in 1..Len(runs)
      BY <2>2, <1>t, Rows
    <3>2. CASE j = n
      BY <3>1, <3>2, <1>n, <1>e
    <3>3. CASE j # n
      <4>1. j \in 1..Len(runs)
        BY <3>3, <1>t, Rows
      <4> QED
        BY <4>1, <3>1, <2>2, <1>n, <1>t, Rows DEF IInv, RunOrder, RunsExamineNewVersions
    <3> QED
      BY <3>2, <3>3
  <2> QED
    BY <2>1, <2>2, <1>n, <1>u DEF RunOrder, RunsExamineNewVersions
<1>3. Decided'
  BY <1>n, <1>t, Rows DEF IInv, Decided, Some
<1>4. ASSUME NEW i \in DOMAIN corrections' PROVE RequestOK(i)'
  <2>1. RequestOK(i) /\ i \in DOMAIN corrections
    BY DEF IInv, Requests
  <2>2. /\ corrections[i].run \in 1..Len(runs)
        /\ corrections[i].run + 1 \in 1..n
        /\ corrections[i].run \in 1..n
    BY <2>1, <1>t, Rows DEF RequestOK
  <2>3. CASE corrections[i].status = "RECHECKED"
    <3>1. corrections[i].run + 1 \in 1..Len(runs)
      BY <2>1, <2>3, <1>t, Rows DEF RequestOK
    <3> QED
      BY <3>1, <2>1, <2>2, <2>3, <1>n, <1>u DEF RequestOK, Answers
  <2>4. CASE corrections[i].status = "RESUBMITTED"
    <3>1. corrections[i].run = Len(runs) /\ corrections[i].run + 1 = n
      BY <2>1, <2>4, <1>t, Rows DEF RequestOK
    <3>2. HasRun /\ ~Examined
      BY <2>2, <1>t, Rows DEF HasRun
    <3>3. Answers(Latest, corrections[i])
      BY <2>1, <2>4, <3>2 DEF RequestOK
    <3>4. Latest = submissions[runs'[n].submission]
      BY <1>n, <1>t, Rows DEF Latest
    <3>5. runs'[n].submission > runs'[Len(runs)].submission
      BY <1>n, <1>e, <2>2, <3>1, <1>s
    <3>6. Answers(submissions[runs'[n].submission], corrections'[i])
      BY <3>3, <3>4 DEF Answers
    <3>7. /\ corrections'[i].run = Len(runs) /\ corrections'[i].run + 1 = n
          /\ corrections'[i].status = "RECHECKED"
      BY <2>1, <3>1
    <3>8. n \in DOMAIN runs' /\ Len(runs) \in DOMAIN runs'
      BY <1>n, <2>2, <3>1
    <3> QED
      BY <3>5, <3>6, <3>7, <3>8, <1>u DEF RequestOK, Answers
  <2> QED
    BY <2>1, <2>3, <2>4
<1>5. CompletionSound'
  BY DEF CompletionSound
<1>6. FrozenFile'
  BY <1>u, <1>l DEF FrozenFile, Intact
<1> QED
  BY <1>1, <1>2, <1>3, <1>4, <1>5, <1>6 DEF IInv, Requests

\* Every step of the review keeps the invariant.
LEMMA ReviewInv == IInv /\ Review => IInv'
<1> SUFFICES ASSUME IInv, Review PROVE IInv'
  OBVIOUS
<1>t. TypeInv /\ TypeInv'
  BY ReviewTypes DEF IInv
<1>u. UNCHANGED <<documents, submissions, packages>>
  BY DEF Review
<1>m. Loadable => submissions # <<>>
  BY <1>t, Rows DEF Loadable
\* A first run, of a review whose materials are complete.
<1>f. ASSUME Loadable, ~HasRun, review.status # "NONE", NEW outcome, RunCreated(outcome),
             review'.status = "REVIEW_REQUIRED",
             review'.latestSubmission = review.latestSubmission,
             review'.latestRun = Len(runs) + 1,
             UNCHANGED <<caseStatus, corrections, decisions>>
      PROVE  IInv'
  <2>1. DOMAIN corrections = {} /\ review.status \notin {"RETURNED_FOR_REVISION", "REVIEW_COMPLETED"}
    BY <1>f, NothingWithoutRun DEF IInv, Phases
  <2>2. caseStatus \notin {"REVISION_REQUIRED", "REVIEW_COMPLETED"} /\ Intact
    BY <2>1, <1>f DEF IInv, Phases, FrozenFile
  <2> QED
    BY <1>f, <1>t, <2>1, <2>2, RunInv
<1>s. ASSUME NEW ready
      PROVE  /\ Checked(ready).status = IF ready THEN "READY_FOR_REVIEW"
                                                 ELSE "PENDING_MATERIALS"
             /\ Checked(ready).latestSubmission = review.latestSubmission
             /\ Checked(ready).latestRun = review.latestRun
             /\ Analysed(Checked(ready)).status = "REVIEW_REQUIRED"
             /\ Analysed(Checked(ready)).latestSubmission = review.latestSubmission
             /\ Analysed(Checked(ready)).latestRun = Len(runs) + 1
             /\ Analysed(review).status = "REVIEW_REQUIRED"
             /\ Analysed(review).latestSubmission = review.latestSubmission
             /\ Analysed(review).latestRun = Len(runs) + 1
  BY <1>t, Rows DEF Checked, Analysed, ReviewRows
\* A review that may still be started, with nothing missing, has no run.
<1>w. review.status \in StartableStatuses =>
         /\ review.status \notin {"NONE", "RETURNED_FOR_REVISION", "REVIEW_COMPLETED"}
         /\ HasRun => review.status = "PENDING_MATERIALS" /\ ~Complete
  BY DEF IInv, Phases, StartableStatuses, Unanalysed
<1>1. ASSUME Loadable, Preflight(Complete) PROVE IInv'
  BY <1>1, <1>t, <1>s, <1>w, <1>m, StatusInv DEF Preflight
<1>2. ASSUME Loadable, StartReview(Complete, Latest.outcome) PROVE IInv'
  BY <1>2, <1>s, <1>w, <1>f DEF StartReview
<1>3. ASSUME Loadable, CreateRun(Complete, Latest.outcome) PROVE IInv'
  <2>1. review.status = "READY_FOR_REVIEW"
    BY <1>3 DEF CreateRun, Moves, CanMove, AllowedTransitions
  <2> QED
    BY <1>3, <2>1, <1>s, <1>f DEF CreateRun, IInv, Phases, Unanalysed
<1>4. ASSUME NEW target \in MutableStatuses \cup {"PENDING_MATERIALS"},
             UpdateReview(target)
      PROVE  IInv'
  <2>1. /\ review.status \in {"RECEIVED", "PREPROCESSING", "READY_FOR_REVIEW", "ANALYZING"}
        /\ target \in {"PREPROCESSING", "PENDING_MATERIALS", "READY_FOR_REVIEW",
                       "ANALYZING", "REVIEW_REQUIRED"}
    <3>1. review.status # "EXPERT_REVIEW"
      BY DEF IInv, Phases
    <3> QED
      BY <3>1, <1>4 DEF UpdateReview, MutableStatuses, DecisionOnlyStatuses, Moves, CanMove,
                        AllowedTransitions
  <2>2. ~HasRun /\ submissions # <<>>
    BY <2>1 DEF IInv, Phases, Unanalysed
  <2>3. /\ review'.status = target /\ review'.latestSubmission = review.latestSubmission
        /\ review'.latestRun = review.latestRun
    BY <1>4, <1>t, Rows DEF UpdateReview, ReviewRows
  <2> QED
    BY <1>4, <1>t, <2>1, <2>2, <2>3, StatusInv DEF UpdateReview
<1>a. ActiveCorrections = {} => \A i \in DOMAIN corrections : corrections[i].status = "RECHECKED"
  BY DEF ActiveCorrections, Active
\* A review whose findings are decided upon, its statuses and requests kept.
<1>5. ASSUME NEW r \in Rules, NEW decision \in TriageDecisions,
             TriageFinding(r, decision)
      PROVE  IInv'
  <2>1. /\ review.status = "REVIEW_REQUIRED" /\ HasRun
        /\ findings[review.latestRun][r] = "OPEN"
        /\ UNCHANGED <<caseStatus, review, runs, corrections, decisions>>
    BY <1>5 DEF TriageFinding, TriageStatuses, IInv, Phases
  <2>2. DOMAIN findings' = DOMAIN findings
        /\ \A k \in DOMAIN findings : k # review.latestRun => findings'[k] = findings[k]
    BY <1>5 DEF TriageFinding
  <2>3. Some(findings[review.latestRun], "OPEN")
    BY <2>1 DEF Some
  <2>4. Latest' = Latest /\ Examined' = Examined /\ HasRun' = HasRun
    BY <2>1, <1>u DEF Latest, Examined, HasRun
  <2>5. \A i \in DOMAIN corrections : corrections[i].status = "RECHECKED"
    BY <2>3 DEF IInv, Requests, RequestOK
  <2>6. Phases' /\ RunOrder' /\ FrozenFile' /\ CompletionSound'
    BY <2>1, <2>4, <1>u DEF IInv, Phases, Loadable, Complete, RunOrder,
       RunsExamineNewVersions, FrozenFile, Intact, CompletionSound
  <2>7. Requests'
    BY <2>1, <2>5, <1>u DEF IInv, Requests, RequestOK, Answers
  <2>8. Decided'
    BY <2>1, <2>2, <2>3, <1>t, Rows DEF IInv, Decided, Some
  <2> QED
    BY <1>t, <2>6, <2>7, <2>8 DEF IInv
<1>6. ASSUME review.latestSubmission # 0, CreateCorrectionDraft(BaseDocument)
      PROVE  IInv'
  <2> DEFINE row == [status      |-> "DRAFT",
                     run         |-> review.latestRun,
                     base        |-> BaseDocument.document,
                     baseVersion |-> BaseDocument.version,
                     response    |-> 0,
                     items       |-> ItemsFor(LatestFindings)]
             n   == Len(corrections) + 1
  <2>1. /\ review.status = "REVIEW_REQUIRED" /\ HasRun
        /\ LatestFindings = findings[review.latestRun]
        /\ ~Some(findings[review.latestRun], "OPEN")
        /\ ActiveCorrections = {}
        /\ UNCHANGED <<caseStatus, review, runs, findings, decisions>>
        /\ corrections' = Append(corrections, row)
    BY <1>6 DEF CreateCorrectionDraft, CorrectionRequestStatuses, SendGate, LatestFindings
  <2>2. /\ DOMAIN corrections' = 1..n /\ Len(corrections') = n /\ n \in Nat
        /\ corrections'[n] = row
        /\ \A i \in 1..Len(corrections) : corrections'[i] = corrections[i]
    BY <2>1, <1>t, Rows, LenProperties DEF TypeInv, TypeOK
  <2>3. Latest' = Latest /\ Examined' = Examined /\ HasRun' = HasRun
    BY <2>1, <1>u DEF Latest, Examined, HasRun
  <2>4. RunOrder' /\ Decided' /\ FrozenFile' /\ CompletionSound'
    BY <2>1, <2>3, <1>u DEF IInv, RunOrder, RunsExamineNewVersions, Decided, Some,
       FrozenFile, Intact, CompletionSound
  <2>5. Phases'
    BY <2>1, <2>3, <1>u DEF IInv, Phases, Loadable, Complete
  <2>6. ASSUME NEW i \in DOMAIN corrections' PROVE RequestOK(i)'
    <3>1. CASE i = n
      <4>1. review.latestRun \in DOMAIN runs
        BY <2>1, <1>t, Rows DEF HasRun
      <4> QED
        BY <3>1, <4>1, <2>1, <2>2 DEF RequestOK, Some, ItemsFor
    <3>2. CASE i # n
      <4>1. i \in DOMAIN corrections /\ corrections'[i] = corrections[i]
        BY <3>2, <2>2, <1>t, Rows
      <4>2. corrections[i].status = "RECHECKED" /\ RequestOK(i)
        BY <4>1, <2>1, <1>a DEF IInv, Requests
      <4> QED
        BY <4>1, <4>2, <2>1, <1>u DEF RequestOK, Answers
    <3> QED
      BY <3>1, <3>2
  <2> QED
    BY <1>t, <2>4, <2>5, <2>6 DEF IInv, Requests
\* A step on one open request leaves the others, which are closed, alone.
<1>o. ASSUME NEW i \in DOMAIN corrections, corrections[i].status # "RECHECKED"
      PROVE  /\ i = Len(corrections) /\ corrections[i].run = review.latestRun /\ HasRun
             /\ \A j \in DOMAIN corrections :
                   j # i => corrections[j].status = "RECHECKED"
             /\ corrections # <<>>
  <2>1. i = Len(corrections) /\ corrections[i].run = review.latestRun
        /\ corrections[i].run \in DOMAIN runs
    BY <1>o DEF IInv, Requests, RequestOK
  <2>2. HasRun
    BY <2>1, <1>t, Rows DEF HasRun
  <2>3. \A j \in DOMAIN corrections : j # i => corrections[j].status = "RECHECKED"
    BY <2>1 DEF IInv, Requests, RequestOK
  <2> QED
    BY <2>1, <2>2, <2>3
<1>x. ASSUME NEW i \in DOMAIN corrections, NEW row,
             corrections' = [corrections EXCEPT ![i] = row]
      PROVE  /\ DOMAIN corrections' = DOMAIN corrections
             /\ Len(corrections') = Len(corrections)
             /\ corrections'[i] = row
             /\ \A j \in DOMAIN corrections : j # i => corrections'[j] = corrections[j]
  <2>1. DOMAIN corrections' = DOMAIN corrections
    BY <1>x
  <2>2. Len(corrections') = Len(corrections)
    BY <2>1, <1>t, LenProperties DEF TypeInv, TypeOK
  <2> QED
    BY <1>x, <2>1, <2>2
\* The closed requests stay what they were.
<1>c. ASSUME NEW j \in DOMAIN corrections, corrections[j].status = "RECHECKED",
             corrections'[j] = corrections[j], UNCHANGED <<runs, findings>>
      PROVE  RequestOK(j)'
  BY <1>c, <1>u DEF IInv, Requests, RequestOK, Answers
\* A decision on the newest run, whose findings are decided, joins the log.
<1>d. ASSUME NEW decision, HasRun, ~Some(findings[review.latestRun], "OPEN"),
             decisions' = Append(decisions, [decision |-> decision,
                                             run      |-> review.latestRun]),
             UNCHANGED <<runs, findings>>
      PROVE  Decided'
  <2> DEFINE n == Len(decisions) + 1
  <2>1. /\ DOMAIN decisions' = 1..n /\ n \in Nat
        /\ decisions'[n].run = review.latestRun
        /\ \A k \in 1..Len(decisions) : decisions'[k] = decisions[k]
    <3> DEFINE row == [decision |-> decision, run |-> review.latestRun]
    <3>1. row.run = review.latestRun /\ decisions' = Append(decisions, row)
      BY <1>d
    <3> HIDE DEF row
    <3>2. DOMAIN decisions' = 1..n /\ decisions'[n] = row /\ n \in Nat
          /\ \A k \in 1..Len(decisions) : decisions'[k] = decisions[k]
      BY <3>1, <1>t, LenProperties DEF TypeInv, TypeOK
    <3> QED
      BY <3>1, <3>2
  <2>2. review.latestRun \in DOMAIN runs
    BY <1>d, <1>t, Rows DEF HasRun
  <2>3. ASSUME NEW k \in 1..n
        PROVE  decisions'[k].run \in DOMAIN runs /\ ~Some(findings[decisions'[k].run], "OPEN")
    <3>1. CASE k = n
      BY <3>1, <2>1, <2>2, <1>d
    <3>2. CASE k # n
      <4>1. k \in DOMAIN decisions /\ decisions'[k] = decisions[k]
        BY <3>2, <2>1, <1>t, Rows
      <4> QED
        BY <4>1 DEF IInv, Decided
    <3> QED
      BY <3>1, <3>2
  <2> QED
    BY <2>1, <2>3, <1>d DEF Decided, Some
<1>7. ASSUME NEW i \in DOMAIN corrections, SendCorrection(i) PROVE IInv'
  <2>0. PICK c \in CorrectionRows : c = corrections[i]
    BY <1>7, <1>t, Rows
  <2> DEFINE row == [c EXCEPT !.status = "SENT"]
  <2>1. /\ review.status = "REVIEW_REQUIRED" /\ c.status = "DRAFT" /\ HasRun
        /\ ~Some(findings[review.latestRun], "OPEN")
        /\ caseStatus' = "REVISION_REQUIRED"
        /\ UNCHANGED <<runs, findings>>
        /\ corrections' = [corrections EXCEPT ![i] = row]
        /\ decisions' = Append(decisions, [decision |-> "RETURNED_FOR_REVISION",
                                           run      |-> review.latestRun])
    BY <1>7, <2>0 DEF SendCorrection, CorrectionRequestStatuses, SendGate, LatestFindings
  <2>2. /\ row.status = "SENT" /\ row.run = c.run /\ row.items = c.items
    BY DEF CorrectionRows
  <2> HIDE DEF row
  <2>3. /\ review'.status = "RETURNED_FOR_REVISION"
        /\ review'.latestSubmission = review.latestSubmission
        /\ review'.latestRun = review.latestRun
    BY <1>7, <1>t, Rows DEF SendCorrection, ReviewRows
  <2>4. Latest' = Latest /\ Examined /\ Examined' /\ HasRun'
    BY <2>1, <2>3, <1>u DEF Latest, Examined, HasRun, IInv, Phases
  <2>5. /\ DOMAIN corrections' = DOMAIN corrections
        /\ Len(corrections') = Len(corrections) /\ corrections'[i] = row
        /\ \A j \in DOMAIN corrections : j # i => corrections'[j] = corrections[j]
    BY <2>1, <1>x
  <2>6. /\ i = Len(corrections) /\ c.run = review.latestRun
        /\ \A j \in DOMAIN corrections : j # i => corrections[j].status = "RECHECKED"
    BY <2>0, <2>1, <1>o
  <2>7. RunOrder' /\ FrozenFile' /\ CompletionSound'
    BY <2>1, <2>3, <2>4, <1>u DEF IInv, RunOrder, RunsExamineNewVersions, FrozenFile,
       CompletionSound
  <2>8. Phases'
    <3>1. corrections' # <<>> /\ corrections'[Len(corrections')].status = "SENT"
      BY <2>2, <2>5, <2>6
    <3>2. submissions # <<>>
      BY <2>1 DEF IInv, Phases
    <3> QED
      BY <3>1, <3>2, <2>1, <2>3, <2>4, <1>u DEF Phases, Unanalysed
  <2>9. ASSUME NEW j \in DOMAIN corrections' PROVE RequestOK(j)'
    <3>1. CASE j = i
      <4>1. RequestOK(i)
        BY DEF IInv, Requests
      <4> QED
        BY <3>1, <4>1, <2>0, <2>1, <2>2, <2>3, <2>4, <2>5, <2>6 DEF RequestOK, Some, ItemsFor
    <3>2. CASE j # i
      BY <3>2, <2>1, <2>5, <2>6, <1>c
    <3> QED
      BY <3>1, <3>2
  <2>10. Decided'
    BY <2>1, <1>d
  <2> QED
    BY <1>t, <2>7, <2>8, <2>9, <2>10 DEF IInv, Requests
<1>8. ASSUME NEW i \in DOMAIN corrections, NEW d \in DOMAIN documents,
             RegisterResubmission(i, d)
      PROVE  IInv'
  <2>0. PICK c \in CorrectionRows : c = corrections[i]
    BY <1>8, <1>t, Rows
  <2> DEFINE row == [c EXCEPT !.status = "RESUBMITTED", !.response = d]
  <2>1. /\ c.status = "SENT"
        /\ corrections' = [corrections EXCEPT ![i] = row]
        /\ UNCHANGED <<caseStatus, review, runs, findings, decisions>>
    BY <1>8, <2>0 DEF RegisterResubmission, Registers
  <2>2. row.status = "RESUBMITTED" /\ row.run = c.run /\ row.items = c.items
    BY DEF CorrectionRows
  <2> HIDE DEF row
  <2>3. Latest' = Latest /\ Examined' = Examined /\ HasRun' = HasRun
    BY <2>1, <1>u DEF Latest, Examined, HasRun
  <2>4. /\ DOMAIN corrections' = DOMAIN corrections
        /\ Len(corrections') = Len(corrections) /\ corrections'[i] = row
        /\ \A j \in DOMAIN corrections : j # i => corrections'[j] = corrections[j]
    BY <2>1, <1>x
  <2>5. /\ i = Len(corrections)
        /\ \A j \in DOMAIN corrections : j # i => corrections[j].status = "RECHECKED"
    BY <2>0, <2>1, <1>o
  <2>6. RequestOK(i) /\ review.status = "RETURNED_FOR_REVISION" /\ Examined
    BY <2>0, <2>1 DEF IInv, Requests, RequestOK
  <2>7. RunOrder' /\ Decided' /\ FrozenFile' /\ CompletionSound'
    BY <2>1, <2>3, <2>6, <1>u DEF IInv, RunOrder, RunsExamineNewVersions, Decided, Some,
       FrozenFile, Intact, CompletionSound
  <2>8. Phases'
    <3>1. corrections' # <<>> /\ corrections'[Len(corrections')].status = "RESUBMITTED"
      BY <2>2, <2>4, <2>5
    <3> QED
      BY <3>1, <2>1, <2>3, <2>6, <1>u DEF IInv, Phases, Loadable, Complete
  <2>9. ASSUME NEW j \in DOMAIN corrections' PROVE RequestOK(j)'
    <3>1. CASE j = i
      BY <3>1, <2>0, <2>1, <2>2, <2>3, <2>4, <2>5, <2>6 DEF RequestOK, Some, ItemsFor
    <3>2. CASE j # i
      BY <3>2, <2>1, <2>4, <2>5, <1>c
    <3> QED
      BY <3>1, <3>2
  <2> QED
    BY <1>t, <2>7, <2>8, <2>9 DEF IInv, Requests
\* A recheck has a newer submission before it than its request has.
<1>r. ASSUME NEW i \in DOMAIN corrections, corrections[i].status = "RESUBMITTED",
             review.status = "RETURNED_FOR_REVISION", RecheckLineage(corrections[i])
      PROVE  /\ ~Examined /\ HasRun /\ Intact
             /\ caseStatus \notin {"REVISION_REQUIRED", "REVIEW_COMPLETED"}
  <2>1. corrections[i].run = review.latestRun /\ HasRun /\ corrections[i].run \in DOMAIN runs
    BY <1>r, <1>o DEF IInv, Requests, RequestOK
  <2>2. runs[corrections[i].run].submission # 0
    BY <2>1, <1>t, Rows DEF IInv, RunOrder
  <2>3. ~Examined
    BY <1>r, <2>1, <2>2 DEF RecheckLineage, Examined
  <2> QED
    BY <1>r, <2>1, <2>3 DEF IInv, Phases, FrozenFile
<1>9. ASSUME NEW i \in DOMAIN corrections, Loadable, ~Complete, RecheckIncomplete(i)
      PROVE  IInv'
  <2>1. /\ review.status = "RETURNED_FOR_REVISION"
        /\ corrections[i].status = "RESUBMITTED"
        /\ review'.status = "PENDING_MATERIALS"
        /\ review'.latestSubmission = review.latestSubmission
        /\ review'.latestRun = review.latestRun
        /\ UNCHANGED <<caseStatus, runs, findings, corrections, decisions>>
    BY <1>9, <1>s DEF RecheckIncomplete, RecheckStatuses
  <2>2. /\ ~Examined /\ HasRun /\ Intact
        /\ caseStatus \notin {"REVISION_REQUIRED", "REVIEW_COMPLETED"}
    BY <1>9, <2>1, <1>r DEF RecheckIncomplete
  <2>3. Latest' = Latest /\ Examined' = Examined /\ HasRun'
    BY <2>1, <2>2, <1>u DEF Latest, Examined, HasRun
  <2>4. Loadable' /\ ~Complete'
    BY <1>9, <2>1, <2>3 DEF Loadable, Complete
  <2>5. Phases'
    BY <2>1, <2>2, <2>3, <2>4, <1>u DEF IInv, Phases, Unanalysed
  <2>6. RunOrder' /\ Decided' /\ FrozenFile' /\ CompletionSound'
    BY <2>1, <2>2, <2>3, <1>u DEF IInv, RunOrder, RunsExamineNewVersions, Decided, Some,
       FrozenFile, Intact, CompletionSound
  <2>7. ASSUME NEW j \in DOMAIN corrections' PROVE RequestOK(j)'
    <3>1. CASE j = i
      <4>1. RequestOK(i)
        BY DEF IInv, Requests
      <4> QED
        BY <3>1, <4>1, <2>1, <2>3, <1>u DEF RequestOK, Some, ItemsFor, Answers
    <3>2. CASE j # i
      BY <3>2, <2>1, <1>9, <1>o, <1>c
    <3> QED
      BY <3>1, <3>2
  <2> QED
    BY <1>t, <2>5, <2>6, <2>7 DEF IInv, Requests
<1>10. ASSUME NEW i \in DOMAIN corrections, Loadable, RecheckComplete(i, Latest.outcome)
       PROVE  IInv'
  <2>0. PICK c \in CorrectionRows : c = corrections[i]
    BY <1>10, <1>t, Rows
  <2> DEFINE items == RecheckItems(c.items, c.run = review.latestRun, Latest.outcome)
             row   == [c EXCEPT !.status = "RECHECKED", !.items = items]
  <2>1. /\ review.status = "RETURNED_FOR_REVISION"
        /\ corrections[i].status = "RESUBMITTED"
        /\ RecheckLineage(corrections[i])
        /\ review' = Analysed(Checked(TRUE))
        /\ RunCreated(Latest.outcome)
        /\ corrections' = [corrections EXCEPT ![i] = row]
        /\ UNCHANGED <<caseStatus, decisions>>
    BY <1>10, <2>0 DEF RecheckComplete, RecheckStatuses
  <2> HIDE DEF items
  <2>2. /\ row.status = "RECHECKED" /\ row.run = c.run
        /\ row.response = c.response /\ row.baseVersion = c.baseVersion
    BY DEF CorrectionRows
  <2> HIDE DEF row
  <2>3. /\ DOMAIN corrections' = DOMAIN corrections /\ corrections'[i] = row
        /\ \A j \in DOMAIN corrections : j # i => corrections'[j] = corrections[j]
    BY <2>1, <1>x
  <2>4. \A j \in DOMAIN corrections : j # i => corrections[j].status = "RECHECKED"
    BY <2>1, <1>o
  <2>5. /\ ~Examined /\ HasRun /\ Intact
        /\ caseStatus \notin {"REVISION_REQUIRED", "REVIEW_COMPLETED"}
    BY <2>1, <1>r
  <2>6. \A j \in DOMAIN corrections :
           /\ corrections'[j].status = "RECHECKED"
           /\ corrections'[j].run = corrections[j].run
           /\ corrections'[j].response = corrections[j].response
           /\ corrections'[j].baseVersion = corrections[j].baseVersion
           /\ \/ corrections[j].status = "RECHECKED"
              \/ corrections[j].status = "RESUBMITTED"
    BY <2>0, <2>1, <2>2, <2>3, <2>4
  <2> QED
    BY <1>10, <1>t, <1>s, <2>1, <2>3, <2>5, <2>6, RunInv
<1>11. ASSUME CompleteReview PROVE IInv'
  <2>1. /\ review.status = "REVIEW_REQUIRED" /\ HasRun /\ Examined
        /\ \A r \in Rules : findings[review.latestRun][r]
                               \notin {"OPEN", "CONFIRMED_ISSUE", "EXPERT_REVIEW"}
        /\ ActiveCorrections = {}
        /\ caseStatus' = "REVIEW_COMPLETED"
        /\ decisions' = Append(decisions, [decision |-> "APPROVED",
                                           run      |-> review.latestRun])
        /\ UNCHANGED <<runs, findings, corrections>>
    BY <1>11 DEF CompleteReview, CompletionStatuses, FindingsAllowCompletion, Some,
       LatestFindings, Examined
  <2>2. /\ review'.status = "REVIEW_COMPLETED"
        /\ review'.latestSubmission = review.latestSubmission
        /\ review'.latestRun = review.latestRun
    BY <1>11, <1>t, Rows DEF CompleteReview, ReviewRows
  <2>3. Latest' = Latest /\ Examined' /\ HasRun'
    BY <2>1, <2>2, <1>u DEF Latest, Examined, HasRun
  <2>4. Intact /\ submissions # <<>>
    BY <2>1 DEF IInv, FrozenFile, Phases
  <2>5. Phases' /\ RunOrder' /\ FrozenFile'
    BY <2>1, <2>2, <2>3, <2>4, <1>u DEF IInv, Phases, Unanalysed, RunOrder,
       RunsExamineNewVersions, FrozenFile, Intact
  <2>6. Decided'
    BY <2>1, <1>d DEF Some
  <2>7. Requests'
    BY <2>1, <1>a, <1>c DEF Requests
  <2>8. CompletionSound'
    <3>1. findings[review.latestRun] \in FindingSets
      BY <2>1, <1>t, Rows DEF HasRun
    <3>2. \A r \in Rules : findings[review.latestRun][r] \in {"NONE", "DISMISSED_FALSE_POSITIVE"}
      BY <3>1, <2>1 DEF FindingSets, TriageDecisions
    <3>3. decisions' # <<>> /\ decisions'[Len(decisions')] =
             [decision |-> "APPROVED", run |-> review.latestRun]
      <4> DEFINE row == [decision |-> "APPROVED", run |-> review.latestRun]
      <4>1. decisions' = Append(decisions, row)
        BY <2>1
      <4> HIDE DEF row
      <4>2. Len(decisions') = Len(decisions) + 1 /\ Len(decisions) \in Nat
            /\ decisions'[Len(decisions) + 1] = row
        BY <4>1, <1>t, Rows, LenProperties DEF TypeInv, TypeOK
      <4>3. decisions' # <<>>
        BY <4>2
      <4> QED
        BY <4>2, <4>3 DEF row
    <3>4. ActiveCorrections' = {}
      BY <2>1 DEF ActiveCorrections, Active
    <3>5. LatestFindings' = findings[review.latestRun]
      BY <2>1, <2>2, <2>3 DEF LatestFindings
    <3> QED
      BY <2>1, <2>2, <2>3, <3>2, <3>3, <3>4, <3>5 DEF CompletionSound, Examined
  <2> QED
    BY <1>t, <2>5, <2>6, <2>7, <2>8 DEF IInv
<1> QED
  BY <1>1, <1>2, <1>3, <1>4, <1>5, <1>6, <1>7, <1>8, <1>9, <1>10, <1>11
     DEF Review, ReviewStep

---------------------------------------------------------------------------
(* Theorems *)

\* IInv is an invariant: between any two operations the rows of the owner, the
\* review and the correction requests agree as it says.
THEOREM InductiveInvariant == Spec => []IInv
<1>1. IInv /\ [Next]_vars => IInv'
  <2>1. ASSUME IInv, UNCHANGED vars PROVE IInv'
    <3>1. TypeInv'
      BY <2>1 DEF IInv, TypeInv, TypeOK, References, vars
    <3> QED
      BY <2>1, <3>1, OwnerQuiet DEF vars, reviewVars
  <2> QED
    BY <2>1, OwnerInv, ReviewInv DEF Next
<1> QED
  BY InitInv, <1>1, PTL DEF Spec

\* complete_review approves only what was examined, settled and closed, and
\* nothing that happens later - archiving, edits, uploads - takes that back.
THEOREM Completion == Spec => []CompletionSound
<1>1. IInv => CompletionSound
  BY DEF IInv
<1> QED
  BY <1>1, InductiveInvariant, PTL

\* What the owner is asked to correct is what the reviewer confirmed on the
\* newest run: create_draft, send, recheck and triage keep them equal.
THEOREM OpenRequests == Spec => []OpenRequestMirrorsRun
<1>1. IInv => OpenRequestMirrorsRun
  <2> SUFFICES ASSUME IInv, NEW i \in ActiveCorrections
               PROVE  /\ i = Len(corrections)
                      /\ corrections[i].run = review.latestRun
                      /\ corrections[i].items = ItemsFor(LatestFindings)
    BY DEF OpenRequestMirrorsRun
  <2>1. i \in DOMAIN corrections /\ corrections[i].status # "RECHECKED" /\ RequestOK(i)
    BY DEF ActiveCorrections, Active, IInv, Requests
  <2>2. HasRun
    BY <2>1, Rows DEF RequestOK, IInv, HasRun
  <2> QED
    BY <2>1, <2>2 DEF RequestOK, LatestFindings
<1> QED
  BY <1>1, InductiveInvariant, PTL

\* Case, review and request agree on whose turn it is, over send, submit,
\* recheck, complete and archive.
THEOREM Turns == Spec => []WhoseTurn
<1>1. IInv => WhoseTurn
  <2> SUFFICES ASSUME IInv PROVE WhoseTurn
    OBVIOUS
  <2>1. ASSUME caseStatus = "REVISION_REQUIRED"
        PROVE  \E i \in ActiveCorrections : corrections[i].status # "DRAFT"
    <3>1. /\ corrections # <<>>
          /\ corrections[Len(corrections)].status \in {"SENT", "RESUBMITTED"}
      BY <2>1 DEF IInv, Phases
    <3>2. Len(corrections) \in DOMAIN corrections
      BY <3>1, LenProperties DEF IInv, TypeInv, TypeOK
    <3> QED
      BY <3>1, <3>2 DEF ActiveCorrections, Active
  <2> QED
    BY <2>1 DEF IInv, Phases, Requests, RequestOK, WhoseTurn
<1> QED
  BY <1>1, InductiveInvariant, PTL

\* create_run and recheck never examine a version twice.
THEOREM NewVersions == Spec => []RunsExamineNewVersions
<1>1. IInv => RunsExamineNewVersions
  BY DEF IInv, RunOrder
<1> QED
  BY <1>1, InductiveInvariant, PTL

\* A request is rechecked only by the run that followed its own, over a later
\* submission of the registered response, in a later version.
THEOREM Rechecks == Spec => []RecheckedByItsResponse
<1>1. IInv => RecheckedByItsResponse
  BY Rows DEF IInv, Requests, RequestOK, Answers, RecheckedByItsResponse, Active
<1> QED
  BY <1>1, InductiveInvariant, PTL

\* The stored document of a version in review, or approved, is the frozen one.
THEOREM ReviewedFiles == Spec => []ReviewedFileIntact
<1>1. IInv => ReviewedFileIntact
  BY DEF IInv, Phases, FrozenFile, Intact, ReviewedFileIntact
<1> QED
  BY <1>1, InductiveInvariant, PTL

\* The findings a decision rests on are never triaged differently, because no
\* finding of a decided run is OPEN, and decisions are only ever added.
THEOREM DecisionsStand == Spec => DecidedRunsFrozen
<1> DEFINE Frozen ==
       /\ \A k \in DOMAIN decisions :
             /\ k \in DOMAIN decisions' /\ decisions'[k] = decisions[k]
             /\ findings'[decisions[k].run] = findings[decisions[k].run]
       /\ \A k \in DOMAIN decisions' :
             decisions'[k].run = review'.latestRun \/ k \in DOMAIN decisions
<1>1. IInv /\ [Next]_vars => [Frozen]_vars
  <2> SUFFICES ASSUME IInv, Next PROVE Frozen
    OBVIOUS
  <2>t. TypeInv
    BY DEF IInv
  <2>k. \A k \in DOMAIN decisions : /\ decisions[k].run \in 1..Len(runs)
                                    /\ ~Some(findings[decisions[k].run], "OPEN")
    BY <2>t, Rows DEF IInv, Decided
  <2>1. ASSUME UNCHANGED <<findings, decisions>> PROVE Frozen
    BY <2>1
  <2>2. ASSUME NEW outcome, RunCreated(outcome), UNCHANGED decisions PROVE Frozen
    <3>1. findings \in Seq(FindingSets) /\ Len(findings) = Len(runs)
      BY <2>t DEF TypeInv, TypeOK, References
    <3>2. \A n \in 1..Len(runs) : findings'[n] = findings[n]
      BY <2>2, <3>1, LenProperties DEF RunCreated
    <3> QED
      BY <2>2, <2>k, <3>2
  <2>3. ASSUME NEW decision, UNCHANGED findings, review'.latestRun = review.latestRun,
               decisions' = Append(decisions, [decision |-> decision,
                                               run      |-> review.latestRun])
        PROVE  Frozen
    <3> DEFINE row == [decision |-> decision, run |-> review.latestRun]
               n   == Len(decisions) + 1
    <3>1. row.run = review.latestRun /\ decisions' = Append(decisions, row)
      BY <2>3
    <3> HIDE DEF row
    <3>2. DOMAIN decisions' = 1..n /\ decisions'[n] = row /\ n \in Nat
          /\ \A k \in 1..Len(decisions) : decisions'[k] = decisions[k]
      BY <3>1, <2>t, LenProperties DEF TypeInv, TypeOK
    <3>3. DOMAIN decisions = 1..Len(decisions) /\ Len(decisions) \in Nat
      BY <2>t, Rows
    <3>4. \A k \in DOMAIN decisions' : k = n \/ k \in DOMAIN decisions
      BY <3>2, <3>3
    <3>5. \A k \in DOMAIN decisions : k \in DOMAIN decisions'
      BY <3>2, <3>3
    <3> QED
      BY <3>1, <3>2, <3>3, <3>4, <3>5, <2>3
  <2>4. ASSUME NEW r \in Rules, NEW decision, TriageFinding(r, decision) PROVE Frozen
    <3>1. Some(findings[review.latestRun], "OPEN")
      BY <2>4 DEF TriageFinding, Some
    <3>2. \A k \in DOMAIN decisions : decisions[k].run # review.latestRun
      BY <3>1, <2>k
    <3> QED
      BY <2>4, <3>2 DEF TriageFinding
  <2>5. CASE Owner
    <3>1. UNCHANGED <<findings, decisions>>
      BY <2>5 DEF Owner, BeginWork, ArchiveCase, CreatePackage, EditPackage, ReopenPackage,
         ValidatePackage, ReuseReport, GenerateReport, ExportTemplates, UploadReport,
         SubmitReport, SubmitTemplates, SubmitVersion, reviewVars
    <3> QED
      BY <3>1, <2>1
  <2>6. CASE Review
    <3>1. ASSUME NEW i, SendCorrection(i) PROVE Frozen
      BY <3>1, <2>3, <2>t, Rows DEF SendCorrection, ReviewRows
    <3>2. ASSUME CompleteReview PROVE Frozen
      BY <3>2, <2>3, <2>t, Rows DEF CompleteReview, ReviewRows
    <3>3. ASSUME NEW i, RecheckComplete(i, Latest.outcome) PROVE Frozen
      BY <3>3, <2>2 DEF RecheckComplete
    <3>4. ASSUME StartReview(Complete, Latest.outcome) \/ CreateRun(Complete, Latest.outcome)
          PROVE  Frozen
      BY <3>4, <2>2 DEF StartReview, CreateRun
    <3>5. ASSUME \/ Preflight(Complete)
                 \/ \E target : UpdateReview(target)
                 \/ CreateCorrectionDraft(BaseDocument)
                 \/ \E i, d : RegisterResubmission(i, d)
                 \/ \E i : RecheckIncomplete(i)
          PROVE  Frozen
      BY <3>5, <2>1 DEF Preflight, UpdateReview, CreateCorrectionDraft,
         RegisterResubmission, RecheckIncomplete
    <3> QED
      BY <2>6, <3>1, <3>2, <3>3, <3>4, <3>5, <2>4 DEF Review, ReviewStep
  <2> QED
    BY <2>5, <2>6 DEF Next
<1> QED
  BY <1>1, InductiveInvariant, PTL DEF Spec, DecidedRunsFrozen

---------------------------------------------------------------------------
(* The decision log *)

\* A new decision about the newest run extends the log.
LEMMA AppendDecision ==
    ASSUME TypeInv, NEW decision,
           decisions' = Append(decisions, [decision |-> decision,
                                           run      |-> review.latestRun])
    PROVE  /\ Len(decisions') = Len(decisions) + 1
           /\ DOMAIN decisions' = 1..(Len(decisions) + 1)
           /\ decisions' # <<>>
           /\ decisions'[Len(decisions) + 1] = [decision |-> decision,
                                                run      |-> review.latestRun]
           /\ \A k \in 1..Len(decisions) : decisions'[k] = decisions[k]
<1> DEFINE row == [decision |-> decision, run |-> review.latestRun]
<1>1. decisions' = Append(decisions, row)
  OBVIOUS
<1> HIDE DEF row
<1>2. /\ Len(decisions') = Len(decisions) + 1
      /\ DOMAIN decisions' = 1..(Len(decisions) + 1)
      /\ decisions'[Len(decisions) + 1] = row
      /\ \A k \in 1..Len(decisions) : decisions'[k] = decisions[k]
  BY <1>1, LenProperties DEF TypeInv, TypeOK
<1>3. decisions' # <<>>
  BY <1>2, Rows
<1> QED
  BY <1>2, <1>3 DEF row

\* The owner's packages stay within their bound and his steps leave the
\* decisions alone; while the review status he sets is never one of those the
\* log speaks of.
LEMMA OwnerLog == LogInv /\ Owner => DecisionLog'
<1> SUFFICES ASSUME LogInv, Owner PROVE DecisionLog'
  OBVIOUS
<1>t. TypeInv /\ packages \in Seq(PackageRows) /\ Len(packages) \in Nat
      /\ MaxPackages \in Nat
  BY BoundAssumption, LenProperties DEF BoundAssumption, LogInv, IInv, TypeInv, TypeOK
<1>1. UNCHANGED <<runs, decisions>>
  BY DEF Owner, BeginWork, ArchiveCase, CreatePackage, EditPackage, ReopenPackage,
     ValidatePackage, ReuseReport, GenerateReport, ExportTemplates, UploadReport,
     SubmitReport, SubmitTemplates, SubmitVersion, reviewVars
<1>2. Len(packages') <= MaxPackages
  <2>1. CASE CreatePackage
    <3> DEFINE row == [content |-> Blank, final |-> FALSE, output |-> 0,
                       validated |-> NoContent]
    <3>1. packages' = Append(packages, row) /\ Len(packages) < MaxPackages
      BY <2>1 DEF CreatePackage
    <3> HIDE DEF row
    <3>2. Len(packages') = Len(packages) + 1
      BY <3>1, <1>t, LenProperties
    <3> QED
      BY <3>1, <3>2, <1>t
  <2>2. ASSUME NEW p, NEW row, packages' = [packages EXCEPT ![p] = row]
        PROVE  Len(packages') <= MaxPackages
    <3>1. DOMAIN packages' = DOMAIN packages
      BY <2>2
    <3>2. Len(packages') = Len(packages)
      BY <3>1, <1>t, LenProperties, OwnerTypes DEF LogInv, IInv, TypeInv, TypeOK
    <3> QED
      BY <3>2 DEF LogInv, DecisionLog
  <2>3. ASSUME UNCHANGED packages PROVE Len(packages') <= MaxPackages
    BY <2>3 DEF LogInv, DecisionLog
  <2>4. ASSUME NEW c, ReopenPackage(c) PROVE Len(packages') <= MaxPackages
    <3> DEFINE row == [packages[Len(packages)] EXCEPT !.content = c, !.final = FALSE,
                                                      !.output = 0]
    <3>1. packages' = [packages EXCEPT ![Len(packages)] = row]
      BY <2>4, Zenon DEF ReopenPackage
    <3> HIDE DEF row
    <3> QED
      BY <3>1, <2>2
  <2>5. ASSUME NEW p, NEW c, EditPackage(p, c) PROVE Len(packages') <= MaxPackages
    <3> DEFINE row == [packages[p] EXCEPT !.content = c]
    <3>1. packages' = [packages EXCEPT ![p] = row]
      BY <2>5, Zenon DEF EditPackage
    <3> HIDE DEF row
    <3> QED
      BY <3>1, <2>2
  <2>6. ASSUME NEW p, ValidatePackage(p) PROVE Len(packages') <= MaxPackages
    <3> DEFINE row == [packages[p] EXCEPT !.validated = packages[p].content,
                                          !.final = FALSE]
    <3>1. packages' = [packages EXCEPT ![p] = row]
      BY <2>6 DEF ValidatePackage
    <3> HIDE DEF row
    <3> QED
      BY <3>1, <2>2
  <2>7. ASSUME NEW p, NEW d, packages' = Finalised(p, d)
        PROVE  Len(packages') <= MaxPackages
    <3> DEFINE row == [packages[p] EXCEPT !.final = TRUE, !.output = d]
    <3>1. packages' = [packages EXCEPT ![p] = row]
      BY <2>7 DEF Finalised
    <3> HIDE DEF row
    <3> QED
      BY <3>1, <2>2
  <2> QED
    BY <2>1, <2>3, <2>4, <2>5, <2>6, <2>7
       DEF Owner, BeginWork, ArchiveCase, ReuseReport, GenerateReport, ExportTemplates,
           UploadReport, SubmitReport, SubmitTemplates, SubmitVersion
<1>3. review'.latestRun = review.latestRun
      /\ (review'.status = review.status \/ review'.status = "RECEIVED")
  <2>1. ASSUME NEW d, NEW readiness, NEW outcome, SubmitVersion(d, readiness, outcome)
        PROVE  review'.latestRun = review.latestRun
               /\ (review'.status = review.status \/ review'.status = "RECEIVED")
    BY <2>1, <1>t, Rows DEF SubmitVersion, ReviewRows
  <2>2. CASE UNCHANGED review
    BY <2>2
  <2> QED
    BY <2>1, <2>2 DEF Owner, BeginWork, ArchiveCase, CreatePackage, EditPackage,
       ReopenPackage, ValidatePackage, ReuseReport, GenerateReport, ExportTemplates,
       UploadReport, SubmitReport, SubmitTemplates, reviewVars
<1> QED
  BY <1>1, <1>2, <1>3 DEF LogInv, DecisionLog

\* The review decides on its newest run once, and leaves RETURNED_FOR_REVISION
\* or enters REVIEW_REQUIRED only with a new run.
LEMMA ReviewLog == LogInv /\ Review => DecisionLog'
<1> SUFFICES ASSUME LogInv, Review PROVE DecisionLog'
  OBVIOUS
<1>t. TypeInv /\ IInv /\ DecisionLog
  BY DEF LogInv, IInv
<1>p. Len(packages') <= MaxPackages
  BY <1>t DEF Review, DecisionLog
<1>k. /\ \A k \in DOMAIN decisions : decisions[k].run \in 1..Len(runs)
      /\ DOMAIN decisions = 1..Len(decisions) /\ Len(decisions) \in Nat
      /\ Len(runs) \in Nat /\ review.latestRun = Len(runs)
  BY <1>t, Rows DEF IInv, Decided
\* A step that decides nothing and does not enter the two statuses.
<1>s. ASSUME UNCHANGED decisions,
             \/ review' = review
             \/ review'.status \notin {"REVIEW_REQUIRED", "RETURNED_FOR_REVISION"}
             \/ ~HasRun /\ review'.status # "RETURNED_FOR_REVISION"
      PROVE  DecisionLog'
  BY <1>s, <1>p, <1>t, NothingWithoutRun DEF DecisionLog
\* A step that adds a run.
<1>n. ASSUME UNCHANGED decisions, review'.status = "REVIEW_REQUIRED",
             review'.latestRun = Len(runs) + 1
      PROVE  DecisionLog'
  BY <1>n, <1>p, <1>t, <1>k DEF DecisionLog
\* A decision.
<1>d. ASSUME NEW decision, review.status = "REVIEW_REQUIRED",
             review'.latestRun = review.latestRun,
             review'.status # "REVIEW_REQUIRED",
             review'.status = "RETURNED_FOR_REVISION"
                => decision = "RETURNED_FOR_REVISION",
             decisions' = Append(decisions, [decision |-> decision,
                                             run      |-> review.latestRun])
      PROVE  DecisionLog'
  <2> DEFINE n == Len(decisions) + 1
  <2>1. /\ Len(decisions') = n /\ DOMAIN decisions' = 1..n /\ decisions' # <<>>
        /\ decisions'[n] = [decision |-> decision, run |-> review.latestRun]
        /\ \A k \in 1..Len(decisions) : decisions'[k] = decisions[k]
    BY <1>d, <1>t, AppendDecision
  <2>2. \A k \in 1..Len(decisions) : decisions[k].run < Len(runs)
    BY <1>d, <1>t, <1>k DEF DecisionLog
  <2>3. ASSUME NEW k \in 1..n, NEW l \in 1..n, k < l
        PROVE  decisions'[k].run < decisions'[l].run
    <3>1. k \in 1..Len(decisions) /\ decisions'[k] = decisions[k]
      BY <2>3, <2>1, <1>k
    <3>2. CASE l = n
      <4>1. decisions'[l].run = Len(runs)
        BY <3>2, <2>1, <1>k
      <4> QED
        BY <3>1, <4>1, <2>2
    <3>3. CASE l # n
      <4>1. l \in 1..Len(decisions) /\ decisions'[l] = decisions[l]
        BY <3>3, <2>1, <1>k
      <4> QED
        BY <3>1, <4>1, <2>3, <1>t, <1>k DEF DecisionLog
    <3> QED
      BY <3>2, <3>3
  <2> QED
    BY <2>1, <2>3, <1>d, <1>p DEF DecisionLog
<1>c. ASSUME NEW ready
      PROVE  /\ Checked(ready).status \in {"READY_FOR_REVIEW", "PENDING_MATERIALS"}
             /\ Analysed(Checked(ready)).status = "REVIEW_REQUIRED"
             /\ Analysed(Checked(ready)).latestRun = Len(runs) + 1
             /\ Analysed(review).status = "REVIEW_REQUIRED"
             /\ Analysed(review).latestRun = Len(runs) + 1
  BY <1>t, Rows DEF Checked, Analysed, ReviewRows
<1>1. ASSUME Preflight(Complete) PROVE DecisionLog'
  BY <1>1, <1>c, <1>s DEF Preflight
<1>2. ASSUME StartReview(Complete, Latest.outcome) PROVE DecisionLog'
  BY <1>2, <1>c, <1>n DEF StartReview
<1>3. ASSUME CreateRun(Complete, Latest.outcome) PROVE DecisionLog'
  BY <1>3, <1>c, <1>n DEF CreateRun
<1>4. ASSUME NEW target, UpdateReview(target) PROVE DecisionLog'
  <2>1. ~HasRun \/ target \notin {"REVIEW_REQUIRED", "RETURNED_FOR_REVISION"}
    BY <1>4, <1>t DEF UpdateReview, DecisionOnlyStatuses, Moves, CanMove,
       AllowedTransitions, IInv, Phases, Unanalysed
  <2>2. review'.status = target /\ target # "RETURNED_FOR_REVISION"
    BY <1>4, <1>t, Rows DEF UpdateReview, ReviewRows, DecisionOnlyStatuses
  <2> QED
    BY <1>4, <2>1, <2>2, <1>s DEF UpdateReview
<1>5. ASSUME \/ \E r, decision : TriageFinding(r, decision)
             \/ CreateCorrectionDraft(BaseDocument)
             \/ \E i, d : RegisterResubmission(i, d)
      PROVE  DecisionLog'
  BY <1>5, <1>s DEF TriageFinding, CreateCorrectionDraft, RegisterResubmission
<1>6. ASSUME NEW i, RecheckIncomplete(i) PROVE DecisionLog'
  BY <1>6, <1>c, <1>s DEF RecheckIncomplete
<1>7. ASSUME NEW i, RecheckComplete(i, Latest.outcome) PROVE DecisionLog'
  BY <1>7, <1>c, <1>n DEF RecheckComplete
<1>8. ASSUME NEW i, SendCorrection(i) PROVE DecisionLog'
  <2>1. /\ review'.status = "RETURNED_FOR_REVISION"
        /\ review'.latestRun = review.latestRun
    BY <1>8, <1>t, Rows DEF SendCorrection, ReviewRows
  <2> QED
    BY <1>8, <2>1, <1>d DEF SendCorrection, CorrectionRequestStatuses
<1>9. ASSUME CompleteReview PROVE DecisionLog'
  <2>1. /\ review'.status = "REVIEW_COMPLETED"
        /\ review'.latestRun = review.latestRun
    BY <1>9, <1>t, Rows DEF CompleteReview, ReviewRows
  <2> QED
    BY <1>9, <2>1, <1>d DEF CompleteReview, CompletionStatuses
<1> QED
  BY <1>1, <1>2, <1>3, <1>4, <1>5, <1>6, <1>7, <1>8, <1>9 DEF Review, ReviewStep

\* The log is in order in every reachable state: a run is decided once.
LEMMA LogInvariant == Spec => []LogInv
<1>1. Init => LogInv
  <2>1. ASSUME Init PROVE DecisionLog
    <3>1. /\ decisions = <<>> /\ review.status = "NONE" /\ Len(packages) = 0
          /\ MaxPackages \in Nat
      BY <2>1, BoundAssumption DEF Init, BoundAssumption
    <3> QED
      BY <3>1 DEF DecisionLog
  <2> QED
    BY <2>1, InitInv DEF LogInv
<1>2. LogInv /\ [Next]_vars => LogInv'
  <2>1. ASSUME LogInv, UNCHANGED vars PROVE LogInv'
    <3>1. TypeInv'
      BY <2>1 DEF LogInv, IInv, TypeInv, TypeOK, References, vars
    <3>2. IInv'
      BY <2>1, <3>1, OwnerQuiet DEF LogInv, vars, reviewVars
    <3> QED
      BY <2>1, <3>2 DEF LogInv, DecisionLog, vars
  <2> QED
    BY <2>1, OwnerInv, ReviewInv, OwnerLog, ReviewLog DEF Next, LogInv
<1> QED
  BY <1>1, <1>2, PTL DEF Spec

---------------------------------------------------------------------------
(* The mapping *)

RoundRows ==
    [version : Nat, verdict : {"NONE", "RETURNED_FOR_REVISION", "APPROVED"}]

\* The submission the k-th decision is about.
Subject(k) == runs[decisions[k].run].submission

\* What the mapping reads: the version of each submission, and the verdict of
\* the one decision about it, if there is one.
RoundsRead ==
    /\ Rounds \in Seq(RoundRows) /\ Len(Rounds) = Len(submissions)
    /\ \A n \in 1..Len(submissions) :
          /\ Rounds[n].version = submissions[n].version
          /\ (\A k \in DOMAIN decisions : Subject(k) # n) => Rounds[n].verdict = "NONE"
          /\ \A k \in DOMAIN decisions :
                Subject(k) = n => Rounds[n].verdict = decisions[k].decision

\* Two decisions are about two submissions.
LEMMA SubjectsDiffer ==
    ASSUME LogInv
    PROVE  \A k, l \in DOMAIN decisions : Subject(k) = Subject(l) => k = l
<1>1. \A k \in DOMAIN decisions : /\ decisions[k].run \in DOMAIN runs
                                  /\ runs[decisions[k].run].submission \in Nat
                                  /\ decisions[k].run \in Nat
  <2>1. TypeInv
    BY DEF LogInv, IInv
  <2>2. \A k \in DOMAIN decisions : decisions[k].run \in DOMAIN runs
    BY DEF LogInv, IInv, Decided
  <2>3. \A i \in DOMAIN runs : runs[i].submission \in Nat /\ i \in Nat
    BY <2>1, Rows DEF LogInv, IInv, RunOrder
  <2> QED
    BY <2>2, <2>3
<1>2. ASSUME NEW k \in DOMAIN decisions, NEW l \in DOMAIN decisions, k < l
      PROVE  Subject(k) < Subject(l)
  <2>1. decisions[k].run < decisions[l].run
    BY <1>2 DEF LogInv, DecisionLog
  <2> QED
    BY <1>1, <2>1 DEF LogInv, IInv, RunOrder, RunsExamineNewVersions, Subject
<1>3. \A k \in DOMAIN decisions : k \in Nat
  BY Rows DEF LogInv, IInv
<1>4. \A k \in DOMAIN decisions : Subject(k) \in Nat
  BY <1>1 DEF Subject
<1> QED
  BY <1>2, <1>3, <1>4

\* An element of a set with no other is the one chosen.
LEMMA OnlyChoice ==
    ASSUME NEW S, NEW k \in S, \A j \in S : j = k
    PROVE  (CHOOSE j \in S : TRUE) = k
OBVIOUS

\* Rounds reads the log as said.
LEMMA Reading == LogInv => RoundsRead
<1> SUFFICES ASSUME LogInv PROVE RoundsRead
  OBVIOUS
<1>t. /\ TypeInv /\ DOMAIN submissions = 1..Len(submissions) /\ Len(submissions) \in Nat
      /\ \A n \in 1..Len(submissions) : submissions[n].version \in Nat
      /\ \A k \in DOMAIN decisions :
            decisions[k].decision \in {"RETURNED_FOR_REVISION", "APPROVED"}
  <2>1. submissions \in Seq(SubmissionRows) /\ TypeInv
        /\ decisions \in Seq([decision : {"RETURNED_FOR_REVISION", "APPROVED"}, run : Nat])
    BY DEF LogInv, IInv, TypeInv, TypeOK
  <2>2. \A n \in 1..Len(submissions) : submissions[n] \in SubmissionRows
    BY <2>1, ElementOfSeq
  <2>3. \A k \in DOMAIN decisions :
           decisions[k] \in [decision : {"RETURNED_FOR_REVISION", "APPROVED"}, run : Nat]
    BY <2>1, ElementOfSeq, LenProperties
  <2> QED
    BY <2>1, <2>2, <2>3, LenProperties DEF SubmissionRows
<1>1. ASSUME NEW n \in 1..Len(submissions), \A k \in DOMAIN decisions : Subject(k) # n
      PROVE  Rounds[n] = [version |-> submissions[n].version, verdict |-> "NONE"]
  <2>1. DecisionsOn(n) = {}
    BY <1>1 DEF DecisionsOn, Subject
  <2> QED
    BY <2>1, <1>t DEF Rounds
<1>2. ASSUME NEW n \in 1..Len(submissions), NEW k \in DOMAIN decisions, Subject(k) = n
      PROVE  Rounds[n] = [version |-> submissions[n].version,
                          verdict |-> decisions[k].decision]
  <2>1. k \in DecisionsOn(n) /\ \A j \in DecisionsOn(n) : j = k
    BY <1>2, SubjectsDiffer DEF DecisionsOn, Subject
  <2>2. (CHOOSE j \in DecisionsOn(n) : TRUE) = k
    BY <2>1, OnlyChoice
  <2>3. Rounds[n] = [version |-> submissions[n].version,
           verdict |-> IF DecisionsOn(n) = {} THEN "NONE"
                       ELSE decisions[CHOOSE j \in DecisionsOn(n) : TRUE].decision]
    BY <1>t DEF Rounds
  <2> QED
    BY <2>1, <2>2, <2>3
<1>3. \A n \in 1..Len(submissions) : Rounds[n] \in RoundRows
  <2>1. ASSUME NEW n \in 1..Len(submissions) PROVE Rounds[n] \in RoundRows
    <3>1. CASE \A k \in DOMAIN decisions : Subject(k) # n
      <4>1. Rounds[n] = [version |-> submissions[n].version, verdict |-> "NONE"]
        BY <3>1, <1>1
      <4> QED
        BY <4>1, <1>t DEF RoundRows
    <3>2. CASE \E k \in DOMAIN decisions : Subject(k) = n
      <4>1. PICK k \in DOMAIN decisions : Subject(k) = n
        BY <3>2
      <4>2. Rounds[n] = [version |-> submissions[n].version,
                         verdict |-> decisions[k].decision]
        BY <4>1, <1>2
      <4> QED
        BY <4>2, <1>t DEF RoundRows
    <3> QED
      BY <3>1, <3>2
  <2> QED
    BY <2>1
<1>4. Rounds \in Seq(RoundRows) /\ Len(Rounds) = Len(submissions)
  <2>1. Rounds \in [DOMAIN submissions -> RoundRows]
    <3>1. DOMAIN Rounds = DOMAIN submissions
      BY DEF Rounds
    <3>2. Rounds = [n \in DOMAIN Rounds |-> Rounds[n]]
      BY DEF Rounds
    <3> QED
      BY <3>1, <3>2, <1>3, <1>t
  <2>2. submissions \in Seq(SubmissionRows)
    BY <1>t DEF TypeInv, TypeOK
  <2> QED
    BY <2>1, <2>2, UpdateRows
<1>5. ASSUME NEW n \in 1..Len(submissions)
      PROVE  /\ Rounds[n].version = submissions[n].version
             /\ (\A k \in DOMAIN decisions : Subject(k) # n) => Rounds[n].verdict = "NONE"
             /\ \A k \in DOMAIN decisions :
                   Subject(k) = n => Rounds[n].verdict = decisions[k].decision
  <2>1. Rounds[n].version = submissions[n].version
    BY <1>t DEF Rounds
  <2>2. ASSUME \A k \in DOMAIN decisions : Subject(k) # n
        PROVE  Rounds[n].verdict = "NONE"
    <3>1. Rounds[n] = [version |-> submissions[n].version, verdict |-> "NONE"]
      BY <2>2, <1>1
    <3> QED
      BY <3>1
  <2>3. ASSUME NEW k \in DOMAIN decisions, Subject(k) = n
        PROVE  Rounds[n].verdict = decisions[k].decision
    <3>1. Rounds[n] = [version |-> submissions[n].version,
                       verdict |-> decisions[k].decision]
      BY <2>3, <1>2
    <3> QED
      BY <3>1
  <2> QED
    BY <2>1, <2>2, <2>3
<1> QED
  BY <1>4, <1>5 DEF RoundsRead

\* A step that submits and decides nothing, and keeps the runs that were
\* decided, is invisible.
LEMMA StutterStep ==
    ASSUME LogInv, RoundsRead, RoundsRead', UNCHANGED <<submissions, decisions>>,
           \A n \in 1..Len(runs) : runs'[n] = runs[n]
    PROVE  Rounds' = Rounds
<1>1. \A k \in DOMAIN decisions : Subject(k)' = Subject(k)
  <2>1. \A k \in DOMAIN decisions : decisions[k].run \in 1..Len(runs)
    BY Rows DEF LogInv, IInv, Decided
  <2> QED
    BY <2>1 DEF Subject
<1>2. ASSUME NEW n \in 1..Len(submissions) PROVE Rounds'[n] = Rounds[n]
  <2>1. Rounds[n] \in RoundRows /\ Rounds'[n] \in RoundRows
    <3>1. n \in 1..Len(Rounds) /\ n \in 1..Len(Rounds')
      BY DEF RoundsRead
    <3> QED
      BY <3>1, ElementOfSeq DEF RoundsRead
  <2>2. Rounds'[n].version = Rounds[n].version
    BY DEF RoundsRead
  <2>3. Rounds'[n].verdict = Rounds[n].verdict
    <3>1. CASE \A k \in DOMAIN decisions : Subject(k) # n
      <4>1. Rounds[n].verdict = "NONE"
        BY <3>1 DEF RoundsRead
      <4>2. \A k \in DOMAIN decisions' : Subject(k)' # n
        BY <3>1, <1>1
      <4>3. Rounds'[n].verdict = "NONE"
        BY <4>2 DEF RoundsRead
      <4> QED
        BY <4>1, <4>3
    <3>2. ASSUME NEW k \in DOMAIN decisions, Subject(k) = n
          PROVE  Rounds'[n].verdict = Rounds[n].verdict
      <4>1. Rounds[n].verdict = decisions[k].decision
        BY <3>2 DEF RoundsRead
      <4>2. k \in DOMAIN decisions' /\ Subject(k)' = n
        BY <3>2, <1>1
      <4>3. Rounds'[n].verdict = decisions[k].decision
        BY <4>2 DEF RoundsRead
      <4> QED
        BY <4>1, <4>3
    <3> QED
      BY <3>1, <3>2
  <2> QED
    BY <2>1, <2>2, <2>3 DEF RoundRows
<1> QED
  BY <1>2, SeqEqual DEF RoundsRead

\* Where decisions are when the newest version is or is not decided.
LEMMA NewestVersion ==
    ASSUME LogInv, RoundsRead, submissions # <<>>
    PROVE  /\ Len(submissions) \in 1..Len(submissions) /\ Rounds # <<>>
           /\ Rounds[Len(Rounds)].version = submissions[Len(submissions)].version
           /\ review.status = "RETURNED_FOR_REVISION" /\ Examined
                 => Rounds[Len(Rounds)].verdict = "RETURNED_FOR_REVISION"
           /\ review.status = "REVIEW_REQUIRED" /\ HasRun
                 => /\ Rounds[Len(Rounds)].verdict = "NONE"
                    /\ \A k \in DOMAIN decisions : Subject(k) # Len(submissions)
<1>t. TypeInv /\ IInv /\ Len(Rounds) = Len(submissions) /\ Len(submissions) \in Nat
  BY Rows DEF LogInv, IInv, RoundsRead
<1>1. Len(submissions) \in 1..Len(submissions)
  <2>1. submissions \in Seq(SubmissionRows)
    BY <1>t DEF TypeInv, TypeOK
  <2> QED
    BY <2>1, EmptySeq
<1>2. Rounds # <<>>
  BY <1>t, <1>1
<1>3. Rounds[Len(Rounds)].version = submissions[Len(submissions)].version
  BY <1>t, <1>1 DEF RoundsRead
<1>4. ASSUME review.status = "RETURNED_FOR_REVISION", Examined
      PROVE  Rounds[Len(Rounds)].verdict = "RETURNED_FOR_REVISION"
  <2>1. /\ decisions # <<>>
        /\ decisions[Len(decisions)] = [decision |-> "RETURNED_FOR_REVISION",
                                        run      |-> review.latestRun]
    BY <1>4 DEF LogInv, DecisionLog
  <2>2. Len(decisions) \in DOMAIN decisions
    <3>1. decisions \in Seq([decision : {"RETURNED_FOR_REVISION", "APPROVED"}, run : Nat])
      BY <1>t DEF TypeInv, TypeOK
    <3> QED
      BY <3>1, <2>1, EmptySeq, LenProperties
  <2>3. Subject(Len(decisions)) = Len(submissions)
    BY <2>1, <1>4, <1>t, Rows DEF Subject, Examined
  <2>4. Rounds[Len(submissions)].verdict = decisions[Len(decisions)].decision
    BY <2>2, <2>3, <1>1 DEF RoundsRead
  <2> QED
    BY <2>1, <2>4, <1>t
<1>5. ASSUME review.status = "REVIEW_REQUIRED", HasRun
      PROVE  /\ Rounds[Len(Rounds)].verdict = "NONE"
             /\ \A k \in DOMAIN decisions : Subject(k) # Len(submissions)
  <2>1. ASSUME NEW k \in DOMAIN decisions PROVE Subject(k) # Len(submissions)
    <3>1. /\ decisions[k].run \in 1..Len(runs) /\ decisions[k].run # Len(runs)
          /\ Len(runs) \in Nat /\ Len(runs) \in DOMAIN runs
          /\ decisions[k].run \in DOMAIN runs
      BY <1>5, <1>t, Rows DEF LogInv, DecisionLog, IInv, Decided
    <3>2. runs[Len(runs)].submission = Len(submissions)
      BY <1>5, <1>t, Rows DEF IInv, Phases, Examined
    <3>3. runs[decisions[k].run].submission < runs[Len(runs)].submission
      BY <3>1, <1>t DEF IInv, RunOrder, RunsExamineNewVersions
    <3>4. runs[decisions[k].run].submission \in 1..Len(submissions)
      BY <3>1, <1>t DEF IInv, RunOrder
    <3> QED
      BY <3>2, <3>3, <3>4, <1>t DEF Subject
  <2> QED
    BY <2>1, <1>1, <1>t DEF RoundsRead
<1> QED
  BY <1>1, <1>2, <1>3, <1>4, <1>5

\* submit maps to Submit of the newest package's version.
LEMMA SubmitStep ==
    ASSUME LogInv, RoundsRead, RoundsRead', NEW d, NEW readiness, NEW outcome,
           SubmitVersion(d, readiness, outcome), packages # <<>>
    PROVE  \E version \in 1..MaxPackages : Handoff!Submit(version)
<1> DEFINE row   == [version |-> Len(packages), document |-> d,
                     docVersion |-> documents[d].version, bytes |-> documents[d].bytes,
                     readiness |-> readiness, outcome |-> outcome]
           round == [version |-> Len(packages), verdict |-> "NONE"]
           new   == Len(submissions) + 1
<1>t. TypeInv /\ IInv /\ Len(Rounds) = Len(submissions) /\ Len(submissions) \in Nat
  BY Rows DEF LogInv, IInv, RoundsRead
<1>v. Len(packages) \in 1..MaxPackages /\ Len(packages) \in Nat
  <2>1. packages \in Seq(PackageRows) /\ MaxPackages \in Nat
    BY <1>t, BoundAssumption DEF BoundAssumption, TypeInv, TypeOK
  <2> QED
    BY <2>1, EmptySeq DEF LogInv, DecisionLog
<1>1. Rounds # <<>> => /\ Rounds[Len(Rounds)].verdict = "RETURNED_FOR_REVISION"
                       /\ Len(packages) > Rounds[Len(Rounds)].version
  <2> SUFFICES ASSUME Rounds # <<>>
               PROVE  /\ Rounds[Len(Rounds)].verdict = "RETURNED_FOR_REVISION"
                      /\ Len(packages) > Rounds[Len(Rounds)].version
    OBVIOUS
  <2>1. submissions # <<>>
    <3>1. ASSUME submissions = <<>> PROVE Rounds = <<>>
      <4>1. Rounds \in Seq(RoundRows) /\ Len(Rounds) = 0
        BY <3>1, <1>t, EmptySeq DEF RoundsRead
      <4> QED
        BY <4>1, EmptySeq
    <3> QED
      BY <3>1
  <2>2. caseStatus = "REVISION_REQUIRED"
    BY <2>1, <1>t DEF SubmitVersion, Submittable, IInv, Phases
  <2>3. /\ review.status = "RETURNED_FOR_REVISION" /\ Examined
        /\ Len(packages) > submissions[Len(submissions)].version
    BY <2>2, <1>t, Rows DEF SubmitVersion, Submittable, IInv, Phases
  <2> QED
    BY <2>1, <2>3, NewestVersion
<1>2. /\ submissions' = Append(submissions, row) /\ Len(submissions') = new
      /\ submissions'[new] = row
      /\ \A n \in 1..Len(submissions) : submissions'[n] = submissions[n]
      /\ UNCHANGED <<runs, decisions>>
  <2>1. submissions \in Seq(SubmissionRows) /\ submissions' = Append(submissions, row)
    BY <1>t DEF SubmitVersion, TypeInv, TypeOK
  <2> HIDE DEF row
  <2> QED
    BY <2>1, LenProperties DEF SubmitVersion
<1>3. \A k \in DOMAIN decisions : /\ Subject(k)' = Subject(k)
                                  /\ Subject(k) \in 1..Len(submissions)
  BY <1>2, <1>t DEF Subject, IInv, Decided, RunOrder
<1>4. round \in RoundRows
  BY <1>v DEF RoundRows
<1>5. Rounds' = Append(Rounds, round)
  <2>1. /\ Append(Rounds, round) \in Seq(RoundRows)
        /\ Len(Append(Rounds, round)) = new
        /\ Append(Rounds, round)[new] = round
        /\ \A n \in 1..Len(submissions) : Append(Rounds, round)[n] = Rounds[n]
    <3> HIDE DEF round
    <3>1. Rounds \in Seq(RoundRows)
      BY DEF RoundsRead
    <3> QED
      BY <3>1, <1>4, <1>t, LenProperties
  <2>2. Rounds' \in Seq(RoundRows) /\ Len(Rounds') = new
    BY <1>2 DEF RoundsRead
  <2>3. ASSUME NEW n \in 1..new PROVE Rounds'[n] = Append(Rounds, round)[n]
    <3>r. Rounds'[n] \in RoundRows
      BY <2>2, ElementOfSeq
    <3>1. CASE n = new
      <4>1. \A k \in DOMAIN decisions' : Subject(k)' # n
        BY <3>1, <1>2, <1>3, <1>t
      <4>2. Rounds'[n].verdict = "NONE" /\ Rounds'[n].version = submissions'[n].version
        BY <4>1, <1>2 DEF RoundsRead
      <4>3. Rounds'[n].version = Len(packages)
        BY <4>2, <3>1, <1>2
      <4> QED
        BY <3>r, <4>2, <4>3, <3>1, <2>1 DEF RoundRows
    <3>2. CASE n # new
      <4>1. n \in 1..Len(submissions)
        BY <3>2, <1>t
      <4>2. Rounds[n] \in RoundRows
        BY <4>1, <1>t, ElementOfSeq DEF RoundsRead
      <4>3. Rounds'[n].version = Rounds[n].version
        BY <4>1, <1>2 DEF RoundsRead
      <4>4. Rounds'[n].verdict = Rounds[n].verdict
        <5>1. CASE \A k \in DOMAIN decisions : Subject(k) # n
          <6>1. \A k \in DOMAIN decisions' : Subject(k)' # n
            BY <5>1, <1>2, <1>3
          <6> QED
            BY <5>1, <6>1, <4>1, <1>2 DEF RoundsRead
        <5>2. ASSUME NEW k \in DOMAIN decisions, Subject(k) = n
              PROVE  Rounds'[n].verdict = Rounds[n].verdict
          <6>1. k \in DOMAIN decisions' /\ Subject(k)' = n
            BY <5>2, <1>2, <1>3
          <6>2. Rounds'[n].verdict = decisions'[k].decision
            BY <6>1, <1>2 DEF RoundsRead
          <6>3. Rounds[n].verdict = decisions[k].decision
            BY <5>2, <4>1 DEF RoundsRead
          <6> QED
            BY <6>2, <6>3, <1>2
        <5> QED
          BY <5>1, <5>2
      <4> QED
        BY <3>r, <4>1, <4>2, <4>3, <4>4, <2>1 DEF RoundRows
    <3> QED
      BY <3>1, <3>2
  <2> QED
    BY <2>1, <2>2, <2>3, SeqEqual
<1>6. Handoff!Submit(Len(packages))
  BY <1>1, <1>5 DEF Handoff!Submit, Handoff!Last
<1> QED
  BY <1>v, <1>6

\* send and complete_review map to Judge.
LEMMA JudgeStep ==
    ASSUME LogInv, RoundsRead, RoundsRead', NEW decision \in Handoff!Verdicts,
           review.status = "REVIEW_REQUIRED", HasRun,
           decisions' = Append(decisions, [decision |-> decision,
                                           run      |-> review.latestRun]),
           UNCHANGED <<submissions, runs>>
    PROVE  Handoff!Judge(decision)
<1> DEFINE last == Len(submissions)
<1>n. PICK n \in Nat : n = Len(decisions) + 1
  BY Rows DEF LogInv, IInv
<1>t. TypeInv /\ IInv /\ Len(Rounds) = last /\ Len(Rounds') = last /\ last \in Nat
  BY Rows DEF LogInv, IInv, RoundsRead
<1>1. submissions # <<>> /\ Examined
  BY <1>t DEF IInv, Phases
<1>2. /\ last \in 1..last /\ Rounds # <<>> /\ Rounds[Len(Rounds)].verdict = "NONE"
      /\ \A k \in DOMAIN decisions : Subject(k) # last
  BY <1>1, <1>t, NewestVersion
<1>3. /\ DOMAIN decisions' = 1..n /\ n \in Nat /\ n \in DOMAIN decisions'
      /\ decisions'[n].decision = decision /\ Subject(n)' = last
      /\ \A k \in DOMAIN decisions : /\ k \in DOMAIN decisions'
                                     /\ decisions'[k] = decisions[k]
                                     /\ Subject(k)' = Subject(k)
      /\ \A k \in DOMAIN decisions' : k = n \/ k \in DOMAIN decisions
  <2>1. /\ DOMAIN decisions' = 1..n
        /\ decisions'[n] = [decision |-> decision, run |-> review.latestRun]
        /\ \A k \in 1..Len(decisions) : decisions'[k] = decisions[k]
        /\ DOMAIN decisions = 1..Len(decisions) /\ Len(decisions) \in Nat
    BY <1>t, <1>n, AppendDecision, Rows
  <2>2. runs[review.latestRun].submission = last
    BY <1>1, <1>t, Rows DEF Examined
  <2>3. n \in DOMAIN decisions' /\ n \in Nat
    BY <2>1
  <2>4. decisions'[n].decision = decision /\ decisions'[n].run = review.latestRun
    BY <2>1
  <2>5. Subject(n)' = last
    BY <2>2, <2>4 DEF Subject
  <2>6. ASSUME NEW k \in DOMAIN decisions
        PROVE  /\ k \in DOMAIN decisions'
               /\ decisions'[k] = decisions[k]
               /\ Subject(k)' = Subject(k)
    <3>1. k \in DOMAIN decisions' /\ decisions'[k] = decisions[k]
      BY <2>1
    <3> QED
      BY <3>1 DEF Subject
  <2>7. \A k \in DOMAIN decisions' : k = n \/ k \in DOMAIN decisions
    BY <2>1
  <2> QED
    BY <2>1, <2>3, <2>4, <2>5, <2>6, <2>7
<1>4. Rounds' = [Rounds EXCEPT ![Len(Rounds)].verdict = decision]
  <2>1. PICK old \in RoundRows : old = Rounds[last]
    BY <1>2, <1>t, ElementOfSeq DEF RoundsRead
  <2> DEFINE judged == [old EXCEPT !.verdict = decision]
  <2>2. /\ judged \in RoundRows /\ judged.verdict = decision
        /\ judged.version = old.version
    BY DEF RoundRows, Handoff!Verdicts
  <2>3. [Rounds EXCEPT ![Len(Rounds)].verdict = decision]
           = [Rounds EXCEPT ![last] = judged]
    BY <2>1, <1>t
  <2> HIDE DEF judged
  <2>4. /\ [Rounds EXCEPT ![last] = judged] \in Seq(RoundRows)
        /\ Len([Rounds EXCEPT ![last] = judged]) = last
        /\ \A m \in 1..last : [Rounds EXCEPT ![last] = judged][m] =
                                 IF m = last THEN judged ELSE Rounds[m]
    BY <2>2, <1>2, <1>t, ExceptSeq DEF RoundsRead
  <2>5. ASSUME NEW m \in 1..last
        PROVE  Rounds'[m] = IF m = last THEN judged ELSE Rounds[m]
    <3>r. Rounds'[m] \in RoundRows /\ Rounds[m] \in RoundRows
      BY <1>t, ElementOfSeq DEF RoundsRead
    <3>1. Rounds'[m].version = Rounds[m].version
      BY <1>t DEF RoundsRead
    <3>2. CASE m = last
      <4>0. n \in DOMAIN decisions' /\ Subject(n)' = m /\ decisions'[n].decision = decision
        BY <1>3, <3>2
      <4>1. Rounds'[m].verdict = decision
        BY <4>0, <1>t DEF RoundsRead
      <4> QED
        BY <4>1, <3>1, <3>2, <3>r, <2>1, <2>2 DEF RoundRows
    <3>3. CASE m # last
      <4>1. ASSUME \A k \in DOMAIN decisions : Subject(k) # m
            PROVE  Rounds'[m].verdict = Rounds[m].verdict
        <5>1. \A k \in DOMAIN decisions' : Subject(k)' # m
          <6>1. ASSUME NEW k \in DOMAIN decisions' PROVE Subject(k)' # m
            <7>1. CASE k = n
              BY <7>1, <1>3, <3>3
            <7>2. CASE k \in DOMAIN decisions
              BY <7>2, <1>3, <4>1
            <7> QED
              BY <7>1, <7>2, <1>3
          <6> QED
            BY <6>1
        <5>2. Rounds'[m].verdict = "NONE"
          BY <5>1 DEF RoundsRead
        <5>3. Rounds[m].verdict = "NONE"
          BY <4>1 DEF RoundsRead
        <5> QED
          BY <5>2, <5>3
      <4>2. ASSUME NEW k \in DOMAIN decisions, Subject(k) = m
            PROVE  Rounds'[m].verdict = Rounds[m].verdict
        <5>1. k \in DOMAIN decisions' /\ Subject(k)' = m /\ decisions'[k] = decisions[k]
          BY <4>2, <1>3
        <5>2. Rounds'[m].verdict = decisions[k].decision
          BY <5>1 DEF RoundsRead
        <5>3. Rounds[m].verdict = decisions[k].decision
          BY <4>2 DEF RoundsRead
        <5> QED
          BY <5>2, <5>3
      <4>3. Rounds'[m].verdict = Rounds[m].verdict
        BY <4>1, <4>2
      <4> QED
        BY <4>3, <3>1, <3>3, <3>r DEF RoundRows
    <3> QED
      BY <3>2, <3>3
  <2>6. Rounds' \in Seq(RoundRows)
    BY DEF RoundsRead
  <2> DEFINE target == [Rounds EXCEPT ![last] = judged]
  <2>7. target \in Seq(RoundRows) /\ Len(target) = Len(Rounds')
    BY <2>4, <1>t
  <2>8. \A m \in 1..Len(Rounds') : Rounds'[m] = target[m]
    BY <2>4, <2>5, <1>t
  <2>9. Rounds' = target
    <3> HIDE DEF target
    <3> QED
      BY <2>6, <2>7, <2>8, SeqEqual
  <2> QED
    BY <2>3, <2>9
<1> QED
  BY <1>2, <1>4 DEF Handoff!Judge, Handoff!Last

\* Every step of the workflow is a step of VersionVerdicts or a stutter.
LEMMA StepRefined ==
    LogInv /\ RoundsRead /\ RoundsRead' /\ [Next]_vars => [Handoff!Next]_Rounds
<1> SUFFICES ASSUME LogInv, RoundsRead, RoundsRead', [Next]_vars
             PROVE  [Handoff!Next]_Rounds
  OBVIOUS
<1>t. TypeInv /\ Len(runs) \in Nat
  BY Rows DEF LogInv, IInv
<1>1. ASSUME UNCHANGED <<submissions, runs, decisions>> PROVE [Handoff!Next]_Rounds
  BY <1>1, StutterStep
<1>2. ASSUME NEW outcome, RunCreated(outcome), UNCHANGED <<submissions, decisions>>
      PROVE  [Handoff!Next]_Rounds
  <2>1. \A n \in 1..Len(runs) : runs'[n] = runs[n]
    BY <1>2, <1>t, LenProperties DEF RunCreated, TypeInv, TypeOK
  <2> QED
    BY <1>2, <2>1, StutterStep
<1>3. ASSUME NEW d, NEW readiness, NEW outcome, SubmitVersion(d, readiness, outcome),
             packages # <<>>
      PROVE  [Handoff!Next]_Rounds
  BY <1>3, SubmitStep DEF Handoff!Next
<1>4. CASE UNCHANGED vars
  BY <1>4, <1>1 DEF vars
<1>5. CASE Owner
  <2>1. ASSUME NEW readiness, NEW outcome, SubmitReport(readiness, outcome)
        PROVE  [Handoff!Next]_Rounds
    BY <2>1, <1>3 DEF SubmitReport
  <2>2. ASSUME NEW d, NEW q \in DOMAIN packages, NEW readiness, NEW outcome,
               SubmitTemplates(d, q, readiness, outcome)
        PROVE  [Handoff!Next]_Rounds
    <3>1. packages # <<>>
      BY <2>2
    <3> QED
      BY <2>2, <3>1, <1>3 DEF SubmitTemplates
  <2> QED
    BY <1>5, <1>1, <2>1, <2>2 DEF Owner, BeginWork, ArchiveCase, CreatePackage,
       EditPackage, ReopenPackage, ValidatePackage, ReuseReport, GenerateReport,
       ExportTemplates, UploadReport, reviewVars
<1>6. CASE Review
  <2>u. UNCHANGED submissions
    BY <1>6 DEF Review
  <2>1. ASSUME NEW i, SendCorrection(i) PROVE [Handoff!Next]_Rounds
    <3>1. review.status = "REVIEW_REQUIRED" /\ HasRun
      BY <2>1 DEF SendCorrection, CorrectionRequestStatuses, SendGate
    <3>2. Handoff!Judge("RETURNED_FOR_REVISION")
      BY <2>1, <2>u, <3>1, JudgeStep DEF SendCorrection, Handoff!Verdicts
    <3> QED
      BY <3>2 DEF Handoff!Next, Handoff!Verdicts
  <2>2. ASSUME CompleteReview PROVE [Handoff!Next]_Rounds
    <3>1. review.status = "REVIEW_REQUIRED" /\ HasRun
      BY <2>2 DEF CompleteReview, CompletionStatuses, FindingsAllowCompletion
    <3>2. Handoff!Judge("APPROVED")
      BY <2>2, <2>u, <3>1, JudgeStep DEF CompleteReview, Handoff!Verdicts
    <3> QED
      BY <3>2 DEF Handoff!Next, Handoff!Verdicts
  <2>3. ASSUME NEW i, RecheckComplete(i, Latest.outcome) PROVE [Handoff!Next]_Rounds
    BY <2>3, <2>u, <1>2 DEF RecheckComplete
  <2>4. ASSUME StartReview(Complete, Latest.outcome) \/ CreateRun(Complete, Latest.outcome)
        PROVE  [Handoff!Next]_Rounds
    BY <2>4, <2>u, <1>2 DEF StartReview, CreateRun
  <2>5. ASSUME \/ Preflight(Complete)
               \/ \E target : UpdateReview(target)
               \/ \E r, decision : TriageFinding(r, decision)
               \/ CreateCorrectionDraft(BaseDocument)
               \/ \E i, d : RegisterResubmission(i, d)
               \/ \E i : RecheckIncomplete(i)
        PROVE  [Handoff!Next]_Rounds
    BY <2>5, <2>u, <1>1 DEF Preflight, UpdateReview, TriageFinding,
       CreateCorrectionDraft, RegisterResubmission, RecheckIncomplete
  <2> QED
    BY <1>6, <2>1, <2>2, <2>3, <2>4, <2>5 DEF Review, ReviewStep
<1> QED
  BY <1>4, <1>5, <1>6 DEF Next

\* The workflow implements the handoff: each version gets at most one verdict,
\* never revised, a version follows only a returned one, and none an approval -
\* submit, send, recheck and complete_review in any order of calls.
THEOREM Refinement == Spec => HandoffRefined
<1>1. Init => Handoff!Init
  BY DEF Init, Handoff!Init, Rounds
<1> QED
  BY <1>1, LogInvariant, Reading, StepRefined, PTL DEF Spec, HandoffRefined, Handoff!Spec

================================================================================
