------------------------------ MODULE FormsProofs ------------------------------
(***************************************************************************)
(* What the complete report shows, for every set of values, factors,       *)
(* targets, maps and requests and any number of documents, those uploaded  *)
(* between included: final pages are what their document shows, and what   *)
(* the reviewers have is in force, a price no warning calls stale is       *)
(* theirs, a report is of its validation, and a request sent again makes   *)
(* nothing twice.  And of the F03 form, for any edits, requests and transactions:  *)
(* one row per request, the price of the last calculation, and PDFs that   *)
(* rest on the check of theirs.                                            *)
(***************************************************************************)
EXTENDS FormalReport, FormRequests, FiniteSetTheorems, SequenceTheorems, TLAPS

\* The price of a comparison that is on is that of its last calculation: they
\* are written and discarded together.
PriceIsCalculated == comparison.enabled => comparison.price = comparison.calculated

\* The inductive invariant.
ReportInv ==
    /\ ReportTypeOK
    /\ PriceIsCalculated
    /\ FinalPagesAreShown
    /\ HandedOverIsShown
    /\ OneActiveVersion
    /\ OncePerRequest

---------------------------------------------------------------------------
(* The pages *)

\* The pages an operation starts from are pages, and what the calculation
\* reads of two pages is a snapshot.
LEMMA PageInputs ==
    ASSUME ReportTypeOK, FormalAssumption
    PROVE  /\ \A r \in RegionalPages :
                  WithRule(r) \in RegionalPages /\ InvalidRegional(r) \in RegionalPages
           /\ \A c \in ComparisonPages :
                  /\ InvalidComparison(c) \in ComparisonPages
                  /\ InvalidComparison(c).price = InvalidComparison(c).calculated
           /\ \A r \in RegionalPages, c \in ComparisonPages : Inputs(r, c) \in Fingerprints
<1>1. /\ \A r \in RegionalPages :
             WithRule(r) \in RegionalPages /\ InvalidRegional(r) \in RegionalPages
      /\ \A c \in ComparisonPages :
             /\ InvalidComparison(c) \in ComparisonPages
             /\ InvalidComparison(c).price = InvalidComparison(c).calculated
  BY DEF WithRule, InvalidRegional, InvalidComparison, RegionalPages, ComparisonPages
<1>2. ASSUME NEW r \in RegionalPages, NEW c \in ComparisonPages
      PROVE  Inputs(r, c) \in Fingerprints
  BY DEF ReportTypeOK, Inputs, Fingerprints, RegionalPages, ComparisonPages
<1> QED
  BY <1>1, <1>2

\* An update of a page discards the price of the comparison, or leaves it with
\* its calculation.
LEMMA PageUpdated ==
    ASSUME ReportTypeOK, FormalAssumption,
           \/ \E v \in Values : SetS01(v)
           \/ \E f \in Factors : SetRegional(f)
           \/ \E t \in Targets \cup {NoTargets}, on \in BOOLEAN : SetComparison(t, on)
           \/ \E v \in Values, f \in Factors : SetDistance(v, f)
           \/ \E t \in Targets : SetUp(t)
    PROVE  /\ s01' \in Values /\ regional' \in RegionalPages
           /\ comparison' \in ComparisonPages
           /\ comparison' = comparison \/ comparison'.price = comparison'.calculated
<1> USE PageInputs
<1>t. s01 \in Values /\ regional \in RegionalPages /\ comparison \in ComparisonPages
  BY DEF ReportTypeOK
<1>1. CASE \E v \in Values : SetS01(v)
  BY <1>1, <1>t DEF SetS01
<1>2. CASE \E f \in Factors : SetRegional(f)
  <2>1. PICK f \in Factors : SetRegional(f)
    BY <1>2
  <2>2. [WithRule(regional) EXCEPT !.factors = f] \in RegionalPages
    BY <1>t DEF RegionalPages
  <2> QED
    BY <2>1, <2>2, <1>t DEF SetRegional
<1>3. CASE \E t \in Targets \cup {NoTargets}, on \in BOOLEAN : SetComparison(t, on)
  <2>1. PICK t \in Targets \cup {NoTargets}, on \in BOOLEAN : SetComparison(t, on)
    BY <1>3
  <2>2. [comparison EXCEPT !.targets = t, !.enabled = on] \in ComparisonPages
    BY <1>t DEF ComparisonPages
  <2> QED
    BY <2>1, <2>2, <1>t DEF SetComparison
<1>4. CASE \E v \in Values, f \in Factors : SetDistance(v, f)
  <2>1. PICK v \in Values, f \in Factors : SetDistance(v, f)
    BY <1>4
  <2>2. [WithRule(regional) EXCEPT
             !.factors = IF regional.factors = NoRows THEN NoRows ELSE f] \in RegionalPages
    BY <1>t DEF RegionalPages
  <2> QED
    BY <2>1, <2>2, <1>t DEF SetDistance
<1>5. CASE \E t \in Targets : SetUp(t)
  <2>1. PICK t \in Targets : SetUp(t)
    BY <1>5
  <2>2. /\ [regional EXCEPT !.analysis = TRUE] \in RegionalPages
        /\ [comparison EXCEPT !.analysis = TRUE, !.targets = t] \in ComparisonPages
    BY <1>t DEF RegionalPages, ComparisonPages
  <2> QED
    BY <2>1, <2>2, <1>t DEF SetUp
<1> QED
  BY <1>1, <1>2, <1>3, <1>4, <1>5

\* Candidates that wait and a benchmark of the case give pages again.
LEMMA CalculationInputs ==
    ASSUME ReportTypeOK, FormalAssumption
    PROVE  RegionalInput \in RegionalPages /\ ComparisonInput \in ComparisonPages
<1>t. /\ regional \in RegionalPages /\ comparison \in ComparisonPages
      /\ waiting \in Factors \cup {Nothing} /\ place.benchmark \in BOOLEAN
  BY DEF ReportTypeOK
<1>1. WithCandidates \in RegionalPages
  <2>1. waiting # Nothing => [regional EXCEPT !.factors = waiting] \in RegionalPages
    BY <1>t DEF RegionalPages
  <2> QED
    BY <1>t, <2>1, PageInputs DEF WithCandidates
<1>2. [WithCandidates EXCEPT !.analysis = @ /\ ~Switched] \in RegionalPages
  <2>1. Switched \in BOOLEAN
    BY <1>t DEF Switched, ComparisonPages
  <2> QED
    BY <1>1, <2>1 DEF RegionalPages
<1>3. ComparisonInput \in ComparisonPages
  BY <1>t DEF ComparisonInput, ComparisonPages
<1> QED
  BY <1>2, <1>3, PageInputs DEF RegionalInput

\* Final pages stay what their document shows as long as neither is touched.
LEMMA StillShown ==
    ASSUME FinalPagesAreShown, UNCHANGED <<pages, output, documents>>,
           stage' = "FINAL" => stage = "FINAL"
    PROVE  /\ FinalPagesAreShown'
           /\ PagesAreShown => PagesAreShown'
           /\ output' = output /\ documents' = documents
BY DEF FinalPagesAreShown, PagesAreShown, pages

---------------------------------------------------------------------------
(* The operations around the pages *)

\* The case, its locations and its maps change, candidates are confirmed, a
\* version is submitted or returned: pages and documents stay.
LEMMA AroundInv ==
    ASSUME ReportInv, FormalAssumption,
           \/ \E basis \in Bases : UpdateCase(basis)
           \/ \E v \in Places : UpdatePlace(v)
           \/ \E v \in Maps : UploadMap(v)
           \/ \E chosen \in Benchmarks : SelectBenchmark(chosen)
           \/ \E f \in Candidates : ConfirmCandidates(f)
           \/ Submit \/ Return
    PROVE  ReportInv'
<1>1. /\ UNCHANGED <<stage, output, pages, records>>
      /\ case' \in [basis : Bases, editable : BOOLEAN]
      /\ place' \in [values : Places, benchmark : BOOLEAN]
      /\ waiting' \in Factors \cup {Nothing} /\ maps' \in Maps
  <2>1. CASE \E basis \in Bases : UpdateCase(basis)
    BY <2>1 DEF UpdateCase, ReportInv, ReportTypeOK
  <2>2. CASE \E v \in Places : UpdatePlace(v)
    BY <2>2 DEF UpdatePlace, ReportInv, ReportTypeOK
  <2>3. CASE \E v \in Maps : UploadMap(v)
    BY <2>3 DEF UploadMap, ReportInv, ReportTypeOK
  <2>4. CASE \E chosen \in Benchmarks : SelectBenchmark(chosen)
    BY <2>4 DEF SelectBenchmark, ReportInv, ReportTypeOK, FormalAssumption
  <2>5. CASE \E f \in Candidates : ConfirmCandidates(f)
    BY <2>5 DEF ConfirmCandidates, ReportInv, ReportTypeOK, FormalAssumption
  <2>6. CASE Submit \/ Return
    BY <2>6 DEF Submit, Return, ReportInv, ReportTypeOK
  <2> QED
    BY <2>1, <2>2, <2>3, <2>4, <2>5, <2>6
<1>2. ReportTypeOK'
  BY <1>1 DEF ReportInv, ReportTypeOK, pages, records
<1>3. PriceIsCalculated'
  BY <1>1 DEF ReportInv, PriceIsCalculated, pages
<1>4. FinalPagesAreShown' /\ HandedOverIsShown'
  <2>1. /\ FinalPagesAreShown'
        /\ PagesAreShown => PagesAreShown'
        /\ output' = output /\ documents' = documents
    BY <1>1, StillShown DEF ReportInv, records
  <2>2. ~case'.editable => PagesAreShown /\ documents[output].active
    <3>1. ~case'.editable => ~case.editable \/ Submit
      BY DEF UpdateCase, UpdatePlace, UploadMap, SelectBenchmark, ConfirmCandidates, Return,
             ReportInv, ReportTypeOK
    <3> QED
      BY <3>1 DEF Submit, ReportInv, HandedOverIsShown, FinalPagesAreShown
  <2> QED
    BY <2>1, <2>2 DEF HandedOverIsShown
<1>5. OneActiveVersion' /\ OncePerRequest'
  BY <1>1 DEF ReportInv, OneActiveVersion, OncePerRequest, records
<1> QED
  BY <1>2, <1>3, <1>4, <1>5 DEF ReportInv

---------------------------------------------------------------------------
(* Updates of pages, manual values, the calculation *)

\* Nothing that writes a page leaves the pages FINAL.
LEMMA PagesInv ==
    ASSUME ReportInv, FormalAssumption,
           UpdatePage \/ SaveManual \/ Calculate
    PROVE  ReportInv'
<1>t. /\ s01 \in Values /\ regional \in RegionalPages /\ comparison \in ComparisonPages
      /\ waiting \in Factors \cup {Nothing}
      /\ place \in [values : Places, benchmark : BOOLEAN]
      /\ comparison.enabled => comparison.price = comparison.calculated
      /\ documents \in Seq(DocumentRows)
      /\ output \in 0 .. Len(documents) /\ 0 \in 0 .. Len(documents)
  BY LenProperties DEF ReportInv, ReportTypeOK, PriceIsCalculated
<1>1. /\ UNCHANGED <<case, maps, records>>
      /\ stage' \in {"DRAFT", "READY", "CHECKED"}
      /\ output' \in 0 .. Len(documents)
      /\ place' \in [values : Places, benchmark : BOOLEAN]
      /\ waiting' \in Factors \cup {Nothing}
      /\ s01' \in Values /\ regional' \in RegionalPages /\ comparison' \in ComparisonPages
      /\ comparison'.enabled => comparison'.price = comparison'.calculated
  <2>1. CASE UpdatePage
    <3>1. /\ s01' \in Values /\ regional' \in RegionalPages
          /\ comparison' \in ComparisonPages
          /\ comparison' = comparison \/ comparison'.price = comparison'.calculated
      BY <2>1, PageUpdated DEF UpdatePage, PageUpdate, ReportInv
    <3>2. stage' \in {"DRAFT", "READY", "CHECKED"}
      BY <2>1 DEF UpdatePage, Editable, Promoted, ReportInv, ReportTypeOK
    <3> QED
      BY <2>1, <3>1, <3>2, <1>t DEF UpdatePage
  <2>2. CASE SaveManual
    <3>1. CASE \E v \in Places :
                   place' = [place EXCEPT !.values = v] /\ stage' = "DRAFT" /\ UNCHANGED pages
      BY <3>1, <2>2, <1>t DEF SaveManual, pages
    <3>2. CASE /\ UNCHANGED place /\ stage' = "READY"
               /\ \/ \E v \in Values : SetS01(v)
                  \/ \E f \in Factors : SetRegional(f)
                  \/ \E t \in Targets : SetComparison(t, comparison.enabled)
      <4>1. \/ \E v \in Values : SetS01(v)
            \/ \E f \in Factors : SetRegional(f)
            \/ \E t \in Targets \cup {NoTargets}, on \in BOOLEAN : SetComparison(t, on)
        <5>1. comparison.enabled \in BOOLEAN
          BY <1>t DEF ComparisonPages
        <5> QED
          BY <3>2, <5>1
      <4>2. /\ s01' \in Values /\ regional' \in RegionalPages
            /\ comparison' \in ComparisonPages
            /\ comparison' = comparison \/ comparison'.price = comparison'.calculated
        BY <4>1, PageUpdated DEF ReportInv
      <4> QED
        BY <3>2, <4>2, <2>2, <1>t DEF SaveManual
    <3>3. CASE UNCHANGED <<place, pages>> /\ stage' = "READY"
      BY <3>3, <2>2, <1>t DEF SaveManual, pages
    <3> QED
      BY <2>2, <3>1, <3>2, <3>3 DEF SaveManual
  <2>3. CASE Calculate
    <3>1. RegionalInput \in RegionalPages /\ ComparisonInput \in ComparisonPages
      BY CalculationInputs DEF ReportInv
    <3>2. PICK r \in RegionalPages, c \in ComparisonPages : Calculated(r, c)
      BY <2>3, <3>1 DEF Calculate
    <3>3. Inputs(r, c) \in Fingerprints
      BY PageInputs DEF ReportInv
    <3>4. /\ regional' \in RegionalPages /\ comparison' \in ComparisonPages
          /\ comparison'.enabled => comparison'.price = comparison'.calculated
      BY <3>2, <3>3 DEF Calculated, Fingerprint, RegionalPages, ComparisonPages
    <3>5. stage' \in {"DRAFT", "READY", "CHECKED"}
      BY <2>3 DEF Calculate, Editable, Promoted, ReportInv, ReportTypeOK
    <3> QED
      BY <2>3, <3>4, <3>5, <1>t DEF Calculate
  <2> QED
    BY <2>1, <2>2, <2>3
<1>2. ReportTypeOK'
  BY <1>1 DEF ReportInv, ReportTypeOK, records
<1>3. PriceIsCalculated'
  BY <1>1 DEF PriceIsCalculated
<1>4. FinalPagesAreShown' /\ HandedOverIsShown'
  <2>1. case'.editable
    BY <1>1 DEF UpdatePage, SaveManual, Calculate, Editable
  <2> QED
    BY <1>1, <2>1 DEF FinalPagesAreShown, HandedOverIsShown
<1>5. OneActiveVersion' /\ OncePerRequest'
  BY <1>1 DEF ReportInv, OneActiveVersion, OncePerRequest, records
<1> QED
  BY <1>2, <1>3, <1>4, <1>5 DEF ReportInv

---------------------------------------------------------------------------
(* Validation and generation *)

\* A request that was not served is counted once.
LEMMA CountedOnce ==
    ASSUME NEW count \in [Requests -> Nat], \A q \in DOMAIN count : count[q] =< 1,
           NEW q \in Requests \cup {NoRequest}, ~Known(count, q)
    PROVE  /\ Counted(count, q) \in [Requests -> Nat]
           /\ \A r \in DOMAIN Counted(count, q) : Counted(count, q)[r] =< 1
<1>1. ASSUME NEW r \in Requests
      PROVE  /\ count[r] + (IF r = q THEN 1 ELSE 0) \in Nat
             /\ count[r] + (IF r = q THEN 1 ELSE 0) =< 1
  <2>1. count[r] \in Nat /\ count[r] =< 1
    OBVIOUS
  <2>2. r = q => ~(count[r] > 0)
    BY DEF Known
  <2> QED
    BY <2>1, <2>2
<1> QED
  BY <1>1 DEF Counted

\* A validation keeps the invariant: a repeated request makes no second one.
LEMMA ValidateInv ==
    ASSUME ReportInv, FormalAssumption,
           NEW q \in Requests \cup {NoRequest}, Validate(q)
    PROVE  ReportInv'
<1>1. validation' \in Validations
  <2>1. Current \in Fingerprints
    BY PageInputs DEF ReportInv, ReportTypeOK, Current, Fingerprint
  <2>2. Warnings \in SUBSET WarningCodes
    BY DEF Warnings
  <2> QED
    BY <2>1, <2>2 DEF Validate, Validations, ReportInv, ReportTypeOK
<1>2. ran' \in [Requests -> Nat] /\ \A r \in DOMAIN ran' : ran'[r] =< 1
  BY CountedOnce DEF Validate, ReportInv, ReportTypeOK, OncePerRequest
<1>3. ReportTypeOK'
  BY <1>1, <1>2 DEF Validate, ReportInv, ReportTypeOK, pages
<1>4. PriceIsCalculated'
  BY DEF Validate, ReportInv, PriceIsCalculated, pages
<1>5. FinalPagesAreShown' /\ HandedOverIsShown'
  BY DEF Validate, ReportInv, FinalPagesAreShown, HandedOverIsShown, PagesAreShown, pages
<1>6. OneActiveVersion'
  BY DEF Validate, ReportInv, OneActiveVersion
<1>7. OncePerRequest'
  BY <1>2 DEF Validate, ReportInv, OncePerRequest
<1> QED
  BY <1>3, <1>4, <1>5, <1>6, <1>7 DEF ReportInv

\* What the rows are, one by one.
LEMMA ReportRows ==
    ASSUME ReportTypeOK
    PROVE  /\ Len(documents) \in Nat /\ DOMAIN documents = 1 .. Len(documents)
           /\ documents \in Seq(DocumentRows)
           /\ \A i \in 1 .. Len(documents) : documents[i] \in DocumentRows
           /\ output \in 0 .. Len(documents)
BY LenProperties, ElementOfSeq DEF ReportTypeOK

\* The group of the new document is a number.
LEMMA GroupIsNumber ==
    ASSUME ReportTypeOK
    PROVE  Group \in Nat /\ NewGroup \in Nat /\ Groups \subseteq Nat
<1>1. \A i \in DOMAIN documents : documents[i].group \in Nat
  BY ReportRows DEF DocumentRows
<1>2. NewGroup \in Nat
  <2> DEFINE groups == {documents[i].group : i \in DOMAIN documents}
             f == [i \in DOMAIN documents |-> documents[i].group]
  <2>1. IsFiniteSet(DOMAIN documents)
    BY ReportRows, FS_Interval
  <2>2. f \in Surjection(DOMAIN documents, groups)
    BY DEF Surjection
  <2>3. NewGroup = Cardinality(groups) + 1
    BY DEF NewGroup
  <2> HIDE DEF f, groups
  <2>4. IsFiniteSet(groups)
    BY <2>1, <2>2, FS_Surjection
  <2> QED
    BY <2>3, <2>4, FS_CardinalityType
<1>3. CASE output # 0
  BY <1>1, <1>2, <1>3, ReportRows DEF Group, Groups
<1>4. CASE output = 0
  BY <1>1, <1>2, <1>4 DEF Group, Groups
<1> QED
  BY <1>3, <1>4

\* The pages make a content.
LEMMA ContentIsContent ==
    ASSUME ReportTypeOK
    PROVE  Content \in Contents
BY DEF ReportTypeOK, Content, Contents, RegionalPages, ComparisonPages

\* Taking a group out of force changes nothing else of the rows.
LEMMA GroupDeactivated ==
    ASSUME ReportTypeOK, NEW g \in Nat
    PROVE  /\ Deactivated(g) \in Seq(DocumentRows) /\ Len(Deactivated(g)) = Len(documents)
           /\ \A i \in 1 .. Len(documents) :
                  /\ Deactivated(g)[i] \in DocumentRows
                  /\ Deactivated(g)[i].group = documents[i].group
                  /\ Deactivated(g)[i].content = documents[i].content
                  /\ Deactivated(g)[i].uploaded = documents[i].uploaded
                  /\ Deactivated(g)[i].active => documents[i].active /\ documents[i].group # g
<1> DEFINE rows == Deactivated(g)
<1>1. \A i \in 1 .. Len(documents) :
          /\ rows[i] \in DocumentRows
          /\ rows[i].group = documents[i].group /\ rows[i].content = documents[i].content
          /\ rows[i].uploaded = documents[i].uploaded
          /\ rows[i].active => documents[i].active /\ documents[i].group # g
  BY ReportRows DEF DocumentRows, Deactivated
<1>2. rows \in [1 .. Len(documents) -> DocumentRows]
  BY ReportRows, <1>1 DEF Deactivated
<1> HIDE DEF rows
<1>3. rows \in Seq(DocumentRows) /\ Len(rows) = Len(documents)
  BY ReportRows, <1>2, SeqDef, LenProperties
<1> QED
  BY <1>1, <1>3 DEF rows

\* The version stored is the last document and in force; the others keep group
\* and content, and those of its group are no longer in force.
LEMMA Stored ==
    ASSUME ReportTypeOK, NEW version \in DocumentRows
    PROVE  /\ Store(version) \in Seq(DocumentRows)
           /\ Len(Store(version)) = Len(documents) + 1
           /\ Store(version)[Len(documents) + 1] = version
           /\ \A i \in 1 .. Len(documents) :
                  /\ Store(version)[i].group = documents[i].group
                  /\ Store(version)[i].content = documents[i].content
                  /\ Store(version)[i].uploaded = documents[i].uploaded
                  /\ Store(version)[i].active =>
                         documents[i].active /\ documents[i].group # version.group
<1> DEFINE rows == Deactivated(version.group)
<1>1. version.group \in Nat
  BY DEF DocumentRows
<1>2. Store(version) = Append(rows, version)
  BY DEF Store
<1>3. /\ rows \in Seq(DocumentRows) /\ Len(rows) = Len(documents)
      /\ \A i \in 1 .. Len(documents) :
             /\ rows[i].group = documents[i].group /\ rows[i].content = documents[i].content
             /\ rows[i].uploaded = documents[i].uploaded
             /\ rows[i].active => documents[i].active /\ documents[i].group # version.group
  BY <1>1, GroupDeactivated
<1> HIDE DEF rows
<1>4. /\ Append(rows, version) \in Seq(DocumentRows)
      /\ Len(Append(rows, version)) = Len(documents) + 1
      /\ Append(rows, version)[Len(documents) + 1] = version
      /\ \A i \in 1 .. Len(documents) : Append(rows, version)[i] = rows[i]
  BY <1>3, ReportRows, AppendProperties
<1> QED
  BY <1>2, <1>3, <1>4

\* A new version leaves one version of its group in force that no user brought
\* back.
LEMMA StoredAlone ==
    ASSUME ReportInv, NEW version \in DocumentRows, documents' = Store(version)
    PROVE  OneActiveVersion'
<1>t. ReportTypeOK /\ OneActiveVersion
  BY DEF ReportInv
<1>1. /\ documents' \in Seq(DocumentRows) /\ Len(documents') = Len(documents) + 1
      /\ documents'[Len(documents) + 1].group = version.group
      /\ \A i \in 1 .. Len(documents) :
             /\ documents'[i].group = documents[i].group
             /\ documents'[i].uploaded = documents[i].uploaded
             /\ documents'[i].active =>
                    documents[i].active /\ documents[i].group # version.group
  BY <1>t, Stored
<1>2. DOMAIN documents' = 1 .. Len(documents) + 1 /\ Len(documents) \in Nat
  BY <1>1, <1>t, ReportRows, LenProperties
<1> SUFFICES ASSUME NEW i \in 1 .. Len(documents) + 1, NEW j \in 1 .. Len(documents) + 1,
                    documents'[i].active, documents'[j].active,
                    documents'[i].group = documents'[j].group
             PROVE  i = j \/ documents'[i].uploaded \/ documents'[j].uploaded
  BY <1>2 DEF OneActiveVersion
<1>3. CASE i \in 1 .. Len(documents) /\ j \in 1 .. Len(documents)
  BY <1>3, <1>1, <1>t, ReportRows DEF OneActiveVersion
<1>4. CASE i = Len(documents) + 1 /\ j \in 1 .. Len(documents)
  BY <1>4, <1>1
<1>5. CASE j = Len(documents) + 1 /\ i \in 1 .. Len(documents)
  BY <1>5, <1>1
<1> QED
  BY <1>2, <1>3, <1>4, <1>5

\* An upload keeps the invariant: it takes place while the case is with its owner,
\* and no document changes what it shows.
LEMMA UploadInv ==
    ASSUME ReportInv, FormalAssumption, NEW bytes \in Uploads, NEW named \in Groups,
           UploadReport(bytes, named)
    PROVE  ReportInv'
<1>t. ReportTypeOK /\ OneActiveVersion /\ FinalPagesAreShown
  BY DEF ReportInv
<1>u. /\ UNCHANGED <<case, place, waiting, stage, output, s01, regional, comparison, maps,
                     validation, ran, generated>>
      /\ case.editable /\ named \in Nat /\ NewGroup \in Nat
  BY <1>t, GroupIsNumber DEF UploadReport, pages
<1>b. bytes \in Contents \cup {Nothing}
  BY <1>t, ReportRows DEF Uploads, DocumentRows
<1>1. /\ documents' \in Seq(DocumentRows) /\ Len(documents') >= Len(documents)
      /\ \A i \in 1 .. Len(documents) : documents'[i].content = documents[i].content
      /\ OneActiveVersion'
  <2>1. CASE documents' = Store(Uploaded(bytes, IF named # 0 THEN named ELSE NewGroup))
    <3>1. Uploaded(bytes, IF named # 0 THEN named ELSE NewGroup) \in DocumentRows
      BY <1>u, <1>b DEF Uploaded, DocumentRows
    <3>2. OneActiveVersion'
      BY <2>1, <3>1, StoredAlone
    <3>3. /\ documents' \in Seq(DocumentRows) /\ Len(documents') = Len(documents) + 1
          /\ \A i \in 1 .. Len(documents) : documents'[i].content = documents[i].content
      BY <2>1, <3>1, <1>t, Stored
    <3> QED
      BY <3>2, <3>3, <1>t, ReportRows
  <2>2. ASSUME NEW i \in Removed(bytes),
               documents' = [Deactivated(IF named # 0 THEN named ELSE documents[i].group)
                                 EXCEPT ![i].active = TRUE, ![i].uploaded = TRUE]
        PROVE  /\ documents' \in Seq(DocumentRows) /\ Len(documents') = Len(documents)
               /\ \A k \in 1 .. Len(documents) : documents'[k].content = documents[k].content
               /\ OneActiveVersion'
    <3> DEFINE g == IF named # 0 THEN named ELSE documents[i].group
               rows == Deactivated(g)
               back == [rows EXCEPT ![i].active = TRUE, ![i].uploaded = TRUE]
    <3>i. i \in 1 .. Len(documents) /\ g \in Nat
      BY <1>t, <1>u, ReportRows DEF Removed, DocumentRows
    <3>1. /\ rows \in Seq(DocumentRows) /\ Len(rows) = Len(documents)
          /\ \A k \in 1 .. Len(documents) :
                 /\ rows[k] \in DocumentRows
                 /\ rows[k].group = documents[k].group
                 /\ rows[k].content = documents[k].content
                 /\ rows[k].uploaded = documents[k].uploaded
                 /\ rows[k].active => documents[k].active
      BY <1>t, <3>i, GroupDeactivated
    <3>2. documents' = back
      BY <2>2
    <3> HIDE DEF g, rows
    <3>3. DOMAIN rows = 1 .. Len(documents)
      BY <3>1, LenProperties
    <3>4. \A k \in 1 .. Len(documents) :
              /\ back[k] \in DocumentRows
              /\ back[k].group = documents[k].group
              /\ back[k].content = documents[k].content
              /\ k # i => back[k].uploaded = documents[k].uploaded
              /\ k # i /\ back[k].active => documents[k].active
              /\ k = i => back[k].uploaded
      BY <3>1, <3>3, <3>i DEF DocumentRows
    <3>5. back \in [1 .. Len(documents) -> DocumentRows]
      BY <3>3, <3>4
    <3> HIDE DEF back
    <3>6. back \in Seq(DocumentRows) /\ Len(back) = Len(documents)
      BY <3>5, <1>t, ReportRows, SeqDef, LenProperties
    <3>7. OneActiveVersion'
      BY <3>2, <3>4, <3>5, <1>t, ReportRows DEF OneActiveVersion
    <3> QED
      BY <3>2, <3>4, <3>6, <3>7
  <2> QED
    <3>1. \/ documents' = Store(Uploaded(bytes, IF named # 0 THEN named ELSE NewGroup))
          \/ \E i \in Removed(bytes) :
                documents' = [Deactivated(IF named # 0 THEN named ELSE documents[i].group)
                                  EXCEPT ![i].active = TRUE, ![i].uploaded = TRUE]
      BY DEF UploadReport
    <3>2. Len(documents) \in Nat
      BY <1>t, ReportRows
    <3>3. ASSUME NEW i \in Removed(bytes),
                 documents' = [Deactivated(IF named # 0 THEN named ELSE documents[i].group)
                                   EXCEPT ![i].active = TRUE, ![i].uploaded = TRUE]
          PROVE  /\ documents' \in Seq(DocumentRows) /\ Len(documents') >= Len(documents)
                 /\ \A k \in 1 .. Len(documents) : documents'[k].content = documents[k].content
                 /\ OneActiveVersion'
      <4>1. /\ documents' \in Seq(DocumentRows) /\ Len(documents') = Len(documents)
            /\ \A k \in 1 .. Len(documents) : documents'[k].content = documents[k].content
            /\ OneActiveVersion'
        BY <2>2, <3>3
      <4> QED
        BY <4>1, <3>2
    <3>4. CASE documents' = Store(Uploaded(bytes, IF named # 0 THEN named ELSE NewGroup))
      BY <2>1, <3>4
    <3>5. CASE \E i \in Removed(bytes) :
                   documents' = [Deactivated(IF named # 0 THEN named ELSE documents[i].group)
                                     EXCEPT ![i].active = TRUE, ![i].uploaded = TRUE]
      <4>1. PICK i \in Removed(bytes) :
                documents' = [Deactivated(IF named # 0 THEN named ELSE documents[i].group)
                                  EXCEPT ![i].active = TRUE, ![i].uploaded = TRUE]
        BY <3>5
      <4> QED
        BY <4>1, <3>3
    <3> QED
      BY <3>1, <3>4, <3>5
<1>2. ReportTypeOK'
  <2>1. output' \in 0 .. Len(documents')
    <3>1. Len(documents) \in Nat /\ output \in 0 .. Len(documents)
      BY <1>t, ReportRows
    <3>2. Len(documents') \in Nat
      BY <1>1, LenProperties
    <3>3. Len(documents') >= Len(documents) /\ output' = output
      BY <1>1, <1>u
    <3> QED
      BY <3>1, <3>2, <3>3
  <2> QED
    BY <1>1, <1>u, <2>1, <1>t DEF ReportTypeOK
<1>3. PriceIsCalculated'
  BY <1>u DEF ReportInv, PriceIsCalculated
<1>4. FinalPagesAreShown' /\ HandedOverIsShown'
  <2>1. PagesAreShown => PagesAreShown'
    <3>1. output # 0 => output \in 1 .. Len(documents)
      BY <1>t, ReportRows
    <3> QED
      BY <1>1, <1>u, <3>1 DEF PagesAreShown
  <2> QED
    BY <2>1, <1>t, <1>u DEF FinalPagesAreShown, HandedOverIsShown
<1>5. OncePerRequest'
  BY <1>u DEF ReportInv, OncePerRequest
<1> QED
  BY <1>1, <1>2, <1>3, <1>4, <1>5 DEF ReportInv

\* So does the generation of a report.
LEMMA GenerateInv ==
    ASSUME ReportInv, FormalAssumption, NEW ack,
           NEW q \in Requests \cup {NoRequest}, Generate(ack, q)
    PROVE  ReportInv'
<1>t. ReportTypeOK /\ OneActiveVersion
  BY DEF ReportInv
<1>u. /\ UNCHANGED <<case, place, waiting, s01, regional, comparison, maps, validation, ran>>
      /\ stage' = "FINAL" /\ generated' = Counted(generated, q) /\ case.editable
  BY DEF Generate, Finalize, pages
<1>1. generated' \in [Requests -> Nat] /\ \A r \in DOMAIN generated' : generated'[r] =< 1
  BY <1>u, CountedOnce DEF Generate, ReportInv, ReportTypeOK, OncePerRequest
<1>2. /\ documents' \in Seq(DocumentRows) /\ output' \in 0 .. Len(documents')
      /\ output' # 0 /\ documents'[output'].content = Content
      /\ OneActiveVersion'
  <2>1. CASE \E d \in Identical : Finalize(d, q) /\ UNCHANGED documents
    BY <2>1, <1>t, ReportRows DEF Identical, Finalize, OneActiveVersion
  <2>2. CASE documents' = Store(Generated(Group)) /\ Finalize(Len(documents'), q)
    <3>1. Generated(Group) \in DocumentRows /\ Generated(Group).content = Content
      BY <1>t, GroupIsNumber, ContentIsContent DEF Generated, DocumentRows
    <3>2. /\ documents' \in Seq(DocumentRows) /\ Len(documents') = Len(documents) + 1
          /\ documents'[Len(documents) + 1].content = Content
      BY <3>1, <2>2, <1>t, Stored
    <3>3. OneActiveVersion'
      BY <3>1, <2>2, StoredAlone
    <3>4. output' = Len(documents) + 1
      BY <2>2, <3>2 DEF Finalize
    <3> QED
      BY <3>2, <3>3, <3>4, <1>t, ReportRows
  <2> QED
    BY <2>1, <2>2 DEF Generate
<1>3. ReportTypeOK'
  BY <1>1, <1>2, <1>u DEF ReportInv, ReportTypeOK
<1>4. PriceIsCalculated'
  BY <1>u DEF ReportInv, PriceIsCalculated
<1>5. FinalPagesAreShown' /\ HandedOverIsShown'
  BY <1>2, <1>u DEF FinalPagesAreShown, HandedOverIsShown, PagesAreShown, Content
<1>6. OncePerRequest'
  BY <1>1, <1>u DEF ReportInv, OncePerRequest
<1> QED
  BY <1>2, <1>3, <1>4, <1>5, <1>6 DEF ReportInv

---------------------------------------------------------------------------
(* The theorems *)

\* At first the pages are empty and nothing is stored.
LEMMA ReportInitInv ==
    ASSUME ReportInit, FormalAssumption
    PROVE  ReportInv
<1>1. ReportTypeOK
  <2>1. documents \in Seq(DocumentRows)
        /\ Len(documents) = 0
    BY DEF ReportInit
  <2>2. regional \in RegionalPages /\ comparison \in ComparisonPages
    BY DEF ReportInit, RegionalPages, ComparisonPages
  <2>3. case \in [basis : Bases, editable : BOOLEAN]
        /\ place \in [values : Places, benchmark : BOOLEAN]
    BY DEF ReportInit, FormalAssumption
  <2> QED
    BY <2>1, <2>2, <2>3 DEF ReportInit, ReportTypeOK
<1>2. PriceIsCalculated /\ FinalPagesAreShown /\ HandedOverIsShown
  BY DEF ReportInit, PriceIsCalculated, FinalPagesAreShown, HandedOverIsShown
<1>3. OneActiveVersion /\ OncePerRequest
  BY DEF ReportInit, OneActiveVersion, OncePerRequest
<1> QED
  BY <1>1, <1>2, <1>3 DEF ReportInv

\* Every operation on the report keeps the invariant.
LEMMA ReportStepInv ==
    ASSUME ReportInv, FormalAssumption, [ReportNext]_reportVars
    PROVE  ReportInv'
<1>1. CASE UNCHANGED reportVars
  <2>1. ReportTypeOK'
    BY <1>1 DEF ReportInv, ReportTypeOK, reportVars
  <2>2. PriceIsCalculated' /\ FinalPagesAreShown' /\ HandedOverIsShown'
    BY <1>1 DEF ReportInv, PriceIsCalculated, FinalPagesAreShown, HandedOverIsShown,
                PagesAreShown, reportVars
  <2>3. OneActiveVersion' /\ OncePerRequest'
    BY <1>1 DEF ReportInv, OneActiveVersion, OncePerRequest, reportVars
  <2> QED
    BY <2>1, <2>2, <2>3 DEF ReportInv
<1>2. CASE ReportNext
  BY <1>2, AroundInv, PagesInv, ValidateInv, GenerateInv, UploadInv DEF ReportNext
<1> QED
  BY <1>1, <1>2

\* The pages, the validations and the reports of a complete report fit together,
\* whatever is saved, confirmed, discarded, calculated, validated and generated.
THEOREM ReportInvariant ==
    ASSUME FormalAssumption
    PROVE  ReportSpec => []ReportInv
<1>1. ReportInit => ReportInv
  BY ReportInitInv
<1>2. ReportInv /\ [ReportNext]_reportVars => ReportInv'
  BY ReportStepInv
<1> QED
  BY <1>1, <1>2, PTL DEF ReportSpec

\* The variables have their types.
THEOREM ReportTypes ==
    ASSUME FormalAssumption
    PROVE  ReportSpec => []ReportTypeOK
<1>1. ReportInv => ReportTypeOK
  BY DEF ReportInv
<1> QED
  BY <1>1, ReportInvariant, PTL

\* A price no warning calls stale is that of the pages; final pages, and those the
\* reviewers have, are what their document shows, whatever is uploaded as a report;
\* what the reviewers have is in force; generation leaves one version in force; and
\* a request sent again makes nothing twice.
THEOREM PagesAreAlwaysTrue ==
    ASSUME FormalAssumption
    PROVE  ReportSpec => []PagesAreTrue
<1>1. ReportInv => FreshPriceIsTrue
  <2> SUFFICES ASSUME ReportInv, comparison.calculated = Current, comparison.enabled
               PROVE  /\ comparison.price # Nothing
                      /\ comparison.price.factors = regional.factors
                      /\ comparison.price.targets = comparison.targets
                      /\ comparison.price.basis = case.basis
    BY DEF FreshPriceIsTrue
  <2>1. comparison.price = Current
    BY DEF ReportInv, PriceIsCalculated
  <2>2. Current \in Fingerprints
    BY PageInputs DEF ReportInv, ReportTypeOK, Current, Fingerprint
  <2>3. comparison.price # Nothing
    BY <2>1, <2>2 DEF FormalAssumption
  <2> QED
    BY <2>1, <2>3 DEF Current, Fingerprint, Inputs
<1>2. ReportInv => PagesAreTrue
  BY <1>1 DEF ReportInv, PagesAreTrue
<1> QED
  BY <1>2, ReportInvariant, PTL

\* A generated report shows what its validation saw, whatever was changed and
\* changed back in between.
THEOREM ReportsAreOfTheirValidation ==
    ASSUME FormalAssumption
    PROVE  ReportSpec => ReportsShowWhatWasChecked
<1>1. ASSUME ReportInv, [ReportNext]_reportVars
      PROVE  [ReportIsOfItsValidation]_reportVars
  <2> SUFFICES ASSUME ReportNext, Generation
               PROVE  LET c == documents'[output'].content
                          print == validation.fingerprint
                      IN  /\ c.maps = validation.maps /\ c.basis = print.basis
                          /\ c.factors = print.factors
                          /\ c.enabled => c.targets = print.targets
    BY <1>1 DEF ReportIsOfItsValidation
  <2>1. PICK ack \in Acks, q \in Requests \cup {NoRequest} : Generate(ack, q)
    <3>1. ASSUME UNCHANGED <<stage, output>> PROVE FALSE
      BY <3>1 DEF Generation
    <3>2. ASSUME stage' \in {"DRAFT", "READY", "CHECKED"} PROVE FALSE
      BY <3>2 DEF Generation
    <3>3. ~\E basis \in Bases : UpdateCase(basis)
      BY <3>1 DEF UpdateCase
    <3>4. ~\E v \in Places : UpdatePlace(v)
      BY <3>1 DEF UpdatePlace
    <3>5. ~(\E v \in Maps : UploadMap(v)) /\ ~\E c \in Benchmarks : SelectBenchmark(c)
      BY <3>1 DEF UploadMap, SelectBenchmark
    <3>6. ~(\E f \in Candidates : ConfirmCandidates(f)) /\ ~Submit /\ ~Return
      BY <3>1 DEF ConfirmCandidates, Submit, Return
    <3>7. ~UpdatePage /\ ~Calculate
      BY <3>2, <1>1 DEF UpdatePage, Calculate, Editable, Promoted, ReportInv, ReportTypeOK
    <3>9. ~\E bytes \in Uploads, g \in Groups : UploadReport(bytes, g)
      BY <3>1 DEF UploadReport
    <3>8. ~SaveManual /\ ~\E q \in Requests \cup {NoRequest} : Validate(q)
      BY <3>2 DEF SaveManual, Validate
    <3> QED
      BY <3>3, <3>4, <3>5, <3>6, <3>7, <3>8, <3>9 DEF ReportNext
  <2>2. documents'[output'].content = Content
    <3>1. CASE \E d \in Identical : Finalize(d, q) /\ UNCHANGED documents
      BY <3>1 DEF Identical, Finalize
    <3>2. CASE documents' = Store(Generated(Group)) /\ Finalize(Len(documents'), q)
      <4>1. Generated(Group) \in DocumentRows /\ Generated(Group).content = Content
        BY <1>1, GroupIsNumber, ContentIsContent DEF ReportInv, Generated, DocumentRows
      <4>2. /\ Len(documents') = Len(documents) + 1
            /\ documents'[Len(documents) + 1].content = Content
        BY <4>1, <3>2, <1>1, Stored DEF ReportInv
      <4> QED
        BY <3>2, <4>2 DEF Finalize
    <3> QED
      BY <2>1, <3>1, <3>2 DEF Generate
  <2>3. UpToDate(validation)
    BY <2>1 DEF Generate
  <2> QED
    BY <2>2, <2>3 DEF UpToDate, Content, Current, Fingerprint, Inputs
<1> QED
  BY <1>1, ReportInvariant, PTL DEF ReportSpec, ReportsShowWhatWasChecked

---------------------------------------------------------------------------
(* The F03 form: what fits in a book *)

CalculationRows ==
    [request : RequestIds, time : Nat, inputs : Drafts, result : Nat, ready : BOOLEAN]

CheckRows ==
    [request : RequestIds, calc : Nat,
     failed : SUBSET {"F03_REQUIRED_DOCUMENTS", "F03_MINIO_OBJECTS"}]

PdfRows ==
    [request : RequestIds, inputs : Drafts, calc : Nat, run : Nat, made : Nat, result : Nat]

Books ==
    [editable : BOOLEAN, status : {"DRAFT", "READY"}, draft : Drafts \cup {Unset},
     price : Nat \cup {Unset}, covered : BOOLEAN, active : SUBSET Documents,
     readable : SUBSET Documents, calcs : Seq(CalculationRows), runs : Seq(CheckRows),
     reports : Seq(PdfRows)]

OnePerRequest(rows) ==
    \A i, j \in DOMAIN rows : rows[i].request = rows[j].request => i = j

\* Of the calculations one is the latest; one made of a submitted form is of
\* the inputs that form still has.
CalculationsFit(b) ==
    /\ OnePerRequest(b.calcs)
    /\ b.price = IF b.calcs = <<>> THEN Unset ELSE b.calcs[Len(b.calcs)].result
    /\ b.calcs # <<>> =>
          \E i \in DOMAIN b.calcs : \A j \in DOMAIN b.calcs : b.calcs[i].time >= b.calcs[j].time
    /\ \A i \in DOMAIN b.calcs :
          b.calcs[i].ready => b.status = "READY" /\ b.calcs[i].inputs = b.draft

ChecksFit(b) ==
    /\ OnePerRequest(b.runs)
    /\ \A i \in DOMAIN b.runs : b.runs[i].calc \in 0 .. Len(b.calcs)

PdfsFit(b) ==
    /\ OnePerRequest(b.reports)
    /\ \A i \in DOMAIN b.reports :
          /\ b.reports[i].calc \in 1 .. Len(b.calcs)
          /\ b.reports[i].made \in 1 .. Len(b.calcs)
          /\ b.reports[i].run \in 1 .. Len(b.runs)
          /\ b.calcs[b.reports[i].calc].ready =>
                b.reports[i].inputs = b.calcs[b.reports[i].calc].inputs
          /\ b.runs[b.reports[i].run].failed = {}
          /\ b.runs[b.reports[i].run].calc = b.reports[i].calc
          /\ \A j \in 1 .. i : b.reports[j].run =< b.reports[i].run

BookFits(b) == b \in Books /\ CalculationsFit(b) /\ ChecksFit(b) /\ PdfsFit(b)

RowsOf(b, op) ==
    CASE op = "calculate" -> b.calcs
      [] op = "validate"  -> b.runs
      [] op = "report"    -> b.reports

\* What a client was told is in the book.
Remembered ==
    \A a \in answered :
        /\ a.row \in DOMAIN RowsOf(book, a.op)
        /\ RowsOf(book, a.op)[a.row].request = a.request

FormInv ==
    /\ BookFits(book) /\ Remembered
    /\ now \in Nat
    /\ open \subseteq [op : Ops, request : RequestIds, began : Nat]
    /\ answered \subseteq [op : Ops, request : RequestIds, row : Nat \ {0}]

\* A row put at the end of a table.
LEMMA Appended ==
    ASSUME NEW S, NEW q \in Seq(S), NEW x \in S
    PROVE  /\ Append(q, x) \in Seq(S) /\ Len(Append(q, x)) = Len(q) + 1 /\ Len(q) \in Nat
           /\ DOMAIN q = 1 .. Len(q) /\ DOMAIN Append(q, x) = 1 .. Len(q) + 1
           /\ \A i \in 1 .. Len(q) : Append(q, x)[i] = q[i]
           /\ Append(q, x)[Len(q) + 1] = x
           /\ \A i \in 1 .. Len(q) : q[i] \in S
OBVIOUS

\* Its request is new.
LEMMA AppendedOnce ==
    ASSUME NEW S, NEW q \in Seq(S), NEW x \in S, OnePerRequest(q), RowOf(q, x.request) = {}
    PROVE  OnePerRequest(Append(q, x))
<1>1. \A i \in 1 .. Len(q) : q[i].request # x.request
  BY Appended DEF RowOf
<1> QED
  BY <1>1, Appended DEF OnePerRequest

\* The price of a draft is a number.
LEMMA ResultIsNumber ==
    ASSUME NEW d \in Drafts, Priceable(d)
    PROVE  Result(d) \in Nat
<1>1. /\ d.comparisonWeight \in 0 .. 2 /\ d.incomeWeight \in 0 .. 2
      /\ d.comparison \in Nat \cup {Unset} /\ d.income \in Nat \cup {Unset}
  BY DEF Drafts, Weights, Names, Whole
<1>2. ASSUME NEW p \in Nat \cup {Unset}, NEW w \in 0 .. 2
      PROVE  Amount(p, w) \in Nat
  <2>1. w = 0 \/ w = 1 \/ w = 2
    OBVIOUS
  <2> QED
    BY <2>1 DEF Amount
<1>3. Amount(d.comparison, d.comparisonWeight) \in Nat /\ Amount(d.income, d.incomeWeight) \in Nat
  BY <1>1, <1>2
<1> QED
  BY <1>3 DEF Result, Whole

---------------------------------------------------------------------------

\* The latest calculation is one of them.
LEMMA LatestIsThere ==
    ASSUME NEW b, BookFits(b)
    PROVE  /\ Latest(b) \in 0 .. Len(b.calcs)
           /\ Latest(b) = 0 <=> b.calcs = <<>>
<1>1. b.calcs \in Seq(CalculationRows)
  BY DEF BookFits, Books
<1>2. CASE b.calcs = <<>>
  BY <1>1, <1>2 DEF Latest
<1>3. CASE b.calcs # <<>>
  <2>1. Latest(b) \in DOMAIN b.calcs
    BY <1>3 DEF Latest, BookFits, CalculationsFit
  <2> QED
    BY <1>1, <1>3, <2>1
<1> QED
  BY <1>2, <1>3

\* A draft that is saved.
LEMMA DraftSaved ==
    ASSUME FormAssumption, NEW b, BookFits(b), NEW e \in Edits, SaveDraft(b, e).ok
    PROVE  /\ BookFits(SaveDraft(b, e).book)
           /\ \A op \in Ops : RowsOf(SaveDraft(b, e).book, op) = RowsOf(b, op)
<1> DEFINE old == IF b.draft = Unset THEN Blank ELSE b.draft
           d == Merged(old, e)
           c == [b EXCEPT !.draft = d]
<1>1. /\ b \in Books /\ b.status = "DRAFT" /\ SaveDraft(b, e).book = c
  BY DEF BookFits, SaveDraft, Done, Refused
<1>2. d \in Drafts
  <2>1. Blank \in Drafts
    BY DEF Blank, Drafts, Names, Weights, Whole
  <2>2. old \in Drafts
    BY <1>1, <2>1 DEF Books
  <2>3. \A n \in Names : old[n] \in Nat \cup {Unset} /\ (n \in Weights => old[n] \in 0 .. Whole)
    BY <2>2 DEF Drafts
  <2>4. \A n \in DOMAIN e : e[n] \in Nat \cup {Unset} /\ (n \in Weights => e[n] \in 0 .. Whole)
    BY DEF FormAssumption, Settings, Whole
  <2>5. Weights \subseteq Names
    BY DEF Weights, Names
  <2> HIDE DEF old
  <2>6. d \in [Names -> Nat \cup {Unset}] /\ \A n \in Weights : d[n] \in 0 .. Whole
    BY <2>3, <2>4, <2>5 DEF Merged
  <2> QED
    BY <2>6 DEF Drafts
<1> HIDE DEF d
<1>3. /\ c \in Books /\ c.draft = d /\ c.status = b.status /\ c.price = b.price
      /\ c.calcs = b.calcs /\ c.runs = b.runs /\ c.reports = b.reports
  BY <1>1, <1>2 DEF Books
<1>4. \A i \in DOMAIN b.calcs : ~b.calcs[i].ready
  BY <1>1 DEF BookFits, CalculationsFit
<1> HIDE DEF c
<1>5. CalculationsFit(c)
  BY <1>3, <1>4 DEF BookFits, CalculationsFit
<1>6. ChecksFit(c) /\ PdfsFit(c)
  BY <1>3 DEF BookFits, ChecksFit, PdfsFit
<1> QED
  BY <1>1, <1>3, <1>5, <1>6 DEF BookFits, RowsOf

\* A form that is handed in, and what changes around it.
LEMMA OtherColumns ==
    ASSUME NEW b, BookFits(b), NEW c \in Books,
           c.draft = b.draft, c.price = b.price, c.calcs = b.calcs, c.runs = b.runs,
           c.reports = b.reports, c.status = b.status \/ c.status = "READY"
    PROVE  BookFits(c) /\ \A op \in Ops : RowsOf(c, op) = RowsOf(b, op)
<1>1. CalculationsFit(c)
  BY DEF BookFits, CalculationsFit
<1>2. ChecksFit(c) /\ PdfsFit(c)
  BY DEF BookFits, ChecksFit, PdfsFit
<1> QED
  BY <1>1, <1>2 DEF BookFits, RowsOf

---------------------------------------------------------------------------

\* What a request may leave of book b: itself with no row but those it had,
\* and the row it is told of, which is of its request.
Follows(b, c, op, r, row) ==
    /\ BookFits(c)
    /\ \A o \in Ops : /\ DOMAIN RowsOf(b, o) \subseteq DOMAIN RowsOf(c, o)
                      /\ \A i \in DOMAIN RowsOf(b, o) : RowsOf(c, o)[i] = RowsOf(b, o)[i]
    /\ row \in DOMAIN RowsOf(c, op) /\ RowsOf(c, op)[row].request = r

\* A calculation.
LEMMA Calculates ==
    ASSUME NEW b, BookFits(b), NEW r \in RequestIds, NEW t \in Nat,
           NEW a, a = CalculateForm(b, r, t)
    PROVE  IF a.ok THEN Follows(b, a.book, "calculate", r, a.row) ELSE a.book = b
<1> DEFINE x == Calculation(b, r, t)
           c == CalculatedForm(b, r, t)
           n == Len(b.calcs)
<1>1. /\ b \in Books /\ b.calcs \in Seq(CalculationRows) /\ n \in Nat
      /\ DOMAIN b.calcs = 1 .. n
  BY DEF BookFits, Books
<1>2. CASE ~a.ok
  BY <1>2 DEF CalculateForm, Refused, Done
<1>3. CASE a.ok /\ RowOf(b.calcs, r) # {}
  <2>1. a.book = b /\ a.row \in RowOf(b.calcs, r)
    BY <1>3 DEF CalculateForm, Refused, Done
  <2> QED
    BY <1>3, <2>1 DEF Follows, RowsOf, RowOf
<1>4. CASE a.ok /\ RowOf(b.calcs, r) = {}
  <2>1. /\ a.book = c /\ a.row = n + 1 /\ b.draft # Unset /\ Priceable(b.draft)
    BY <1>4 DEF CalculateForm, Refused, Done
  <2>2. /\ b.draft \in Drafts /\ Result(b.draft) \in Nat
    BY <1>1, <2>1, ResultIsNumber DEF Books
  <2>3. /\ x \in CalculationRows /\ x.request = r /\ x.result = Result(b.draft)
        /\ x.ready = (b.status = "READY") /\ x.inputs = b.draft /\ x.time = t
    BY <1>1, <2>2 DEF Calculation, CalculationRows, Books
  <2>4. c = [b EXCEPT !.calcs = Append(@, x), !.price = Result(b.draft)]
    BY DEF CalculatedForm
  <2> HIDE DEF c, x
  <2>5. /\ Append(b.calcs, x) \in Seq(CalculationRows)
        /\ Len(Append(b.calcs, x)) = n + 1 /\ DOMAIN Append(b.calcs, x) = 1 .. n + 1
        /\ \A i \in 1 .. n : Append(b.calcs, x)[i] = b.calcs[i] /\ b.calcs[i] \in CalculationRows
        /\ Append(b.calcs, x)[n + 1] = x
    BY <1>1, <2>3, Appended
  <2>6. PICK q : q = Append(b.calcs, x)
    OBVIOUS
  <2>7. /\ c \in Books /\ c.calcs = q /\ c.price = Result(b.draft) /\ c.draft = b.draft
        /\ c.status = b.status /\ c.runs = b.runs /\ c.reports = b.reports
    BY <1>1, <2>2, <2>4, <2>5, <2>6 DEF Books
  <2>8. /\ DOMAIN q = 1 .. n + 1 /\ Len(q) = n + 1 /\ q[n + 1] = x
        /\ \A i \in 1 .. n : q[i] = b.calcs[i] /\ b.calcs[i] \in CalculationRows
    BY <2>5, <2>6
  <2>0. /\ \A j \in DOMAIN q : j \in 1 .. n \/ j = n + 1
        /\ 1 .. n \subseteq DOMAIN q /\ n + 1 \in DOMAIN q
        /\ q[n + 1].time = t /\ q[n + 1].ready = (b.status = "READY")
        /\ q[n + 1].inputs = b.draft
    BY <1>1, <2>3, <2>8
  <2>9. OnePerRequest(q)
    BY <1>1, <1>4, <2>3, <2>6, AppendedOnce DEF BookFits, CalculationsFit
  <2>10. \E i \in DOMAIN q : \A j \in DOMAIN q : q[i].time >= q[j].time
    <3>1. CASE b.calcs = <<>>
      <4>1. n = 0
        BY <3>1
      <4> QED
        BY <2>3, <2>8, <4>1
    <3>2. CASE b.calcs # <<>>
      <4>1. PICK i \in 1 .. n : \A j \in 1 .. n : b.calcs[i].time >= b.calcs[j].time
        BY <1>1, <3>2 DEF BookFits, CalculationsFit
      <4>2. \A j \in 1 .. n : q[j].time \in Nat
        BY <2>8 DEF CalculationRows
      <4>3. CASE q[i].time >= t
        BY <2>0, <2>8, <4>1, <4>3
      <4>4. CASE ~(q[i].time >= t)
        <5>1. \A j \in DOMAIN q : q[n + 1].time >= q[j].time
          BY <2>0, <2>8, <4>1, <4>2, <4>4
        <5> QED
          BY <2>0, <5>1
      <4> QED
        BY <4>3, <4>4
    <3> QED
      BY <3>1, <3>2
  <2>11. CalculationsFit(c)
    <3>1. q # <<>>
      BY <1>1, <2>8
    <3>2. \A i \in DOMAIN q : q[i].ready => c.status = "READY" /\ q[i].inputs = c.draft
      <4>1. \A i \in 1 .. n : b.calcs[i].ready =>
                b.status = "READY" /\ b.calcs[i].inputs = b.draft
        BY <1>1 DEF BookFits, CalculationsFit
      <4>2. \A i \in 1 .. n : q[i].ready => b.status = "READY" /\ q[i].inputs = b.draft
        BY <2>8, <4>1
      <4>3. q[n + 1].ready => b.status = "READY" /\ q[n + 1].inputs = b.draft
        BY <2>0
      <4> QED
        BY <2>0, <2>7, <4>2, <4>3
    <3> QED
      BY <2>3, <2>7, <2>8, <2>9, <2>10, <3>1, <3>2 DEF CalculationsFit
  <2>12. ChecksFit(c)
    <3>1. \A i \in DOMAIN c.runs : c.runs[i].calc \in 0 .. n
      BY <2>7 DEF BookFits, ChecksFit
    <3> QED
      BY <1>1, <2>7, <2>8, <3>1 DEF BookFits, ChecksFit
  <2>13. PdfsFit(c)
    <3>1. \A i \in DOMAIN c.reports :
              /\ c.reports[i].calc \in 1 .. n /\ c.reports[i].made \in 1 .. n
              /\ q[c.reports[i].calc] = b.calcs[c.reports[i].calc]
      BY <2>7, <2>8 DEF BookFits, PdfsFit
    <3>2. 1 .. n \subseteq 1 .. n + 1
      BY <1>1
    <3> QED
      BY <2>7, <2>8, <3>1, <3>2 DEF BookFits, PdfsFit
  <2>14. BookFits(c)
    BY <2>7, <2>11, <2>12, <2>13 DEF BookFits
  <2>15. Follows(b, c, "calculate", r, n + 1)
    <3>1. \A o \in Ops : o # "calculate" => RowsOf(c, o) = RowsOf(b, o)
      BY <2>7 DEF RowsOf, Ops
    <3>2. RowsOf(c, "calculate") = q /\ RowsOf(b, "calculate") = b.calcs
      BY <2>7 DEF RowsOf
    <3> QED
      BY <1>1, <2>0, <2>3, <2>8, <2>14, <3>1, <3>2 DEF Follows
  <2> QED
    BY <1>4, <2>1, <2>15
<1> QED
  BY <1>2, <1>3, <1>4

\* A check.
LEMMA Validates ==
    ASSUME NEW b, BookFits(b), NEW r \in RequestIds, NEW a, a = ValidateForm(b, r)
    PROVE  IF a.ok THEN Follows(b, a.book, "validate", r, a.row) ELSE a.book = b
<1> DEFINE x == CheckRun(b, r)
           c == [b EXCEPT !.runs = Append(@, x)]
           n == Len(b.runs)
<1>1. /\ b \in Books /\ b.runs \in Seq(CheckRows) /\ n \in Nat /\ DOMAIN b.runs = 1 .. n
  BY DEF BookFits, Books
<1>2. CASE ~a.ok
  BY <1>2 DEF ValidateForm, Refused, Done
<1>3. CASE a.ok /\ RowOf(b.runs, r) # {}
  <2>1. a.book = b /\ a.row \in RowOf(b.runs, r)
    BY <1>3 DEF ValidateForm, Refused, Done
  <2> QED
    BY <1>3, <2>1 DEF Follows, RowsOf, RowOf
<1>4. CASE a.ok /\ RowOf(b.runs, r) = {}
  <2>1. a.book = c /\ a.row = n + 1
    BY <1>4 DEF ValidateForm, Refused, Done
  <2>2. /\ x \in CheckRows /\ x.request = r /\ x.calc = Latest(b)
    <3>1. Failures(b) \ Optional \in SUBSET {"F03_REQUIRED_DOCUMENTS", "F03_MINIO_OBJECTS"}
      BY DEF Failures, Optional
    <3>2. Latest(b) \in Nat
      <4>1. b.calcs \in Seq(CalculationRows)
        BY <1>1 DEF Books
      <4> QED
        BY <4>1, LatestIsThere
    <3> QED
      BY <3>1, <3>2 DEF CheckRun, CheckRows
  <2> HIDE DEF x
  <2>3. /\ Append(b.runs, x) \in Seq(CheckRows)
        /\ Len(Append(b.runs, x)) = n + 1 /\ DOMAIN Append(b.runs, x) = 1 .. n + 1
        /\ \A i \in 1 .. n : Append(b.runs, x)[i] = b.runs[i]
        /\ Append(b.runs, x)[n + 1] = x
    BY <1>1, <2>2, Appended
  <2>4. PICK q : q = Append(b.runs, x)
    OBVIOUS
  <2>5. /\ c \in Books /\ c.runs = q /\ c.price = b.price /\ c.draft = b.draft
        /\ c.status = b.status /\ c.calcs = b.calcs /\ c.reports = b.reports
    BY <1>1, <2>3, <2>4 DEF Books
  <2>6. /\ DOMAIN q = 1 .. n + 1 /\ Len(q) = n + 1 /\ q[n + 1] = x
        /\ \A i \in 1 .. n : q[i] = b.runs[i]
    BY <2>3, <2>4
  <2> HIDE DEF c
  <2>7. OnePerRequest(q)
    BY <1>1, <1>4, <2>2, <2>4, AppendedOnce DEF BookFits, ChecksFit
  <2>8. CalculationsFit(c)
    BY <2>5 DEF BookFits, CalculationsFit
  <2>9. ChecksFit(c)
    <3>1. \A i \in 1 .. n : q[i].calc \in 0 .. Len(c.calcs)
      BY <1>1, <2>5, <2>6 DEF BookFits, ChecksFit
    <3>2. x.calc \in 0 .. Len(c.calcs)
      BY <2>2, <2>5, LatestIsThere
    <3>3. \A i \in DOMAIN q : i \in 1 .. n \/ i = n + 1
      BY <1>1, <2>6
    <3> QED
      BY <2>5, <2>6, <2>7, <3>1, <3>2, <3>3 DEF ChecksFit
  <2>10. PdfsFit(c)
    <3>1. \A i \in DOMAIN c.reports :
              c.reports[i].run \in 1 .. n /\ q[c.reports[i].run] = b.runs[c.reports[i].run]
      BY <2>5, <2>6 DEF BookFits, PdfsFit
    <3>2. 1 .. n \subseteq 1 .. n + 1
      BY <1>1
    <3> QED
      BY <2>5, <2>6, <3>1, <3>2 DEF BookFits, PdfsFit
  <2>11. BookFits(c)
    BY <2>5, <2>8, <2>9, <2>10 DEF BookFits
  <2>12. Follows(b, c, "validate", r, n + 1)
    <3>1. \A o \in Ops : o # "validate" => RowsOf(c, o) = RowsOf(b, o)
      BY <2>5 DEF RowsOf, Ops
    <3>2. RowsOf(c, "validate") = q /\ RowsOf(b, "validate") = b.runs
      BY <2>5 DEF RowsOf
    <3>3. 1 .. n \subseteq DOMAIN q /\ n + 1 \in DOMAIN q
      BY <1>1, <1>1, <2>2, <2>5, <2>6, <2>11
    <3> QED
      BY <1>1, <2>2, <2>5, <2>6, <2>11, <3>1, <3>2, <3>3 DEF Follows
  <2> QED
    BY <1>4, <2>1, <2>12
<1> QED
  BY <1>2, <1>3, <1>4

\* A PDF: the inputs of a form that was handed in are those of its calculation.
LEMMA Reports ==
    ASSUME NEW b, BookFits(b), NEW r \in RequestIds, NEW a, a = Report(b, r)
    PROVE  IF a.ok THEN Follows(b, a.book, "report", r, a.row) ELSE a.book = b
<1> DEFINE x == Pdf(b, r)
           c == [b EXCEPT !.reports = Append(@, x)]
           n == Len(b.reports)
<1>1. /\ b \in Books /\ b.reports \in Seq(PdfRows) /\ n \in Nat /\ DOMAIN b.reports = 1 .. n
      /\ b.calcs \in Seq(CalculationRows) /\ b.runs \in Seq(CheckRows)
  BY DEF BookFits, Books
<1>2. CASE ~a.ok
  BY <1>2 DEF Report, Refused, Done
<1>3. CASE a.ok /\ RowOf(b.reports, r) # {}
  <2>1. a.book = b /\ a.row \in RowOf(b.reports, r)
    BY <1>3 DEF Report, Refused, Done
  <2> QED
    BY <1>3, <2>1 DEF Follows, RowsOf, RowOf
<1>4. CASE a.ok /\ RowOf(b.reports, r) = {}
  <2>1. /\ a.book = c /\ a.row = n + 1 /\ b.draft # Unset /\ b.status = "READY" /\ Checked(b)
    BY <1>4 DEF Report, Refused, Done
  <2>2. /\ Latest(b) \in 1 .. Len(b.calcs) /\ Len(b.calcs) \in 1 .. Len(b.calcs)
        /\ Len(b.runs) \in 1 .. Len(b.runs)
        /\ b.runs[Len(b.runs)].failed = {} /\ b.runs[Len(b.runs)].calc = Latest(b)
    BY <1>1, <2>1, LatestIsThere DEF Checked
  <2>3. b.calcs[Latest(b)] \in CalculationRows /\ b.draft \in Drafts
    BY <1>1, <2>1, <2>2 DEF Books
  <2>4. /\ x \in PdfRows /\ x.request = r /\ x.inputs = b.draft /\ x.calc = Latest(b)
        /\ x.run = Len(b.runs) /\ x.made = Len(b.calcs)
    BY <2>2, <2>3 DEF Pdf, PdfRows, CalculationRows
  <2> HIDE DEF x
  <2>5. /\ Append(b.reports, x) \in Seq(PdfRows)
        /\ Len(Append(b.reports, x)) = n + 1 /\ DOMAIN Append(b.reports, x) = 1 .. n + 1
        /\ \A i \in 1 .. n : Append(b.reports, x)[i] = b.reports[i]
        /\ Append(b.reports, x)[n + 1] = x
    BY <1>1, <2>4, Appended
  <2>6. PICK q : q = Append(b.reports, x)
    OBVIOUS
  <2>7. /\ c \in Books /\ c.reports = q /\ c.price = b.price /\ c.draft = b.draft
        /\ c.status = b.status /\ c.calcs = b.calcs /\ c.runs = b.runs
    BY <1>1, <2>5, <2>6 DEF Books
  <2>8. /\ DOMAIN q = 1 .. n + 1 /\ Len(q) = n + 1 /\ q[n + 1] = x
        /\ \A i \in 1 .. n : q[i] = b.reports[i]
    BY <2>5, <2>6
  <2> HIDE DEF c
  <2>9. OnePerRequest(q)
    BY <1>1, <1>4, <2>4, <2>6, AppendedOnce DEF BookFits, PdfsFit
  <2>10. CalculationsFit(c) /\ ChecksFit(c)
    BY <2>7 DEF BookFits, CalculationsFit, ChecksFit
  <2>11. PdfsFit(c)
    <3>1. /\ x.calc \in 1 .. Len(b.calcs) /\ x.made \in 1 .. Len(b.calcs)
          /\ x.run \in 1 .. Len(b.runs)
          /\ b.calcs[x.calc].ready => x.inputs = b.calcs[x.calc].inputs
          /\ b.runs[x.run].failed = {} /\ b.runs[x.run].calc = x.calc
      BY <1>1, <2>2, <2>4 DEF BookFits, CalculationsFit
    <3>2. \A j \in 1 .. n : q[j].run \in 1 .. Len(b.runs)
      BY <1>1, <2>8 DEF BookFits, PdfsFit
    <3>3. \A j \in 1 .. n + 1 : q[j].run =< x.run
      <4>1. x.run \in Nat /\ \A j \in 1 .. Len(b.runs) : j =< x.run
        BY <1>1, <2>4
      <4>2. q[n + 1].run =< x.run
        BY <2>8, <4>1
      <4>3. \A j \in 1 .. n + 1 : j \in 1 .. n \/ j = n + 1
        BY <1>1
      <4> QED
        BY <3>2, <4>1, <4>2, <4>3
    <3>4. ASSUME NEW i \in 1 .. n, NEW j \in 1 .. i
          PROVE  q[j].run =< q[i].run
      <4>1. j \in 1 .. n
        BY <1>1, <3>4
      <4> QED
        BY <1>1, <2>8, <3>4, <4>1 DEF BookFits, PdfsFit
    <3>5. \A i \in DOMAIN q : i \in 1 .. n \/ i = n + 1
      BY <1>1, <2>8
    <3>6. ASSUME NEW i \in 1 .. n
          PROVE  /\ q[i].calc \in 1 .. Len(c.calcs) /\ q[i].made \in 1 .. Len(c.calcs)
                 /\ q[i].run \in 1 .. Len(c.runs)
                 /\ c.calcs[q[i].calc].ready => q[i].inputs = c.calcs[q[i].calc].inputs
                 /\ c.runs[q[i].run].failed = {} /\ c.runs[q[i].run].calc = q[i].calc
      <4>1. q[i] = b.reports[i] /\ i \in DOMAIN b.reports
        BY <1>1, <2>8
      <4>2. c.calcs = b.calcs /\ c.runs = b.runs
        BY <2>7
      <4> QED
        BY <4>1, <4>2 DEF BookFits, PdfsFit
    <3>7. q[n + 1] = x /\ c.reports = q /\ c.calcs = b.calcs /\ c.runs = b.runs
      BY <2>7, <2>8
    <3>8. ASSUME NEW i \in DOMAIN q
          PROVE  /\ q[i].calc \in 1 .. Len(c.calcs) /\ q[i].made \in 1 .. Len(c.calcs)
                 /\ q[i].run \in 1 .. Len(c.runs)
                 /\ c.calcs[q[i].calc].ready => q[i].inputs = c.calcs[q[i].calc].inputs
                 /\ c.runs[q[i].run].failed = {} /\ c.runs[q[i].run].calc = q[i].calc
      BY <3>1, <3>5, <3>6, <3>7
    <3>9. \A i \in DOMAIN q : \A j \in 1 .. i : q[j].run =< q[i].run
      BY <3>3, <3>4, <3>5, <3>7
    <3> QED
      BY <2>9, <3>7, <3>8, <3>9 DEF PdfsFit
  <2>12. BookFits(c)
    BY <2>7, <2>10, <2>11 DEF BookFits
  <2>13. Follows(b, c, "report", r, n + 1)
    <3>1. \A o \in Ops : o # "report" => RowsOf(c, o) = RowsOf(b, o)
      BY <2>7 DEF RowsOf, Ops
    <3>2. RowsOf(c, "report") = q /\ RowsOf(b, "report") = b.reports
      BY <2>7 DEF RowsOf
    <3>3. 1 .. n \subseteq DOMAIN q /\ n + 1 \in DOMAIN q
      BY <1>1, <1>1, <2>4, <2>7, <2>8, <2>12
    <3> QED
      BY <1>1, <2>4, <2>7, <2>8, <2>12, <3>1, <3>2, <3>3 DEF Follows
  <2> QED
    BY <1>4, <2>1, <2>13
<1> QED
  BY <1>2, <1>3, <1>4

---------------------------------------------------------------------------

\* Every step of the requests and of their surroundings keeps the invariant.
LEMMA FormStep ==
    ASSUME FormAssumption, FormInv, [FormNext]_formVars
    PROVE  FormInv'
<1>1. CASE UNCHANGED formVars
  BY <1>1 DEF formVars, FormInv, Remembered
<1>2. ASSUME NEW op \in Ops, NEW r \in RequestIds, Begin(op, r)
      PROVE  FormInv'
  <2>1. now' \in Nat /\ now \in Nat
    BY <1>2 DEF Begin, FormInv
  <2> QED
    BY <1>2, <2>1 DEF Begin, FormInv, Remembered
<1>3. ASSUME NEW t \in open, Finish(t)
      PROVE  FormInv'
  <2> DEFINE a == Answer(t)
  <2>1. /\ t.op \in Ops /\ t.request \in RequestIds /\ t.began \in Nat
        /\ BookFits(book)
    BY <1>3 DEF FormInv
  <2>2. IF a.ok THEN Follows(book, a.book, t.op, t.request, a.row) ELSE a.book = book
    <3>1. CASE t.op = "calculate"
      BY <2>1, <3>1, Calculates DEF Answer
    <3>2. CASE t.op = "validate"
      BY <2>1, <3>2, Validates DEF Answer
    <3>3. CASE t.op = "report"
      BY <2>1, <3>3, Reports DEF Answer
    <3> QED
      BY <2>1, <3>1, <3>2, <3>3 DEF Ops
  <2>3. /\ open' = open \ {t} /\ book' = a.book /\ now' = now
        /\ answered' = IF a.ok
                       THEN answered \cup {[op |-> t.op, request |-> t.request, row |-> a.row]}
                       ELSE answered
    BY <1>3 DEF Finish
  <2> HIDE DEF a
  <2>4. CASE ~a.ok
    BY <2>2, <2>3, <2>4 DEF FormInv, Remembered
  <2>5. CASE a.ok
    <3>1. Follows(book, book', t.op, t.request, a.row)
      BY <2>2, <2>3, <2>5
    <3>2. a.row \in Nat \ {0}
      <4>1. BookFits(book') /\ a.row \in DOMAIN RowsOf(book', t.op)
        BY <3>1 DEF Follows
      <4>2. \E S : RowsOf(book', t.op) \in Seq(S)
        BY <2>1, <4>1 DEF RowsOf, Ops, BookFits, Books
      <4> QED
        BY <4>1, <4>2
    <3>3. Remembered'
      <4> SUFFICES ASSUME NEW x \in answered'
                   PROVE  /\ x.row \in DOMAIN RowsOf(book', x.op)
                          /\ RowsOf(book', x.op)[x.row].request = x.request
        BY DEF Remembered
      <4>1. CASE x \in answered
        <5>1. /\ x.op \in Ops /\ x.row \in DOMAIN RowsOf(book, x.op)
              /\ RowsOf(book, x.op)[x.row].request = x.request
          BY <4>1 DEF FormInv, Remembered
        <5> QED
          BY <3>1, <5>1 DEF Follows
      <4>2. CASE x = [op |-> t.op, request |-> t.request, row |-> a.row]
        BY <3>1, <4>2 DEF Follows
      <4> QED
        BY <2>3, <2>5, <4>1, <4>2
    <3> QED
      BY <2>1, <2>3, <2>5, <3>1, <3>2, <3>3 DEF FormInv, Follows
  <2> QED
    BY <2>4, <2>5
<1>4. ASSUME BookFits(book'), \A op \in Ops : RowsOf(book', op) = RowsOf(book, op),
             UNCHANGED <<now, open, answered>>
      PROVE  FormInv'
  BY <1>4 DEF FormInv, Remembered
<1>5. CASE Save
  BY <1>4, <1>5, DraftSaved DEF Save, FormInv
<1>6. CASE SubmitBook
  <2>1. /\ book \in Books /\ book' = [book EXCEPT !.status = "READY"]
    BY <1>6 DEF SubmitBook, SubmitForm, Done, Refused, FormInv, BookFits
  <2>2. /\ book' \in Books /\ book'.draft = book.draft /\ book'.price = book.price
        /\ book'.calcs = book.calcs /\ book'.runs = book.runs
        /\ book'.reports = book.reports /\ book'.status = "READY"
    BY <2>1 DEF Books
  <2>3. BookFits(book') /\ \A op \in Ops : RowsOf(book', op) = RowsOf(book, op)
    BY <2>2, OtherColumns DEF FormInv
  <2> QED
    BY <1>4, <1>6, <2>3 DEF SubmitBook
<1>7. CASE Surroundings
  <2>1. book \in Books
    BY DEF FormInv, BookFits
  <2>2. /\ book' \in Books /\ book'.draft = book.draft /\ book'.price = book.price
        /\ book'.calcs = book.calcs /\ book'.runs = book.runs
        /\ book'.reports = book.reports /\ book'.status = book.status
    <3>1. CASE book' = [book EXCEPT !.editable = ~@]
      BY <2>1, <3>1 DEF Books
    <3>2. ASSUME NEW d \in Documents,
                 \/ book' = [book EXCEPT !.active = @ \ {d}]
                 \/ book' = [book EXCEPT !.readable = @ \ {d}]
          PROVE  book' \in Books
      BY <2>1, <3>2 DEF Books
    <3>3. ASSUME NEW d \in Documents,
                 book' = [book EXCEPT !.active = @ \cup {d}, !.readable = @ \cup {d}]
          PROVE  book' \in Books
      BY <2>1, <3>3 DEF Books
    <3>4. CASE book' = [book EXCEPT !.covered = ~@]
      BY <2>1, <3>4 DEF Books
    <3>5. book' \in Books
      BY <1>7, <3>1, <3>2, <3>3, <3>4 DEF Surroundings
    <3> QED
      BY <1>7, <2>1, <3>5 DEF Surroundings, Books
  <2>3. BookFits(book') /\ \A op \in Ops : RowsOf(book', op) = RowsOf(book, op)
    BY <2>2, OtherColumns DEF FormInv
  <2> QED
    BY <1>4, <1>7, <2>3 DEF Surroundings
<1> QED
  BY <1>1, <1>2, <1>3, <1>5, <1>6, <1>7 DEF FormNext

\* The invariant gives what the clients and the readers of the form rely on.
LEMMA FormAddsUp ==
    ASSUME FormInv
    PROVE  ReportsAddUp
<1>1. ASSUME NEW rows \in {book.calcs, book.runs, book.reports}, NEW r \in RequestIds
      PROVE  Cardinality({i \in DOMAIN rows : rows[i].request = r}) =< 1
  <2> DEFINE same == {i \in DOMAIN rows : rows[i].request = r}
  <2>1. OnePerRequest(rows)
    BY DEF FormInv, BookFits, CalculationsFit, ChecksFit, PdfsFit
  <2>2. CASE same = {}
    BY <2>2, FS_EmptySet
  <2>3. CASE same # {}
    <3>1. PICK i \in same : same = {i}
      BY <2>1, <2>3 DEF OnePerRequest
    <3> HIDE DEF same
    <3>2. Cardinality(same) = 1
      BY <3>1, FS_Singleton
    <3> QED
      BY <3>2 DEF same
  <2> QED
    BY <2>2, <2>3
<1>2. \A a, b \in answered : a.op = b.op /\ a.request = b.request => a.row = b.row
  <2> SUFFICES ASSUME NEW a \in answered, NEW b \in answered, a.op = b.op,
                      a.request = b.request
               PROVE  a.row = b.row
    OBVIOUS
  <2>1. /\ a.op \in Ops /\ a.row \in DOMAIN RowsOf(book, a.op)
        /\ b.row \in DOMAIN RowsOf(book, a.op)
        /\ RowsOf(book, a.op)[a.row].request = RowsOf(book, a.op)[b.row].request
    BY DEF FormInv, Remembered
  <2>2. OnePerRequest(RowsOf(book, a.op))
    BY <2>1 DEF FormInv, BookFits, CalculationsFit, ChecksFit, PdfsFit, RowsOf, Ops
  <2> QED
    BY <2>1, <2>2 DEF OnePerRequest
<1>3. OneRowPerRequest
  BY <1>1, <1>2 DEF OneRowPerRequest
<1>4. PriceIsLastResult
  BY DEF FormInv, BookFits, CalculationsFit, PriceIsLastResult
<1>5. SubmittedReportsAddUp /\ ReportsRestOnTheirCheck
  BY DEF FormInv, BookFits, PdfsFit, SubmittedReportsAddUp, ReportsRestOnTheirCheck
<1> QED
  BY <1>3, <1>4, <1>5 DEF ReportsAddUp

\* An empty book fits.
LEMMA FormStart ==
    ASSUME FormInit
    PROVE  FormInv
<1>1. NewBook \in Books
  BY DEF NewBook, Books
<1>2. BookFits(NewBook)
  BY <1>1 DEF BookFits, NewBook, CalculationsFit, ChecksFit, PdfsFit, OnePerRequest
<1> QED
  BY <1>2 DEF FormInit, FormInv, Remembered

\* However often requests to the F03 form are sent and whatever changes around
\* it, each has one calculation, one check and one PDF, the draft has the price
\* of the last calculation, and a PDF is of a calculation that was checked.
THEOREM FormReportsAddUp ==
    ASSUME FormAssumption
    PROVE  FormSpec => []ReportsAddUp
<1>1. FormInit => FormInv
  BY FormStart
<1>2. FormInv /\ [FormNext]_formVars => FormInv'
  BY FormStep
<1>3. FormInv => ReportsAddUp
  BY FormAddsUp
<1> QED
  BY <1>1, <1>2, <1>3, PTL DEF FormSpec
================================================================================
