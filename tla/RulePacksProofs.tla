---------------------------- MODULE RulePacksProofs ----------------------------
(***************************************************************************)
(* Proofs about RulePacks.  For any number of editors, versions, contents  *)
(* and days: every source of a version has its object, no file is uploaded *)
(* twice to a version, levels cover the declared uses, and what is         *)
(* published is complete.  No row is locked; what the proofs rest on is    *)
(* that the orders of the sources of a version have no gaps, so that the   *)
(* unique constraint on them refuses whoever read the sources too early,   *)
(* and that dates, imports and published sources are never taken back.     *)
(***************************************************************************)
EXTENDS RulePacks, SequenceTheorems, FiniteSetTheorems, TLAPS

Works(w) == w.pc \notin {"ended", "error"}

\* The sources w would have been compared with are of other contents.
Compared(w) ==
    \A x \in SourcesOf(w.rule) : x.order < w.order => documents[x.document].bytes # w.bytes

\* What a session remembers is still so, or too old to be inserted.
Fits(w) ==
    Works(w) =>
        /\ w.pc = "put" => w.op \in {"create", "add"}
        /\ w.op = "create" =>
              /\ w.order = 1 /\ w.rule # 0
              /\ w.pc = "write" /\ w.key = 0 => w.document \in DOMAIN documents
        /\ w.op \in Ops \ {"create"} => w.rule \in DOMAIN rules
        /\ w.op \in {"add", "link"} => w.order \in 1 .. NextOrder(w.rule)
        /\ w.op = "link" => w.key = 0 /\ w.document \in DOMAIN documents
        /\ w.op = "add" /\ w.pc # "put" => w.key # 0
        /\ w.op = "add" /\ w.pc = "write" => Compared(w)
        /\ w.op = "import" => Covering(w.rule, w.new)
        /\ w.op = "publish" =>
              /\ rules[w.rule].import # "SOURCE_UPLOADED" /\ rules[w.rule].period # Unknown
              /\ w.pc = "write" =>
                    \E x \in sources :
                        x.rule = w.rule /\ x.role = "FORMAL" /\ x.document \in w.docs

SessionsFit == \A s \in Sessions : Fits(session[s])

\* The objects of documents and of sessions are there, each of its own.
ObjectsKept ==
    /\ \A d \in DOMAIN documents : documents[d].key \in store
    /\ \A s \in Sessions : session[s].key # 0 =>
          /\ session[s].key \in store
          /\ \A d \in DOMAIN documents : documents[d].key # session[s].key
          /\ \A t \in Sessions : t # s => session[t].key # session[s].key

\* Sources are of versions and documents that exist.
SourcesExist == \A x \in sources : x.rule \in DOMAIN rules /\ x.document \in DOMAIN documents

\* The orders of the sources of r have no gap and no end above their number.
Dense(r) ==
    /\ IsFiniteSet(SourcesOf(r))
    /\ \A x \in SourcesOf(r) : x.order \in 1 .. Cardinality(SourcesOf(r))
    /\ \A n \in 1 .. Cardinality(SourcesOf(r)) : \E x \in SourcesOf(r) : x.order = n

OrdersDense == \A r \in Nat : Dense(r)

\* No level is of a use that its version does not declare.
LevelsInUses == \A r \in DOMAIN rules : levels[r] \subseteq Factors \X rules[r].uses

\* What a published version has; it stays while levels and dates are replaced.
Backed(r) ==
    /\ rules[r].import # "SOURCE_UPLOADED" /\ rules[r].period # Unknown
    /\ \E x \in sources :
          x.rule = r /\ x.role = "FORMAL" /\ documents[x.document].published

VersionsBacked == \A r \in Published : Backed(r)

Typed == TypeOK /\ lastKey \in Nat

IInv ==
    /\ Typed
    /\ SessionsFit
    /\ ObjectsKept
    /\ SourcesExist
    /\ OrdersDense
    /\ UploadsAreNew
    /\ LevelsInUses
    /\ LevelsCoverUses
    /\ VersionsBacked

---------------------------------------------------------------------------
(* Helpers *)

LEMMA DraftType ==
    ASSUME NEW U \in SUBSET Uses, NEW p \in Periods \cup {Unknown}
    PROVE  /\ Draft(U, p) \in VersionRows /\ Draft(U, p).import = "SOURCE_UPLOADED"
           /\ Draft(U, p).status = "DRAFT" /\ Draft(U, p).uses = U
BY DEF Draft, VersionRows

LEMMA BlankType ==
    ASSUME RuleAssumption
    PROVE  /\ Blank \in SessionStates /\ Blank.pc = "ended" /\ Blank.key = 0
           /\ Blank.document = 0
<1>1. (CHOOSE b \in Bytes : TRUE) \in Bytes
  BY DEF RuleAssumption
<1>2. Unknown \in Periods \cup {Unknown} /\ "OTHER" \in Roles
  BY DEF Roles
<1>3. Draft({}, Unknown) \in VersionRows
  BY DraftType
<1> QED  BY <1>1, <1>2, <1>3 DEF Blank, SessionStates

\* The next order is one above the number of sources.
LEMMA NextOrderType ==
    ASSUME IInv, NEW r \in Nat
    PROVE  /\ Cardinality(SourcesOf(r)) \in Nat
           /\ NextOrder(r) = Cardinality(SourcesOf(r)) + 1
           /\ NextOrder(r) \in Nat \ {0}
<1>1. IsFiniteSet(SourcesOf(r))
  BY DEF IInv, OrdersDense, Dense
<1>2. Cardinality(SourcesOf(r)) \in Nat
  BY <1>1, FS_CardinalityType
<1> QED  BY <1>2 DEF NextOrder

\* The domains of the tables.
LEMMA Domains ==
    ASSUME IInv
    PROVE  /\ DOMAIN rules = 1 .. Len(rules) /\ Len(rules) \in Nat
           /\ DOMAIN rules \subseteq Nat \ {0}
           /\ DOMAIN documents = 1 .. Len(documents) /\ Len(documents) \in Nat
           /\ levels \in Seq(SUBSET (Factors \X Uses)) /\ Len(levels) = Len(rules)
<1>1. rules \in Seq(VersionRows) /\ documents \in Seq(Documents)
  BY DEF IInv, Typed, TypeOK
<1>2. levels \in [1 .. Len(rules) -> SUBSET (Factors \X Uses)]
  BY <1>1 DEF IInv, Typed, TypeOK
<1>3. levels \in Seq(SUBSET (Factors \X Uses)) /\ Len(levels) = Len(rules)
  BY <1>1, <1>2
<1> QED  BY <1>1, <1>3

\* What a session remembers has its types.
LEMMA Remembers ==
    ASSUME IInv, NEW s \in Sessions
    PROVE  /\ session[s] \in SessionStates /\ Fits(session[s])
           /\ session[s].rule \in Nat /\ session[s].order \in Nat
           /\ session[s].document \in Nat /\ session[s].key \in Nat
           /\ session[s].bytes \in Bytes /\ session[s].role \in Roles
           /\ session[s].uses \in SUBSET Uses
           /\ session[s].period \in Periods \cup {Unknown}
           /\ session[s].new \in SUBSET (Factors \X Uses)
           /\ session[s].seen \in SUBSET (Factors \X Uses)
           /\ session[s].docs \in SUBSET Nat /\ session[s].row \in VersionRows
<1>1. session[s] \in SessionStates /\ Fits(session[s])
  BY DEF IInv, Typed, TypeOK, SessionsFit
<1> QED  BY <1>1 DEF SessionStates

\* What the tables say of a version.
LEMMA OfVersion ==
    ASSUME IInv, NEW r \in DOMAIN rules
    PROVE  /\ rules[r] \in VersionRows /\ levels[r] \subseteq Factors \X rules[r].uses
           /\ rules[r].import # "SOURCE_UPLOADED" => {l[2] : l \in levels[r]} = rules[r].uses
BY DEF IInv, Typed, TypeOK, LevelsInUses, LevelsCoverUses

\* A session takes another state and nothing else changes.
LEMMA Moves ==
    ASSUME IInv, NEW s \in Sessions, NEW w \in SessionStates, Unchanged,
           session' = [session EXCEPT ![s] = w], Fits(w), w.key \in {0, session[s].key}
    PROVE  IInv'
<1>1. /\ session \in [Sessions -> SessionStates]
      /\ session'[s] = w /\ \A t \in Sessions : t # s => session'[t] = session[t]
      /\ session' \in [Sessions -> SessionStates]
  BY DEF IInv, Typed, TypeOK
<1>2. /\ rules' = rules /\ levels' = levels /\ sources' = sources
      /\ documents' = documents /\ store' = store /\ lastKey' = lastKey
  BY DEF Unchanged
<1>3. Typed'
  BY <1>1, <1>2 DEF IInv, Typed, TypeOK
<1>4. \A t \in Sessions : session'[t].key # 0 => session'[t].key = session[t].key
  BY <1>1
<1>5. ObjectsKept'
  BY <1>2, <1>4 DEF IInv, ObjectsKept
<1>6. SessionsFit'
  <2>1. \A t \in Sessions : Fits(session'[t])
    BY <1>1 DEF IInv, SessionsFit
  <2>2. SUFFICES ASSUME NEW t \in Sessions PROVE Fits(session[t])'
    BY DEF SessionsFit
  <2>3. Fits(session'[t])
    BY <2>1
  <2> QED
    BY <2>3, <1>2, SMTT(30)
    DEF Fits, Works, Compared, SourcesOf, NextOrder, Covering
<1>7. SourcesExist' /\ OrdersDense' /\ UploadsAreNew' /\ LevelsInUses' /\ LevelsCoverUses'
      /\ VersionsBacked'
  BY <1>2 DEF IInv, SourcesExist, OrdersDense, Dense, SourcesOf, UploadsAreNew,
              LevelsInUses, LevelsCoverUses, VersionsBacked, Backed, Published
<1> QED  BY <1>3, <1>5, <1>6, <1>7 DEF IInv

\* A session that ends or fails fits.
LEMMA EndsFit ==
    ASSUME RuleAssumption
    PROVE  /\ Fits(Blank)
           /\ \A op \in Ops \cup {"none"} :
                /\ [Blank EXCEPT !.op = op, !.pc = "error"] \in SessionStates
                /\ [Blank EXCEPT !.op = op, !.pc = "error"].key = 0
                /\ [Blank EXCEPT !.op = op, !.pc = "error"].pc = "error"
                /\ Fits([Blank EXCEPT !.op = op, !.pc = "error"])
<1>1. Fits(Blank)
  BY BlankType DEF Fits, Works
<1>2. ASSUME NEW op \in Ops \cup {"none"}
      PROVE  /\ [Blank EXCEPT !.op = op, !.pc = "error"] \in SessionStates
             /\ [Blank EXCEPT !.op = op, !.pc = "error"].key = 0
             /\ [Blank EXCEPT !.op = op, !.pc = "error"].pc = "error"
  BY BlankType DEF SessionStates
<1>3. ASSUME NEW op \in Ops \cup {"none"}
      PROVE  Fits([Blank EXCEPT !.op = op, !.pc = "error"])
  BY <1>2 DEF Fits, Works
<1> QED  BY <1>1, <1>2, <1>3
---------------------------------------------------------------------------
(* A session begins *)

\* A new version: nothing of it is there yet.
LEMMA CreateKeeps ==
    ASSUME RuleAssumption, IInv, NEW s \in Sessions, NEW b \in Bytes,
           NEW U \in SUBSET Uses, NEW p \in Periods \cup {Unknown}, Create(s, b, U, p)
    PROVE  IInv'
<1> DEFINE w == [Blank EXCEPT !.op = "create", !.rule = Len(rules) + 1, !.pc = "put",
                    !.bytes = b, !.uses = U, !.period = p,
                    !.role = "PRIMARY", !.order = 1]
<1>1. session' = [session EXCEPT ![s] = w] /\ Unchanged
  BY DEF Create, Begins
<1>2. Len(rules) + 1 \in Nat /\ Len(rules) + 1 # 0
  BY Domains
<1>3. w \in SessionStates /\ w.key = 0
  BY <1>2, BlankType DEF SessionStates, Ops, Roles
<1>4. /\ w.op = "create" /\ w.pc = "put" /\ w.order = 1
      /\ w.rule = Len(rules) + 1
  BY BlankType DEF SessionStates
<1> HIDE DEF w
<1>5. Fits(w)
  BY <1>2, <1>4 DEF Fits
<1> QED  BY <1>1, <1>3, <1>5, Moves

\* A new version whose source exists.
LEMMA CreateFromExistingKeeps ==
    ASSUME RuleAssumption, IInv, NEW s \in Sessions, NEW d \in DOMAIN documents,
           NEW U \in SUBSET Uses, NEW p \in Periods \cup {Unknown},
           CreateFromExisting(s, d, U, p)
    PROVE  IInv'
<1> DEFINE w == [Blank EXCEPT !.op = "create", !.rule = Len(rules) + 1, !.pc = "write",
                    !.document = d, !.uses = U, !.period = p,
                    !.role = "PRIMARY", !.order = 1]
<1>1. session' = [session EXCEPT ![s] = w] /\ Unchanged
  BY DEF CreateFromExisting, Begins
<1>2. Len(rules) + 1 \in Nat /\ Len(rules) + 1 # 0 /\ d \in Nat
  BY Domains
<1>3. w \in SessionStates /\ w.key = 0
  BY <1>2, BlankType DEF SessionStates, Ops, Roles
<1>4. /\ w.op = "create" /\ w.pc = "write" /\ w.order = 1
      /\ w.rule = Len(rules) + 1 /\ w.document = d
  BY BlankType DEF SessionStates
<1> HIDE DEF w
<1>5. Fits(w)
  BY <1>2, <1>4 DEF Fits
<1> QED  BY <1>1, <1>3, <1>5, Moves

\* A new source with a file: the order it reads is the next.
LEMMA AddSourceKeeps ==
    ASSUME RuleAssumption, IInv, NEW s \in Sessions, NEW r \in DOMAIN rules,
           NEW b \in Bytes, NEW role \in Roles, AddSource(s, r, b, role)
    PROVE  IInv'
<1> DEFINE w == [Blank EXCEPT !.op = "add", !.rule = r, !.pc = "put",
                   !.bytes = b, !.role = role, !.order = NextOrder(r)]
<1>1. session' = [session EXCEPT ![s] = w] /\ Unchanged
  BY DEF AddSource, Begin, Begins
<1>2. r \in Nat /\ NextOrder(r) \in Nat \ {0}
  BY Domains, NextOrderType
<1>3. w \in SessionStates /\ w.key = 0
  BY <1>2, BlankType DEF SessionStates, Ops
<1>4. /\ w.op = "add" /\ w.pc = "put" /\ w.order = NextOrder(r) /\ w.rule = r
  BY BlankType DEF SessionStates
<1> HIDE DEF w
<1>5. Fits(w)
  BY <1>2, <1>4 DEF Fits
<1> QED  BY <1>1, <1>3, <1>5, Moves

\* A document becomes a source.
LEMMA LinkSourceKeeps ==
    ASSUME RuleAssumption, IInv, NEW s \in Sessions, NEW r \in DOMAIN rules,
           NEW d \in DOMAIN documents, NEW role \in Roles, LinkSource(s, r, d, role)
    PROVE  IInv'
<1> DEFINE w == [Blank EXCEPT !.op = "link", !.rule = r, !.pc = "write",
                   !.document = d, !.role = role, !.order = NextOrder(r)]
<1>1. session' = [session EXCEPT ![s] = w] /\ Unchanged
  BY DEF LinkSource, Begin, Begins
<1>2. r \in Nat /\ NextOrder(r) \in Nat \ {0} /\ d \in Nat
  BY Domains, NextOrderType
<1>3. w \in SessionStates /\ w.key = 0
  BY <1>2, BlankType DEF SessionStates, Ops
<1>4. /\ w.op = "link" /\ w.pc = "write" /\ w.order = NextOrder(r) /\ w.rule = r
      /\ w.document = d
  BY BlankType DEF SessionStates
<1> HIDE DEF w
<1>5. Fits(w)
  BY <1>2, <1>3, <1>4 DEF Fits
<1> QED  BY <1>1, <1>3, <1>5, Moves

\* A date, an import, an extraction or a publication begins.
LEMMA EditBegins ==
    ASSUME RuleAssumption, IInv, NEW s \in Sessions, NEW r \in DOMAIN rules,
           \/ \E p \in Periods : ConfirmDate(s, r, p)
           \/ \E new \in SUBSET (Factors \X Uses) : Import(s, r, new)
           \/ Extract(s, r) \/ Publish(s, r)
    PROVE  IInv'
<1>1. r \in Nat /\ rules[r] \in VersionRows
  BY Domains, OfVersion
<1>2. ASSUME NEW p \in Periods, ConfirmDate(s, r, p)
      PROVE  IInv'
  <2> DEFINE w == [Blank EXCEPT !.op = "confirm", !.rule = r, !.pc = "write", !.period = p,
                    !.row = rules[r]]
  <2>1. session' = [session EXCEPT ![s] = w] /\ Unchanged
    BY <1>2 DEF ConfirmDate, Begin, Begins
  <2>2. w \in SessionStates /\ w.key = 0
    BY <1>1, BlankType DEF SessionStates, Ops
  <2>3. w.op = "confirm" /\ w.pc = "write" /\ w.rule = r
    BY BlankType DEF SessionStates
  <2> HIDE DEF w
  <2>4. Fits(w)
    BY <2>3 DEF Fits
  <2> QED  BY <2>1, <2>2, <2>4, Moves
<1>3. ASSUME NEW new \in SUBSET (Factors \X Uses), Import(s, r, new)
      PROVE  IInv'
  <2> DEFINE w == [Blank EXCEPT !.op = "import", !.rule = r, !.pc = "read", !.new = new,
                    !.row = rules[r]]
  <2>1. session' = [session EXCEPT ![s] = w] /\ Unchanged /\ Covering(r, new)
    BY <1>3 DEF Import, Begin, Begins
  <2>2. w \in SessionStates /\ w.key = 0
    BY <1>1, BlankType DEF SessionStates, Ops
  <2>3. w.op = "import" /\ w.pc = "read" /\ w.rule = r /\ w.new = new
    BY BlankType DEF SessionStates
  <2> HIDE DEF w
  <2>4. Fits(w)
    BY <2>1, <2>3 DEF Fits
  <2> QED  BY <2>1, <2>2, <2>4, Moves
<1>4. ASSUME Extract(s, r)
      PROVE  IInv'
  <2> DEFINE w == [Blank EXCEPT !.op = "extract", !.rule = r, !.pc = "write"]
  <2>1. session' = [session EXCEPT ![s] = w] /\ Unchanged
    BY <1>4 DEF Extract, Begin, Begins
  <2>2. w \in SessionStates /\ w.key = 0
    BY <1>1, BlankType DEF SessionStates, Ops
  <2>3. w.op = "extract" /\ w.pc = "write" /\ w.rule = r
    BY BlankType DEF SessionStates
  <2> HIDE DEF w
  <2>4. Fits(w)
    BY <2>3 DEF Fits
  <2> QED  BY <2>1, <2>2, <2>4, Moves
<1>5. ASSUME Publish(s, r)
      PROVE  IInv'
  <2> DEFINE w == [Blank EXCEPT !.op = "publish", !.rule = r, !.pc = "read",
                    !.row = rules[r]]
  <2>1. /\ session' = [session EXCEPT ![s] = w] /\ Unchanged
        /\ rules[r].import = "IMPORTED" /\ rules[r].period # Unknown
    BY <1>5 DEF Publish, Begin, Begins
  <2>2. w \in SessionStates /\ w.key = 0
    BY <1>1, BlankType DEF SessionStates, Ops
  <2>3. w.op = "publish" /\ w.pc = "read" /\ w.rule = r
    BY BlankType DEF SessionStates
  <2> HIDE DEF w
  <2>4. Fits(w)
    BY <2>1, <2>3 DEF Fits
  <2> QED  BY <2>1, <2>2, <2>4, Moves
<1> QED  BY <1>2, <1>3, <1>4, <1>5

---------------------------------------------------------------------------
(* A session goes on, and no row changes *)

\* A session ends or fails by itself.
LEMMA EndKeeps ==
    ASSUME RuleAssumption, IInv, NEW s \in Sessions, Unchanged, End(s) \/ Error(s)
    PROVE  IInv'
<1>1. CASE End(s)
  <2>1. session' = [session EXCEPT ![s] = Blank]
    BY <1>1 DEF End
  <2> QED  BY <2>1, BlankType, EndsFit, Moves
<1>2. CASE Error(s)
  <2>1. session[s].op \in Ops \cup {"none"}
    BY Remembers DEF SessionStates
  <2> DEFINE w == [Blank EXCEPT !.op = session[s].op, !.pc = "error"]
  <2>2. session' = [session EXCEPT ![s] = w]
    BY <1>2 DEF Error
  <2>3. w \in SessionStates /\ w.key = 0 /\ Fits(w)
    BY <2>1, EndsFit
  <2> QED  BY <2>2, <2>3, Moves
<1> QED  BY <1>1, <1>2

\* The comparison covers all sources below the order that was read.
LEMMA CompareKeeps ==
    ASSUME RuleAssumption, IInv, NEW s \in Sessions, Compare(s)
    PROVE  IInv'
<1> DEFINE old == session[s]
           pc == IF SameBytes(old.rule, old.bytes) = {} THEN "write" ELSE "undo"
           w == [old EXCEPT !.pc = pc]
<1>1. old \in SessionStates /\ Fits(old) /\ old.op = "add" /\ old.pc = "read" /\ Unchanged
  BY Remembers DEF Compare
<1>2. session' = [session EXCEPT ![s] = w]
  BY <1>1 DEF Compare, Goto, IInv, Typed, TypeOK
<1>3. /\ w \in SessionStates /\ w.pc = pc /\ w.op = "add" /\ w.key = old.key
      /\ w.rule = old.rule /\ w.order = old.order /\ w.bytes = old.bytes
  BY <1>1 DEF SessionStates
<1>4. pc \in {"write", "undo"} /\ (pc = "write" => SameBytes(old.rule, old.bytes) = {})
  OBVIOUS
<1>5. Works(old)
  BY <1>1 DEF Works
<1> HIDE DEF w, pc, old
<1>6. w.pc = "write" => Compared(w)
  BY <1>3, <1>4 DEF Compared, SameBytes
<1>7. Fits(w)
  BY <1>1, <1>3, <1>4, <1>5, <1>6 DEF Fits, Ops
<1> QED  BY <1>1, <1>2, <1>3, <1>7, Moves DEF old

\* The levels an import will replace are those its statement saw.
LEMMA DeleteLevelsKeeps ==
    ASSUME RuleAssumption, IInv, NEW s \in Sessions, DeleteLevels(s)
    PROVE  IInv'
<1> DEFINE old == session[s]
           w == [old EXCEPT !.pc = "write", !.seen = levels[old.rule]]
<1>1. old \in SessionStates /\ Fits(old) /\ old.op = "import" /\ old.pc = "read" /\ Unchanged
  BY Remembers DEF DeleteLevels
<1>2. session' = [session EXCEPT ![s] = w]
  BY <1>1 DEF DeleteLevels, IInv, Typed, TypeOK
<1>3. Works(old) /\ old.rule \in DOMAIN rules
  BY <1>1 DEF Works, Fits, Ops
<1>4. levels[old.rule] \in SUBSET (Factors \X Uses)
  BY <1>3 DEF IInv, Typed, TypeOK
<1>5. /\ w \in SessionStates /\ w.pc = "write" /\ w.op = "import" /\ w.key = old.key
      /\ w.rule = old.rule /\ w.new = old.new
  BY <1>1, <1>4 DEF SessionStates
<1> HIDE DEF w, old
<1>6. Fits(w)
  BY <1>1, <1>3, <1>5 DEF Fits
<1> QED  BY <1>1, <1>2, <1>5, <1>6, Moves DEF old

\* What is found fit for publication is remembered.
LEMMA CheckPublishKeeps ==
    ASSUME RuleAssumption, IInv, NEW s \in Sessions, CheckPublish(s)
    PROVE  IInv'
<1> DEFINE old == session[s]
           r == old.rule
           w == [old EXCEPT !.pc = "write", !.docs = {x.document : x \in SourcesOf(r)}]
<1>1. /\ old \in SessionStates /\ Fits(old) /\ old.op = "publish" /\ old.pc = "read"
      /\ Unchanged
  BY Remembers DEF CheckPublish
<1>2. CASE ~Publishable(r, old.row)
  BY <1>1, <1>2, EndKeeps DEF CheckPublish
<1>3. CASE Publishable(r, old.row)
  <2>1. session' = [session EXCEPT ![s] = w]
    BY <1>1, <1>3 DEF CheckPublish, IInv, Typed, TypeOK
  <2>2. {x.document : x \in SourcesOf(r)} \in SUBSET Nat
    BY DEF SourcesOf, IInv, Typed, TypeOK, Sources
  <2>3. /\ w \in SessionStates /\ w.pc = "write" /\ w.op = "publish" /\ w.key = old.key
        /\ w.rule = old.rule /\ w.docs = {x.document : x \in SourcesOf(r)}
    BY <1>1, <2>2 DEF SessionStates
  <2>4. Works(old)
    BY <1>1 DEF Works
  <2>5. \E x \in sources : x.rule = w.rule /\ x.role = "FORMAL" /\ x.document \in w.docs
    <3>1. PICK x \in SourcesOf(r) : x.role = "FORMAL"
      BY <1>3 DEF Publishable
    <3>2. x \in sources /\ x.rule = r
      BY DEF SourcesOf
    <3>3. x.document \in w.docs
      BY <2>3
    <3> QED  BY <2>3, <3>1, <3>2, <3>3
  <2> HIDE DEF w, old
  <2>6. Fits(w)
    BY <1>1, <2>3, <2>4, <2>5 DEF Fits
  <2> QED  BY <1>1, <2>1, <2>3, <2>6, Moves DEF old
<1> QED  BY <1>2, <1>3
---------------------------------------------------------------------------
(* Rows change *)

\* Versions, documents and sources stay, and a new source comes after the others.
Grows ==
    /\ sources \subseteq sources'
    /\ \A r \in DOMAIN rules :
          /\ r \in DOMAIN rules' /\ rules'[r].uses = rules[r].uses
          /\ rules[r].import # "SOURCE_UPLOADED" => rules'[r].import # "SOURCE_UPLOADED"
          /\ rules[r].period # Unknown => rules'[r].period # Unknown
          /\ NextOrder(r)' \in Nat /\ NextOrder(r) <= NextOrder(r)'
    /\ \A d \in DOMAIN documents :
          /\ d \in DOMAIN documents'
          /\ documents'[d].bytes = documents[d].bytes /\ documents'[d].key = documents[d].key
          /\ documents[d].published => documents'[d].published
    /\ \A y \in sources' \ sources :
          y.rule \in DOMAIN rules => y.order \in Nat /\ y.order >= NextOrder(y.rule)

\* What a session remembers fits while the rows grow: its order is taken or its
\* comparison is complete.
LEMMA FitsWhileGrowing ==
    ASSUME IInv, Grows, NEW w \in SessionStates, Fits(w)
    PROVE  Fits(w)'
<1> SUFFICES ASSUME Works(w) PROVE Fits(w)'
  BY DEF Fits, Works
<1>1. CASE w.op = "create"
  BY <1>1 DEF Fits, Grows, Ops
<1>2. CASE w.op \in {"add", "link"}
  <2>1. w.rule \in DOMAIN rules /\ w.order \in 1 .. NextOrder(w.rule)
    BY <1>2 DEF Fits, Ops
  <2>2. NextOrder(w.rule) \in Nat
    BY <2>1, Domains, NextOrderType
  <2>3. w.order \in 1 .. NextOrder(w.rule)' /\ w.rule \in DOMAIN rules'
    BY <2>1, <2>2 DEF Grows
  <2>4. ASSUME Compared(w)
        PROVE  Compared(w)'
    <3> SUFFICES ASSUME NEW x \in sources', x.rule = w.rule, x.order < w.order
                 PROVE  documents'[x.document].bytes # w.bytes
      BY DEF Compared, SourcesOf
    <3>1. x \in sources
      <4> SUFFICES ASSUME x \notin sources PROVE FALSE
        OBVIOUS
      <4>1. x.order \in Nat /\ x.order >= NextOrder(w.rule)
        BY <2>1 DEF Grows
      <4> QED  BY <4>1, <2>1, <2>2
    <3>2. x \in SourcesOf(w.rule) /\ x.document \in DOMAIN documents
      BY <3>1 DEF SourcesOf, IInv, SourcesExist
    <3> QED  BY <3>2, <2>4 DEF Compared, Grows
  <2> QED  BY <1>2, <2>3, <2>4 DEF Fits, Grows
<1>3. CASE w.op \notin {"create", "add", "link"}
  <2>1. w.op = "import" => Covering(w.rule, w.new)'
    BY DEF Fits, Grows, Covering, Ops
  <2> QED  BY <1>3, <2>1 DEF Fits, Grows, Ops
<1> QED  BY <1>1, <1>2, <1>3

\* What a published version has, it keeps.
LEMMA BackedStays ==
    ASSUME IInv, Grows, NEW r \in Published
    PROVE  Backed(r)'
<1>1. r \in DOMAIN rules /\ Backed(r)
  BY DEF IInv, VersionsBacked, Published
<1>2. PICK x \in sources : x.rule = r /\ x.role = "FORMAL" /\ documents[x.document].published
  BY <1>1 DEF Backed
<1>3. x \in sources' /\ x.document \in DOMAIN documents
  BY DEF Grows, IInv, SourcesExist
<1> QED  BY <1>1, <1>2, <1>3 DEF Backed, Grows

\* The session that makes the step ends.
LEMMA OthersFit ==
    ASSUME RuleAssumption, IInv, NEW s \in Sessions, Grows, End(s)
    PROVE  /\ SessionsFit'
           /\ session' \in [Sessions -> SessionStates]
           /\ session'[s] = Blank
           /\ \A t \in Sessions : t # s => session'[t] = session[t]
<1>1. /\ session' \in [Sessions -> SessionStates] /\ session'[s] = Blank
      /\ \A t \in Sessions : t # s => session'[t] = session[t]
  BY BlankType DEF End, IInv, Typed, TypeOK
<1>2. \A t \in Sessions : t # s => Fits(session[t])'
  <2> SUFFICES ASSUME NEW t \in Sessions, t # s PROVE Fits(session[t])'
    OBVIOUS
  <2>1. PICK w \in SessionStates : w = session[t] /\ Fits(w)
    BY Remembers
  <2>2. Fits(w)'
    BY <2>1, FitsWhileGrowing
  <2>3. session'[t] = w
    BY <1>1, <2>1
  <2> QED
    BY <2>2, <2>3, SMTT(30)
    DEF Fits, Works, Compared, SourcesOf, NextOrder, Covering
<1>3. Fits(session[s])'
  BY <1>1, BlankType DEF Fits, Works
<1> QED  BY <1>1, <1>2, <1>3 DEF SessionsFit
\* The key of a session is not that of a document, nor of another session; the
\* session that ends has none.
LEMMA ObjectsStay ==
    ASSUME RuleAssumption, IInv, NEW s \in Sessions, store' = store,
           session'[s] = Blank,
           \A t \in Sessions : t # s => session'[t] = session[t],
           \A d \in DOMAIN documents' :
              \/ d \in DOMAIN documents /\ documents'[d].key = documents[d].key
              \/ session[s].key # 0 /\ documents'[d].key = session[s].key
    PROVE  ObjectsKept'
<1>1. session'[s].key = 0
  BY BlankType
<1>2. /\ \A d \in DOMAIN documents : documents[d].key \in store
      /\ \A u \in Sessions : session[u].key # 0 =>
            /\ session[u].key \in store
            /\ \A d \in DOMAIN documents : documents[d].key # session[u].key
            /\ \A t \in Sessions : t # u => session[t].key # session[u].key
  BY DEF IInv, ObjectsKept
<1>3. \A d \in DOMAIN documents' : documents'[d].key \in store'
  BY <1>2
<1>4. ASSUME NEW u \in Sessions, session'[u].key # 0
      PROVE  /\ session'[u].key \in store'
             /\ \A d \in DOMAIN documents' : documents'[d].key # session'[u].key
             /\ \A t \in Sessions : t # u => session'[t].key # session'[u].key
  <2>1. u # s /\ session'[u] = session[u]
    BY <1>1, <1>4
  <2> QED  BY <1>1, <1>2, <1>4, <2>1
<1> QED  BY <1>3, <1>4 DEF ObjectsKept

\* A source is inserted with the next order, and its document if it is new.
LEMMA Inserts ==
    ASSUME RuleAssumption, IInv, NEW s \in Sessions,
           Works(session[s]), session[s].pc = "write",
           session[s].op \in {"add", "link", "create"},
           session[s].order = NextOrder(session[s].rule),
           session[s].key # 0 =>
              \A x \in SourcesOf(session[s].rule) : documents[x.document].bytes # session[s].bytes,
           InsertSource(s), End(s), UNCHANGED <<store, lastKey>>,
           \A r \in DOMAIN rules : r \in DOMAIN rules' /\ rules'[r] = rules[r],
           session[s].rule \in DOMAIN rules'
    PROVE  /\ documents' \in Seq(Documents) /\ sources' \subseteq Sources
           /\ SessionsFit' /\ ObjectsKept' /\ SourcesExist' /\ OrdersDense' /\ UploadsAreNew'
           /\ session' \in [Sessions -> SessionStates] /\ Grows
<1>0. PICK w \in SessionStates : w = session[s] /\ Fits(w)
  BY Remembers
<1> DEFINE rule == w.rule
           N == Cardinality(SourcesOf(rule))
           d == IF w.key = 0 THEN w.document ELSE Len(documents) + 1
           row == [bytes |-> w.bytes, key |-> w.key, published |-> FALSE]
<1>1. /\ rule \in Nat /\ w.order \in Nat /\ w.document \in Nat /\ w.key \in Nat
      /\ w.bytes \in Bytes /\ w.role \in Roles
      /\ Works(w) /\ w.pc = "write" /\ w.op \in {"add", "link", "create"}
      /\ w.order = NextOrder(rule)
  BY <1>0 DEF SessionStates
<1>2. DOMAIN documents = 1 .. Len(documents) /\ Len(documents) \in Nat
  BY Domains
<1>3. N \in Nat /\ w.order = N + 1
  BY <1>1, NextOrderType
<1>4. PICK y : y = NewSource(s, d) /\ sources' = sources \cup {y}
  BY <1>0 DEF InsertSource
<1>5. documents' = IF w.key = 0 THEN documents ELSE Append(documents, row)
  BY <1>0 DEF InsertSource
<1>6. /\ y.rule = rule /\ y.order = w.order /\ y.document = d /\ y.role = w.role
      /\ y.uploaded = (w.key # 0)
      /\ y \in [rule : {rule}, order : {w.order}, document : {d}, role : {w.role},
               uploaded : BOOLEAN]
  BY <1>0, <1>4 DEF NewSource
<1>7. w.key = 0 => w.document \in DOMAIN documents
  BY <1>0, <1>1 DEF Fits, Ops
<1>8. /\ documents \in Seq(Documents) /\ sources \subseteq Sources
      /\ row \in Documents /\ row.bytes = w.bytes /\ row.key = w.key
  BY <1>1 DEF IInv, Typed, TypeOK, Documents
<1> HIDE DEF rule, d, row, N
<1>9. /\ documents' \in Seq(Documents)
      /\ d \in DOMAIN documents'
      /\ \A i \in DOMAIN documents : i \in DOMAIN documents' /\ documents'[i] = documents[i]
      /\ \A i \in DOMAIN documents' : i \in DOMAIN documents \/ (w.key # 0 /\ documents'[i] = row)
      /\ w.key # 0 => documents'[d] = row
  <2>1. CASE w.key = 0
    BY <2>1, <1>5, <1>7, <1>8 DEF d
  <2>2. CASE w.key # 0
    <3>1. documents' = Append(documents, row) /\ d = Len(documents) + 1
      BY <2>2, <1>5 DEF d
    <3>2. /\ Append(documents, row) \in Seq(Documents)
          /\ Len(Append(documents, row)) = Len(documents) + 1
          /\ \A i \in 1 .. Len(documents) : Append(documents, row)[i] = documents[i]
          /\ Append(documents, row)[Len(documents) + 1] = row
      BY <1>8, AppendProperties
    <3>3. DOMAIN documents' = 1 .. Len(documents) + 1
      BY <3>1, <3>2
    <3>4. \A i \in DOMAIN documents' : i \in DOMAIN documents \/ i = Len(documents) + 1
      BY <3>3, <1>2
    <3> QED  BY <2>2, <3>1, <3>2, <3>3, <3>4, <1>2
  <2> QED  BY <2>1, <2>2
<1>10. sources' \subseteq Sources
  <2>1. d \in Nat
    BY <1>1, <1>2 DEF d
  <2>2. y \in Sources
    BY <2>1, <1>1, <1>6 DEF Sources
  <2> QED  BY <2>2, <1>4, <1>8
<1>11. SourcesExist'
  <2>1. y.rule \in DOMAIN rules'
    BY <1>0, <1>6 DEF rule
  <2>2. \A x \in sources : x.rule \in DOMAIN rules' /\ x.document \in DOMAIN documents'
    BY <1>9 DEF IInv, SourcesExist
  <2> QED  BY <2>1, <2>2, <1>4, <1>6, <1>9 DEF SourcesExist
<1>12. y \notin sources
  <2> SUFFICES ASSUME y \in sources PROVE FALSE
    OBVIOUS
  <2>1. y \in SourcesOf(rule)
    BY <1>6 DEF SourcesOf
  <2>2. y.order \in 1 .. N
    BY <2>1, <1>1 DEF IInv, OrdersDense, Dense, N
  <2> QED  BY <2>2, <1>3, <1>6
<1>13. SourcesOf(rule)' = SourcesOf(rule) \cup {y}
       /\ \A r : r # rule => SourcesOf(r)' = SourcesOf(r)
  <2>1. {x \in sources' : x.rule = rule} = {x \in sources : x.rule = rule} \cup {y}
    BY <1>4, <1>6
  <2>2. \A r : r # rule => {x \in sources' : x.rule = r} = {x \in sources : x.rule = r}
    BY <1>4, <1>6
  <2> QED  BY <2>1, <2>2 DEF SourcesOf
<1>14. NextOrder(rule)' = N + 2 /\ Cardinality(SourcesOf(rule))' = N + 1 /\ Dense(rule)'
  <2>1. IsFiniteSet(SourcesOf(rule)) /\ y \notin SourcesOf(rule)
    BY <1>1, <1>12 DEF IInv, OrdersDense, Dense, SourcesOf
  <2>2. /\ IsFiniteSet(SourcesOf(rule) \cup {y})
        /\ Cardinality(SourcesOf(rule) \cup {y}) = N + 1
    BY <2>1, FS_AddElement DEF N
  <2>3. \A x \in SourcesOf(rule) : x.order \in 1 .. N
    BY <1>1 DEF IInv, OrdersDense, Dense, N
  <2>4. \A n \in 1 .. N : \E x \in SourcesOf(rule) : x.order = n
    BY <1>1 DEF IInv, OrdersDense, Dense, N
  <2>5. \A x \in SourcesOf(rule) \cup {y} : x.order \in 1 .. N + 1
    BY <2>3, <1>3, <1>6
  <2>6. \A n \in 1 .. N + 1 : \E x \in SourcesOf(rule) \cup {y} : x.order = n
    BY <2>4, <1>3, <1>6
  <2>7. (N + 1) + 1 = N + 2
    BY <1>3
  <2> QED  BY <2>2, <2>5, <2>6, <2>7, <1>13 DEF Dense, NextOrder
<1>15. OrdersDense'
  <2> SUFFICES ASSUME NEW r \in Nat, r # rule PROVE Dense(r)'
    BY <1>14 DEF OrdersDense
  <2>1. Dense(r) /\ SourcesOf(r)' = SourcesOf(r)
    BY <1>13 DEF IInv, OrdersDense
  <2> QED  BY <2>1 DEF Dense
<1>16. Grows
  <2>1. \A r \in DOMAIN rules : NextOrder(r)' \in Nat /\ NextOrder(r) <= NextOrder(r)'
    <3> SUFFICES ASSUME NEW r \in DOMAIN rules
                 PROVE  NextOrder(r)' \in Nat /\ NextOrder(r) <= NextOrder(r)'
      OBVIOUS
    <3>1. r \in Nat /\ NextOrder(r) \in Nat
      BY Domains, NextOrderType
    <3>2. CASE r = rule
      BY <3>1, <3>2, <1>1, <1>3, <1>14
    <3>3. CASE r # rule
      BY <3>1, <3>3, <1>13 DEF NextOrder
    <3> QED  BY <3>2, <3>3
  <2>2. \A x \in sources' \ sources : x.order \in Nat /\ x.order >= NextOrder(x.rule)
    <3>1. \A x \in sources' \ sources : x = y
      BY <1>4
    <3>2. y.order \in Nat /\ y.order = NextOrder(rule)
      BY <1>1, <1>6
    <3>3. y.order >= NextOrder(y.rule)
      BY <3>2, <1>6
    <3> QED  BY <3>1, <3>2, <3>3
  <2> QED  BY <2>1, <2>2, <1>4, <1>9 DEF Grows
<1>17. /\ SessionsFit' /\ session' \in [Sessions -> SessionStates] /\ session'[s] = Blank
       /\ \A t \in Sessions : t # s => session'[t] = session[t]
  BY <1>16, OthersFit
<1>18. ObjectsKept'
  <2>1. \A i \in DOMAIN documents' :
            \/ i \in DOMAIN documents /\ documents'[i].key = documents[i].key
            \/ session[s].key # 0 /\ documents'[i].key = session[s].key
    BY <1>0, <1>8, <1>9
  <2> QED  BY <2>1, <1>17, ObjectsStay
<1>19. UploadsAreNew'
  <2> SUFFICES ASSUME NEW a \in sources', NEW b \in sources', a.rule = b.rule,
                      a.order < b.order, b.uploaded
               PROVE  documents'[a.document].bytes # documents'[b.document].bytes
    BY DEF UploadsAreNew
  <2>1. \A x \in sources : x.document \in DOMAIN documents /\ documents'[x.document] = documents[x.document]
    BY <1>9 DEF IInv, SourcesExist
  <2>2. \A x \in sources : x.rule = rule => x.order \in 1 .. N
    BY <1>1 DEF IInv, OrdersDense, Dense, N, SourcesOf
  <2>3. CASE a \in sources /\ b \in sources
    BY <2>1, <2>3 DEF IInv, UploadsAreNew
  <2>4. CASE a = y
    <3>1. b.order \in 1 .. N \/ b = y
      BY <2>2, <2>4, <1>4, <1>6
    <3> QED  BY <3>1, <2>4, <1>3, <1>6
  <2>5. CASE a \in sources /\ b = y
    <3>1. w.key # 0 /\ a \in SourcesOf(rule)
      BY <2>5, <1>6 DEF SourcesOf
    <3>2. documents[a.document].bytes # w.bytes
      BY <3>1, <1>0 DEF rule
    <3>3. documents'[b.document] = row
      BY <3>1, <2>5, <1>6, <1>9
    <3> QED  BY <3>2, <3>3, <2>1, <2>5, <1>8
  <2> QED  BY <2>3, <2>4, <2>5, <1>4
<1> QED  BY <1>9, <1>10, <1>11, <1>15, <1>16, <1>17, <1>18, <1>19
\* A source is added, unless its order is taken.
LEMMA AddRowKeeps ==
    ASSUME RuleAssumption, IInv, NEW s \in Sessions, AddRow(s)
    PROVE  IInv'
<1>1. PICK w \in SessionStates : w = session[s] /\ Fits(w)
  BY Remembers
<1>2. w.op \in {"add", "link"} /\ w.pc = "write" /\ Works(w)
  BY <1>1 DEF AddRow, Works
<1>3. w.rule \in DOMAIN rules /\ w.rule \in Nat /\ w.order \in 1 .. NextOrder(w.rule)
  BY <1>1, <1>2, Domains DEF Fits, Ops
<1>4. UNCHANGED <<rules, levels, store, lastKey>>
  BY DEF AddRow
<1>5. CASE Insertable(s)
  <2>1. InsertSource(s) /\ End(s)
    BY <1>5 DEF AddRow
  <2> DEFINE N == Cardinality(SourcesOf(w.rule))
  <2>2. N \in Nat /\ NextOrder(w.rule) = N + 1
    BY <1>3, NextOrderType
  <2>3. w.order \notin 1 .. N
    BY <1>1, <1>3, <1>5 DEF Insertable, IInv, OrdersDense, Dense
  <2>4. w.order = NextOrder(w.rule)
    <3> HIDE DEF N
    <3> QED  BY <1>3, <2>2, <2>3
  <2>5. ASSUME w.key # 0
        PROVE  \A x \in SourcesOf(w.rule) : documents[x.document].bytes # w.bytes
    <3>1. Compared(w)
      BY <1>1, <1>2, <2>5 DEF Fits
    <3>2. \A x \in SourcesOf(w.rule) : x.order \in 1 .. N
      BY <1>3 DEF IInv, OrdersDense, Dense
    <3> HIDE DEF N
    <3>3. \A x \in SourcesOf(w.rule) : x.order < w.order
      BY <3>2, <2>2, <2>4
    <3> QED  BY <3>1, <3>3 DEF Compared
  <2>6. /\ documents' \in Seq(Documents) /\ sources' \subseteq Sources
        /\ SessionsFit' /\ ObjectsKept' /\ SourcesExist' /\ OrdersDense' /\ UploadsAreNew'
        /\ session' \in [Sessions -> SessionStates] /\ Grows
    BY <1>1, <1>2, <1>3, <1>4, <2>1, <2>4, <2>5, Inserts
  <2>7. VersionsBacked'
    <3>1. Published' = Published
      BY <1>4 DEF Published
    <3> QED  BY <2>6, <3>1, BackedStays DEF VersionsBacked
  <2> QED
    BY <2>6, <2>7, <1>4 DEF IInv, Typed, TypeOK, LevelsInUses, LevelsCoverUses
<1>6. CASE ~Insertable(s)
  <2>1. Unchanged
    BY <1>4, <1>6 DEF AddRow, Unchanged
  <2>2. CASE w.key = 0
    BY <1>1, <1>6, <2>1, <2>2, EndKeeps DEF AddRow
  <2>3. CASE w.key # 0
    <3> DEFINE v == [w EXCEPT !.pc = "undo"]
    <3>1. session' = [session EXCEPT ![s] = v]
      BY <1>1, <1>6, <2>3 DEF AddRow, Goto, IInv, Typed, TypeOK
    <3>2. /\ v \in SessionStates /\ v.pc = "undo" /\ v.op = w.op /\ v.key = w.key
          /\ v.rule = w.rule /\ v.order = w.order /\ v.document = w.document
      BY <1>1 DEF SessionStates
    <3> HIDE DEF v
    <3>3. Fits(v)
      BY <1>1, <1>2, <3>2 DEF Fits
    <3> QED  BY <1>1, <2>1, <3>1, <3>2, <3>3, Moves
  <2> QED  BY <2>2, <2>3
<1> QED  BY <1>5, <1>6

\* A version is created with its first source, unless its number is taken.
LEMMA CreateRowKeeps ==
    ASSUME RuleAssumption, IInv, NEW s \in Sessions, CreateRow(s)
    PROVE  IInv'
<1>1. PICK w \in SessionStates : w = session[s] /\ Fits(w)
  BY Remembers
<1>2. w.op = "create" /\ w.pc = "write" /\ Works(w) /\ w.order = 1 /\ w.rule # 0
  BY <1>1 DEF CreateRow, Works, Fits
<1>3. UNCHANGED <<store, lastKey>>
  BY DEF CreateRow
<1>4. /\ rules \in Seq(VersionRows) /\ DOMAIN rules = 1 .. Len(rules) /\ Len(rules) \in Nat
      /\ levels \in Seq(SUBSET (Factors \X Uses)) /\ Len(levels) = Len(rules)
  BY Domains DEF IInv, Typed, TypeOK
<1>5. CASE w.rule = Len(rules) + 1
  <2> DEFINE rule == Draft(w.uses, w.period)
  <2>1. /\ rules' = Append(rules, rule) /\ levels' = Append(levels, {})
        /\ InsertSource(s) /\ End(s)
    BY <1>1, <1>5 DEF CreateRow
  <2>2. rule \in VersionRows /\ rule.import = "SOURCE_UPLOADED" /\ rule.status = "DRAFT"
    BY DraftType DEF SessionStates
  <2> HIDE DEF rule
  <2>3. /\ rules' \in Seq(VersionRows) /\ Len(rules') = Len(rules) + 1
        /\ \A i \in 1 .. Len(rules) : rules'[i] = rules[i]
        /\ rules'[Len(rules) + 1] = rule
    BY <1>4, <2>1, <2>2, AppendProperties
  <2>4. /\ levels' \in Seq(SUBSET (Factors \X Uses)) /\ Len(levels') = Len(rules) + 1
        /\ \A i \in 1 .. Len(rules) : levels'[i] = levels[i]
        /\ levels'[Len(rules) + 1] = {}
    BY <1>4, <2>1, AppendProperties
  <2>5. /\ DOMAIN rules' = 1 .. Len(rules) + 1
        /\ \A r \in DOMAIN rules : r \in DOMAIN rules' /\ rules'[r] = rules[r]
        /\ w.rule \in DOMAIN rules'
    BY <1>4, <1>5, <2>3
  <2>6. levels' \in [DOMAIN rules' -> SUBSET (Factors \X Uses)]
    BY <2>4, <2>5
  <2>7. SourcesOf(w.rule) = {} /\ w.order = NextOrder(w.rule)
    <3>1. w.rule \notin DOMAIN rules
      BY <1>4, <1>5
    <3>2. SourcesOf(w.rule) = {}
      BY <3>1 DEF SourcesOf, IInv, SourcesExist
    <3> QED  BY <3>2, <1>2, FS_EmptySet DEF NextOrder
  <2>8. /\ documents' \in Seq(Documents) /\ sources' \subseteq Sources
        /\ SessionsFit' /\ ObjectsKept' /\ SourcesExist' /\ OrdersDense' /\ UploadsAreNew'
        /\ session' \in [Sessions -> SessionStates] /\ Grows
    BY <1>1, <1>2, <1>3, <2>1, <2>5, <2>7, Inserts
  <2>9. Typed'
    BY <1>3, <2>3, <2>6, <2>8 DEF IInv, Typed, TypeOK
  <2>10. ASSUME NEW r \in DOMAIN rules'
         PROVE  /\ levels'[r] \subseteq Factors \X rules'[r].uses
                /\ rules'[r].import # "SOURCE_UPLOADED" =>
                      {l[2] : l \in levels'[r]} = rules'[r].uses
    <3>1. CASE r = Len(rules) + 1
      BY <3>1, <2>2, <2>3, <2>4
    <3>2. CASE r \in 1 .. Len(rules)
      <4>1. levels'[r] = levels[r] /\ rules'[r] = rules[r] /\ r \in DOMAIN rules
        BY <3>2, <1>4, <2>3, <2>4
      <4> QED  BY <4>1 DEF IInv, LevelsInUses, LevelsCoverUses
    <3> QED  BY <3>1, <3>2, <2>5, <1>4
  <2>11. VersionsBacked'
    <3>1. Published' = Published
      BY <1>4, <2>2, <2>3, <2>5 DEF Published
    <3> QED  BY <2>8, <3>1, BackedStays DEF VersionsBacked
  <2> QED  BY <2>8, <2>9, <2>10, <2>11 DEF IInv, LevelsInUses, LevelsCoverUses
<1>6. CASE w.rule # Len(rules) + 1
  <2>1. Unchanged
    BY <1>1, <1>3, <1>6 DEF CreateRow, Unchanged
  <2>2. CASE w.key = 0
    BY <1>1, <1>6, <2>1, <2>2, EndKeeps DEF CreateRow
  <2>3. CASE w.key # 0
    <3> DEFINE v == [w EXCEPT !.pc = "undo"]
    <3>1. session' = [session EXCEPT ![s] = v]
      BY <1>1, <1>6, <2>3 DEF CreateRow, Goto, IInv, Typed, TypeOK
    <3>2. /\ v \in SessionStates /\ v.pc = "undo" /\ v.op = w.op /\ v.key = w.key
          /\ v.rule = w.rule /\ v.order = w.order
      BY <1>1 DEF SessionStates
    <3> HIDE DEF v
    <3>3. Fits(v)
      BY <1>1, <1>2, <3>2 DEF Fits
    <3> QED  BY <1>1, <2>1, <3>1, <3>2, <3>3, Moves
  <2> QED  BY <2>2, <2>3
<1> QED  BY <1>5, <1>6
\* A key that was never used before is stored.
LEMMA PutKeeps ==
    ASSUME RuleAssumption, IInv, NEW s \in Sessions, Put(s)
    PROVE  IInv'
<1>1. PICK w \in SessionStates : w = session[s] /\ Fits(w)
  BY Remembers
<1> DEFINE pc == IF w.op = "add" THEN "read" ELSE "write"
           v == [w EXCEPT !.pc = pc, !.key = lastKey + 1]
<1>2. /\ w.pc = "put" /\ Works(w) /\ w.op \in {"create", "add"}
      /\ lastKey \in Nat /\ lastKey' = lastKey + 1 /\ store' = store \cup {lastKey + 1}
      /\ UNCHANGED <<rules, levels, sources, documents>>
  BY <1>1 DEF Put, Works, Fits, IInv, Typed
<1>3. session' = [session EXCEPT ![s] = v]
  BY <1>1 DEF Put, IInv, Typed, TypeOK
<1>4. /\ pc = IF w.op = "add" THEN "read" ELSE "write"
      /\ pc \in {"read", "write"} /\ lastKey + 1 \in Nat
  BY <1>2
<1> HIDE DEF pc
<1>5. /\ v \in SessionStates /\ v.pc = pc /\ v.op = w.op /\ v.key = lastKey + 1
      /\ v.rule = w.rule /\ v.order = w.order
  BY <1>4 DEF SessionStates
<1> HIDE DEF v
<1>6. Fits(v)
  BY <1>1, <1>2, <1>4, <1>5 DEF Fits, Ops
<1>7. /\ session' \in [Sessions -> SessionStates] /\ session'[s] = v
      /\ \A t \in Sessions : t # s => session'[t] = session[t]
  BY <1>3, <1>5 DEF IInv, Typed, TypeOK
<1>8. store \subseteq 1 .. lastKey /\ lastKey + 1 \notin store
  BY <1>2 DEF IInv, Typed, TypeOK
<1>9. Typed'
  <2>1. store' \subseteq 1 .. lastKey'
    BY <1>2, <1>8
  <2> QED  BY <2>1, <1>2, <1>7 DEF IInv, Typed, TypeOK
<1>10. SessionsFit'
  <2>1. \A t \in Sessions : Fits(session'[t])
    BY <1>6, <1>7 DEF IInv, SessionsFit
  <2>2. SUFFICES ASSUME NEW t \in Sessions PROVE Fits(session[t])'
    BY DEF SessionsFit
  <2>3. Fits(session'[t])
    BY <2>1
  <2> QED
    BY <2>3, <1>2, SMTT(30)
    DEF Fits, Works, Compared, SourcesOf, NextOrder, Covering
<1>11. ObjectsKept'
  <2>1. \A d \in DOMAIN documents : documents[d].key \in store
    BY DEF IInv, ObjectsKept
  <2>2. \A t \in Sessions : t # s /\ session[t].key # 0 => session[t].key \in store
    BY DEF IInv, ObjectsKept
  <2>3. session'[s].key = lastKey + 1
    BY <1>5, <1>7
  <2>4. \A t \in Sessions : t # s /\ session'[t].key # 0 =>
            /\ session'[t].key \in store
            /\ session'[t].key = session[t].key
    BY <2>2, <1>7
  <2>5. ASSUME NEW u \in Sessions, session'[u].key # 0
        PROVE  /\ session'[u].key \in store'
               /\ \A d \in DOMAIN documents' : documents'[d].key # session'[u].key
               /\ \A t \in Sessions : t # u => session'[t].key # session'[u].key
    <3>1. CASE u = s
      <4>1. \A t \in Sessions : t # u => session'[t].key # session'[u].key
        <5> SUFFICES ASSUME NEW t \in Sessions, t # u,
                            session'[t].key = session'[u].key
                     PROVE  FALSE
          OBVIOUS
        <5> QED  BY <2>3, <2>4, <2>5, <3>1, <1>8
      <4> QED  BY <2>1, <2>3, <3>1, <4>1, <1>2, <1>8
    <3>2. CASE u # s
      <4>1. session'[u].key \in store /\ session'[u].key = session[u].key
        BY <2>4, <2>5, <3>2
      <4>2. /\ \A d \in DOMAIN documents : documents[d].key # session[u].key
            /\ \A t \in Sessions : t # u => session[t].key # session[u].key
        BY <2>5, <4>1 DEF IInv, ObjectsKept
      <4> QED  BY <4>1, <4>2, <2>3, <1>2, <1>7, <1>8
    <3> QED  BY <3>1, <3>2
  <2>6. \A d \in DOMAIN documents' : documents'[d].key \in store'
    BY <2>1, <1>2
  <2> QED  BY <2>5, <2>6 DEF ObjectsKept
<1>12. SourcesExist' /\ OrdersDense' /\ UploadsAreNew' /\ LevelsInUses' /\ LevelsCoverUses'
       /\ VersionsBacked'
  BY <1>2 DEF IInv, SourcesExist, OrdersDense, Dense, SourcesOf, UploadsAreNew,
              LevelsInUses, LevelsCoverUses, VersionsBacked, Backed, Published
<1> QED  BY <1>9, <1>10, <1>11, <1>12 DEF IInv

\* What is compensated is an object of this request alone.
LEMMA UndoKeeps ==
    ASSUME RuleAssumption, IInv, NEW s \in Sessions, Undo(s)
    PROVE  IInv'
<1>1. /\ store' = store \ {session[s].key}
      /\ UNCHANGED <<rules, levels, sources, documents, lastKey>> /\ Error(s)
  BY DEF Undo
<1>2. session[s].op \in Ops \cup {"none"} /\ session[s].key \in Nat
  BY Remembers DEF SessionStates
<1> DEFINE w == [Blank EXCEPT !.op = session[s].op, !.pc = "error"]
<1>3. w \in SessionStates /\ w.key = 0 /\ Fits(w)
  BY <1>2, EndsFit
<1>4. session' = [session EXCEPT ![s] = w]
  BY <1>1 DEF Error
<1> HIDE DEF w
<1>5. /\ session' \in [Sessions -> SessionStates] /\ session'[s] = w
      /\ \A t \in Sessions : t # s => session'[t] = session[t]
  BY <1>3, <1>4 DEF IInv, Typed, TypeOK
<1>6. store \subseteq 1 .. lastKey /\ lastKey \in Nat
  BY DEF IInv, Typed, TypeOK
<1>7. Typed'
  BY <1>1, <1>5, <1>6 DEF IInv, Typed, TypeOK
<1>8. SessionsFit'
  <2>1. \A t \in Sessions : Fits(session'[t])
    BY <1>3, <1>5 DEF IInv, SessionsFit
  <2>2. SUFFICES ASSUME NEW t \in Sessions PROVE Fits(session[t])'
    BY DEF SessionsFit
  <2>3. Fits(session'[t])
    BY <2>1
  <2> QED
    BY <2>3, <1>1, SMTT(30)
    DEF Fits, Works, Compared, SourcesOf, NextOrder, Covering
<1>9. ObjectsKept'
  <2>1. 0 \notin store
    BY <1>6
  <2>2. \A d \in DOMAIN documents :
            documents[d].key \in store /\ documents[d].key # session[s].key
    BY <2>1 DEF IInv, ObjectsKept
  <2>3. ASSUME NEW u \in Sessions, session'[u].key # 0
        PROVE  /\ session'[u].key \in store'
               /\ \A d \in DOMAIN documents' : documents'[d].key # session'[u].key
               /\ \A t \in Sessions : t # u => session'[t].key # session'[u].key
    <3>1. u # s /\ session'[u] = session[u] /\ session[u].key # 0
      BY <2>3, <1>3, <1>5
    <3>2. /\ session[u].key \in store
          /\ \A d \in DOMAIN documents : documents[d].key # session[u].key
          /\ \A t \in Sessions : t # u => session[t].key # session[u].key
      BY <3>1 DEF IInv, ObjectsKept
    <3> QED  BY <3>1, <3>2, <1>1, <1>3, <1>5
  <2>4. \A d \in DOMAIN documents' : documents'[d].key \in store'
    BY <2>2, <1>1
  <2> QED  BY <2>3, <2>4 DEF ObjectsKept
<1>10. SourcesExist' /\ OrdersDense' /\ UploadsAreNew' /\ LevelsInUses' /\ LevelsCoverUses'
       /\ VersionsBacked'
  <2>1. /\ rules' = rules /\ levels' = levels /\ sources' = sources
        /\ documents' = documents
    BY <1>1
  <2>2. OrdersDense'
    BY <2>1 DEF IInv, OrdersDense, Dense, SourcesOf
  <2>3. SourcesExist' /\ UploadsAreNew'
    BY <2>1 DEF IInv, SourcesExist, UploadsAreNew
  <2>4. LevelsInUses' /\ LevelsCoverUses' /\ VersionsBacked'
    BY <2>1 DEF IInv, LevelsInUses, LevelsCoverUses, VersionsBacked, Backed, Published
  <2> QED  BY <2>2, <2>3, <2>4
<1> QED  BY <1>7, <1>8, <1>9, <1>10 DEF IInv

\* A session writes to the rows that are there: contents, objects and uses stay,
\* imports, dates and published documents are not taken back, new levels cover the
\* declared uses, and a version that is published now has what it needs.
LEMMA RowsChange ==
    ASSUME RuleAssumption, IInv, NEW s \in Sessions, End(s),
           UNCHANGED <<sources, store, lastKey>>,
           rules' \in Seq(VersionRows), DOMAIN rules' = DOMAIN rules,
           documents' \in Seq(Documents), DOMAIN documents' = DOMAIN documents,
           levels' \in [DOMAIN rules -> SUBSET (Factors \X Uses)],
           \A d \in DOMAIN documents :
              /\ documents'[d].bytes = documents[d].bytes
              /\ documents'[d].key = documents[d].key
              /\ documents[d].published => documents'[d].published,
           \A r \in DOMAIN rules :
              /\ rules'[r].uses = rules[r].uses
              /\ rules[r].import # "SOURCE_UPLOADED" => rules'[r].import # "SOURCE_UPLOADED"
              /\ rules[r].period # Unknown => rules'[r].period # Unknown
              /\ rules'[r].status = "PUBLISHED" => r \in Published \/ Backed(r)'
              /\ levels'[r] \subseteq Factors \X rules[r].uses
              /\ rules'[r].import # "SOURCE_UPLOADED" =>
                    {l[2] : l \in levels'[r]} = rules[r].uses
    PROVE  IInv'
<1>1. \A r : SourcesOf(r)' = SourcesOf(r) /\ NextOrder(r)' = NextOrder(r)
  BY DEF SourcesOf, NextOrder
<1>2. Grows
  <2>1. \A r \in DOMAIN rules : NextOrder(r)' \in Nat /\ NextOrder(r) <= NextOrder(r)'
    <3> SUFFICES ASSUME NEW r \in DOMAIN rules
                 PROVE  NextOrder(r)' \in Nat /\ NextOrder(r) <= NextOrder(r)'
      OBVIOUS
    <3>1. r \in Nat /\ NextOrder(r) \in Nat
      BY Domains, NextOrderType
    <3> QED  BY <3>1, <1>1
  <2> QED  BY <2>1 DEF Grows
<1>3. /\ SessionsFit' /\ session' \in [Sessions -> SessionStates] /\ session'[s] = Blank
      /\ \A t \in Sessions : t # s => session'[t] = session[t]
  BY <1>2, OthersFit
<1>4. ObjectsKept'
  BY <1>3, ObjectsStay
<1>5. Typed'
  BY <1>3 DEF IInv, Typed, TypeOK
<1>6. SourcesExist' /\ UploadsAreNew'
  <2>1. SourcesExist'
    BY DEF IInv, SourcesExist
  <2>2. \A x \in sources : documents'[x.document].bytes = documents[x.document].bytes
    BY DEF IInv, SourcesExist
  <2> QED  BY <2>1, <2>2 DEF IInv, UploadsAreNew
<1>7. OrdersDense'
  BY <1>1 DEF IInv, OrdersDense, Dense
<1>8. LevelsInUses' /\ LevelsCoverUses'
  BY DEF LevelsInUses, LevelsCoverUses
<1>9. VersionsBacked'
  <2> SUFFICES ASSUME NEW r \in DOMAIN rules, rules'[r].status = "PUBLISHED"
               PROVE  Backed(r)'
    BY DEF VersionsBacked, Published
  <2> QED  BY <1>2, BackedStays
<1> QED  BY <1>3, <1>4, <1>5, <1>6, <1>7, <1>8, <1>9 DEF IInv

\* Dates are written beside those committed since, or refused.
LEMMA ConfirmRowKeeps ==
    ASSUME RuleAssumption, IInv, NEW s \in Sessions, ConfirmRow(s)
    PROVE  IInv'
<1>1. PICK w \in SessionStates : w = session[s] /\ Fits(w)
  BY Remembers
<1> DEFINE now == rules[w.rule].period
           period == [from |-> Column(w.period.from, w.row.period.from, now.from),
                      to   |-> Column(w.period.to, w.row.period.to, now.to)]
<1>2. /\ w.op = "confirm" /\ w.pc = "write" /\ Works(w)
      /\ UNCHANGED <<levels, sources, documents, store, lastKey>>
  BY <1>1 DEF ConfirmRow, Works
<1>3. CASE period \notin Periods
  BY <1>1, <1>2, <1>3, EndKeeps DEF ConfirmRow, Unchanged
<1>4. CASE period \in Periods
  <2>1. rules' = [rules EXCEPT ![w.rule].period = period] /\ End(s)
    BY <1>1, <1>4 DEF ConfirmRow
  <2>2. w.rule \in DOMAIN rules
    BY <1>1, <1>2 DEF Fits, Ops
  <2>3. period # Unknown
    BY <1>4 DEF Periods, Unknown
  <2> HIDE DEF period
  <2>4. DOMAIN rules = 1 .. Len(rules) /\ Len(rules) \in Nat
    BY Domains
  <2>5. ASSUME NEW r \in DOMAIN rules
        PROVE  /\ rules'[r] \in VersionRows /\ rules'[r].uses = rules[r].uses
               /\ rules'[r].import = rules[r].import /\ rules'[r].status = rules[r].status
               /\ rules'[r].period = IF r = w.rule THEN period ELSE rules[r].period
    BY <2>1, <2>2, <1>4, OfVersion DEF VersionRows
  <2>6. DOMAIN rules' = DOMAIN rules /\ rules' = [r \in DOMAIN rules |-> rules'[r]]
    BY <2>1
  <2>7. rules' \in Seq(VersionRows)
    BY <2>4, <2>5, <2>6
  <2>8. /\ documents \in Seq(Documents)
        /\ levels' \in [DOMAIN rules -> SUBSET (Factors \X Uses)]
    BY <1>2 DEF IInv, Typed, TypeOK
  <2>9. \A r \in DOMAIN rules :
            /\ levels'[r] \subseteq Factors \X rules[r].uses
            /\ rules'[r].import # "SOURCE_UPLOADED" =>
                  {l[2] : l \in levels'[r]} = rules[r].uses
    BY <1>2, <2>5, OfVersion
  <2>10. \A r \in DOMAIN rules :
            /\ rules[r].period # Unknown => rules'[r].period # Unknown
            /\ rules'[r].status = "PUBLISHED" => r \in Published
    BY <2>3, <2>5 DEF Published
  <2> QED  BY <1>2, <2>1, <2>5, <2>6, <2>7, <2>8, <2>9, <2>10, RowsChange
<1> QED  BY <1>3, <1>4

\* The levels left by others and the new ones cover the uses.
LEMMA InsertLevelsKeeps ==
    ASSUME RuleAssumption, IInv, NEW s \in Sessions, InsertLevels(s)
    PROVE  IInv'
<1>1. PICK w \in SessionStates : w = session[s] /\ Fits(w)
  BY Remembers
<1> DEFINE left == levels[w.rule] \ w.seen
<1>2. /\ w.op = "import" /\ w.pc = "write" /\ Works(w)
      /\ UNCHANGED <<sources, documents, store, lastKey>>
  BY <1>1 DEF InsertLevels, Works
<1>3. CASE left \cap w.new # {}
  BY <1>1, <1>2, <1>3, EndKeeps DEF InsertLevels, Unchanged
<1>4. CASE left \cap w.new = {}
  <2>1. /\ levels' = [levels EXCEPT ![w.rule] = left \cup w.new]
        /\ rules' = [rules EXCEPT
              ![w.rule].import = Column("IMPORTED", w.row.import, @)] /\ End(s)
    BY <1>1, <1>4 DEF InsertLevels
  <2>2. w.rule \in DOMAIN rules /\ Covering(w.rule, w.new)
    BY <1>1, <1>2 DEF Fits, Ops
  <2>3. PICK F \in (SUBSET Factors) \ {{}} : w.new = F \X rules[w.rule].uses
    BY <2>2 DEF Covering
  <2>4. /\ rules[w.rule] \in VersionRows /\ rules[w.rule].uses \subseteq Uses
        /\ levels[w.rule] \subseteq Factors \X rules[w.rule].uses
    BY <2>2, OfVersion DEF VersionRows
  <2>5. /\ left \cup w.new \subseteq Factors \X rules[w.rule].uses
        /\ left \cup w.new \in SUBSET (Factors \X Uses)
    BY <2>3, <2>4
  <2>6. {l[2] : l \in left \cup w.new} = rules[w.rule].uses
    <3>1. ASSUME NEW u \in rules[w.rule].uses
          PROVE  u \in {l[2] : l \in left \cup w.new}
      <4>1. PICK f \in F : f \in Factors
        BY <2>3
      <4>2. <<f, u>> \in left \cup w.new /\ <<f, u>>[2] = u
        BY <2>3
      <4> QED  BY <4>2
    <3>2. \A l \in left \cup w.new : l[2] \in rules[w.rule].uses
      BY <2>5
    <3> QED  BY <3>1, <3>2
  <2> HIDE DEF left
  <2>7. DOMAIN rules = 1 .. Len(rules) /\ Len(rules) \in Nat
    BY Domains
  <2>8. ASSUME NEW r \in DOMAIN rules
        PROVE  /\ rules'[r] \in VersionRows /\ rules'[r].uses = rules[r].uses
               /\ rules'[r].import \in {"IMPORTED", rules[r].import}
               /\ r # w.rule => rules'[r].import = rules[r].import
               /\ rules'[r].status = rules[r].status /\ rules'[r].period = rules[r].period
    BY <2>1, <2>2, OfVersion DEF VersionRows, Column
  <2>9. DOMAIN rules' = DOMAIN rules /\ rules' = [r \in DOMAIN rules |-> rules'[r]]
    BY <2>1
  <2>10. rules' \in Seq(VersionRows)
    BY <2>7, <2>8, <2>9
  <2>11. /\ levels \in [DOMAIN rules -> SUBSET (Factors \X Uses)]
         /\ documents \in Seq(Documents)
    BY DEF IInv, Typed, TypeOK
  <2>12. levels' \in [DOMAIN rules -> SUBSET (Factors \X Uses)]
    BY <2>1, <2>5, <2>11
  <2>13. ASSUME NEW r \in DOMAIN rules
         PROVE  /\ levels'[r] \subseteq Factors \X rules[r].uses
                /\ rules'[r].import # "SOURCE_UPLOADED" =>
                      {l[2] : l \in levels'[r]} = rules[r].uses
    <3>1. CASE r = w.rule
      BY <3>1, <2>1, <2>5, <2>6, <2>11
    <3>2. CASE r # w.rule
      BY <3>2, <2>1, <2>8, <2>11, OfVersion
    <3> QED  BY <3>1, <3>2
  <2>14. \A r \in DOMAIN rules :
             /\ rules[r].import # "SOURCE_UPLOADED" => rules'[r].import # "SOURCE_UPLOADED"
             /\ rules[r].period # Unknown => rules'[r].period # Unknown
             /\ rules'[r].status = "PUBLISHED" => r \in Published
    BY <2>8 DEF Published
  <2> QED
    BY <1>2, <2>1, <2>8, <2>9, <2>10, <2>11, <2>12, <2>13, <2>14, RowsChange
<1> QED  BY <1>3, <1>4

\* A publication changes the status of the version and of documents.
LEMMA PublishRowKeeps ==
    ASSUME RuleAssumption, IInv, NEW s \in Sessions, PublishRow(s)
    PROVE  IInv'
<1>1. PICK w \in SessionStates : w = session[s] /\ Fits(w)
  BY Remembers
<1>2. /\ w.op = "publish" /\ w.pc = "write" /\ Works(w)
      /\ rules' = [rules EXCEPT ![w.rule].status = "PUBLISHED", ![w.rule].import = "VERIFIED"]
      /\ documents' = [d \in DOMAIN documents |->
            IF d \in w.docs THEN [documents[d] EXCEPT !.published = TRUE] ELSE documents[d]]
      /\ End(s) /\ UNCHANGED <<levels, sources, store, lastKey>>
  BY <1>1 DEF PublishRow, Works
<1>3. /\ w.rule \in DOMAIN rules /\ rules[w.rule].import # "SOURCE_UPLOADED"
      /\ rules[w.rule].period # Unknown
  BY <1>1, <1>2 DEF Fits, Ops
<1>4. /\ DOMAIN rules = 1 .. Len(rules) /\ Len(rules) \in Nat
      /\ DOMAIN documents = 1 .. Len(documents) /\ Len(documents) \in Nat
  BY Domains
<1>5. ASSUME NEW r \in DOMAIN rules
      PROVE  /\ rules'[r] \in VersionRows /\ rules'[r].uses = rules[r].uses
             /\ rules'[r].import = IF r = w.rule THEN "VERIFIED" ELSE rules[r].import
             /\ rules'[r].period = rules[r].period
             /\ r # w.rule => rules'[r].status = rules[r].status
  BY <1>2, <1>3, OfVersion DEF VersionRows
<1>6. DOMAIN rules' = DOMAIN rules /\ rules' = [r \in DOMAIN rules |-> rules'[r]]
  BY <1>2
<1>7. rules' \in Seq(VersionRows)
  BY <1>4, <1>5, <1>6
<1>8. /\ documents \in Seq(Documents)
      /\ levels' \in [DOMAIN rules -> SUBSET (Factors \X Uses)]
  BY <1>2 DEF IInv, Typed, TypeOK
<1>9. ASSUME NEW d \in DOMAIN documents
      PROVE  /\ documents'[d] \in Documents
             /\ documents'[d].bytes = documents[d].bytes
             /\ documents'[d].key = documents[d].key
             /\ documents[d].published \/ d \in w.docs => documents'[d].published
  <2>1. documents[d] \in Documents
    BY <1>8
  <2> QED  BY <2>1, <1>2 DEF Documents
<1>10. DOMAIN documents' = DOMAIN documents
       /\ documents' = [d \in DOMAIN documents |-> documents'[d]]
  BY <1>2
<1>11. documents' \in Seq(Documents)
  BY <1>4, <1>9, <1>10
<1>12. \A r \in DOMAIN rules :
          /\ rules[r].import # "SOURCE_UPLOADED" => rules'[r].import # "SOURCE_UPLOADED"
          /\ levels'[r] \subseteq Factors \X rules[r].uses
          /\ rules'[r].import # "SOURCE_UPLOADED" =>
                {l[2] : l \in levels'[r]} = rules[r].uses
  BY <1>2, <1>3, <1>5, OfVersion
<1>13. Backed(w.rule)'
  <2>1. PICK x \in sources : x.rule = w.rule /\ x.role = "FORMAL" /\ x.document \in w.docs
    BY <1>1, <1>2 DEF Fits
  <2>2. documents'[x.document].published
    BY <2>1, <1>9 DEF IInv, SourcesExist
  <2>3. rules'[w.rule].import = "VERIFIED" /\ rules'[w.rule].period # Unknown
    BY <1>3, <1>5
  <2> QED  BY <1>2, <2>1, <2>2, <2>3 DEF Backed
<1>14. \A r \in DOMAIN rules :
          /\ rules[r].period # Unknown => rules'[r].period # Unknown
          /\ rules'[r].status = "PUBLISHED" => r \in Published \/ Backed(r)'
  BY <1>5, <1>13 DEF Published
<1> QED
  BY <1>2, <1>5, <1>6, <1>7, <1>8, <1>9, <1>10, <1>11, <1>12, <1>14, RowsChange
---------------------------------------------------------------------------
(* The invariant *)

LEMMA InitHolds ==
    ASSUME RuleAssumption, Init
    PROVE  IInv
<1> DEFINE b == CHOOSE b \in Bytes : TRUE
           document == [bytes |-> b, key |-> 1, published |-> TRUE]
<1>1. b \in Bytes
  BY DEF RuleAssumption
<1> HIDE DEF b
<1>2. document \in Documents /\ document.key = 1
  BY <1>1 DEF Documents
<1> HIDE DEF document
<1>3. /\ rules = <<>> /\ levels = <<>> /\ sources = {} /\ documents = <<document>>
      /\ store = {1} /\ lastKey = 1 /\ session = [s \in Sessions |-> Blank]
  BY DEF Init, document, b
<1>4. /\ rules \in Seq(VersionRows) /\ DOMAIN rules = {} /\ DOMAIN levels = {}
      /\ documents \in Seq(Documents) /\ DOMAIN documents = {1} /\ documents[1] = document
  BY <1>2, <1>3
<1>5. \A s \in Sessions : session[s] = Blank
  BY <1>3
<1>6. Typed
  <2>1. levels \in [DOMAIN rules -> SUBSET (Factors \X Uses)]
    BY <1>3
  <2>2. session \in [Sessions -> SessionStates]
    BY <1>3, BlankType
  <2> QED  BY <1>3, <1>4, <2>1, <2>2 DEF Typed, TypeOK
<1>7. SessionsFit
  BY <1>5, BlankType DEF SessionsFit, Fits, Works
<1>8. ObjectsKept
  BY <1>2, <1>3, <1>4, <1>5, BlankType DEF ObjectsKept
<1>9. OrdersDense
  <2> SUFFICES ASSUME NEW r \in Nat PROVE Dense(r)
    BY DEF OrdersDense
  <2>1. SourcesOf(r) = {}
    BY <1>3 DEF SourcesOf
  <2> QED  BY <2>1, FS_EmptySet DEF Dense
<1>10. SourcesExist /\ UploadsAreNew /\ LevelsInUses /\ LevelsCoverUses /\ VersionsBacked
  BY <1>3, <1>4 DEF SourcesExist, UploadsAreNew, LevelsInUses, LevelsCoverUses,
                    VersionsBacked, Published
<1> QED  BY <1>6, <1>7, <1>8, <1>9, <1>10 DEF IInv

LEMMA TakesKeeps ==
    ASSUME RuleAssumption, IInv, NEW s \in Sessions, Takes(s)
    PROVE  IInv'
<1>1. ASSUME NEW b \in Bytes, NEW U \in (SUBSET Uses) \ {{}},
             NEW p \in Periods \cup {Unknown}, Create(s, b, U, p)
      PROVE  IInv'
  BY <1>1, CreateKeeps
<1>2. ASSUME NEW d \in DOMAIN documents, NEW U \in (SUBSET Uses) \ {{}},
             NEW p \in Periods \cup {Unknown}, CreateFromExisting(s, d, U, p)
      PROVE  IInv'
  BY <1>2, CreateFromExistingKeeps
<1>3. ASSUME NEW r \in DOMAIN rules, NEW b \in Bytes, NEW role \in Roles \ {"PRIMARY"},
             AddSource(s, r, b, role)
      PROVE  IInv'
  BY <1>3, AddSourceKeeps
<1>4. ASSUME NEW r \in DOMAIN rules, NEW d \in DOMAIN documents,
             NEW role \in Roles \ {"PRIMARY"}, LinkSource(s, r, d, role)
      PROVE  IInv'
  BY <1>4, LinkSourceKeeps
<1>5. ASSUME NEW r \in DOMAIN rules,
             \/ \E p \in Periods : ConfirmDate(s, r, p)
             \/ \E new \in SUBSET (Factors \X Uses) : Import(s, r, new)
             \/ Extract(s, r) \/ Publish(s, r)
      PROVE  IInv'
  BY <1>5, EditBegins
<1> QED  BY <1>1, <1>2, <1>3, <1>4, <1>5 DEF Takes

LEMMA ProceedsKeeps ==
    ASSUME RuleAssumption, IInv, NEW s \in Sessions, Proceeds(s)
    PROVE  IInv'
<1>1. CASE Put(s) \/ Undo(s)
  BY <1>1, PutKeeps, UndoKeeps
<1>2. CASE Compare(s) \/ DeleteLevels(s) \/ CheckPublish(s)
  BY <1>2, CompareKeeps, DeleteLevelsKeeps, CheckPublishKeeps
<1>3. CASE AddRow(s) \/ CreateRow(s)
  BY <1>3, AddRowKeeps, CreateRowKeeps
<1>4. CASE ConfirmRow(s) \/ InsertLevels(s) \/ PublishRow(s)
  BY <1>4, ConfirmRowKeeps, InsertLevelsKeeps, PublishRowKeeps
<1>5. CASE ExtractRow(s) \/ Crash(s)
  BY <1>5, EndKeeps DEF ExtractRow, Crash
<1> QED  BY <1>1, <1>2, <1>3, <1>4, <1>5 DEF Proceeds

LEMMA StepKeeps ==
    ASSUME RuleAssumption, IInv, [Next]_vars
    PROVE  IInv'
<1>1. CASE Next
  BY <1>1, TakesKeeps, ProceedsKeeps DEF Next
<1>2. CASE UNCHANGED vars
  <2>1. /\ rules' = rules /\ levels' = levels /\ sources' = sources
        /\ documents' = documents /\ store' = store /\ lastKey' = lastKey
        /\ session' = session
    BY <1>2 DEF vars
  <2>2. Typed' /\ SourcesExist' /\ UploadsAreNew'
    BY <2>1 DEF IInv, Typed, TypeOK, SourcesExist, UploadsAreNew
  <2>3. OrdersDense'
    BY <2>1 DEF IInv, OrdersDense, Dense, SourcesOf
  <2>4. LevelsInUses' /\ LevelsCoverUses' /\ VersionsBacked'
    BY <2>1 DEF IInv, LevelsInUses, LevelsCoverUses, VersionsBacked, Backed, Published
  <2>5. ObjectsKept'
    BY <2>1 DEF IInv, ObjectsKept
  <2>6. SessionsFit'
    <3> SUFFICES ASSUME NEW t \in Sessions PROVE Fits(session[t])'
      BY DEF SessionsFit
    <3>1. Fits(session[t])
      BY DEF IInv, SessionsFit
    <3>2. session'[t] = session[t]
      BY <2>1
    <3> QED
      BY <3>1, <3>2, <2>1, SMTT(30)
      DEF Fits, Works, Compared, SourcesOf, NextOrder, Covering
  <2> QED  BY <2>2, <2>3, <2>4, <2>5, <2>6 DEF IInv
<1> QED  BY <1>1, <1>2

\* Whatever requests overlap, fail or die, what the sessions remember and what the
\* tables and the bucket hold fit together, with all types.
THEOREM VersionsFit == ASSUME RuleAssumption PROVE Spec => []IInv
<1>1. Init => IInv
  BY InitHolds
<1>2. IInv /\ [Next]_vars => IInv'
  BY StepKeeps
<1> QED  BY <1>1, <1>2, PTL DEF Spec

\* Every source of a version has its object in the bucket.
THEOREM SourcesKeepObjects == ASSUME RuleAssumption PROVE Spec => []SourcesHaveObjects
<1>1. IInv => SourcesHaveObjects
  BY DEF IInv, ObjectsKept, SourcesExist, SourcesHaveObjects
<1> QED  BY <1>1, VersionsFit, PTL

\* No file is uploaded to a version that has its content, although the comparison
\* takes no lock.
THEOREM NoFileTwice == ASSUME RuleAssumption PROVE Spec => []UploadsAreNew
<1>1. IInv => UploadsAreNew
  BY DEF IInv
<1> QED  BY <1>1, VersionsFit, PTL

\* Imports that mix leave levels for exactly the declared uses.
THEOREM LevelsAreComplete == ASSUME RuleAssumption PROVE Spec => []LevelsCoverUses
<1>1. IInv => LevelsCoverUses
  BY DEF IInv
<1> QED  BY <1>1, VersionsFit, PTL

\* A published version has known dates, levels for every use it declares, and a
\* required source that is published and has its object, whatever other requests did
\* between the checks of its publication and its rows, and whatever stale requests
\* wrote after it.
THEOREM PublicationsAreComplete ==
    ASSUME RuleAssumption PROVE Spec => []PublishedIsBacked
<1>1. ASSUME IInv, NEW r \in Published
      PROVE  /\ rules[r].period # Unknown
             /\ \A use \in rules[r].uses : \E l \in levels[r] : l[2] = use
             /\ \E x \in SourcesOf(r) :
                   /\ x.role = "FORMAL" /\ documents[x.document].published
                   /\ documents[x.document].key \in store
  <2>1. r \in DOMAIN rules /\ Backed(r)
    BY <1>1 DEF IInv, VersionsBacked, Published
  <2>2. {l[2] : l \in levels[r]} = rules[r].uses
    BY <1>1, <2>1 DEF IInv, LevelsCoverUses, Backed
  <2>3. PICK x \in sources :
            x.rule = r /\ x.role = "FORMAL" /\ documents[x.document].published
    BY <2>1 DEF Backed
  <2>4. x \in SourcesOf(r) /\ documents[x.document].key \in store
    BY <1>1, <2>3 DEF SourcesOf, IInv, SourcesExist, ObjectsKept
  <2>5. rules[r].period # Unknown
    BY <2>1 DEF Backed
  <2> QED  BY <2>2, <2>3, <2>4, <2>5
<1>2. IInv => PublishedIsBacked
  BY <1>1 DEF PublishedIsBacked
<1> QED  BY <1>2, VersionsFit, PTL

=============================================================================
