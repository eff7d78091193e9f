------------------------------- MODULE RulePacks -------------------------------
(***************************************************************************)
(* The versions of the formal valuation rules (RulePackService): a draft   *)
(* gets sources, factor levels and effective dates from several editors,   *)
(* and is published once.  No operation locks a row: each reads with plain *)
(* SELECTs, in statements of its own, and writes at the end; what keeps    *)
(* two editors apart is the constraints of the tables and the columns an   *)
(* UPDATE names.  An operation is therefore a sequence of steps of a       *)
(* session, which remembers the row it has read.                           *)
(***************************************************************************)
EXTENDS Integers, Sequences, FiniteSets

CONSTANTS
    Sessions,    \* requests of the rule editors, one database session each
    Bytes,       \* contents of a source file
    Uses,        \* land use types
    Factors,     \* factors an import may bring levels for
    LastDay,     \* effective dates are days 1..LastDay
    MaxRules,    \* bound: rule versions
    MaxKeys      \* bound: object keys ever drawn

VARIABLES
    rules,       \* valuation.rule_versions, in order of version_no
    levels,      \* valuation.factor_levels: rule -> {<<factor, use>>}
    sources,     \* valuation.rule_version_sources
    documents,   \* knowledge.documents
    store,       \* the object keys in the bucket
    lastKey,
    session      \* the sessions

vars == <<rules, levels, sources, documents, store, lastKey, session>>

RuleAssumption ==
    /\ LastDay \in Nat \ {0} /\ MaxRules \in Nat /\ MaxKeys \in Nat
    /\ Sessions # {} /\ Bytes # {} /\ Uses # {} /\ Factors # {}

---------------------------------------------------------------------------

\* from = 0 is an unknown date, to = 0 an open end.
Periods == {p \in [from : 1..LastDay, to : 0..LastDay] : p.to = 0 \/ p.from <= p.to}
Unknown == [from |-> 0, to |-> 0]

VersionRows == [period : Periods \cup {Unknown}, uses : SUBSET Uses,
                status : {"DRAFT", "PUBLISHED"},
                import : {"SOURCE_UPLOADED", "IMPORTED", "VERIFIED"}]

\* The required roles of a formal rule are one value beside PRIMARY.
Roles == {"PRIMARY", "FORMAL", "OTHER"}

Sources == [rule : Nat, order : Nat, document : Nat, role : Roles, uploaded : BOOLEAN]

Documents == [bytes : Bytes, key : Nat, published : BOOLEAN]

\* What a session remembers between its steps: the rule it works on, its
\* input, and what it read, row being the version as _editable_rule found it.
Ops == {"create", "add", "link", "confirm", "import", "extract", "publish"}

SessionStates ==
    [op : Ops \cup {"none"}, rule : Nat,
     pc : {"ended", "error", "read", "put", "write", "undo"},
     period : Periods \cup {Unknown}, uses : SUBSET Uses, bytes : Bytes,
     role : Roles, order : Nat, key : Nat, document : Nat,
     seen : SUBSET (Factors \X Uses), new : SUBSET (Factors \X Uses),
     docs : SUBSET Nat, row : VersionRows]

TypeOK ==
    /\ rules \in Seq(VersionRows)
    /\ levels \in [DOMAIN rules -> SUBSET (Factors \X Uses)]
    /\ sources \subseteq Sources
    /\ documents \in Seq(Documents)
    /\ store \subseteq 1..lastKey
    /\ session \in [Sessions -> SessionStates]

\* A version as it is created.
Draft(uses, period) ==
    [period |-> period, uses |-> uses, status |-> "DRAFT", import |-> "SOURCE_UPLOADED"]

Blank ==
    [op |-> "none", rule |-> 0, pc |-> "ended", period |-> Unknown, uses |-> {},
     bytes |-> CHOOSE b \in Bytes : TRUE, role |-> "OTHER", order |-> 0, key |-> 0,
     document |-> 0, seen |-> {}, new |-> {}, docs |-> {},
     row |-> Draft({}, Unknown)]

\* One knowledge document is there to be linked.
Init ==
    /\ rules = <<>>
    /\ levels = <<>>
    /\ sources = {}
    /\ documents = <<[bytes |-> CHOOSE b \in Bytes : TRUE, key |-> 1, published |-> TRUE]>>
    /\ store = {1}
    /\ lastKey = 1
    /\ session = [s \in Sessions |-> Blank]

---------------------------------------------------------------------------
(* Tables *)

Unlocked(r) == rules[r].status = "DRAFT"

SourcesOf(r) == {x \in sources : x.rule = r}

NextOrder(r) == Cardinality(SourcesOf(r)) + 1

Published == {r \in DOMAIN rules : rules[r].status = "PUBLISHED"}

\* rule_covers, for one land use and day.
Covers(rule, use, day) ==
    /\ rule.status = "PUBLISHED" /\ rule.period.from # 0
    /\ rule.period.from <= day
    /\ rule.period.to = 0 \/ day <= rule.period.to
    /\ use \in rule.uses

\* Mutant: the end of a period does not belong to it.
OverlapOpenEnd(a, b) ==
    /\ a.period.from # 0 /\ b.period.from # 0
    /\ b.period.to = 0 \/ a.period.from < b.period.to
    /\ a.period.to = 0 \/ b.period.from < a.period.to
    /\ a.uses \cap b.uses # {}

\* rules_overlap; every scope is the whole city.
RulesOverlap(a, b) ==
    /\ a.period.from # 0 /\ b.period.from # 0
    /\ b.period.to = 0 \/ a.period.from <= b.period.to
    /\ a.period.to = 0 \/ b.period.from <= a.period.to
    /\ a.uses \cap b.uses # {}

\* RuleCoverageService.check is AMBIGUOUS when there is more than one.
Matches(use, day) == {r \in DOMAIN rules : Covers(rules[r], use, day)}

---------------------------------------------------------------------------
(* Steps of a session *)

Ended(s) == session[s].pc \in {"ended", "error"}

\* A request ends, with an error the code does not foresee or without.
End(s) == session' = [session EXCEPT ![s] = Blank]
Error(s) ==
    session' = [session EXCEPT ![s] = [Blank EXCEPT !.op = session[s].op, !.pc = "error"]]

Goto(s, pc) == session' = [session EXCEPT ![s].pc = pc]

\* A session takes up a new request.
Begins(s, fields) ==
    /\ Ended(s)
    /\ session' = [session EXCEPT ![s] = fields]

\* _editable_rule comes first in every operation on a draft.
Begin(s, fields) == Unlocked(fields.rule) /\ Begins(s, fields)

Unchanged == UNCHANGED <<rules, levels, sources, documents, store, lastKey>>

\* upload_source: the version number is read, the file put, the rows inserted.
Create(s, bytes, uses, period) ==
    /\ Len(rules) < MaxRules
    /\ Begins(s, [Blank EXCEPT !.op = "create", !.rule = Len(rules) + 1, !.pc = "put",
                    !.bytes = bytes, !.uses = uses, !.period = period,
                    !.role = "PRIMARY", !.order = 1])
    /\ Unchanged

\* create_from_existing_source: the same without a file.
CreateFromExisting(s, d, uses, period) ==
    /\ Len(rules) < MaxRules
    /\ documents[d].key \in store
    /\ Begins(s, [Blank EXCEPT !.op = "create", !.rule = Len(rules) + 1, !.pc = "write",
                    !.document = d, !.uses = uses, !.period = period,
                    !.role = "PRIMARY", !.order = 1])
    /\ Unchanged

\* add_source reads the next order before it stores the file.
AddSource(s, r, bytes, role) ==
    /\ Begin(s, [Blank EXCEPT !.op = "add", !.rule = r, !.pc = "put",
                   !.bytes = bytes, !.role = role, !.order = NextOrder(r)])
    /\ Unchanged

LinkSource(s, r, d, role) ==
    /\ documents[d].key \in store
    /\ \A x \in SourcesOf(r) : x.document # d
    /\ Begin(s, [Blank EXCEPT !.op = "link", !.rule = r, !.pc = "write",
                   !.document = d, !.role = role, !.order = NextOrder(r)])
    /\ Unchanged

ConfirmDate(s, r, period) ==
    /\ Begin(s, [Blank EXCEPT !.op = "confirm", !.rule = r, !.pc = "write",
                   !.period = period, !.row = rules[r]])
    /\ Unchanged

\* Every factor of an import has levels for every declared use, and no other.
Covering(r, new) ==
    \E F \in (SUBSET Factors) \ {{}} : new = F \X rules[r].uses

Import(s, r, new) ==
    /\ Covering(r, new)
    /\ Begin(s, [Blank EXCEPT !.op = "import", !.rule = r, !.pc = "read", !.new = new,
                   !.row = rules[r]])
    /\ Unchanged

\* ai_extract_rules: the provider is called on a source of the draft.
Extract(s, r) ==
    /\ Begin(s, [Blank EXCEPT !.op = "extract", !.rule = r, !.pc = "write"])
    /\ Unchanged

Publish(s, r) ==
    /\ rules[r].import = "IMPORTED"
    /\ rules[r].period # Unknown
    /\ Begin(s, [Blank EXCEPT !.op = "publish", !.rule = r, !.pc = "read",
                   !.row = rules[r]])
    /\ Unchanged

---------------------------------------------------------------------------

Put(s) ==
    /\ session[s].pc = "put" /\ lastKey < MaxKeys
    /\ lastKey' = lastKey + 1
    /\ store' = store \cup {lastKey + 1}
    /\ session' = [session EXCEPT ![s].pc = IF session[s].op = "add" THEN "read" ELSE "write",
                                  ![s].key = lastKey + 1]
    /\ UNCHANGED <<rules, levels, sources, documents>>

SameBytes(r, bytes) == {x \in SourcesOf(r) : documents[x.document].bytes = bytes}

\* add_source compares the file it has stored with the sources there are.
Compare(s) ==
    /\ session[s].op = "add" /\ session[s].pc = "read"
    /\ Goto(s, IF SameBytes(session[s].rule, session[s].bytes) = {} THEN "write" ELSE "undo")
    /\ Unchanged

\* The rows of a new source, unless its order or document is taken
\* (uq_rule_version_sources_order, uq_rule_version_sources_document).
NewSource(s, d) ==
    [rule |-> session[s].rule, order |-> session[s].order, document |-> d,
     role |-> session[s].role, uploaded |-> session[s].key # 0]

Insertable(s) ==
    \A x \in SourcesOf(session[s].rule) :
        /\ x.order # session[s].order
        /\ session[s].document = 0 \/ x.document # session[s].document

InsertSource(s) ==
    LET d == IF session[s].key = 0 THEN session[s].document ELSE Len(documents) + 1
    IN  /\ sources' = sources \cup {NewSource(s, d)}
        /\ documents' = IF session[s].key = 0 THEN documents
                        ELSE Append(documents, [bytes |-> session[s].bytes,
                                       key |-> session[s].key, published |-> FALSE])

AddRow(s) ==
    /\ session[s].op \in {"add", "link"} /\ session[s].pc = "write"
    /\ IF Insertable(s)
       THEN InsertSource(s) /\ End(s)
       ELSE /\ IF session[s].key = 0 THEN Error(s) ELSE Goto(s, "undo")
            /\ UNCHANGED <<sources, documents>>
    /\ UNCHANGED <<rules, levels, store, lastKey>>

\* uq_rule_versions_set_version refuses a version number that is taken.
CreateRow(s) ==
    /\ session[s].op = "create" /\ session[s].pc = "write"
    /\ IF session[s].rule = Len(rules) + 1
       THEN /\ rules' = Append(rules, Draft(session[s].uses, session[s].period))
            /\ levels' = Append(levels, {})
            /\ InsertSource(s) /\ End(s)
       ELSE /\ IF session[s].key = 0 THEN Error(s) ELSE Goto(s, "undo")
            /\ UNCHANGED <<rules, levels, sources, documents>>
    /\ UNCHANGED <<store, lastKey>>

\* except Exception: the object of this request is deleted.
Undo(s) ==
    /\ session[s].pc = "undo"
    /\ store' = store \ {session[s].key}
    /\ Error(s) /\ UNCHANGED <<rules, levels, sources, documents, lastKey>>

\* The UPDATE names the columns whose value differs from the one that was read,
\* and no others.
Column(value, read, now) == IF value = read THEN now ELSE value

\* ck_rule_versions_dates refuses an end before the beginning.
ConfirmRow(s) ==
    LET w      == session[s]
        now    == rules[w.rule].period
        period == [from |-> Column(w.period.from, w.row.period.from, now.from),
                   to   |-> Column(w.period.to, w.row.period.to, now.to)]
    IN  /\ w.op = "confirm" /\ w.pc = "write"
        /\ IF period \in Periods
           THEN rules' = [rules EXCEPT ![w.rule].period = period] /\ End(s)
           ELSE Error(s) /\ UNCHANGED rules
        /\ UNCHANGED <<levels, sources, documents, store, lastKey>>

\* replace_levels deletes the levels its statement sees ...
DeleteLevels(s) ==
    /\ session[s].op = "import" /\ session[s].pc = "read"
    /\ session' = [session EXCEPT ![s].pc = "write", ![s].seen = levels[session[s].rule]]
    /\ Unchanged

\* ... and inserts its own beside those committed since, unless the business
\* key of one is taken.
InsertLevels(s) ==
    LET r    == session[s].rule
        left == levels[r] \ session[s].seen
    IN  /\ session[s].op = "import" /\ session[s].pc = "write"
        /\ IF left \cap session[s].new = {}
           THEN /\ levels' = [levels EXCEPT ![r] = left \cup session[s].new]
                /\ rules' = [rules EXCEPT
                      ![r].import = Column("IMPORTED", session[s].row.import, @)]
                /\ End(s)
           ELSE Error(s) /\ UNCHANGED <<levels, rules>>
        /\ UNCHANGED <<sources, documents, store, lastKey>>

\* import_status = AI_REVIEW_REQUIRED is outside ck_rule_versions_import_status.
ExtractRow(s) ==
    /\ session[s].op = "extract" /\ session[s].pc = "write"
    /\ Error(s) /\ Unchanged

\* The sources with their objects, the coverage of the levels, and no published
\* version that overlaps the row as it was read.
Publishable(r, row) ==
    /\ \E x \in SourcesOf(r) : x.role = "FORMAL"
    /\ \A x \in SourcesOf(r) : documents[x.document].key \in store
    /\ {l[2] : l \in levels[r]} = rules[r].uses
    /\ \A q \in Published \ {r} : ~RulesOverlap(row, rules[q])

CheckPublish(s) ==
    LET r == session[s].rule
    IN  /\ session[s].op = "publish" /\ session[s].pc = "read"
        /\ IF Publishable(r, session[s].row)
           THEN session' = [session EXCEPT ![s].pc = "write",
                               ![s].docs = {x.document : x \in SourcesOf(r)}]
           ELSE End(s)
        /\ Unchanged

PublishRow(s) ==
    /\ session[s].op = "publish" /\ session[s].pc = "write"
    /\ rules' = [rules EXCEPT ![session[s].rule].status = "PUBLISHED",
                              ![session[s].rule].import = "VERIFIED"]
    /\ documents' = [d \in DOMAIN documents |->
          IF d \in session[s].docs THEN [documents[d] EXCEPT !.published = TRUE]
                                   ELSE documents[d]]
    /\ End(s) /\ UNCHANGED <<levels, sources, store, lastKey>>

\* A commit that fails, or a process that dies: nothing is compensated.
Crash(s) ==
    /\ ~Ended(s)
    /\ End(s) /\ Unchanged

\* The requests a session may take up.
Takes(s) ==
    \/ \E b \in Bytes, U \in (SUBSET Uses) \ {{}}, p \in Periods \cup {Unknown} :
          Create(s, b, U, p)
    \/ \E d \in DOMAIN documents, U \in (SUBSET Uses) \ {{}}, p \in Periods \cup {Unknown} :
          CreateFromExisting(s, d, U, p)
    \/ \E r \in DOMAIN rules :
          \/ \E b \in Bytes, role \in Roles \ {"PRIMARY"} : AddSource(s, r, b, role)
          \/ \E d \in DOMAIN documents, role \in Roles \ {"PRIMARY"} :
                LinkSource(s, r, d, role)
          \/ \E p \in Periods : ConfirmDate(s, r, p)
          \/ \E new \in SUBSET (Factors \X Uses) : Import(s, r, new)
          \/ Extract(s, r) \/ Publish(s, r)

\* The steps with which it goes on.
Proceeds(s) ==
    \/ Put(s) \/ Compare(s) \/ AddRow(s) \/ CreateRow(s) \/ Undo(s) \/ ConfirmRow(s)
    \/ DeleteLevels(s) \/ InsertLevels(s) \/ ExtractRow(s)
    \/ CheckPublish(s) \/ PublishRow(s) \/ Crash(s)

Next == \E s \in Sessions : Takes(s) \/ Proceeds(s)

Spec == Init /\ [][Next]_vars

---------------------------------------------------------------------------
(* What must hold *)

\* A file is never uploaded to a version that has a source with its content,
\* although the comparison is made without a lock: whoever was compared too
\* early finds its order taken.
UploadsAreNew ==
    \A x, y \in sources :
        x.rule = y.rule /\ x.order < y.order /\ y.uploaded
        => documents[x.document].bytes # documents[y.document].bytes

\* Every source of a version has its object, whichever request lost a race,
\* compensated or died.
SourcesHaveObjects == \A x \in sources : documents[x.document].key \in store

\* The levels of an imported or published version cover exactly its declared
\* land uses, also when two imports mix.
LevelsCoverUses ==
    \A r \in DOMAIN rules :
        rules[r].import # "SOURCE_UPLOADED" => {l[2] : l \in levels[r]} = rules[r].uses

\* A published version is complete, whoever edited it while it was checked: its
\* dates are known, it has levels for each of its uses, and a required source that
\* is published and has its object.
PublishedIsBacked ==
    \A r \in Published :
        /\ rules[r].period # Unknown
        /\ \A use \in rules[r].uses : \E l \in levels[r] : l[2] = use
        /\ \E x \in SourcesOf(r) :
              /\ x.role = "FORMAL" /\ documents[x.document].published
              /\ documents[x.document].key \in store

\* The comparison of two versions on publication is the condition a valuation
\* meets: two published versions overlap exactly when both answer for a use on
\* some day.
OverlapIsAmbiguity ==
    \A p, q \in Published :
        RulesOverlap(rules[p], rules[q])
            <=> \E use \in Uses, day \in 1..LastDay : {p, q} \subseteq Matches(use, day)

---------------------------------------------------------------------------
(* What two editors at once can break *)

\* At most one published version answers for a land use on a day: formal
\* valuation is never AMBIGUOUS (RULE_COVERAGE_OVERLAP forbids overlapping
\* versions).
NeverAmbiguous ==
    \A use \in Uses, day \in 1..LastDay : Cardinality(Matches(use, day)) <= 1

\* What a published version says is never changed again: neither the levels
\* nor the dates a valuation was calculated with (RULE_VERSION_LOCKED).
PublishedFrozen ==
    \A r \in Published :
          /\ levels'[r] = levels[r]
          /\ rules'[r] = rules[r]
=============================================================================
