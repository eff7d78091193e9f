------------------------------- MODULE Questions -------------------------------
(***************************************************************************)
(* Questions to the assistant: of a conversation about the system's        *)
(* knowledge, a case or the history (knowledge/router.py), and of a        *)
(* session of a case (ai_assistant/service.py).  A question is one         *)
(* transaction between two rows of its conversation, and the language      *)
(* model that answers it is given the earlier ones.  What its answer       *)
(* cites comes from objects under knowledge/, which an importer, the rule  *)
(* packs, the demonstration tools and operators put there and describe in  *)
(* rows of their own while questions are answered.                         *)
(***************************************************************************)
EXTENDS Integers, FiniteSets, FiniteSetsExt

CONSTANTS
    None,
    Slots,          \* questions under way at a time
    Conversations,
    Scope,          \* of each: no case, a case, the history, a session of a case
    Objects,        \* keys under knowledge/
    Nature,         \* who put them there
    Provider,       \* knowledge_answer_provider
    Importers,      \* runs of import_official at a time
    MaxAsked,       \* questions asked
    MaxBytes,       \* texts an object has had
    MaxFacts,       \* states of the case
    MaxChanges      \* changes of the rights of the user

Routes    == {"CHAT", "CASE", "KNOWLEDGE", "HYBRID"}
Rights    == {"case", "knowledge"}
Scopes    == {"NONE", "CASE", "HISTORY", "SESSION"}
Natures   == {"OFFICIAL", "RULE", "DEMO", "EXAMPLE", "OTHER"}
Statuses  == {"SUPPORTED", "CLARIFICATION_REQUIRED", "EVIDENCE_ONLY", "NO_RELEVANT_SOURCE"}

QuestionsAssumption ==
    /\ Scope \in [Conversations -> Scopes] /\ Nature \in [Objects -> Natures]
    /\ Provider \in {"evidence_only", "ollama", "bedrock"}
    /\ {MaxAsked, MaxBytes, MaxFacts, MaxChanges} \subseteq Nat

VARIABLES
    store,        \* the text under each key, by its number; 0 is none
    removed,      \* the keys whose object was removed
    row,          \* the document of each key, with the texts of its chunks
    importer,
    facts,        \* the state of the case
    rights,       \* what the user may read
    rows,         \* the committed rows of each conversation
    tx,           \* the questions under way
    asked, changes

sources == <<store, removed, row, importer>>
vars == <<sources, facts, rights, rows, tx, asked, changes>>

---------------------------------------------------------------------------
(* Documents, citations and rows *)

Documents == [bytes : Nat, live : BOOLEAN, chunks : SUBSET Nat]

\* A citation names a document, by the id of its row or by the id every object
\* without a row has, and the text it quotes.
Citations == [object : Objects, bytes : 1 .. MaxBytes, via : {"ROW", "VIRTUAL"}]

\* What an answer tells: of the case or of the knowledge, as it was read for a
\* question, the answer's own or an earlier one.
Tales == [right : Rights, question : Nat]

Answers == [no : Nat, question : Nat, route : Routes, status : Statuses, facts : Nat,
            cites : SUBSET Citations, rights : SUBSET Rights, tells : SUBSET Tales]

Rows == [user : [no : Nat, question : Nat], answer : Answers]

\* history is what the answers before tell; listed, known, runtime and stored are
\* what the retrieval has read so far.
Idle == [phase |-> "IDLE", in |-> None, question |-> 0, rights |-> {}, facts |-> 0,
         history |-> {}, number |-> 0, route |-> None, listed |-> {}, known |-> {}, stored |-> {},
         status |-> None, cites |-> {}]

Phases == {"IDLE", "BEGUN", "READ", "NUMBERED", "INSERTED", "ROUTED", "LISTED", "KNOWN",
           "STORED", "FOUND"}

TypeOK ==
    /\ store \in [Objects -> 0 .. MaxBytes] /\ removed \subseteq Objects
    /\ row \in [Objects -> Documents \cup {None}]
    /\ \A i \in Importers : importer[i] = None \/ importer[i].bytes \in 1 .. MaxBytes
    /\ facts \in 1 .. MaxFacts /\ rights \subseteq Rights
    /\ \A c \in Conversations : \A r \in rows[c] : r.user.no \in Nat /\ r.answer \in Answers
    /\ \A s \in Slots :
           /\ DOMAIN tx[s] = DOMAIN Idle /\ tx[s].phase \in Phases
           /\ tx[s].cites \subseteq Citations /\ tx[s].history \subseteq Tales
    /\ asked \in 0 .. MaxAsked /\ changes \in 0 .. MaxChanges

Init ==
    /\ store = [o \in Objects |-> 0] /\ removed = {}
    /\ row = [o \in Objects |-> None]
    /\ importer = [i \in Importers |-> None]
    /\ facts = 1 /\ rights = Rights
    /\ rows = [c \in Conversations |-> {}]
    /\ tx = [s \in Slots |-> Idle]
    /\ asked = 0 /\ changes = 0

---------------------------------------------------------------------------
(* The objects and their documents *)

\* An object is put under its key; only operators put another one there.
Put(o) ==
    /\ o \notin removed /\ store[o] < MaxBytes
    /\ store[o] = 0 \/ Nature[o] \in {"OFFICIAL", "OTHER"}
    /\ store' = [store EXCEPT ![o] = @ + 1]
    /\ UNCHANGED <<removed, row, importer>>

\* The row is committed after its object was put: of a rule source without
\* chunks, as a draft; of demonstration data with them, as published.
Describe(o) ==
    /\ Nature[o] \in {"RULE", "DEMO"} /\ o \notin removed
    /\ store[o] # 0 /\ row[o] = None
    /\ row' = [row EXCEPT ![o] = IF Nature[o] = "RULE"
                  THEN [bytes |-> store[o], live |-> FALSE, chunks |-> {}]
                  ELSE [bytes |-> store[o], live |-> TRUE, chunks |-> {store[o]}]]
    /\ UNCHANGED <<store, removed, importer>>

\* The version of a rule pack is published with its sources.
PublishRule(o) ==
    /\ Nature[o] = "RULE" /\ row[o] # None /\ ~row[o].live
    /\ row' = [row EXCEPT ![o].live = TRUE]
    /\ UNCHANGED <<store, removed, importer>>

\* A reset of the demonstration data commits the rows away and then removes
\* the objects; a put whose row fails is undone.
Forget(o) ==
    /\ Nature[o] = "DEMO" /\ row[o] # None
    /\ row' = [row EXCEPT ![o] = None] /\ removed' = removed \cup {o}
    /\ UNCHANGED <<store, importer>>

Remove(o) ==
    /\ Nature[o] \in {"RULE", "DEMO"} /\ store[o] # 0 /\ row[o] = None
    /\ store' = [store EXCEPT ![o] = 0] /\ removed' = removed \cup {o}
    /\ UNCHANGED <<row, importer>>

---------------------------------------------------------------------------
(* import_official *)

ImportRead(i, o) ==
    /\ importer[i] = None /\ Nature[o] = "OFFICIAL" /\ store[o] # 0
    /\ importer' = [importer EXCEPT ![i] = [object |-> o, bytes |-> store[o], checked |-> FALSE]]
    /\ UNCHANGED <<store, removed, row>>

\* Changed in place, or indexed already.
Refused(i) ==
    LET known == row[importer[i].object] IN
    known # None /\ (known.bytes # importer[i].bytes \/ (known.live /\ known.chunks # {}))

ImportCheck(i) ==
    /\ importer[i] # None /\ ~importer[i].checked
    /\ importer' = [importer EXCEPT ![i] = IF Refused(i) THEN None ELSE [@ EXCEPT !.checked = TRUE]]
    /\ UNCHANGED <<store, removed, row>>

\* The text is recognised and written, over a row that has appeared meanwhile.
ImportWrite(i) ==
    /\ importer[i] # None /\ importer[i].checked
    /\ LET o == importer[i].object
           before == IF row[o] = None THEN {} ELSE row[o].chunks IN
       row' = [row EXCEPT ![o] = [bytes |-> importer[i].bytes, live |-> TRUE,
                                  chunks |-> before \cup {importer[i].bytes}]]
    /\ importer' = [importer EXCEPT ![i] = None]
    /\ UNCHANGED <<store, removed>>

ImportFail(i) ==
    /\ importer[i] # None
    /\ importer' = [importer EXCEPT ![i] = None]
    /\ UNCHANGED <<store, removed, row>>

SourceStep ==
    /\ \/ \E o \in Objects : Put(o) \/ Describe(o) \/ PublishRule(o) \/ Forget(o) \/ Remove(o)
       \/ \E i \in Importers, o \in Objects : ImportRead(i, o)
       \/ \E i \in Importers : ImportCheck(i) \/ ImportWrite(i) \/ ImportFail(i)
    /\ UNCHANGED <<facts, rights, rows, tx, asked, changes>>

---------------------------------------------------------------------------
(* The rest of the system *)

\* The case moves on.
MoveOn ==
    /\ facts < MaxFacts
    /\ facts' = facts + 1
    /\ UNCHANGED <<sources, rights, rows, tx, asked, changes>>

\* An administrator changes the roles of the user.
ChangeRights ==
    /\ changes < MaxChanges
    /\ \E r \in (SUBSET Rights) \ {rights} : rights' = r
    /\ changes' = changes + 1
    /\ UNCHANGED <<sources, facts, rows, tx, asked>>

---------------------------------------------------------------------------
(* Beginning and end of a question *)

Here(s) == tx[s].in

Abort(s) ==
    /\ tx' = [tx EXCEPT ![s] = Idle]
    /\ UNCHANGED <<sources, facts, rights, rows, asked, changes>>

Advance(s, record) ==
    /\ tx' = [tx EXCEPT ![s] = record]
    /\ UNCHANGED <<sources, facts, rights, rows, asked, changes>>

\* The permissions of the user are those of the request's beginning; a session
\* takes no question without its own.
Begin(s, c) ==
    /\ tx[s].phase = "IDLE" /\ asked < MaxAsked
    /\ Scope[c] = "SESSION" => "case" \in rights
    /\ tx' = [tx EXCEPT ![s] = [Idle EXCEPT !.phase = "BEGUN", !.in = c,
                                            !.question = asked + 1, !.rights = rights]]
    /\ asked' = asked + 1
    /\ UNCHANGED <<sources, facts, rights, rows, changes>>

\* A conversation of a case reads the case before anything else.
ReadsFirst(s) == Scope[Here(s)] = "CASE"

ReadCase(s) ==
    /\ tx[s].phase = "BEGUN"
    /\ IF ReadsFirst(s) /\ "case" \notin tx[s].rights THEN Abort(s)
       ELSE Advance(s, [tx[s] EXCEPT !.phase = "READ",
                                     !.facts = IF ReadsFirst(s) THEN facts ELSE 0])

NextNo(c) == 1 + Max({0} \cup {r.answer.no : r \in rows[c]})

\* The history is read before the number: an answer may take any part of it.
Number(s) ==
    /\ tx[s].phase = "READ"
    /\ Advance(s, [tx[s] EXCEPT !.phase = "NUMBERED", !.number = NextNo(Here(s)),
           !.history = UNION {r.answer.tells : r \in rows[Here(s)]}])

\* A row with the number that is not committed is waited for.
Free(s) ==
    \A t \in Slots \ {s} :
        ~(tx[t].phase \in Phases \ {"IDLE", "BEGUN", "READ", "NUMBERED"}
          /\ Here(t) = Here(s) /\ tx[t].number = tx[s].number)

Insert(s) ==
    /\ tx[s].phase = "NUMBERED" /\ Free(s)
    /\ IF \E r \in rows[Here(s)] : tx[s].number \in {r.user.no, r.answer.no}
       THEN Abort(s) ELSE Advance(s, [tx[s] EXCEPT !.phase = "INSERTED"])

---------------------------------------------------------------------------
(* Its route *)

NeedsKnowledge(route) == route \in {"KNOWLEDGE", "HYBRID"}
NeedsCase(route) == route \in {"CASE", "HYBRID"}

\* What was read for the question itself.
Own(s, told) ==
    {t \in [right : Rights, question : {tx[s].question}] :
        IF t.right = "case" THEN told # 0 ELSE NeedsKnowledge(tx[s].route)}

\* The reply is the next row after the question; a language model may repeat in it
\* what the history tells.
Reply(s, status, cites, told, history) ==
    /\ \E retold \in SUBSET history :
       rows' = [rows EXCEPT ![Here(s)] = @ \cup
           {[user |-> [no |-> tx[s].number, question |-> tx[s].question],
             answer |-> [no |-> tx[s].number + 1, question |-> tx[s].question,
                         route |-> tx[s].route, status |-> status, facts |-> told,
                         cites |-> cites, rights |-> tx[s].rights,
                         tells |-> Own(s, told) \cup retold]]}]
    /\ tx' = [tx EXCEPT ![s] = Idle]
    /\ UNCHANGED <<sources, facts, rights, asked, changes>>

\* Whatever a language model says, or the words of the question; without a
\* case, two of the routes become others.
RoutesOf(scope) == IF scope = "NONE" THEN {"CHAT", "KNOWLEDGE"} ELSE Routes

Route(s, route) ==
    /\ tx[s].phase = "INSERTED" /\ route \in RoutesOf(Scope[Here(s)])
    /\ Advance(s, [tx[s] EXCEPT !.phase = "ROUTED", !.route = route])

\* Mutant: the route grants what it needs.
AllowedByRoute(s) == TRUE

\* knowledge.read, and for the history the roles that may look at it.
Allowed(s) ==
    /\ NeedsKnowledge(tx[s].route) => "knowledge" \in tx[s].rights
    /\ NeedsCase(tx[s].route) => "case" \in tx[s].rights

Chat(s) ==
    /\ tx[s].phase = "ROUTED" /\ tx[s].route = "CHAT"
    /\ Reply(s, "SUPPORTED", {}, 0, tx[s].history)

\* What the answer tells of the case: of the history and in a session it is
\* read now.
Told(s) == IF ReadsFirst(s) \/ tx[s].facts # 0 THEN tx[s].facts ELSE facts

AnswerCase(s) ==
    /\ tx[s].phase = "ROUTED" /\ tx[s].route = "CASE" /\ Allowed(s)
    /\ Reply(s, "SUPPORTED", {}, Told(s), tx[s].history)

Refuse(s) ==
    /\ tx[s].phase = "ROUTED" /\ ~Allowed(s)
    /\ Abort(s)

---------------------------------------------------------------------------
(* Retrieval *)

\* The list of objects; of a conversation on the history, its cases before.
ListObjects(s) ==
    /\ tx[s].phase = "ROUTED" /\ NeedsKnowledge(tx[s].route) /\ Allowed(s)
    /\ Advance(s, [tx[s] EXCEPT !.phase = "LISTED",
           !.listed = {o \in Objects : store[o] # 0},
           !.facts = IF Scope[Here(s)] = "HISTORY" /\ NeedsCase(tx[s].route) THEN facts ELSE @])

\* documents_by_object_key: those that have a row.
FindDocuments(s) ==
    /\ tx[s].phase = "LISTED"
    /\ Advance(s, [tx[s] EXCEPT !.phase = "KNOWN",
                                !.known = {o \in tx[s].listed : row[o] # None}])

\* retrieval_candidates, whatever the status of their document.
FindChunks(s) ==
    /\ tx[s].phase = "KNOWN"
    /\ Advance(s, [tx[s] EXCEPT !.phase = "STORED",
           !.stored = {c \in Citations : c.via = "ROW" /\ c.object \in tx[s].listed
                          /\ row[c.object] # None /\ c.bytes \in row[c.object].chunks}])

\* The documents without chunks that are read now.
Runtime(s) ==
    {o \in tx[s].listed : o \notin tx[s].known
                          \/ ~\E c \in tx[s].stored : c.object = o}

Extracted(s, readable) ==
    {c \in Citations : c.object \in readable /\ c.bytes = store[c.object]
                       /\ c.via = IF c.object \in tx[s].known THEN "ROW" ELSE "VIRTUAL"}

\* A document of the demonstration data is known by its row, the example by
\* the name of its file.
Usable(c) == ~(Nature[c.object] = "DEMO" /\ c.via = "ROW") /\ Nature[c.object] # "EXAMPLE"

\* parse_answer and ai_answer_response.
Accepts(claimed, packet, clarify) == claimed \subseteq packet /\ (claimed # {} \/ clarify)

Found(s, status, cites) ==
    Advance(s, [tx[s] EXCEPT !.phase = "FOUND", !.status = status, !.cites = cites])

\* The model may claim what is in the packet or anything else.
AskModel(s, packet) ==
    \E claimed \in (SUBSET packet) \cup {{c} : c \in Citations}, clarify \in BOOLEAN :
        IF Accepts(claimed, packet, clarify)
        THEN Found(s, IF clarify THEN "CLARIFICATION_REQUIRED" ELSE "SUPPORTED", claimed)
        ELSE IF Provider = "ollama" THEN Found(s, "EVIDENCE_ONLY", packet) ELSE Abort(s)

\* Some of the objects cannot be read, and some chunks match the question.
Answer(s) ==
    /\ tx[s].phase = "STORED"
    /\ \E readable \in SUBSET {o \in Runtime(s) : store[o] # 0} :
       LET candidates == {c \in tx[s].stored \cup Extracted(s, readable) : Usable(c)} IN
       \E packet \in SUBSET candidates :
           IF packet = {} THEN Found(s, "NO_RELEVANT_SOURCE", {})
           ELSE IF Provider = "evidence_only" THEN Found(s, "EVIDENCE_ONLY", packet)
           ELSE AskModel(s, packet)

\* The store or the model cannot be reached.
Unavailable(s) ==
    /\ tx[s].phase \in {"ROUTED", "LISTED", "STORED"} /\ NeedsKnowledge(tx[s].route)
    /\ Abort(s)

\* Evidence without a case is listed, not told by a model.
Retellable(s) ==
    IF NeedsCase(tx[s].route) \/ tx[s].status \in {"SUPPORTED", "CLARIFICATION_REQUIRED"}
    THEN tx[s].history ELSE {}

\* A conversation keeps what it is given; a session, whatever the route, only a
\* supported answer.
Deliver(s) ==
    /\ tx[s].phase = "FOUND"
    /\ LET told == IF NeedsCase(tx[s].route) THEN Told(s) ELSE 0 IN
       IF Scope[Here(s)] = "SESSION" /\ tx[s].status # "SUPPORTED"
       THEN Reply(s, tx[s].status, {}, 0, {})
       ELSE Reply(s, tx[s].status, tx[s].cites, told, Retellable(s))

Step(s) ==
    \/ ReadCase(s) \/ Number(s) \/ Insert(s)
    \/ \E route \in Routes : Route(s, route)
    \/ Chat(s) \/ AnswerCase(s) \/ Refuse(s)
    \/ ListObjects(s) \/ FindDocuments(s) \/ FindChunks(s) \/ Answer(s)
    \/ Unavailable(s) \/ Deliver(s)

Next ==
    \/ SourceStep \/ MoveOn \/ ChangeRights
    \/ \E s \in Slots : Step(s) \/ \E c \in Conversations : Begin(s, c)

Spec == Init /\ [][Next]_vars

---------------------------------------------------------------------------
(* Properties *)

Given == UNION {rows[c] : c \in Conversations}
Cited == UNION {r.answer.cites : r \in Given}

\* source_download: the row of the id, else an object whose id it is.
Opens(c) == IF c.via = "ROW" THEN row[c.object] # None ELSE store[c.object] # 0

(* A supported answer of the knowledge cites at least one source, and no      *)
(* answer cites the example of a form or a text no object has had: what a     *)
(* model claims is taken only when the packet it was given has it.            *)
Grounded ==
    /\ \A r \in Given : r.answer.status = "SUPPORTED" /\ NeedsKnowledge(r.answer.route)
                            => r.answer.cites # {}
    /\ \A c \in Cited : Nature[c.object] # "EXAMPLE" /\ (c.bytes =< store[c.object] \/ c.object \in removed)

(* A source an answer cited can be opened as long as its object is in the     *)
(* store, although an import or a rule pack gives the object a row, and with  *)
(* it another id, after it was cited without one.                             *)
CitationsOpen == \A c \in Cited : store[c.object] # 0 => Opens(c)

(* The rows of a conversation are pairs of a question and its answer under    *)
(* consecutive numbers, although two questions may be asked at once and one   *)
(* may fail after its number was taken.                                       *)
Paired ==
    \A c \in Conversations :
        /\ \A r \in rows[c] : r.answer.question = r.user.question
        /\ {r.user.no : r \in rows[c]} = {2 * n - 1 : n \in 1 .. Cardinality(rows[c])}

(* What a model says of the question opens nothing to the user: whatever an   *)
(* answer tells of the case or of the knowledge was read for a question of    *)
(* the same conversation, at or before it, that had the right to it when it   *)
(* was asked.  (Not: that the user has the right still. A right that was      *)
(* revoked does not take back the answers the history hands to the model.)    *)
WithinRights ==
    \A c \in Conversations : \A r \in rows[c] : \A t \in r.answer.tells :
        \E q \in rows[c] :
            /\ q.answer.question = t.question /\ q.answer.no =< r.answer.no
            /\ t.right \in q.answer.rights

(* What is read of the case for a later answer of a session, or of a          *)
(* conversation on the history, is never an earlier state than was read for   *)
(* one before it; what a model retells of the history may be.                 *)
LaterTellsLater ==
    \A c \in Conversations : Scope[c] \in {"SESSION", "HISTORY"} =>
        \A r, q \in rows[c] :
            r.answer.no < q.answer.no /\ q.answer.facts # 0 => r.answer.facts =< q.answer.facts

(* The chunks of a document are of the one text its checksum is of.           *)
IndexIsOfItsText ==
    \A o \in Objects : row[o] # None => row[o].chunks \subseteq {row[o].bytes}
================================================================================
