------------------------------ MODULE FormRequests ------------------------------
(***************************************************************************)
(* Requests to the F03 form of one case (valuation/operations/router.py).  *)
(* A request begins its transaction, which fixes the time the database     *)
(* gives to its rows, waits for the row of the case and then does its      *)
(* whole work; a client may send a request id again, also while the first  *)
(* one is still under way.                                                 *)
(***************************************************************************)
EXTENDS BenchmarkForm

CONSTANTS
    RequestIds,    \* request ids
    MaxTime,       \* transactions begun
    MaxOpen,       \* transactions waiting at a time
    Changes        \* what changes around the form in the instance

VARIABLES
    book,          \* the rows of the form
    now,           \* the time of the database
    open,          \* transactions that wait for the row of the case
    answered       \* what the clients were told: [op, request, row]

formVars == <<book, now, open, answered>>

Ops == {"calculate", "validate", "report"}

FormTypeOK ==
    /\ book.status \in {"DRAFT", "READY"}
    /\ book.editable \in BOOLEAN /\ book.covered \in BOOLEAN
    /\ book.draft \in Drafts \cup {Unset} /\ book.price \in Nat \cup {Unset}
    /\ book.active \subseteq Documents /\ book.readable \subseteq Documents
    /\ book.calcs \in Seq([request : RequestIds, time : Nat, inputs : Drafts, result : Nat,
                           ready : BOOLEAN])
    /\ book.runs \in Seq([request : RequestIds, calc : 0 .. Len(book.calcs),
                          failed : SUBSET {"F03_REQUIRED_DOCUMENTS", "F03_MINIO_OBJECTS"}])
    /\ book.reports \in Seq([request : RequestIds, inputs : Drafts,
                             calc : 1 .. Len(book.calcs), run : 1 .. Len(book.runs),
                             made : 1 .. Len(book.calcs), result : Nat])
    /\ now \in 0 .. MaxTime
    /\ open \subseteq [op : Ops, request : RequestIds, began : Nat]
    /\ answered \subseteq [op : Ops, request : RequestIds, row : Nat \ {0}]

FormInit == book = NewBook /\ now = 0 /\ open = {} /\ answered = {}

---------------------------------------------------------------------------

Begin(op, r) ==
    /\ now < MaxTime /\ Cardinality(open) < MaxOpen
    /\ open' = open \cup {[op |-> op, request |-> r, began |-> now]}
    /\ now' = now + 1
    /\ UNCHANGED <<book, answered>>

Answer(t) ==
    CASE t.op = "calculate" -> CalculateForm(book, t.request, t.began)
      [] t.op = "validate"  -> ValidateForm(book, t.request)
      [] t.op = "report"    -> Report(book, t.request)

Finish(t) ==
    LET a == Answer(t)
    IN /\ t \in open
       /\ open' = open \ {t}
       /\ book' = a.book
       /\ answered' = IF a.ok
                      THEN answered \cup {[op |-> t.op, request |-> t.request, row |-> a.row]}
                      ELSE answered
       /\ UNCHANGED now

Save == \E e \in Edits : /\ SaveDraft(book, e).ok
                         /\ book' = SaveDraft(book, e).book
                         /\ UNCHANGED <<now, open, answered>>

SubmitBook == /\ SubmitForm(book).ok /\ book' = SubmitForm(book).book
          /\ UNCHANGED <<now, open, answered>>

\* The case goes to the review and comes back, documents are deactivated and
\* uploaded again, the store loses an object, rule packs come and go.
Surroundings ==
    /\ \/ "case" \in Changes /\ book' = [book EXCEPT !.editable = ~@]
       \/ "documents" \in Changes /\ \E d \in Documents :
             \/ book' = [book EXCEPT !.active = @ \ {d}]
             \/ book' = [book EXCEPT !.active = @ \cup {d}, !.readable = @ \cup {d}]
             \/ book' = [book EXCEPT !.readable = @ \ {d}]
       \/ "rules" \in Changes /\ book' = [book EXCEPT !.covered = ~@]
    /\ UNCHANGED <<now, open, answered>>

FormNext ==
    \/ \E op \in Ops, r \in RequestIds : Begin(op, r)
    \/ \E t \in open : Finish(t)
    \/ Save \/ SubmitBook \/ Surroundings

FormSpec == FormInit /\ [][FormNext]_formVars

---------------------------------------------------------------------------
(* Properties *)

\* However often and however close together a request is sent, it makes at
\* most one calculation, one check and one PDF, and every answer to it names
\* the same one: the lock of the case does it, the unique indexes never act.
OneRowPerRequest ==
    /\ \A r \in RequestIds : \A rows \in {book.calcs, book.runs, book.reports} :
           Cardinality({i \in DOMAIN rows : rows[i].request = r}) =< 1
    /\ \A a, b \in answered : a.op = b.op /\ a.request = b.request => a.row = b.row

\* The price of the draft is that of the calculation that was made last, in
\* whatever order the transactions had begun.
PriceIsLastResult ==
    book.price = IF book.calcs = <<>> THEN Unset ELSE book.calcs[Len(book.calcs)].result

\* A PDF whose calculation was made when the form had been submitted shows
\* inputs that give its result, also if the calculation waited for others.
SubmittedReportsAddUp ==
    \A i \in DOMAIN book.reports :
        LET p == book.reports[i]
        IN book.calcs[p.calc].ready => p.inputs = book.calcs[p.calc].inputs

\* Every PDF was preceded by a check without errors of its own calculation,
\* and a later PDF rests on no earlier check.
ReportsRestOnTheirCheck ==
    \A i \in DOMAIN book.reports :
        LET p == book.reports[i]
        IN /\ book.runs[p.run].failed = {} /\ book.runs[p.run].calc = p.calc
           /\ \A j \in 1 .. i : book.reports[j].run =< p.run

\* A request for the F03 form has one calculation, one check and one PDF however
\* often it is sent; the draft has the price of the last one, and a PDF is of a
\* calculation that was checked, with inputs that give it.
ReportsAddUp ==
    OneRowPerRequest /\ PriceIsLastResult /\ SubmittedReportsAddUp /\ ReportsRestOnTheirCheck
================================================================================
