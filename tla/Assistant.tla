-------------------------------- MODULE Assistant --------------------------------
(***************************************************************************)
(* Messages to the assistant of a case (ai_assistant/service.py).  A       *)
(* message is one transaction: it writes the user's row, lets a language   *)
(* model call tools, and writes a row for each call and one for the reply. *)
(* The tools that change the F03 form lock the row of the case; the rows   *)
(* of a session are numbered, and the number of the first is all that      *)
(* keeps two messages of a session apart.                                  *)
(***************************************************************************)
EXTENDS BenchmarkForm, FiniteSetsExt

CONSTANTS
    Slots,         \* messages under way at a time
    Chats,         \* sessions of the case
    Messages,      \* messages, by their request ids
    Ask,           \* what each message asks for
    Model,         \* a language model answers; without it, a fixed list of calls
    MaxSent,       \* messages sent, sent again ones included
    MaxRounds,     \* ai_max_tool_rounds
    MaxCalls       \* calls in a response

\* save_form_draft does what apply_confirmed_fields does.
Reading   == {"get_missing_items"}
Operation == {"run_calculation", "run_validation", "generate_report_pdf"}
Tools     == Reading \cup {"apply_confirmed_fields"} \cup Operation

Asks ==
    [session : Chats, edit : Edits \cup {Unset}, candidate : BOOLEAN,
     confirmApply : BOOLEAN, requested : SUBSET Operation, confirmAction : BOOLEAN]

AssistantAssumption ==
    /\ Ask \in [Messages -> Asks] /\ Model \in BOOLEAN
    /\ MaxSent \in Nat /\ MaxRounds \in Nat \ {0} /\ MaxCalls \in Nat
    /\ Unset \notin Slots

VARIABLES
    kept,          \* what is committed of the case: the form, a candidate
    work,          \* the same, as the transaction that holds the case sees it
    holder,        \* the transaction that holds the row of the case
    rows,          \* the committed rows of each session
    tx,            \* the transactions
    sent

chatVars == <<kept, work, holder, rows, tx, sent>>

Row == [no : Nat, message : Messages, role : {"USER", "TOOL", "ASSISTANT"},
        tool : Tools \cup {Unset}, status : {"SUCCESS", "PENDING", "DENIED", Unset}, made : Nat]

Idle == [phase |-> "IDLE", message |-> Unset, number |-> 0, time |-> 0, rows |-> {},
         round |-> 0, calls |-> <<>>, done |-> {}, applied |-> FALSE, checked |-> FALSE]

ChatTypeOK ==
    /\ kept.candidate \in {"CONFIRMED", "APPLIED"} /\ work.candidate \in {"CONFIRMED", "APPLIED"}
    /\ holder \in Slots \cup {Unset}
    /\ holder = Unset => work = kept
    /\ rows \in [Chats -> SUBSET Row]
    /\ \A s \in Slots :
           /\ DOMAIN tx[s] = DOMAIN Idle
           /\ tx[s].phase \in {"IDLE", "NUMBERED", "ASKING", "CALLING"}
           /\ tx[s].rows \subseteq Row /\ tx[s].round =< MaxRounds
    /\ sent \in 0 .. MaxSent

ChatInit ==
    /\ kept = [form |-> NewBook, candidate |-> "CONFIRMED"]
    /\ work = kept /\ holder = Unset
    /\ rows = [c \in Chats |-> {}]
    /\ tx = [s \in Slots |-> Idle]
    /\ sent = 0

---------------------------------------------------------------------------
(* Rows of a session *)

Asked(s) == Ask[tx[s].message]
Here(s) == Asked(s).session

\* next_message_no.
NextNo(present) == 1 + Max({0} \cup {r.no : r \in present})

\* The rows of session c a transaction sees.
Seen(s, c) == rows[c] \cup tx[s].rows

NewRow(s, role, tool, status, made) ==
    [no |-> NextNo(Seen(s, Here(s))), message |-> tx[s].message, role |-> role,
     tool |-> tool, status |-> status, made |-> made]

---------------------------------------------------------------------------
(* Beginning and end of a transaction *)

\* Mutant: what a failed message did to the case stays.
FailKeeping(s) ==
    /\ tx' = [tx EXCEPT ![s] = Idle]
    /\ holder' = IF holder = s THEN Unset ELSE holder
    /\ kept' = IF holder = s THEN work ELSE kept
    /\ UNCHANGED <<work, rows, sent>>

\* Mutant: the transaction of a failed message is left open.
FailHolding(s) ==
    /\ tx' = [tx EXCEPT ![s] = Idle]
    /\ work' = IF holder = s THEN kept ELSE work
    /\ UNCHANGED <<kept, holder, rows, sent>>

Fail(s) ==
    /\ tx' = [tx EXCEPT ![s] = Idle]
    /\ holder' = IF holder = s THEN Unset ELSE holder
    /\ work' = IF holder = s THEN kept ELSE work
    /\ UNCHANGED <<kept, rows, sent>>

Reply(s) ==
    /\ rows' = [rows EXCEPT ![Here(s)] =
                    Seen(s, Here(s)) \cup {NewRow(s, "ASSISTANT", Unset, Unset, 0)}]
    /\ kept' = IF holder = s THEN work ELSE kept
    /\ holder' = IF holder = s THEN Unset ELSE holder
    /\ tx' = [tx EXCEPT ![s] = Idle]
    /\ UNCHANGED <<work, sent>>

\* The session is active and the case may be read, as it always may; the
\* number of the first row is read.
Send(s, m) ==
    /\ tx[s].phase = "IDLE" /\ sent < MaxSent
    /\ tx' = [tx EXCEPT ![s] = [Idle EXCEPT
                  !.phase = "NUMBERED", !.message = m, !.time = sent + 1,
                  !.number = NextNo(rows[Ask[m].session])]]
    /\ sent' = sent + 1
    /\ UNCHANGED <<kept, work, holder, rows>>

Wanted(ask, tool) == IF tool \in ask.requested THEN <<tool>> ELSE <<>>

\* The calls without a language model.
FixedCalls(ask) ==
    <<"get_missing_items">>
    \o (IF ask.edit # Unset \/ ask.candidate THEN <<"apply_confirmed_fields">> ELSE <<>>)
    \o Wanted(ask, "run_calculation") \o Wanted(ask, "run_validation")
    \o Wanted(ask, "generate_report_pdf")

\* uq_assistant_messages_no: an uncommitted row with the number is waited for.
NumberFree(s) ==
    \A t \in Slots \ {s} :
        ~(tx[t].phase \in {"ASKING", "CALLING"} /\ Here(t) = Here(s)
          /\ \E r \in tx[t].rows : r.no = tx[s].number)

\* The user's row is inserted, or its number has been given away.
Insert(s) ==
    /\ tx[s].phase = "NUMBERED" /\ NumberFree(s)
    /\ IF \E r \in rows[Here(s)] : r.no = tx[s].number THEN Fail(s)
       ELSE /\ tx' = [tx EXCEPT
                   ![s].rows = {[NewRow(s, "USER", Unset, Unset, 0) EXCEPT !.no = tx[s].number]},
                   ![s].phase = IF Model THEN "ASKING" ELSE "CALLING",
                   ![s].calls = IF Model THEN <<>> ELSE FixedCalls(Asked(s))]
            /\ UNCHANGED <<kept, work, holder, rows, sent>>

---------------------------------------------------------------------------
(* Tools *)

\* What becomes of a call, before it is carried out.
Verdict(s, tool) ==
    LET ask == Asked(s)
    IN CASE tool \in Reading -> "SUCCESS"
         [] tool = "apply_confirmed_fields" ->
                IF tx[s].applied THEN "SUCCESS"
                ELSE IF ask.confirmApply THEN "EXECUTE" ELSE "PENDING"
         [] tool \in Operation ->
                IF tool \notin ask.requested THEN "DENIED"
                ELSE IF tool # "run_validation" /\ ~ask.confirmAction THEN "PENDING"
                ELSE IF tool \in tx[s].done THEN "SUCCESS" ELSE "EXECUTE"

\* The fields a message confirms; a candidate's field is not a price.
Fields(ask) == IF ask.edit = Unset THEN [n \in {} |-> 0] ELSE ask.edit

\* What a tool answers about form b.
Executed(b, s, tool) ==
    CASE tool = "run_calculation"        -> CalculateForm(b, tx[s].message, tx[s].time)
      [] tool = "run_validation"         -> ValidateForm(b, tx[s].message)
      [] tool = "generate_report_pdf"    -> Report(b, tx[s].message)
      [] tool = "apply_confirmed_fields" -> SaveDraft(b, Fields(Asked(s)))

\* The next call, its row written.
Called(s, tool, status, made, done, applied) ==
    tx' = [tx EXCEPT ![s].rows = @ \cup {NewRow(s, "TOOL", tool, status, made)},
                     ![s].calls = Tail(@), ![s].done = done, ![s].applied = applied,
                     ![s].checked = FALSE]

\* A call that is not carried out.
Decline(s) ==
    LET tool == Head(tx[s].calls)
    IN /\ tx[s].phase = "CALLING" /\ tx[s].calls # <<>>
       /\ Verdict(s, tool) # "EXECUTE"
       /\ Called(s, tool, Verdict(s, tool), 0, tx[s].done, tx[s].applied)
       /\ UNCHANGED <<kept, work, holder, rows, sent>>

\* The user may have lost the rights the tool needs, and they are looked at
\* before anything else; that ends the message.
Forbid(s) ==
    /\ tx[s].phase = "CALLING" /\ tx[s].calls # <<>> /\ ~tx[s].checked
    /\ LET tool == Head(tx[s].calls)
       IN tool \in Reading \/ Verdict(s, tool) = "EXECUTE"
    /\ Fail(s)

\* get_confirmed_candidate, before the case is locked.
CheckCandidate(s) ==
    /\ tx[s].phase = "CALLING" /\ tx[s].calls # <<>> /\ ~tx[s].checked
    /\ Head(tx[s].calls) = "apply_confirmed_fields"
    /\ Verdict(s, Head(tx[s].calls)) = "EXECUTE"
    /\ IF \/ Asked(s).candidate /\ (IF holder = s THEN work ELSE kept).candidate # "CONFIRMED"
          \/ ~Asked(s).candidate /\ Asked(s).edit = Unset
       THEN Fail(s)
       ELSE /\ tx' = [tx EXCEPT ![s].checked = TRUE]
            /\ UNCHANGED <<kept, work, holder, rows, sent>>

\* A call that is carried out, the row of the case held from then on.  What
\* the service refuses ends the message.
Execute(s) ==
    LET tool   == Head(tx[s].calls)
        answer == Executed(work.form, s, tool)
        apply  == tool = "apply_confirmed_fields"
    IN /\ tx[s].phase = "CALLING" /\ tx[s].calls # <<>> /\ holder \in {Unset, s}
       /\ Verdict(s, tool) = "EXECUTE"
       /\ apply => tx[s].checked
       /\ IF ~answer.ok THEN Fail(s)
          ELSE /\ work' = [form |-> answer.book,
                           candidate |-> IF apply /\ Asked(s).candidate THEN "APPLIED"
                                         ELSE work.candidate]
               /\ holder' = s
               /\ Called(s, tool, "SUCCESS", answer.row,
                         IF apply THEN tx[s].done ELSE tx[s].done \cup {tool},
                         apply \/ tx[s].applied)
               /\ UNCHANGED <<kept, rows, sent>>

---------------------------------------------------------------------------
(* The language model *)

\* Any tools may be called, in any order and number; a tool the assistant does
\* not have, or no answer in time, ends the message.
Respond(s) ==
    /\ tx[s].phase = "ASKING"
    /\ \/ Reply(s)
       \/ Fail(s)
       \/ \E calls \in UNION {[1 .. n -> Tools] : n \in 1 .. MaxCalls} :
              /\ tx' = [tx EXCEPT ![s].calls = calls, ![s].phase = "CALLING",
                                  ![s].done = {}, ![s].round = @ + 1]
              /\ UNCHANGED <<kept, work, holder, rows, sent>>

\* All calls of a response are answered: the model is asked again, unless this
\* was the last round.
EndRound(s) ==
    /\ tx[s].phase = "CALLING" /\ tx[s].calls = <<>>
    /\ IF ~Model THEN Reply(s)
       ELSE IF tx[s].round = MaxRounds THEN Fail(s)
       ELSE /\ tx' = [tx EXCEPT ![s].phase = "ASKING"]
            /\ UNCHANGED <<kept, work, holder, rows, sent>>

---------------------------------------------------------------------------

\* Requests that do not go through the assistant.
OtherRequest ==
    /\ holder = Unset
    /\ \/ \E e \in Edits : kept' = [kept EXCEPT !.form = SaveDraft(kept.form, e).book]
       \/ kept' = [kept EXCEPT !.form = SubmitForm(kept.form).book]
       \/ kept' = [kept EXCEPT !.form.editable = FALSE]
    /\ work' = kept'
    /\ UNCHANGED <<holder, rows, tx, sent>>

Step(s) == \/ Insert(s) \/ Decline(s) \/ Forbid(s) \/ CheckCandidate(s) \/ Execute(s)
           \/ Respond(s) \/ EndRound(s)

ChatNext == \/ \E s \in Slots, m \in Messages : Send(s, m)
        \/ \E s \in Slots : Step(s)
        \/ OtherRequest

\* The service goes on with what it has begun, the model's client gives up
\* after a time, and a lock is given to the transaction that waits for it.
ChatFairness == \A s \in Slots : WF_chatVars(Step(s))

ChatSpec == ChatInit /\ [][ChatNext]_chatVars /\ ChatFairness

---------------------------------------------------------------------------
(* Properties *)

RowNo(c, n) == CHOOSE r \in rows[c] : r.no = n

\* The rows of a session are numbered without gaps, and each message is there
\* as a whole: from the user's row to the reply, nothing of another between.
BlocksWhole ==
    \A c \in Chats :
        /\ {r.no : r \in rows[c]} = 1 .. Cardinality(rows[c])
        /\ \A n \in 1 .. Cardinality(rows[c]) :
               LET r == RowNo(c, n)
                   first == n = 1 \/ RowNo(c, n - 1).role = "ASSISTANT"
               IN /\ (r.role = "USER") = first
                  /\ ~first => r.message = RowNo(c, n - 1).message
                  /\ n = Cardinality(rows[c]) => r.role = "ASSISTANT"

\* A committed row of a tool.
Told(m, tool, made) ==
    \E r \in rows[Ask[m].session] :
        r.message = m /\ r.tool = tool /\ r.status = "SUCCESS" /\ r.made = made

\* What messages leave in the form is exactly what their rows say: nothing is
\* kept of a message that failed, and nothing is said that is not kept.
FormIsAsTold ==
    /\ \A i \in DOMAIN kept.form.calcs :
           Told(kept.form.calcs[i].request, "run_calculation", i)
    /\ \A i \in DOMAIN kept.form.runs :
           Told(kept.form.runs[i].request, "run_validation", i)
    /\ \A i \in DOMAIN kept.form.reports :
           Told(kept.form.reports[i].request, "generate_report_pdf", i)
    /\ kept.candidate = "APPLIED" =>
           \E m \in Messages : Ask[m].candidate /\ Told(m, "apply_confirmed_fields", 0)
    /\ \A c \in Chats : \A r \in rows[c] :
           /\ r.tool = "run_calculation" => r.made =< Len(kept.form.calcs)
           /\ r.tool = "generate_report_pdf" => r.made =< Len(kept.form.reports)

\* Whatever the model calls, only what the user asked for and confirmed is done.
OnlyWhatWasConfirmed ==
    /\ \A i \in DOMAIN kept.form.calcs :
           /\ "run_calculation" \in Ask[kept.form.calcs[i].request].requested
           /\ Ask[kept.form.calcs[i].request].confirmAction
    /\ \A i \in DOMAIN kept.form.reports :
           /\ "generate_report_pdf" \in Ask[kept.form.reports[i].request].requested
           /\ Ask[kept.form.reports[i].request].confirmAction
    /\ kept.candidate = "APPLIED" =>
           \E m \in Messages : Ask[m].candidate /\ Ask[m].confirmApply

\* What messages leave in the form is what their rows say and what the user
\* confirmed; each message is there as a whole, with nothing of another between.
TellsWhatHappened == BlocksWhole /\ FormIsAsTold /\ OnlyWhatWasConfirmed
================================================================================
