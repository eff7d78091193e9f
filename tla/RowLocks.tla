------------------------------- MODULE RowLocks -------------------------------
(***************************************************************************)
(* The row locks that the requests on one case take, and the order they    *)
(* take them in.  SELECT ... FOR UPDATE is explicit in the code; inserting *)
(* a row whose foreign key names the case takes FOR KEY SHARE on the case  *)
(* row, which FOR UPDATE excludes.  PostgreSQL grants a row in the order   *)
(* of arrival, releases everything at the end of the transaction, and      *)
(* aborts one of the transactions that wait for each other in a circle.    *)
(***************************************************************************)
EXTENDS Integers, Sequences, FiniteSets

CONSTANTS
    Sessions,   \* database sessions of the API, one per request
    Kinds       \* the kinds of request this instance makes

VARIABLES
    plan,       \* session -> what is left of its locks to take
    holds,      \* session -> the locks it holds
    queue       \* row -> the sessions waiting for it, in order of arrival

vars == <<plan, holds, queue>>

---------------------------------------------------------------------------

TableRows == {"case", "review", "request", "finding"}

ForUpdate(row) == [row |-> row, mode |-> "UPDATE"]
KeyShare(row)  == [row |-> row, mode |-> "KEY SHARE"]

Locks == [row : TableRows, mode : {"UPDATE", "KEY SHARE"}]

\* _owned_editable_case, and then rows of the case, whose keys it may share
\* since it has the row.
OwnerEdit == <<ForUpdate("case")>>

\* submit, whose revision registers the response to the open request.
Resubmit == <<ForUpdate("case"), ForUpdate("review"), ForUpdate("request")>>

\* CorrectionService.send, register_resubmission, recheck and complete_review.
SendRequest == <<ForUpdate("case"), ForUpdate("review"), ForUpdate("request")>>
\* Mutant: the review is locked before the case.
CompleteReviewFirst == <<ForUpdate("review"), ForUpdate("case")>>

Complete    == <<ForUpdate("case"), ForUpdate("review")>>

\* assign, set_priority, update, check_completeness and create_draft.
ReviewOnly == <<ForUpdate("review")>>

Triage == <<ForUpdate("review"), ForUpdate("finding")>>

\* create_run, reached by rerun and start: the review is locked first and the
\* validation run is inserted with the case's key.
Run == <<ForUpdate("review"), KeyShare("case")>>

Plan(kind) ==
    CASE kind = "edit"     -> OwnerEdit
      [] kind = "submit"   -> Resubmit
      [] kind = "send"     -> SendRequest
      [] kind = "complete" -> Complete
      [] kind = "review"   -> ReviewOnly
      [] kind = "triage"   -> Triage
      [] kind = "run"      -> Run

ASSUME KindAssumption ==
    Kinds \subseteq {"edit", "submit", "send", "complete", "review", "triage", "run"}

\* A session with nothing left to take and nothing held is free.
Free(s) == plan[s] = <<>> /\ holds[s] = {}

Queued(s) == \E row \in TableRows : \E n \in DOMAIN queue[row] : queue[row][n] = s

TypeOK ==
    /\ plan \in [Sessions -> Seq(Locks)]
    /\ holds \in [Sessions -> SUBSET Locks]
    /\ queue \in [TableRows -> Seq(Sessions)]

Init ==
    /\ plan = [s \in Sessions |-> <<>>]
    /\ holds = [s \in Sessions |-> {}]
    /\ queue = [row \in TableRows |-> <<>>]

---------------------------------------------------------------------------

Conflict(a, b) == a.row = b.row /\ (a.mode = "UPDATE" \/ b.mode = "UPDATE")

\* The sessions whose locks keep s from what it asks for.
Holders(s) ==
    {t \in Sessions \ {s} : \E lock \in holds[t] : Conflict(lock, Head(plan[s]))}

\* Those that asked before it for something it conflicts with.
Ahead(s) ==
    LET row == Head(plan[s]).row
    IN  {t \in Sessions : \E m, n \in DOMAIN queue[row] :
            m < n /\ queue[row][m] = t /\ queue[row][n] = s
            /\ Conflict(Head(plan[t]), Head(plan[s]))}

Blockers(s) == Holders(s) \cup Ahead(s)

\* s leaves the queue it waits in.
Leave(s) ==
    LET row == Head(plan[s]).row
    IN  \E n \in DOMAIN queue[row] :
            /\ queue[row][n] = s
            /\ queue' = [queue EXCEPT ![row] = SubSeq(@, 1, n - 1) \o SubSeq(@, n + 1, Len(@))]

Begin(s, kind) ==
    /\ Free(s)
    /\ plan' = [plan EXCEPT ![s] = Plan(kind)]
    /\ UNCHANGED <<holds, queue>>

Request(s) ==
    /\ plan[s] # <<>> /\ ~Queued(s)
    /\ queue' = [queue EXCEPT ![Head(plan[s]).row] = Append(@, s)]
    /\ UNCHANGED <<plan, holds>>

\* Mutant: the lock is taken in a mode the others do not know.
GrantWeak(s) ==
    /\ Queued(s) /\ Blockers(s) = {}
    /\ holds' = [holds EXCEPT ![s] = @ \cup {[Head(plan[s]) EXCEPT !.mode = "SHARE"]}]
    /\ plan' = [plan EXCEPT ![s] = Tail(@)]
    /\ Leave(s)

Grant(s) ==
    /\ Queued(s) /\ Blockers(s) = {}
    /\ holds' = [holds EXCEPT ![s] = @ \cup {Head(plan[s])}]
    /\ plan' = [plan EXCEPT ![s] = Tail(@)]
    /\ Leave(s)

\* Mutant: a session goes back to the pool with its transaction open.
EndOpen(s) ==
    /\ holds[s] # {} /\ plan[s] # <<>> /\ ~Queued(s)
    /\ plan' = [plan EXCEPT ![s] = <<>>]
    /\ UNCHANGED <<holds, queue>>

\* get_db_session: commit or roll back, and every lock is released; a handler
\* may fail with any of its locks still to take.
End(s) ==
    /\ holds[s] # {} /\ ~Queued(s)
    /\ plan' = [plan EXCEPT ![s] = <<>>]
    /\ holds' = [holds EXCEPT ![s] = {}]
    /\ UNCHANGED queue

\* Those that t waits for.
WaitsFor(t) == IF Queued(t) THEN Blockers(t) ELSE {}

\* C has with every session those that it waits for.
Closed(C) == \A t \in C : WaitsFor(t) \subseteq C

\* Those that s waits for, directly or through others.
Reaches(s) ==
    {t \in Sessions : \A C \in SUBSET Sessions :
        WaitsFor(s) \subseteq C /\ Closed(C) => t \in C}

\* s waits for itself through others.
InCircle(s) == Queued(s) /\ s \in Reaches(s)

\* The deadlock detector chooses one of the circle; its request fails.
Abort(s) ==
    /\ InCircle(s)
    /\ plan' = [plan EXCEPT ![s] = <<>>]
    /\ holds' = [holds EXCEPT ![s] = {}]
    /\ Leave(s)

\* A request is at one of the three at a time.
Proceed(s) == Request(s) \/ Grant(s) \/ End(s)

Next ==
    \E s \in Sessions :
        \/ \E kind \in Kinds : Begin(s, kind)
        \/ Proceed(s) \/ Abort(s)

\* A handler in progress goes on to its end, PostgreSQL grants a lock that is
\* free for its first waiter, and the detector runs whenever there is a
\* circle.  No request has to begin.
Fairness ==
    /\ \A s \in Sessions : WF_vars(Proceed(s))
    /\ WF_vars(\E s \in Sessions : Abort(s))

Spec == Init /\ [][Next]_vars /\ Fairness

---------------------------------------------------------------------------
(* What must hold *)

\* No request waits for itself: the lock order of the code is one order.
NoDeadlock == \A s \in Sessions : ~InCircle(s)

\* Every request comes to its end, whatever else happens on the case: it is
\* neither starved by the others in a queue nor left in a deadlock.
EveryRequestEnds == \A s \in Sessions : plan[s] # <<>> ~> Free(s)

\* A transaction is only ever killed in favour of one that ran create_run:
\* wherever there is a circle, one of its members locked the review first and
\* needs the key of the case.
OnlyRunsDeadlock ==
    (\E s \in Sessions : InCircle(s)) =>
        \E s \in Sessions : InCircle(s) /\ Head(plan[s]) = KeyShare("case")
=============================================================================
