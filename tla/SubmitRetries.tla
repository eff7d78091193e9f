----------------------------- MODULE SubmitRetries -----------------------------
(***************************************************************************)
(* Submitting a case over a network that delays and loses messages         *)
(* (SubmissionService.submit and the submit view that calls it).  The      *)
(* browser names each submission with a request id and keeps the id while  *)
(* it does not know the outcome; an attempt given up may still be on its   *)
(* way, or already answered, when the next one is made.  The server        *)
(* handles a command in one transaction that holds the case row.           *)
(***************************************************************************)
EXTENDS Integers, Sequences

CONSTANTS
    MaxVersion,    \* bound: versions of the case
    MaxAttempts    \* bound: commands the browser sends

VARIABLES
    phase,         \* valuation.cases.case_status
    version,       \* version_no of the authoritative report form
    submitted,     \* valuation.review_submissions, by submission_no
    judged,        \* the verdicts of the reviewer on them
    commands,      \* commands on their way to the server
    answers,       \* answers on their way to the browser
    attempts,      \* number of commands sent
    client         \* the submit view

serverVars == <<phase, version, submitted, judged>>
vars == <<serverVars, commands, answers, attempts, client>>

BoundAssumption == MaxVersion \in Nat /\ MaxAttempts \in Nat

---------------------------------------------------------------------------

Phases == {"PROCESSING", "IN_REVIEW", "REVISION_REQUIRED", "REVIEW_COMPLETED"}

\* Attempt a is the a-th command sent; id names the first attempt that used
\* the request id.  version is expected_case_version; the source run and
\* document of a command are those of the version it names.
Commands == [attempt : Nat, id : Nat, version : Nat]

\* submission = 0 is an error response.
Answers == [attempt : Nat, submission : Nat]

\* id: submitRequestId, 0 when null; waiting: the attempt whose promise is
\* pending, 0 when none; seen: the versions the page shows; told: the
\* submission the page reports as made for this round, 0 when none.
Clients == [id : Nat, waiting : Nat, seen : Nat, told : Nat]

TypeOK ==
    /\ phase \in Phases
    /\ version \in Nat
    /\ submitted \in Seq([id : Nat, version : Nat])
    /\ judged \in Seq({"NONE", "RETURNED_FOR_REVISION", "APPROVED"})
    /\ commands \subseteq Commands
    /\ answers \subseteq Answers
    /\ attempts \in Nat
    /\ client \in Clients

Init ==
    /\ phase = "PROCESSING"
    /\ version = 1
    /\ submitted = <<>>
    /\ judged = <<>>
    /\ commands = {}
    /\ answers = {}
    /\ attempts = 0
    /\ client = [id |-> 0, waiting |-> 0, seen |-> 1, told |-> 0]

---------------------------------------------------------------------------
(* The server *)

\* Mutant: the request id is not looked up.
ExistingNone(c) == {n \in DOMAIN submitted : submitted[n].id = 0 /\ c.id = 0}

\* The submission find_by_request finds for a command, if any.
Existing(c) == {n \in DOMAIN submitted : submitted[n].id = c.id}

\* Mutant: the previous version is not compared with.
PreviousVersionNone == 0

PreviousVersion == IF submitted = <<>> THEN 0 ELSE submitted[Len(submitted)].version

\* What submit asks of a command whose id is new.
Acceptable(c) ==
    /\ phase \in {"PROCESSING", "REVISION_REQUIRED"}
    /\ c.version = version
    /\ phase = "REVISION_REQUIRED" =>
          submitted # <<>> /\ version > PreviousVersion

Answered(c, n) ==
    /\ commands' = commands \ {c}
    /\ answers' = answers \cup {[attempt |-> c.attempt, submission |-> n]}
    /\ UNCHANGED <<version, attempts, client>>

\* Mutant: an id that was used before is answered whatever the command says.
ReplayUnchecked(c) ==
    /\ \E n \in Existing(c) : Answered(c, n)
    /\ UNCHANGED <<phase, submitted, judged>>

\* An id that was used before: the old answer, or a conflict when the content
\* differs (_require_matching_request).
Replay(c) ==
    /\ \E n \in Existing(c) :
          Answered(c, IF submitted[n].version = c.version THEN n ELSE 0)
    /\ UNCHANGED <<phase, submitted, judged>>

Accept(c) ==
    /\ Existing(c) = {}
    /\ Acceptable(c)
    /\ submitted' = Append(submitted, [id |-> c.id, version |-> c.version])
    /\ judged' = Append(judged, "NONE")
    /\ phase' = "IN_REVIEW"
    /\ Answered(c, Len(submitted) + 1)

\* A state or version conflict, or inputs _validate_readiness refuses.
Refuse(c) ==
    /\ Existing(c) = {}
    /\ Answered(c, 0)
    /\ UNCHANGED <<phase, submitted, judged>>

Handle(c) == Replay(c) \/ Accept(c) \/ Refuse(c)

\* Mutant: the decision of the review is written to the case.
JudgeVerbatim(verdict) ==
    /\ phase = "IN_REVIEW"
    /\ judged' = [judged EXCEPT ![Len(judged)] = verdict]
    /\ phase' = verdict
    /\ UNCHANGED <<version, submitted, commands, answers, attempts, client>>

\* The reviewer returns or approves the version under review.
Judge(verdict) ==
    /\ phase = "IN_REVIEW"
    /\ judged' = [judged EXCEPT ![Len(judged)] = verdict]
    /\ phase' = IF verdict = "APPROVED" THEN "REVIEW_COMPLETED"
                                             ELSE "REVISION_REQUIRED"
    /\ UNCHANGED <<version, submitted, commands, answers, attempts, client>>

\* The owner makes the next version of the report.
NewVersion ==
    /\ phase \in {"PROCESSING", "REVISION_REQUIRED"}
    /\ version < MaxVersion
    /\ version' = version + 1
    /\ UNCHANGED <<phase, submitted, judged, commands, answers, attempts, client>>

---------------------------------------------------------------------------
(* The browser *)

\* submitForReview: the id that is kept, or a new one.
Press ==
    /\ client.waiting = 0 /\ client.told = 0
    /\ attempts < MaxAttempts
    /\ attempts' = attempts + 1
    /\ LET id == IF client.id # 0 THEN client.id ELSE attempts + 1
       IN  /\ commands' = commands \cup
                 {[attempt |-> attempts + 1, id |-> id, version |-> client.seen]}
           /\ client' = [client EXCEPT !.id = id, !.waiting = attempts + 1]
    /\ UNCHANGED <<serverVars, answers>>

\* The id is dropped on success and on any error that has a response.
Learn(r) ==
    /\ client.waiting = r.attempt
    /\ client' = [client EXCEPT !.id = 0, !.waiting = 0, !.told = r.submission]
    /\ answers' = answers \ {r}
    /\ UNCHANGED <<serverVars, commands, attempts>>

\* The attempt ends without an answer of the application: keep the id when
\* there was no response at all, drop it when a proxy answered instead.
GiveUp ==
    /\ client.waiting # 0
    /\ \E id \in {client.id, 0} : client' = [client EXCEPT !.id = id, !.waiting = 0]
    /\ UNCHANGED <<serverVars, commands, answers, attempts>>

\* loadData: the page shows the current version, and the latest submission
\* while the case is with the reviewer; it keeps the id of the same case,
\* which a new page does not have.
Reload ==
    /\ client.waiting = 0
    /\ \E id \in {client.id, 0} :
          client' = [client EXCEPT !.id = id, !.seen = version,
                        !.told = IF phase \in {"IN_REVIEW", "REVIEW_COMPLETED"}
                                 THEN Len(submitted) ELSE 0]
    /\ UNCHANGED <<serverVars, commands, answers, attempts>>

Lose ==
    /\ \/ \E c \in commands : commands' = commands \ {c} /\ UNCHANGED answers
       \/ \E r \in answers : answers' = answers \ {r} /\ UNCHANGED commands
    /\ UNCHANGED <<serverVars, attempts, client>>

Next ==
    \/ \E c \in commands : Handle(c)
    \/ \E verdict \in {"RETURNED_FOR_REVISION", "APPROVED"} : Judge(verdict)
    \/ NewVersion \/ Press \/ GiveUp \/ Reload \/ Lose
    \/ \E r \in answers : Learn(r)

Spec == Init /\ [][Next]_vars

---------------------------------------------------------------------------
(* What must hold *)

\* However a submission was retried, abandoned or renamed, no version of a
\* case is handed over twice, and a command that was made for an older
\* version never takes effect, however late it arrives.
NothingTwice ==
    /\ \A i, j \in DOMAIN submitted :
          i < j => submitted[i].version < submitted[j].version
    /\ \A i, j \in DOMAIN submitted :
          submitted[i].id = submitted[j].id => i = j

\* A page that reports a submission reports one that exists and that is of
\* the version the page shows: a retry is never answered with the submission
\* of something else.
ToldIsTrue ==
    client.told # 0 =>
        /\ client.told \in DOMAIN submitted
        /\ client.seen = submitted[client.told].version

Rounds ==
    [n \in DOMAIN submitted |->
        [version |-> submitted[n].version, verdict |-> judged[n]]]

Handoff == INSTANCE VersionVerdicts WITH rounds <- Rounds, Versions <- 1..MaxVersion

\* Retries are invisible: the submissions are a behaviour of the handoff in
\* which every version is submitted at most once, after a return, and no
\* submission follows an approval.
RetriesRefineHandoff == Handoff!Spec
=============================================================================
