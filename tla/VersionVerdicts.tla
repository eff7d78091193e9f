---------------------------- MODULE VersionVerdicts ----------------------------
(***************************************************************************)
(* What the handoff between the owner and the reviewer promises, without   *)
(* packages, documents, runs, findings or requests: the owner submits      *)
(* versions of a case one at a time, the reviewer gives each at most one   *)
(* verdict and never takes it back, a version follows another only after   *)
(* that one was returned, and nothing follows an approval.                 *)
(***************************************************************************)
EXTENDS Integers, Sequences

CONSTANT Versions   \* the version numbers a case may reach

VARIABLE rounds     \* the submitted versions in order, each with its verdict

Verdicts == {"RETURNED_FOR_REVISION", "APPROVED"}

Last == rounds[Len(rounds)]

Init == rounds = <<>>

Submit(version) ==
    /\ rounds # <<>> => /\ Last.verdict = "RETURNED_FOR_REVISION"
                        /\ version > Last.version
    /\ rounds' = Append(rounds, [version |-> version, verdict |-> "NONE"])

Judge(verdict) ==
    /\ rounds # <<>>
    /\ Last.verdict = "NONE"
    /\ rounds' = [rounds EXCEPT ![Len(rounds)].verdict = verdict]

Next ==
    \/ \E version \in Versions : Submit(version)
    \/ \E verdict \in Verdicts : Judge(verdict)

Spec == Init /\ [][Next]_rounds
=============================================================================
