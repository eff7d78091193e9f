------------------------------ MODULE DesksProofs ------------------------------
(***************************************************************************)
(* Proofs about what several people do at the rows of one review.          *)
(*                                                                         *)
(* SubmitRetries: its types, that no version is handed over twice, that    *)
(* what the page tells is true, and that it implements the handoff of      *)
(* VersionVerdicts.                                                        *)
(*                                                                         *)
(* ReviewRounds, under ReviewReports and ReviewDesk: that a report is of   *)
(* one round and comes with the decisions it shows, that open items block, *)
(* and that a completion stays.                                            *)
(***************************************************************************)
EXTENDS SubmitRetries, ReviewDesk, ReviewReports, SequenceTheorems, WellFoundedInduction, TLAPS

---------------------------------------------------------------------------
(* The submit view: the inductive invariant *)

Judgement  == {"NONE", "RETURNED_FOR_REVISION", "APPROVED"}

\* What the row of the case says of the newest submission and its verdict.
CaseFollows ==
    /\ Len(judged) = Len(submitted)
    /\ phase = "PROCESSING" => submitted = <<>>
    /\ phase # "PROCESSING" => submitted # <<>>
    /\ phase = "IN_REVIEW" => judged[Len(judged)] = "NONE"
    /\ phase = "REVISION_REQUIRED" => judged[Len(judged)] = "RETURNED_FOR_REVISION"
    /\ phase \in {"IN_REVIEW", "REVIEW_COMPLETED"} =>
          submitted[Len(submitted)].version = version
    /\ \A n \in DOMAIN submitted : submitted[n].version =< version

\* Numbers of attempts are given out in order, and what is on its way of one
\* was given out.
AttemptsKnown ==
    /\ \A c \in commands : c.attempt \in 1 .. attempts
    /\ \A r \in answers : r.attempt \in 1 .. attempts

\* A command of the attempt the page waits for names the version it shows, and
\* an answer is the submission of that version.
CommandsMatch ==
    \A c \in commands : c.attempt = client.waiting => c.version = client.seen

AnswersMatch ==
    \A r \in answers :
        r.submission # 0 =>
            /\ r.submission \in DOMAIN submitted
            /\ r.attempt = client.waiting =>
                  submitted[r.submission].version = client.seen

IInv ==
    /\ TypeOK /\ CaseFollows /\ NothingTwice /\ AttemptsKnown
    /\ CommandsMatch /\ AnswersMatch /\ ToldIsTrue

---------------------------------------------------------------------------
(* Steps that leave the submitted alone *)

\* A step that answers c with n keeps what is said of commands and answers,
\* when n is no submission or one of the version c names.
LEMMA AnsweredKeeps ==
    ASSUME IInv, NEW c \in commands, NEW n \in Nat, Answered(c, n),
           n # 0 => n \in DOMAIN submitted' /\ submitted'[n].version = c.version,
           DOMAIN submitted \subseteq DOMAIN submitted',
           \A k \in DOMAIN submitted : submitted'[k] = submitted[k]
    PROVE  /\ commands' \subseteq Commands /\ answers' \subseteq Answers
           /\ AttemptsKnown' /\ CommandsMatch' /\ AnswersMatch' /\ ToldIsTrue'
<1>1. PICK a : a = [attempt |-> c.attempt, submission |-> n]
  OBVIOUS
<1>2. a.attempt = c.attempt /\ a.submission = n
  BY <1>1
<1>3. commands' = commands \ {c} /\ answers' = answers \cup {a} /\ UNCHANGED <<attempts, client>>
  BY <1>1 DEF Answered
<1>4. c \in Commands /\ c.attempt \in 1 .. attempts
  BY DEF IInv, TypeOK, AttemptsKnown
<1>5. commands' \subseteq Commands /\ answers' \subseteq Answers
  BY <1>1, <1>3, <1>4 DEF IInv, TypeOK, Answers, Commands
<1>6. AttemptsKnown' /\ CommandsMatch'
  BY <1>2, <1>3, <1>4 DEF IInv, AttemptsKnown, CommandsMatch
<1>7. AnswersMatch'
  <2> SUFFICES ASSUME NEW r \in answers', r.submission # 0
               PROVE  /\ r.submission \in DOMAIN submitted'
                      /\ r.attempt = client'.waiting =>
                            submitted'[r.submission].version = client'.seen
    BY DEF AnswersMatch
  <2>1. CASE r \in answers
    BY <2>1, <1>3 DEF IInv, AnswersMatch
  <2>2. CASE r = a
    BY <2>2, <1>2, <1>3 DEF IInv, CommandsMatch
  <2> QED
    BY <2>1, <2>2, <1>3
<1>8. ToldIsTrue'
  BY <1>3 DEF IInv, ToldIsTrue
<1> QED
  BY <1>5, <1>6, <1>7, <1>8

---------------------------------------------------------------------------
(* The server *)

\* A version that was handed over is answered with its submission.
LEMMA ReplayKeeps ==
    ASSUME IInv, NEW c \in commands, Replay(c) PROVE IInv'
<1>1. PICK n \in Existing(c) : Answered(c, IF submitted[n].version = c.version THEN n ELSE 0)
  BY DEF Replay
<1>2. UNCHANGED <<serverVars, attempts, client>>
  BY <1>1 DEF Replay, Answered, serverVars
<1>3. DEFINE k == IF submitted[n].version = c.version THEN n ELSE 0
<1>4. k \in Nat /\ (k # 0 => k \in DOMAIN submitted /\ submitted[k].version = c.version)
  BY DEF Existing, IInv, TypeOK
<1>5. /\ commands' \subseteq Commands /\ answers' \subseteq Answers
      /\ AttemptsKnown' /\ CommandsMatch' /\ AnswersMatch' /\ ToldIsTrue'
  <2> HIDE DEF k
  <2>1. Answered(c, k)
    BY <1>1 DEF k
  <2> QED
    BY <1>2, <1>4, <2>1, AnsweredKeeps DEF serverVars
<1>6. TypeOK' /\ CaseFollows' /\ NothingTwice'
  BY <1>2, <1>5 DEF IInv, TypeOK, CaseFollows, NothingTwice, serverVars
<1> QED
  BY <1>5, <1>6 DEF IInv

\* A refusal answers with no submission.
LEMMA RefuseKeeps ==
    ASSUME IInv, NEW c \in commands, Refuse(c) PROVE IInv'
<1>1. UNCHANGED <<serverVars, attempts, client>> /\ Answered(c, 0)
  BY DEF Refuse, Answered, serverVars
<1>2. /\ commands' \subseteq Commands /\ answers' \subseteq Answers
      /\ AttemptsKnown' /\ CommandsMatch' /\ AnswersMatch' /\ ToldIsTrue'
  BY <1>1, AnsweredKeeps DEF serverVars
<1>3. TypeOK' /\ CaseFollows' /\ NothingTwice'
  BY <1>1, <1>2 DEF IInv, TypeOK, CaseFollows, NothingTwice, serverVars
<1> QED
  BY <1>2, <1>3 DEF IInv

\* An accepted submission follows all others: the case is at a version none of
\* them has reached.
LEMMA AcceptKeeps ==
    ASSUME IInv, NEW c \in commands, Accept(c) PROVE IInv'
<1>1. PICK s : s = [id |-> c.id, version |-> c.version]
  OBVIOUS
<1>2. /\ submitted' = Append(submitted, s) /\ judged' = Append(judged, "NONE")
      /\ phase' = "IN_REVIEW" /\ Answered(c, Len(submitted) + 1)
      /\ UNCHANGED <<version, attempts, client>>
  BY <1>1 DEF Accept, Answered
<1>3. c \in Commands /\ s \in [id : Nat, version : Nat] /\ s.id = c.id /\ s.version = version
  BY <1>1 DEF IInv, TypeOK, Commands, Accept, Acceptable
<1>4. /\ submitted \in Seq([id : Nat, version : Nat])
      /\ judged \in Seq({"NONE", "RETURNED_FOR_REVISION", "APPROVED"})
      /\ version \in Nat /\ Len(judged) = Len(submitted)
  BY DEF IInv, TypeOK, CaseFollows
<1>5. DEFINE N == Len(submitted)
<1>6. /\ N \in Nat /\ DOMAIN submitted = 1 .. N /\ DOMAIN submitted' = 1 .. N + 1
      /\ submitted'[N + 1] = s /\ \A k \in 1 .. N : submitted'[k] = submitted[k]
      /\ Len(submitted') = N + 1 /\ submitted' \in Seq([id : Nat, version : Nat])
  BY <1>2, <1>3, <1>4
<1>7. /\ Len(judged') = N + 1 /\ judged'[N + 1] = "NONE"
      /\ judged' \in Seq({"NONE", "RETURNED_FOR_REVISION", "APPROVED"})
  BY <1>2, <1>4
<1> HIDE DEF N
<1>8. /\ commands' \subseteq Commands /\ answers' \subseteq Answers
      /\ AttemptsKnown' /\ CommandsMatch' /\ AnswersMatch' /\ ToldIsTrue'
  <2>1. Answered(c, N + 1) /\ N + 1 \in Nat /\ submitted'[N + 1].version = c.version
    BY <1>1, <1>2, <1>6 DEF N
  <2>2. N + 1 \in DOMAIN submitted' /\ DOMAIN submitted \subseteq DOMAIN submitted'
    BY <1>6
  <2>3. \A k \in DOMAIN submitted : submitted'[k] = submitted[k]
    BY <1>6
  <2> QED
    BY <2>1, <2>2, <2>3, AnsweredKeeps
<1>9. \A k \in 1 .. N : submitted[k] \in [id : Nat, version : Nat] /\ submitted[k].version < version
  <2>1. \A k \in 1 .. N : submitted[k] \in [id : Nat, version : Nat]
    BY <1>4, ElementOfSeq DEF N
  <2>2. CASE phase = "PROCESSING"
    BY <1>6, <2>1, <2>2 DEF IInv, CaseFollows, N
  <2>3. CASE phase = "REVISION_REQUIRED"
    <3>1. N # 0 /\ version > submitted[N].version
      BY <2>3, <1>3, <1>4, <1>6 DEF Accept, Acceptable, PreviousVersion, N
    <3>2. N \in DOMAIN submitted
      BY <1>6, <3>1
    <3>3. \A k \in DOMAIN submitted : k < N => submitted[k].version < submitted[N].version
      BY <3>2 DEF IInv, NothingTwice
    <3>4. ASSUME NEW k \in 1 .. N PROVE submitted[k].version < version
      <4>1. submitted[k].version \in Nat /\ submitted[N].version \in Nat /\ k \in DOMAIN submitted
        BY <1>6, <2>1, <3>1
      <4>2. k = N \/ k < N
        BY <1>6
      <4>3. submitted[N].version < version
        BY <3>1, <4>1, <1>4
      <4> QED
        BY <4>1, <4>2, <4>3, <3>3, <1>4
    <3> QED
      BY <2>1, <3>4
  <2> QED
    BY <2>2, <2>3 DEF Accept, Acceptable
<1>10. \A k \in 1 .. N : submitted[k].id # s.id
  BY <1>3, <1>6 DEF Accept, Existing
<1>11. NothingTwice'
  <2> SUFFICES ASSUME NEW i \in 1 .. N + 1, NEW j \in 1 .. N + 1
               PROVE  /\ i < j => submitted'[i].version < submitted'[j].version
                      /\ submitted'[i].id = submitted'[j].id => i = j
    BY <1>6 DEF NothingTwice
  <2>1. CASE i \in 1 .. N /\ j \in 1 .. N
    BY <2>1, <1>6 DEF IInv, NothingTwice
  <2>2. CASE i \in 1 .. N /\ j = N + 1
    BY <2>2, <1>3, <1>6, <1>9, <1>10
  <2>3. CASE i = N + 1 /\ j \in 1 .. N
    BY <2>3, <1>6, <1>10
  <2>4. CASE i = N + 1 /\ j = N + 1
    BY <2>4, <1>6
  <2> QED
    BY <1>6, <2>1, <2>2, <2>3, <2>4
<1>12. CaseFollows'
  BY <1>2, <1>3, <1>4, <1>6, <1>7, <1>9 DEF CaseFollows, N
<1>13. TypeOK'
  BY <1>2, <1>6, <1>7, <1>8 DEF IInv, TypeOK, Phases
<1> QED
  BY <1>8, <1>11, <1>12, <1>13 DEF IInv

\* A verdict takes the case out of the review.
LEMMA JudgeKeeps ==
    ASSUME IInv, NEW verdict \in {"RETURNED_FOR_REVISION", "APPROVED"}, Judge(verdict)
    PROVE  IInv'
<1>1. /\ submitted \in Seq([id : Nat, version : Nat]) /\ submitted # <<>>
      /\ judged \in Seq({"NONE", "RETURNED_FOR_REVISION", "APPROVED"})
      /\ Len(judged) = Len(submitted) /\ Len(submitted) \in Nat \ {0}
  <2>1. /\ submitted \in Seq([id : Nat, version : Nat]) /\ submitted # <<>>
        /\ judged \in Seq({"NONE", "RETURNED_FOR_REVISION", "APPROVED"})
        /\ Len(judged) = Len(submitted)
    BY DEF IInv, TypeOK, CaseFollows, Judge
  <2> QED
    BY <2>1
<1>2. /\ Len(judged') = Len(judged) /\ judged'[Len(judged)] = verdict
      /\ judged' \in Seq({"NONE", "RETURNED_FOR_REVISION", "APPROVED"})
  BY <1>1 DEF Judge
<1>3. /\ phase' = IF verdict = "APPROVED" THEN "REVIEW_COMPLETED" ELSE "REVISION_REQUIRED"
      /\ UNCHANGED <<version, submitted, commands, answers, attempts, client>>
  BY DEF Judge
<1>4. CaseFollows'
  <2>1. submitted[Len(submitted)].version = version
    BY DEF IInv, CaseFollows, Judge
  <2> QED
    BY <1>1, <1>2, <1>3, <2>1 DEF IInv, CaseFollows
<1>5. TypeOK'
  BY <1>2, <1>3 DEF IInv, TypeOK, Phases
<1>6. NothingTwice' /\ AttemptsKnown' /\ CommandsMatch' /\ AnswersMatch' /\ ToldIsTrue'
  BY <1>3 DEF IInv, NothingTwice, AttemptsKnown, CommandsMatch, AnswersMatch, ToldIsTrue
<1> QED
  BY <1>4, <1>5, <1>6 DEF IInv

\* The owner writes only while no submission is in review.
LEMMA NewVersionKeeps ==
    ASSUME IInv, NewVersion PROVE IInv'
<1>1. version \in Nat /\ version' = version + 1 /\ phase \in {"PROCESSING", "REVISION_REQUIRED"}
  BY DEF IInv, TypeOK, NewVersion
<1>2. UNCHANGED <<phase, submitted, judged, commands, answers, attempts, client>>
  BY DEF NewVersion
<1>3. \A n \in DOMAIN submitted : submitted[n].version \in Nat
  <2>1. submitted \in Seq([id : Nat, version : Nat]) /\ DOMAIN submitted = 1 .. Len(submitted)
    BY DEF IInv, TypeOK
  <2>2. \A n \in 1 .. Len(submitted) : submitted[n] \in [id : Nat, version : Nat]
    BY <2>1, ElementOfSeq
  <2> QED
    BY <2>1, <2>2
<1>4. CaseFollows'
  BY <1>1, <1>2, <1>3 DEF IInv, CaseFollows
<1>5. TypeOK'
  BY <1>1, <1>2 DEF IInv, TypeOK
<1>6. NothingTwice' /\ AttemptsKnown' /\ CommandsMatch' /\ AnswersMatch' /\ ToldIsTrue'
  BY <1>2 DEF IInv, NothingTwice, AttemptsKnown, CommandsMatch, AnswersMatch, ToldIsTrue
<1> QED
  BY <1>4, <1>5, <1>6 DEF IInv

---------------------------------------------------------------------------
(* The browser and the network *)

\* What the server keeps is not changed by the page or the network.
LEMMA ServerKeeps ==
    ASSUME IInv, UNCHANGED serverVars PROVE CaseFollows' /\ NothingTwice'
BY DEF IInv, serverVars, CaseFollows, NothingTwice

\* A new attempt has a number nothing on its way has.
LEMMA PressKeeps ==
    ASSUME IInv, Press PROVE IInv'
<1>1. PICK id :
         /\ id = IF client.id # 0 THEN client.id ELSE attempts + 1
         /\ commands' = commands \cup
               {[attempt |-> attempts + 1, id |-> id, version |-> client.seen]}
         /\ client' = [client EXCEPT !.id = id, !.waiting = attempts + 1]
  BY DEF Press
<1>2. /\ attempts \in Nat /\ attempts' = attempts + 1 /\ client.told = 0
      /\ UNCHANGED <<serverVars, answers>> /\ client \in Clients
      /\ id \in Nat /\ attempts + 1 \in Nat
  BY <1>1 DEF Press, IInv, TypeOK, Clients
<1>3. PICK a : a = [attempt |-> attempts + 1, id |-> id, version |-> client.seen]
  OBVIOUS
<1>4. /\ a.attempt = attempts + 1 /\ a.version = client.seen
      /\ a \in Commands /\ commands' = commands \cup {a}
  BY <1>1, <1>2, <1>3 DEF Commands, Clients
<1>5. /\ client' \in Clients /\ client'.seen = client.seen
      /\ client'.waiting = attempts + 1 /\ client'.told = 0
  <2>1. client' = [client EXCEPT !.id = id, !.waiting = attempts + 1]
    BY <1>1
  <2> QED
    BY <2>1, <1>2 DEF Clients
<1>6. TypeOK'
  BY <1>2, <1>4, <1>5 DEF IInv, TypeOK, serverVars
<1>7. AttemptsKnown'
  BY <1>2, <1>4 DEF IInv, AttemptsKnown
<1>8. CommandsMatch'
  BY <1>2, <1>4, <1>5 DEF IInv, AttemptsKnown, CommandsMatch
<1>9. AnswersMatch'
  BY <1>2, <1>5 DEF IInv, AttemptsKnown, AnswersMatch, serverVars
<1>10. ToldIsTrue'
  BY <1>5 DEF ToldIsTrue
<1> QED
  BY <1>2, <1>6, <1>7, <1>8, <1>9, <1>10, ServerKeeps DEF IInv

\* An answer that is waited for is of the version the page shows.
LEMMA LearnKeeps ==
    ASSUME IInv, NEW r \in answers, Learn(r) PROVE IInv'
<1>1. /\ client.waiting = r.attempt /\ answers' = answers \ {r}
      /\ UNCHANGED <<serverVars, commands, attempts>>
      /\ client \in Clients /\ r \in Answers
  BY DEF Learn, IInv, TypeOK
<1>2. /\ client' \in Clients /\ client'.seen = client.seen
      /\ client'.waiting = 0 /\ client'.told = r.submission
  BY <1>1 DEF Learn, Clients, Answers
<1>3. TypeOK' /\ AttemptsKnown'
  BY <1>1, <1>2 DEF IInv, TypeOK, AttemptsKnown, serverVars
<1>4. CommandsMatch' /\ AnswersMatch'
  BY <1>1, <1>2 DEF IInv, TypeOK, AttemptsKnown, CommandsMatch, AnswersMatch, serverVars
<1>5. ToldIsTrue'
  BY <1>1, <1>2 DEF IInv, AnswersMatch, ToldIsTrue, serverVars
<1> QED
  BY <1>1, <1>3, <1>4, <1>5, ServerKeeps DEF IInv

\* The page stops waiting for its attempt.
LEMMA GiveUpKeeps ==
    ASSUME IInv, GiveUp PROVE IInv'
<1>1. PICK id \in {client.id, 0} : client' = [client EXCEPT !.id = id, !.waiting = 0]
  BY DEF GiveUp
<1>2. UNCHANGED <<serverVars, commands, answers, attempts>> /\ client \in Clients /\ id \in Nat
  BY <1>1 DEF GiveUp, IInv, TypeOK, Clients
<1>3. /\ client' \in Clients /\ client'.seen = client.seen
      /\ client'.waiting = 0 /\ client'.told = client.told
  BY <1>1, <1>2 DEF Clients
<1>4. TypeOK' /\ AttemptsKnown' /\ ToldIsTrue'
  BY <1>2, <1>3 DEF IInv, TypeOK, AttemptsKnown, ToldIsTrue, serverVars
<1>5. CommandsMatch' /\ AnswersMatch'
  BY <1>2, <1>3 DEF IInv, AttemptsKnown, CommandsMatch, AnswersMatch, serverVars
<1> QED
  BY <1>2, <1>4, <1>5, ServerKeeps DEF IInv

\* The page shows the newest submission only while the case is with the
\* reviewer, and then the version of the case is its version.
LEMMA ReloadKeeps ==
    ASSUME IInv, Reload PROVE IInv'
<1>1. PICK id \in {client.id, 0} :
         client' = [client EXCEPT !.id = id, !.seen = version,
                       !.told = IF phase \in {"IN_REVIEW", "REVIEW_COMPLETED"}
                                THEN Len(submitted) ELSE 0]
  BY DEF Reload
<1>2. /\ UNCHANGED <<serverVars, commands, answers, attempts>> /\ client \in Clients
      /\ version \in Nat /\ client.waiting = 0
      /\ submitted \in Seq([id : Nat, version : Nat]) /\ Len(submitted) \in Nat
  BY DEF Reload, IInv, TypeOK
<1>3. /\ client' \in Clients /\ client'.seen = version /\ client'.waiting = 0
      /\ client'.told = IF phase \in {"IN_REVIEW", "REVIEW_COMPLETED"}
                        THEN Len(submitted) ELSE 0
  BY <1>1, <1>2 DEF Clients
<1>4. TypeOK' /\ AttemptsKnown'
  BY <1>2, <1>3 DEF IInv, TypeOK, AttemptsKnown, serverVars
<1>5. ToldIsTrue'
  BY <1>2, <1>3 DEF IInv, CaseFollows, ToldIsTrue, serverVars
<1>6. CommandsMatch' /\ AnswersMatch'
  BY <1>2, <1>3 DEF IInv, TypeOK, AttemptsKnown, CommandsMatch, AnswersMatch, serverVars
<1> QED
  BY <1>2, <1>4, <1>5, <1>6, ServerKeeps DEF IInv

\* A lost command or answer is asked of nobody.
LEMMA LoseKeeps ==
    ASSUME IInv, Lose PROVE IInv'
<1>1. commands' \subseteq commands /\ answers' \subseteq answers
  BY DEF Lose
<1>2. UNCHANGED <<serverVars, attempts, client>>
  BY DEF Lose
<1>3. TypeOK' /\ AttemptsKnown' /\ CommandsMatch' /\ AnswersMatch' /\ ToldIsTrue'
  BY <1>1, <1>2 DEF IInv, TypeOK, AttemptsKnown, CommandsMatch, AnswersMatch, ToldIsTrue, serverVars
<1> QED
  BY <1>2, <1>3, ServerKeeps DEF IInv

---------------------------------------------------------------------------
(* The invariant *)

\* The beginning, and every step.
LEMMA InitKeeps == Init => IInv
BY DEF Init, IInv, TypeOK, CaseFollows, NothingTwice, AttemptsKnown, CommandsMatch,
       AnswersMatch, ToldIsTrue, Phases, Commands, Answers, Clients

\* Every step of the page, of the network and of the server.
LEMMA NextKeeps == IInv /\ [Next]_vars => IInv'
<1> SUFFICES ASSUME IInv, [Next]_vars PROVE IInv'
  OBVIOUS
<1>1. ASSUME NEW c \in commands, Handle(c) PROVE IInv'
  BY <1>1, ReplayKeeps, AcceptKeeps, RefuseKeeps DEF Handle
<1>2. ASSUME NEW verdict \in {"RETURNED_FOR_REVISION", "APPROVED"}, Judge(verdict) PROVE IInv'
  BY <1>2, JudgeKeeps
<1>3. ASSUME NEW r \in answers, Learn(r) PROVE IInv'
  BY <1>3, LearnKeeps
<1>4. CASE NewVersion \/ Press \/ GiveUp \/ Reload \/ Lose
  BY <1>4, NewVersionKeeps, PressKeeps, GiveUpKeeps, ReloadKeeps, LoseKeeps
<1>5. CASE UNCHANGED vars
  BY <1>5 DEF vars, serverVars, IInv, TypeOK, CaseFollows, NothingTwice, AttemptsKnown,
              CommandsMatch, AnswersMatch, ToldIsTrue
<1> QED
  BY <1>1, <1>2, <1>3, <1>4, <1>5 DEF Next

\* The messages on their way, the submit view and the submissions agree in
\* every state: the invariant the other theorems rest on.
THEOREM InvariantHolds == Spec => []IInv
BY InitKeeps, NextKeeps, PTL DEF Spec

\* However attempts are given up, lost, delayed and repeated, the variables
\* keep their types.
THEOREM TypesHold == Spec => []TypeOK
<1>1. IInv => TypeOK
  BY DEF IInv
<1> QED
  BY <1>1, InvariantHolds, PTL

\* SubmissionService.submit hands no version over twice, and no command made
\* for an older version takes effect.
THEOREM NothingHappensTwice == Spec => []NothingTwice
<1>1. IInv => NothingTwice
  BY DEF IInv
<1> QED
  BY <1>1, InvariantHolds, PTL

\* The submit view never reports the submission of another version than the
\* one it shows.
THEOREM ToldIsAlwaysTrue == Spec => []ToldIsTrue
<1>1. IInv => ToldIsTrue
  BY DEF IInv
<1> QED
  BY <1>1, InvariantHolds, PTL

---------------------------------------------------------------------------
(* The handoff *)

Round == [version : Nat, verdict : Judgement]

\* The mapped sequence has an element for each submission.
RoundsRead ==
    /\ Len(submitted) \in Nat /\ DOMAIN submitted = 1 .. Len(submitted)
    /\ Rounds \in Seq(Round) /\ Len(Rounds) = Len(submitted)
    /\ \A n \in 1 .. Len(submitted) :
          /\ Rounds[n] = [version |-> submitted[n].version, verdict |-> judged[n]]
          /\ Rounds[n] \in Round

\* The rounds of the abstract handoff, read off the tables.
LEMMA Reading == IInv => RoundsRead
<1> SUFFICES ASSUME IInv PROVE RoundsRead
  OBVIOUS
<1>1. /\ submitted \in Seq([id : Nat, version : Nat]) /\ judged \in Seq(Judgement)
      /\ Len(submitted) \in Nat /\ DOMAIN submitted = 1 .. Len(submitted)
      /\ Len(judged) = Len(submitted)
  <2>1. submitted \in Seq([id : Nat, version : Nat]) /\ judged \in Seq(Judgement)
    BY DEF IInv, TypeOK, Judgement
  <2> QED
    BY <2>1 DEF IInv, CaseFollows
<1>2. ASSUME NEW n \in 1 .. Len(submitted)
      PROVE  /\ Rounds[n] = [version |-> submitted[n].version, verdict |-> judged[n]]
             /\ Rounds[n] \in Round
  <2>1. submitted[n] \in [id : Nat, version : Nat]
    BY <1>1, ElementOfSeq
  <2>2. judged[n] \in Judgement
    BY <1>1, ElementOfSeq
  <2>3. Rounds[n] = [version |-> submitted[n].version, verdict |-> judged[n]]
    BY <1>1 DEF Rounds
  <2> QED
    BY <2>1, <2>2, <2>3 DEF Round
<1>3. Rounds \in [1 .. Len(submitted) -> Round]
  <2>1. Rounds = [n \in 1 .. Len(submitted) |-> Rounds[n]]
    BY <1>1 DEF Rounds
  <2> QED
    BY <1>2, <2>1
<1>4. Rounds \in Seq(Round) /\ Len(Rounds) = Len(submitted)
  BY <1>1, <1>3
<1> QED
  BY <1>1, <1>2, <1>4 DEF RoundsRead

\* The case never passes its last version.
VersionBound == version \in 1 .. MaxVersion

\* What the refinement reads changes with the tables alone.
LEMMA VersionStays ==
    ASSUME BoundAssumption, MaxVersion # 0 PROVE Spec => []VersionBound
<1>1. Init => VersionBound
  BY DEF Init, VersionBound, BoundAssumption
<1>2. VersionBound /\ [Next]_vars => VersionBound'
  <2> SUFFICES ASSUME VersionBound, [Next]_vars PROVE VersionBound'
    OBVIOUS
  <2>1. UNCHANGED version \/ NewVersion
    BY DEF Next, Handle, Replay, Accept, Refuse, Answered, Judge, Press, GiveUp, Reload, Lose,
           Learn, vars, serverVars
  <2> QED
    BY <2>1 DEF VersionBound, NewVersion, BoundAssumption
<1> QED
  BY <1>1, <1>2, PTL DEF Spec

\* An accepted command is a submission of the handoff.
LEMMA AcceptIsSubmit ==
    ASSUME IInv, RoundsRead, RoundsRead', VersionBound, NEW c \in commands, Accept(c)
    PROVE  Handoff!Next
<1> DEFINE N == Len(submitted)
           row == [version |-> version, verdict |-> "NONE"]
<1>1. PICK s : s = [id |-> c.id, version |-> c.version]
  OBVIOUS
<1>2. /\ submitted' = Append(submitted, s) /\ judged' = Append(judged, "NONE")
      /\ s.version = version /\ Acceptable(c)
  BY <1>1 DEF Accept, Acceptable
<1>3. /\ submitted \in Seq([id : Nat, version : Nat]) /\ judged \in Seq(Judgement)
      /\ N \in Nat /\ Len(judged) = N /\ DOMAIN submitted = 1 .. N
  <2>1. judged \in Seq(Judgement) /\ Len(judged) = N
    BY DEF IInv, TypeOK, CaseFollows, Judgement
  <2> QED
    BY <2>1 DEF RoundsRead, IInv, TypeOK
<1>4. /\ Len(submitted') = N + 1 /\ submitted'[N + 1] = s /\ judged'[N + 1] = "NONE"
      /\ \A n \in 1 .. N : submitted'[n] = submitted[n] /\ judged'[n] = judged[n]
  <2>1. /\ Len(submitted') = N + 1 /\ submitted'[N + 1] = s
        /\ \A n \in 1 .. N : submitted'[n] = submitted[n]
    BY <1>2, <1>3
  <2>2. judged'[N + 1] = "NONE" /\ \A n \in 1 .. N : judged'[n] = judged[n]
    BY <1>2, <1>3
  <2> QED
    BY <2>1, <2>2
<1>5. Rounds' = Append(Rounds, row)
  <2>1. /\ Rounds' \in Seq(Round) /\ Len(Rounds') = N + 1
        /\ \A n \in 1 .. N + 1 :
              Rounds'[n] = [version |-> submitted'[n].version, verdict |-> judged'[n]]
    BY <1>4 DEF RoundsRead
  <2>2. /\ Rounds \in Seq(Round) /\ Len(Rounds) = N
        /\ \A n \in 1 .. N : Rounds[n] = [version |-> submitted[n].version, verdict |-> judged[n]]
    BY DEF RoundsRead
  <2>3. row \in Round
    BY DEF Round, Judgement, VersionBound, IInv, TypeOK
  <2> HIDE DEF row
  <2>4. /\ Append(Rounds, row) \in Seq(Round) /\ Len(Append(Rounds, row)) = N + 1
        /\ Append(Rounds, row)[N + 1] = row
        /\ \A n \in 1 .. N : Append(Rounds, row)[n] = Rounds[n]
    BY <1>3, <2>2, <2>3
  <2>5. \A n \in 1 .. N + 1 : Rounds'[n] = Append(Rounds, row)[n]
    <3>1. ASSUME NEW n \in 1 .. N PROVE Rounds'[n] = Append(Rounds, row)[n]
      <4>1. /\ Rounds'[n] = [version |-> submitted'[n].version, verdict |-> judged'[n]]
            /\ Rounds[n] = [version |-> submitted[n].version, verdict |-> judged[n]]
        <5>1. n \in 1 .. N + 1
          BY <1>3
        <5>2. Rounds'[n] = [version |-> submitted'[n].version, verdict |-> judged'[n]]
          BY <5>1, <2>1
        <5>3. Rounds[n] = [version |-> submitted[n].version, verdict |-> judged[n]]
          BY <2>2
        <5> QED
          BY <5>2, <5>3
      <4>2. submitted'[n] = submitted[n] /\ judged'[n] = judged[n]
        BY <1>4
      <4>3. Rounds'[n] = Rounds[n]
        BY <4>1, <4>2
      <4> QED
        BY <4>3, <2>4
    <3>2. Rounds'[N + 1] = Append(Rounds, row)[N + 1]
      <4>1. N + 1 \in 1 .. N + 1
        BY <1>3
      <4>2. Rounds'[N + 1] = [version |-> submitted'[N + 1].version, verdict |-> judged'[N + 1]]
        BY <4>1, <2>1
      <4>3. submitted'[N + 1].version = version /\ judged'[N + 1] = "NONE"
        BY <1>2, <1>4
      <4> QED
        BY <4>2, <4>3, <2>4 DEF row
    <3>3. \A n \in 1 .. N + 1 : n \in 1 .. N \/ n = N + 1
      BY <1>3
    <3> QED
      BY <3>1, <3>2, <3>3
  <2> QED
    BY <2>1, <2>4, <2>5, SeqEqual
<1>6. Rounds # <<>> => /\ Rounds[Len(Rounds)].verdict = "RETURNED_FOR_REVISION"
                       /\ version > Rounds[Len(Rounds)].version
  <2> SUFFICES ASSUME Rounds # <<>>
               PROVE  /\ Rounds[Len(Rounds)].verdict = "RETURNED_FOR_REVISION"
                      /\ version > Rounds[Len(Rounds)].version
    OBVIOUS
  <2>1. Len(Rounds) = N /\ N # 0
    BY EmptySeq DEF RoundsRead
  <2>2. submitted # <<>>
    BY <2>1
  <2>3. phase = "REVISION_REQUIRED"
    BY <1>2, <2>2 DEF Acceptable, IInv, CaseFollows
  <2>4. judged[N] = "RETURNED_FOR_REVISION" /\ version > submitted[N].version
    BY <1>2, <1>3, <2>2, <2>3 DEF Acceptable, PreviousVersion, IInv, CaseFollows
  <2>5. Rounds[N] = [version |-> submitted[N].version, verdict |-> judged[N]]
    BY <1>3, <2>1 DEF RoundsRead
  <2> QED
    BY <2>1, <2>4, <2>5
<1>7. version \in 1 .. MaxVersion
  BY DEF VersionBound
<1> QED
  BY <1>5, <1>6, <1>7 DEF Handoff!Next, Handoff!Submit, Handoff!Last

\* A verdict on the case is the verdict of the handoff on its last round.
LEMMA JudgeIsJudge ==
    ASSUME IInv, RoundsRead, RoundsRead', NEW verdict \in {"RETURNED_FOR_REVISION", "APPROVED"}, Judge(verdict)
    PROVE  Handoff!Next
<1> DEFINE N == Len(submitted)
<1>1. /\ N \in Nat /\ submitted # <<>> /\ submitted' = submitted
      /\ judged \in Seq(Judgement) /\ Len(judged) = N /\ judged[N] = "NONE"
      /\ judged' = [judged EXCEPT ![N] = verdict]
      /\ DOMAIN submitted = 1 .. N
  <2>1. /\ judged \in Seq(Judgement) /\ Len(judged) = N /\ submitted # <<>>
        /\ judged[Len(judged)] = "NONE"
    BY DEF IInv, TypeOK, CaseFollows, Judge, Judgement
  <2> QED
    BY <2>1 DEF Judge, RoundsRead
<1>2. N \in 1 .. N
  BY <1>1, EmptySeq DEF IInv, TypeOK
<1>3. judged'[N] = verdict /\ \A n \in 1 .. N : n # N => judged'[n] = judged[n]
  BY <1>1, <1>2
<1>4. /\ Rounds \in Seq(Round) /\ Rounds' \in Seq(Round) /\ Len(Rounds) = N /\ Len(Rounds') = N
      /\ \A n \in 1 .. N :
            /\ Rounds[n] = [version |-> submitted[n].version, verdict |-> judged[n]]
            /\ Rounds'[n] = [version |-> submitted[n].version, verdict |-> judged'[n]]
  BY <1>1 DEF RoundsRead
<1>5. Rounds # <<>> /\ Rounds[Len(Rounds)].verdict = "NONE"
  <2>1. Rounds[N] = [version |-> submitted[N].version, verdict |-> judged[N]]
    BY <1>2, <1>4
  <2>2. Len(Rounds) = N /\ Rounds[N].verdict = judged[N]
    BY <1>4, <2>1
  <2> QED
    BY <1>1, <1>2, <2>2
<1>6. Rounds' = [Rounds EXCEPT ![Len(Rounds)].verdict = verdict]
  <2> DEFINE row == [Rounds[N] EXCEPT !.verdict = verdict]
  <2>1. row = [version |-> submitted[N].version, verdict |-> verdict]
    <3>1. Rounds[N] = [version |-> submitted[N].version, verdict |-> judged[N]]
      BY <1>2, <1>4
    <3> QED
      BY <3>1
  <2> HIDE DEF row
  <2>2. row \in Round
    <3>1. row = Rounds'[N] /\ Rounds'[N] \in Round
      <4>1. Rounds'[N] = row
        BY <1>2, <1>3, <1>4, <2>1
      <4>2. Rounds'[N] \in Round
        BY <1>2, <1>4, ElementOfSeq
      <4> QED
        BY <4>1, <4>2
    <3> QED
      BY <3>1
  <2>3. /\ [Rounds EXCEPT ![N] = row] \in Seq(Round) /\ Len([Rounds EXCEPT ![N] = row]) = N
        /\ \A n \in 1 .. N :
              [Rounds EXCEPT ![N] = row][n] = IF n = N THEN row ELSE Rounds[n]
    BY <1>2, <1>4, <2>2, ExceptSeq
  <2>4. ASSUME NEW n \in 1 .. N PROVE Rounds'[n] = [Rounds EXCEPT ![N] = row][n]
    <3>1. /\ Rounds[n] = [version |-> submitted[n].version, verdict |-> judged[n]]
          /\ Rounds'[n] = [version |-> submitted[n].version, verdict |-> judged'[n]]
      BY <1>4
    <3>2. CASE n = N
      BY <3>1, <3>2, <1>3, <2>1, <2>3
    <3>3. CASE n # N
      <4>1. judged'[n] = judged[n]
        BY <3>3, <1>3
      <4>2. Rounds'[n] = Rounds[n]
        BY <3>1, <4>1
      <4> QED
        BY <3>3, <4>2, <2>3
    <3> QED
      BY <3>2, <3>3
  <2>5. Rounds' = [Rounds EXCEPT ![N] = row]
    BY <1>4, <2>3, <2>4, SeqEqual
  <2> QED
    BY <1>4, <2>5 DEF row
<1> QED
  BY <1>5, <1>6 DEF Handoff!Next, Handoff!Judge, Handoff!Last, Handoff!Verdicts

\* Whatever the network does to the attempts of the submit view, the
\* submissions of a case are a behaviour of the handoff: retries are invisible.
THEOREM RetriesAreInvisible ==
    ASSUME BoundAssumption, MaxVersion # 0 PROVE Spec => RetriesRefineHandoff
<1>1. Init => Handoff!Init
  BY DEF Init, Rounds, Handoff!Init
<1>2. IInv /\ RoundsRead /\ RoundsRead' /\ VersionBound /\ [Next]_vars => [Handoff!Next]_Rounds
  <2> SUFFICES ASSUME IInv, RoundsRead, RoundsRead', VersionBound, [Next]_vars
               PROVE  [Handoff!Next]_Rounds
    OBVIOUS
  <2>1. ASSUME NEW c \in commands, Accept(c) PROVE Handoff!Next
    BY <2>1, AcceptIsSubmit
  <2>2. ASSUME NEW verdict \in {"RETURNED_FOR_REVISION", "APPROVED"}, Judge(verdict)
        PROVE  Handoff!Next
    BY <2>2, JudgeIsJudge
  <2>3. CASE UNCHANGED <<submitted, judged>>
    BY <2>3 DEF Rounds
  <2> QED
    BY <2>1, <2>2, <2>3 DEF Next, Handle, Replay, Refuse, NewVersion, Press, GiveUp, Reload,
                            Lose, Learn, vars, serverVars
<1> QED
  BY <1>1, <1>2, InvariantHolds, Reading, VersionStays, PTL DEF Spec, RetriesRefineHandoff, Handoff!Spec

---------------------------------------------------------------------------
(* The rounds of a review: what is submitted, what is run, what is requested *)

CorrectionRows ==
    [status : CorrectionStatuses, run : Nat, base : Nat, baseVersion : Nat,
     response : Nat, items : ItemSets]

\* Documents, submissions and runs are numbered alike: the submission n is of
\* the document n, and the run n examines the submission n.
Numbered ==
    /\ Len(documents) \in {Len(submissions), Len(submissions) + 1}
    /\ Len(runs) \in {Len(submissions) - 1, Len(submissions)}
    /\ Len(findings) = Len(runs)
    /\ review.latestSubmission = Len(submissions) /\ review.latestRun = Len(runs)
    /\ submissions # <<>>
    /\ \A n \in DOMAIN submissions : submissions[n].document = n
    /\ \A n \in DOMAIN runs : runs[n].submission = n

Sent == {i \in DOMAIN corrections : corrections[i].status = "SENT"}

\* The statuses say whether the newest submission has its run, and whose turn it is.
Positioned ==
    /\ review.status \in StartableStatuses => Len(runs) = Len(submissions) - 1
    /\ review.status \in {"REVIEW_REQUIRED", "REVIEW_COMPLETED"} =>
          Len(runs) = Len(submissions)
    /\ review.status \in StartableStatuses \cup
          {"REVIEW_REQUIRED", "RETURNED_FOR_REVISION", "REVIEW_COMPLETED"}
    /\ caseStatus = "REVISION_REQUIRED" =>
          review.status = "RETURNED_FOR_REVISION" /\ Len(runs) = Len(submissions)
    /\ review.status = "RETURNED_FOR_REVISION" /\ caseStatus # "REVISION_REQUIRED" =>
          Len(runs) = Len(submissions) - 1

\* At most one request is open; it has been sent exactly while the owner is to answer
\* it; what answers a request is submitted after its run and examined by the next.
Requested ==
    /\ \A i, j \in ActiveCorrections : i = j
    /\ caseStatus = "REVISION_REQUIRED" <=> Sent # {}
    /\ \A i \in DOMAIN corrections :
          /\ corrections[i].run \in DOMAIN runs
          /\ corrections[i].response \in {0, corrections[i].run + 1}
          /\ corrections[i].response =< Len(submissions)
          /\ i \in Sent => corrections[i].run = Len(runs)

\* A decided finding has its row in the log.
Logged ==
    \A k \in DOMAIN findings : \A r \in Rules :
        findings[k][r] \in TriageDecisions =>
            [run |-> k, rule |-> r, decision |-> findings[k][r]] \in triaged

RoundsInv ==
    /\ RoundsTypeOK /\ corrections \in Seq(CorrectionRows)
    /\ Numbered /\ Positioned /\ Requested /\ Logged

---------------------------------------------------------------------------
(* The reports *)

\* The decided findings of a content have their rows in what is seen of the log.
Explained(c, seen) ==
    \A r \in Rules :
        c.findings[r] \in TriageDecisions =>
            [run |-> c.run, rule |-> r, decision |-> c.findings[r]] \in seen

OwnRound(c) ==
    \A q \in c.requests :
        /\ q.request \in DOMAIN corrections
        /\ corrections[q.request].run \in {c.run, c.run - 1}

\* A generation works on a run that exists, and what it has read is consistent.
ReadSoFar(g) ==
    /\ g.pc = "idle" => g = NotBegun
    /\ g.pc # "idle" => g.content.run \in DOMAIN runs
    /\ OwnRound(g.content)
    /\ g.pc = "decisions" => Explained(g.content, triaged)
    /\ g.pc \in {"requests", "version", "put", "insert", "undo"} =>
          Explained(g.content, g.content.triaged)

Reads == \A s \in Generations : ReadSoFar(generation[s])

HasObject(s) == generation[s].pc \in {"insert", "undo"}

\* The objects of the reports and of the generations are there and are no two's.
ObjectsApart ==
    /\ \A k \in DOMAIN reports : reports[k].key \in reportStore
    /\ \A s \in Generations : HasObject(s) =>
          /\ generation[s].key \in reportStore
          /\ \A k \in DOMAIN reports : reports[k].key # generation[s].key
          /\ \A t \in Generations :
                HasObject(t) /\ generation[t].key = generation[s].key => s = t

\* Versions do not outnumber the reports.
VersionsFew ==
    /\ \A k \in DOMAIN reports : reports[k].version =< Len(reports)
    /\ \A s \in Generations : generation[s].version =< Len(reports) + 1

Sound ==
    \A k \in DOMAIN reports :
        /\ Explained(reports[k].content, reports[k].content.triaged)
        /\ OwnRound(reports[k].content)

VerdictRows == [decision : {"RETURNED_FOR_REVISION", "APPROVED"}, run : Nat]

ReportsInv ==
    /\ RoundsInv /\ decisions \in Seq(VerdictRows)
    /\ ReportsTypeOK /\ reportKey \in Nat
    /\ Reads /\ ObjectsApart /\ VersionsFew /\ Sound

---------------------------------------------------------------------------
(* Every step of the rounds keeps the invariant of the rounds *)

\* A non-empty set of natural numbers has a least element.
LEMMA LeastNatural ==
    ASSUME NEW S \in SUBSET Nat, S # {}
    PROVE  \E m \in S : \A k \in S : m =< k
<1> DEFINE R == OpToRel(<, Nat)
<1>1. IsWellFoundedOn(R, Nat)
  BY NatLessThanWellFounded
<1>2. PICK m \in S : \A k \in S : ~ (<<k, m>> \in R)
  <2> HIDE DEF R
  <2> QED BY <1>1, WFMin
<1>3. \A k \in S : ~ (k < m)
  BY <1>2 DEF OpToRel
<1> QED
  BY <1>3

\* The fields of the row of the review.
LEMMA ReviewTyped ==
    ASSUME RoundsTypeOK
    PROVE  /\ review = [status |-> review.status, latestSubmission |-> review.latestSubmission,
                        latestRun |-> review.latestRun, openMissing |-> review.openMissing]
           /\ review.status \in ReviewStatuses /\ review.latestSubmission \in Nat
           /\ review.latestRun \in Nat /\ review.openMissing \in BOOLEAN
BY DEF RoundsTypeOK

\* What the completeness check and a run make of the row of the review.
LEMMA RowsOfReview ==
    ASSUME RoundsTypeOK, NEW ready \in BOOLEAN
    PROVE  /\ Checked(ready) \in
                 [status : ReviewStatuses, latestSubmission : Nat, latestRun : Nat,
                  openMissing : BOOLEAN]
           /\ Checked(ready).status = IF ready THEN "READY_FOR_REVIEW" ELSE "PENDING_MATERIALS"
           /\ Checked(ready).openMissing = ~ready
           /\ Checked(ready).latestSubmission = review.latestSubmission
           /\ Checked(ready).latestRun = review.latestRun
BY ReviewTyped DEF Checked, ReviewStatuses

\* The row after a run was created on it.
LEMMA RowOfRun ==
    ASSUME Len(runs) \in Nat,
           NEW rv \in [status : ReviewStatuses, latestSubmission : Nat, latestRun : Nat,
                       openMissing : BOOLEAN]
    PROVE  /\ Analysed(rv) \in
                 [status : ReviewStatuses, latestSubmission : Nat, latestRun : Nat,
                  openMissing : BOOLEAN]
           /\ Analysed(rv).status = "REVIEW_REQUIRED"
           /\ Analysed(rv).openMissing = rv.openMissing
           /\ Analysed(rv).latestSubmission = rv.latestSubmission
           /\ Analysed(rv).latestRun = Len(runs) + 1
<1>1. PICK n \in Nat : n = Len(runs) + 1
  OBVIOUS
<1>2. PICK a : a = [rv EXCEPT !.status = "REVIEW_REQUIRED", !.latestRun = n]
  OBVIOUS
<1>3. Analysed(rv) = a
  BY <1>1, <1>2 DEF Analysed
<1>4. /\ a \in [status : ReviewStatuses, latestSubmission : Nat, latestRun : Nat,
                openMissing : BOOLEAN]
      /\ a.status = "REVIEW_REQUIRED" /\ a.openMissing = rv.openMissing
      /\ a.latestSubmission = rv.latestSubmission /\ a.latestRun = n
  BY <1>2 DEF ReviewStatuses
<1> QED
  BY <1>1, <1>3, <1>4

\* A new run and its findings.
LEMMA RunAppended ==
    ASSUME RoundsTypeOK, Len(findings) = Len(runs), NEW outcome, RunCreated(outcome)
    PROVE  /\ runs' \in Seq([submission : Nat, evaluated : SUBSET Rules])
           /\ findings' \in Seq(FindingSets)
           /\ Len(runs') = Len(runs) + 1 /\ Len(findings') = Len(runs) + 1
           /\ \A k \in DOMAIN runs : runs'[k] = runs[k] /\ findings'[k] = findings[k]
           /\ runs'[Len(runs) + 1].submission = review.latestSubmission
           /\ \A r \in Rules : findings'[Len(runs) + 1][r] \in {"NONE", "OPEN"}
<1>1. PICK x : /\ x = [submission |-> review.latestSubmission,
                       evaluated |-> {r \in Rules : outcome[r] # "NOT_RUN"}]
               /\ runs' = Append(runs, x)
  BY DEF RunCreated
<1>2. x \in [submission : Nat, evaluated : SUBSET Rules] /\ x.submission = review.latestSubmission
  BY <1>1, ReviewTyped
<1>3. PICK f : f = FindingsOf(outcome) /\ findings' = Append(findings, f)
  BY DEF RunCreated
<1>4. f \in FindingSets /\ \A r \in Rules : f[r] \in {"NONE", "OPEN"}
  BY <1>3 DEF FindingsOf, FindingSets
<1>5. runs \in Seq([submission : Nat, evaluated : SUBSET Rules]) /\ findings \in Seq(FindingSets)
  BY DEF RoundsTypeOK
<1>6. Len(runs) \in Nat /\ DOMAIN runs = 1 .. Len(runs) /\ DOMAIN findings = 1 .. Len(runs)
  BY <1>5
<1>7. /\ runs' \in Seq([submission : Nat, evaluated : SUBSET Rules])
      /\ Len(runs') = Len(runs) + 1 /\ runs'[Len(runs) + 1] = x
      /\ \A k \in DOMAIN runs : runs'[k] = runs[k]
  BY <1>1, <1>2, <1>5, <1>6
<1>8. /\ findings' \in Seq(FindingSets)
      /\ Len(findings') = Len(runs) + 1 /\ findings'[Len(runs) + 1] = f
      /\ \A k \in DOMAIN runs : findings'[k] = findings[k]
  BY <1>3, <1>4, <1>5, <1>6
<1> QED
  BY <1>2, <1>4, <1>7, <1>8

\* The newest submission and its document.
LEMMA NewestSubmission ==
    ASSUME RoundsInv
    PROVE  /\ Len(submissions) \in Nat \ {0} /\ Len(runs) \in Nat /\ Len(corrections) \in Nat
           /\ DOMAIN submissions = 1 .. Len(submissions) /\ DOMAIN runs = 1 .. Len(runs)
           /\ DOMAIN corrections = 1 .. Len(corrections)
           /\ DOMAIN findings = 1 .. Len(runs)
           /\ Latest.document = Len(submissions) /\ Latest.ready \in BOOLEAN
           /\ Base.document \in Nat /\ Base.version \in Nat
<1>1. /\ submissions \in Seq([document : Nat, ready : BOOLEAN, outcome : RuleOutcomes])
      /\ documents \in Seq([group : {1}, version : Nat, active : BOOLEAN])
      /\ runs \in Seq([submission : Nat, evaluated : SUBSET Rules])
      /\ findings \in Seq(FindingSets) /\ corrections \in Seq(CorrectionRows)
  BY DEF RoundsInv, RoundsTypeOK
<1>2. Len(submissions) \in Nat \ {0}
  BY <1>1 DEF RoundsInv, Numbered
<1>3. Latest = submissions[Len(submissions)] /\ Latest.document = Len(submissions)
  BY <1>1, <1>2 DEF RoundsInv, Numbered, Latest
<1>4. Latest.ready \in BOOLEAN
  <2>1. Len(submissions) \in 1 .. Len(submissions)
    BY <1>2
  <2>2. submissions[Len(submissions)] \in
            [document : Nat, ready : BOOLEAN, outcome : RuleOutcomes]
    BY <1>1, <2>1, ElementOfSeq
  <2> QED
    BY <2>2, <1>3
<1>5. documents[Len(submissions)].version \in Nat
  <2>1. Len(submissions) \in 1 .. Len(documents)
    BY <1>2 DEF RoundsInv, Numbered
  <2>2. documents[Len(submissions)] \in [group : {1}, version : Nat, active : BOOLEAN]
    BY <2>1, <1>1, ElementOfSeq
  <2> QED
    BY <2>2
<1>6. Base.document = Len(submissions) /\ Base.version \in Nat
  BY <1>3, <1>5 DEF Base
<1> QED
  BY <1>1, <1>2, <1>3, <1>4, <1>6 DEF RoundsInv, Numbered

\* Requests do not change with the owner's and the reviewers' other work.
LEMMA RequestsStay ==
    ASSUME RoundsInv, UNCHANGED <<corrections, caseStatus>>,
           DOMAIN runs \subseteq DOMAIN runs', Len(submissions) \in Nat,
           Len(submissions') = Len(submissions),
           Sent # {} => Len(runs') = Len(runs)
    PROVE  Requested'
BY DEF RoundsInv, Requested, Sent, ActiveCorrections, Active

\* The completeness check.
LEMMA PreflightKeeps ==
    ASSUME RoundsInv, NEW ready \in BOOLEAN, Preflight(ready),
           UNCHANGED <<documents, submissions, triaged>>
    PROVE  RoundsInv'
<1>1. review' = Checked(ready) /\ review.status \in StartableStatuses
  BY DEF Preflight
<1>2. UNCHANGED <<caseStatus, runs, findings, corrections, documents, submissions, triaged>>
  BY DEF Preflight
<1>3. /\ review' \in [status : ReviewStatuses, latestSubmission : Nat, latestRun : Nat,
                      openMissing : BOOLEAN]
      /\ review'.status \in {"READY_FOR_REVIEW", "PENDING_MATERIALS"}
      /\ review'.latestSubmission = review.latestSubmission
      /\ review'.latestRun = review.latestRun
  BY <1>1, RowsOfReview DEF RoundsInv
<1>4. RoundsTypeOK' /\ (corrections \in Seq(CorrectionRows))'
  BY <1>2, <1>3 DEF RoundsInv, RoundsTypeOK
<1>5. Numbered'
  BY <1>2, <1>3 DEF RoundsInv, Numbered
<1>6. Positioned'
  BY <1>1, <1>2, <1>3 DEF RoundsInv, Positioned, StartableStatuses
<1>7. Requested' /\ Logged'
  BY <1>2, <1>3 DEF RoundsInv, Requested, Logged, Sent, ActiveCorrections, Active
<1> QED
  BY <1>4, <1>5, <1>6, <1>7 DEF RoundsInv

\* A run of the newest submission, when it has none yet and nothing is sent.
LEMMA NewRunKeeps ==
    ASSUME RoundsInv, NEW outcome, RunCreated(outcome),
           NEW rv \in [status : ReviewStatuses, latestSubmission : Nat, latestRun : Nat,
                       openMissing : BOOLEAN],
           rv.latestSubmission = review.latestSubmission,
           review' = Analysed(rv), Len(runs) = Len(submissions) - 1,
           UNCHANGED <<caseStatus, documents, submissions, triaged>>
    PROVE  /\ RoundsTypeOK' /\ Numbered' /\ Logged'
           /\ caseStatus # "REVISION_REQUIRED" /\ Positioned'
           /\ Len(runs') = Len(runs) + 1 /\ DOMAIN runs' = 1 .. Len(runs')
<1>0. /\ Len(submissions) \in Nat /\ Len(runs) \in Nat
      /\ DOMAIN runs = 1 .. Len(runs) /\ DOMAIN findings = 1 .. Len(runs)
  BY NewestSubmission
<1>1. /\ review' \in [status : ReviewStatuses, latestSubmission : Nat, latestRun : Nat,
                      openMissing : BOOLEAN]
      /\ review'.status = "REVIEW_REQUIRED"
      /\ review'.latestSubmission = Len(submissions)
      /\ review'.latestRun = Len(runs) + 1
  BY <1>0, RowOfRun DEF RoundsInv, Numbered
<1>2. /\ runs' \in Seq([submission : Nat, evaluated : SUBSET Rules])
      /\ findings' \in Seq(FindingSets)
      /\ Len(runs') = Len(runs) + 1 /\ Len(findings') = Len(runs) + 1
      /\ \A k \in DOMAIN runs : runs'[k] = runs[k] /\ findings'[k] = findings[k]
      /\ runs'[Len(runs) + 1].submission = Len(submissions)
      /\ \A r \in Rules : findings'[Len(runs) + 1][r] \in {"NONE", "OPEN"}
  BY RunAppended DEF RoundsInv, Numbered
<1>3. RoundsTypeOK'
  BY <1>1, <1>2 DEF RoundsInv, RoundsTypeOK
<1>4. DOMAIN runs' = 1 .. Len(runs) + 1 /\ DOMAIN findings' = 1 .. Len(runs) + 1
  BY <1>0, <1>2
<1>5. Numbered'
  BY <1>0, <1>1, <1>2, <1>4 DEF RoundsInv, Numbered
<1>6. caseStatus # "REVISION_REQUIRED"
  BY <1>0 DEF RoundsInv, Positioned
<1>7. Positioned'
  BY <1>0, <1>1, <1>2, <1>6 DEF Positioned, StartableStatuses
<1>8. Logged'
  <2> SUFFICES ASSUME NEW k \in DOMAIN findings', NEW r \in Rules,
                      findings'[k][r] \in TriageDecisions
               PROVE  [run |-> k, rule |-> r, decision |-> findings'[k][r]] \in triaged
    BY DEF Logged
  <2>1. k \in DOMAIN runs
    BY <1>0, <1>2, <1>4 DEF TriageDecisions
  <2> QED
    BY <2>1, <1>0, <1>2 DEF RoundsInv, Logged
<1> QED
  BY <1>0, <1>2, <1>3, <1>4, <1>5, <1>6, <1>7, <1>8

\* The first run of a submission, from the workbench or by POST runs.
LEMMA StartKeeps ==
    ASSUME RoundsInv, NEW ready \in BOOLEAN, NEW outcome,
           StartReview(ready, outcome) \/ CreateRun(ready, outcome),
           UNCHANGED <<documents, submissions, triaged>>
    PROVE  RoundsInv'
<1>1. /\ review.status \in StartableStatuses /\ RunCreated(outcome)
      /\ UNCHANGED <<caseStatus, corrections>>
      /\ review' \in {Analysed(Checked(TRUE)), Analysed(review)}
  BY DEF StartReview, CreateRun, Moves, CanMove, AllowedTransitions, StartableStatuses
<1>2. PICK rv \in {Checked(TRUE), review} : review' = Analysed(rv)
  BY <1>1
<1>3. /\ rv \in [status : ReviewStatuses, latestSubmission : Nat, latestRun : Nat,
                 openMissing : BOOLEAN]
      /\ rv.latestSubmission = review.latestSubmission
  BY <1>2, RowsOfReview DEF RoundsInv, RoundsTypeOK
<1>4. Len(runs) = Len(submissions) - 1
  BY <1>1 DEF RoundsInv, Positioned
<1>5. /\ RoundsTypeOK' /\ Numbered' /\ Logged' /\ Positioned'
      /\ caseStatus # "REVISION_REQUIRED"
      /\ Len(runs') = Len(runs) + 1 /\ DOMAIN runs' = 1 .. Len(runs')
  BY <1>1, <1>2, <1>3, <1>4, NewRunKeeps
<1>6. Len(submissions) \in Nat /\ Len(runs) \in Nat /\ DOMAIN runs = 1 .. Len(runs)
  BY NewestSubmission
<1>7. DOMAIN runs \subseteq DOMAIN runs'
  BY <1>5, <1>6
<1>8. Sent = {}
  BY <1>5 DEF RoundsInv, Requested
<1>9. Requested'
  BY <1>1, <1>6, <1>7, <1>8, RequestsStay
<1> QED
  BY <1>1, <1>5, <1>9 DEF RoundsInv

---------------------------------------------------------------------------
(* The requests *)

\* One row of the requests is written.
LEMMA RequestWritten ==
    ASSUME RoundsInv, NEW i \in DOMAIN corrections, NEW c \in CorrectionRows,
           corrections' = [corrections EXCEPT ![i] = c]
    PROVE  /\ corrections' \in Seq(CorrectionRows) /\ DOMAIN corrections' = DOMAIN corrections
           /\ corrections'[i] = c
           /\ \A j \in DOMAIN corrections : j # i => corrections'[j] = corrections[j]
<1>1. corrections \in Seq(CorrectionRows) /\ i \in 1 .. Len(corrections)
  BY NewestSubmission DEF RoundsInv
<1> QED
  BY <1>1, ExceptSeq, LenProperties

\* The fields of a correction request.
LEMMA RequestTyped ==
    ASSUME RoundsInv, NEW i \in DOMAIN corrections
    PROVE  /\ corrections[i] \in CorrectionRows
           /\ corrections[i].status \in CorrectionStatuses /\ corrections[i].run \in Nat
           /\ corrections[i].response \in Nat /\ corrections[i].items \in ItemSets
<1>1. corrections \in Seq(CorrectionRows) /\ i \in 1 .. Len(corrections)
  BY NewestSubmission DEF RoundsInv
<1>2. corrections[i] \in CorrectionRows
  BY <1>1, ElementOfSeq
<1> QED
  BY <1>2 DEF CorrectionRows

\* The new row of a draft.
LEMMA DraftAppended ==
    ASSUME RoundsInv, CreateCorrectionDraft(Base)
    PROVE  \E c \in CorrectionRows :
               /\ c.status = "DRAFT" /\ c.run = review.latestRun /\ c.response = 0
               /\ corrections' \in Seq(CorrectionRows)
               /\ DOMAIN corrections' = 1 .. Len(corrections) + 1
               /\ corrections'[Len(corrections) + 1] = c
               /\ \A j \in DOMAIN corrections : corrections'[j] = corrections[j]
<1>1. Base.document \in Nat /\ Base.version \in Nat /\ Len(corrections) \in Nat
      /\ DOMAIN corrections = 1 .. Len(corrections)
  BY NewestSubmission
<1>2. PICK b \in Nat, v \in Nat, run \in Nat, items \in ItemSets :
          /\ b = Base.document /\ v = Base.version /\ run = review.latestRun
          /\ items = ItemsFor(LatestFindings)
  BY <1>1, ReviewTyped DEF ItemsFor, ItemSets, RoundsInv
<1>3. PICK c \in CorrectionRows :
          /\ c = [status |-> "DRAFT", run |-> run, base |-> b, baseVersion |-> v,
                  response |-> 0, items |-> items]
          /\ corrections' = Append(corrections, c)
  BY <1>2 DEF CreateCorrectionDraft, CorrectionRows, CorrectionStatuses
<1>4. /\ corrections' \in Seq(CorrectionRows)
      /\ DOMAIN corrections' = 1 .. Len(corrections) + 1
      /\ corrections'[Len(corrections) + 1] = c
      /\ \A j \in DOMAIN corrections : corrections'[j] = corrections[j]
  BY <1>1, <1>3, AppendProperties DEF RoundsInv
<1>5. c.status = "DRAFT" /\ c.run = review.latestRun /\ c.response = 0
  BY <1>2, <1>3
<1> QED
  BY <1>4, <1>5

\* A draft is made when no request is active.
LEMMA DraftKeeps ==
    ASSUME RoundsInv, CreateCorrectionDraft(Base),
           UNCHANGED <<documents, submissions, triaged>>
    PROVE  RoundsInv'
<1>1. UNCHANGED <<caseStatus, review, runs, findings, documents, submissions, triaged>>
  BY DEF CreateCorrectionDraft
<1>2. ActiveCorrections = {} /\ review.latestRun # 0
  BY DEF CreateCorrectionDraft, SendGate, HasRun
<1>3. /\ Len(corrections) \in Nat /\ DOMAIN corrections = 1 .. Len(corrections)
      /\ Len(runs) \in Nat /\ DOMAIN runs = 1 .. Len(runs) /\ Len(submissions) \in Nat
  BY NewestSubmission
<1>6. PICK c \in CorrectionRows :
          /\ c.status = "DRAFT" /\ c.run = review.latestRun /\ c.response = 0
          /\ corrections' \in Seq(CorrectionRows)
          /\ DOMAIN corrections' = 1 .. Len(corrections) + 1
          /\ corrections'[Len(corrections) + 1] = c
          /\ \A k \in DOMAIN corrections : corrections'[k] = corrections[k]
  BY DraftAppended
<1>7. c.status = "DRAFT" /\ c.run = review.latestRun /\ c.response = 0
  BY <1>6
<1>8. c.run \in DOMAIN runs
  BY <1>2, <1>3, <1>7 DEF RoundsInv, Numbered
<1>9. ActiveCorrections' = {Len(corrections) + 1} /\ Sent' = {} /\ Sent = {}
  BY <1>2, <1>3, <1>6, <1>7 DEF ActiveCorrections, Active, Sent
<1>10. Requested'
  <2>1. \A i \in DOMAIN corrections' :
          /\ corrections'[i].run \in DOMAIN runs
          /\ corrections'[i].response \in {0, corrections'[i].run + 1}
          /\ corrections'[i].response =< Len(submissions)
    BY <1>3, <1>6, <1>7, <1>8 DEF RoundsInv, Requested
  <2> QED
    BY <2>1, <1>1, <1>9 DEF RoundsInv, Requested
<1>11. RoundsTypeOK' /\ Numbered' /\ Positioned' /\ Logged'
  BY <1>1 DEF RoundsInv, RoundsTypeOK, Numbered, Positioned, Logged
<1> QED
  BY <1>6, <1>10, <1>11 DEF RoundsInv

\* A request is sent, and the case goes to its owner.
LEMMA SendKeeps ==
    ASSUME RoundsInv, NEW i \in DOMAIN corrections, SendCorrection(i),
           UNCHANGED <<documents, submissions, triaged>>
    PROVE  RoundsInv'
<1>1. /\ UNCHANGED <<runs, findings, documents, submissions, triaged>>
      /\ caseStatus' = "REVISION_REQUIRED" /\ corrections[i].status = "DRAFT"
      /\ corrections[i].run = review.latestRun /\ review.status = "REVIEW_REQUIRED"
  BY DEF SendCorrection, CorrectionRequestStatuses
<1>2. /\ review' \in [status : ReviewStatuses, latestSubmission : Nat, latestRun : Nat,
                      openMissing : BOOLEAN]
      /\ review'.status = "RETURNED_FOR_REVISION"
      /\ review'.latestSubmission = review.latestSubmission
      /\ review'.latestRun = review.latestRun
  BY ReviewTyped DEF SendCorrection, RoundsInv, ReviewStatuses
<1>3. PICK c \in CorrectionRows :
          /\ corrections' = [corrections EXCEPT ![i] = c] /\ c.status = "SENT"
          /\ c.run = corrections[i].run /\ c.response = corrections[i].response
  <2>1. PICK c : c = [corrections[i] EXCEPT !.status = "SENT"]
    OBVIOUS
  <2>2. /\ c \in CorrectionRows /\ c.status = "SENT"
        /\ c.run = corrections[i].run /\ c.response = corrections[i].response
    BY <2>1, RequestTyped DEF CorrectionRows, CorrectionStatuses
  <2>3. corrections' = [corrections EXCEPT ![i] = c]
    BY <2>1 DEF SendCorrection
  <2> QED
    BY <2>2, <2>3
<1>4. /\ corrections' \in Seq(CorrectionRows) /\ DOMAIN corrections' = DOMAIN corrections
      /\ corrections'[i] = c
      /\ \A j \in DOMAIN corrections : j # i => corrections'[j] = corrections[j]
  BY <1>3, RequestWritten
<1>5. RoundsTypeOK'
  BY <1>1, <1>2 DEF RoundsInv, RoundsTypeOK, CaseStatuses
<1>6. Numbered'
  BY <1>1, <1>2 DEF RoundsInv, Numbered
<1>7. Len(runs) = Len(submissions) /\ Len(submissions) \in Nat
  BY <1>1, NewestSubmission DEF RoundsInv, Positioned
<1>8. Positioned'
  BY <1>1, <1>2, <1>7 DEF Positioned, StartableStatuses
<1>9. Logged'
  BY <1>1 DEF RoundsInv, Logged
<1>10. Sent' = {i} /\ ActiveCorrections' = {i}
  <2>1. Sent = {}
    BY <1>1 DEF RoundsInv, Requested, Positioned
  <2>2. \A j \in DOMAIN corrections : j # i => corrections[j].status = "RECHECKED"
    BY <1>1 DEF RoundsInv, Requested, ActiveCorrections, Active
  <2> QED
    BY <2>1, <2>2, <1>1, <1>3, <1>4 DEF Sent, ActiveCorrections, Active
<1>11. Requested'
  <2>1. \A j \in DOMAIN corrections' :
          /\ corrections'[j].run \in DOMAIN runs
          /\ corrections'[j].response \in {0, corrections'[j].run + 1}
          /\ corrections'[j].response =< Len(submissions)
    BY <1>3, <1>4 DEF RoundsInv, Requested
  <2>2. c.run = Len(runs)
    BY <1>1, <1>3 DEF RoundsInv, Numbered
  <2> QED
    BY <2>1, <2>2, <1>1, <1>4, <1>10 DEF Requested
<1> QED
  BY <1>4, <1>5, <1>6, <1>8, <1>9, <1>11 DEF RoundsInv

\* A request that was answered waits for the run of the newest submission, and no
\* other is open.
LEMMA AnsweredRequest ==
    ASSUME RoundsInv, NEW i \in DOMAIN corrections, corrections[i].status = "RESUBMITTED",
           review.status = "RETURNED_FOR_REVISION", RecheckLineage(corrections[i])
    PROVE  /\ Len(runs) = Len(submissions) - 1 /\ Sent = {}
           /\ caseStatus # "REVISION_REQUIRED" /\ ActiveCorrections = {i}
<1>1. ActiveCorrections = {i}
  BY DEF RoundsInv, Requested, ActiveCorrections, Active
<1>2. Sent = {}
  BY <1>1 DEF Sent, ActiveCorrections, Active
<1>3. caseStatus # "REVISION_REQUIRED"
  BY <1>2 DEF RoundsInv, Requested
<1> QED
  BY <1>1, <1>2, <1>3 DEF RoundsInv, Positioned

\* A recheck that finds material missing leaves the request answered.
LEMMA RecheckIncompleteKeeps ==
    ASSUME RoundsInv, NEW i \in DOMAIN corrections, RecheckIncomplete(i),
           UNCHANGED <<documents, submissions, triaged>>
    PROVE  RoundsInv'
<1>1. /\ review' = Checked(FALSE) /\ review.status = "RETURNED_FOR_REVISION"
      /\ corrections[i].status = "RESUBMITTED" /\ RecheckLineage(corrections[i])
      /\ UNCHANGED <<caseStatus, runs, findings, corrections, documents, submissions, triaged>>
  BY DEF RecheckIncomplete, RecheckStatuses
<1>2. Len(runs) = Len(submissions) - 1 /\ caseStatus # "REVISION_REQUIRED"
  BY <1>1, AnsweredRequest
<1>3. /\ review' \in [status : ReviewStatuses, latestSubmission : Nat, latestRun : Nat,
                      openMissing : BOOLEAN]
      /\ review'.status = "PENDING_MATERIALS"
      /\ review'.latestSubmission = review.latestSubmission
      /\ review'.latestRun = review.latestRun
  BY <1>1, RowsOfReview DEF RoundsInv
<1>4. RoundsTypeOK' /\ (corrections \in Seq(CorrectionRows))'
  BY <1>1, <1>3 DEF RoundsInv, RoundsTypeOK
<1>5. Numbered'
  BY <1>1, <1>3 DEF RoundsInv, Numbered
<1>6. Positioned'
  BY <1>1, <1>2, <1>3 DEF Positioned, StartableStatuses
<1>7. Requested' /\ Logged'
  BY <1>1 DEF RoundsInv, Requested, Logged, Sent, ActiveCorrections, Active
<1> QED
  BY <1>4, <1>5, <1>6, <1>7 DEF RoundsInv

\* A recheck makes the run of the answer and closes its request.
LEMMA RecheckCompleteKeeps ==
    ASSUME RoundsInv, NEW i \in DOMAIN corrections, NEW outcome, RecheckComplete(i, outcome),
           UNCHANGED <<documents, submissions, triaged>>
    PROVE  RoundsInv'
<1>1. /\ review' = Analysed(Checked(TRUE)) /\ review.status = "RETURNED_FOR_REVISION"
      /\ corrections[i].status = "RESUBMITTED" /\ RecheckLineage(corrections[i])
      /\ RunCreated(outcome)
      /\ UNCHANGED <<caseStatus, documents, submissions, triaged>>
  BY DEF RecheckComplete, RecheckStatuses
<1>2. /\ Len(runs) = Len(submissions) - 1 /\ caseStatus # "REVISION_REQUIRED"
      /\ Sent = {} /\ ActiveCorrections = {i}
  BY <1>1, AnsweredRequest
<1>3. PICK rv : rv = Checked(TRUE)
  OBVIOUS
<1>4. /\ rv \in [status : ReviewStatuses, latestSubmission : Nat, latestRun : Nat,
                 openMissing : BOOLEAN]
      /\ rv.latestSubmission = review.latestSubmission
  BY <1>3, RowsOfReview DEF RoundsInv
<1>5. /\ RoundsTypeOK' /\ Numbered' /\ Logged' /\ Positioned'
      /\ Len(runs') = Len(runs) + 1 /\ DOMAIN runs' = 1 .. Len(runs')
  BY <1>1, <1>2, <1>3, <1>4, NewRunKeeps
<1>6. PICK c \in CorrectionRows :
          /\ corrections' = [corrections EXCEPT ![i] = c] /\ c.status = "RECHECKED"
          /\ c.run = corrections[i].run /\ c.response = corrections[i].response
  <2>1. PICK items \in ItemSets :
            items = RecheckItems(corrections[i].items, corrections[i].run = review.latestRun,
                                 outcome)
    BY DEF RecheckItems, ItemSets
  <2>2. PICK c : c = [corrections[i] EXCEPT !.status = "RECHECKED", !.items = items]
    OBVIOUS
  <2>3. /\ c \in CorrectionRows /\ c.status = "RECHECKED"
        /\ c.run = corrections[i].run /\ c.response = corrections[i].response
    BY <2>2, RequestTyped DEF CorrectionRows, CorrectionStatuses
  <2>4. corrections' = [corrections EXCEPT ![i] = c]
    BY <2>1, <2>2 DEF RecheckComplete
  <2> QED
    BY <2>3, <2>4
<1>7. /\ corrections' \in Seq(CorrectionRows) /\ DOMAIN corrections' = DOMAIN corrections
      /\ corrections'[i] = c
      /\ \A j \in DOMAIN corrections : j # i => corrections'[j] = corrections[j]
  BY <1>6, RequestWritten
<1>8. ActiveCorrections' = {} /\ Sent' = {}
  BY <1>2, <1>6, <1>7 DEF ActiveCorrections, Active, Sent
<1>9. Len(runs) \in Nat /\ DOMAIN runs = 1 .. Len(runs)
  BY NewestSubmission
<1>10. Requested'
  <2>1. \A j \in DOMAIN corrections' :
          /\ corrections'[j].run \in DOMAIN runs'
          /\ corrections'[j].response \in {0, corrections'[j].run + 1}
          /\ corrections'[j].response =< Len(submissions)
    BY <1>5, <1>6, <1>7, <1>9 DEF RoundsInv, Requested
  <2> QED
    BY <2>1, <1>1, <1>2, <1>8 DEF Requested
<1> QED
  BY <1>5, <1>7, <1>10 DEF RoundsInv

---------------------------------------------------------------------------
(* The owner, triage and completion *)

\* The table of documents after a new version.
LEMMA DocumentAdded ==
    ASSUME RoundsTypeOK, NewDocument
    PROVE  /\ documents' \in Seq([group : {1}, version : Nat, active : BOOLEAN])
           /\ Len(documents') = Len(submissions) + 1
<1>1. /\ Len(documents) = Len(submissions)
      /\ documents' = Append([d \in DOMAIN documents |-> [documents[d] EXCEPT !.active = FALSE]],
                             [group |-> 1, version |-> Len(documents) + 1, active |-> TRUE])
  BY DEF NewDocument
<1> DEFINE DocumentRows == [group : {1}, version : Nat, active : BOOLEAN]
<1>2. documents \in Seq(DocumentRows)
  BY DEF RoundsTypeOK
<1>3. Len(documents) \in Nat /\ DOMAIN documents = 1 .. Len(documents)
  BY <1>2, LenProperties
<1>4. \A d \in DOMAIN documents : [documents[d] EXCEPT !.active = FALSE] \in DocumentRows
  <2> SUFFICES ASSUME NEW d \in DOMAIN documents
               PROVE  [documents[d] EXCEPT !.active = FALSE] \in DocumentRows
    OBVIOUS
  <2>1. documents[d] \in DocumentRows
    BY <1>2, <1>3, ElementOfSeq
  <2> QED
    BY <2>1
<1>5. PICK old \in Seq(DocumentRows) :
          /\ old = [d \in DOMAIN documents |-> [documents[d] EXCEPT !.active = FALSE]]
          /\ Len(old) = Len(documents)
  <2>1. PICK old : old = [d \in DOMAIN documents |-> [documents[d] EXCEPT !.active = FALSE]]
    OBVIOUS
  <2>2. old \in [1 .. Len(documents) -> DocumentRows]
    BY <1>3, <1>4, <2>1
  <2>3. old \in Seq(DocumentRows) /\ Len(old) = Len(documents)
    <3> HIDE DEF DocumentRows
    <3> QED
      BY <1>3, <2>2
  <2> QED
    BY <2>1, <2>3
<1>6. PICK new \in DocumentRows : new = [group |-> 1, version |-> Len(documents) + 1, active |-> TRUE]
  <2>1. PICK n \in Nat : n = Len(documents) + 1
    BY <1>3
  <2>2. PICK new : new = [group |-> 1, version |-> n, active |-> TRUE]
    OBVIOUS
  <2>3. new \in DocumentRows
    BY <2>2
  <2> QED
    BY <2>1, <2>2, <2>3
<1> QED
  BY <1>1, <1>5, <1>6, AppendProperties

\* A new version is not submitted yet.
LEMMA NewDocumentKeeps ==
    ASSUME RoundsInv, NewDocument, UNCHANGED triaged
    PROVE  RoundsInv'
<1>1. UNCHANGED <<caseStatus, submissions, review, runs, findings, corrections, triaged>>
  BY DEF NewDocument, reviewVars
<1>2. /\ documents' \in Seq([group : {1}, version : Nat, active : BOOLEAN])
      /\ Len(documents') = Len(submissions) + 1
  BY DocumentAdded DEF RoundsInv
<1>3. RoundsTypeOK'
  BY <1>1, <1>2 DEF RoundsInv, RoundsTypeOK
<1>4. Numbered'
  BY <1>1, <1>2 DEF RoundsInv, Numbered
<1>5. Positioned' /\ Requested' /\ Logged'
  BY <1>1 DEF RoundsInv, Positioned, Requested, Logged, Sent, ActiveCorrections, Active
<1> QED
  BY <1>1, <1>3, <1>4, <1>5 DEF RoundsInv

\* The new version is submitted and answers the one request that is sent.
LEMMA ResubmitKeeps ==
    ASSUME RoundsInv, RoundAssumption, NEW ready \in Readiness, NEW outcome \in RuleOutcomes,
           Resubmit(ready, outcome), UNCHANGED triaged
    PROVE  RoundsInv'
<1> DEFINE Rows == [document : Nat, ready : BOOLEAN, outcome : RuleOutcomes]
<1>1. PICK d : d = Len(documents)
  OBVIOUS
<1>2. /\ d = Len(submissions) + 1 /\ caseStatus = "REVISION_REQUIRED"
      /\ caseStatus' = "IN_REVIEW"
      /\ submissions' = Append(submissions, [document |-> d, ready |-> ready, outcome |-> outcome])
      /\ review' = [review EXCEPT !.latestSubmission = d]
      /\ UNCHANGED <<documents, runs, findings, triaged>>
  BY <1>1 DEF Resubmit
<1>3. /\ Len(submissions) \in Nat \ {0} /\ DOMAIN submissions = 1 .. Len(submissions)
      /\ submissions \in Seq(Rows) /\ Len(runs) \in Nat /\ d \in Nat
      /\ DOMAIN runs = 1 .. Len(runs)
  BY <1>2, NewestSubmission DEF RoundsInv, RoundsTypeOK
<1>4. PICK i \in ActiveCorrections : Registers(i, d)
  BY <1>1 DEF Resubmit
<1>5. i \in DOMAIN corrections /\ corrections[i].status = "SENT"
  BY <1>4 DEF ActiveCorrections, Registers
<1>6. ActiveCorrections = {i} /\ Sent = {i}
  BY <1>4, <1>5 DEF RoundsInv, Requested, ActiveCorrections, Active, Sent
<1>7. /\ review.status = "RETURNED_FOR_REVISION" /\ Len(runs) = Len(submissions)
      /\ corrections[i].run = Len(runs)
  BY <1>2, <1>5, <1>6 DEF RoundsInv, Positioned, Requested
<1>8. PICK c \in CorrectionRows :
          /\ corrections' = [corrections EXCEPT ![i] = c] /\ c.status = "RESUBMITTED"
          /\ c.run = Len(runs) /\ c.response = d
  <2>1. PICK c : c = [corrections[i] EXCEPT !.status = "RESUBMITTED", !.response = d]
    OBVIOUS
  <2>2. /\ c \in CorrectionRows /\ c.status = "RESUBMITTED"
        /\ c.run = Len(runs) /\ c.response = d
    BY <1>3, <1>5, <1>7, <2>1, RequestTyped DEF CorrectionRows, CorrectionStatuses
  <2>3. corrections' = [corrections EXCEPT ![i] = c]
    BY <1>4, <2>1 DEF Registers
  <2> QED
    BY <2>2, <2>3
<1>9. /\ corrections' \in Seq(CorrectionRows) /\ DOMAIN corrections' = DOMAIN corrections
      /\ corrections'[i] = c
      /\ \A j \in DOMAIN corrections : j # i => corrections'[j] = corrections[j]
  BY <1>5, <1>8, RequestWritten
<1>10. PICK x \in Rows : x = [document |-> d, ready |-> ready, outcome |-> outcome]
  BY <1>3 DEF RoundAssumption
<1>11. /\ submissions' \in Seq(Rows) /\ Len(submissions') = d /\ DOMAIN submissions' = 1 .. d
       /\ submissions'[d] = x /\ x.document = d
       /\ \A n \in DOMAIN submissions : submissions'[n] = submissions[n]
  BY <1>2, <1>3, <1>10, AppendProperties
<1>12. /\ review' \in [status : ReviewStatuses, latestSubmission : Nat, latestRun : Nat,
                       openMissing : BOOLEAN]
       /\ review'.status = review.status /\ review'.latestSubmission = d
       /\ review'.latestRun = review.latestRun
  BY <1>2, <1>3, ReviewTyped DEF RoundsInv
<1>13. RoundsTypeOK'
  BY <1>2, <1>11, <1>12 DEF RoundsInv, RoundsTypeOK, CaseStatuses
<1>18. /\ Len(submissions') = d /\ d \in Nat /\ d # 0 /\ Len(runs') = d - 1
       /\ review'.status = "RETURNED_FOR_REVISION" /\ caseStatus' = "IN_REVIEW"
       /\ Len(documents') = d /\ runs' = runs /\ findings' = findings
       /\ Len(findings) = Len(runs) /\ review'.latestRun = Len(runs)
  <2>1. runs' = runs /\ findings' = findings /\ documents' = documents
    BY <1>2
  <2>2. Len(findings) = Len(runs) /\ review.latestRun = Len(runs)
    BY DEF RoundsInv, Numbered
  <2>3. Len(runs) = d - 1 /\ d \in Nat /\ d # 0
    BY <1>2, <1>3, <1>7
  <2> QED
    BY <2>1, <2>2, <2>3, <1>1, <1>2, <1>7, <1>11, <1>12
<1>14. Numbered'
  <2>1. submissions' # <<>>
    BY <1>18
  <2>2. \A n \in DOMAIN submissions' : submissions'[n].document = n
    <3> SUFFICES ASSUME NEW n \in DOMAIN submissions'
                 PROVE  submissions'[n].document = n
      OBVIOUS
    <3>1. CASE n = d
      BY <3>1, <1>11
    <3>2. CASE n # d
      <4>1. n \in DOMAIN submissions
        BY <3>2, <1>2, <1>3, <1>11
      <4> QED
        BY <4>1, <1>11 DEF RoundsInv, Numbered
    <3> QED
      BY <3>1, <3>2
  <2> QED
    BY <2>1, <2>2, <1>12, <1>18 DEF RoundsInv, Numbered
<1>15. Positioned'
  BY <1>18 DEF Positioned, StartableStatuses
<1>16. Logged'
  BY <1>2 DEF RoundsInv, Logged
<1>17. Requested'
  <2>1. Sent' = {} /\ ActiveCorrections' = {i}
    BY <1>6, <1>8, <1>9 DEF Sent, ActiveCorrections, Active
  <2>2. \A j \in DOMAIN corrections' :
          /\ corrections'[j].run \in DOMAIN runs
          /\ corrections'[j].response \in {0, corrections'[j].run + 1}
          /\ corrections'[j].response =< Len(submissions')
    <3> SUFFICES ASSUME NEW j \in DOMAIN corrections'
                 PROVE  /\ corrections'[j].run \in DOMAIN runs
                        /\ corrections'[j].response \in {0, corrections'[j].run + 1}
                        /\ corrections'[j].response =< Len(submissions')
      OBVIOUS
    <3>1. CASE j = i
      BY <3>1, <1>2, <1>3, <1>7, <1>8, <1>9, <1>11
    <3>2. CASE j # i
      <4>1. j \in DOMAIN corrections /\ corrections'[j] = corrections[j]
        BY <3>2, <1>9
      <4>2. /\ corrections[j].run \in DOMAIN runs /\ corrections[j].response =< Len(submissions)
            /\ corrections[j].response \in {0, corrections[j].run + 1}
        BY <4>1 DEF RoundsInv, Requested
      <4>3. corrections[j].response \in Nat
        BY <4>1, RequestTyped
      <4> QED
        BY <4>1, <4>2, <4>3, <1>2, <1>3, <1>11
    <3> QED
      BY <3>1, <3>2
  <2> QED
    BY <2>1, <2>2, <1>2 DEF Requested
<1> QED
  BY <1>9, <1>13, <1>14, <1>15, <1>16, <1>17 DEF RoundsInv

\* A finding of a run is decided with its row in the log.
LEMMA TriageKeeps ==
    ASSUME RoundsInv, NEW r \in Rules, NEW decision \in TriageDecisions, Triage(r, decision)
    PROVE  RoundsInv'
<1>1. /\ UNCHANGED <<caseStatus, documents, submissions, review, runs, corrections>>
      /\ review.latestRun # 0
      /\ findings' = [findings EXCEPT ![review.latestRun][r] = decision]
      /\ triaged' = triaged \cup {[run |-> review.latestRun, rule |-> r, decision |-> decision]}
  BY DEF Triage, TriageFinding, HasRun
<1>2. /\ review.latestRun = Len(runs) /\ Len(runs) \in Nat /\ Len(runs) \in DOMAIN findings
      /\ findings \in Seq(FindingSets) /\ DOMAIN findings = 1 .. Len(findings)
      /\ Len(findings) = Len(runs) /\ Len(runs) \in 1 .. Len(findings)
  BY <1>1, NewestSubmission DEF RoundsInv, RoundsTypeOK, Numbered
<1>3. PICK f \in FindingSets :
          /\ f = [findings[Len(runs)] EXCEPT ![r] = decision]
          /\ findings' = [findings EXCEPT ![Len(runs)] = f]
  <2>1. findings[Len(runs)] \in FindingSets
    BY <1>2, ElementOfSeq
  <2> QED
    BY <2>1, <1>1, <1>2 DEF FindingSets
<1>4. /\ findings' \in Seq(FindingSets) /\ Len(findings') = Len(findings)
      /\ \A k \in 1 .. Len(findings) :
            findings'[k] = IF k = Len(runs) THEN f ELSE findings[k]
  BY <1>2, <1>3, ExceptSeq
<1>5. PICK x \in TriageRows :
          x = [run |-> Len(runs), rule |-> r, decision |-> decision]
  BY <1>2 DEF TriageRows
<1>6. RoundsTypeOK'
  BY <1>1, <1>2, <1>4, <1>5 DEF RoundsInv, RoundsTypeOK
<1>7. Numbered' /\ Positioned' /\ Requested'
  BY <1>1, <1>4 DEF RoundsInv, Numbered, Positioned, Requested, Sent, ActiveCorrections, Active
<1>8. Logged'
  <2> SUFFICES ASSUME NEW k \in DOMAIN findings', NEW q \in Rules,
                      findings'[k][q] \in TriageDecisions
               PROVE  [run |-> k, rule |-> q, decision |-> findings'[k][q]] \in triaged'
    BY DEF Logged
  <2>1. k \in 1 .. Len(findings)
    BY <1>2, <1>3
  <2>2. CASE k = Len(runs) /\ q = r
    <3>1. findings'[k][q] = decision
      <4>1. findings[Len(runs)] \in [Rules -> {"NONE", "OPEN"} \cup TriageDecisions]
        BY <1>2, ElementOfSeq DEF FindingSets
      <4> QED
        BY <4>1, <2>1, <2>2, <1>3, <1>4
    <3> QED
      BY <3>1, <2>2, <1>1, <1>2
  <2>3. CASE ~(k = Len(runs) /\ q = r)
    <3>1. findings'[k][q] = findings[k][q]
      <4>1. findings[Len(runs)] \in [Rules -> {"NONE", "OPEN"} \cup TriageDecisions]
        BY <1>2, ElementOfSeq DEF FindingSets
      <4> QED
        BY <4>1, <2>1, <2>3, <1>3, <1>4
    <3>2. [run |-> k, rule |-> q, decision |-> findings[k][q]] \in triaged
      BY <3>1, <2>1, <1>2 DEF RoundsInv, Logged
    <3> QED
      BY <3>1, <3>2, <1>1
  <2> QED
    BY <2>2, <2>3
<1> QED
  BY <1>1, <1>6, <1>7, <1>8 DEF RoundsInv

\* The completion of a review.
LEMMA CompleteKeeps ==
    ASSUME RoundsInv, CompleteReview, UNCHANGED <<documents, submissions, triaged>>
    PROVE  RoundsInv'
<1>1. /\ UNCHANGED <<documents, submissions, runs, findings, corrections, triaged>>
      /\ review.status = "REVIEW_REQUIRED" /\ caseStatus' = "REVIEW_COMPLETED"
  BY DEF CompleteReview, CompletionStatuses
<1>2. /\ review' \in [status : ReviewStatuses, latestSubmission : Nat, latestRun : Nat,
                      openMissing : BOOLEAN]
      /\ review'.status = "REVIEW_COMPLETED"
      /\ review'.latestSubmission = review.latestSubmission
      /\ review'.latestRun = review.latestRun
  BY ReviewTyped DEF CompleteReview, RoundsInv, ReviewStatuses
<1>3. RoundsTypeOK' /\ Numbered'
  BY <1>1, <1>2 DEF RoundsInv, RoundsTypeOK, CaseStatuses, Numbered
<1>4. Len(runs) = Len(submissions) /\ caseStatus # "REVISION_REQUIRED"
  BY <1>1 DEF RoundsInv, Positioned
<1>5. Positioned'
  BY <1>1, <1>2, <1>4 DEF Positioned, StartableStatuses
<1>6. Requested' /\ Logged'
  BY <1>1, <1>4 DEF RoundsInv, Requested, Logged, Sent, ActiveCorrections, Active
<1> QED
  BY <1>1, <1>3, <1>5, <1>6 DEF RoundsInv

\* One submission, and no run of it.
LEMMA RoundsBegin ==
    ASSUME RoundAssumption, RoundsInit
    PROVE  RoundsInv
<1>1. /\ caseStatus = "IN_REVIEW" /\ runs = <<>> /\ findings = <<>> /\ corrections = <<>>
      /\ triaged = {}
      /\ review = [status |-> "RECEIVED", latestSubmission |-> 1, latestRun |-> 0,
                   openMissing |-> FALSE]
  BY DEF RoundsInit
<1>2. PICK b \in Readiness, o \in RuleOutcomes :
          submissions = <<[document |-> 1, ready |-> b, outcome |-> o]>>
  BY DEF RoundsInit
<1>3. documents = <<[group |-> 1, version |-> 1, active |-> TRUE]>>
  BY DEF RoundsInit
<1>4. /\ documents \in Seq([group : {1}, version : Nat, active : BOOLEAN])
      /\ Len(documents) = 1
  BY <1>3
<1>5. /\ submissions \in Seq([document : Nat, ready : BOOLEAN, outcome : RuleOutcomes])
      /\ Len(submissions) = 1 /\ submissions[1].document = 1
  BY <1>2 DEF RoundAssumption
<1>6. /\ runs \in Seq([submission : Nat, evaluated : SUBSET Rules]) /\ Len(runs) = 0
      /\ findings \in Seq(FindingSets) /\ corrections \in Seq(CorrectionRows)
      /\ DOMAIN runs = {} /\ DOMAIN findings = {} /\ DOMAIN corrections = {}
      /\ Len(findings) = 0
  BY <1>1
<1>7. RoundsTypeOK
  BY <1>1, <1>4, <1>5, <1>6 DEF RoundsTypeOK, CaseStatuses, ReviewStatuses
<1>8. Numbered
  BY <1>1, <1>4, <1>5, <1>6 DEF Numbered
<1>9. Positioned /\ Requested /\ Logged
  BY <1>1, <1>5, <1>6 DEF Positioned, Requested, Logged, Sent, ActiveCorrections,
                          StartableStatuses
<1> QED
  BY <1>6, <1>7, <1>8, <1>9 DEF RoundsInv

\* Every step of the rounds.
LEMMA RoundKeeps ==
    ASSUME RoundAssumption, RoundsInv, RoundStep
    PROVE  RoundsInv'
<1>1. Latest.ready \in BOOLEAN
  BY NewestSubmission
<1>2. ASSUME NEW r \in Rules, NEW decision \in TriageDecisions, Triage(r, decision)
      PROVE  RoundsInv'
  BY <1>2, TriageKeeps
<1>3. ASSUME NewDocument, UNCHANGED triaged
      PROVE  RoundsInv'
  BY <1>3, NewDocumentKeeps
<1>4. ASSUME NEW ready \in Readiness, NEW outcome \in RuleOutcomes, Resubmit(ready, outcome),
             UNCHANGED triaged
      PROVE  RoundsInv'
  BY <1>4, ResubmitKeeps
<1>5. ASSUME UNCHANGED <<documents, submissions, triaged>>,
             \/ Preflight(Latest.ready)
             \/ StartReview(Latest.ready, Latest.outcome)
             \/ CreateRun(Latest.ready, Latest.outcome)
      PROVE  RoundsInv'
  BY <1>1, <1>5, PreflightKeeps, StartKeeps
<1>6. ASSUME UNCHANGED <<documents, submissions, triaged>>,
             CreateCorrectionDraft(Base) \/ CompleteReview
      PROVE  RoundsInv'
  BY <1>6, DraftKeeps, CompleteKeeps
<1>7. ASSUME UNCHANGED <<documents, submissions, triaged>>, NEW i \in DOMAIN corrections,
             \/ SendCorrection(i)
             \/ Latest.ready /\ RecheckComplete(i, Latest.outcome)
             \/ ~Latest.ready /\ RecheckIncomplete(i)
      PROVE  RoundsInv'
  BY <1>7, SendKeeps, RecheckCompleteKeeps, RecheckIncompleteKeeps
<1> QED
  BY <1>2, <1>3, <1>4, <1>5, <1>6, <1>7 DEF RoundStep

---------------------------------------------------------------------------
(* The reports *)

\* What the rounds never take back: runs, the runs of requests, and the log.
LEMMA RoundsGrow ==
    ASSUME RoundsInv, RoundStep
    PROVE  /\ DOMAIN runs \subseteq DOMAIN runs' /\ triaged \subseteq triaged'
           /\ \A i \in DOMAIN corrections :
                 i \in DOMAIN corrections' /\ corrections'[i].run = corrections[i].run
<1>1. /\ Len(corrections) \in Nat /\ DOMAIN corrections = 1 .. Len(corrections)
      /\ corrections \in Seq(CorrectionRows)
      /\ runs \in Seq([submission : Nat, evaluated : SUBSET Rules])
      /\ DOMAIN runs = 1 .. Len(runs) /\ Len(runs) \in Nat
  BY NewestSubmission DEF RoundsInv, RoundsTypeOK
<1>2. ASSUME NEW outcome, RunCreated(outcome)
      PROVE  DOMAIN runs \subseteq DOMAIN runs'
  <2>1. /\ runs' \in Seq([submission : Nat, evaluated : SUBSET Rules])
        /\ Len(runs') = Len(runs) + 1
    BY <1>2, RunAppended DEF RoundsInv, Numbered
  <2> QED
    BY <2>1, <1>1
<1>3. ASSUME NEW i \in DOMAIN corrections, NEW c \in CorrectionRows,
             c.run = corrections[i].run, corrections' = [corrections EXCEPT ![i] = c]
      PROVE  \A j \in DOMAIN corrections :
                 j \in DOMAIN corrections' /\ corrections'[j].run = corrections[j].run
  BY <1>3, RequestWritten
<1>4. ASSUME NEW r \in Rules, NEW decision \in TriageDecisions, Triage(r, decision)
      PROVE  UNCHANGED <<runs, corrections>> /\ triaged \subseteq triaged'
  BY <1>4 DEF Triage, TriageFinding
<1>5. ASSUME NewDocument
      PROVE  UNCHANGED <<runs, corrections>>
  BY <1>5 DEF NewDocument, reviewVars
<1>6. ASSUME NEW i \in DOMAIN corrections, NEW d, d = Len(documents), Registers(i, d)
      PROVE  \A j \in DOMAIN corrections :
                 j \in DOMAIN corrections' /\ corrections'[j].run = corrections[j].run
  <2>1. Len(documents) \in Nat
    BY DEF RoundsInv, RoundsTypeOK
  <2>2. PICK c : c = [corrections[i] EXCEPT !.status = "RESUBMITTED", !.response = d]
    OBVIOUS
  <2>3. c \in CorrectionRows /\ c.run = corrections[i].run
    BY <1>6, <2>1, <2>2, RequestTyped DEF CorrectionRows, CorrectionStatuses
  <2>4. corrections' = [corrections EXCEPT ![i] = c]
    BY <1>6, <2>2 DEF Registers
  <2> QED
    BY <2>3, <2>4, <1>3
<1>7. ASSUME NEW ready, NEW outcome, Resubmit(ready, outcome)
      PROVE  /\ runs' = runs
             /\ \A j \in DOMAIN corrections :
                   j \in DOMAIN corrections' /\ corrections'[j].run = corrections[j].run
  BY <1>6, <1>7 DEF Resubmit, ActiveCorrections
<1>8. ASSUME \/ Preflight(Latest.ready)
             \/ StartReview(Latest.ready, Latest.outcome)
             \/ CreateRun(Latest.ready, Latest.outcome)
             \/ CompleteReview
      PROVE  DOMAIN runs \subseteq DOMAIN runs' /\ corrections' = corrections
  BY <1>2, <1>8 DEF Preflight, StartReview, CreateRun, CompleteReview
<1>9. ASSUME CreateCorrectionDraft(Base)
      PROVE  /\ runs' = runs
             /\ \A j \in DOMAIN corrections :
                   j \in DOMAIN corrections' /\ corrections'[j].run = corrections[j].run
  <2>1. runs' = runs
    BY <1>9 DEF CreateCorrectionDraft
  <2>2. /\ DOMAIN corrections' = 1 .. Len(corrections) + 1
        /\ \A j \in DOMAIN corrections : corrections'[j] = corrections[j]
    BY <1>9, DraftAppended
  <2> QED
    BY <2>1, <2>2, <1>1
<1>10. ASSUME NEW i \in DOMAIN corrections, SendCorrection(i)
       PROVE  /\ runs' = runs
              /\ \A j \in DOMAIN corrections :
                    j \in DOMAIN corrections' /\ corrections'[j].run = corrections[j].run
  <2>1. PICK c : c = [corrections[i] EXCEPT !.status = "SENT"]
    OBVIOUS
  <2>2. c \in CorrectionRows /\ c.run = corrections[i].run
    BY <2>1, RequestTyped DEF CorrectionRows, CorrectionStatuses
  <2>3. corrections' = [corrections EXCEPT ![i] = c] /\ runs' = runs
    BY <1>10, <2>1 DEF SendCorrection
  <2> QED
    BY <2>2, <2>3, <1>3
<1>11. ASSUME NEW i \in DOMAIN corrections, NEW outcome, RecheckComplete(i, outcome)
       PROVE  /\ DOMAIN runs \subseteq DOMAIN runs'
              /\ \A j \in DOMAIN corrections :
                    j \in DOMAIN corrections' /\ corrections'[j].run = corrections[j].run
  <2>1. PICK items \in ItemSets :
            items = RecheckItems(corrections[i].items, corrections[i].run = review.latestRun,
                                 outcome)
    BY DEF RecheckItems, ItemSets
  <2>2. PICK c : c = [corrections[i] EXCEPT !.status = "RECHECKED", !.items = items]
    OBVIOUS
  <2>3. c \in CorrectionRows /\ c.run = corrections[i].run
    BY <2>2, RequestTyped DEF CorrectionRows, CorrectionStatuses
  <2>4. corrections' = [corrections EXCEPT ![i] = c] /\ RunCreated(outcome)
    BY <1>11, <2>1, <2>2 DEF RecheckComplete
  <2> QED
    BY <2>3, <2>4, <1>2, <1>3
<1>12. ASSUME NEW i \in DOMAIN corrections, RecheckIncomplete(i)
       PROVE  UNCHANGED <<runs, corrections>>
  BY <1>12 DEF RecheckIncomplete
<1> QED
  BY <1>4, <1>5, <1>7, <1>8, <1>9, <1>10, <1>11, <1>12 DEF RoundStep

\* The decision log gets rows of its type.
LEMMA VerdictsTyped ==
    ASSUME RoundsInv, decisions \in Seq(VerdictRows), RoundStep
    PROVE  decisions' \in Seq(VerdictRows)
<1>1. decisions' = decisions \/ \E d \in {"RETURNED_FOR_REVISION", "APPROVED"} :
          decisions' = Append(decisions, [decision |-> d, run |-> review.latestRun])
  BY DEF RoundStep, Triage, TriageFinding, NewDocument, reviewVars, Resubmit, Preflight,
         StartReview, CreateRun, CreateCorrectionDraft, SendCorrection, RecheckComplete,
         RecheckIncomplete, CompleteReview
<1>2. review.latestRun \in Nat
  BY ReviewTyped DEF RoundsInv
<1>3. \A d \in {"RETURNED_FOR_REVISION", "APPROVED"} :
          [decision |-> d, run |-> review.latestRun] \in VerdictRows
  BY <1>2 DEF VerdictRows
<1> QED
  <2> HIDE DEF VerdictRows
  <2>1. CASE decisions' = decisions
    BY <2>1
  <2>2. CASE decisions' # decisions
    <3>1. PICK row \in VerdictRows : decisions' = Append(decisions, row)
      BY <2>2, <1>1, <1>3
    <3> QED
      BY <3>1, AppendProperties
  <2> QED
    BY <2>1, <2>2

\* The rounds go on under the generations.
LEMMA RoundUnderReports ==
    ASSUME RoundAssumption, ReportsInv, RoundStep,
           UNCHANGED <<reports, reportStore, reportKey, generation>>
    PROVE  ReportsInv'
<1>1. RoundsInv' /\ (decisions \in Seq(VerdictRows))'
  BY RoundKeeps, VerdictsTyped DEF ReportsInv
<1>2. /\ DOMAIN runs \subseteq DOMAIN runs' /\ triaged \subseteq triaged'
      /\ \A i \in DOMAIN corrections :
            i \in DOMAIN corrections' /\ corrections'[i].run = corrections[i].run
  BY RoundsGrow DEF ReportsInv
<1>3. ReportsTypeOK'
  BY <1>1 DEF ReportsInv, RoundsInv, ReportsTypeOK
<1>4. \A c : OwnRound(c) => OwnRound(c)'
  BY <1>2 DEF OwnRound
<1>5. \A c : Explained(c, triaged) => Explained(c, triaged)'
  BY <1>2 DEF Explained
<1>6. Reads'
  <2> SUFFICES ASSUME NEW s \in Generations
               PROVE  ReadSoFar(generation[s])'
    BY DEF Reads
  <2>1. ReadSoFar(generation[s]) /\ generation'[s] = generation[s]
    BY DEF ReportsInv, Reads
  <2>2. PICK g : g = generation[s] /\ ReadSoFar(g)
    BY <2>1
  <2>3. ReadSoFar(g)'
    BY <2>2, <1>2, <1>4, <1>5 DEF ReadSoFar
  <2> QED
    BY <2>1, <2>2, <2>3
<1>7. ObjectsApart' /\ VersionsFew'
  BY DEF ReportsInv, ObjectsApart, VersionsFew, HasObject
<1>8. Sound'
  <2> SUFFICES ASSUME NEW k \in DOMAIN reports
               PROVE  /\ Explained(reports[k].content, reports[k].content.triaged)
                      /\ OwnRound(reports[k].content)'
    BY DEF Sound, Explained
  <2>1. PICK c : c = reports[k].content
    OBVIOUS
  <2>2. Explained(c, c.triaged) /\ OwnRound(c)
    BY <2>1 DEF ReportsInv, Sound
  <2>3. OwnRound(c)'
    BY <2>2, <1>4
  <2> QED
    BY <2>1, <2>2, <2>3
<1> QED
  BY <1>1, <1>3, <1>6, <1>7, <1>8 DEF ReportsInv

---------------------------------------------------------------------------
(* The steps of a generation *)

\* What is said of the rounds stays while a generation takes its steps.
LEMMA RoundsStay ==
    ASSUME ReportsInv, UNCHANGED roundVars
    PROVE  /\ RoundsInv' /\ (decisions \in Seq(VerdictRows))' /\ RoundsTypeOK'
           /\ \A c : OwnRound(c)' <=> OwnRound(c)
           /\ \A g : ReadSoFar(g)' <=> ReadSoFar(g)
<1>1. UNCHANGED <<caseStatus, documents, submissions, review, runs, findings, corrections,
                  decisions, triaged>>
  BY DEF roundVars
<1>2. RoundsTypeOK' /\ (corrections \in Seq(CorrectionRows))'
  BY <1>1 DEF ReportsInv, RoundsInv, RoundsTypeOK
<1>3. Numbered' /\ Positioned' /\ Requested' /\ Logged'
  BY <1>1 DEF ReportsInv, RoundsInv, Numbered, Positioned, Requested, Logged, Sent,
              ActiveCorrections, Active
<1>4. \A c : OwnRound(c)' <=> OwnRound(c)
  BY <1>1 DEF OwnRound
<1>5. \A g : ReadSoFar(g)' <=> ReadSoFar(g)
  BY <1>1, <1>4 DEF ReadSoFar, Explained
<1> QED
  BY <1>1, <1>2, <1>3, <1>4, <1>5 DEF ReportsInv, RoundsInv

\* The fields of a session.
LEMMA GenerationTyped ==
    ASSUME ReportsInv, NEW s \in Generations
    PROVE  /\ generation[s] \in GenerationStates /\ ReadSoFar(generation[s])
           /\ generation[s].content \in Content /\ generation[s].version \in Nat
           /\ generation[s].version =< Len(reports) + 1 /\ Len(reports) \in Nat
           /\ generation[s].key \in Nat /\ generation[s].type \in Types
<1>1. generation[s] \in GenerationStates /\ reports \in Seq(Reports)
  BY DEF ReportsInv, ReportsTypeOK
<1> QED
  BY <1>1 DEF ReportsInv, Reads, VersionsFew, GenerationStates

\* What a session remembers changes, nothing else.
LEMMA GenerationWritten ==
    ASSUME ReportsInv, NEW s \in Generations, NEW g \in GenerationStates,
           generation' = [generation EXCEPT ![s] = g],
           ReadSoFar(g), g.version =< Len(reports) + 1,
           g.pc \in {"insert", "undo"} => HasObject(s) /\ g.key = generation[s].key,
           UNCHANGED roundVars, Kept
    PROVE  ReportsInv'
<1>1. generation \in [Generations -> GenerationStates]
  BY DEF ReportsInv, ReportsTypeOK
<1>2. /\ generation' \in [Generations -> GenerationStates] /\ generation'[s] = g
      /\ \A t \in Generations : t # s => generation'[t] = generation[t]
  BY <1>1
<1>3. UNCHANGED <<reports, reportStore, reportKey>>
  BY DEF Kept
<1>4. /\ RoundsInv' /\ (decisions \in Seq(VerdictRows))' /\ RoundsTypeOK'
      /\ \A c : OwnRound(c)' <=> OwnRound(c)
      /\ \A h : ReadSoFar(h)' <=> ReadSoFar(h)
  BY RoundsStay
<1>5. ReportsTypeOK' /\ reportKey' \in Nat
  BY <1>2, <1>3, <1>4 DEF ReportsInv, ReportsTypeOK
<1>6. Reads'
  <2> SUFFICES ASSUME NEW t \in Generations
               PROVE  ReadSoFar(generation[t])'
    BY DEF Reads
  <2>1. PICK h : h = generation'[t]
    OBVIOUS
  <2>2. ReadSoFar(h)
    BY <2>1, <1>2 DEF ReportsInv, Reads
  <2>3. ReadSoFar(h)'
    BY <2>2, <1>4
  <2> QED
    BY <2>1, <2>3
<1>7. \A t \in Generations :
          HasObject(t)' => HasObject(t) /\ generation'[t].key = generation[t].key
  BY <1>2 DEF HasObject
<1>8. ObjectsApart'
  BY <1>3, <1>7 DEF ReportsInv, ObjectsApart
<1>9. VersionsFew'
  BY <1>2, <1>3 DEF ReportsInv, VersionsFew
<1>10. Sound'
  BY <1>3, <1>4 DEF ReportsInv, Sound, Explained
<1> QED
  BY <1>4, <1>5, <1>6, <1>8, <1>9, <1>10 DEF ReportsInv

\* A session that has not begun.
LEMMA BlankTyped ==
    /\ NotBegun \in GenerationStates /\ NotBegun.pc = "idle" /\ NotBegun.version = 0
    /\ NotBegun.content.requests = {}
BY DEF NotBegun, NoContent, NoFindings, GenerationStates, Content, FindingSets, Types,
       CorrectionStatuses

\* A session ends and nothing is stored.
LEMMA LeaveKeeps ==
    ASSUME ReportsInv, NEW s \in Generations, Leave(s), UNCHANGED roundVars, Kept
    PROVE  ReportsInv'
<1>1. PICK g \in GenerationStates : g = NotBegun
  BY BlankTyped
<1>2. /\ generation' = [generation EXCEPT ![s] = g] /\ g.version = 0 /\ g.pc = "idle"
      /\ g.content.requests = {} /\ g = NotBegun
  BY <1>1, BlankTyped DEF Leave
<1>3. ReadSoFar(g)
  BY <1>2 DEF ReadSoFar, OwnRound
<1>4. g.version =< Len(reports) + 1
  BY <1>2, GenerationTyped
<1> QED
  BY <1>2, <1>3, <1>4, GenerationWritten

\* What a session knows at its beginning.
LEMMA ContentBegun ==
    ASSUME NEW run \in Nat
    PROVE  \E c \in Content :
               c = [NoContent EXCEPT !.run = run] /\ c.run = run /\ c.requests = {}
<1>1. PICK c : c = [NoContent EXCEPT !.run = run]
  OBVIOUS
<1>2. PICK f \in FindingSets : f = NoFindings
  BY DEF NoFindings, FindingSets
<1>3. c = [run |-> run, findings |-> f, triaged |-> {}, verdicts |-> {}, requests |-> {}]
  BY <1>1, <1>2 DEF NoContent
<1> QED
  BY <1>1, <1>3 DEF Content

\* The beginnings: the session was idle, hence has read nothing.
LEMMA BeginKeeps ==
    ASSUME ReportsInv, NEW s \in Generations, UNCHANGED roundVars, Kept,
           \/ \E run \in DOMAIN runs : BeginReport(s, run)
           \/ \E i \in DOMAIN corrections : BeginNotice(s, i)
    PROVE  ReportsInv'
<1>1. generation[s].pc = "idle"
  BY DEF BeginReport, BeginNotice
<1>2. generation[s] = NotBegun
  BY <1>1, GenerationTyped DEF ReadSoFar
<1>3. DOMAIN runs \subseteq Nat /\ DOMAIN corrections \subseteq Nat
  BY NewestSubmission DEF ReportsInv
<1>4. PICK g \in GenerationStates :
          /\ generation' = [generation EXCEPT ![s] = g]
          /\ g.pc = "findings" /\ g.content.run \in DOMAIN runs
          /\ g.content.requests = {} /\ g.version = 0
  <2>1. ASSUME NEW run \in DOMAIN runs, BeginReport(s, run)
        PROVE  \E g \in GenerationStates :
                   /\ generation' = [generation EXCEPT ![s] = g]
                   /\ g.pc = "findings" /\ g.content.run \in DOMAIN runs
                   /\ g.content.requests = {} /\ g.version = 0
    <3>1. run \in Nat
      BY <1>3
    <3>2. PICK c \in Content :
              c = [NoContent EXCEPT !.run = run] /\ c.run = run /\ c.requests = {}
      BY <3>1, ContentBegun
    <3>3. PICK g : g = [NotBegun EXCEPT !.pc = "findings", !.content = c]
      OBVIOUS
    <3>4. /\ g \in GenerationStates /\ g.pc = "findings" /\ g.content = c /\ g.version = 0
      BY <3>2, <3>3 DEF NotBegun, GenerationStates, Types, CorrectionStatuses
    <3>5. g = [NotBegun EXCEPT !.pc = "findings", !.content.run = run]
      BY <3>2, <3>3 DEF NotBegun
    <3>6. generation' = [generation EXCEPT ![s] = g]
      BY <2>1, <1>2, <3>5 DEF BeginReport
    <3> QED
      BY <3>2, <3>4, <3>6
  <2>2. ASSUME NEW i \in DOMAIN corrections, BeginNotice(s, i)
        PROVE  \E g \in GenerationStates :
                   /\ generation' = [generation EXCEPT ![s] = g]
                   /\ g.pc = "findings" /\ g.content.run \in DOMAIN runs
                   /\ g.content.requests = {} /\ g.version = 0
    <3>1. i \in Nat /\ corrections[i].status \in CorrectionStatuses
      BY <1>3, RequestTyped DEF ReportsInv
    <3>2. PICK run \in DOMAIN runs, st \in CorrectionStatuses :
              run = corrections[i].run /\ run \in Nat /\ st = corrections[i].status
      BY <1>3, <3>1 DEF ReportsInv, RoundsInv, Requested
    <3>3. PICK c \in Content :
              c = [NoContent EXCEPT !.run = run] /\ c.run = run /\ c.requests = {}
      BY <3>2, ContentBegun
    <3>4. PICK g : g = [pc |-> "findings", type |-> "correction-request", request |-> i,
                        status |-> st, content |-> c, version |-> 0, key |-> 0]
      OBVIOUS
    <3>5. /\ g \in GenerationStates /\ g.pc = "findings" /\ g.content = c /\ g.version = 0
      BY <3>1, <3>2, <3>3, <3>4 DEF GenerationStates, Types
    <3>6. generation' = [generation EXCEPT ![s] = g]
      BY <2>2, <3>2, <3>3, <3>4 DEF BeginNotice
    <3> QED
      BY <3>3, <3>5, <3>6
  <2> QED
    BY <2>1, <2>2
<1>5. ReadSoFar(g)
  BY <1>4 DEF ReadSoFar, OwnRound
<1>6. g.version =< Len(reports) + 1
  BY <1>4, GenerationTyped
<1> QED
  BY <1>4, <1>5, <1>6, GenerationWritten

\* A session goes on with what it has read.
LEMMA GoOnKeeps ==
    ASSUME ReportsInv, NEW s \in Generations, NEW c \in Content,
           NEW pc \in {"decisions", "requests", "version"}, GoOn(s, pc, c),
           c.run \in DOMAIN runs, OwnRound(c),
           pc = "decisions" => Explained(c, triaged),
           pc # "decisions" => Explained(c, c.triaged),
           UNCHANGED roundVars, Kept
    PROVE  ReportsInv'
<1>1. PICK o \in GenerationStates : o = generation[s]
  BY GenerationTyped
<1>2. PICK g : g = [o EXCEPT !.pc = pc, !.content = c]
  OBVIOUS
<1>3. g \in GenerationStates /\ g.pc = pc /\ g.content = c /\ g.version = o.version
  BY <1>2 DEF GenerationStates
<1>4. generation' = [generation EXCEPT ![s] = g]
  BY <1>1, <1>2 DEF GoOn
<1>5. ReadSoFar(g)
  BY <1>3 DEF ReadSoFar
<1>6. g.version =< Len(reports) + 1
  BY <1>1, <1>3, GenerationTyped
<1> QED
  BY <1>3, <1>4, <1>5, <1>6, GenerationWritten

\* The statements of build_report.
LEMMA ReadFindingsKeeps ==
    ASSUME ReportsInv, NEW s \in Generations, ReadFindings(s), UNCHANGED roundVars
    PROVE  ReportsInv'
<1>1. /\ generation[s] \in GenerationStates /\ ReadSoFar(generation[s])
      /\ generation[s].content \in Content /\ generation[s].pc = "findings" /\ Kept
      /\ generation[s].version =< Len(reports) + 1
  BY GenerationTyped DEF ReadFindings
<1>2. PICK run \in DOMAIN runs : run = generation[s].content.run
  BY <1>1 DEF ReadSoFar
<1>3. PICK f \in FindingSets : f = findings[run]
  <2>1. run \in 1 .. Len(findings) /\ findings \in Seq(FindingSets)
    BY NewestSubmission DEF ReportsInv, RoundsInv, RoundsTypeOK, Numbered
  <2> QED
    BY <2>1, ElementOfSeq
<1>4. PICK c \in Content :
          /\ c = [generation[s].content EXCEPT !.findings = f] /\ c.run = run
          /\ c.findings = f /\ c.requests = generation[s].content.requests
  <2>1. PICK o \in Content : o = generation[s].content
    BY <1>1
  <2>2. PICK c : c = [o EXCEPT !.findings = f]
    OBVIOUS
  <2>3. c \in Content /\ c.run = o.run /\ c.findings = f /\ c.requests = o.requests
    BY <2>2 DEF Content
  <2> QED
    BY <2>1, <2>2, <2>3, <1>2
<1>6. GoOn(s, "decisions", c)
  BY <1>2, <1>3, <1>4 DEF ReadFindings
<1>7. OwnRound(c)
  BY <1>1, <1>2, <1>4 DEF ReadSoFar, OwnRound
<1>8. Explained(c, triaged)
  <2>1. run \in DOMAIN findings
    BY NewestSubmission DEF ReportsInv
  <2> QED
    BY <2>1, <1>3, <1>4 DEF Explained, ReportsInv, RoundsInv, Logged
<1> QED
  BY <1>1, <1>4, <1>6, <1>7, <1>8, GoOnKeeps

\* The log was read after the findings, and decisions are never taken out of it.
LEMMA ReadDecisionsKeeps ==
    ASSUME ReportsInv, NEW s \in Generations, ReadDecisions(s), UNCHANGED roundVars
    PROVE  ReportsInv'
<1>1. /\ generation[s] \in GenerationStates /\ ReadSoFar(generation[s])
      /\ generation[s].content \in Content /\ generation[s].pc = "decisions" /\ Kept
      /\ generation[s].version =< Len(reports) + 1
  BY GenerationTyped DEF ReadDecisions
<1>2. PICK run \in DOMAIN runs : run = generation[s].content.run
  BY <1>1 DEF ReadSoFar
<1>3. PICK log \in SUBSET TriageRows : log = DecisionsOf(run)
  BY DEF DecisionsOf, ReportsInv, RoundsInv, RoundsTypeOK
<1>4. PICK vs \in SUBSET {"RETURNED_FOR_REVISION", "APPROVED"} : vs = VerdictsOf(run)
  <2>1. \A k \in DOMAIN decisions : decisions[k].decision \in {"RETURNED_FOR_REVISION", "APPROVED"}
    <3>1. decisions \in Seq(VerdictRows)
      BY DEF ReportsInv
    <3>2. \A k \in DOMAIN decisions : decisions[k] \in VerdictRows
      BY <3>1, LenProperties, ElementOfSeq
    <3> QED
      BY <3>2 DEF VerdictRows
  <2> QED
    BY <2>1 DEF VerdictsOf
<1>5. PICK c \in Content :
          /\ c = [generation[s].content EXCEPT !.triaged = log, !.verdicts = vs]
          /\ c.run = run /\ c.findings = generation[s].content.findings
          /\ c.triaged = log /\ c.requests = generation[s].content.requests
  <2>1. PICK o \in Content : o = generation[s].content
    BY <1>1
  <2>2. PICK c : c = [o EXCEPT !.triaged = log, !.verdicts = vs]
    OBVIOUS
  <2>3. /\ c \in Content /\ c.run = o.run /\ c.findings = o.findings
        /\ c.triaged = log /\ c.requests = o.requests
    BY <2>2 DEF Content
  <2> QED
    BY <2>1, <2>2, <2>3, <1>2
<1>7. GoOn(s, "requests", c)
  BY <1>2, <1>3, <1>4, <1>5 DEF ReadDecisions
<1>8. OwnRound(c)
  BY <1>1, <1>2, <1>5 DEF ReadSoFar, OwnRound
<1>9. Explained(c, c.triaged)
  <2>1. Explained(generation[s].content, triaged)
    BY <1>1 DEF ReadSoFar
  <2> QED
    BY <2>1, <1>2, <1>3, <1>5 DEF Explained, DecisionsOf
<1> QED
  BY <1>1, <1>5, <1>7, <1>8, <1>9, GoOnKeeps

\* A request that belongs to a run was made of it, or of the run before it.
LEMMA BelongsToRound ==
    ASSUME RoundsInv, NEW run \in DOMAIN runs, NEW i \in DOMAIN corrections, BelongsTo(i, run)
    PROVE  corrections[i].run \in {run, run - 1}
<1>1. run \in Nat \ {0} /\ runs[run].submission = run /\ run \in DOMAIN submissions
  BY NewestSubmission DEF RoundsInv, Numbered
<1>2. submissions[runs[run].submission].document = run
  BY <1>1 DEF RoundsInv, Numbered
<1>3. /\ corrections[i].response \in {0, corrections[i].run + 1}
      /\ corrections[i].run \in Nat
  BY RequestTyped DEF RoundsInv, Requested
<1> QED
  BY <1>1, <1>2, <1>3 DEF BelongsTo

\* The requests that belong to the run, with their items.
LEMMA ReadRequestsKeeps ==
    ASSUME ReportsInv, NEW s \in Generations, ReadRequests(s), UNCHANGED roundVars
    PROVE  ReportsInv'
<1>1. /\ generation[s] \in GenerationStates /\ ReadSoFar(generation[s])
      /\ generation[s].content \in Content /\ generation[s].pc = "requests" /\ Kept
      /\ generation[s].version =< Len(reports) + 1
  BY GenerationTyped DEF ReadRequests
<1>2. PICK run \in DOMAIN runs : run = generation[s].content.run
  BY <1>1 DEF ReadSoFar
<1>3. PICK Q : Q = {Show(s, i) : i \in {j \in DOMAIN corrections : BelongsTo(j, run)}}
  OBVIOUS
<1>4. \A i \in DOMAIN corrections : Show(s, i) \in Shown /\ Show(s, i).request = i
  <2> SUFFICES ASSUME NEW i \in DOMAIN corrections
               PROVE  Show(s, i) \in Shown /\ Show(s, i).request = i
    OBVIOUS
  <2>1. i \in Nat /\ corrections[i].status \in CorrectionStatuses /\ corrections[i].items \in ItemSets
    BY NewestSubmission, RequestTyped DEF ReportsInv
  <2>2. generation[s].status \in CorrectionStatuses
    BY <1>1 DEF GenerationStates
  <2>3. PICK st \in CorrectionStatuses, items \in ItemSets :
            Show(s, i) = [request |-> i, status |-> st, items |-> items]
    BY <2>1, <2>2 DEF Show
  <2> QED
    BY <2>1, <2>3 DEF Shown
<1>5. Q \in SUBSET Shown
  BY <1>3, <1>4
<1>6. PICK c \in Content :
          /\ c = [generation[s].content EXCEPT !.requests = Q]
          /\ c.run = run /\ c.findings = generation[s].content.findings
          /\ c.triaged = generation[s].content.triaged /\ c.requests = Q
  <2>1. PICK o \in Content : o = generation[s].content
    BY <1>1
  <2>2. PICK c : c = [o EXCEPT !.requests = Q]
    OBVIOUS
  <2>3. /\ c \in Content /\ c.run = o.run /\ c.findings = o.findings
        /\ c.triaged = o.triaged /\ c.requests = Q
    BY <2>2, <1>5 DEF Content
  <2> QED
    BY <2>1, <2>2, <2>3, <1>2
<1>8. GoOn(s, "version", c)
  BY <1>2, <1>3, <1>6 DEF ReadRequests, RequestsOf
<1>9. OwnRound(c)
  <2> SUFFICES ASSUME NEW q \in Q
               PROVE  /\ q.request \in DOMAIN corrections
                      /\ corrections[q.request].run \in {run, run - 1}
    BY <1>6 DEF OwnRound
  <2>1. PICK i \in DOMAIN corrections : q = Show(s, i) /\ BelongsTo(i, run)
    BY <1>3
  <2>2. q.request = i
    BY <2>1, <1>4
  <2> QED
    BY <2>1, <2>2, BelongsToRound DEF ReportsInv
<1>10. Explained(c, c.triaged)
  BY <1>1, <1>2, <1>6 DEF ReadSoFar, Explained
<1> QED
  BY <1>1, <1>6, <1>8, <1>9, <1>10, GoOnKeeps

\* The version drawn is one that no report of the type has reached, and the
\* reports are at least as many as the versions.
LEMMA NextVersionFew ==
    ASSUME ReportsInv, NEW type \in Types
    PROVE  NextVersion(type) \in Nat /\ NextVersion(type) =< Len(reports) + 1
<1>1. reports \in Seq(Reports) /\ Len(reports) \in Nat
  BY LenProperties DEF ReportsInv, ReportsTypeOK
<1>2. PICK last \in Nat : last = Len(reports) + 1
  BY <1>1
<1>3. \A k \in OfType(type) : reports[k].version \in Nat /\ reports[k].version < last
  <2> SUFFICES ASSUME NEW k \in OfType(type)
               PROVE  reports[k].version \in Nat /\ reports[k].version < last
    OBVIOUS
  <2>1. k \in DOMAIN reports /\ reports[k] \in Reports
    BY <1>1, LenProperties, ElementOfSeq DEF OfType
  <2>2. reports[k].version =< Len(reports) /\ reports[k].version \in Nat
    BY <2>1 DEF ReportsInv, VersionsFew, Reports
  <2> QED
    BY <1>1, <1>2, <2>2
<1> DEFINE Free(v) == \A k \in OfType(type) : reports[k].version < v
<1>4. PICK U : U = {v \in 1 .. last : Free(v)}
  OBVIOUS
<1>5. last \in U /\ U \subseteq Nat
  BY <1>2, <1>3, <1>4
<1>6. PICK least \in U : \A v \in U : least =< v
  BY <1>5, LeastNatural
<1>7. least = 1 \/ \E k \in OfType(type) : reports[k].version = least - 1
  <2> SUFFICES ASSUME least # 1
               PROVE  \E k \in OfType(type) : reports[k].version = least - 1
    OBVIOUS
  <2>1. least - 1 \in 1 .. last /\ least - 1 \notin U
    BY <1>2, <1>4, <1>6
  <2>2. PICK k \in OfType(type) : ~(reports[k].version < least - 1)
    BY <2>1, <1>4
  <2>3. reports[k].version < least
    BY <1>4, <1>6
  <2> QED
    BY <2>2, <2>3, <1>3, <1>4
<1>8. \E v \in 1 .. last :
          /\ \A k \in OfType(type) : reports[k].version < v
          /\ v = 1 \/ \E k \in OfType(type) : reports[k].version = v - 1
  BY <1>4, <1>6, <1>7
<1>9. NextVersion(type) \in 1 .. last
  BY <1>2, <1>8 DEF NextVersion
<1> QED
  BY <1>1, <1>2, <1>9

\* The version is drawn.
LEMMA DrawVersionKeeps ==
    ASSUME ReportsInv, NEW s \in Generations, DrawVersion(s), UNCHANGED roundVars
    PROVE  ReportsInv'
<1>1. PICK o \in GenerationStates : o = generation[s]
  BY GenerationTyped
<1>2. ReadSoFar(o) /\ o.pc = "version" /\ o.type \in Types /\ Kept
  BY <1>1, GenerationTyped DEF DrawVersion
<1>3. PICK v \in Nat : v = NextVersion(o.type) /\ v =< Len(reports) + 1
  BY <1>2, NextVersionFew
<1>4. PICK g : g = [o EXCEPT !.pc = "put", !.version = v]
  OBVIOUS
<1>5. g \in GenerationStates /\ g.pc = "put" /\ g.version = v /\ g.content = o.content
  BY <1>4 DEF GenerationStates
<1>6. generation' = [generation EXCEPT ![s] = g]
  BY <1>1, <1>3, <1>4 DEF DrawVersion
<1>7. ReadSoFar(g)
  BY <1>2, <1>5 DEF ReadSoFar
<1> QED
  BY <1>2, <1>3, <1>5, <1>6, <1>7, GenerationWritten

\* The row is refused; the object is still there.
LEMMA InsertFailsKeeps ==
    ASSUME ReportsInv, NEW s \in Generations, InsertFails(s), UNCHANGED roundVars
    PROVE  ReportsInv'
<1>1. PICK o \in GenerationStates : o = generation[s]
  BY GenerationTyped
<1>2. ReadSoFar(o) /\ o.pc = "insert" /\ o.version =< Len(reports) + 1 /\ Kept
  BY <1>1, GenerationTyped DEF InsertFails
<1>3. PICK g : g = [o EXCEPT !.pc = "undo"]
  OBVIOUS
<1>4. /\ g \in GenerationStates /\ g.pc = "undo" /\ g.version = o.version
      /\ g.content = o.content /\ g.key = o.key
  BY <1>3 DEF GenerationStates
<1>5. generation' = [generation EXCEPT ![s] = g]
  BY <1>1, <1>3 DEF InsertFails, Goto
<1>6. ReadSoFar(g)
  BY <1>2, <1>4 DEF ReadSoFar
<1>7. HasObject(s) /\ g.key = generation[s].key
  BY <1>1, <1>2, <1>4 DEF HasObject
<1> QED
  BY <1>2, <1>4, <1>5, <1>6, <1>7, GenerationWritten

\* The object is put under a key nobody has.
LEMMA PutReportKeeps ==
    ASSUME ReportsInv, NEW s \in Generations, PutReport(s), UNCHANGED roundVars
    PROVE  ReportsInv'
<1>1. PICK o \in GenerationStates : o = generation[s]
  BY GenerationTyped
<1>2. /\ ReadSoFar(o) /\ o.pc = "put" /\ o.version =< Len(reports) + 1 /\ reportKey \in Nat
      /\ UNCHANGED reports /\ reportKey' = reportKey + 1
      /\ reportStore' = reportStore \cup {reportKey + 1}
  BY <1>1, GenerationTyped DEF PutReport, ReportsInv
<1>3. PICK fresh \in Nat : fresh = reportKey + 1
  BY <1>2
<1>4. PICK g : g = [o EXCEPT !.pc = "insert", !.key = fresh]
  OBVIOUS
<1>5. /\ g \in GenerationStates /\ g.pc = "insert" /\ g.key = fresh
      /\ g.version = o.version /\ g.content = o.content
  BY <1>4 DEF GenerationStates
<1>6. generation' = [generation EXCEPT ![s] = g]
  BY <1>1, <1>3, <1>4 DEF PutReport
<1>7. generation \in [Generations -> GenerationStates]
  BY DEF ReportsInv, ReportsTypeOK
<1>8. /\ generation' \in [Generations -> GenerationStates] /\ generation'[s] = g
      /\ \A t \in Generations : t # s => generation'[t] = generation[t]
  BY <1>5, <1>6, <1>7
<1>9. /\ RoundsInv' /\ (decisions \in Seq(VerdictRows))' /\ RoundsTypeOK'
      /\ \A c : OwnRound(c)' <=> OwnRound(c)
      /\ \A h : ReadSoFar(h)' <=> ReadSoFar(h)
  BY RoundsStay
<1>10. reportStore \subseteq 1 .. reportKey
  BY DEF ReportsInv, ReportsTypeOK
<1>11. fresh \notin reportStore
  BY <1>2, <1>3, <1>10
<1>12. ReportsTypeOK' /\ reportKey' \in Nat
  <2>1. reportStore' \subseteq 1 .. reportKey'
    BY <1>2, <1>10
  <2> QED
    BY <2>1, <1>2, <1>8, <1>9 DEF ReportsInv, ReportsTypeOK
<1>13. Reads'
  <2> SUFFICES ASSUME NEW t \in Generations
               PROVE  ReadSoFar(generation[t])'
    BY DEF Reads
  <2>1. PICK h : h = generation'[t]
    OBVIOUS
  <2>2. ReadSoFar(h)
    <3>1. ReadSoFar(g)
      BY <1>2, <1>5 DEF ReadSoFar
    <3> QED
      BY <2>1, <3>1, <1>8 DEF ReportsInv, Reads
  <2>3. ReadSoFar(h)'
    BY <2>2, <1>9
  <2> QED
    BY <2>1, <2>3
<1>14. ObjectsApart'
  <2>1. /\ \A k \in DOMAIN reports : reports[k].key \in reportStore
        /\ \A t \in Generations : HasObject(t) => generation[t].key \in reportStore
    BY DEF ReportsInv, ObjectsApart
  <2>2. /\ HasObject(s)' /\ generation'[s].key = fresh
        /\ \A t \in Generations : t # s =>
              (HasObject(t)' <=> HasObject(t)) /\ generation'[t].key = generation[t].key
    BY <1>5, <1>8 DEF HasObject
  <2>3. \A k \in DOMAIN reports : reports[k].key # fresh /\ reports[k].key \in reportStore'
    BY <2>1, <1>2, <1>11
  <2>4. \A t \in Generations : t # s /\ HasObject(t)' =>
            generation'[t].key # fresh /\ generation'[t].key \in reportStore'
    BY <2>1, <2>2, <1>2, <1>11
  <2>5. ASSUME NEW t \in Generations, HasObject(t)'
        PROVE  /\ generation'[t].key \in reportStore'
               /\ \A k \in DOMAIN reports : reports[k].key # generation'[t].key
               /\ \A u \in Generations :
                     HasObject(u)' /\ generation'[u].key = generation'[t].key => t = u
    <3>1. CASE t = s
      BY <3>1, <2>2, <2>3, <2>4, <1>2, <1>3
    <3>2. CASE t # s
      <4>1. HasObject(t) /\ generation'[t].key = generation[t].key
        BY <3>2, <2>2, <2>5
      <4>2. \A u \in Generations :
                HasObject(u)' /\ generation'[u].key = generation'[t].key => t = u
        BY <3>2, <4>1, <2>2, <2>4, <2>5 DEF ReportsInv, ObjectsApart
      <4> QED
        BY <3>2, <4>1, <4>2, <2>4, <2>5 DEF ReportsInv, ObjectsApart
    <3> QED
      BY <3>1, <3>2
  <2> QED
    BY <2>3, <2>5, <1>2 DEF ObjectsApart
<1>15. VersionsFew'
  BY <1>2, <1>5, <1>8 DEF ReportsInv, VersionsFew
<1>16. Sound'
  BY <1>2, <1>9 DEF ReportsInv, Sound, Explained
<1> QED
  BY <1>9, <1>12, <1>13, <1>14, <1>15, <1>16 DEF ReportsInv

\* The row is inserted with what was read, and the session ends.
LEMMA InsertKeeps ==
    ASSUME ReportsInv, NEW s \in Generations, Insert(s), UNCHANGED roundVars
    PROVE  ReportsInv'
<1>1. PICK o \in GenerationStates : o = generation[s]
  BY GenerationTyped
<1>2. /\ ReadSoFar(o) /\ o.pc = "insert" /\ o.version =< Len(reports) + 1
      /\ Len(reports) \in Nat /\ UNCHANGED <<reportStore, reportKey>>
  BY <1>1, GenerationTyped DEF Insert
<1>3. PICK row : row = [type |-> o.type, version |-> o.version, key |-> o.key,
                        content |-> o.content]
  OBVIOUS
<1>4. /\ row \in Reports /\ row.version = o.version /\ row.key = o.key
      /\ row.content = o.content
  BY <1>3 DEF GenerationStates, Reports
<1>5. reports' = Append(reports, row)
  BY <1>1, <1>3 DEF Insert
<1>6. reports \in Seq(Reports)
  BY DEF ReportsInv, ReportsTypeOK
<1>7. /\ reports' \in Seq(Reports) /\ Len(reports') = Len(reports) + 1
      /\ \A k \in 1 .. Len(reports) : reports'[k] = reports[k]
      /\ reports'[Len(reports) + 1] = row
  BY <1>4, <1>5, <1>6, AppendProperties
<1>8. /\ DOMAIN reports = 1 .. Len(reports)
      /\ DOMAIN reports' = 1 .. Len(reports) + 1
  BY <1>6, <1>7, LenProperties
<1>9. \A k \in DOMAIN reports' :
          \/ reports'[k] = row
          \/ k \in DOMAIN reports /\ reports'[k] = reports[k]
  <2> SUFFICES ASSUME NEW k \in 1 .. Len(reports) + 1
               PROVE  \/ reports'[k] = row
                      \/ k \in DOMAIN reports /\ reports'[k] = reports[k]
    BY <1>8
  <2>1. k \in 1 .. Len(reports) \/ k = Len(reports) + 1
    BY <1>2
  <2> QED
    BY <2>1, <1>7, <1>8
<1>10. generation \in [Generations -> GenerationStates]
  BY DEF ReportsInv, ReportsTypeOK
<1>11. /\ generation' \in [Generations -> GenerationStates]
       /\ generation'[s] = NotBegun
       /\ \A t \in Generations : t # s => generation'[t] = generation[t]
  BY <1>10, BlankTyped DEF Insert, Leave
<1>12. /\ RoundsInv' /\ (decisions \in Seq(VerdictRows))' /\ RoundsTypeOK'
       /\ \A c : OwnRound(c)' <=> OwnRound(c)
       /\ \A h : ReadSoFar(h)' <=> ReadSoFar(h)
  BY RoundsStay
<1>13. ReportsTypeOK' /\ reportKey' \in Nat
  BY <1>2, <1>7, <1>11, <1>12 DEF ReportsInv, ReportsTypeOK
<1>14. Reads'
  <2> SUFFICES ASSUME NEW t \in Generations
               PROVE  ReadSoFar(generation[t])'
    BY DEF Reads
  <2>1. PICK h : h = generation'[t]
    OBVIOUS
  <2>2. ReadSoFar(h)
    <3>1. ReadSoFar(NotBegun)
      BY BlankTyped DEF ReadSoFar, OwnRound
    <3> QED
      BY <2>1, <3>1, <1>11 DEF ReportsInv, Reads
  <2>3. ReadSoFar(h)'
    BY <2>2, <1>12
  <2> QED
    BY <2>1, <2>3
<1>15. ObjectsApart'
  <2>1. HasObject(s) /\ generation[s].key = row.key
    BY <1>1, <1>2, <1>4 DEF HasObject
  <2>2. \A t \in Generations : HasObject(t)' =>
            t # s /\ HasObject(t) /\ generation'[t].key = generation[t].key
    BY <1>11, BlankTyped DEF HasObject
  <2>3. /\ row.key \in reportStore
        /\ \A t \in Generations : HasObject(t) /\ t # s => generation[t].key # row.key
    BY <2>1 DEF ReportsInv, ObjectsApart
  <2>4. \A k \in DOMAIN reports' : reports'[k].key \in reportStore'
    BY <2>3, <1>2, <1>9 DEF ReportsInv, ObjectsApart
  <2>5. \A t \in Generations : HasObject(t)' =>
            \A k \in DOMAIN reports' : reports'[k].key # generation'[t].key
    BY <2>2, <2>3, <1>9 DEF ReportsInv, ObjectsApart
  <2>6. \A t \in Generations : HasObject(t)' =>
            /\ generation'[t].key \in reportStore'
            /\ \A u \in Generations :
                  HasObject(u)' /\ generation'[u].key = generation'[t].key => t = u
    BY <2>2, <1>2 DEF ReportsInv, ObjectsApart
  <2> QED
    BY <2>4, <2>5, <2>6 DEF ObjectsApart
<1>16. VersionsFew'
  <2>1. \A k \in DOMAIN reports' : reports'[k].version =< Len(reports')
    <3> SUFFICES ASSUME NEW k \in DOMAIN reports'
                 PROVE  reports'[k].version =< Len(reports) + 1
      BY <1>7
    <3>1. CASE reports'[k] = row
      BY <3>1, <1>2, <1>4
    <3>2. CASE k \in DOMAIN reports /\ reports'[k] = reports[k]
      <4>1. reports[k].version =< Len(reports) /\ reports[k] \in Reports
        BY <3>2, <1>6, <1>8, ElementOfSeq DEF ReportsInv, VersionsFew
      <4>2. reports[k].version \in Nat
        BY <4>1 DEF Reports
      <4> QED
        BY <3>2, <4>1, <4>2, <1>2
    <3> QED
      BY <3>1, <3>2, <1>9
  <2>2. \A t \in Generations : generation'[t].version =< Len(reports') + 1
    <3> SUFFICES ASSUME NEW t \in Generations
                 PROVE  generation'[t].version =< Len(reports) + 2
      BY <1>2, <1>7
    <3>1. generation[t].version \in Nat /\ generation[t].version =< Len(reports) + 1
      BY GenerationTyped
    <3> QED
      BY <3>1, <1>2, <1>11, BlankTyped
  <2> QED
    BY <2>1, <2>2 DEF VersionsFew
<1>17. Sound'
  <2>1. Explained(o.content, o.content.triaged) /\ OwnRound(o.content)
    BY <1>2 DEF ReadSoFar
  <2>2. \A k \in DOMAIN reports' :
            /\ Explained(reports'[k].content, reports'[k].content.triaged)
            /\ OwnRound(reports'[k].content)
    BY <2>1, <1>4, <1>9 DEF ReportsInv, Sound
  <2>3. \A c : OwnRound(c) => OwnRound(c)'
    BY <1>12
  <2>4. ASSUME NEW k \in DOMAIN reports'
        PROVE  OwnRound(reports[k].content)' /\ Explained(reports[k].content, reports[k].content.triaged)'
    <3>1. PICK c : c = reports'[k].content
      OBVIOUS
    <3>2. OwnRound(c)' /\ Explained(c, c.triaged)
      BY <2>2, <2>3, <3>1
    <3> QED
      BY <3>1, <3>2 DEF OwnRound, Explained
  <2> QED
    BY <2>4 DEF Sound
<1> QED
  BY <1>12, <1>13, <1>14, <1>15, <1>16, <1>17 DEF ReportsInv

\* Only the session's own object is removed, and no report has it.
LEMMA UndoPutKeeps ==
    ASSUME ReportsInv, NEW s \in Generations, UndoPut(s), UNCHANGED roundVars
    PROVE  ReportsInv'
<1>1. PICK key \in Nat : key = generation[s].key
  BY GenerationTyped
<1>2. /\ generation[s].pc = "undo" /\ reportStore' = reportStore \ {key}
      /\ UNCHANGED <<reports, reportKey>>
  BY <1>1 DEF UndoPut
<1>3. generation \in [Generations -> GenerationStates]
  BY DEF ReportsInv, ReportsTypeOK
<1>4. /\ generation' \in [Generations -> GenerationStates]
      /\ generation'[s] = NotBegun
      /\ \A t \in Generations : t # s => generation'[t] = generation[t]
  BY <1>3, BlankTyped DEF UndoPut, Leave
<1>5. /\ RoundsInv' /\ (decisions \in Seq(VerdictRows))' /\ RoundsTypeOK'
      /\ \A c : OwnRound(c)' <=> OwnRound(c)
      /\ \A h : ReadSoFar(h)' <=> ReadSoFar(h)
  BY RoundsStay
<1>6. ReportsTypeOK' /\ reportKey' \in Nat
  <2>1. reportStore' \subseteq 1 .. reportKey'
    BY <1>2 DEF ReportsInv, ReportsTypeOK
  <2> QED
    BY <2>1, <1>2, <1>4, <1>5 DEF ReportsInv, ReportsTypeOK
<1>7. Reads'
  <2> SUFFICES ASSUME NEW t \in Generations
               PROVE  ReadSoFar(generation[t])'
    BY DEF Reads
  <2>1. PICK h : h = generation'[t]
    OBVIOUS
  <2>2. ReadSoFar(h)
    <3>1. ReadSoFar(NotBegun)
      BY BlankTyped DEF ReadSoFar, OwnRound
    <3> QED
      BY <2>1, <3>1, <1>4 DEF ReportsInv, Reads
  <2>3. ReadSoFar(h)'
    BY <2>2, <1>5
  <2> QED
    BY <2>1, <2>3
<1>8. ObjectsApart'
  <2>1. HasObject(s)
    BY <1>2 DEF HasObject
  <2>2. \A t \in Generations : HasObject(t)' =>
            t # s /\ HasObject(t) /\ generation'[t].key = generation[t].key
    BY <1>4, BlankTyped DEF HasObject
  <2>3. /\ \A k \in DOMAIN reports : reports[k].key # key
        /\ \A t \in Generations : HasObject(t) /\ t # s => generation[t].key # key
    BY <2>1, <1>1 DEF ReportsInv, ObjectsApart
  <2> QED
    BY <2>2, <2>3, <1>2 DEF ReportsInv, ObjectsApart
<1>9. VersionsFew'
  BY <1>2, <1>4, BlankTyped, GenerationTyped DEF ReportsInv, VersionsFew
<1>10. Sound'
  BY <1>2, <1>5 DEF ReportsInv, Sound, Explained
<1> QED
  BY <1>5, <1>6, <1>7, <1>8, <1>9, <1>10 DEF ReportsInv

\* A process that dies leaves what it stored, and its session.
LEMMA DiesKeeps ==
    ASSUME ReportsInv, NEW s \in Generations, GenerationDies(s), UNCHANGED roundVars
    PROVE  ReportsInv'
BY LeaveKeeps DEF GenerationDies

\* No report, no session.
LEMMA ReportsBegin ==
    ASSUME RoundAssumption, ReportAssumption, ReportsInit
    PROVE  ReportsInv
<1>1. /\ reports = <<>> /\ reportStore = {} /\ reportKey = 0
      /\ generation = [s \in Generations |-> NotBegun]
  BY DEF ReportsInit
<1>2. RoundsInv /\ RoundsTypeOK
  BY RoundsBegin DEF ReportsInit, RoundsInv
<1>3. decisions = <<>>
  BY DEF ReportsInit, RoundsInit
<1>4. decisions \in Seq(VerdictRows) /\ reports \in Seq(Reports)
  BY <1>1, <1>3
<1>5. /\ Len(reports) = 0 /\ DOMAIN reports = {}
      /\ \A s \in Generations : generation[s] = NotBegun
  BY <1>1
<1>6. ReportsTypeOK
  <2>1. generation \in [Generations -> GenerationStates]
    BY <1>1, BlankTyped
  <2> QED
    BY <2>1, <1>1, <1>2, <1>4 DEF ReportsTypeOK
<1>7. Reads
  <2>1. ReadSoFar(NotBegun)
    BY BlankTyped DEF ReadSoFar, OwnRound
  <2> QED
    BY <2>1, <1>5 DEF Reads
<1>8. ObjectsApart
  BY <1>5, BlankTyped DEF ObjectsApart, HasObject
<1>9. VersionsFew
  BY <1>5, BlankTyped DEF VersionsFew
<1>10. Sound
  BY <1>5 DEF Sound
<1> QED
  BY <1>1, <1>2, <1>4, <1>6, <1>7, <1>8, <1>9, <1>10 DEF ReportsInv

\* Every step, of the rounds and of a generation.
LEMMA ReportsStepKeeps ==
    ASSUME RoundAssumption, ReportsInv, [ReportsNext]_reportsVars
    PROVE  ReportsInv'
<1>1. CASE UNCHANGED reportsVars
  <2>1. UNCHANGED roundVars /\ Kept /\ UNCHANGED generation
    BY <1>1 DEF reportsVars, Kept
  <2>2. /\ RoundsInv' /\ (decisions \in Seq(VerdictRows))' /\ RoundsTypeOK'
        /\ \A c : OwnRound(c)' <=> OwnRound(c)
        /\ \A h : ReadSoFar(h)' <=> ReadSoFar(h)
    BY <2>1, RoundsStay
  <2>3. ReportsTypeOK' /\ reportKey' \in Nat
    BY <2>1, <2>2 DEF ReportsInv, ReportsTypeOK, Kept
  <2>4. Reads'
    <3> SUFFICES ASSUME NEW t \in Generations
                 PROVE  ReadSoFar(generation[t])'
      BY DEF Reads
    <3>1. PICK h : h = generation[t]
      OBVIOUS
    <3>2. ReadSoFar(h)'
      BY <3>1, <2>2 DEF ReportsInv, Reads
    <3> QED
      BY <3>1, <3>2, <2>1
  <2>5. ObjectsApart' /\ VersionsFew'
    BY <2>1 DEF ReportsInv, ObjectsApart, VersionsFew, HasObject, Kept
  <2>6. Sound'
    BY <2>1, <2>2 DEF ReportsInv, Sound, Explained, Kept
  <2> QED
    BY <2>2, <2>3, <2>4, <2>5, <2>6 DEF ReportsInv
<1>2. CASE RoundStep /\ UNCHANGED <<reports, reportStore, reportKey, generation>>
  BY <1>2, RoundUnderReports
<1>3. CASE Generation /\ UNCHANGED roundVars
  <2>1. PICK s \in Generations :
            \/ \E run \in DOMAIN runs : BeginReport(s, run)
            \/ \E i \in DOMAIN corrections : BeginNotice(s, i)
            \/ ReadFindings(s) \/ ReadDecisions(s) \/ ReadRequests(s) \/ DrawVersion(s)
            \/ PutReport(s) \/ Insert(s) \/ InsertFails(s) \/ UndoPut(s)
            \/ GenerationDies(s)
    BY <1>3 DEF Generation
  <2>2. CASE \/ \E run \in DOMAIN runs : BeginReport(s, run)
             \/ \E i \in DOMAIN corrections : BeginNotice(s, i)
    <3>1. Kept
      BY <2>2 DEF BeginReport, BeginNotice
    <3> QED
      BY <3>1, <2>2, <1>3, BeginKeeps
  <2>3. CASE ReadFindings(s) \/ ReadDecisions(s) \/ ReadRequests(s) \/ DrawVersion(s)
    BY <2>3, <1>3, ReadFindingsKeeps, ReadDecisionsKeeps, ReadRequestsKeeps, DrawVersionKeeps
  <2>4. CASE PutReport(s) \/ Insert(s) \/ InsertFails(s) \/ UndoPut(s) \/ GenerationDies(s)
    BY <2>4, <1>3, PutReportKeeps, InsertKeeps, InsertFailsKeeps, UndoPutKeeps, DiesKeeps
  <2> QED
    BY <2>1, <2>2, <2>3, <2>4
<1> QED
  BY <1>1, <1>2, <1>3 DEF ReportsNext

\* A report shows the findings of one run with the decisions taken on them, the
\* requests of its own round alone, and has its object, however triage, rechecks,
\* failures and other generations come between the statements of build_report.
THEOREM ReportsAreAlwaysConsistent ==
    ASSUME RoundAssumption, ReportAssumption
    PROVE  ReportsSpec => []ReportsAreConsistent
<1>1. ReportsInit => ReportsInv
  BY ReportsBegin
<1>2. ReportsInv /\ [ReportsNext]_reportsVars => ReportsInv'
  BY ReportsStepKeeps
<1>3. ReportsInv => ReportsAreConsistent
  BY DEF ReportsInv, Sound, ObjectsApart, Explained, OwnRound, ReportsAreConsistent,
         DecidedFindingsExplained, OwnRoundOnly, ReportsHaveObjects
<1> QED
  BY <1>1, <1>2, <1>3, PTL DEF ReportsSpec

\* The tables of the review and of its reports, and the sessions, are typed.
THEOREM ReportTypesHold ==
    ASSUME RoundAssumption, ReportAssumption
    PROVE  ReportsSpec => []ReportsTypeOK
<1>1. ReportsInit => ReportsInv
  BY ReportsBegin
<1>2. ReportsInv /\ [ReportsNext]_reportsVars => ReportsInv'
  BY ReportsStepKeeps
<1>3. ReportsInv => ReportsTypeOK
  BY DEF ReportsInv
<1> QED
  BY <1>1, <1>2, <1>3, PTL DEF ReportsSpec

---------------------------------------------------------------------------
(* The desk: what the rounds make of the row of the review under it *)

\* Every step of a review changes its row in one of these ways; a submission
\* changes it only while the review is with the owner.
LEMMA RowAfterRound ==
    ASSUME RoundStep
    PROVE  \/ review' = review
           \/ /\ review.status = "RETURNED_FOR_REVISION"
              /\ review' = [review EXCEPT !.latestSubmission = Len(documents)]
              /\ RoundsTypeOK => Len(submissions') = Len(documents)
           \/ /\ review.status \in StartableStatuses \cup RecheckStatuses
              /\ review' \in {Checked(Latest.ready), Checked(FALSE)}
           \/ /\ review.status \in StartableStatuses \cup RecheckStatuses
              /\ review' = Analysed(Checked(TRUE))
           \/ review.status = "READY_FOR_REVIEW" /\ review' = Analysed(review)
           \/ \E status \in {"RETURNED_FOR_REVISION", "REVIEW_COMPLETED"} :
                 /\ review.status = "REVIEW_REQUIRED"
                 /\ review' = [review EXCEPT !.status = status]
<1>1. ASSUME NEW r, NEW decision, Triage(r, decision)
      PROVE  review' = review
  BY <1>1 DEF Triage, TriageFinding
<1>2. ASSUME NewDocument
      PROVE  review' = review
  BY <1>2 DEF NewDocument, reviewVars
<1>3. ASSUME NEW ready, NEW outcome, Resubmit(ready, outcome)
      PROVE  /\ review.status = "RETURNED_FOR_REVISION"
             /\ review' = [review EXCEPT !.latestSubmission = Len(documents)]
             /\ RoundsTypeOK => Len(submissions') = Len(documents)
  <2>1. /\ review.status = "RETURNED_FOR_REVISION"
        /\ review' = [review EXCEPT !.latestSubmission = Len(documents)]
        /\ Len(documents) = Len(submissions) + 1
    BY <1>3 DEF Resubmit, Registers, RecheckStatuses
  <2>2. RoundsTypeOK => Len(submissions') = Len(submissions) + 1
    <3>1. PICK row : submissions' = Append(submissions, row)
      BY <1>3 DEF Resubmit
    <3> QED
      BY <3>1 DEF RoundsTypeOK
  <2> QED
    BY <2>1, <2>2
<1>4. ASSUME NEW ready, Preflight(ready)
      PROVE  review.status \in StartableStatuses /\ review' = Checked(ready)
  BY <1>4 DEF Preflight
<1>5. ASSUME NEW ready, NEW outcome, StartReview(ready, outcome)
      PROVE  review.status \in StartableStatuses /\ review' = Analysed(Checked(TRUE))
  BY <1>5 DEF StartReview
<1>6. ASSUME NEW ready, NEW outcome, CreateRun(ready, outcome)
      PROVE  review.status = "READY_FOR_REVIEW" /\ review' = Analysed(review)
  BY <1>6 DEF CreateRun, Moves, CanMove, AllowedTransitions
<1>7. ASSUME NEW base, CreateCorrectionDraft(base)
      PROVE  review' = review
  BY <1>7 DEF CreateCorrectionDraft
<1>8. ASSUME NEW i, SendCorrection(i)
      PROVE  /\ review.status = "REVIEW_REQUIRED"
             /\ review' = [review EXCEPT !.status = "RETURNED_FOR_REVISION"]
  BY <1>8 DEF SendCorrection, CorrectionRequestStatuses
<1>9. ASSUME NEW i, NEW outcome, RecheckComplete(i, outcome)
      PROVE  review.status \in RecheckStatuses /\ review' = Analysed(Checked(TRUE))
  BY <1>9 DEF RecheckComplete
<1>10. ASSUME NEW i, RecheckIncomplete(i)
       PROVE  review.status \in RecheckStatuses /\ review' = Checked(FALSE)
  BY <1>10 DEF RecheckIncomplete
<1>11. ASSUME CompleteReview
       PROVE  /\ review.status = "REVIEW_REQUIRED"
              /\ review' = [review EXCEPT !.status = "REVIEW_COMPLETED"]
  BY <1>11 DEF CompleteReview, CompletionStatuses
<1> QED
  BY <1>1, <1>2, <1>3, <1>4, <1>5, <1>6, <1>7, <1>8, <1>9, <1>10, <1>11 DEF RoundStep

\* What is typed, and the newest submission is the latest.
Newest == submissions # <<>> => review.latestSubmission = Len(submissions)

Rows == [status : ReviewStatuses, latestSubmission : Nat, latestRun : Nat,
         openMissing : BOOLEAN]

\* The row of the review under the steps of the rounds.
LEMMA RowKeeps ==
    ASSUME RoundsTypeOK, OpenItemsBlock, Newest, submissions # <<>>, RoundStep
    PROVE  /\ review' \in Rows /\ OpenItemsBlock'
           /\ \/ review'.latestSubmission = review.latestSubmission
              \/ review'.latestSubmission = Len(submissions')
<1>1. /\ review \in Rows /\ Len(documents) \in Nat /\ Len(runs) \in Nat
      /\ review.openMissing => review.status = "PENDING_MATERIALS"
  BY DEF RoundsTypeOK, OpenItemsBlock, Rows
<1>2. Latest.ready \in BOOLEAN
  <2>1. /\ submissions \in Seq([document : Nat, ready : BOOLEAN, outcome : RuleOutcomes])
        /\ Len(submissions) \in 1 .. Len(submissions)
    BY DEF RoundsTypeOK
  <2>2. submissions[Len(submissions)] \in
            [document : Nat, ready : BOOLEAN, outcome : RuleOutcomes]
    BY <2>1, ElementOfSeq
  <2> QED
    BY <2>2 DEF Latest, Newest
<1>3. CASE review' = review
  BY <1>1, <1>3 DEF OpenItemsBlock
<1>4. CASE /\ review.status = "RETURNED_FOR_REVISION"
           /\ review' = [review EXCEPT !.latestSubmission = Len(documents)]
           /\ Len(submissions') = Len(documents)
  <2>1. PICK n \in Nat : n = Len(documents)
    BY <1>1
  <2>2. PICK row : row = [review EXCEPT !.latestSubmission = n]
    OBVIOUS
  <2>3. row \in Rows /\ row.latestSubmission = n /\ ~row.openMissing
    BY <2>2, <1>1, <1>4 DEF Rows
  <2> QED
    BY <2>1, <2>2, <2>3, <1>4 DEF OpenItemsBlock
<1>5. ASSUME NEW ready \in BOOLEAN, review' = Checked(ready)
      PROVE  /\ review' \in Rows /\ OpenItemsBlock'
             /\ review'.latestSubmission = review.latestSubmission
  BY <1>5, RowsOfReview DEF Rows, OpenItemsBlock
<1>6. CASE review' = Analysed(Checked(TRUE))
  BY <1>1, <1>6, RowsOfReview, RowOfRun DEF Rows, OpenItemsBlock
<1>7. CASE review.status = "READY_FOR_REVIEW" /\ review' = Analysed(review)
  BY <1>1, <1>7, RowOfRun DEF Rows, OpenItemsBlock
<1>8. ASSUME NEW status \in {"RETURNED_FOR_REVISION", "REVIEW_COMPLETED"},
             review.status = "REVIEW_REQUIRED",
             review' = [review EXCEPT !.status = status]
      PROVE  /\ review' \in Rows /\ OpenItemsBlock'
             /\ review'.latestSubmission = review.latestSubmission
  BY <1>1, <1>8 DEF Rows, OpenItemsBlock, ReviewStatuses
<1> QED
  BY <1>2, <1>3, <1>4, <1>5, <1>6, <1>7, <1>8, RowAfterRound

\* The tables under the steps of the rounds.
LEMMA TypesKept ==
    ASSUME RoundAssumption, RoundsTypeOK, OpenItemsBlock, Newest, submissions # <<>>, RoundStep
    PROVE  RoundsTypeOK' /\ OpenItemsBlock' /\ Newest' /\ submissions' # <<>>
<1>1. /\ submissions \in Seq([document : Nat, ready : BOOLEAN, outcome : RuleOutcomes])
      /\ documents \in Seq([group : {1}, version : Nat, active : BOOLEAN])
      /\ runs \in Seq([submission : Nat, evaluated : SUBSET Rules])
      /\ findings \in Seq(FindingSets) /\ triaged \subseteq TriageRows
      /\ review \in Rows /\ caseStatus \in CaseStatuses
  BY DEF RoundsTypeOK, Rows
<1>2. /\ review' \in Rows /\ OpenItemsBlock'
      /\ \/ review'.latestSubmission = review.latestSubmission
         \/ review'.latestSubmission = Len(submissions')
  BY RowKeeps
<1>3. CASE \E r \in Rules, decision \in TriageDecisions : Triage(r, decision)
  <2>1. PICK r \in Rules, decision \in TriageDecisions : Triage(r, decision)
    BY <1>3
  <2>2. PICK run \in Nat : run = review.latestRun
    BY <1>1 DEF Rows
  <2>3. /\ findings' = [findings EXCEPT ![run][r] = decision]
        /\ triaged' = triaged \cup {[run |-> run, rule |-> r, decision |-> decision]}
        /\ UNCHANGED <<caseStatus, documents, submissions, review, runs>>
    BY <2>1, <2>2 DEF Triage, TriageFinding
  <2>4. findings' \in Seq(FindingSets)
    <3>1. CASE run \in 1 .. Len(findings)
      <4>1. findings[run] \in FindingSets
        BY <1>1, <3>1, ElementOfSeq
      <4>2. PICK f \in FindingSets : f = [findings[run] EXCEPT ![r] = decision]
        BY <4>1 DEF FindingSets
      <4>3. findings' = [findings EXCEPT ![run] = f]
        BY <2>3, <4>2
      <4> QED
        BY <4>3, <3>1, <1>1, ExceptSeq
    <3>2. CASE run \notin 1 .. Len(findings)
      <4>1. findings' = findings
        BY <2>3, <3>2, <1>1
      <4> QED
        BY <4>1, <1>1
    <3> QED
      BY <3>1, <3>2
  <2>5. triaged' \subseteq TriageRows
    BY <2>3, <1>1 DEF TriageRows
  <2> QED
    BY <1>1, <1>2, <2>3, <2>4, <2>5 DEF RoundsTypeOK, Newest, Rows
<1>4. CASE NewDocument /\ UNCHANGED triaged
  <2>1. documents' \in Seq([group : {1}, version : Nat, active : BOOLEAN])
    BY <1>4, DocumentAdded
  <2> QED
    BY <1>1, <1>2, <1>4, <2>1 DEF NewDocument, reviewVars, RoundsTypeOK, Newest, Rows
<1>5. ASSUME NEW ready \in Readiness, NEW outcome \in RuleOutcomes, Resubmit(ready, outcome),
             UNCHANGED triaged
      PROVE  RoundsTypeOK' /\ Newest' /\ submissions' # <<>>
  <2>1. PICK d \in Nat : d = Len(documents)
    BY <1>1
  <2>2. PICK row : row = [document |-> d, ready |-> ready, outcome |-> outcome]
    OBVIOUS
  <2>3. row \in [document : Nat, ready : BOOLEAN, outcome : RuleOutcomes]
    BY <2>2 DEF RoundAssumption
  <2>4. /\ submissions' = Append(submissions, row) /\ d = Len(submissions) + 1
        /\ review' = [review EXCEPT !.latestSubmission = d]
        /\ caseStatus' = "IN_REVIEW" /\ UNCHANGED <<documents, runs, findings>>
    BY <1>5, <2>1, <2>2 DEF Resubmit
  <2>5. /\ submissions' \in Seq([document : Nat, ready : BOOLEAN, outcome : RuleOutcomes])
        /\ Len(submissions') = d
    BY <2>3, <2>4, <1>1, AppendProperties
  <2>6. review'.latestSubmission = d
    BY <2>4, <1>1 DEF Rows
  <2>7. submissions' # <<>>
    <3>1. Len(submissions) \in Nat
      BY <1>1, LenProperties
    <3>2. Len(submissions') # 0
      BY <3>1, <2>4, <2>5
    <3> QED
      BY <3>2
  <2> QED
    BY <1>1, <1>2, <1>5, <2>4, <2>5, <2>6, <2>7 DEF RoundsTypeOK, Newest, Rows, CaseStatuses
<1>6. ASSUME UNCHANGED <<documents, submissions, triaged>>, runs' = runs, findings' = findings,
             caseStatus' \in CaseStatuses
      PROVE  RoundsTypeOK' /\ Newest' /\ submissions' # <<>>
  BY <1>1, <1>2, <1>6 DEF RoundsTypeOK, Newest, Rows
<1>7. ASSUME UNCHANGED <<documents, submissions, triaged, caseStatus>>,
             NEW outcome, RunCreated(outcome)
      PROVE  RoundsTypeOK' /\ Newest' /\ submissions' # <<>>
  <2>1. PICK n \in Nat, E \in SUBSET Rules :
            runs' = Append(runs, [submission |-> n, evaluated |-> E])
    <3>1. review.latestSubmission \in Nat /\ {r \in Rules : outcome[r] # "NOT_RUN"} \in SUBSET Rules
      BY <1>1 DEF Rows
    <3> QED
      BY <3>1, <1>7 DEF RunCreated
  <2>2. runs' \in Seq([submission : Nat, evaluated : SUBSET Rules])
    BY <2>1, <1>1, AppendProperties
  <2>3. FindingsOf(outcome) \in FindingSets
    BY DEF FindingsOf, FindingSets
  <2>4. findings' \in Seq(FindingSets)
    BY <2>3, <1>1, <1>7, AppendProperties DEF RunCreated
  <2> QED
    BY <1>1, <1>2, <1>7, <2>2, <2>4 DEF RoundsTypeOK, Newest, Rows
<1>8. ASSUME UNCHANGED <<documents, submissions, triaged>>,
             \/ Preflight(Latest.ready) \/ CreateCorrectionDraft(Base) \/ CompleteReview
             \/ \E i \in DOMAIN corrections : SendCorrection(i) \/ RecheckIncomplete(i)
      PROVE  RoundsTypeOK' /\ Newest' /\ submissions' # <<>>
  BY <1>1, <1>6, <1>8 DEF Preflight, CreateCorrectionDraft, CompleteReview, SendCorrection,
                          RecheckIncomplete, CaseStatuses
<1>9. ASSUME UNCHANGED <<documents, submissions, triaged>>,
             \/ StartReview(Latest.ready, Latest.outcome)
             \/ CreateRun(Latest.ready, Latest.outcome)
             \/ \E i \in DOMAIN corrections : RecheckComplete(i, Latest.outcome)
      PROVE  RoundsTypeOK' /\ Newest' /\ submissions' # <<>>
  BY <1>7, <1>9 DEF StartReview, CreateRun, RecheckComplete
<1> QED
  BY <1>2, <1>3, <1>4, <1>5, <1>8, <1>9 DEF RoundStep

\* A status patch and the preflight of an external case.
LEMMA RowAfterDesk ==
    ASSUME DeskNext
    PROVE  \/ /\ RoundStep
              /\ submissions # <<>>
           \/ /\ UNCHANGED <<caseStatus, documents, submissions, runs, findings, triaged>>
              /\ \/ review' = review
                 \/ review.status \in StartableStatuses /\ review' = Checked(FALSE)
                 \/ \E target \in ReviewStatuses :
                       /\ review.status \in MutableStatuses
                       /\ review' = [review EXCEPT !.status = target]
<1>1. CASE ~External /\ RoundStep
  BY <1>1 DEF External
<1>2. CASE UNCHANGED <<documents, submissions, triaged>> /\ Preflight(FALSE)
  BY <1>2 DEF Preflight
<1>3. ASSUME UNCHANGED <<documents, submissions, triaged>>,
             NEW target \in MutableStatuses, UpdateReview(target)
      PROVE  /\ UNCHANGED <<caseStatus, documents, submissions, runs, findings, triaged>>
             /\ target \in ReviewStatuses /\ review.status \in MutableStatuses
             /\ review' = [review EXCEPT !.status = target]
  BY <1>3 DEF UpdateReview, MutableStatuses, ReviewStatuses
<1>4. CASE UNCHANGED roundVars
  BY <1>4 DEF roundVars
<1>5. CASE Desk
  <2>1. UNCHANGED roundVars
    BY <1>5 DEF Desk, Begin, Assign, SetPriority, RequestSupplement, Intake
  <2> QED
    BY <2>1, <1>4
<1> QED
  BY <1>1, <1>2, <1>3, <1>5 DEF DeskNext, Progress

\* A review with open missing items waits for material, whatever a reviewer
\* writes later of a status that was read before.
THEOREM OpenItemsAlwaysBlock ==
    ASSUME RoundAssumption
    PROVE  DeskSpec => []OpenItemsBlock
<1> DEFINE Inv == RoundsTypeOK /\ OpenItemsBlock /\ Newest
<1>1. DeskInit => Inv
  <2>1. ASSUME RoundsInit
        PROVE  Inv
    <3>1. RoundsTypeOK /\ review.latestSubmission = Len(submissions)
      BY <2>1, RoundsBegin DEF RoundsInv, Numbered
    <3> QED
      BY <3>1, <2>1 DEF RoundsInit, OpenItemsBlock, Newest
  <2>2. ASSUME ExternalInit
        PROVE  Inv
    BY <2>2 DEF ExternalInit, NewReview, RoundsTypeOK, OpenItemsBlock, Newest, CaseStatuses,
                ReviewStatuses
  <2> QED
    BY <2>1, <2>2 DEF DeskInit
<1>2. Inv /\ [DeskNext]_deskVars => Inv'
  <2> SUFFICES ASSUME Inv, [DeskNext]_deskVars
               PROVE  Inv'
    OBVIOUS
  <2>1. CASE RoundStep /\ submissions # <<>>
    BY <2>1, TypesKept
  <2>2. ASSUME UNCHANGED <<caseStatus, documents, submissions, runs, findings, triaged>>,
               review' \in Rows, OpenItemsBlock',
               review'.latestSubmission = review.latestSubmission
        PROVE  Inv'
    BY <2>2 DEF RoundsTypeOK, Newest, Rows
  <2>3. review \in Rows
    BY DEF RoundsTypeOK, Rows
  <2>4. CASE UNCHANGED <<caseStatus, documents, submissions, runs, findings, triaged, review>>
    BY <2>2, <2>3, <2>4 DEF OpenItemsBlock
  <2>5. CASE /\ UNCHANGED <<caseStatus, documents, submissions, runs, findings, triaged>>
             /\ review' = Checked(FALSE)
    <3>1. /\ review' \in Rows /\ OpenItemsBlock'
          /\ review'.latestSubmission = review.latestSubmission
      BY <2>5, RowsOfReview DEF Rows, OpenItemsBlock
    <3> QED
      BY <3>1, <2>2, <2>5
  <2>6. ASSUME UNCHANGED <<caseStatus, documents, submissions, runs, findings, triaged>>,
               NEW target \in ReviewStatuses, review.status \in MutableStatuses,
               review' = [review EXCEPT !.status = target]
        PROVE  Inv'
    <3>1. /\ review' \in Rows /\ review'.openMissing = review.openMissing
          /\ review'.latestSubmission = review.latestSubmission
      BY <2>3, <2>6 DEF Rows
    <3>2. OpenItemsBlock'
      BY <3>1, <2>6 DEF OpenItemsBlock, MutableStatuses
    <3> QED
      BY <3>1, <3>2, <2>2, <2>6
  <2> QED
    BY <2>1, <2>4, <2>5, <2>6, RowAfterDesk DEF deskVars, roundVars
<1>3. Inv => OpenItemsBlock
  OBVIOUS
<1> QED
  BY <1>1, <1>2, <1>3, PTL DEF DeskSpec

\* No operation of the desk or of the rounds takes a completion back.
THEOREM CompletionAlwaysStays == DeskSpec => CompletionStays
<1>1. [DeskNext]_deskVars => [CompletedStays]_deskVars
  <2> SUFFICES ASSUME [DeskNext]_deskVars, review.status = "REVIEW_COMPLETED"
               PROVE  review' = review
    BY DEF CompletedStays
  <2>1. CASE UNCHANGED deskVars
    BY <2>1 DEF deskVars, roundVars
  <2>2. CASE RoundStep
    BY <2>2, RowAfterRound DEF StartableStatuses, RecheckStatuses
  <2> QED
    BY <2>1, <2>2, RowAfterDesk DEF StartableStatuses, MutableStatuses
<1> QED
  BY <1>1, PTL DEF DeskSpec, CompletionStays
================================================================================
