-------------------------------- MODULE MCTurns --------------------------------
(*****************************************************************************)
(* The requests that lock the rows of a case (RowLocks) and the messages of  *)
(* the assistant (Assistant), both extended here: whoever waits for a turn.  *)
(* The modules share no state, so a behaviour is of one instance, which of   *)
(* names; one run checks them all.                                           *)
(*****************************************************************************)
EXTENDS RowLocks, Assistant

VARIABLE of   \* the instance this behaviour is of

allVars == <<of, vars, chatVars>>

---------------------------------------------------------------------------

Price(n) == [comparison |-> n]

Plain == [session |-> "s1", edit |-> Unset, candidate |-> FALSE, confirmApply |-> FALSE,
          requested |-> {}, confirmAction |-> FALSE]

Operations == {"run_calculation", "run_validation", "generate_report_pdf"}

\* Everything at once; all but the edit; a calculation that is not confirmed; a
\* candidate in another session.
Examples ==
    [all  |-> [Plain EXCEPT !.edit = Price(10), !.confirmApply = TRUE,
                            !.requested = Operations, !.confirmAction = TRUE],
     make |-> [Plain EXCEPT !.requested = Operations, !.confirmAction = TRUE],
     calc |-> [Plain EXCEPT !.requested = {"run_calculation", "run_validation"}],
     cand |-> [Plain EXCEPT !.session = "s2", !.candidate = TRUE, !.confirmApply = TRUE]]

AskedIn(messages) == [m \in messages |-> Examples[m]]

\* What the messages of the configuration ask for.
EveryAsk == AskedIn({"make", "calc", "all", "cand"})

PriceEdits == {Price(10), Price(20)}

---------------------------------------------------------------------------
(* The instances *)

\* The requests on a case are idle while messages are sent, and the other way
\* round.
NoRequests == Init
NoMessages == ChatInit

\* Two messages, the tools chosen by a model in up to three rounds.
ByModel == INSTANCE Assistant WITH
    Documents <- {"d1"}, Slots <- {"t1"}, Chats <- {"s1", "s2"}, MaxCalls <- 1,
    Edits <- {Price(20)}, Messages <- {"make", "calc"},
    Ask <- AskedIn({"make", "calc"}), Model <- TRUE, MaxSent <- 2, MaxRounds <- 3

\* A message that applies a candidate, sent twice.
InRounds == INSTANCE Assistant WITH
    Documents <- {"d1"}, Slots <- {"t1", "t2"}, Chats <- {"s1", "s2"},
    MaxCalls <- 1, Edits <- {Price(20)}, Messages <- {"cand"},
    Ask <- AskedIn({"cand"}), Model <- TRUE, MaxSent <- 2, MaxRounds <- 2

\* Messages without a model are Assistant itself.

\* The constants are as the modules expect them.
ASSUME InstancesAssumption ==
    /\ ByModel!FormAssumption /\ ByModel!AssistantAssumption
    /\ InRounds!FormAssumption /\ InRounds!AssistantAssumption
    /\ FormAssumption /\ AssistantAssumption

---------------------------------------------------------------------------

AllInit ==
    \/ of = "locks" /\ Init /\ NoMessages
    \/ of = "model" /\ ByModel!ChatInit /\ NoRequests
    \/ of = "rounds" /\ InRounds!ChatInit /\ NoRequests
    \/ of = "fixed" /\ ChatInit /\ NoRequests

AllNext ==
    \/ of = "locks" /\ Next /\ UNCHANGED <<of, chatVars>>
    \/ of = "model" /\ ByModel!ChatNext /\ UNCHANGED <<of, vars>>
    \/ of = "rounds" /\ InRounds!ChatNext /\ UNCHANGED <<of, vars>>
    \/ of = "fixed" /\ ChatNext /\ UNCHANGED <<of, vars>>

\* What the modules assume: a handler goes on, PostgreSQL gives a free lock to its
\* first waiter and looks for circles, a model answers or is given up.
AllFairness ==
    /\ \A s \in Sessions :
          WF_allVars(of = "locks" /\ Proceed(s) /\ UNCHANGED <<of, chatVars>>)
    /\ WF_allVars(/\ of = "locks" /\ UNCHANGED <<of, chatVars>>
                  /\ \E s \in Sessions : Abort(s))
    /\ \A t \in {"t1", "t2"} :
          WF_allVars(/\ UNCHANGED <<of, vars>>
                     /\ \/ of = "rounds" /\ InRounds!Step(t)
                        \/ of = "fixed" /\ Step(t))

AllSpec == AllInit /\ [][AllNext]_allVars /\ AllFairness

---------------------------------------------------------------------------
(* Properties *)

\* The variables of the instance have their types.
AllTyped ==
    /\ TypeOK
    /\ of = "model" => ByModel!ChatTypeOK
    /\ of = "rounds" => InRounds!ChatTypeOK
    /\ of = "fixed" => ChatTypeOK

\* Every message ends, whoever else waits for the case or the session.
MessagesEnd ==
    \A t \in {"t1", "t2"} :
        (of \in {"rounds", "fixed"} /\ tx[t].phase # "IDLE") ~> (of \in {"rounds", "fixed"} /\ tx[t].phase = "IDLE")

================================================================================
