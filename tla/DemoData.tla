------------------------------- MODULE DemoData -------------------------------
(***************************************************************************)
(* The command-line tools that create and remove the demonstration data:   *)
(* app.demo, app.review.demo and app.history.demo.  Each writes rows in    *)
(* PostgreSQL and objects in MinIO, and several shells may run one at the  *)
(* same time, next to the running application.  They differ in how they    *)
(* keep out of each other's way: app.demo holds an advisory lock and the   *)
(* row of its case for the whole transaction, app.review.demo relies on    *)
(* unique keys, app.history.demo writes fixed ids and fixed object keys.   *)
(***************************************************************************)
EXTENDS Integers, FiniteSets

CONSTANTS
    Tool,        \* "app", "review" or "history"
    Invocations, \* of the tool, each runs once
    Overlap,     \* whether one may start before another has ended
    Objects,     \* how many objects one generation has
    Faults,      \* what may fail: "put", "write", "commit", "remove", "crash"
    MaxActivity  \* bound: documents the application adds to the demo case

VARIABLES
    rows,        \* the committed demo rows
    store,       \* the object keys in the bucket
    lastKey,     \* last object key drawn with a uuid4
    command      \* the invocations

dataVars == <<rows, store, lastKey, command>>

DataAssumption ==
    /\ Tool \in {"app", "review", "history"}
    /\ Overlap \in BOOLEAN
    /\ Objects \in Nat \ {0} /\ MaxActivity \in Nat
    /\ Faults \subseteq {"put", "write", "commit", "remove", "crash"}

---------------------------------------------------------------------------

\* gen numbers the generation, 0 when there is none; submitted says whether a
\* submission or a review exists for one of its cases.
NoRows == [gen |-> 0, keys |-> {}, submitted |-> FALSE]

RowSets == [gen : Nat, keys : SUBSET Nat, submitted : BOOLEAN]

\* seen: the generation the command read; mine: the keys it put or tried to;
\* old: the keys it has to remove.
CommandStates ==
    [op : {"none", "seed", "reset", "revise"}, seen : Nat,
     pc : {"ready", "lock", "check", "collect", "delete", "remove", "put",
           "write", "commit", "undo", "done", "failed"},
     mine : SUBSET Nat, old : SUBSET Nat]

DataTypeOK ==
    /\ rows \in RowSets
    /\ store \subseteq Nat
    /\ lastKey \in Nat
    /\ command \in [Invocations -> CommandStates]

\* app.demo may find a generation of an earlier release, which knew one case
\* and no submission (the legacy rule set codes); the others start from nothing.
DataInit ==
    /\ \E legacy \in {{}, 1..Objects} :
          /\ Tool # "app" => legacy = {}
          /\ rows = IF legacy = {} THEN NoRows
                    ELSE [gen |-> 1, keys |-> legacy, submitted |-> FALSE]
          /\ store = legacy
    /\ lastKey = Objects
    /\ command = [c \in Invocations |->
                    [op |-> "none", seen |-> 0, pc |-> "ready", mine |-> {}, old |-> {}]]

---------------------------------------------------------------------------

Ended(c) == command[c].pc \in {"ready", "done", "failed"}

Step(c, pc) == command' = [command EXCEPT ![c].pc = pc]

\* The advisory lock is held from the check to the end of the transaction.
InTransaction(c) == command[c].pc \in {"check", "put", "write", "commit"}

\* The demo case is locked FOR UPDATE by a running app.demo command.
CaseLocked == Tool = "app" /\ \E c \in Invocations : InTransaction(c)

\* The keys a command puts its next object under.
NextKeys(c) ==
    IF Tool = "history" THEN (1..Objects) \ command[c].mine ELSE {lastKey + 1}

IsLast(c) == Cardinality(command[c].mine) + 1 = (IF command[c].op = "revise" THEN 1 ELSE Objects)

Start(c, op) ==
    /\ command[c].pc = "ready"
    /\ op = "revise" => Tool = "review"
    /\ Overlap \/ \A d \in Invocations : Ended(d)
    /\ command' = [command EXCEPT ![c].op = op, ![c].pc =
          IF Tool = "app" THEN "lock"
          ELSE IF Tool = "history" /\ op = "seed" THEN "check" ELSE "collect"]
    /\ UNCHANGED <<rows, store, lastKey>>

---------------------------------------------------------------------------
(* app.demo: one locked transaction around the puts *)

TakeLock(c) ==
    /\ command[c].pc = "lock"
    /\ ~CaseLocked
    /\ Step(c, "check") /\ UNCHANGED <<rows, store, lastKey>>

\* Mutant: a generation that was submitted is replaced like any other.
ValidateOwnedAlways(c) ==
    /\ Tool = "app" /\ command[c].pc = "check"
    /\ \/ command' = [command EXCEPT ![c].old = rows.keys, ![c].seen = rows.gen,
             ![c].pc = IF command[c].op = "seed" THEN "put" ELSE "commit"]
       \/ Step(c, "failed")
    /\ UNCHANGED <<rows, store, lastKey>>

\* _validate_fixed_ownership refuses foreign rows and submitted generations;
\* then the owned keys are collected and the rows deleted in the transaction.
ValidateOwned(c) ==
    /\ Tool = "app" /\ command[c].pc = "check"
    /\ \/ /\ ~rows.submitted
          /\ command' = [command EXCEPT ![c].old = rows.keys, ![c].seen = rows.gen,
                ![c].pc = IF command[c].op = "seed" THEN "put" ELSE "commit"]
       \/ Step(c, "failed")
    /\ UNCHANGED <<rows, store, lastKey>>

---------------------------------------------------------------------------
(* app.review.demo and app.history.demo: reset first, in its own transaction *)

\* history seed: a complete generation is left alone, a partial one refused.
CountCases(c) ==
    /\ Tool = "history" /\ command[c].pc = "check"
    /\ Step(c, IF rows.gen # 0 THEN "done" ELSE "collect")
    /\ UNCHANGED <<rows, store, lastKey>>

\* _find_owned_ids and the object keys, read without a lock; history knows
\* its ids and keys beforehand.
Collect(c) ==
    /\ command[c].pc = "collect"
    /\ IF command[c].op = "revise" /\ rows.gen = 0
       THEN Step(c, "failed")
       ELSE command' = [command EXCEPT ![c].seen = rows.gen,
               ![c].old = IF command[c].op = "revise" THEN {}
                          ELSE IF Tool = "history" THEN 1..Objects ELSE rows.keys,
               ![c].pc = IF command[c].op = "revise" THEN "put" ELSE "delete"]
    /\ UNCHANGED <<rows, store, lastKey>>

\* The history tool deletes by its fixed keys, whatever stands under them; the
\* others the generation they read.
Doomed(c) == Tool = "history" \/ rows.gen = command[c].seen

\* Deletes what is doomed, with whatever it has by now.
DeleteRows(c) ==
    /\ command[c].pc = "delete"
    /\ rows' = IF Doomed(c) THEN NoRows ELSE rows
    /\ Step(c, "remove") /\ UNCHANGED <<store, lastKey>>

---------------------------------------------------------------------------
(* Objects *)

Remove(c, k) ==
    /\ command[c].pc = "remove" /\ k \in command[c].old
    /\ store' = store \ {k}
    /\ command' = [command EXCEPT ![c].old = @ \ {k}]
    /\ UNCHANGED <<rows, lastKey>>

\* After the old objects: app.demo has committed, the others go on to put.
Removed(c) ==
    /\ command[c].pc = "remove" /\ command[c].old = {}
    /\ Step(c, IF command[c].op = "seed" /\ Tool # "app" THEN "put" ELSE "done")
    /\ UNCHANGED <<rows, store, lastKey>>

RemoveFails(c) ==
    /\ "remove" \in Faults /\ command[c].pc \in {"remove", "undo"}
    /\ Step(c, "failed") /\ UNCHANGED <<rows, store, lastKey>>

Put(c, k) ==
    /\ command[c].pc = "put" /\ k \in NextKeys(c)
    /\ store' = store \cup {k}
    /\ lastKey' = IF k > lastKey THEN k ELSE lastKey
    /\ command' = [command EXCEPT ![c].mine = @ \cup {k},
                                  ![c].pc = IF IsLast(c) THEN "write" ELSE "put"]
    /\ UNCHANGED rows

\* put_object raises, before or after the object arrived.  app.demo has noted
\* the key before the call, app.review.demo notes it afterwards, and
\* app.history.demo compensates only what comes after the puts.
PutFails(c, k) ==
    /\ "put" \in Faults /\ command[c].pc = "put" /\ k \in NextKeys(c)
    /\ lastKey' = IF k > lastKey THEN k ELSE lastKey
    /\ IF Tool = "app"
       THEN /\ store' \in {store, store \cup {k}}
            /\ command' = [command EXCEPT ![c].mine = @ \cup {k}, ![c].pc = "undo"]
       ELSE /\ store' = store
            /\ Step(c, IF Tool = "history" THEN "failed" ELSE "undo")
    /\ UNCHANGED rows

---------------------------------------------------------------------------
(* Rows *)

\* The rows are inserted; a unique key, a missing parent or role, or the
\* database itself may refuse.
Write(c) ==
    /\ command[c].pc = "write"
    /\ \/ Step(c, "commit")
       \/ "write" \in Faults /\ Step(c, "undo")
    /\ UNCHANGED <<rows, store, lastKey>>

\* The unique user name and case number admit one generation; revise needs
\* the case it read.
Insertable(c) ==
    IF command[c].op = "revise" THEN rows.gen = command[c].seen
    ELSE Tool = "app" \/ rows.gen = 0

\* A new generation is named by one of its objects.
NewRows(c) ==
    IF command[c].op = "reset" THEN NoRows
    ELSE IF command[c].op = "revise"
         THEN [rows EXCEPT !.keys = @ \cup command[c].mine]
         ELSE [gen |-> CHOOSE k \in command[c].mine : TRUE, keys |-> command[c].mine,
               submitted |-> Tool = "app"]

\* Mutant: after the commit the new objects are removed for the old ones.
CommitSwapped(c) ==
    /\ command[c].pc = "commit"
    /\ IF Insertable(c)
       THEN /\ rows' = NewRows(c)
            /\ command' = [command EXCEPT ![c].old = command[c].mine,
                  ![c].pc = IF Tool = "app" THEN "remove" ELSE "done"]
       ELSE /\ Step(c, "undo") /\ UNCHANGED rows
    /\ UNCHANGED <<store, lastKey>>

Commit(c) ==
    /\ command[c].pc = "commit"
    /\ IF Insertable(c)
       THEN /\ rows' = NewRows(c)
            /\ Step(c, IF Tool = "app" THEN "remove" ELSE "done")
       ELSE /\ Step(c, "undo") /\ UNCHANGED rows
    /\ UNCHANGED <<store, lastKey>>

\* The commit raises.  The code takes it that nothing was stored and removes the
\* new objects (demo/lifecycle.py:2458-2462), and so does the model: a commit
\* that was stored while its acknowledgement is lost would leave rows without
\* their objects.
CommitFails(c) ==
    /\ "commit" \in Faults /\ command[c].pc = "commit"
    /\ Step(c, "undo") /\ UNCHANGED <<rows, store, lastKey>>

\* except Exception: the transaction is rolled back, then the objects go.
Undo(c, k) ==
    /\ command[c].pc = "undo" /\ k \in command[c].mine
    /\ store' = store \ {k}
    /\ command' = [command EXCEPT ![c].mine = @ \ {k}]
    /\ UNCHANGED <<rows, lastKey>>

\* The rows the rolled back transaction had deleted keep their objects.
Undone(c) ==
    /\ command[c].pc = "undo" /\ command[c].mine = {}
    /\ command' = [command EXCEPT ![c].pc = "failed", ![c].old = {}]
    /\ UNCHANGED <<rows, store, lastKey>>

Crash(c) ==
    /\ "crash" \in Faults /\ ~Ended(c)
    /\ Step(c, "failed") /\ UNCHANGED <<rows, store, lastKey>>

---------------------------------------------------------------------------
(* The application *)

\* An upload to the demo case; it locks the case row.  The history cases have
\* no owner who could upload.
Activity ==
    /\ rows.gen # 0 /\ ~CaseLocked /\ Tool # "history"
    /\ Cardinality(rows.keys) < Objects + MaxActivity
    /\ lastKey' = lastKey + 1
    /\ store' = store \cup {lastKey + 1}
    /\ rows' = [rows EXCEPT !.keys = @ \cup {lastKey + 1}]
    /\ UNCHANGED command

\* submit locks the case row as well.
Submit ==
    /\ rows.gen # 0 /\ Tool = "app" /\ ~CaseLocked /\ ~rows.submitted
    /\ rows' = [rows EXCEPT !.submitted = TRUE]
    /\ UNCHANGED <<store, lastKey, command>>

DataNext ==
    \/ \E c \in Invocations :
          \/ \E op \in {"seed", "reset", "revise"} : Start(c, op)
          \/ TakeLock(c) \/ ValidateOwned(c) \/ CountCases(c) \/ Collect(c)
          \/ DeleteRows(c) \/ Removed(c) \/ RemoveFails(c)
          \/ \E k \in command[c].old : Remove(c, k)
          \/ \E k \in NextKeys(c) : Put(c, k) \/ PutFails(c, k)
          \/ Write(c) \/ Commit(c) \/ CommitFails(c)
          \/ \E k \in command[c].mine : Undo(c, k)
          \/ Undone(c) \/ Crash(c)
    \/ Activity \/ Submit

DataSpec == DataInit /\ [][DataNext]_dataVars

---------------------------------------------------------------------------
(* What must hold *)

\* Whatever fails and however commands and uploads interleave, the committed
\* demonstration rows name objects that exist: compensation removes only the
\* objects of the failed command, and the objects of replaced rows go only
\* after the replacement is committed.
RowsHaveObjects == rows.keys \subseteq store

\* Every object is named by a committed row or is still on the list of a
\* command that will remove it or has failed at it: nothing is leaked by an
\* interleaving or by a compensated failure.
NothingForgotten ==
    \A k \in store \ rows.keys :
        \E c \in Invocations :
            command[c].pc # "done" /\ k \in command[c].mine \cup command[c].old

\* app.review.demo notes a key only after the put and finds its old objects
\* without a lock: it can forget one.
ObjectsAccounted == RowsHaveObjects /\ (Tool # "review" => NothingForgotten)

\* A generation that holds a submission is never replaced or removed, also
\* when it was submitted while a command was waiting (README, section on the
\* demonstration: seed and reset fail closed).
SubmittedIsKept == rows.submitted => rows'.gen = rows.gen

\* So it is after every step.
SubmissionStays == [][SubmittedIsKept]_dataVars
=============================================================================
