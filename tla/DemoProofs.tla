------------------------------- MODULE DemoProofs -------------------------------
(***************************************************************************)
(* The demonstration: no command leaves half of the swap of a role, for    *)
(* every set of accounts, roles and permissions (DemoAccounts); the rows   *)
(* have their objects and no object is forgotten, for any number of        *)
(* commands and objects and any faults (DemoData).                         *)
(***************************************************************************)
EXTENDS DemoAccounts, DemoData, FiniteSetTheorems, TLAPS

---------------------------------------------------------------------------
(* The swap of a role *)

SwappedLinks == {"TEST", "COMPANION"}
UsualLinks == {Own, "COMPANION"}

\* The inductive invariant: every account has its own links, but for the
\* appraiser's while the test role exists.
SwapInv ==
    /\ DemoTypeOK
    /\ \A u \in Owned \ {Appraiser} : links[u] = {FormalOf(u), "COMPANION"}
    /\ Appraiser \in Owned => links[Appraiser] = IF Swapped THEN SwappedLinks ELSE UsualLinks
    /\ Swapped => Appraiser \in Owned

\* The roles of the development are none of production.
LEMMA RolesApart ==
    ASSUME DemoAssumption
    PROVE  /\ Own \in Formal /\ Own # "TEST" /\ Own # "COMPANION"
           /\ \A u \in Users : FormalOf(u) \in Formal
BY DEF DemoAssumption, Formal, FormalOf, Own

LEMMA SwapInit ==
    ASSUME DemoAssumption, DemoInit
    PROVE  SwapInv
BY DEF DemoInit, SwapInv, DemoTypeOK, Owned, Swapped, RoleExists

LEMMA SeedInv ==
    ASSUME DemoAssumption, SwapInv, Seed
    PROVE  SwapInv'
<1> USE RolesApart
<1>1. /\ DOMAIN roles' = {"COMPANION"} /\ roles'["COMPANION"] = {Assistant}
      /\ DOMAIN links' = Users
      /\ \A u \in Users : links'[u] = {FormalOf(u), "COMPANION"}
      /\ inactive' = {} /\ grants' = grants
  BY DEF Seed
<1>2. DemoTypeOK'
  BY <1>1 DEF SwapInv, DemoTypeOK, Owned
<1>3. ~Swapped' /\ Owned' = Users
  BY <1>1 DEF Swapped, RoleExists, Owned
<1> QED
  BY <1>1, <1>2, <1>3 DEF SwapInv, UsualLinks, DemoAssumption, Own

LEMMA ResetInv ==
    ASSUME DemoAssumption, SwapInv, Reset
    PROVE  SwapInv'
<1>1. DOMAIN roles' = {} /\ DOMAIN links' = {} /\ inactive' = {} /\ grants' = grants
  BY DEF Reset, NoLinks
<1> QED
  BY <1>1 DEF SwapInv, DemoTypeOK, Owned, Swapped, RoleExists

LEMMA RevokeInv ==
    ASSUME DemoAssumption, SwapInv, NEW c \in Dynamic, Revoke(c)
    PROVE  SwapInv'
<1> USE RolesApart
<1>1. /\ DOMAIN roles' = DOMAIN roles \cup {"TEST"}
      /\ \A r \in DOMAIN roles' :
             roles'[r] = IF r = "TEST" THEN grants[Own] \ {c} ELSE roles[r]
  BY DEF Revoke, Set
<1>2. /\ DOMAIN links' = DOMAIN links /\ Appraiser \in DOMAIN links
      /\ links'[Appraiser] = SwappedLinks
      /\ \A u \in DOMAIN links \ {Appraiser} : links'[u] = links[u]
      /\ inactive' = inactive \ {"TEST"} /\ grants' = grants
  BY DEF Revoke, CanRevoke, SwapLinks, SwappedLinks, Owned
<1>3. Swapped' /\ Owned' = Owned
  BY <1>1, <1>2 DEF Swapped, RoleExists, Owned
<1>4. Companion
  BY DEF Revoke, CanRevoke
<1>5. /\ \A r \in DOMAIN roles' : roles'[r] \subseteq Permissions \cup {Assistant}
      /\ DOMAIN roles' \subseteq {"COMPANION", "TEST"}
  BY <1>1 DEF SwapInv, DemoTypeOK
<1>6. \A u \in Owned' : links'[u] \subseteq Formal \cup DOMAIN roles'
  BY <1>1, <1>2, <1>4 DEF SwapInv, DemoTypeOK, Owned, SwappedLinks, Companion, RoleExists
<1>7. DemoTypeOK'
  BY <1>1, <1>2, <1>3, <1>5, <1>6 DEF SwapInv, DemoTypeOK
<1> QED
  BY <1>2, <1>3, <1>7 DEF SwapInv, Owned

LEMMA RestoreInv ==
    ASSUME DemoAssumption, SwapInv, NEW c \in Dynamic, Restore(c)
    PROVE  SwapInv'
<1> USE RolesApart
<1>1. /\ DOMAIN roles' = DOMAIN roles \ {"TEST"}
      /\ \A r \in DOMAIN roles' : roles'[r] = roles[r]
  BY DEF Restore, Without
<1>2. /\ DOMAIN links' = DOMAIN links /\ Appraiser \in DOMAIN links
      /\ links'[Appraiser] = UsualLinks
      /\ \A u \in DOMAIN links \ {Appraiser} : links'[u] = links[u]
      /\ inactive' = inactive /\ "TEST" \notin inactive /\ grants' = grants
  BY DEF Restore, CanRestore, UsualLinks, Owned
<1>3. ~Swapped' /\ Owned' = Owned
  BY <1>1, <1>2 DEF Swapped, RoleExists, Owned
<1>4. Companion
  BY DEF Restore, CanRestore
<1>5. \A u \in Owned' : links'[u] \subseteq Formal \cup DOMAIN roles'
  BY <1>1, <1>2, <1>4 DEF SwapInv, DemoTypeOK, Owned, UsualLinks, Companion, RoleExists
<1>6. DemoTypeOK'
  BY <1>1, <1>2, <1>3, <1>5 DEF SwapInv, DemoTypeOK
<1> QED
  BY <1>2, <1>3, <1>6 DEF SwapInv, Owned

\* A migration and a deactivation touch neither the links nor which roles exist.
LEMMA OutsideInv ==
    ASSUME DemoAssumption, SwapInv, Migrate \/ Deactivate
    PROVE  SwapInv'
<1>1. UNCHANGED <<roles, links>>
  BY DEF Migrate, Deactivate
<1>2. grants' \in [Formal -> SUBSET Permissions] /\ inactive' \subseteq DOMAIN roles
  <2>1. CASE Migrate
    BY <2>1 DEF Migrate, SwapInv, DemoTypeOK
  <2>2. CASE Deactivate
    BY <2>2 DEF Deactivate, SwapInv, DemoTypeOK
  <2> QED
    BY <2>1, <2>2
<1> QED
  BY <1>1, <1>2 DEF SwapInv, DemoTypeOK, Owned, Swapped, RoleExists

\* What the invariant says of the swap.
LEMMA SwapFollows ==
    ASSUME DemoAssumption, SwapInv
    PROVE  SwapIsWhole
<1> USE RolesApart
<1>1. Swapped <=> Appraiser \in Owned /\ "TEST" \in links[Appraiser]
  BY DEF SwapInv, SwappedLinks, UsualLinks
<1>2. ASSUME Appraiser \in Owned
      PROVE  Cardinality(links[Appraiser] \cap {Own, "TEST"}) = 1
  <2>1. PICK r : links[Appraiser] \cap {Own, "TEST"} = {r}
    <3>1. CASE Swapped
      BY <1>2, <3>1 DEF SwapInv, SwappedLinks
    <3>2. CASE ~Swapped
      BY <1>2, <3>2 DEF SwapInv, UsualLinks
    <3> QED
      BY <3>1, <3>2
  <2> QED
    BY <2>1, FS_Singleton
<1> QED
  BY <1>1, <1>2 DEF SwapInv, SwapIsWhole

\* The test role exists exactly while it stands in for the appraiser's role,
\* whatever commands, migrations and deactivations come in whatever order.
THEOREM SwapIsAlwaysWhole ==
    ASSUME DemoAssumption
    PROVE  DemoSpec => []SwapIsWhole
<1>1. DemoInit => SwapInv
  BY SwapInit
<1>2. SwapInv /\ [DemoNext]_demoVars => SwapInv'
  <2> SUFFICES ASSUME SwapInv, [DemoNext]_demoVars PROVE SwapInv'
    OBVIOUS
  <2>1. CASE UNCHANGED demoVars
    BY <2>1 DEF demoVars, SwapInv, DemoTypeOK, Owned, Swapped, RoleExists
  <2>2. CASE DemoNext
    BY <2>2, SeedInv, ResetInv, RevokeInv, RestoreInv, OutsideInv DEF DemoNext
  <2> QED
    BY <2>1, <2>2
<1>3. SwapInv => SwapIsWhole
  BY SwapFollows
<1> QED
  BY <1>1, <1>2, <1>3, PTL DEF DemoSpec

---------------------------------------------------------------------------
(* The rows and objects of the demonstration *)

\* A command has put nothing yet; has objects no committed row names; has
\* them all in the bucket.
Early == {"ready", "lock", "check", "collect", "delete"}
Holding == {"put", "write", "commit"}
Pending == Holding \cup {"undo"}

\* Keys are drawn in order.
KeysDrawn ==
    /\ rows.keys \subseteq 1 .. lastKey
    /\ \A c \in Invocations : command[c].mine \cup command[c].old \subseteq 1 .. lastKey

\* What a command has put is of no row, of no other command that is still at
\* it, and on no list of objects to remove.
MineApart ==
    \A c \in Invocations : command[c].pc \in Pending =>
        /\ command[c].mine \cap rows.keys = {}
        /\ \A d \in Invocations : command[c].mine \cap command[d].old = {}
        /\ \A d \in Invocations \ {c} :
              command[d].pc \in Pending => command[c].mine \cap command[d].mine = {}

\* What is about to be removed is of no row, or of the rows that go first.
OldApart ==
    \A c \in Invocations :
        /\ command[c].pc = "remove" => command[c].old \cap rows.keys = {}
        /\ command[c].pc = "delete" =>
              rows.gen = command[c].seen \/ command[c].old \cap rows.keys = {}

\* The tools that draw their keys.
DrawnInv ==
    /\ DataTypeOK
    /\ KeysDrawn
    /\ MineApart
    /\ OldApart
    /\ RowsHaveObjects
    /\ \A c \in Invocations :
          /\ command[c].pc \in Early => command[c].mine = {}
          /\ command[c].pc \in {"write", "commit"} =>
                command[c].op = "reset" \/ command[c].mine # {}
          /\ Tool # "app" /\ command[c].pc = "remove" => command[c].mine = {}
          /\ command[c].pc \in Holding => command[c].mine \subseteq store
          /\ command[c].pc \in {"lock", "check"} => command[c].op \in {"seed", "reset"}
          /\ Tool = "app" => command[c].op # "revise"

\* app.demo: the lock has one holder, what it read of the rows stays true, and
\* a reset has no objects of its own.
LockInv ==
    /\ \A c, d \in Invocations : InTransaction(c) /\ InTransaction(d) => c = d
    /\ \A c \in Invocations :
          /\ command[c].pc \notin {"collect", "delete"}
          /\ command[c].pc \in Holding => command[c].old = rows.keys /\ ~rows.submitted
          /\ command[c].pc \in {"put", "write"} => command[c].op = "seed"
          /\ command[c].pc = "commit" /\ command[c].op = "reset" => command[c].mine = {}

\* The objects a command in state r still has to remove, or failed to.
Owed(r) ==
    CASE r.pc \in Pending -> r.mine
      [] r.pc = "remove" -> r.old
      [] r.pc = "failed" -> r.mine \cup r.old
      [] OTHER -> {}

Accounted == \A k \in store \ rows.keys : \E c \in Invocations : k \in Owed(command[c])

\* A step of one command.
LEMMA CommandMoves ==
    ASSUME DataTypeOK, NEW c \in Invocations, NEW r \in CommandStates,
           command' = [command EXCEPT ![c] = r]
    PROVE  /\ command' \in [Invocations -> CommandStates] /\ command'[c] = r
           /\ \A d \in Invocations \ {c} : command'[d] = command[d]
BY DEF DataTypeOK

\* A step that changes neither rows nor objects nor what the command has put,
\* and that may read the keys of the rows.
LEMMA DrawnQuiet ==
    ASSUME DrawnInv, NEW c \in Invocations, NEW r \in CommandStates,
           command' = [command EXCEPT ![c] = r], UNCHANGED <<rows, store, lastKey>>,
           r.mine = command[c].mine, r.old \subseteq command[c].old \cup rows.keys,
           r.pc \in Early => r.mine = {},
           r.pc \in Pending => command[c].pc \in Pending \/ r.mine = {},
           r.pc \in Holding => command[c].pc \in Holding \/ r.mine = {},
           r.pc \in {"write", "commit"} => r.op = "reset" \/ r.mine # {},
           r.pc # "remove", r.pc = "delete" => r.seen = rows.gen,
           r.pc \in {"lock", "check"} => r.op \in {"seed", "reset"},
           Tool = "app" => r.op # "revise"
    PROVE  DrawnInv'
<1>1. /\ command' \in [Invocations -> CommandStates] /\ command'[c] = r
      /\ \A d \in Invocations \ {c} : command'[d] = command[d]
  BY CommandMoves DEF DrawnInv
<1>2. DataTypeOK'
  BY <1>1 DEF DrawnInv, DataTypeOK
<1>3. KeysDrawn'
  BY <1>1 DEF DrawnInv, KeysDrawn
<1>4. MineApart'
  <2> SUFFICES ASSUME NEW d \in Invocations, command'[d].pc \in Pending
               PROVE  /\ command'[d].mine \cap rows.keys = {}
                      /\ \A e \in Invocations : command'[d].mine \cap command'[e].old = {}
                      /\ \A e \in Invocations \ {d} :
                            command'[e].pc \in Pending =>
                                command'[d].mine \cap command'[e].mine = {}
    BY DEF MineApart
  <2>1. \/ command'[d].mine = {}
        \/ command'[d].mine = command[d].mine /\ command[d].pc \in Pending
    BY <1>1
  <2>2. \A e \in Invocations :
            /\ command'[e].mine = command[e].mine
            /\ command'[e].old \subseteq command[e].old \cup rows.keys
            /\ command'[e].pc \in Pending =>
                  command[e].pc \in Pending \/ command'[e].mine = {}
    BY <1>1
  <2> QED
    BY <2>1, <2>2 DEF DrawnInv, MineApart
<1>5. OldApart'
  BY <1>1 DEF DrawnInv, OldApart
<1>6. RowsHaveObjects'
  BY DEF DrawnInv, RowsHaveObjects
<1>7. \A d \in Invocations :
          /\ command'[d].pc \in Early => command'[d].mine = {}
          /\ command'[d].pc \in {"write", "commit"} =>
                command'[d].op = "reset" \/ command'[d].mine # {}
          /\ Tool # "app" /\ command'[d].pc = "remove" => command'[d].mine = {}
          /\ command'[d].pc \in Holding => command'[d].mine \subseteq store
          /\ command'[d].pc \in {"lock", "check"} => command'[d].op \in {"seed", "reset"}
          /\ Tool = "app" => command'[d].op # "revise"
  BY <1>1 DEF DrawnInv
<1> QED
  BY <1>2, <1>3, <1>4, <1>5, <1>6, <1>7 DEF DrawnInv

\* The steps before the first object, between them and after the last.
LEMMA DrawnSteps ==
    ASSUME DrawnInv, DataAssumption, Tool # "history", NEW c \in Invocations,
           \/ \E op \in {"seed", "reset", "revise"} : Start(c, op)
           \/ TakeLock(c) \/ ValidateOwned(c) \/ Collect(c)
           \/ Removed(c) \/ RemoveFails(c) \/ Write(c) \/ CommitFails(c)
           \/ Undone(c) \/ Crash(c)
    PROVE  DrawnInv'
<1>r. PICK q \in CommandStates : q = command[c]
  BY DEF DrawnInv, DataTypeOK
<1>t. rows \in RowSets
  BY DEF DrawnInv, DataTypeOK
<1>q. /\ q.pc \in Early => q.mine = {}
      /\ q.pc \in {"write", "commit"} => q.op = "reset" \/ q.mine # {}
      /\ Tool # "app" /\ q.pc = "remove" => q.mine = {}
      /\ q.pc \in {"lock", "check"} => q.op \in {"seed", "reset"}
      /\ Tool = "app" => q.op # "revise"
  BY <1>r DEF DrawnInv
<1>s. \A pc \in {"ready", "lock", "check", "collect", "delete", "remove", "put",
                 "write", "commit", "undo", "done", "failed"} :
          /\ [q EXCEPT !.pc = pc] \in CommandStates
          /\ Step(c, pc) => command' = [command EXCEPT ![c] = [q EXCEPT !.pc = pc]]
  BY <1>r DEF Step, CommandStates
<1>1. ASSUME NEW op \in {"seed", "reset", "revise"}, Start(c, op) PROVE DrawnInv'
  <2> DEFINE pc == IF Tool = "app" THEN "lock" ELSE "collect"
             r == [q EXCEPT !.op = op, !.pc = pc]
  <2>1. /\ r \in CommandStates /\ r.mine = q.mine /\ r.old = q.old /\ r.pc = pc
        /\ r.op = op
    BY DEF CommandStates
  <2>2. command' = [command EXCEPT ![c] = r] /\ q.pc = "ready"
    BY <1>1, <1>r DEF Start
  <2>3. /\ pc \in {"lock", "collect"} /\ (pc = "lock" => op \in {"seed", "reset"})
        /\ Tool = "app" => op # "revise"
    BY <1>1 DEF Start
  <2> HIDE DEF r, pc
  <2> QED
    BY <1>1, <1>r, <1>q, <2>1, <2>2, <2>3, DrawnQuiet DEF Start, Early, Pending, Holding
<1>2. CASE TakeLock(c) \/ Crash(c) \/ RemoveFails(c) \/ CommitFails(c) \/ Write(c) \/ Removed(c)
  <2>1. PICK pc \in {"check", "failed", "undo", "commit", "put", "done"} :
            /\ Step(c, pc) /\ UNCHANGED <<rows, store, lastKey>>
            /\ pc = "check" => q.pc = "lock"
            /\ pc = "undo" => q.pc \in {"write", "commit"}
            /\ pc = "commit" => q.pc = "write"
            /\ pc = "put" => q.pc = "remove" /\ Tool # "app"
    BY <1>2, <1>r DEF TakeLock, Crash, RemoveFails, CommitFails, Write, Removed
  <2> DEFINE r == [q EXCEPT !.pc = pc]
  <2>2. /\ r \in CommandStates /\ r.mine = q.mine /\ r.old = q.old /\ r.pc = pc
        /\ r.op = q.op
    BY DEF CommandStates
  <2>3. command' = [command EXCEPT ![c] = r]
    BY <1>s, <2>1
  <2> HIDE DEF r
  <2> QED
    BY <1>r, <1>q, <2>1, <2>2, <2>3, DrawnQuiet DEF Early, Pending, Holding
<1>3. CASE ValidateOwned(c)
  <2>1. CASE Step(c, "failed")
    <3> DEFINE r == [q EXCEPT !.pc = "failed"]
    <3>1. /\ r \in CommandStates /\ r.mine = q.mine /\ r.old = q.old /\ r.pc = "failed"
          /\ r.op = q.op
      BY DEF CommandStates
    <3>2. command' = [command EXCEPT ![c] = r]
      BY <1>s, <2>1
    <3> HIDE DEF r
    <3> QED
      BY <1>3, <1>r, <1>q, <3>1, <3>2, DrawnQuiet DEF ValidateOwned, Early, Pending, Holding
  <2>2. CASE ~Step(c, "failed")
    <3> DEFINE pc == IF q.op = "seed" THEN "put" ELSE "commit"
               r == [q EXCEPT !.old = rows.keys, !.seen = rows.gen, !.pc = pc]
    <3>1. /\ r \in CommandStates /\ r.mine = q.mine /\ r.old = rows.keys /\ r.pc = pc
          /\ r.op = q.op
      BY <1>t DEF CommandStates, RowSets
    <3>2. command' = [command EXCEPT ![c] = r] /\ q.pc = "check"
      BY <1>3, <2>2, <1>r DEF ValidateOwned
    <3>3. /\ pc \in {"put", "commit"} /\ (pc = "commit" => q.op = "reset")
          /\ q.mine = {} /\ UNCHANGED <<rows, store, lastKey>>
      BY <1>3, <1>q, <3>2 DEF ValidateOwned, Early
    <3> HIDE DEF r, pc
    <3> QED
      BY <1>r, <1>q, <3>1, <3>2, <3>3, DrawnQuiet DEF Early, Pending, Holding
  <2> QED
    BY <2>1, <2>2
<1>4. CASE Collect(c)
  <2>1. CASE q.op = "revise" /\ rows.gen = 0
    <3> DEFINE r == [q EXCEPT !.pc = "failed"]
    <3>1. /\ r \in CommandStates /\ r.mine = q.mine /\ r.old = q.old /\ r.pc = "failed"
          /\ r.op = q.op
      BY DEF CommandStates
    <3>2. command' = [command EXCEPT ![c] = r] /\ UNCHANGED <<rows, store, lastKey>>
      BY <1>4, <1>r, <1>s, <2>1 DEF Collect
    <3> HIDE DEF r
    <3> QED
      BY <1>r, <1>q, <3>1, <3>2, DrawnQuiet DEF Early, Pending, Holding
  <2>2. CASE ~(q.op = "revise" /\ rows.gen = 0)
    <3> DEFINE pc == IF q.op = "revise" THEN "put" ELSE "delete"
               old == IF q.op = "revise" THEN {} ELSE rows.keys
               r == [q EXCEPT !.seen = rows.gen, !.old = old, !.pc = pc]
    <3>1. /\ r \in CommandStates /\ r.mine = q.mine /\ r.old = old /\ r.pc = pc
          /\ r.seen = rows.gen /\ r.op = q.op
      BY <1>t DEF CommandStates, RowSets
    <3>2. /\ command' = [command EXCEPT ![c] = r] /\ q.pc = "collect"
          /\ UNCHANGED <<rows, store, lastKey>>
      BY <1>4, <1>r, <2>2 DEF Collect
    <3>3. pc \in {"put", "delete"} /\ old \subseteq rows.keys /\ q.mine = {}
      BY <1>q, <3>2 DEF Early
    <3> HIDE DEF r, pc, old
    <3> QED
      BY <1>r, <1>q, <3>1, <3>2, <3>3, DrawnQuiet DEF Early, Pending, Holding
  <2> QED
    BY <2>1, <2>2
<1>5. CASE Undone(c)
  <2> DEFINE r == [q EXCEPT !.pc = "failed", !.old = {}]
  <2>1. /\ r \in CommandStates /\ r.mine = q.mine /\ r.old = {} /\ r.pc = "failed"
        /\ r.op = q.op
    BY DEF CommandStates
  <2>2. command' = [command EXCEPT ![c] = r] /\ UNCHANGED <<rows, store, lastKey>>
    BY <1>5, <1>r DEF Undone
  <2> HIDE DEF r
  <2> QED
    BY <1>r, <1>q, <2>1, <2>2, DrawnQuiet DEF Early, Pending, Holding
<1> QED
  BY <1>1, <1>2, <1>3, <1>4, <1>5

\* The rows are deleted: nothing of what was read of them stays in a row.
LEMMA DrawnDelete ==
    ASSUME DrawnInv, Tool # "history", NEW c \in Invocations, DeleteRows(c)
    PROVE  DrawnInv'
<1>r. PICK q \in CommandStates : q = command[c]
  BY DEF DrawnInv, DataTypeOK
<1>t. rows \in RowSets
  BY DEF DrawnInv, DataTypeOK
<1> DEFINE r == [q EXCEPT !.pc = "remove"]
<1>f. /\ r \in CommandStates /\ r.mine = q.mine /\ r.old = q.old /\ r.pc = "remove"
      /\ q.pc = "delete" /\ q.mine = {} /\ r.op = q.op
  BY <1>r DEF CommandStates, DeleteRows, DrawnInv, Early
<1>a. command' = [command EXCEPT ![c] = r] /\ UNCHANGED <<store, lastKey>>
  BY <1>r DEF DeleteRows, Step
<1>b. /\ rows'.keys = {} \/ rows' = rows
      /\ q.old \cap rows'.keys = {} /\ rows' \in RowSets
  BY <1>t, <1>r, <1>f DEF DeleteRows, Doomed, NoRows, RowSets, DrawnInv, OldApart
<1> HIDE DEF r
<1>1. /\ command' \in [Invocations -> CommandStates] /\ command'[c] = r
      /\ \A d \in Invocations \ {c} : command'[d] = command[d]
  BY <1>f, <1>a, CommandMoves DEF DrawnInv
<1>2. DataTypeOK'
  BY <1>1, <1>a, <1>b DEF DrawnInv, DataTypeOK
<1>3. KeysDrawn'
  BY <1>1, <1>a, <1>b, <1>f, <1>r DEF DrawnInv, KeysDrawn
<1>4. MineApart'
  BY <1>1, <1>b, <1>f, <1>r DEF DrawnInv, MineApart, Pending, Holding
<1>5. OldApart'
  BY <1>1, <1>b, <1>f, <1>r DEF DrawnInv, OldApart
<1>6. RowsHaveObjects'
  BY <1>a, <1>b DEF DrawnInv, RowsHaveObjects
<1>7. \A d \in Invocations :
          /\ command'[d].pc \in Early => command'[d].mine = {}
          /\ command'[d].pc \in {"write", "commit"} =>
                command'[d].op = "reset" \/ command'[d].mine # {}
          /\ Tool # "app" /\ command'[d].pc = "remove" => command'[d].mine = {}
          /\ command'[d].pc \in Holding => command'[d].mine \subseteq store'
          /\ command'[d].pc \in {"lock", "check"} => command'[d].op \in {"seed", "reset"}
          /\ Tool = "app" => command'[d].op # "revise"
  BY <1>1, <1>a, <1>f, <1>r DEF DrawnInv, Holding
<1> QED
  BY <1>2, <1>3, <1>4, <1>5, <1>6, <1>7 DEF DrawnInv

\* An object is removed that no row names and no other command has put.
LEMMA DrawnRemove ==
    ASSUME DrawnInv, NEW c \in Invocations, NEW k,
           \/ Remove(c, k)
           \/ k \in command[c].mine /\ Undo(c, k)
    PROVE  DrawnInv'
<1>r. PICK q \in CommandStates : q = command[c]
  BY DEF DrawnInv, DataTypeOK
<1> DEFINE r == IF q.pc = "remove" THEN [q EXCEPT !.old = @ \ {k}]
                ELSE [q EXCEPT !.mine = @ \ {k}]
<1>f. /\ r \in CommandStates /\ r.mine \subseteq q.mine /\ r.old \subseteq q.old
      /\ r.pc = q.pc /\ r.op = q.op /\ r.seen = q.seen /\ r.pc \in {"remove", "undo"}
  BY <1>r DEF CommandStates, Remove, Undo
<1>a. /\ command' = [command EXCEPT ![c] = r] /\ store' = store \ {k}
      /\ UNCHANGED <<rows, lastKey>>
  BY <1>r DEF Remove, Undo
<1>b. /\ k \notin rows.keys
      /\ \A d \in Invocations \ {c} : command[d].pc \in Holding => k \notin command[d].mine
  <2>1. CASE Remove(c, k)
    BY <2>1 DEF Remove, DrawnInv, MineApart, OldApart, Pending
  <2>2. CASE k \in command[c].mine /\ Undo(c, k)
    BY <2>2 DEF Undo, DrawnInv, MineApart, Pending
  <2> QED
    BY <2>1, <2>2
<1> HIDE DEF r
<1>1. /\ command' \in [Invocations -> CommandStates] /\ command'[c] = r
      /\ \A d \in Invocations \ {c} : command'[d] = command[d]
  BY <1>f, <1>a, CommandMoves DEF DrawnInv
<1>g. \A d \in Invocations :
          /\ command'[d].mine \subseteq command[d].mine /\ command'[d].old \subseteq command[d].old
          /\ command'[d].pc = command[d].pc /\ command'[d].op = command[d].op
          /\ command'[d].seen = command[d].seen
          /\ command'[d].pc \notin {"remove", "undo"} => command'[d] = command[d]
          /\ command'[d].pc \in Holding => k \notin command[d].mine
  BY <1>1, <1>f, <1>r, <1>b DEF Holding
<1>2. DataTypeOK'
  BY <1>1, <1>a DEF DrawnInv, DataTypeOK
<1>3. KeysDrawn'
  BY <1>g, <1>a DEF DrawnInv, KeysDrawn
<1>4. MineApart'
  BY <1>g, <1>a DEF DrawnInv, MineApart
<1>5. OldApart'
  BY <1>g, <1>a DEF DrawnInv, OldApart
<1>6. RowsHaveObjects'
  BY <1>a, <1>b DEF DrawnInv, RowsHaveObjects
<1>7. \A d \in Invocations :
          /\ command'[d].pc \in Early => command'[d].mine = {}
          /\ command'[d].pc \in {"write", "commit"} =>
                command'[d].op = "reset" \/ command'[d].mine # {}
          /\ Tool # "app" /\ command'[d].pc = "remove" => command'[d].mine = {}
          /\ command'[d].pc \in Holding => command'[d].mine \subseteq store'
          /\ command'[d].pc \in {"lock", "check"} => command'[d].op \in {"seed", "reset"}
          /\ Tool = "app" => command'[d].op # "revise"
  BY <1>g, <1>a DEF DrawnInv, Early, Holding
<1> QED
  BY <1>2, <1>3, <1>4, <1>5, <1>6, <1>7 DEF DrawnInv

\* A new object has a key nobody knows.
LEMMA DrawnPut ==
    ASSUME DrawnInv, DataAssumption, Tool # "history", NEW c \in Invocations,
           NEW k \in NextKeys(c), Put(c, k) \/ PutFails(c, k)
    PROVE  DrawnInv'
<1>r. PICK q \in CommandStates : q = command[c]
  BY DEF DrawnInv, DataTypeOK
<1>t. lastKey \in Nat
  BY DEF DrawnInv, DataTypeOK
<1>k. k = lastKey + 1 /\ lastKey' = k /\ rows' = rows
  BY <1>t DEF NextKeys, Put, PutFails
<1>m. PICK m \in SUBSET Nat : m = q.mine \cup {k}
  <2>1. q.mine \subseteq Nat
    BY DEF CommandStates
  <2>2. k \in Nat
    BY <1>k, <1>t
  <2> QED
    BY <2>1, <2>2
<1>f. PICK r \in CommandStates :
        /\ r.mine \in {q.mine, q.mine \cup {k}} /\ r.old = q.old /\ r.op = q.op
        /\ r.pc \in {"put", "write", "undo"} /\ q.pc = "put"
        /\ r.pc \in {"put", "write"} => r.mine = q.mine \cup {k} /\ k \in store'
        /\ command' = [command EXCEPT ![c] = r]
        /\ store \subseteq store' /\ store' \subseteq store \cup {k}
  <2>1. CASE Put(c, k)
    <3>1. PICK pc \in {"put", "write"} :
              command' = [command EXCEPT ![c].mine = @ \cup {k}, ![c].pc = pc]
      <4>1. CASE IsLast(c)
        BY <2>1, <4>1 DEF Put
      <4>2. CASE ~IsLast(c)
        BY <2>1, <4>2 DEF Put
      <4> QED
        BY <4>1, <4>2
    <3>2. command' = [command EXCEPT ![c] = [q EXCEPT !.mine = m, !.pc = pc]]
      BY <3>1, <1>r, <1>m
    <3> DEFINE r == [q EXCEPT !.mine = m, !.pc = pc]
    <3>3. /\ r \in CommandStates /\ r.mine = m /\ r.old = q.old
          /\ r.op = q.op /\ r.pc = pc
      BY DEF CommandStates
    <3>4. command' = [command EXCEPT ![c] = r]
      BY <3>2
    <3> HIDE DEF r
    <3>5. store' = store \cup {k} /\ q.pc = "put"
      BY <2>1, <1>r DEF Put
    <3> QED
      BY <3>1, <3>3, <3>4, <3>5, <1>m
  <2>2. CASE PutFails(c, k) /\ Tool = "app"
    <3> DEFINE r == [q EXCEPT !.mine = m, !.pc = "undo"]
    <3>1. /\ r \in CommandStates /\ r.mine = m /\ r.old = q.old
          /\ r.op = q.op /\ r.pc = "undo"
      BY DEF CommandStates
    <3>2. /\ command' = [command EXCEPT ![c] = r] /\ q.pc = "put"
          /\ store' \in {store, store \cup {k}}
      BY <2>2, <1>r, <1>m DEF PutFails
    <3> HIDE DEF r
    <3> QED
      BY <3>1, <3>2, <1>m
  <2>3. CASE PutFails(c, k) /\ Tool # "app"
    <3> DEFINE r == [q EXCEPT !.pc = "undo"]
    <3>1. /\ r \in CommandStates /\ r.mine = q.mine /\ r.old = q.old
          /\ r.op = q.op /\ r.pc = "undo"
      BY DEF CommandStates
    <3>2. /\ command' = [command EXCEPT ![c] = r] /\ q.pc = "put"
          /\ store' = store
      BY <2>3, <1>r DEF PutFails, Step
    <3> HIDE DEF r
    <3> QED
      BY <3>1, <3>2
  <2> QED
    BY <2>1, <2>2, <2>3
<1>1. /\ command' \in [Invocations -> CommandStates] /\ command'[c] = r
      /\ \A d \in Invocations \ {c} : command'[d] = command[d]
  BY <1>f, CommandMoves DEF DrawnInv
<1>2. DataTypeOK'
  BY <1>1, <1>f, <1>k, <1>t DEF DrawnInv, DataTypeOK
<1>5k. /\ 1 .. lastKey \subseteq 1 .. lastKey' /\ k \in 1 .. lastKey'
       /\ k \notin 1 .. lastKey
  BY <1>k, <1>t
<1>3. KeysDrawn'
  BY <1>1, <1>f, <1>k, <1>r, <1>5k DEF DrawnInv, KeysDrawn
<1>n. /\ k \notin rows.keys
      /\ \A d \in Invocations : k \notin command[d].mine /\ k \notin command[d].old
  BY <1>5k DEF DrawnInv, KeysDrawn
<1>4. MineApart'
  <2>1. \A d \in Invocations :
            /\ command'[d].old = command[d].old
            /\ command'[d].pc \in Pending => command[d].pc \in Pending
            /\ command'[d].mine \subseteq command[d].mine \cup {k}
            /\ d # c => command'[d].mine = command[d].mine
    BY <1>1, <1>f, <1>r DEF Pending, Holding
  <2> QED
    BY <2>1, <1>n, <1>k DEF DrawnInv, MineApart
<1>5. OldApart'
  BY <1>1, <1>f, <1>k DEF DrawnInv, OldApart
<1>6. RowsHaveObjects'
  BY <1>f, <1>k DEF DrawnInv, RowsHaveObjects
<1>7. \A d \in Invocations :
          /\ command'[d].pc \in Early => command'[d].mine = {}
          /\ command'[d].pc \in {"write", "commit"} =>
                command'[d].op = "reset" \/ command'[d].mine # {}
          /\ Tool # "app" /\ command'[d].pc = "remove" => command'[d].mine = {}
          /\ command'[d].pc \in Holding => command'[d].mine \subseteq store'
          /\ command'[d].pc \in {"lock", "check"} => command'[d].op \in {"seed", "reset"}
          /\ Tool = "app" => command'[d].op # "revise"
  BY <1>1, <1>f, <1>r DEF DrawnInv, Early, Holding
<1> QED
  BY <1>2, <1>3, <1>4, <1>5, <1>6, <1>7 DEF DrawnInv

\* The rows a commit leaves: no row, or rows that name what it has put and
\* what is left of the rows it extends.
LEMMA CommittedRows ==
    ASSUME DataTypeOK, NEW c \in Invocations, NEW q \in CommandStates, q = command[c],
           q.op = "reset" \/ q.mine # {}
    PROVE  /\ NewRows(c) \in RowSets
           /\ q.op = "reset" => NewRows(c).keys = {} /\ ~NewRows(c).submitted
           /\ q.op = "revise" => /\ NewRows(c).keys = rows.keys \cup q.mine
                                 /\ NewRows(c).gen = rows.gen
           /\ q.op \notin {"reset", "revise"} => NewRows(c).keys = q.mine
<1>1. rows \in RowSets
  BY DEF DataTypeOK
<1>2. CASE q.op = "reset"
  BY <1>2 DEF NewRows, NoRows, RowSets
<1>3. CASE q.op = "revise"
  BY <1>1, <1>3 DEF NewRows, RowSets, CommandStates
<1>4. CASE q.op \notin {"reset", "revise"}
  <2>1. (CHOOSE k \in q.mine : TRUE) \in Nat
    BY <1>4 DEF CommandStates
  <2> QED
    BY <1>4, <2>1 DEF NewRows, RowSets, CommandStates
<1> QED
  BY <1>2, <1>3, <1>4

\* The commit hands its objects over to the rows.
LEMMA DrawnCommit ==
    ASSUME DrawnInv, DataAssumption, Tool # "history", NEW c \in Invocations, Commit(c)
    PROVE  DrawnInv'
<1>r. PICK q \in CommandStates : q = command[c]
  BY DEF DrawnInv, DataTypeOK
<1>q. /\ q.pc = "commit" /\ (q.op = "reset" \/ q.mine # {})
      /\ Tool = "app" => q.op # "revise"
  BY <1>r DEF Commit, DrawnInv
<1>1. CASE ~Insertable(c)
  <2> DEFINE r == [q EXCEPT !.pc = "undo"]
  <2>1. /\ r \in CommandStates /\ r.mine = q.mine /\ r.old = q.old /\ r.pc = "undo"
        /\ r.op = q.op
    BY DEF CommandStates
  <2>2. command' = [command EXCEPT ![c] = r] /\ UNCHANGED <<rows, store, lastKey>>
    BY <1>1, <1>r DEF Commit, Step
  <2> HIDE DEF r
  <2> QED
    BY <1>r, <1>q, <2>1, <2>2, DrawnQuiet DEF Early, Pending, Holding
<1>2. CASE Insertable(c)
  <2> DEFINE pc == IF Tool = "app" THEN "remove" ELSE "done"
             r == [q EXCEPT !.pc = pc]
  <2>1. /\ r \in CommandStates /\ r.mine = q.mine /\ r.old = q.old /\ r.pc = pc
        /\ r.op = q.op /\ r.seen = q.seen
    BY DEF CommandStates
  <2>2. /\ command' = [command EXCEPT ![c] = r] /\ UNCHANGED <<store, lastKey>>
        /\ rows' = NewRows(c)
    BY <1>2, <1>r DEF Commit, Step
  <2>3. pc \in {"remove", "done"} /\ (pc = "remove" => Tool = "app")
    OBVIOUS
  <2> HIDE DEF r, pc
  <2>4. /\ command' \in [Invocations -> CommandStates] /\ command'[c] = r
        /\ \A d \in Invocations \ {c} : command'[d] = command[d]
    BY <2>1, <2>2, CommandMoves DEF DrawnInv
  <2>5. /\ rows' \in RowSets
        /\ rows'.keys \subseteq q.mine \cup rows.keys
        /\ q.op # "revise" => rows'.keys \subseteq q.mine
        /\ q.op = "revise" => rows'.gen = rows.gen
    BY <1>r, <1>q, <2>2, CommittedRows DEF DrawnInv
  <2>6. DataTypeOK'
    BY <2>4, <2>5, <2>2 DEF DrawnInv, DataTypeOK
  <2>7. KeysDrawn'
    BY <2>1, <2>2, <2>4, <2>5, <1>r DEF DrawnInv, KeysDrawn
  <2>8. \A d \in Invocations :
            /\ command'[d].mine = command[d].mine /\ command'[d].old = command[d].old
            /\ command'[d].seen = command[d].seen
            /\ command'[d].pc \in Pending \cup Early => d # c /\ command'[d] = command[d]
    BY <2>1, <2>3, <2>4, <1>r DEF Pending, Holding, Early
  <2>9. MineApart'
    BY <2>5, <2>8, <1>r, <1>q DEF DrawnInv, MineApart, Pending, Holding
  <2>10. \A d \in Invocations : q.mine \cap command[d].old = {}
    BY <1>r, <1>q DEF DrawnInv, MineApart, Pending, Holding
  <2>11. OldApart'
    <3> SUFFICES ASSUME NEW d \in Invocations
                 PROVE  /\ command'[d].pc = "remove" => command'[d].old \cap rows'.keys = {}
                        /\ command'[d].pc = "delete" =>
                              \/ rows'.gen = command'[d].seen
                              \/ command'[d].old \cap rows'.keys = {}
      BY DEF OldApart
    <3>1. CASE d = c
      BY <3>1, <2>1, <2>3, <2>4, <2>5, <2>10, <1>r, <1>q
    <3>2. CASE d # c
      BY <3>2, <2>4, <2>5, <2>10 DEF DrawnInv, OldApart
    <3> QED
      BY <3>1, <3>2
  <2>12. RowsHaveObjects'
    BY <2>2, <2>5, <1>r, <1>q DEF DrawnInv, RowsHaveObjects, Holding
  <2>13. \A d \in Invocations :
            /\ command'[d].pc \in Early => command'[d].mine = {}
            /\ command'[d].pc \in {"write", "commit"} =>
                  command'[d].op = "reset" \/ command'[d].mine # {}
            /\ Tool # "app" /\ command'[d].pc = "remove" => command'[d].mine = {}
            /\ command'[d].pc \in Holding => command'[d].mine \subseteq store'
            /\ command'[d].pc \in {"lock", "check"} => command'[d].op \in {"seed", "reset"}
            /\ Tool = "app" => command'[d].op # "revise"
    BY <2>1, <2>2, <2>3, <2>4, <1>q DEF DrawnInv, Early, Holding
  <2> QED
    BY <2>6, <2>7, <2>9, <2>11, <2>12, <2>13 DEF DrawnInv
<1> QED
  BY <1>1, <1>2

\* What the application does to the case.
LEMMA DrawnActivity ==
    ASSUME DrawnInv, Activity \/ Submit
    PROVE  DrawnInv'
<1>1. command' = command
  BY DEF Activity, Submit
<1>t. rows \in RowSets /\ lastKey \in Nat
  BY DEF DrawnInv, DataTypeOK
<1>2. PICK k \in Nat :
        /\ k \notin 1 .. lastKey
        /\ k \in 1 .. lastKey' \/ lastKey' = lastKey
        /\ lastKey' \in Nat /\ 1 .. lastKey \subseteq 1 .. lastKey'
        /\ rows'.keys \subseteq rows.keys \cup {k}
        /\ lastKey' = lastKey => rows'.keys = rows.keys
        /\ rows'.gen = rows.gen /\ rows' \in RowSets
        /\ store \subseteq store' /\ rows'.keys \subseteq rows.keys \cup store'
        /\ store' \subseteq store \cup {k}
  <2>1. CASE Activity
    <3>1. /\ lastKey' = lastKey + 1 /\ rows'.keys = rows.keys \cup {lastKey + 1}
          /\ store' = store \cup {lastKey + 1}
          /\ rows'.gen = rows.gen /\ rows' \in RowSets
      BY <2>1, <1>t DEF Activity, RowSets
    <3> QED
      BY <3>1, <1>t
  <2>2. CASE Submit
    <3>1. /\ lastKey' = lastKey /\ rows'.keys = rows.keys /\ store' = store
          /\ rows'.gen = rows.gen /\ rows' \in RowSets
      BY <2>2, <1>t DEF Submit, RowSets
    <3> QED
      BY <3>1, <1>t
  <2> QED
    BY <2>1, <2>2
<1>3. DataTypeOK'
  BY <1>1, <1>2 DEF DrawnInv, DataTypeOK
<1>4. KeysDrawn'
  BY <1>1, <1>2 DEF DrawnInv, KeysDrawn
<1>5. MineApart'
  BY <1>1, <1>2 DEF DrawnInv, KeysDrawn, MineApart
<1>6. OldApart'
  BY <1>1, <1>2 DEF DrawnInv, KeysDrawn, OldApart
<1>7. RowsHaveObjects'
  BY <1>2 DEF DrawnInv, RowsHaveObjects
<1> QED
  BY <1>1, <1>2, <1>3, <1>4, <1>5, <1>6, <1>7 DEF DrawnInv

LEMMA DrawnInit ==
    ASSUME DataAssumption, DataInit
    PROVE  DrawnInv
<1>1. PICK legacy \in {{}, 1 .. Objects} :
        /\ rows = IF legacy = {} THEN NoRows
                  ELSE [gen |-> 1, keys |-> legacy, submitted |-> FALSE]
        /\ store = legacy
  BY DEF DataInit
<1>2. rows \in RowSets /\ rows.keys = legacy
  BY <1>1 DEF RowSets, NoRows, DataAssumption
<1>3. lastKey = Objects /\ Objects \in Nat /\ legacy \subseteq 1 .. lastKey
  BY <1>1 DEF DataInit, DataAssumption
<1>4. /\ command \in [Invocations -> CommandStates]
      /\ \A c \in Invocations : /\ command[c].pc = "ready" /\ command[c].mine = {}
                              /\ command[c].old = {} /\ command[c].op = "none"
  BY DEF DataInit, CommandStates
<1>5. DataTypeOK
  BY <1>1, <1>2, <1>3, <1>4 DEF DataTypeOK
<1>6. KeysDrawn /\ MineApart /\ OldApart /\ RowsHaveObjects
  BY <1>1, <1>2, <1>3, <1>4
  DEF KeysDrawn, MineApart, OldApart, RowsHaveObjects, Pending, Holding
<1> QED
  BY <1>4, <1>5, <1>6 DEF DrawnInv, Holding

LEMMA DrawnStep ==
    ASSUME DrawnInv, DataAssumption, Tool # "history", [DataNext]_dataVars
    PROVE  DrawnInv'
<1>1. CASE UNCHANGED dataVars
  BY <1>1 DEF dataVars, DrawnInv, DataTypeOK, KeysDrawn, MineApart, OldApart, RowsHaveObjects
<1>2. CASE Activity \/ Submit
  BY <1>2, DrawnActivity
<1>3. ASSUME NEW c \in Invocations, NEW k \in NextKeys(c), Put(c, k) \/ PutFails(c, k)
      PROVE  DrawnInv'
  BY <1>3, DrawnPut
<1>4. ASSUME NEW c \in Invocations, NEW k,
             Remove(c, k) \/ (k \in command[c].mine /\ Undo(c, k))
      PROVE  DrawnInv'
  BY <1>4, DrawnRemove
<1>5. ASSUME NEW c \in Invocations,
             \/ \E op \in {"seed", "reset", "revise"} : Start(c, op)
             \/ TakeLock(c) \/ ValidateOwned(c) \/ Collect(c)
             \/ Removed(c) \/ RemoveFails(c) \/ Write(c) \/ CommitFails(c)
             \/ Undone(c) \/ Crash(c)
      PROVE  DrawnInv'
  BY <1>5, DrawnSteps
<1>6. ASSUME NEW c \in Invocations, DeleteRows(c) PROVE DrawnInv'
  BY <1>6, DrawnDelete
<1>7. ASSUME NEW c \in Invocations, Commit(c) PROVE DrawnInv'
  BY <1>7, DrawnCommit
<1>8. ASSUME NEW c \in Invocations, CountCases(c) PROVE DrawnInv'
  BY <1>8 DEF CountCases
<1> QED
  BY <1>1, <1>2, <1>3, <1>4, <1>5, <1>6, <1>7, <1>8 DEF DataNext

---------------------------------------------------------------------------
(* The lock of app.demo, and the objects still to be removed *)

\* A step that leaves the rows alone and enters the transaction only when
\* nobody is in one.
LEMMA LockMoves ==
    ASSUME DataTypeOK, LockInv, NEW c \in Invocations, NEW r \in CommandStates,
           command' = [command EXCEPT ![c] = r],
           r.pc \in Holding \cup {"check"} =>
               InTransaction(c) \/ \A d \in Invocations : ~InTransaction(d),
           rows' = rows \/ InTransaction(c),
           r.pc \notin {"collect", "delete"},
           r.pc \in Holding => r.old = rows'.keys /\ ~rows'.submitted,
           r.pc \in {"put", "write"} => r.op = "seed",
           r.pc = "commit" /\ r.op = "reset" => r.mine = {}
    PROVE  LockInv'
<1>1. /\ command'[c] = r /\ \A d \in Invocations \ {c} : command'[d] = command[d]
  BY CommandMoves
<1>2. \A d, e \in Invocations : InTransaction(d)' /\ InTransaction(e)' => d = e
  BY <1>1 DEF LockInv, InTransaction, Holding
<1>3. \A d \in Invocations \ {c} : command[d].pc \in Holding => rows' = rows
  BY DEF LockInv, InTransaction, Holding
<1>4. \A d \in Invocations :
          /\ command'[d].pc \notin {"collect", "delete"}
          /\ command'[d].pc \in Holding => command'[d].old = rows'.keys /\ ~rows'.submitted
          /\ command'[d].pc \in {"put", "write"} => command'[d].op = "seed"
          /\ command'[d].pc = "commit" /\ command'[d].op = "reset" => command'[d].mine = {}
  BY <1>1, <1>3 DEF LockInv
<1> QED
  BY <1>2, <1>4 DEF LockInv

\* A step after which the command still owes what it owed and what it added.
LEMMA OwedMoves ==
    ASSUME DataTypeOK, Accounted, NEW c \in Invocations, NEW r \in CommandStates,
           command' = [command EXCEPT ![c] = r],
           \A k \in store' \ rows'.keys :
               k \in Owed(r) \/ (k \in store \ rows.keys /\ k \notin Owed(command[c]))
    PROVE  Accounted'
<1>1. /\ command'[c] = r /\ \A d \in Invocations \ {c} : command'[d] = command[d]
  BY CommandMoves
<1>2. SUFFICES ASSUME NEW k \in store' \ rows'.keys
               PROVE  \E d \in Invocations : k \in Owed(command'[d])
  BY DEF Accounted
<1>3. CASE k \in Owed(r)
  BY <1>1, <1>3
<1>4. CASE k \in store \ rows.keys /\ k \notin Owed(command[c])
  BY <1>1, <1>4 DEF Accounted
<1> QED
  BY <1>3, <1>4

\* What is known of app.demo, which records what it owes.
TrailInv == DataTypeOK /\ DrawnInv /\ LockInv /\ Accounted

\* What a step must keep of it.
Kept == Accounted' /\ LockInv'

\* The steps that change neither rows nor objects.
LEMMA KeptQuiet ==
    ASSUME TrailInv, NEW c \in Invocations, NEW r \in CommandStates,
           command' = [command EXCEPT ![c] = r],
           UNCHANGED <<rows, store>>,
           Owed(command[c]) \subseteq Owed(r),
           r.pc \in Holding \cup {"check"} =>
               InTransaction(c) \/ \A d \in Invocations : ~InTransaction(d),
           r.pc \notin {"collect", "delete"},
           r.pc \in Holding => r.old = rows.keys /\ ~rows.submitted,
           r.pc \in {"put", "write"} => r.op = "seed",
           r.pc = "commit" /\ r.op = "reset" => r.mine = {}
    PROVE  Kept
<1>1. Accounted'
  BY OwedMoves DEF TrailInv
<1>2. LockInv'
  BY LockMoves DEF TrailInv
<1> QED
  BY <1>1, <1>2 DEF Kept

LEMMA KeptSteps ==
    ASSUME TrailInv, DataAssumption, Tool = "app", NEW c \in Invocations,
           \/ \E op \in {"seed", "reset", "revise"} : Start(c, op)
           \/ TakeLock(c) \/ ValidateOwned(c) \/ CountCases(c) \/ Collect(c)
           \/ Removed(c) \/ RemoveFails(c) \/ Write(c) \/ CommitFails(c)
           \/ Undone(c) \/ Crash(c)
    PROVE  Kept
<1>r. PICK q \in CommandStates : q = command[c]
  BY DEF TrailInv, DataTypeOK
<1>t. rows \in RowSets
  BY DEF TrailInv, DataTypeOK
<1>q. /\ q.pc \in Early => q.mine = {}
      /\ q.pc \in {"lock", "check"} => q.op \in {"seed", "reset"}
      /\ q.pc \notin {"collect", "delete"}
      /\ q.pc \in Holding => q.old = rows.keys /\ ~rows.submitted
      /\ q.pc \in {"put", "write"} => q.op = "seed"
  BY <1>r DEF TrailInv, DrawnInv, LockInv
<1>1. ASSUME NEW op \in {"seed", "reset", "revise"}, Start(c, op) PROVE Kept
  <2>0. PICK pc \in {"lock", "check", "collect"} :
            command' = [command EXCEPT ![c].op = op, ![c].pc = pc] /\ pc = "lock"
    BY <1>1 DEF Start
  <2> DEFINE r == [q EXCEPT !.op = op, !.pc = pc]
  <2>1. r \in CommandStates /\ r.pc = pc
    BY DEF CommandStates
  <2>2. /\ command' = [command EXCEPT ![c] = r] /\ UNCHANGED <<rows, store>>
        /\ q.pc = "ready"
    BY <1>1, <2>0, <1>r DEF Start
  <2>3. Owed(q) = {}
    BY <2>2 DEF Owed, Pending, Holding
  <2> HIDE DEF r
  <2> QED
    BY <1>r, <2>0, <2>1, <2>2, <2>3, KeptQuiet DEF Holding
<1>2. CASE \/ TakeLock(c) \/ Crash(c) \/ RemoveFails(c) \/ CommitFails(c) \/ Write(c)
           \/ CountCases(c) \/ Removed(c)
  <2>1. PICK pc \in {"check", "failed", "undo", "commit", "put", "done", "collect"} :
            /\ Step(c, pc) /\ UNCHANGED <<rows, store>>
            /\ pc = "check" => q.pc = "lock" /\ ~CaseLocked
            /\ pc = "undo" => q.pc \in {"write", "commit"}
            /\ pc = "commit" => q.pc = "write"
            /\ pc \notin {"put", "collect"}
            /\ pc = "done" => q.pc = "check" \/ (q.pc = "remove" /\ q.old = {})
    BY <1>2, <1>r
    DEF TakeLock, Crash, RemoveFails, CommitFails, Write, CountCases, Removed
  <2> DEFINE r == [q EXCEPT !.pc = pc]
  <2>2. /\ r \in CommandStates /\ r.mine = q.mine /\ r.old = q.old /\ r.pc = pc
        /\ r.op = q.op
    BY DEF CommandStates
  <2>3. command' = [command EXCEPT ![c] = r]
    BY <1>r, <2>1 DEF Step
  <2> HIDE DEF r
  <2>4. Owed(q) \subseteq Owed(r)
    BY <2>1, <2>2 DEF Owed, Pending, Holding
  <2>5. /\ r.pc \in Holding \cup {"check"} =>
              InTransaction(c) \/ \A d \in Invocations : ~InTransaction(d)
        /\ r.pc \notin {"collect", "delete"}
        /\ r.pc \in Holding => r.old = rows.keys /\ ~rows.submitted
        /\ r.pc \in {"put", "write"} => r.op = "seed"
        /\ r.pc = "commit" /\ r.op = "reset" => r.mine = {}
    BY <1>r, <1>q, <2>1, <2>2 DEF Holding, CaseLocked, InTransaction
  <2> QED
    BY <1>r, <2>1, <2>2, <2>3, <2>4, <2>5, KeptQuiet
<1>3. CASE ValidateOwned(c)
  <2>1. CASE Step(c, "failed")
    <3> DEFINE r == [q EXCEPT !.pc = "failed"]
    <3>1. r \in CommandStates /\ r.pc = "failed"
      BY DEF CommandStates
    <3>2. /\ command' = [command EXCEPT ![c] = r] /\ UNCHANGED <<rows, store>>
          /\ q.pc = "check"
      BY <1>3, <1>r, <2>1 DEF ValidateOwned, Step
    <3>3. Owed(q) = {}
      BY <3>2 DEF Owed, Pending, Holding
    <3> HIDE DEF r
    <3> QED
      BY <1>r, <3>1, <3>2, <3>3, KeptQuiet DEF Holding
  <2>2. CASE ~Step(c, "failed")
    <3> DEFINE pc == IF q.op = "seed" THEN "put" ELSE "commit"
               r == [q EXCEPT !.old = rows.keys, !.seen = rows.gen, !.pc = pc]
    <3>1. /\ r \in CommandStates /\ r.mine = q.mine /\ r.old = rows.keys /\ r.pc = pc
          /\ r.op = q.op
      BY <1>t DEF CommandStates, RowSets
    <3>2. /\ command' = [command EXCEPT ![c] = r] /\ q.pc = "check"
          /\ UNCHANGED <<rows, store>> /\ ~rows.submitted /\ Tool = "app"
      BY <1>3, <2>2, <1>r DEF ValidateOwned
    <3>3. /\ pc \in {"put", "commit"} /\ (pc = "put" => q.op = "seed")
          /\ q.mine = {} /\ InTransaction(c)
      BY <1>q, <1>r, <3>2 DEF Early, InTransaction
    <3>4. Owed(q) = {}
      BY <3>2 DEF Owed, Pending, Holding
    <3> HIDE DEF r, pc
    <3> QED
      BY <1>r, <3>1, <3>2, <3>3, <3>4, KeptQuiet DEF Holding
  <2> QED
    BY <2>1, <2>2
<1>4. CASE Collect(c)
  BY <1>4, <1>r, <1>q DEF Collect
<1>5. CASE Undone(c)
  <2> DEFINE r == [q EXCEPT !.pc = "failed", !.old = {}]
  <2>1. r \in CommandStates /\ r.pc = "failed"
    BY DEF CommandStates
  <2>2. /\ command' = [command EXCEPT ![c] = r] /\ UNCHANGED <<rows, store>>
        /\ q.pc = "undo" /\ q.mine = {}
    BY <1>5, <1>r DEF Undone
  <2>3. Owed(q) = {}
    BY <2>2 DEF Owed, Pending, Holding
  <2> HIDE DEF r
  <2> QED
    BY <1>r, <2>1, <2>2, <2>3, KeptQuiet DEF Holding
<1> QED
  BY <1>1, <1>2, <1>3, <1>4, <1>5

\* The steps that put or remove an object.
LEMMA KeptObjects ==
    ASSUME TrailInv, DataAssumption, Tool = "app", NEW c \in Invocations,
           \/ \E k \in NextKeys(c) : Put(c, k) \/ PutFails(c, k)
           \/ \E k \in command[c].old : Remove(c, k)
           \/ \E k \in command[c].mine : Undo(c, k)
    PROVE  Kept
<1>r. PICK q \in CommandStates : q = command[c]
  BY DEF TrailInv, DataTypeOK
<1>q. /\ q.pc \in Holding => q.old = rows.keys /\ ~rows.submitted
      /\ q.pc \in {"put", "write"} => q.op = "seed"
  BY <1>r DEF TrailInv, LockInv
<1>k. \A k \in NextKeys(c) : k \in Nat
  <2>1. lastKey \in Nat /\ 1 .. Objects \subseteq Nat
    BY DEF TrailInv, DataTypeOK, DataAssumption
  <2> QED
    BY <2>1 DEF NextKeys
<1>m. ASSUME NEW k \in Nat PROVE q.mine \cup {k} \in SUBSET Nat
  <2>1. q.mine \subseteq Nat
    BY DEF CommandStates
  <2> QED
    BY <2>1
<1>1. ASSUME NEW k \in NextKeys(c), Put(c, k) PROVE Kept
  <2>1. PICK pc \in {"put", "write"} :
            command' = [command EXCEPT ![c].mine = @ \cup {k}, ![c].pc = pc]
    <3>1. CASE IsLast(c)
      BY <1>1, <3>1 DEF Put
    <3>2. CASE ~IsLast(c)
      BY <1>1, <3>2 DEF Put
    <3> QED
      BY <3>1, <3>2
  <2>m. PICK m \in SUBSET Nat : m = q.mine \cup {k}
    BY <1>k, <1>m
  <2> DEFINE r == [q EXCEPT !.mine = m, !.pc = pc]
  <2>3. /\ r \in CommandStates /\ r.pc = pc /\ r.op = q.op /\ r.mine = m
        /\ r.old = q.old
    BY DEF CommandStates
  <2>4. command' = [command EXCEPT ![c] = r]
    BY <2>1, <2>m, <1>r
  <2>5. q.pc = "put" /\ rows' = rows /\ store' = store \cup {k} /\ InTransaction(c)
    BY <1>1, <1>r DEF Put, InTransaction
  <2> HIDE DEF r
  <2>6. Owed(r) = m /\ Owed(q) = q.mine
    BY <2>3, <2>5 DEF Owed, Pending, Holding
  <2>7. Accounted'
    BY <1>r, <2>m, <2>3, <2>4, <2>5, <2>6, OwedMoves DEF TrailInv
  <2>8. LockInv'
    BY <1>q, <2>3, <2>4, <2>5, LockMoves DEF TrailInv, Holding
  <2> QED
    BY <2>7, <2>8 DEF Kept
<1>2. ASSUME NEW k \in NextKeys(c), PutFails(c, k) PROVE Kept
  <2>m. PICK m \in SUBSET Nat : m = q.mine \cup {k}
    BY <1>k, <1>m
  <2>1. PICK r \in CommandStates :
            /\ command' = [command EXCEPT ![c] = r] /\ r.pc = "undo"
            /\ r.mine = m
    <3> DEFINE r == [q EXCEPT !.mine = m, !.pc = "undo"]
    <3>1. r \in CommandStates /\ r.pc = "undo" /\ r.mine = m
      BY DEF CommandStates
    <3>2. command' = [command EXCEPT ![c] = r]
      BY <1>2, <1>r, <2>m DEF PutFails
    <3> HIDE DEF r
    <3> QED
      BY <3>1, <3>2
  <2>2. q.pc = "put" /\ rows' = rows /\ store' \subseteq store \cup {k}
    BY <1>2, <1>r DEF PutFails
  <2>3. Owed(q) = q.mine /\ r.mine \subseteq Owed(r)
    BY <2>1, <2>2 DEF Owed, Pending, Holding
  <2>4. Accounted'
    BY <1>r, <2>m, <2>1, <2>2, <2>3, OwedMoves DEF TrailInv
  <2>5. LockInv'
    BY <2>1, <2>2, LockMoves DEF TrailInv, Holding
  <2> QED
    BY <2>4, <2>5 DEF Kept
<1>3. ASSUME NEW k \in command[c].old, Remove(c, k) PROVE Kept
  <2> DEFINE r == [q EXCEPT !.old = @ \ {k}]
  <2>1. r \in CommandStates /\ r.pc = q.pc /\ r.old = q.old \ {k}
    BY DEF CommandStates
  <2>2. /\ command' = [command EXCEPT ![c] = r] /\ q.pc = "remove"
        /\ rows' = rows /\ store' = store \ {k}
    BY <1>3, <1>r DEF Remove
  <2> HIDE DEF r
  <2>3. Owed(q) = q.old /\ Owed(r) = q.old \ {k}
    BY <2>1, <2>2 DEF Owed, Pending, Holding
  <2>4. Accounted'
    BY <1>r, <2>1, <2>2, <2>3, OwedMoves DEF TrailInv
  <2>5. LockInv'
    BY <2>1, <2>2, LockMoves DEF TrailInv, Holding
  <2> QED
    BY <2>4, <2>5 DEF Kept
<1>4. ASSUME NEW k \in command[c].mine, Undo(c, k) PROVE Kept
  <2> DEFINE r == [q EXCEPT !.mine = @ \ {k}]
  <2>1. r \in CommandStates /\ r.pc = q.pc /\ r.mine = q.mine \ {k}
    BY DEF CommandStates
  <2>2. /\ command' = [command EXCEPT ![c] = r] /\ q.pc = "undo"
        /\ rows' = rows /\ store' = store \ {k}
    BY <1>4, <1>r DEF Undo
  <2> HIDE DEF r
  <2>3. Owed(q) = q.mine /\ Owed(r) = q.mine \ {k}
    BY <2>1, <2>2 DEF Owed, Pending, Holding
  <2>4. Accounted'
    BY <1>r, <2>1, <2>2, <2>3, OwedMoves DEF TrailInv
  <2>5. LockInv'
    BY <2>1, <2>2, LockMoves DEF TrailInv, Holding
  <2> QED
    BY <2>4, <2>5 DEF Kept
<1> QED
  BY <1>1, <1>2, <1>3, <1>4

\* The rows go or are replaced: the objects of the old ones are owed.
LEMMA KeptRows ==
    ASSUME TrailInv, DataAssumption, Tool = "app", NEW c \in Invocations,
           DeleteRows(c) \/ Commit(c)
    PROVE  Kept
<1>r. PICK q \in CommandStates : q = command[c]
  BY DEF TrailInv, DataTypeOK
<1>1. CASE DeleteRows(c)
  BY <1>1 DEF DeleteRows, TrailInv, LockInv
<1>2. CASE Commit(c)
  <2>1. /\ q.pc = "commit" /\ (q.op = "reset" \/ q.mine # {})
        /\ q.old = rows.keys /\ (q.op = "reset" => q.mine = {}) /\ q.op # "revise"
    BY <1>2, <1>r DEF Commit, TrailInv, LockInv, DrawnInv, Holding
  <2> DEFINE r == [q EXCEPT !.pc = "remove"]
  <2>2. r \in CommandStates /\ r.pc = "remove" /\ r.old = q.old
    BY DEF CommandStates
  <2>3. Insertable(c)
    BY <1>2, <1>r, <2>1 DEF Insertable
  <2>4. /\ command' = [command EXCEPT ![c] = r] /\ store' = store /\ rows' = NewRows(c)
    BY <1>2, <1>r, <2>3 DEF Commit, Step
  <2> HIDE DEF r
  <2>5. q.mine \subseteq rows'.keys
    BY <1>r, <2>1, <2>4, CommittedRows DEF TrailInv
  <2>6. Owed(q) = q.mine /\ Owed(r) = rows.keys
    BY <2>1, <2>2 DEF Owed, Pending, Holding
  <2>7. Accounted'
    BY <1>r, <2>2, <2>4, <2>5, <2>6, OwedMoves DEF TrailInv
  <2>8. InTransaction(c)
    BY <1>r, <2>1 DEF InTransaction
  <2>9. LockInv'
    BY <1>2, <2>2, <2>4, <2>8, LockMoves DEF TrailInv, Holding
  <2> QED
    BY <2>7, <2>9 DEF Kept
<1> QED
  BY <1>1, <1>2

LEMMA TrailStep ==
    ASSUME TrailInv, DataAssumption, Tool = "app", [DataNext]_dataVars
    PROVE  TrailInv'
<1>1. Kept
  <2>1. CASE UNCHANGED dataVars
    BY <2>1 DEF dataVars, Kept, TrailInv, Accounted, LockInv, InTransaction
  <2>2. CASE Activity \/ Submit
    <3>1. /\ command' = command
          /\ \A c \in Invocations : ~InTransaction(c)
      BY <2>2 DEF Activity, Submit, CaseLocked, DataAssumption
    <3>2. store' \ rows'.keys \subseteq store \ rows.keys
      <4>1. rows \in RowSets
        BY DEF TrailInv, DataTypeOK
      <4> QED
        BY <2>2, <4>1 DEF Activity, Submit, RowSets
    <3>3. Accounted'
      BY <3>1, <3>2 DEF TrailInv, Accounted
    <3>4. LockInv'
      BY <3>1 DEF TrailInv, LockInv, InTransaction, Holding
    <3> QED
      BY <3>3, <3>4 DEF Kept
  <2>3. ASSUME NEW c \in Invocations,
               \/ \E op \in {"seed", "reset", "revise"} : Start(c, op)
               \/ TakeLock(c) \/ ValidateOwned(c) \/ CountCases(c) \/ Collect(c)
               \/ Removed(c) \/ RemoveFails(c) \/ Write(c) \/ CommitFails(c)
               \/ Undone(c) \/ Crash(c)
        PROVE  Kept
    BY <2>3, KeptSteps
  <2>4. ASSUME NEW c \in Invocations,
               \/ \E k \in NextKeys(c) : Put(c, k) \/ PutFails(c, k)
               \/ \E k \in command[c].old : Remove(c, k)
               \/ \E k \in command[c].mine : Undo(c, k)
        PROVE  Kept
    BY <2>4, KeptObjects
  <2>5. ASSUME NEW c \in Invocations, DeleteRows(c) \/ Commit(c) PROVE Kept
    BY <2>5, KeptRows
  <2> QED
    BY <2>1, <2>2, <2>3, <2>4, <2>5 DEF DataNext
<1>2. DrawnInv'
  BY DrawnStep DEF TrailInv
<1> QED
  BY <1>1, <1>2 DEF TrailInv, Kept, DrawnInv

LEMMA TrailInit ==
    ASSUME DataAssumption, DataInit
    PROVE  TrailInv
<1>1. DrawnInv
  BY DrawnInit
<1>2. /\ \A c \in Invocations : command[c].pc = "ready"
      /\ store \subseteq rows.keys
  BY DEF DataInit, NoRows
<1> QED
  BY <1>1, <1>2 DEF TrailInv, DrawnInv, Accounted, LockInv, InTransaction, Holding

\* The tools that draw their keys, app.demo and app.review.demo, account for
\* their objects however their commands and the uploads interleave and whatever
\* fails: the committed rows name objects that exist, and an object of app.demo
\* that no row names is on the list of a command that will remove it or has
\* failed at it.  A commit that fails is taken to have stored nothing
\* (CommitFails), and app.history.demo, whose keys are fixed, keeps its objects
\* only while nobody runs two of its commands at a time.
THEOREM DemoObjectsAccounted ==
    ASSUME DataAssumption, Tool # "history"
    PROVE  DataSpec => []ObjectsAccounted
<1>1. CASE Tool = "review"
  <2>1. DataInit => DrawnInv
    BY DrawnInit
  <2>2. DrawnInv /\ [DataNext]_dataVars => DrawnInv'
    BY DrawnStep
  <2>3. DrawnInv => ObjectsAccounted
    BY <1>1 DEF DrawnInv, ObjectsAccounted
  <2> QED
    BY <2>1, <2>2, <2>3, PTL DEF DataSpec
<1>2. CASE Tool = "app"
  <2>1. DataInit => TrailInv
    BY TrailInit
  <2>2. TrailInv /\ [DataNext]_dataVars => TrailInv'
    BY <1>2, TrailStep
  <2>3. TrailInv => NothingForgotten
    <3>1. \A c \in Invocations : \A k \in Owed(command[c]) :
              command[c].pc # "done" /\ k \in command[c].mine \cup command[c].old
      BY DEF Owed, Pending, Holding
    <3> QED
      BY <3>1 DEF TrailInv, Accounted, NothingForgotten
  <2>4. TrailInv => ObjectsAccounted
    BY <2>3 DEF TrailInv, DrawnInv, ObjectsAccounted
  <2> QED
    BY <2>1, <2>2, <2>4, PTL DEF DataSpec
<1> QED
  BY <1>1, <1>2 DEF DataAssumption

\* app.demo never replaces or removes a generation that holds a submission,
\* also one submitted while the command waited for its lock.
THEOREM SubmittedDemoIsKept ==
    ASSUME DataAssumption, Tool = "app"
    PROVE  DataSpec => SubmissionStays
<1>1. DataInit => TrailInv
  BY TrailInit
<1>2. TrailInv /\ [DataNext]_dataVars => TrailInv'
  BY TrailStep
<1>3. TrailInv /\ [DataNext]_dataVars => [SubmittedIsKept]_dataVars
  <2> SUFFICES ASSUME TrailInv, DataNext, rows.submitted, rows'.gen # rows.gen
               PROVE  FALSE
    BY DEF SubmittedIsKept
  <2>1. rows \in RowSets
    BY DEF TrailInv, DataTypeOK
  <2>2. ~Activity /\ ~Submit
    BY <2>1 DEF Activity, Submit, RowSets
  <2>3. PICK c \in Invocations : DeleteRows(c) \/ Commit(c)
    <3>1. ASSUME NEW c \in Invocations,
                 \/ \E op \in {"seed", "reset", "revise"} : Start(c, op)
                 \/ TakeLock(c) \/ ValidateOwned(c) \/ CountCases(c) \/ Collect(c)
                 \/ Removed(c) \/ RemoveFails(c) \/ Write(c) \/ CommitFails(c)
                 \/ Undone(c) \/ Crash(c)
          PROVE  rows' = rows
      BY <3>1 DEF Start, TakeLock, ValidateOwned, CountCases, Collect, Removed,
                  RemoveFails, Write, CommitFails, Undone, Crash
    <3>2. ASSUME NEW c \in Invocations, NEW k,
                 Put(c, k) \/ PutFails(c, k) \/ Remove(c, k) \/ Undo(c, k)
          PROVE  rows' = rows
      BY <3>2 DEF Put, PutFails, Remove, Undo
    <3> QED
      BY <2>2, <3>1, <3>2 DEF DataNext
  <2>4. command[c].pc \in {"delete", "commit"}
    BY <2>3 DEF DeleteRows, Commit
  <2> QED
    BY <2>4 DEF TrailInv, LockInv, Holding
<1> QED
  BY <1>1, <1>2, <1>3, PTL DEF DataSpec, SubmissionStays

================================================================================
