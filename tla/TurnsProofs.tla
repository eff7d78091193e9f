------------------------------ MODULE TurnsProofs ------------------------------
(***************************************************************************)
(* Who waits for the rows of a case, and what a message that has had its   *)
(* turn leaves there.                                                      *)
(*                                                                         *)
(* RowLocks, for any number of requests of any kinds: a circle of waiting  *)
(* requests has a run of the rules in it, and there is none where no rules *)
(* are run.  The rows have one order, the case, its review, what is below  *)
(* it.  A request waits for one that stands before it in a queue or that   *)
(* holds a row of the rank it asks for; the latter, if it waits too, asks  *)
(* for a row of a higher rank, because its locks ascend.  So to follow the *)
(* waiting is to ascend, and nobody waits for himself.                     *)
(*                                                                         *)
(* Assistant, for any messages, sessions, slots, rounds and calls, with    *)
(* and without a language model: what is in the form is what the rows of   *)
(* messages say, and each message is there as a whole.  The number of its  *)
(* first row keeps a second message of the session waiting, so one writes  *)
(* at a time; and what one does to the form is seen by itself alone until  *)
(* its rows are committed with it.                                         *)
(***************************************************************************)
EXTENDS RowLocks, Assistant, FiniteSetTheorems, SequenceTheorems, TLAPS

\* The order of the rows.
Rank(row) == IF row = "case" THEN 1 ELSE IF row = "review" THEN 2 ELSE 3

\* What s has still to take ascends, from what it holds, but for the key of the
\* case that a run asks for last.
Ascends(s) ==
    \A i \in DOMAIN plan[s] :
        \/ plan[s][i] = KeyShare("case")
        \/ /\ \A lock \in holds[s] : Rank(lock.row) < Rank(plan[s][i].row)
           /\ \A j \in DOMAIN plan[s] :
                j < i => Rank(plan[s][j].row) < Rank(plan[s][i].row)

LocksAscend == \A s \in Sessions : Ascends(s)

\* Who stands in the queue of a row wants that row next, and stands there once.
QueuesHold ==
    \A row \in TableRows : \A n \in DOMAIN queue[row] :
        /\ plan[queue[row][n]] # <<>>
        /\ Head(plan[queue[row][n]]).row = row
        /\ \A m \in DOMAIN queue[row] : queue[row][m] = queue[row][n] => m = n

\* Only runs ask for the key of the case by itself.
KeysOfRuns ==
    "run" \notin Kinds =>
        \A s \in Sessions : \A i \in DOMAIN plan[s] : plan[s][i] # KeyShare("case")

IInv == TypeOK /\ LocksAscend /\ QueuesHold /\ KeysOfRuns

---------------------------------------------------------------------------
(* The plans *)

\* The plan of a kind of request is a sequence of locks.
LEMMA PlanType ==
    ASSUME NEW kind \in Kinds
    PROVE  Plan(kind) \in Seq(Locks)
<1>1. \A row \in TableRows : ForUpdate(row) \in Locks /\ KeyShare(row) \in Locks
  BY DEF ForUpdate, KeyShare, Locks
<1>2. {"case", "review", "request", "finding"} \subseteq TableRows
  BY DEF TableRows
<1> QED
  BY <1>1, <1>2, KindAssumption
  DEF Plan, OwnerEdit, Resubmit, SendRequest, Complete, ReviewOnly, Triage, Run

\* The plan of a kind ascends, but for the key of the case at the end of a run.
LEMMA PlanAscends ==
    ASSUME NEW kind \in Kinds, NEW i \in DOMAIN Plan(kind)
    PROVE  \/ /\ Plan(kind)[i] = KeyShare("case")
              /\ kind = "run"
           \/ \A j \in DOMAIN Plan(kind) :
                j < i => Rank(Plan(kind)[j].row) < Rank(Plan(kind)[i].row)
<1>1. CASE kind = "edit"
  BY <1>1 DEF Plan, OwnerEdit, ForUpdate, Rank
<1>2. CASE kind = "submit"
  BY <1>2 DEF Plan, Resubmit, ForUpdate, Rank
<1>3. CASE kind = "send"
  BY <1>3 DEF Plan, SendRequest, ForUpdate, Rank
<1>4. CASE kind = "complete"
  BY <1>4 DEF Plan, Complete, ForUpdate, Rank
<1>5. CASE kind = "review"
  BY <1>5 DEF Plan, ReviewOnly, ForUpdate, Rank
<1>6. CASE kind = "triage"
  BY <1>6 DEF Plan, Triage, ForUpdate, Rank
<1>7. CASE kind = "run"
  <2>1. Plan(kind) = <<ForUpdate("review"), KeyShare("case")>>
    BY <1>7 DEF Plan, Run
  <2>2. i = 1 \/ i = 2
    BY <2>1
  <2>3. CASE i = 1
    BY <2>1, <2>3
  <2>4. CASE i = 2
    BY <2>1, <2>4, <1>7
  <2> QED  BY <2>2, <2>3, <2>4
<1> QED
  BY <1>1, <1>2, <1>3, <1>4, <1>5, <1>6, <1>7, KindAssumption

\* A kind that is not a run has no key of the case in its plan.
LEMMA PlanOfOthers ==
    ASSUME NEW kind \in Kinds, kind # "run", NEW i \in DOMAIN Plan(kind)
    PROVE  Plan(kind)[i] # KeyShare("case")
<1>1. \A n \in DOMAIN Plan(kind) : Plan(kind)[n].mode = "UPDATE"
  BY KindAssumption
  DEF Plan, OwnerEdit, Resubmit, SendRequest, Complete, ReviewOnly, Triage, ForUpdate
<1>2. KeyShare("case").mode = "KEY SHARE"
  BY DEF KeyShare
<1> QED  BY <1>1, <1>2

---------------------------------------------------------------------------
(* The steps *)

\* The lock that a request asks for next.
LEMMA NextLock ==
    ASSUME TypeOK, NEW s \in Sessions, plan[s] # <<>>
    PROVE  /\ 1 \in DOMAIN plan[s] /\ Head(plan[s]) = plan[s][1]
           /\ Head(plan[s]) \in Locks /\ Head(plan[s]).row \in TableRows
<1>1. plan[s] \in Seq(Locks)
  BY DEF TypeOK
<1>2. 1 \in DOMAIN plan[s] /\ Head(plan[s]) = plan[s][1] /\ Head(plan[s]) \in Locks
  BY <1>1, HeadTailProperties
<1> QED  BY <1>2 DEF Locks

\* Nobody has taken anything at first.
LEMMA InitLocks == Init => IInv
<1> SUFFICES ASSUME Init PROVE IInv
  OBVIOUS
<1>1. TypeOK
  BY DEF Init, TypeOK
<1>2. \A s \in Sessions : DOMAIN plan[s] = {}
  BY DEF Init
<1>3. \A row \in TableRows : DOMAIN queue[row] = {}
  BY DEF Init
<1> QED
  BY <1>1, <1>2, <1>3 DEF IInv, LocksAscend, Ascends, QueuesHold, KeysOfRuns

\* A request begins: it is in no queue, and has the plan of its kind.
LEMMA BeginLocks ==
    ASSUME IInv, NEW s \in Sessions, NEW kind \in Kinds, Begin(s, kind)
    PROVE  IInv'
<1>1. plan[s] = <<>> /\ holds[s] = {}
  BY DEF Begin, Free
<1>2. plan' = [plan EXCEPT ![s] = Plan(kind)] /\ holds' = holds /\ queue' = queue
  BY DEF Begin
<1>3. plan \in [Sessions -> Seq(Locks)]
  BY DEF IInv, TypeOK
<1>4. plan'[s] = Plan(kind) /\ \A t \in Sessions : t # s => plan'[t] = plan[t]
  BY <1>2, <1>3
<1>5. TypeOK'
  BY <1>2, PlanType DEF IInv, TypeOK
<1>6. LocksAscend'
  <2>1. Ascends(s)'
    BY <1>1, <1>2, <1>4, PlanAscends DEF Ascends
  <2>2. \A t \in Sessions : t # s => Ascends(t)'
    BY <1>2, <1>4 DEF Ascends, IInv, LocksAscend
  <2> QED  BY <2>1, <2>2 DEF LocksAscend
<1>7. QueuesHold'
  <2>1. \A row \in TableRows : \A n \in DOMAIN queue[row] :
            queue[row][n] \in Sessions /\ queue[row][n] # s
    BY <1>1 DEF IInv, TypeOK, QueuesHold
  <2> QED  BY <1>2, <1>4, <2>1 DEF IInv, QueuesHold
<1>8. KeysOfRuns'
  BY <1>2, <1>4, PlanOfOthers DEF IInv, KeysOfRuns
<1> QED  BY <1>5, <1>6, <1>7, <1>8 DEF IInv

\* A request asks: it comes last in the queue of its row, and was in none.
LEMMA RequestLocks ==
    ASSUME IInv, NEW s \in Sessions, Request(s)
    PROVE  IInv'
<1> DEFINE row == Head(plan[s]).row
           q == queue[row]
<1>1. plan' = plan /\ holds' = holds /\ plan[s] # <<>> /\ ~Queued(s)
  BY DEF Request
<1>2. row \in TableRows
  BY <1>1, NextLock DEF IInv
<1>3. q \in Seq(Sessions)
  BY <1>2 DEF IInv, TypeOK
<1>4. /\ queue'[row] = Append(q, s)
      /\ \A r \in TableRows : r # row => queue'[r] = queue[r]
      /\ queue' \in [TableRows -> Seq(Sessions)]
  BY <1>2, <1>3, AppendProperties DEF Request, IInv, TypeOK
<1>5. /\ DOMAIN Append(q, s) = 1 .. Len(q) + 1
      /\ DOMAIN q = 1 .. Len(q) /\ Len(q) \in Nat
      /\ Append(q, s)[Len(q) + 1] = s
      /\ \A n \in 1 .. Len(q) : Append(q, s)[n] = q[n]
  <2> HIDE DEF row, q
  <2> QED  BY <1>3, AppendProperties
<1>6. \A n \in DOMAIN q : q[n] # s
  BY <1>1, <1>2 DEF Queued
<1>7. TypeOK'
  BY <1>1, <1>4 DEF IInv, TypeOK
<1>8. LocksAscend' /\ KeysOfRuns'
  BY <1>1 DEF IInv, LocksAscend, Ascends, KeysOfRuns
<1>9. QueuesHold'
  <2> SUFFICES ASSUME NEW r \in TableRows, NEW n \in DOMAIN queue'[r]
               PROVE  /\ plan[queue'[r][n]] # <<>>
                      /\ Head(plan[queue'[r][n]]).row = r
                      /\ \A m \in DOMAIN queue'[r] : queue'[r][m] = queue'[r][n] => m = n
    BY <1>1 DEF QueuesHold
  <2>1. CASE r # row
    BY <2>1, <1>4 DEF IInv, QueuesHold
  <2>2. CASE r = row
    <3>1. \A m \in DOMAIN q : /\ plan[q[m]] # <<>>
                              /\ Head(plan[q[m]]).row = row
                              /\ \A k \in DOMAIN q : q[k] = q[m] => k = m
      BY <1>2 DEF IInv, QueuesHold, q
    <3>2. plan[s] # <<>> /\ Head(plan[s]).row = row
      BY <1>1 DEF row
    <3>3. CASE n = Len(q) + 1
      BY <2>2, <3>2, <3>3, <1>4, <1>5, <1>6
    <3>4. CASE n \in 1 .. Len(q)
      <4> DEFINE w == Append(q, s)
      <4> HIDE DEF row, q, w
      <4>1. w[n] = q[n] /\ n \in DOMAIN q
        BY <3>4, <1>5 DEF w
      <4>2. ASSUME NEW m \in DOMAIN w, w[m] = w[n]
            PROVE  m = n
        <5>1. m = Len(q) + 1 \/ m \in DOMAIN q
          BY <1>5 DEF w
        <5>2. m # Len(q) + 1
          BY <4>1, <4>2, <1>5, <1>6 DEF w
        <5>3. w[m] = q[m]
          BY <5>1, <5>2, <1>5 DEF w
        <5> QED  BY <5>1, <5>2, <5>3, <4>1, <4>2, <3>1
      <4>3. queue'[r] = w
        BY <2>2, <1>4 DEF w
      <4> QED  BY <4>1, <4>2, <4>3, <3>1, <2>2
    <3>5. n \in 1 .. Len(q) + 1
      BY <2>2, <1>4, <1>5
    <3> QED  BY <3>3, <3>4, <3>5, <1>5
  <2> QED  BY <2>1, <2>2
<1> QED  BY <1>7, <1>8, <1>9 DEF IInv

\* A sequence without its n-th element: the others, in their order.
LEMMA WithoutOne ==
    ASSUME NEW S, NEW q \in Seq(S), NEW n \in DOMAIN q
    PROVE  /\ SubSeq(q, 1, n - 1) \o SubSeq(q, n + 1, Len(q)) \in Seq(S)
           /\ DOMAIN (SubSeq(q, 1, n - 1) \o SubSeq(q, n + 1, Len(q))) = 1 .. Len(q) - 1
           /\ \A m \in 1 .. Len(q) - 1 :
                (SubSeq(q, 1, n - 1) \o SubSeq(q, n + 1, Len(q)))[m]
                    = IF m < n THEN q[m] ELSE q[m + 1]
<1> DEFINE a == SubSeq(q, 1, n - 1)
           b == SubSeq(q, n + 1, Len(q))
<1>1. n \in 1 .. Len(q) /\ Len(q) \in Nat
  OBVIOUS
<1>2. a \in Seq(S) /\ Len(a) = n - 1 /\ \A m \in 1 .. n - 1 : a[m] = q[m]
  BY <1>1, SubSeqProperties
<1>3. /\ b \in Seq(S) /\ Len(b) = Len(q) - n
      /\ \A m \in 1 .. Len(q) - n : b[m] = q[n + m]
  BY <1>1, SubSeqProperties
<1> HIDE DEF a, b
<1>4. /\ a \o b \in Seq(S) /\ Len(a \o b) = Len(a) + Len(b)
      /\ \A m \in 1 .. Len(a) + Len(b) :
            (a \o b)[m] = IF m <= Len(a) THEN a[m] ELSE b[m - Len(a)]
  BY <1>2, <1>3, ConcatProperties
<1>5. DOMAIN (a \o b) = 1 .. Len(q) - 1
  BY <1>1, <1>2, <1>3, <1>4
<1>6. ASSUME NEW m \in 1 .. Len(q) - 1
      PROVE  (a \o b)[m] = IF m < n THEN q[m] ELSE q[m + 1]
  <2>0. m \in 1 .. Len(a) + Len(b)
    BY <1>1, <1>2, <1>3
  <2>1. CASE m < n
    <3>1. m <= Len(a) /\ m \in 1 .. n - 1
      BY <2>1, <1>1, <1>2
    <3>2. (a \o b)[m] = a[m]
      BY <2>0, <3>1, <1>4
    <3> QED  BY <2>1, <3>1, <3>2, <1>2
  <2>2. CASE ~(m < n)
    <3>1. m - (n - 1) \in 1 .. Len(q) - n /\ n + (m - (n - 1)) = m + 1
      BY <2>2, <1>1
    <3>2. (a \o b)[m] = b[m - Len(a)]
      <4>1. ~(m <= Len(a))
        BY <2>2, <1>1, <1>2
      <4> QED  BY <2>0, <4>1, <1>4
    <3>3. b[m - Len(a)] = q[m + 1]
      BY <3>1, <1>2, <1>3
    <3> QED  BY <2>2, <3>2, <3>3
  <2> QED  BY <2>1, <2>2
<1> QED  BY <1>4, <1>5, <1>6 DEF a, b

\* After s has left its queue, who is left stood in the same queue before, at most
\* one place further back, and s is in none.
LEMMA LeaveLocks ==
    ASSUME IInv, NEW s \in Sessions, Leave(s), plan[s] # <<>>
    PROVE  /\ queue' \in [TableRows -> Seq(Sessions)]
           /\ \A row \in TableRows : \A n \in DOMAIN queue'[row] :
                /\ queue'[row][n] # s
                /\ \E k \in DOMAIN queue[row] : queue'[row][n] = queue[row][k]
                /\ \A m \in DOMAIN queue'[row] : queue'[row][m] = queue'[row][n] => m = n
<1> DEFINE row == Head(plan[s]).row
           q == queue[row]
<1>1. row \in TableRows
  BY NextLock DEF IInv
<1>2. q \in Seq(Sessions)
  BY <1>1 DEF IInv, TypeOK
<1>3. PICK p \in DOMAIN q :
            /\ q[p] = s
            /\ queue' = [queue EXCEPT ![row] = SubSeq(q, 1, p - 1) \o SubSeq(q, p + 1, Len(q))]
  BY DEF Leave
<1> DEFINE w == SubSeq(q, 1, p - 1) \o SubSeq(q, p + 1, Len(q))
<1>4. \A m \in DOMAIN q : \A n \in DOMAIN q : q[m] = q[n] => m = n
  BY <1>1 DEF IInv, QueuesHold
<1>5. \A r \in TableRows : \A n \in DOMAIN queue[r] :
        /\ Head(plan[queue[r][n]]).row = r
        /\ \A m \in DOMAIN queue[r] : queue[r][m] = queue[r][n] => m = n
  BY DEF IInv, QueuesHold
<1>6. /\ w \in Seq(Sessions) /\ DOMAIN w = 1 .. Len(q) - 1
      /\ \A m \in 1 .. Len(q) - 1 : w[m] = IF m < p THEN q[m] ELSE q[m + 1]
  BY <1>2, WithoutOne
<1>7. /\ queue' \in [TableRows -> Seq(Sessions)]
      /\ queue'[row] = w
      /\ \A r \in TableRows : r # row => queue'[r] = queue[r]
  BY <1>1, <1>3, <1>6 DEF IInv, TypeOK
<1>8. p \in 1 .. Len(q) /\ DOMAIN q = 1 .. Len(q) /\ Len(q) \in Nat
  BY <1>2
<1> SUFFICES ASSUME NEW r \in TableRows, NEW n \in DOMAIN queue'[r]
             PROVE  /\ queue'[r][n] # s
                    /\ \E k \in DOMAIN queue[r] : queue'[r][n] = queue[r][k]
                    /\ \A m \in DOMAIN queue'[r] : queue'[r][m] = queue'[r][n] => m = n
  BY <1>7
<1>9. CASE r # row
  <2>1. queue'[r] = queue[r]
    BY <1>7, <1>9
  <2>2. queue[r][n] # s
    BY <2>1, <1>5, <1>9
  <2> QED  BY <2>1, <2>2, <1>5
<1>10. CASE r = row
  <2>1. q[p] = s
    BY <1>3
  <2> HIDE DEF w, q
  <2>2. n \in 1 .. Len(q) - 1
    BY <1>6, <1>7, <1>10
  <2> DEFINE k == IF n < p THEN n ELSE n + 1
  <2>3. k \in DOMAIN q /\ k # p /\ w[n] = q[k]
    BY <2>2, <1>6, <1>8
  <2>4. ASSUME NEW m \in DOMAIN w, w[m] = w[n]
        PROVE  m = n
    <3> DEFINE l == IF m < p THEN m ELSE m + 1
    <3>1. m \in 1 .. Len(q) - 1
      BY <1>6
    <3>2. l \in DOMAIN q /\ w[m] = q[l]
      BY <3>1, <1>6, <1>8
    <3>3. l = k
      BY <3>2, <2>3, <2>4, <1>4
    <3> QED  BY <3>1, <3>3, <2>2, <1>8
  <2>5. q[k] # s
    BY <2>1, <2>3, <1>4
  <2>6. /\ w[n] # s
        /\ \E j \in DOMAIN q : w[n] = q[j]
        /\ \A m \in DOMAIN w : w[m] = w[n] => m = n
    BY <2>3, <2>4, <2>5
  <2> QED  BY <2>6, <1>7, <1>10 DEF q
<1> QED  BY <1>9, <1>10

\* A lock is granted: it was the lowest that was left.
LEMMA GrantLocks ==
    ASSUME IInv, NEW s \in Sessions, Grant(s)
    PROVE  IInv'
<1>1. PICK row \in TableRows : \E k \in DOMAIN queue[row] : queue[row][k] = s
  BY DEF Grant, Queued
<1>2. plan[s] # <<>>
  BY <1>1 DEF IInv, QueuesHold
<1> DEFINE old == plan[s]
           rest == Tail(old)
<1>3. /\ old \in Seq(Locks) /\ Head(old) = old[1] /\ Head(old) \in Locks
      /\ rest \in Seq(Locks) /\ Len(rest) = Len(old) - 1
      /\ \A i \in 1 .. Len(rest) : rest[i] = old[i + 1]
  BY <1>2, HeadTailProperties DEF IInv, TypeOK
<1>4. /\ plan' = [plan EXCEPT ![s] = rest]
      /\ holds' = [holds EXCEPT ![s] = holds[s] \cup {Head(old)}]
  BY DEF Grant
<1>5. /\ plan'[s] = rest /\ holds'[s] = holds[s] \cup {Head(old)}
      /\ \A t \in Sessions : t # s => plan'[t] = plan[t] /\ holds'[t] = holds[t]
  BY <1>4 DEF IInv, TypeOK
<1>6. /\ queue' \in [TableRows -> Seq(Sessions)]
      /\ \A r \in TableRows : \A n \in DOMAIN queue'[r] :
            /\ queue'[r][n] # s
            /\ \E j \in DOMAIN queue[r] : queue'[r][n] = queue[r][j]
            /\ \A m \in DOMAIN queue'[r] : queue'[r][m] = queue'[r][n] => m = n
  BY <1>2, LeaveLocks DEF Grant
<1> HIDE DEF old, rest
<1>7. TypeOK'
  <2>1. holds \in [Sessions -> SUBSET Locks] /\ plan \in [Sessions -> Seq(Locks)]
    BY DEF IInv, TypeOK
  <2> QED  BY <2>1, <1>3, <1>4, <1>6 DEF TypeOK
<1>8. LocksAscend'
  <2>1. Ascends(s)'
    <3> SUFFICES ASSUME NEW i \in DOMAIN rest, rest[i] # KeyShare("case")
                 PROVE  /\ \A lock \in holds[s] \cup {Head(old)} :
                              Rank(lock.row) < Rank(rest[i].row)
                        /\ \A j \in DOMAIN rest :
                              j < i => Rank(rest[j].row) < Rank(rest[i].row)
      BY <1>5 DEF Ascends
    <3>1. /\ i \in 1 .. Len(rest) /\ i + 1 \in DOMAIN old /\ 1 \in DOMAIN old
          /\ DOMAIN rest = 1 .. Len(rest) /\ Len(rest) \in Nat
      BY <1>3
    <3>2. /\ \A lock \in holds[s] : Rank(lock.row) < Rank(old[i + 1].row)
          /\ \A j \in DOMAIN old : j < i + 1 => Rank(old[j].row) < Rank(old[i + 1].row)
      BY <3>1, <1>3 DEF IInv, LocksAscend, Ascends, old
    <3>3. rest[i] = old[i + 1]
      BY <3>1, <1>3
    <3>4. Rank(Head(old).row) < Rank(rest[i].row)
      BY <3>1, <3>2, <3>3, <1>3
    <3>5. ASSUME NEW j \in DOMAIN rest, j < i
          PROVE  Rank(rest[j].row) < Rank(rest[i].row)
      <4>1. j + 1 \in DOMAIN old /\ j + 1 < i + 1 /\ rest[j] = old[j + 1]
        BY <3>1, <3>5, <1>3
      <4> QED  BY <4>1, <3>2, <3>3
    <3> QED  BY <3>2, <3>3, <3>4, <3>5
  <2>2. \A t \in Sessions : t # s => Ascends(t)'
    BY <1>5 DEF Ascends, IInv, LocksAscend
  <2> QED  BY <2>1, <2>2 DEF LocksAscend
<1>9. QueuesHold'
  <2>1. \A r \in TableRows : \A n \in DOMAIN queue[r] :
            /\ queue[r][n] \in Sessions
            /\ plan[queue[r][n]] # <<>>
            /\ Head(plan[queue[r][n]]).row = r
    BY DEF IInv, QueuesHold, TypeOK
  <2> QED  BY <2>1, <1>5, <1>6 DEF QueuesHold
<1>10. KeysOfRuns'
  <2> SUFFICES ASSUME "run" \notin Kinds, NEW t \in Sessions, NEW i \in DOMAIN plan'[t]
               PROVE  plan'[t][i] # KeyShare("case")
    BY DEF KeysOfRuns
  <2>1. \A u \in Sessions : \A j \in DOMAIN plan[u] : plan[u][j] # KeyShare("case")
    BY DEF IInv, KeysOfRuns
  <2>2. CASE t # s
    BY <2>1, <2>2, <1>5
  <2>3. CASE t = s
    <3>1. i \in 1 .. Len(rest) /\ i + 1 \in DOMAIN old
      BY <2>3, <1>3, <1>5
    <3> QED  BY <2>1, <2>3, <3>1, <1>3, <1>5 DEF old
  <2> QED  BY <2>2, <2>3
<1> QED  BY <1>7, <1>8, <1>9, <1>10 DEF IInv

\* A request that is over has no plan, holds nothing, and is in no queue.
LEMMA OverLocks ==
    ASSUME IInv, NEW s \in Sessions,
           plan' = [plan EXCEPT ![s] = <<>>], holds' = [holds EXCEPT ![s] = {}],
           queue' \in [TableRows -> Seq(Sessions)],
           \A r \in TableRows : \A n \in DOMAIN queue'[r] :
                /\ queue'[r][n] # s
                /\ \E j \in DOMAIN queue[r] : queue'[r][n] = queue[r][j]
                /\ \A m \in DOMAIN queue'[r] : queue'[r][m] = queue'[r][n] => m = n
    PROVE  IInv'
<1>1. /\ plan'[s] = <<>> /\ holds'[s] = {}
      /\ \A t \in Sessions : t # s => plan'[t] = plan[t] /\ holds'[t] = holds[t]
  BY DEF IInv, TypeOK
<1>2. TypeOK'
  BY DEF IInv, TypeOK
<1>3. DOMAIN plan'[s] = {}
  BY <1>1
<1>4. LocksAscend'
  BY <1>1, <1>3 DEF IInv, LocksAscend, Ascends
<1>5. QueuesHold'
  <2>1. \A r \in TableRows : \A n \in DOMAIN queue[r] :
            /\ queue[r][n] \in Sessions
            /\ plan[queue[r][n]] # <<>>
            /\ Head(plan[queue[r][n]]).row = r
    BY DEF IInv, QueuesHold, TypeOK
  <2> QED  BY <2>1, <1>1 DEF QueuesHold
<1>6. KeysOfRuns'
  BY <1>1, <1>3 DEF IInv, KeysOfRuns
<1> QED  BY <1>2, <1>4, <1>5, <1>6 DEF IInv

\* A transaction ends, by itself or killed.
LEMMA EndLocks ==
    ASSUME IInv, NEW s \in Sessions, End(s) \/ Abort(s)
    PROVE  IInv'
<1>1. CASE End(s)
  <2>1. queue' = queue /\ queue \in [TableRows -> Seq(Sessions)]
    BY <1>1 DEF End, IInv, TypeOK
  <2>2. \A r \in TableRows : \A n \in DOMAIN queue[r] :
            /\ queue[r][n] # s
            /\ \A m \in DOMAIN queue[r] : queue[r][m] = queue[r][n] => m = n
    BY <1>1 DEF End, Queued, IInv, QueuesHold
  <2> QED  BY <1>1, <2>1, <2>2, OverLocks DEF End
<1>2. CASE Abort(s)
  <2>1. plan[s] # <<>>
    BY <1>2 DEF Abort, InCircle, Queued, IInv, QueuesHold
  <2>2. /\ queue' \in [TableRows -> Seq(Sessions)]
        /\ \A r \in TableRows : \A n \in DOMAIN queue'[r] :
              /\ queue'[r][n] # s
              /\ \E j \in DOMAIN queue[r] : queue'[r][n] = queue[r][j]
              /\ \A m \in DOMAIN queue'[r] : queue'[r][m] = queue'[r][n] => m = n
    BY <1>2, <2>1, LeaveLocks DEF Abort
  <2> QED  BY <1>2, <2>2, OverLocks DEF Abort
<1> QED  BY <1>1, <1>2

\* The invariant is inductive.
LEMMA LocksKept == IInv /\ [Next]_vars => IInv'
<1> SUFFICES ASSUME IInv, [Next]_vars PROVE IInv'
  OBVIOUS
<1>1. CASE Next
  <2>1. PICK s \in Sessions : (\E kind \in Kinds : Begin(s, kind)) \/ Proceed(s) \/ Abort(s)
    BY <1>1 DEF Next
  <2>2. CASE \E kind \in Kinds : Begin(s, kind)
    BY <2>2, BeginLocks
  <2>3. CASE Request(s)
    BY <2>3, RequestLocks
  <2>4. CASE Grant(s)
    BY <2>4, GrantLocks
  <2>5. CASE End(s) \/ Abort(s)
    BY <2>5, EndLocks
  <2> QED  BY <2>1, <2>2, <2>3, <2>4, <2>5 DEF Proceed
<1>2. CASE UNCHANGED vars
  BY <1>2 DEF vars, IInv, TypeOK, LocksAscend, Ascends, QueuesHold, KeysOfRuns
<1> QED  BY <1>1, <1>2

---------------------------------------------------------------------------
(* Circles *)

\* Those that s reaches have with them those that they wait for.
LEMMA ReachIsClosed ==
    ASSUME NEW s \in Sessions
    PROVE  WaitsFor(s) \subseteq Reaches(s) /\ Closed(Reaches(s))
<1>1. \A t : WaitsFor(t) \subseteq Sessions
  BY DEF WaitsFor, Blockers, Holders, Ahead
<1>2. WaitsFor(s) \subseteq Reaches(s)
  BY <1>1 DEF Reaches
<1>3. ASSUME NEW t \in Reaches(s), NEW u \in WaitsFor(t)
      PROVE  u \in Reaches(s)
  <2> SUFFICES ASSUME NEW C \in SUBSET Sessions, WaitsFor(s) \subseteq C, Closed(C)
               PROVE  u \in C
    BY <1>1 DEF Reaches
  <2>1. t \in C
    BY DEF Reaches
  <2> QED  BY <2>1, <1>3 DEF Closed
<1> QED  BY <1>2, <1>3 DEF Closed

\* Who is reached by one that s reaches is reached by s.
LEMMA ReachIsTransitive ==
    ASSUME NEW s \in Sessions, NEW t \in Sessions,
           t \in Reaches(s) \/ t \in WaitsFor(s)
    PROVE  Reaches(t) \subseteq Reaches(s)
<1>1. t \in Reaches(s)
  BY ReachIsClosed
<1>2. WaitsFor(t) \subseteq Reaches(s) /\ Closed(Reaches(s))
  BY <1>1, ReachIsClosed DEF Closed
<1>3. Reaches(s) \in SUBSET Sessions
  BY DEF Reaches
<1> QED  BY <1>2, <1>3 DEF Reaches

\* Only who waits reaches anyone.
LEMMA WhoReachesWaits ==
    ASSUME NEW s \in Sessions, NEW t \in Reaches(s)
    PROVE  Queued(s)
<1>1. CASE WaitsFor(s) = {}
  <2>1. {} \in SUBSET Sessions /\ Closed({})
    BY DEF Closed
  <2> QED  BY <1>1, <2>1 DEF Reaches
<1> QED  BY <1>1 DEF WaitsFor

\* The rank of the row that s asks for.
AsksFor(s) == Rank(Head(plan[s]).row)

\* t stands before s in a queue.
Before(t, s) ==
    \E row \in TableRows : \E m, n \in DOMAIN queue[row] :
        m < n /\ queue[row][m] = t /\ queue[row][n] = s

\* To wait is to ascend, or to step forward in a queue.
Above(t, s) == AsksFor(t) > AsksFor(s) \/ (AsksFor(t) = AsksFor(s) /\ Before(t, s))

\* Above is an order.
LEMMA AboveIsOrder ==
    ASSUME IInv, NEW a, NEW b, NEW c
    PROVE  /\ ~Above(a, a)
           /\ Above(c, b) /\ Above(b, a) => Above(c, a)
<1>1. \A t : AsksFor(t) \in Int
  BY DEF AsksFor, Rank
<1>2. \A row \in TableRows : DOMAIN queue[row] \subseteq Int
  BY DEF IInv, TypeOK
<1>3. ~Before(a, a)
  BY <1>2 DEF Before, IInv, QueuesHold
<1>4. Before(c, b) /\ Before(b, a) => Before(c, a)
  <2> SUFFICES ASSUME Before(c, b), Before(b, a) PROVE Before(c, a)
    OBVIOUS
  <2>0. PICK r1 \in TableRows, r2 \in TableRows :
            /\ \E m, n \in DOMAIN queue[r1] : m < n /\ queue[r1][m] = c /\ queue[r1][n] = b
            /\ \E m, n \in DOMAIN queue[r2] : m < n /\ queue[r2][m] = b /\ queue[r2][n] = a
    BY DEF Before
  <2>1. PICK m1 \in DOMAIN queue[r1], n1 \in DOMAIN queue[r1] :
            m1 < n1 /\ queue[r1][m1] = c /\ queue[r1][n1] = b
    BY <2>0
  <2>2. PICK m2 \in DOMAIN queue[r2], n2 \in DOMAIN queue[r2] :
            m2 < n2 /\ queue[r2][m2] = b /\ queue[r2][n2] = a
    BY <2>0
  <2>3. r1 = r2 /\ n1 = m2
    BY <2>1, <2>2 DEF IInv, QueuesHold
  <2>4. m1 < n2
    BY <2>1, <2>2, <2>3, <1>2
  <2> QED  BY <2>1, <2>2, <2>3, <2>4 DEF Before
<1> QED  BY <1>1, <1>3, <1>4 DEF Above

\* Who waits for one that waits too, and not for the key of the case, is below it.
LEMMA WaitingAscends ==
    ASSUME IInv, NEW s \in Sessions, NEW t \in WaitsFor(s), Queued(t),
           Head(plan[t]) # KeyShare("case")
    PROVE  Above(t, s)
<1>1. Queued(s) /\ t \in Blockers(s) /\ t \in Sessions
  BY DEF WaitsFor, Blockers, Holders, Ahead
<1>2. plan[s] # <<>> /\ plan[t] # <<>>
  BY <1>1 DEF Queued, IInv, QueuesHold
<1>3. \A u \in Sessions : plan[u] # <<>> =>
        /\ 1 \in DOMAIN plan[u] /\ Head(plan[u]) = plan[u][1]
        /\ Head(plan[u]).row \in TableRows
  BY NextLock DEF IInv
<1>4. CASE t \in Holders(s)
  <2>1. PICK lock \in holds[t] : lock.row = Head(plan[s]).row
    BY <1>4 DEF Holders, Conflict
  <2>2. Rank(lock.row) < Rank(Head(plan[t]).row)
    BY <1>1, <1>2, <1>3 DEF IInv, LocksAscend, Ascends
  <2> QED  BY <2>1, <2>2 DEF Above, AsksFor, Rank
<1>5. CASE t \in Ahead(s)
  <2> DEFINE row == Head(plan[s]).row
  <2>1. PICK m \in DOMAIN queue[row], n \in DOMAIN queue[row] :
            m < n /\ queue[row][m] = t /\ queue[row][n] = s
    BY <1>5 DEF Ahead
  <2>2. row \in TableRows
    BY <1>1, <1>2, <1>3
  <2>3. Head(plan[t]).row = row
    BY <2>1, <2>2 DEF IInv, QueuesHold
  <2>4. Before(t, s)
    BY <2>1, <2>2 DEF Before
  <2> QED  BY <2>3, <2>4 DEF Above, AsksFor
<1> QED  BY <1>1, <1>4, <1>5 DEF Blockers

\* A circle has one in it that waits for the key of the case: else the waiting
\* ascends all the way round, from s to s.
LEMMA CircleNeedsKey ==
    ASSUME IInv, NEW s \in Sessions, InCircle(s),
           \A t \in Sessions : InCircle(t) => Head(plan[t]) # KeyShare("case")
    PROVE  FALSE
<1> DEFINE Round(t) == s \in Reaches(t)
           C == {t \in Reaches(s) : Round(t) => Above(t, s)}
<1>1. ASSUME NEW t \in Reaches(s), Round(t)
      PROVE  InCircle(t) /\ t \in Sessions
  <2>1. t \in Sessions
    BY DEF Reaches
  <2>2. Reaches(s) \subseteq Reaches(t)
    BY <1>1, <2>1, ReachIsTransitive
  <2>3. Queued(t)
    BY <1>1, <2>1, WhoReachesWaits
  <2> QED  BY <2>1, <2>2, <2>3 DEF InCircle
<1>2. ASSUME NEW u \in Sessions, NEW t \in WaitsFor(u), t \in Reaches(s), Round(t)
      PROVE  Above(t, u)
  <2>1. InCircle(t) /\ t \in Sessions
    BY <1>1, <1>2
  <2>2. Queued(t) /\ Head(plan[t]) # KeyShare("case")
    BY <2>1 DEF InCircle
  <2> QED  BY <2>2, WaitingAscends
<1>3. C \in SUBSET Sessions
  BY DEF Reaches
<1>4. WaitsFor(s) \subseteq C
  BY <1>2, ReachIsClosed
<1>5. Closed(C)
  <2> SUFFICES ASSUME NEW u \in C, NEW t \in WaitsFor(u), Round(t)
               PROVE  t \in Reaches(s) /\ Above(t, s)
    BY ReachIsClosed DEF Closed
  <2>1. u \in Sessions /\ u \in Reaches(s)
    BY DEF Reaches
  <2>2. t \in Reaches(s) /\ t \in Sessions
    BY <2>1, ReachIsClosed DEF Closed, Reaches
  <2>3. Round(u)
    BY <2>1, <2>2, ReachIsTransitive
  <2>4. Above(u, s)
    BY <2>3
  <2>5. Above(t, u)
    BY <1>2, <2>1, <2>2
  <2> QED  BY <2>2, <2>4, <2>5, AboveIsOrder
<1>6. s \in C
  BY <1>3, <1>4, <1>5 DEF InCircle, Reaches
<1>7. Round(s)
  BY DEF InCircle
<1> QED  BY <1>6, <1>7, AboveIsOrder

---------------------------------------------------------------------------

\* The parts of a request's locks, and who stands in which queue, are as the code
\* takes them, whatever requests begin, end, fail or are killed.
THEOREM LocksHold == Spec => []IInv
  BY InitLocks, LocksKept, PTL DEF Spec

\* Wherever requests wait for each other in a circle, one of them locked the review
\* first and needs the key of the case, which is what create_run does: no other
\* two requests of the code can kill each other's transaction.
THEOREM OnlyRunsCloseCircles == Spec => []OnlyRunsDeadlock
<1>1. IInv => OnlyRunsDeadlock
  BY CircleNeedsKey DEF OnlyRunsDeadlock
<1> QED  BY <1>1, LocksHold, PTL

\* Where no rules are run there is no deadlock, whatever the requests and however
\* many there are.
THEOREM OthersNeverDeadlock ==
    ASSUME "run" \notin Kinds
    PROVE  Spec => []NoDeadlock
<1>1. IInv => NoDeadlock
  <2> SUFFICES ASSUME IInv, NEW s \in Sessions, InCircle(s)
               PROVE  FALSE
    BY DEF NoDeadlock
  <2>1. ASSUME NEW t \in Sessions, InCircle(t)
        PROVE  Head(plan[t]) # KeyShare("case")
    <3>1. plan[t] # <<>>
      BY <2>1 DEF InCircle, Queued, IInv, QueuesHold
    <3>2. 1 \in DOMAIN plan[t] /\ Head(plan[t]) = plan[t][1]
      BY <3>1, NextLock DEF IInv
    <3> QED  BY <3>2 DEF IInv, KeysOfRuns
  <2> QED  BY <2>1, CircleNeedsKey
<1> QED  BY <1>1, LocksHold, PTL

---------------------------------------------------------------------------
(* The messages of the assistant *)

\* Rows are numbered from 1 on, each number once.
Numbered(P) ==
    /\ P \subseteq Row
    /\ NextNo(P) \in Nat \ {0}
    /\ {r.no : r \in P} = 1 .. NextNo(P) - 1
    /\ \A q, r \in P : q.no = r.no => q = r

\* Row r may come after row q.
Follows(q, r) ==
    /\ (r.role = "USER") = (q.role = "ASSISTANT")
    /\ q.role # "ASSISTANT" => r.message = q.message

\* Rows of a session, one message after another.
Thread(P) ==
    /\ Numbered(P)
    /\ \A r \in P : /\ r.no = 1 => r.role = "USER"
                    /\ \A q \in P : r.no = q.no + 1 => Follows(q, r)

\* The last message has its reply.
Answered(P) == \A r \in P : r.no = NextNo(P) - 1 => r.role = "ASSISTANT"

\* The last row is of message m, which has no reply yet.
Unanswered(P, m) ==
    \E r \in P : r.no = NextNo(P) - 1 /\ r.role # "ASSISTANT" /\ r.message = m

\* The message has written its first row.
Live(s) == tx[s].phase \in {"ASKING", "CALLING"}

\* A transaction.
Turns ==
    [phase : {"IDLE", "NUMBERED", "ASKING", "CALLING"}, message : Messages \cup {Unset},
     number : Nat, time : Nat, rows : SUBSET Row, round : Nat, calls : Seq(Tools),
     done : SUBSET Operation, applied : BOOLEAN, checked : BOOLEAN]

\* The variables of the messages have their types.
ChatTyped ==
    /\ holder \in Slots \cup {Unset}
    /\ rows \in [Chats -> SUBSET Row]
    /\ tx \in [Slots -> Turns]
    /\ sent \in Nat
    /\ \A s \in Slots : tx[s].phase # "IDLE" => tx[s].message \in Messages

\* The number a message has read is that of a row there is or of the next one.
NumbersRead ==
    \A s \in Slots :
        /\ tx[s].phase # "IDLE" => tx[s].number \in 1 .. NextNo(rows[Here(s)])
        /\ ~Live(s) => tx[s].rows = {}

\* What is committed are whole messages; one message of a session is under way
\* at most, its rows come next and are its own.
ThreadsHold ==
    /\ \A c \in Chats : Thread(rows[c]) /\ Answered(rows[c])
    /\ \A s \in Slots : Live(s) =>
           /\ Thread(Seen(s, Here(s))) /\ Unanswered(Seen(s, Here(s)), tx[s].message)
           /\ \E r \in tx[s].rows : r.no = NextNo(rows[Here(s)])
           /\ \A r \in tx[s].rows : r.message = tx[s].message
    /\ \A s, t \in Slots : Live(s) /\ Live(t) /\ Here(s) = Here(t) => s = t

---------------------------------------------------------------------------
(* Rows *)

\* After the numbers 1 to k comes k + 1.
LEMMA NextOf ==
    ASSUME NEW P, NEW k \in Nat, {r.no : r \in P} = 1 .. k
    PROVE  NextNo(P) = k + 1
<1> DEFINE S == {0} \cup {r.no : r \in P}
<1>1. S = 0 .. k
  OBVIOUS
<1>2. \A x \in S : (\A y \in S : x >= y) <=> x = k
  BY <1>1
<1>3. k \in S
  BY <1>1
<1>4. Max(S) = k
  <2> HIDE DEF S
  <2> QED  BY <1>2, <1>3 DEF Max
<1> QED  BY <1>4 DEF NextNo

\* A row that follows the last one leaves rows of a session.
LEMMA Extended ==
    ASSUME NEW P, Thread(P), NEW row \in Row, row.no = NextNo(P),
           NextNo(P) = 1 => row.role = "USER",
           \A q \in P : q.no = NextNo(P) - 1 => Follows(q, row)
    PROVE  /\ Thread(P \cup {row})
           /\ NextNo(P \cup {row}) = NextNo(P) + 1
<1> DEFINE n == NextNo(P)
           Q == P \cup {row}
<1>1. n \in Nat \ {0} /\ P \subseteq Row /\ {r.no : r \in P} = 1 .. n - 1
  BY DEF Thread, Numbered
<1>2. {r.no : r \in Q} = {r.no : r \in P} \cup {row.no}
  OBVIOUS
<1>3. {r.no : r \in Q} = 1 .. n
  BY <1>1, <1>2
<1>4. NextNo(Q) = n + 1
  BY <1>1, <1>3, NextOf
<1>5. \A r \in P : r.no \in 1 .. n - 1
  BY <1>1
<1>6. \A q, r \in Q : q.no = r.no => q = r
  BY <1>5, <1>1 DEF Thread, Numbered
<1>7. Numbered(Q)
  <2>1. Q \subseteq Row
    BY <1>1
  <2>2. NextNo(Q) \in Nat \ {0} /\ NextNo(Q) - 1 = n
    BY <1>1, <1>4
  <2> HIDE DEF Q, n
  <2> QED  BY <2>1, <2>2, <1>3, <1>6 DEF Numbered
<1>8. ASSUME NEW r \in Q
      PROVE  /\ r.no = 1 => r.role = "USER"
             /\ \A q \in Q : r.no = q.no + 1 => Follows(q, r)
  <2>1. CASE r \in P
    <3>1. \A q \in Q : r.no = q.no + 1 => q \in P
      BY <2>1, <1>5, <1>1
    <3> QED  BY <2>1, <3>1 DEF Thread
  <2>2. CASE r = row
    <3>1. \A q \in Q : r.no = q.no + 1 => q \in P /\ q.no = n - 1
      BY <2>2, <1>5, <1>1
    <3> QED  BY <2>2, <3>1, <1>1
  <2> QED  BY <2>1, <2>2
<1> QED  BY <1>4, <1>7, <1>8 DEF Thread

\* No rows are rows of a session, too.
LEMMA NoRows == Thread({}) /\ Answered({}) /\ NextNo({}) = 1
<1>1. {r.no : r \in {}} = 1 .. 0
  OBVIOUS
<1>2. NextNo({}) = 1
  <2>1. 0 \in Nat /\ 0 + 1 = 1
    OBVIOUS
  <2> QED  BY <1>1, <2>1, NextOf
<1>3. {r.no : r \in {}} = 1 .. NextNo({}) - 1
  BY <1>1, <1>2
<1>4. Numbered({})
  BY <1>2, <1>3 DEF Numbered
<1> QED  BY <1>2, <1>4 DEF Thread, Answered

\* There are as many rows as numbers.
LEMMA Counted ==
    ASSUME NEW P, Numbered(P)
    PROVE  Cardinality(P) = NextNo(P) - 1
<1> DEFINE k == NextNo(P) - 1
           f == [n \in 1 .. k |-> CHOOSE r \in P : r.no = n]
<1>1. k \in Nat /\ {r.no : r \in P} = 1 .. k
  BY DEF Numbered
<1>2. \A q, r \in P : q.no = r.no => q = r
  BY DEF Numbered
<1> HIDE DEF k
<1>3. \A n \in 1 .. k : f[n] \in P /\ f[n].no = n
  BY <1>1
<1>4. \A r \in P : r.no \in 1 .. k /\ f[r.no] = r
  BY <1>1, <1>2, <1>3
<1> HIDE DEF f
<1>5. f \in [1 .. k -> P]
  BY <1>3 DEF f
<1>6. f \in Bijection(1 .. k, P)
  BY <1>3, <1>4, <1>5 DEF Bijection, Injection, Surjection, IsInjective
<1>7. ExistsBijection(1 .. k, P)
  BY <1>6 DEF ExistsBijection
<1> QED  BY <1>1, <1>7, FS_CountingElements DEF k

\* The committed rows of each session are whole messages.
LEMMA ThreadsAreWhole == ThreadsHold => BlocksWhole
<1> SUFFICES ASSUME ThreadsHold, NEW c \in Chats
             PROVE  LET k == Cardinality(rows[c])
                    IN /\ {r.no : r \in rows[c]} = 1 .. k
                       /\ \A n \in 1 .. k :
                            /\ (RowNo(c, n).role = "USER")
                                   = (n = 1 \/ RowNo(c, n - 1).role = "ASSISTANT")
                            /\ ~(n = 1 \/ RowNo(c, n - 1).role = "ASSISTANT") =>
                                   RowNo(c, n).message = RowNo(c, n - 1).message
                            /\ n = k => RowNo(c, n).role = "ASSISTANT"
  BY DEF BlocksWhole
<1> DEFINE P == rows[c]
           k == NextNo(P) - 1
<1>1. Thread(P) /\ Answered(P)
  BY DEF ThreadsHold
<1>2. k \in Nat /\ {r.no : r \in P} = 1 .. k
  BY <1>1 DEF Thread, Numbered
<1>3. Cardinality(P) = k
  BY <1>1, Counted DEF Thread
<1> HIDE DEF k
<1>4. \A n \in 1 .. k : RowNo(c, n) \in P /\ RowNo(c, n).no = n
  BY <1>2 DEF RowNo
<1>5. ASSUME NEW n \in 1 .. k
      PROVE  /\ (RowNo(c, n).role = "USER")
                    = (n = 1 \/ RowNo(c, n - 1).role = "ASSISTANT")
             /\ ~(n = 1 \/ RowNo(c, n - 1).role = "ASSISTANT") =>
                    RowNo(c, n).message = RowNo(c, n - 1).message
             /\ n = k => RowNo(c, n).role = "ASSISTANT"
  <2>1. RowNo(c, n) \in P /\ RowNo(c, n).no = n
    BY <1>4
  <2>2. n = k => RowNo(c, n).role = "ASSISTANT"
    BY <1>1, <2>1 DEF Answered, k
  <2>3. CASE n = 1
    BY <1>1, <2>1, <2>2, <2>3 DEF Thread
  <2>4. CASE n # 1
    <3>1. n - 1 \in 1 .. k /\ n = (n - 1) + 1
      BY <1>2, <2>4
    <3>2. RowNo(c, n - 1) \in P /\ RowNo(c, n - 1).no = n - 1
      BY <1>4, <3>1
    <3>3. Follows(RowNo(c, n - 1), RowNo(c, n))
      BY <1>1, <2>1, <3>1, <3>2 DEF Thread
    <3> QED  BY <2>2, <2>4, <3>3 DEF Follows
  <2> QED  BY <2>3, <2>4
<1> QED  BY <1>2, <1>3, <1>5

\* The rows, whatever becomes of the case.
RowsInv == ChatTyped /\ NumbersRead /\ ThreadsHold

\* What a transaction goes on with when a row is not written or taken away.
LEMMA SameRows ==
    ASSUME RowsInv, rows' = rows, tx' \in [Slots -> Turns], holder' \in Slots \cup {Unset},
           sent' = sent,
           \A t \in Slots :
               \/ tx'[t] = tx[t]
               \/ /\ Live(t) /\ Live(t)'
                  /\ tx'[t].message = tx[t].message /\ tx'[t].rows = tx[t].rows
                  /\ tx'[t].number = tx[t].number
    PROVE  RowsInv'
<1>1. \A t \in Slots : /\ tx'[t].message = tx[t].message /\ tx'[t].rows = tx[t].rows
                       /\ tx'[t].number = tx[t].number /\ Live(t)' = Live(t)
                       /\ (tx'[t].phase = "IDLE") = (tx[t].phase = "IDLE")
  BY DEF Live
<1>2. \A t \in Slots : Here(t)' = Here(t) /\ Seen(t, Here(t))' = Seen(t, Here(t))
  BY <1>1 DEF Here, Asked, Seen
<1>3. ChatTyped'
  BY <1>1 DEF RowsInv, ChatTyped
<1>4. NumbersRead'
  BY <1>1, <1>2 DEF RowsInv, NumbersRead
<1>5. ThreadsHold'
  BY <1>1, <1>2 DEF RowsInv, ThreadsHold
<1> QED  BY <1>3, <1>4, <1>5 DEF RowsInv

\* A transaction that ends without a commit.
LEMMA EndRows ==
    ASSUME AssistantAssumption, RowsInv, NEW s \in Slots, tx' = [tx EXCEPT ![s] = Idle],
           rows' = rows, holder' \in Slots \cup {Unset}, sent' = sent
    PROVE  RowsInv'
<1>1. /\ tx'[s].phase = "IDLE" /\ tx'[s].rows = {} /\ ~Live(s)'
      /\ \A t \in Slots \ {s} : tx'[t] = tx[t]
  BY DEF RowsInv, ChatTyped, Idle, Live
<1>2. Idle \in Turns
  BY DEF Idle, Turns
<1>3. ChatTyped'
  BY <1>1, <1>2 DEF RowsInv, ChatTyped
<1>4. \A t \in Slots \ {s} : /\ Here(t)' = Here(t) /\ Seen(t, Here(t))' = Seen(t, Here(t))
                             /\ Live(t)' = Live(t)
  BY <1>1 DEF Here, Asked, Seen, Live
<1>5. NumbersRead'
  BY <1>1, <1>4 DEF RowsInv, NumbersRead
<1>6. ThreadsHold'
  BY <1>1, <1>4 DEF RowsInv, ThreadsHold
<1> QED  BY <1>3, <1>5, <1>6 DEF RowsInv

\* A message that is sent reads the number of the next row.
LEMMA SendRows ==
    ASSUME AssistantAssumption, RowsInv, NEW s \in Slots, NEW m \in Messages, Send(s, m)
    PROVE  RowsInv'
<1> DEFINE turn == [Idle EXCEPT !.phase = "NUMBERED", !.message = m, !.time = sent + 1,
                                !.number = NextNo(rows[Ask[m].session])]
<1>1. /\ tx' = [tx EXCEPT ![s] = turn] /\ rows' = rows /\ holder' = holder /\ sent' = sent + 1
      /\ tx[s].phase = "IDLE"
  BY DEF Send
<1>2. Ask[m].session \in Chats
  BY DEF AssistantAssumption, Asks
<1>3. NextNo(rows[Ask[m].session]) \in Nat \ {0}
  BY <1>2 DEF RowsInv, ThreadsHold, Thread, Numbered
<1>4. /\ turn \in Turns /\ turn.phase = "NUMBERED" /\ turn.message = m /\ turn.rows = {}
      /\ turn.number = NextNo(rows[Ask[m].session])
  <2>1. Idle \in Turns /\ Idle.rows = {}
    BY DEF Idle, Turns
  <2>2. sent + 1 \in Nat
    BY DEF RowsInv, ChatTyped
  <2> QED  BY <1>3, <2>1, <2>2 DEF Turns
<1> HIDE DEF turn
<1>5. /\ tx'[s] = turn /\ ~Live(s)' /\ Here(s)' = Ask[m].session
      /\ \A t \in Slots \ {s} : tx'[t] = tx[t]
  BY <1>1, <1>4 DEF RowsInv, ChatTyped, Live, Here, Asked
<1>6. \A t \in Slots \ {s} : /\ Here(t)' = Here(t) /\ Seen(t, Here(t))' = Seen(t, Here(t))
                             /\ Live(t)' = Live(t)
  BY <1>1, <1>5 DEF Here, Asked, Seen, Live
<1>7. ChatTyped'
  BY <1>1, <1>4, <1>5 DEF RowsInv, ChatTyped
<1>8. NumbersRead'
  BY <1>1, <1>3, <1>4, <1>5, <1>6 DEF RowsInv, NumbersRead
<1>9. ThreadsHold'
  BY <1>1, <1>5, <1>6 DEF RowsInv, ThreadsHold
<1> QED  BY <1>7, <1>8, <1>9 DEF RowsInv

\* The fixed calls are calls.
LEMMA FixedCallsAreCalls ==
    ASSUME AssistantAssumption, NEW m \in Messages
    PROVE  FixedCalls(Ask[m]) \in Seq(Tools)
<1> DEFINE a == <<"get_missing_items">>
           b == IF Ask[m].edit # Unset \/ Ask[m].candidate
                THEN <<"apply_confirmed_fields">> ELSE <<>>
<1>0. <<>> \in Seq(Tools) /\ \A x \in Tools : <<x>> \in Seq(Tools)
  OBVIOUS
<1>1. a \in Seq(Tools) /\ b \in Seq(Tools)
  <2>1. "get_missing_items" \in Tools /\ "apply_confirmed_fields" \in Tools
    BY DEF Tools, Reading
  <2> QED  BY <1>0, <2>1
<1>2. \A tool \in Operation : Wanted(Ask[m], tool) \in Seq(Tools)
  <2>1. \A tool \in Operation : tool \in Tools
    BY DEF Tools
  <2> QED  BY <1>0, <2>1 DEF Wanted
<1>3. \A p, q \in Seq(Tools) : p \o q \in Seq(Tools)
  OBVIOUS
<1>4. /\ Wanted(Ask[m], "run_calculation") \in Seq(Tools)
      /\ Wanted(Ask[m], "run_validation") \in Seq(Tools)
      /\ Wanted(Ask[m], "generate_report_pdf") \in Seq(Tools)
  BY <1>2 DEF Operation
<1> HIDE DEF a, b
<1>5. a \o b \in Seq(Tools)
  BY <1>1, <1>3
<1>6. a \o b \o Wanted(Ask[m], "run_calculation") \in Seq(Tools)
  BY <1>3, <1>4, <1>5
<1>7. a \o b \o Wanted(Ask[m], "run_calculation") \o Wanted(Ask[m], "run_validation") \in Seq(Tools)
  BY <1>3, <1>4, <1>6
<1> QED  BY <1>3, <1>4, <1>7 DEF FixedCalls, a, b

\* A message that inserts its first row is the only one of the session that is
\* under way.
LEMMA InsertRows ==
    ASSUME AssistantAssumption, RowsInv, NEW s \in Slots,
           tx[s].phase = "NUMBERED", NumberFree(s),
           ~\E r \in rows[Here(s)] : r.no = tx[s].number,
           tx' = [tx EXCEPT
                   ![s].rows = {[NewRow(s, "USER", Unset, Unset, 0) EXCEPT !.no = tx[s].number]},
                   ![s].phase = IF Model THEN "ASKING" ELSE "CALLING",
                   ![s].calls = IF Model THEN <<>> ELSE FixedCalls(Asked(s))],
           UNCHANGED <<kept, work, holder, rows, sent>>
    PROVE  RowsInv'
<1> DEFINE c == Here(s)
           m == tx[s].message
           row == [no |-> tx[s].number, message |-> m, role |-> "USER",
                   tool |-> Unset, status |-> Unset, made |-> 0]
<1>1. tx[s] \in Turns /\ m \in Messages /\ c \in Chats /\ rows[c] \in SUBSET Row
  BY DEF RowsInv, ChatTyped, Here, Asked, AssistantAssumption, Asks
<1>2. Thread(rows[c]) /\ Answered(rows[c])
  BY <1>1 DEF RowsInv, ThreadsHold
<1>3. NextNo(rows[c]) \in Nat \ {0} /\ {r.no : r \in rows[c]} = 1 .. NextNo(rows[c]) - 1
  BY <1>2 DEF Thread, Numbered
<1>4. tx[s].number = NextNo(rows[c])
  <2>1. tx[s].number \in 1 .. NextNo(rows[c])
    BY <1>1 DEF RowsInv, NumbersRead
  <2>2. tx[s].number \notin {r.no : r \in rows[c]}
    OBVIOUS
  <2> QED  BY <1>3, <2>1, <2>2
<1>5. row = [NewRow(s, "USER", Unset, Unset, 0) EXCEPT !.no = tx[s].number]
  BY DEF NewRow
<1>6. row \in Row /\ row.no = NextNo(rows[c]) /\ row.role = "USER" /\ row.message = m
  BY <1>1, <1>4, <1>3 DEF Row
<1>7. \A q \in rows[c] : q.no = NextNo(rows[c]) - 1 => Follows(q, row)
  BY <1>2, <1>6 DEF Answered, Follows
<1>8. Thread(rows[c] \cup {row}) /\ NextNo(rows[c] \cup {row}) = NextNo(rows[c]) + 1
  <2> HIDE DEF row, c
  <2> QED  BY <1>2, <1>6, <1>7, Extended
<1> HIDE DEF row
<1>9. \A t \in Slots \ {s} : Live(t) => Here(t) # c
  <2> SUFFICES ASSUME NEW t \in Slots \ {s}, Live(t), Here(t) = c PROVE FALSE
    OBVIOUS
  <2>1. \E r \in tx[t].rows : r.no = NextNo(rows[c])
    BY DEF RowsInv, ThreadsHold
  <2> QED  BY <2>1, <1>4 DEF NumberFree, Live
<1>10. /\ tx' = [tx EXCEPT ![s].rows = {row},
                           ![s].phase = IF Model THEN "ASKING" ELSE "CALLING",
                           ![s].calls = IF Model THEN <<>> ELSE FixedCalls(Asked(s))]
       /\ rows' = rows /\ sent' = sent /\ holder' = holder
  BY <1>5
<1>11. FixedCalls(Asked(s)) \in Seq(Tools) /\ <<>> \in Seq(Tools)
  BY <1>1, FixedCallsAreCalls DEF Asked
<1>12. /\ tx'[s] \in Turns
       /\ tx'[s].rows = {row} /\ tx'[s].phase \in {"ASKING", "CALLING"}
       /\ tx'[s].message = m /\ tx'[s].number = tx[s].number
       /\ \A t \in Slots \ {s} : tx'[t] = tx[t]
  <2> DEFINE turn == [tx[s] EXCEPT !.rows = {row}, !.phase = IF Model THEN "ASKING" ELSE "CALLING",
                                   !.calls = IF Model THEN <<>> ELSE FixedCalls(Asked(s))]
  <2>1. tx'[s] = turn /\ \A t \in Slots \ {s} : tx'[t] = tx[t]
    BY <1>10 DEF RowsInv, ChatTyped
  <2>2. {row} \in SUBSET Row
    BY <1>6
  <2>3. turn \in Turns
    BY <1>1, <1>11, <2>2 DEF Turns
  <2>4. /\ turn.rows = {row} /\ turn.phase \in {"ASKING", "CALLING"}
        /\ turn.message = m /\ turn.number = tx[s].number
    BY <1>1 DEF Turns
  <2> HIDE DEF turn
  <2> QED  BY <2>1, <2>3, <2>4
<1>13. tx' \in [Slots -> Turns]
  BY <1>10, <1>12 DEF RowsInv, ChatTyped
<1>14. \A t \in Slots \ {s} : /\ Here(t)' = Here(t) /\ Seen(t, Here(t))' = Seen(t, Here(t))
                              /\ Live(t)' = Live(t)
  BY <1>10, <1>12 DEF Here, Asked, Seen, Live
<1>15. Here(s)' = c /\ Seen(s, Here(s))' = rows[c] \cup {row} /\ Live(s)'
  BY <1>10, <1>12 DEF Here, Asked, Seen, Live
<1>16. ChatTyped'
  BY <1>1, <1>10, <1>12, <1>13 DEF RowsInv, ChatTyped
<1>17. NumbersRead'
  <2>1. tx'[s].number \in 1 .. NextNo(rows'[Here(s)'])
    BY <1>3, <1>4, <1>10, <1>12, <1>15
  <2>2. ASSUME NEW t \in Slots \ {s}
        PROVE  /\ tx'[t].phase # "IDLE" => tx'[t].number \in 1 .. NextNo(rows'[Here(t)'])
               /\ ~Live(t)' => tx'[t].rows = {}
    BY <1>10, <1>12, <1>14 DEF RowsInv, NumbersRead
  <2> QED  BY <1>15, <2>1, <2>2 DEF NumbersRead
<1>18. Unanswered(rows[c] \cup {row}, m)
  BY <1>3, <1>6, <1>8 DEF Unanswered
<1>19. ThreadsHold'
  <2>1. /\ Thread(Seen(s, Here(s)))' /\ Unanswered(Seen(s, Here(s)), tx[s].message)'
        /\ \E r \in tx'[s].rows : r.no = NextNo(rows'[Here(s)'])
        /\ \A r \in tx'[s].rows : r.message = tx'[s].message
    BY <1>6, <1>8, <1>10, <1>12, <1>15, <1>18
  <2>2. ASSUME NEW t \in Slots \ {s}, Live(t)'
        PROVE  /\ Thread(Seen(t, Here(t)))' /\ Unanswered(Seen(t, Here(t)), tx[t].message)'
               /\ \E r \in tx'[t].rows : r.no = NextNo(rows'[Here(t)'])
               /\ \A r \in tx'[t].rows : r.message = tx'[t].message
    <3>1. Live(t)
      BY <1>14, <2>2
    <3>2. /\ Thread(Seen(t, Here(t))) /\ Unanswered(Seen(t, Here(t)), tx[t].message)
          /\ \E r \in tx[t].rows : r.no = NextNo(rows[Here(t)])
          /\ \A r \in tx[t].rows : r.message = tx[t].message
      BY <3>1 DEF RowsInv, ThreadsHold
    <3> QED  BY <1>10, <1>12, <1>14, <3>2
  <2>3. \A a, b \in Slots : (Live(a) /\ Live(b) /\ Here(a) = Here(b))' => a = b
    BY <1>9, <1>14, <1>15 DEF RowsInv, ThreadsHold
  <2>4. \A d \in Chats : Thread(rows'[d]) /\ Answered(rows'[d])
    BY <1>10 DEF RowsInv, ThreadsHold
  <2> QED  BY <2>1, <2>2, <2>3, <2>4 DEF ThreadsHold
<1> QED  BY <1>16, <1>17, <1>19 DEF RowsInv

\* A row of a tool or of the reply follows what its message has written.
LEMMA NextRow ==
    ASSUME AssistantAssumption, RowsInv, NEW s \in Slots, Live(s), NEW P, P = Seen(s, Here(s)),
           NEW row \in Row, row.no = NextNo(P), row.role # "USER", row.message = tx[s].message
    PROVE  /\ NextNo(P) \in Nat
           /\ Thread(P \cup {row}) /\ NextNo(P \cup {row}) = NextNo(P) + 1
<1>1. Thread(P) /\ Unanswered(P, tx[s].message)
  BY DEF RowsInv, ThreadsHold
<1>2. NextNo(P) \in Nat \ {0} /\ {r.no : r \in P} = 1 .. NextNo(P) - 1
  BY <1>1 DEF Thread, Numbered
<1>3. \A q \in P : q.no = NextNo(P) - 1 => q.role # "ASSISTANT" /\ q.message = tx[s].message
  BY <1>1 DEF Unanswered, Thread, Numbered
<1>4. \A q \in P : q.no = NextNo(P) - 1 => Follows(q, row)
  BY <1>3 DEF Follows
<1>5. NextNo(P) # 1
  <2>1. PICK r \in P : r.no = NextNo(P) - 1
    BY <1>1 DEF Unanswered
  <2> QED  BY <1>2, <2>1
<1> QED  BY <1>1, <1>2, <1>4, <1>5, Extended

\* What a row holds.
LEMMA RowWritten ==
    ASSUME AssistantAssumption, RowsInv, NEW s \in Slots, Live(s),
           NEW role \in {"TOOL", "ASSISTANT"}, NEW tool \in Tools \cup {Unset},
           NEW status \in {"SUCCESS", "PENDING", "DENIED", Unset}, NEW made \in Nat,
           NEW row, row = NewRow(s, role, tool, status, made)
    PROVE  /\ Here(s) \in Chats /\ tx[s].message \in Messages
           /\ row \in Row /\ row.no = NextNo(Seen(s, Here(s)))
           /\ row.role = role /\ row.message = tx[s].message
           /\ row.tool = tool /\ row.status = status /\ row.made = made
<1>1. tx[s].message \in Messages /\ Here(s) \in Chats
  BY DEF Live, RowsInv, ChatTyped, Here, Asked, AssistantAssumption, Asks
<1>2. NextNo(Seen(s, Here(s))) \in Nat
  BY DEF RowsInv, ThreadsHold, Thread, Numbered
<1>3. row = [no |-> NextNo(Seen(s, Here(s))), message |-> tx[s].message, role |-> role,
             tool |-> tool, status |-> status, made |-> made]
  BY DEF NewRow
<1> QED  BY <1>1, <1>2, <1>3 DEF Row

\* The row of a call follows.
LEMMA CalledRows ==
    ASSUME AssistantAssumption, RowsInv, NEW s \in Slots, tx[s].phase = "CALLING",
           tx[s].calls # <<>>,
           NEW tool \in Tools, NEW status \in {"SUCCESS", "PENDING", "DENIED"}, NEW made \in Nat,
           NEW done \in SUBSET Operation, NEW applied \in BOOLEAN,
           Called(s, tool, status, made, done, applied),
           rows' = rows, holder' \in Slots \cup {Unset}, sent' = sent
    PROVE  RowsInv'
<1> DEFINE c == Here(s)
           m == tx[s].message
           P == Seen(s, c)
           row == NewRow(s, "TOOL", tool, status, made)
           turn == [tx[s] EXCEPT !.rows = tx[s].rows \cup {row}, !.calls = Tail(tx[s].calls),
                                 !.done = done, !.applied = applied, !.checked = FALSE]
<1>1. Live(s)
  BY DEF Live
<1>2. /\ c \in Chats /\ m \in Messages /\ row \in Row /\ row.role = "TOOL" /\ row.message = m
      /\ row.no = NextNo(P) /\ NextNo(P) \in Nat
      /\ Thread(P \cup {row}) /\ NextNo(P \cup {row}) = NextNo(P) + 1
  <2>1. /\ tool \in Tools \cup {Unset} /\ status \in {"SUCCESS", "PENDING", "DENIED", Unset}
        /\ "TOOL" \in {"TOOL", "ASSISTANT"}
    OBVIOUS
  <2> HIDE DEF row
  <2>2. /\ c \in Chats /\ m \in Messages /\ row \in Row /\ row.no = NextNo(P)
        /\ row.role = "TOOL" /\ row.message = m
    BY <1>1, <2>1, RowWritten DEF row
  <2> QED  BY <1>1, <2>2, NextRow
<1> HIDE DEF row
<1>3. tx' = [tx EXCEPT ![s] = turn]
  BY DEF Called, RowsInv, ChatTyped, row
<1>4. /\ turn \in Turns
      /\ turn.rows = tx[s].rows \cup {row} /\ turn.phase = "CALLING" /\ turn.message = m
      /\ turn.number = tx[s].number
  <2>1. tx[s] \in Turns /\ Tail(tx[s].calls) \in Seq(Tools)
    BY HeadTailProperties DEF RowsInv, ChatTyped, Turns
  <2>2. tx[s].rows \cup {row} \in SUBSET Row
    BY <1>2, <2>1 DEF Turns
  <2> QED  BY <2>1, <2>2 DEF Turns
<1> HIDE DEF turn
<1>5. tx'[s] = turn /\ \A t \in Slots \ {s} : tx'[t] = tx[t]
  BY <1>3 DEF RowsInv, ChatTyped
<1>6. \A t \in Slots \ {s} : /\ Here(t)' = Here(t) /\ Seen(t, Here(t))' = Seen(t, Here(t))
                             /\ Live(t)' = Live(t)
  BY <1>5 DEF Here, Asked, Seen, Live
<1>7. Here(s)' = c /\ Seen(s, Here(s))' = P \cup {row} /\ Live(s)'
  BY <1>4, <1>5 DEF Here, Asked, Seen, Live
<1>8. ChatTyped'
  BY <1>2, <1>3, <1>4, <1>5 DEF RowsInv, ChatTyped
<1>9. NumbersRead'
  <2>1. tx'[s].number \in 1 .. NextNo(rows'[Here(s)'])
    BY <1>4, <1>5, <1>7 DEF RowsInv, NumbersRead
  <2>2. ASSUME NEW t \in Slots \ {s}
        PROVE  /\ tx'[t].phase # "IDLE" => tx'[t].number \in 1 .. NextNo(rows'[Here(t)'])
               /\ ~Live(t)' => tx'[t].rows = {}
    BY <1>5, <1>6 DEF RowsInv, NumbersRead
  <2> QED  BY <1>7, <2>1, <2>2 DEF NumbersRead
<1>10. ThreadsHold'
  <2>1. /\ Thread(Seen(s, Here(s)))' /\ Unanswered(Seen(s, Here(s)), tx[s].message)'
        /\ \E r \in tx'[s].rows : r.no = NextNo(rows'[Here(s)'])
        /\ \A r \in tx'[s].rows : r.message = tx'[s].message
    <3>1. Unanswered(P \cup {row}, m)
      BY <1>2 DEF Unanswered
    <3>2. /\ \E r \in tx[s].rows : r.no = NextNo(rows[c])
          /\ \A r \in tx[s].rows : r.message = m
      BY <1>1 DEF RowsInv, ThreadsHold
    <3> QED  BY <1>2, <1>4, <1>5, <1>7, <3>1, <3>2
  <2>2. ASSUME NEW t \in Slots \ {s}, Live(t)'
        PROVE  /\ Thread(Seen(t, Here(t)))' /\ Unanswered(Seen(t, Here(t)), tx[t].message)'
               /\ \E r \in tx'[t].rows : r.no = NextNo(rows'[Here(t)'])
               /\ \A r \in tx'[t].rows : r.message = tx'[t].message
    <3>1. Live(t)
      BY <1>6, <2>2
    <3>2. /\ Thread(Seen(t, Here(t))) /\ Unanswered(Seen(t, Here(t)), tx[t].message)
          /\ \E r \in tx[t].rows : r.no = NextNo(rows[Here(t)])
          /\ \A r \in tx[t].rows : r.message = tx[t].message
      BY <3>1 DEF RowsInv, ThreadsHold
    <3> QED  BY <1>5, <1>6, <3>2
  <2>3. \A a, b \in Slots : (Live(a) /\ Live(b) /\ Here(a) = Here(b))' => a = b
    BY <1>1, <1>6, <1>7 DEF RowsInv, ThreadsHold
  <2>4. \A d \in Chats : Thread(rows'[d]) /\ Answered(rows'[d])
    BY DEF RowsInv, ThreadsHold
  <2> QED  BY <2>1, <2>2, <2>3, <2>4 DEF ThreadsHold
<1> QED  BY <1>8, <1>9, <1>10 DEF RowsInv

\* With the reply the rows of the message are committed.
LEMMA ReplyRows ==
    ASSUME AssistantAssumption, RowsInv, NEW s \in Slots, Live(s), Reply(s)
    PROVE  RowsInv'
<1> DEFINE c == Here(s)
           P == Seen(s, c)
           row == NewRow(s, "ASSISTANT", Unset, Unset, 0)
           Q == P \cup {row}
<1>1. /\ c \in Chats /\ row \in Row /\ row.role = "ASSISTANT"
      /\ row.no = NextNo(P) /\ NextNo(P) \in Nat
      /\ Thread(Q) /\ NextNo(Q) = NextNo(P) + 1
  <2> HIDE DEF row
  <2>1. c \in Chats /\ row \in Row /\ row.no = NextNo(P) /\ row.role = "ASSISTANT"
           /\ row.message = tx[s].message
    BY RowWritten DEF row
  <2> QED  BY <2>1, NextRow
<1> HIDE DEF row
<1>2. /\ rows' = [rows EXCEPT ![c] = Q] /\ tx' = [tx EXCEPT ![s] = Idle] /\ sent' = sent
      /\ holder' = IF holder = s THEN Unset ELSE holder
  BY DEF Reply, row
<1>3. rows \in [Chats -> SUBSET Row] /\ tx \in [Slots -> Turns] /\ tx[s].rows \subseteq Row
  BY DEF RowsInv, ChatTyped, Turns
<1>4. Q \in SUBSET Row
  BY <1>1, <1>3 DEF Seen
<1>5. /\ rows'[c] = Q /\ \A d \in Chats \ {c} : rows'[d] = rows[d]
      /\ tx'[s].phase = "IDLE" /\ tx'[s].rows = {} /\ ~Live(s)'
      /\ \A t \in Slots \ {s} : tx'[t] = tx[t]
  BY <1>1, <1>2, <1>3 DEF Idle, Live
<1>6. \A t \in Slots \ {s} : Here(t)' = Here(t) /\ Live(t)' = Live(t)
  BY <1>5 DEF Here, Asked, Live
<1>7. Idle \in Turns
  BY DEF Idle, Turns
<1>8. ChatTyped'
  BY <1>2, <1>3, <1>4, <1>5, <1>7 DEF RowsInv, ChatTyped
<1>9. Answered(Q)
  <2>1. \A r \in P : r.no # NextNo(P)
    BY <1>1, <1>3 DEF RowsInv, ThreadsHold, Thread, Numbered
  <2> QED  BY <1>1, <2>1 DEF Answered
<1>10. \A d \in Chats : Thread(rows'[d]) /\ Answered(rows'[d])
  BY <1>1, <1>5, <1>9 DEF RowsInv, ThreadsHold
<1>11. NextNo(rows[c]) =< NextNo(Q) /\ NextNo(rows[c]) \in Nat /\ NextNo(Q) \in Nat
  <2>1. {r.no : r \in rows[c]} \subseteq {r.no : r \in Q}
    BY DEF Seen
  <2>2. {r.no : r \in Q} = 1 .. NextNo(Q) - 1 /\ NextNo(Q) \in Nat \ {0}
    BY <1>1 DEF Thread, Numbered
  <2>3. {r.no : r \in rows[c]} = 1 .. NextNo(rows[c]) - 1 /\ NextNo(rows[c]) \in Nat \ {0}
    BY <1>1 DEF RowsInv, ThreadsHold, Thread, Numbered
  <2> HIDE DEF Q
  <2>4. CASE NextNo(rows[c]) = 1
    BY <2>2, <2>4
  <2>5. CASE NextNo(rows[c]) # 1
    <3>1. NextNo(rows[c]) - 1 \in 1 .. NextNo(rows[c]) - 1
      BY <2>3, <2>5
    <3>2. NextNo(rows[c]) - 1 \in 1 .. NextNo(Q) - 1
      BY <2>1, <2>2, <2>3, <3>1
    <3> QED  BY <2>2, <2>3, <3>2
  <2> QED  BY <2>4, <2>5
<1> HIDE DEF Q
<1>12. NumbersRead'
  <2>1. ASSUME NEW t \in Slots \ {s}
        PROVE  /\ tx'[t].phase # "IDLE" => tx'[t].number \in 1 .. NextNo(rows'[Here(t)'])
               /\ ~Live(t)' => tx'[t].rows = {}
    <3>1. /\ tx[t].phase # "IDLE" => tx[t].number \in 1 .. NextNo(rows[Here(t)])
          /\ ~Live(t) => tx[t].rows = {}
      BY DEF RowsInv, NumbersRead
    <3>2. ASSUME tx[t].phase # "IDLE"
          PROVE  tx'[t].number \in 1 .. NextNo(rows'[Here(t)'])
      <4>1. Here(t) \in Chats
        BY <3>2 DEF RowsInv, ChatTyped, Here, Asked, AssistantAssumption, Asks
      <4>2. CASE Here(t) = c
        <5>1. tx'[t].number \in 1 .. NextNo(rows[c]) /\ rows'[Here(t)'] = Q
          BY <1>5, <1>6, <3>1, <3>2, <4>2
        <5> QED  BY <1>11, <5>1
      <4>3. CASE Here(t) # c
        BY <1>5, <1>6, <3>1, <3>2, <4>1, <4>3
      <4> QED  BY <4>2, <4>3
    <3> QED  BY <1>5, <1>6, <3>1, <3>2
  <2> QED  BY <1>5, <2>1 DEF NumbersRead
<1>13. ThreadsHold'
  <2>1. ASSUME NEW t \in Slots, Live(t)'
        PROVE  /\ Thread(Seen(t, Here(t)))' /\ Unanswered(Seen(t, Here(t)), tx[t].message)'
               /\ \E r \in tx'[t].rows : r.no = NextNo(rows'[Here(t)'])
               /\ \A r \in tx'[t].rows : r.message = tx'[t].message
    <3>1. t # s /\ Live(t)
      BY <1>5, <1>6, <2>1
    <3>2. Here(t) \in Chats /\ Here(t) # c
      BY <3>1 DEF RowsInv, ThreadsHold, ChatTyped, Live, Here, Asked, AssistantAssumption, Asks
    <3>3. /\ Thread(Seen(t, Here(t))) /\ Unanswered(Seen(t, Here(t)), tx[t].message)
          /\ \E r \in tx[t].rows : r.no = NextNo(rows[Here(t)])
          /\ \A r \in tx[t].rows : r.message = tx[t].message
      BY <3>1 DEF RowsInv, ThreadsHold
    <3>4. Here(t)' = Here(t) /\ rows'[Here(t)] = rows[Here(t)] /\ tx'[t] = tx[t]
      BY <1>5, <1>6, <3>1, <3>2
    <3>5. Seen(t, Here(t))' = Seen(t, Here(t))
      BY <3>4 DEF Seen
    <3> QED  BY <3>3, <3>4, <3>5
  <2>2. \A a, b \in Slots : (Live(a) /\ Live(b) /\ Here(a) = Here(b))' => a = b
    BY <1>5, <1>6 DEF RowsInv, ThreadsHold
  <2> QED  BY <1>10, <2>1, <2>2 DEF ThreadsHold
<1> QED  BY <1>8, <1>12, <1>13 DEF RowsInv

---------------------------------------------------------------------------
(* The tables of the form *)

\* A table with a row for messages.
Requested(q) ==
    /\ \E S : q \in Seq(S)
    /\ \A i \in 1 .. Len(q) : q[i].request \in Messages

\* A form whose tables are tables with rows for messages.
IsBook(b) ==
    /\ b = [x \in DOMAIN NewBook |-> b[x]]
    /\ Requested(b.calcs) /\ Requested(b.runs) /\ Requested(b.reports)

\* Table p is table q with a row of message m at place n, which may have been
\* there before.
Entered(q, p, m, n) ==
    \/ p = q /\ n \in 1 .. Len(q) /\ q[n].request = m
    \/ n = Len(q) + 1 /\ \E row : row.request = m /\ p = Append(q, row)

\* What is appended to a sequence comes after what was there.
LEMMA RowAppended ==
    ASSUME NEW q, NEW S, q \in Seq(S), NEW row
    PROVE  /\ Append(q, row) \in Seq(S \cup {row})
           /\ Len(q) \in Nat /\ Len(Append(q, row)) = Len(q) + 1
           /\ \A i \in 1 .. Len(q) : Append(q, row)[i] = q[i]
           /\ Append(q, row)[Len(q) + 1] = row
<1>1. q \in Seq(S \cup {row})
  OBVIOUS
<1> QED  BY <1>1, AppendProperties

\* The rows of a table that was entered are the rows it had and that of the
\* message.
LEMMA TableEntered ==
    ASSUME NEW q, Requested(q), NEW p, NEW m \in Messages, NEW n, Entered(q, p, m, n)
    PROVE  /\ Requested(p) /\ Len(q) \in Nat /\ Len(p) \in Nat /\ Len(q) =< Len(p)
           /\ n \in 1 .. Len(p)
           /\ \A i \in 1 .. Len(p) : \/ i \in 1 .. Len(q) /\ p[i] = q[i]
                                     \/ i = n /\ p[i].request = m
<1>1. PICK S : q \in Seq(S)
  BY DEF Requested
<1>2. Len(q) \in Nat
  BY <1>1
<1>3. CASE p = q /\ n \in 1 .. Len(q) /\ q[n].request = m
  BY <1>2, <1>3
<1>4. CASE n = Len(q) + 1 /\ \E row : row.request = m /\ p = Append(q, row)
  <2>1. PICK row : row.request = m /\ p = Append(q, row)
    BY <1>4
  <2>2. /\ p \in Seq(S \cup {row}) /\ Len(p) = Len(q) + 1
        /\ \A i \in 1 .. Len(q) : p[i] = q[i]
        /\ p[Len(q) + 1] = row
    BY <1>1, <2>1, RowAppended
  <2>3. \A i \in 1 .. Len(p) : \/ i \in 1 .. Len(q) /\ p[i] = q[i]
                               \/ i = n /\ p[i].request = m
    BY <1>2, <1>4, <2>1, <2>2
  <2>4. Requested(p)
    BY <2>2, <2>3 DEF Requested
  <2> QED  BY <1>2, <1>4, <2>2, <2>3, <2>4
<1> QED  BY <1>3, <1>4 DEF Entered

\* The draft and the status are no tables.
LEMMA OtherColumnsSet ==
    ASSUME NEW b, IsBook(b), NEW c,
           \/ \E e : c = SaveDraft(b, e).book
           \/ c = SubmitForm(b).book
           \/ c = [b EXCEPT !.editable = FALSE]
    PROVE  IsBook(c) /\ c.calcs = b.calcs /\ c.runs = b.runs /\ c.reports = b.reports
<1>1. {"editable", "status", "draft", "calcs", "runs", "reports"} \subseteq DOMAIN NewBook
  BY DEF NewBook
<1>2. ASSUME NEW v, c = [b EXCEPT !.draft = v]
      PROVE  IsBook(c) /\ c.calcs = b.calcs /\ c.runs = b.runs /\ c.reports = b.reports
  BY <1>1, <1>2 DEF IsBook
<1>3. ASSUME NEW v, c = [b EXCEPT !.status = v]
      PROVE  IsBook(c) /\ c.calcs = b.calcs /\ c.runs = b.runs /\ c.reports = b.reports
  BY <1>1, <1>3 DEF IsBook
<1>4. ASSUME NEW v, c = [b EXCEPT !.editable = v]
      PROVE  IsBook(c) /\ c.calcs = b.calcs /\ c.runs = b.runs /\ c.reports = b.reports
  BY <1>1, <1>4 DEF IsBook
<1>5. \/ c = b
      \/ \E v : \/ c = [b EXCEPT !.draft = v]
               \/ c = [b EXCEPT !.status = v]
               \/ c = [b EXCEPT !.editable = v]
  BY DEF SaveDraft, SubmitForm, Done, Refused
<1> QED  BY <1>2, <1>3, <1>4, <1>5

\* A calculation of a message enters the table of calculations.
LEMMA CalculationEntered ==
    ASSUME NEW b, IsBook(b), NEW m \in Messages, NEW time,
           NEW a, a = CalculateForm(b, m, time), a.ok
    PROVE  /\ Entered(b.calcs, a.book.calcs, m, a.row)
           /\ a.book.runs = b.runs /\ a.book.reports = b.reports
           /\ IsBook(a.book)
<1> DEFINE row == Calculation(b, m, time)
<1>1. CASE RowOf(b.calcs, m) # {} /\ a = Done(b, CHOOSE i \in RowOf(b.calcs, m) : TRUE)
  <2>1. a.book = b /\ a.row \in RowOf(b.calcs, m)
    BY <1>1 DEF Done
  <2>2. DOMAIN b.calcs = 1 .. Len(b.calcs)
    BY DEF IsBook, Requested
  <2> QED  BY <2>1, <2>2 DEF RowOf, Entered
<1>2. CASE a = Done(CalculatedForm(b, m, time), Len(b.calcs) + 1)
  <2>1. {"price", "calcs", "runs", "reports"} \subseteq DOMAIN NewBook
    BY DEF NewBook
  <2>2. /\ a.book = [b EXCEPT !.calcs = Append(b.calcs, row), !.price = Result(b.draft)]
        /\ a.row = Len(b.calcs) + 1
    BY <1>2 DEF Done, CalculatedForm, IsBook
  <2>3. row.request = m
    BY DEF Calculation
  <2> HIDE DEF row
  <2>4. /\ a.book = [x \in DOMAIN NewBook |-> a.book[x]]
        /\ a.book.calcs = Append(b.calcs, row) /\ a.book.runs = b.runs
        /\ a.book.reports = b.reports
    BY <2>1, <2>2 DEF IsBook
  <2>5. Entered(b.calcs, a.book.calcs, m, a.row)
    BY <2>2, <2>3, <2>4 DEF Entered
  <2>6. Requested(a.book.calcs)
    BY <2>5, TableEntered DEF IsBook
  <2> QED  BY <2>4, <2>5, <2>6 DEF IsBook
<1> QED  BY <1>1, <1>2 DEF CalculateForm, Refused, Done

\* A check of a message enters the table of checks.
LEMMA CheckEntered ==
    ASSUME NEW b, IsBook(b), NEW m \in Messages, NEW a, a = ValidateForm(b, m), a.ok
    PROVE  /\ Entered(b.runs, a.book.runs, m, a.row)
           /\ a.book.calcs = b.calcs /\ a.book.reports = b.reports
           /\ IsBook(a.book)
<1> DEFINE row == CheckRun(b, m)
<1>1. CASE RowOf(b.runs, m) # {} /\ a = Done(b, CHOOSE i \in RowOf(b.runs, m) : TRUE)
  <2>1. a.book = b /\ a.row \in RowOf(b.runs, m)
    BY <1>1 DEF Done
  <2>2. DOMAIN b.runs = 1 .. Len(b.runs)
    BY DEF IsBook, Requested
  <2> QED  BY <2>1, <2>2 DEF RowOf, Entered
<1>2. CASE a = Done([b EXCEPT !.runs = Append(@, row)], Len(b.runs) + 1)
  <2>1. {"calcs", "runs", "reports"} \subseteq DOMAIN NewBook
    BY DEF NewBook
  <2> HIDE DEF row
  <2>2. /\ a.book = [b EXCEPT !.runs = Append(b.runs, row)]
        /\ a.row = Len(b.runs) + 1
    BY <1>2 DEF Done
  <2>3. row.request = m
    BY DEF CheckRun, row
  <2>4. /\ a.book = [x \in DOMAIN NewBook |-> a.book[x]]
        /\ a.book.runs = Append(b.runs, row) /\ a.book.calcs = b.calcs
        /\ a.book.reports = b.reports
    BY <2>1, <2>2 DEF IsBook
  <2>5. Entered(b.runs, a.book.runs, m, a.row)
    BY <2>2, <2>3, <2>4 DEF Entered
  <2>6. Requested(a.book.runs)
    BY <2>5, TableEntered DEF IsBook
  <2> QED  BY <2>4, <2>5, <2>6 DEF IsBook
<1> QED  BY <1>1, <1>2 DEF ValidateForm, Refused, Done

\* A PDF of a message enters the table of PDFs.
LEMMA PdfEntered ==
    ASSUME NEW b, IsBook(b), NEW m \in Messages, NEW a, a = Report(b, m), a.ok
    PROVE  /\ Entered(b.reports, a.book.reports, m, a.row)
           /\ a.book.calcs = b.calcs /\ a.book.runs = b.runs
           /\ IsBook(a.book)
<1> DEFINE row == Pdf(b, m)
<1>1. CASE RowOf(b.reports, m) # {} /\ a = Done(b, CHOOSE i \in RowOf(b.reports, m) : TRUE)
  <2>1. a.book = b /\ a.row \in RowOf(b.reports, m)
    BY <1>1 DEF Done
  <2>2. DOMAIN b.reports = 1 .. Len(b.reports)
    BY DEF IsBook, Requested
  <2> QED  BY <2>1, <2>2 DEF RowOf, Entered
<1>2. CASE a = Done([b EXCEPT !.reports = Append(@, row)], Len(b.reports) + 1)
  <2>1. {"calcs", "runs", "reports"} \subseteq DOMAIN NewBook
    BY DEF NewBook
  <2> HIDE DEF row
  <2>2. /\ a.book = [b EXCEPT !.reports = Append(b.reports, row)]
        /\ a.row = Len(b.reports) + 1
    BY <1>2 DEF Done
  <2>3. row.request = m
    BY DEF Pdf, row
  <2>4. /\ a.book = [x \in DOMAIN NewBook |-> a.book[x]]
        /\ a.book.reports = Append(b.reports, row) /\ a.book.calcs = b.calcs
        /\ a.book.runs = b.runs
    BY <2>1, <2>2 DEF IsBook
  <2>5. Entered(b.reports, a.book.reports, m, a.row)
    BY <2>2, <2>3, <2>4 DEF Entered
  <2>6. Requested(a.book.reports)
    BY <2>5, TableEntered DEF IsBook
  <2> QED  BY <2>4, <2>5, <2>6 DEF IsBook
<1> QED  BY <1>1, <1>2 DEF Report, Refused, Done

---------------------------------------------------------------------------
(* The case *)

\* Among rows R is one of message m that says tool made row n.
Says(R, m, tool, n) ==
    \E r \in R : r.message = m /\ r.tool = tool /\ r.status = "SUCCESS" /\ r.made = n

\* The committed rows P of the session of m say so, or rows R do.
SaidIn(P, R, m, tool, n) == Says(P[Ask[m].session], m, tool, n) \/ Says(R, m, tool, n)

\* The user has asked for it and confirmed it.
Allowed(m, tool) ==
    tool \in Ask[m].requested /\ (tool # "run_validation" => Ask[m].confirmAction)

\* Each row of table q, which tool writes, was allowed and has been told.
TableTold(q, tool, P, R) ==
    \A i \in 1 .. Len(q) : /\ Allowed(q[i].request, tool)
                           /\ SaidIn(P, R, q[i].request, tool, i)

\* A message that confirms a candidate has told that it applied it.
CandidateTold(P, R) ==
    \E m \in Messages : /\ Ask[m].candidate /\ Ask[m].confirmApply
                        /\ SaidIn(P, R, m, "apply_confirmed_fields", 0)

\* What is in case k has been told by rows P or R.
CaseTold(k, P, R) ==
    /\ k = [form |-> k.form, candidate |-> k.candidate]
    /\ IsBook(k.form)
    /\ TableTold(k.form.calcs, "run_calculation", P, R)
    /\ TableTold(k.form.runs, "run_validation", P, R)
    /\ TableTold(k.form.reports, "generate_report_pdf", P, R)
    /\ k.candidate = "APPLIED" => CandidateTold(P, R)

\* What rows R tell is in case k.
InCase(R, k) ==
    \A r \in R : /\ r.tool = "run_calculation" => r.made =< Len(k.form.calcs)
                 /\ r.tool = "generate_report_pdf" => r.made =< Len(k.form.reports)

\* Case l has all the places of case k.
Shorter(k, l) ==
    /\ Len(k.form.calcs) =< Len(l.form.calcs)
    /\ Len(k.form.reports) =< Len(l.form.reports)

\* The case as the transaction of s sees it.
View(s) == IF holder = s THEN work ELSE kept

\* What is committed of the case is told by committed rows; what the transaction
\* that holds the case adds, by its own; and what rows tell is there.
CaseHolds ==
    /\ CaseTold(kept, rows, {})
    /\ holder = Unset => work = kept
    /\ holder # Unset =>
           Live(holder) /\ CaseTold(work, rows, tx[holder].rows) /\ Shorter(kept, work)
    /\ \A c \in Chats : InCase(rows[c], kept)
    /\ \A s \in Slots : InCase(tx[s].rows, View(s))

\* Rows that are committed or added tell no less.
LEMMA MoreTold ==
    ASSUME AssistantAssumption, NEW k, NEW P, NEW Q, NEW R, NEW S, CaseTold(k, P, R),
           \A c \in Chats : P[c] \subseteq Q[c],
           \A r \in R : r \in S \/ r \in Q[Ask[r.message].session]
    PROVE  CaseTold(k, Q, S)
<1>1. ASSUME NEW m \in Messages, NEW tool, NEW n, SaidIn(P, R, m, tool, n)
      PROVE  SaidIn(Q, S, m, tool, n)
  <2>1. Ask[m].session \in Chats
    BY DEF AssistantAssumption, Asks
  <2> QED  BY <1>1, <2>1 DEF SaidIn, Says
<1>2. ASSUME NEW q, Requested(q), NEW tool, TableTold(q, tool, P, R)
      PROVE  TableTold(q, tool, Q, S)
  BY <1>1, <1>2 DEF TableTold, Requested
<1>3. CandidateTold(P, R) => CandidateTold(Q, S)
  BY <1>1 DEF CandidateTold
<1> QED  BY <1>2, <1>3 DEF CaseTold, IsBook

\* A case has numbers of rows.
LEMMA CaseCounts ==
    ASSUME NEW k, NEW P, NEW R, CaseTold(k, P, R)
    PROVE  Len(k.form.calcs) \in Nat /\ Len(k.form.reports) \in Nat
BY DEF CaseTold, IsBook, Requested

\* A case has as many rows as one that has as many as another.
LEMMA LongerStill ==
    ASSUME NEW j, NEW k, NEW l, NEW P, NEW Q, NEW R, NEW S, CaseTold(j, P, {}),
           CaseTold(k, P, Q), CaseTold(l, R, S), Shorter(j, k), Shorter(k, l)
    PROVE  Shorter(j, l)
<1>1. Len(j.form.calcs) \in Nat /\ Len(j.form.reports) \in Nat
  BY CaseCounts
<1>2. Len(k.form.calcs) \in Nat /\ Len(k.form.reports) \in Nat
  BY CaseCounts
<1>3. Len(l.form.calcs) \in Nat /\ Len(l.form.reports) \in Nat
  BY CaseCounts
<1>4. \A x, y, z \in Nat : x =< y /\ y =< z => x =< z
  OBVIOUS
<1> QED  BY <1>1, <1>2, <1>3, <1>4 DEF Shorter

\* Rows are in a case that has more rows.
LEMMA StillInCase ==
    ASSUME NEW R \in SUBSET Row, NEW k, NEW l, InCase(R, k), Shorter(k, l),
           Len(k.form.calcs) \in Nat, Len(l.form.calcs) \in Nat,
           Len(k.form.reports) \in Nat, Len(l.form.reports) \in Nat
    PROVE  InCase(R, l)
<1>1. \A r \in R : r.made \in Nat
  BY DEF Row
<1> QED  BY <1>1 DEF InCase, Shorter

\* A row that a message adds to a table is told by the message's row.
LEMMA TableGrows ==
    ASSUME NEW q, Requested(q), NEW p, NEW m \in Messages, NEW n, Entered(q, p, m, n),
           NEW tool, NEW P, NEW R, TableTold(q, tool, P, R), Allowed(m, tool), Says(R, m, tool, n)
    PROVE  TableTold(p, tool, P, R)
BY TableEntered DEF TableTold, SaidIn

---------------------------------------------------------------------------
(* The steps, for the case *)

\* What a message that fails did to the case is gone.
LEMMA FailCase ==
    ASSUME AssistantAssumption, RowsInv, CaseHolds, NEW s \in Slots, Fail(s)
    PROVE  CaseHolds'
<1>1. /\ tx' = [tx EXCEPT ![s] = Idle] /\ rows' = rows /\ kept' = kept
      /\ holder' = IF holder = s THEN Unset ELSE holder
      /\ work' = IF holder = s THEN kept ELSE work
  BY DEF Fail
<1>2. /\ tx'[s].rows = {} /\ s # Unset
      /\ \A t \in Slots \ {s} : tx'[t] = tx[t] /\ Live(t)' = Live(t)
      /\ holder \in Slots \cup {Unset}
  BY <1>1 DEF RowsInv, ChatTyped, Idle, Live, AssistantAssumption
<1>3. holder' # Unset => /\ holder' = holder /\ holder \in Slots \ {s} /\ work' = work
  BY <1>1, <1>2
<1>4. holder' = Unset => work' = kept'
  BY <1>1, <1>2 DEF CaseHolds
<1>5. \A t \in Slots : InCase(tx'[t].rows, View(t)')
  <2>1. InCase({}, View(s)')
    BY DEF InCase
  <2>2. \A t \in Slots \ {s} : View(t)' = View(t)
    BY <1>1, <1>2 DEF View, AssistantAssumption
  <2> QED  BY <1>2, <2>1, <2>2 DEF CaseHolds
<1>6. holder' # Unset =>
          Live(holder)' /\ CaseTold(work', rows', tx'[holder'].rows) /\ Shorter(kept', work')
  BY <1>1, <1>2, <1>3 DEF CaseHolds, Live
<1> QED  BY <1>1, <1>4, <1>5, <1>6 DEF CaseHolds

\* With the reply, what the message did to the case is committed, and the rows
\* that tell it.
LEMMA ReplyCase ==
    ASSUME AssistantAssumption, RowsInv, CaseHolds, NEW s \in Slots, Live(s), Reply(s)
    PROVE  CaseHolds'
<1> DEFINE c == Here(s)
           row == NewRow(s, "ASSISTANT", Unset, Unset, 0)
<1>0. c \in Chats /\ row \in Row /\ row.made = 0
  BY RowWritten
<1> HIDE DEF row
<1>1. /\ tx' = [tx EXCEPT ![s] = Idle] /\ rows' = [rows EXCEPT ![c] = Seen(s, c) \cup {row}]
      /\ kept' = IF holder = s THEN work ELSE kept
      /\ holder' = IF holder = s THEN Unset ELSE holder
      /\ work' = work
  BY DEF Reply, row
<1>2. /\ tx'[s].rows = {} /\ s # Unset
      /\ \A t \in Slots \ {s} : tx'[t] = tx[t] /\ Live(t)' = Live(t)
      /\ holder \in Slots \cup {Unset}
  BY <1>1 DEF RowsInv, ChatTyped, Idle, Live, AssistantAssumption
<1>3. /\ rows'[c] = rows[c] \cup tx[s].rows \cup {row}
      /\ \A d \in Chats \ {c} : rows'[d] = rows[d]
      /\ \A d \in Chats : rows[d] \subseteq rows'[d]
  BY <1>0, <1>1 DEF Seen, RowsInv, ChatTyped
<1>4. \A r \in tx[s].rows : r \in rows'[Ask[r.message].session]
  <2>1. \A r \in tx[s].rows : r.message = tx[s].message
    BY DEF RowsInv, ThreadsHold
  <2> QED  BY <1>3, <2>1 DEF Here, Asked
<1>5. CaseTold(kept', rows', {})
  <2>1. CASE holder = s
    <3>1. CaseTold(work, rows, tx[s].rows)
      BY <1>2, <2>1 DEF CaseHolds
    <3>2. CaseTold(work, rows', {})
      BY <1>3, <1>4, <3>1, MoreTold
    <3> QED  BY <1>1, <2>1, <3>2
  <2>2. CASE holder # s
    <3>1. CaseTold(kept, rows, {})
      BY DEF CaseHolds
    <3>2. CaseTold(kept, rows', {})
      BY <1>3, <3>1, MoreTold
    <3> QED  BY <1>1, <2>2, <3>2
  <2> QED  BY <2>1, <2>2
<1>6. Shorter(kept, kept')
  <2>1. CASE holder = s
    BY <1>1, <1>2, <2>1 DEF CaseHolds
  <2>2. CASE holder # s
    <3>1. CaseTold(kept, rows, {})
      BY DEF CaseHolds
    <3> QED  BY <1>1, <2>2, <3>1, CaseCounts DEF Shorter
  <2> QED  BY <2>1, <2>2
<1>7. \A R \in SUBSET Row : InCase(R, kept) => InCase(R, kept')
  <2>1. CaseTold(kept, rows, {})
    BY DEF CaseHolds
  <2> QED  BY <1>5, <1>6, <2>1, CaseCounts, StillInCase
<1>8. holder' = Unset => work' = kept'
  BY <1>1, <1>2 DEF CaseHolds
<1>9. ASSUME holder' # Unset
      PROVE  Live(holder)' /\ CaseTold(work', rows', tx'[holder'].rows) /\ Shorter(kept', work')
  <2>1. holder' = holder /\ holder \in Slots \ {s} /\ kept' = kept
    BY <1>1, <1>2, <1>9
  <2>2. Live(holder) /\ CaseTold(work, rows, tx[holder].rows) /\ Shorter(kept, work)
    BY <1>9, <2>1 DEF CaseHolds
  <2>3. CaseTold(work, rows', tx[holder].rows)
    BY <1>3, <2>2, MoreTold
  <2> QED  BY <1>1, <1>2, <2>1, <2>2, <2>3 DEF Live
<1>10. \A d \in Chats : InCase(rows'[d], kept')
  <2>1. \A d \in Chats : InCase(rows[d], kept')
    BY <1>7 DEF CaseHolds, RowsInv, ChatTyped
  <2>2. InCase(tx[s].rows, kept')
    <3>1. tx[s].rows \in SUBSET Row
      BY DEF RowsInv, ChatTyped, Turns
    <3> QED  BY <1>1, <1>7, <3>1 DEF CaseHolds, View
  <2>3. InCase({row}, kept')
    BY <1>0, <1>5, CaseCounts DEF InCase
  <2> QED  BY <1>0, <1>3, <2>1, <2>2, <2>3 DEF InCase
<1>11. \A t \in Slots : InCase(tx'[t].rows, View(t)')
  <2>1. InCase({}, View(s)')
    BY DEF InCase
  <2>2. ASSUME NEW t \in Slots \ {s}
        PROVE  InCase(tx[t].rows, View(t)')
    <3>1. tx[t].rows \in SUBSET Row /\ t # Unset
      BY DEF RowsInv, ChatTyped, Turns, AssistantAssumption
    <3>2. InCase(tx[t].rows, View(t))
      BY DEF CaseHolds
    <3>3. CASE holder = t
      BY <1>1, <3>2, <3>3 DEF View
    <3>4. CASE holder # t
      BY <1>1, <1>7, <3>1, <3>2, <3>4 DEF View
    <3> QED  BY <3>3, <3>4
  <2> QED  BY <1>2, <2>1, <2>2
<1> QED  BY <1>5, <1>8, <1>9, <1>10, <1>11 DEF CaseHolds

\* A step that neither changes the case nor writes a row that tells of a change.
LEMMA QuietCase ==
    ASSUME AssistantAssumption, RowsInv, CaseHolds, UNCHANGED <<kept, work, holder, rows>>,
           \A t \in Slots : /\ Live(t) => Live(t)'
                            /\ tx[t].rows \subseteq tx'[t].rows
                            /\ \A r \in tx'[t].rows : r \in tx[t].rows \/ r.made = 0
    PROVE  CaseHolds'
<1>1. holder \in Slots \cup {Unset}
  BY DEF RowsInv, ChatTyped
<1>2. CaseTold(kept, rows, {})
  BY DEF CaseHolds
<1>3. ASSUME holder # Unset
      PROVE  Live(holder)' /\ CaseTold(work, rows, tx'[holder].rows) /\ Shorter(kept, work)
  <2>1. holder \in Slots /\ Live(holder) /\ CaseTold(work, rows, tx[holder].rows)
    BY <1>1, <1>3 DEF CaseHolds
  <2>2. \A r \in tx[holder].rows : r \in tx'[holder].rows
    BY <2>1
  <2>3. CaseTold(work, rows, tx'[holder].rows)
    BY <2>1, <2>2, MoreTold
  <2> QED  BY <1>3, <2>1, <2>3 DEF CaseHolds
<1>4. ASSUME NEW t \in Slots
      PROVE  InCase(tx'[t].rows, View(t))
  <2>1. InCase(tx[t].rows, View(t))
    BY DEF CaseHolds
  <2>2. Len(View(t).form.calcs) \in Nat /\ Len(View(t).form.reports) \in Nat
    <3>1. CASE holder = t
      <4>1. holder # Unset
        BY <3>1 DEF AssistantAssumption
      <4> QED  BY <1>3, <3>1, <4>1, CaseCounts DEF View
    <3>2. CASE holder # t
      BY <1>2, <3>2, CaseCounts DEF View
    <3> QED  BY <3>1, <3>2
  <2> QED  BY <2>1, <2>2 DEF InCase
<1> QED  BY <1>2, <1>3, <1>4 DEF CaseHolds, View

\* What is carried out, the user has asked for and confirmed.
LEMMA OnlyConfirmed ==
    ASSUME NEW s, NEW tool \in Tools, Verdict(s, tool) = "EXECUTE"
    PROVE  /\ tool \in Operation => Allowed(tx[s].message, tool)
           /\ tool \notin Operation => tool = "apply_confirmed_fields" /\ Asked(s).confirmApply
BY DEF Verdict, Tools, Reading, Operation, Allowed, Asked

\* What becomes of another call.
LEMMA Verdicts ==
    ASSUME NEW s, NEW tool \in Tools, Verdict(s, tool) # "EXECUTE"
    PROVE  Verdict(s, tool) \in {"SUCCESS", "PENDING", "DENIED"}
BY DEF Verdict, Tools, Reading, Operation

\* A call that is carried out leaves what its row tells.
LEMMA ExecutedTold ==
    ASSUME AssistantAssumption, NEW s, tx[s].message \in Messages, NEW tool \in Tools,
           Verdict(s, tool) = "EXECUTE", NEW P, NEW R, NEW k, CaseTold(k, P, R),
           NEW a, a = Executed(k.form, s, tool), a.ok,
           NEW cand, cand = IF tool = "apply_confirmed_fields" /\ Asked(s).candidate
                            THEN "APPLIED" ELSE k.candidate,
           NEW l, l = [form |-> a.book, candidate |-> cand],
           Says(R, tx[s].message, tool, a.row)
    PROVE  /\ CaseTold(l, P, R) /\ Shorter(k, l) /\ a.row \in Nat
           /\ tool = "run_calculation" => a.row =< Len(l.form.calcs)
           /\ tool = "generate_report_pdf" => a.row =< Len(l.form.reports)
<1> DEFINE m == tx[s].message
           b == k.form
<1>1. IsBook(b) /\ Requested(b.calcs) /\ Requested(b.runs) /\ Requested(b.reports)
  BY DEF CaseTold, IsBook
<1>2. l.form = a.book /\ l.candidate = cand /\ l = [form |-> l.form, candidate |-> l.candidate]
  OBVIOUS
<1>3. Len(b.calcs) \in Nat /\ Len(b.reports) \in Nat
  BY CaseCounts
<1>4. CASE tool = "run_calculation"
  <2>1. a = CalculateForm(b, m, tx[s].time)
    BY <1>4 DEF Executed
  <2>2. /\ Entered(b.calcs, a.book.calcs, m, a.row)
        /\ a.book.runs = b.runs /\ a.book.reports = b.reports /\ IsBook(a.book)
    BY <1>1, <2>1, CalculationEntered
  <2>3. /\ Len(b.calcs) =< Len(a.book.calcs) /\ a.row \in 1 .. Len(a.book.calcs)
        /\ Len(a.book.calcs) \in Nat
    BY <1>1, <2>2, TableEntered
  <2>4. Allowed(m, "run_calculation")
    BY <1>4, OnlyConfirmed DEF Operation
  <2>5. TableTold(a.book.calcs, "run_calculation", P, R)
    BY <1>1, <1>4, <2>2, <2>4, TableGrows DEF CaseTold
  <2>6. cand = k.candidate
    BY <1>4
  <2>7. CaseTold(l, P, R)
    BY <1>2, <2>2, <2>5, <2>6 DEF CaseTold
  <2> QED  BY <1>2, <1>3, <1>4, <2>2, <2>3, <2>7 DEF Shorter
<1>5. CASE tool = "run_validation"
  <2>1. a = ValidateForm(b, m)
    BY <1>5 DEF Executed
  <2>2. /\ Entered(b.runs, a.book.runs, m, a.row)
        /\ a.book.calcs = b.calcs /\ a.book.reports = b.reports /\ IsBook(a.book)
    BY <1>1, <2>1, CheckEntered
  <2>3. a.row \in 1 .. Len(a.book.runs) /\ Len(a.book.runs) \in Nat
    <3>1. Requested(b.runs) /\ Entered(b.runs, a.book.runs, m, a.row)
      BY <1>1, <2>2
    <3>2. \A q, p, n : Requested(q) /\ Entered(q, p, m, n) =>
              n \in 1 .. Len(p) /\ Len(p) \in Nat
      BY TableEntered
    <3> QED  BY <3>1, <3>2
  <2>4. Allowed(m, "run_validation")
    BY <1>5, OnlyConfirmed DEF Operation
  <2>5. TableTold(a.book.runs, "run_validation", P, R)
    BY <1>1, <1>5, <2>2, <2>4, TableGrows DEF CaseTold
  <2>6. cand = k.candidate
    BY <1>5
  <2>7. CaseTold(l, P, R)
    BY <1>2, <2>2, <2>5, <2>6 DEF CaseTold
  <2> QED  BY <1>2, <1>3, <1>5, <2>2, <2>3, <2>7 DEF Shorter
<1>6. CASE tool = "generate_report_pdf"
  <2>1. a = Report(b, m)
    BY <1>6 DEF Executed
  <2>2. /\ Entered(b.reports, a.book.reports, m, a.row)
        /\ a.book.calcs = b.calcs /\ a.book.runs = b.runs /\ IsBook(a.book)
    BY <1>1, <2>1, PdfEntered
  <2>3. /\ Len(b.reports) =< Len(a.book.reports) /\ a.row \in 1 .. Len(a.book.reports)
        /\ Len(a.book.reports) \in Nat
    BY <1>1, <2>2, TableEntered
  <2>4. Allowed(m, "generate_report_pdf")
    BY <1>6, OnlyConfirmed DEF Operation
  <2>5. TableTold(a.book.reports, "generate_report_pdf", P, R)
    BY <1>1, <1>6, <2>2, <2>4, TableGrows DEF CaseTold
  <2>6. cand = k.candidate
    BY <1>6
  <2>7. CaseTold(l, P, R)
    BY <1>2, <2>2, <2>5, <2>6 DEF CaseTold
  <2> QED  BY <1>2, <1>3, <1>6, <2>2, <2>3, <2>7 DEF Shorter
<1>7. CASE tool = "apply_confirmed_fields"
  <2>1. a = SaveDraft(b, Fields(Asked(s)))
    BY <1>7 DEF Executed
  <2>2. /\ IsBook(a.book) /\ a.row = 0
        /\ a.book.calcs = b.calcs /\ a.book.runs = b.runs /\ a.book.reports = b.reports
    <3>1. a.row = 0
      BY <2>1 DEF SaveDraft, Done, Refused
    <3>2. \E e : a.book = SaveDraft(b, e).book
      BY <2>1
    <3> QED  BY <1>1, <3>1, <3>2, OtherColumnsSet
  <2>3. Asked(s).confirmApply
    BY <1>7, OnlyConfirmed DEF Operation
  <2>4. cand = "APPLIED" => CandidateTold(P, R)
    <3>1. CASE Asked(s).candidate
      BY <1>7, <2>2, <2>3, <3>1 DEF CandidateTold, SaidIn, Asked
    <3>2. CASE ~Asked(s).candidate
      BY <3>2 DEF CaseTold
    <3> QED  BY <3>1, <3>2
  <2>5. CaseTold(l, P, R)
    BY <1>2, <2>2, <2>4 DEF CaseTold
  <2> QED  BY <1>2, <1>3, <1>7, <2>2, <2>5 DEF Shorter
<1> QED  BY <1>4, <1>5, <1>6, <1>7, OnlyConfirmed DEF Operation

\* The call of a message that is carried out.
LEMMA ExecuteInv ==
    ASSUME AssistantAssumption, RowsInv, CaseHolds, NEW s \in Slots, Execute(s),
           ~Fail(s)
    PROVE  RowsInv' /\ CaseHolds'
<1> DEFINE tool == Head(tx[s].calls)
           a == Executed(work.form, s, tool)
           apply == tool = "apply_confirmed_fields"
           done == IF apply THEN tx[s].done ELSE tx[s].done \cup {tool}
           row == NewRow(s, "TOOL", tool, "SUCCESS", a.row)
           cand == IF apply /\ Asked(s).candidate THEN "APPLIED" ELSE work.candidate
           turn == [tx[s] EXCEPT !.rows = tx[s].rows \cup {row}, !.calls = Tail(tx[s].calls),
                                 !.done = done, !.applied = apply \/ tx[s].applied,
                                 !.checked = FALSE]
<1>1. /\ tx[s].phase = "CALLING" /\ tx[s].calls # <<>> /\ holder \in {Unset, s}
      /\ Verdict(s, tool) = "EXECUTE" /\ a.ok
      /\ work' = [form |-> a.book, candidate |-> cand]
      /\ holder' = s
      /\ Called(s, tool, "SUCCESS", a.row, done, apply \/ tx[s].applied)
      /\ UNCHANGED <<kept, rows, sent>>
  BY DEF Execute
<1>2. /\ Live(s) /\ s # Unset /\ tx[s] \in Turns /\ tx[s].message \in Messages
      /\ tool \in Tools
  BY <1>1, HeadTailProperties DEF Live, RowsInv, ChatTyped, Turns, AssistantAssumption
<1>3. \/ apply /\ tool \notin Operation
      \/ tool \in Operation /\ ~apply
  BY <1>1, <1>2, OnlyConfirmed DEF Operation
<1>4. done \in SUBSET Operation /\ (apply \/ tx[s].applied) \in BOOLEAN
  BY <1>2, <1>3 DEF Turns
<1>5. Shorter(kept, work) /\ CaseTold(work, rows, tx[s].rows) /\ CaseTold(kept, rows, {})
  <2>1. CaseTold(kept, rows, {})
    BY DEF CaseHolds
  <2>2. CASE holder = s
    BY <1>2, <2>1, <2>2 DEF CaseHolds
  <2>3. CASE holder = Unset
    <3>1. work = kept
      BY <2>3 DEF CaseHolds
    <3>2. CaseTold(kept, rows, tx[s].rows)
      BY <2>1, MoreTold
    <3> QED  BY <2>1, <3>1, <3>2, CaseCounts DEF Shorter
  <2> QED  BY <1>1, <2>2, <2>3
<1> HIDE DEF a, row, cand, turn, done
<1>6. ASSUME NEW R, tx[s].rows \subseteq R, Says(R, tx[s].message, tool, a.row)
      PROVE  /\ CaseTold(work', rows, R) /\ Shorter(work, work') /\ a.row \in Nat
             /\ tool = "run_calculation" => a.row =< Len(work'.form.calcs)
             /\ tool = "generate_report_pdf" => a.row =< Len(work'.form.reports)
  <2>1. CaseTold(work, rows, R)
    BY <1>5, <1>6, MoreTold
  <2>2. ASSUME NEW l, l = [form |-> a.book, candidate |-> cand]
        PROVE  /\ CaseTold(l, rows, R) /\ Shorter(work, l) /\ a.row \in Nat
               /\ tool = "run_calculation" => a.row =< Len(l.form.calcs)
               /\ tool = "generate_report_pdf" => a.row =< Len(l.form.reports)
    BY <1>1, <1>2, <1>6, <2>1, <2>2, ExecutedTold DEF a, cand
  <2> QED  BY <1>1, <2>2
<1>7. a.row \in Nat
  <2>1. PICK r : r = [message |-> tx[s].message, tool |-> tool, status |-> "SUCCESS",
                      made |-> a.row]
    OBVIOUS
  <2>2. Says(tx[s].rows \cup {r}, tx[s].message, tool, a.row)
    BY <2>1 DEF Says
  <2> QED  BY <1>6, <2>2
<1>8. /\ row \in Row /\ row.message = tx[s].message
      /\ row.tool = tool /\ row.status = "SUCCESS" /\ row.made = a.row
  <2>1. tool \in Tools \cup {Unset} /\ "SUCCESS" \in {"SUCCESS", "PENDING", "DENIED", Unset}
        /\ "TOOL" \in {"TOOL", "ASSISTANT"}
    BY <1>2
  <2> QED  BY <1>2, <1>7, <2>1, RowWritten DEF row
<1>9. RowsInv'
  <2>1. rows' = rows /\ holder' \in Slots \cup {Unset} /\ sent' = sent
    BY <1>1
  <2> QED  BY <1>1, <1>2, <1>4, <1>7, <2>1, CalledRows
<1>10. Says(tx[s].rows \cup {row}, tx[s].message, tool, a.row)
  BY <1>8 DEF Says
<1>11. /\ CaseTold(work', rows, tx[s].rows \cup {row}) /\ Shorter(work, work')
       /\ tool = "run_calculation" => a.row =< Len(work'.form.calcs)
       /\ tool = "generate_report_pdf" => a.row =< Len(work'.form.reports)
  BY <1>6, <1>10
<1>12. /\ tx' = [tx EXCEPT ![s] = turn]
       /\ turn.rows = tx[s].rows \cup {row} /\ turn.phase = "CALLING"
  BY <1>1, <1>2 DEF Called, RowsInv, ChatTyped, Turns, row, turn
<1>13. /\ tx'[s].rows = tx[s].rows \cup {row} /\ Live(s)'
       /\ \A t \in Slots \ {s} : tx'[t] = tx[t]
  BY <1>12 DEF RowsInv, ChatTyped, Live
<1>14. Shorter(kept, work')
  BY <1>5, <1>11, LongerStill
<1>15. \A t \in Slots : InCase(tx'[t].rows, View(t)')
  <2>1. InCase(tx[s].rows, work)
    <3>1. CASE holder = s
      BY <3>1 DEF CaseHolds, View
    <3>2. CASE holder = Unset
      BY <1>2, <3>2 DEF CaseHolds, View
    <3> QED  BY <1>1, <3>1, <3>2
  <2>2. InCase(tx[s].rows, work')
    <3>1. tx[s].rows \in SUBSET Row
      BY <1>2 DEF Turns
    <3> QED  BY <1>5, <1>11, <2>1, <3>1, CaseCounts, StillInCase
  <2>3. InCase(tx'[s].rows, work')
    BY <1>8, <1>11, <1>13, <2>2 DEF InCase
  <2>4. ASSUME NEW t \in Slots \ {s}
        PROVE  InCase(tx'[t].rows, View(t)')
    <3>1. View(t) = kept /\ View(t)' = kept
      BY <1>1, <1>2 DEF View, AssistantAssumption
    <3> QED  BY <1>13, <3>1 DEF CaseHolds
  <2>5. View(s)' = work'
    BY <1>1 DEF View
  <2> QED  BY <2>3, <2>4, <2>5
<1>16. holder' # Unset =>
           Live(holder)' /\ CaseTold(work', rows', tx'[holder'].rows) /\ Shorter(kept', work')
  BY <1>1, <1>11, <1>13, <1>14 DEF Live
<1>17. CaseHolds'
  BY <1>1, <1>2, <1>15, <1>16 DEF CaseHolds
<1> QED  BY <1>9, <1>17

\* Requests that do not go through the assistant leave the tables alone.
LEMMA OtherCase ==
    ASSUME AssistantAssumption, RowsInv, CaseHolds, OtherRequest
    PROVE  CaseHolds'
<1>1. /\ holder = Unset /\ holder' = Unset /\ rows' = rows /\ tx' = tx /\ work' = kept'
      /\ \E c : /\ \/ \E e : c = SaveDraft(kept.form, e).book
                   \/ c = SubmitForm(kept.form).book
                   \/ c = [kept.form EXCEPT !.editable = FALSE]
                /\ kept' = [form |-> c, candidate |-> kept.candidate]
  <2>1. kept = [form |-> kept.form, candidate |-> kept.candidate]
    BY DEF CaseHolds, CaseTold
  <2>2. \A c : [kept EXCEPT !.form = c] = [form |-> c, candidate |-> kept.candidate]
    BY <2>1
  <2>3. kept' = [kept EXCEPT !.form.editable = FALSE] =>
            kept' = [kept EXCEPT !.form = [kept.form EXCEPT !.editable = FALSE]]
    OBVIOUS
  <2> QED  BY <2>2, <2>3 DEF OtherRequest
<1>2. PICK c : /\ \/ \E e : c = SaveDraft(kept.form, e).book
                  \/ c = SubmitForm(kept.form).book
                  \/ c = [kept.form EXCEPT !.editable = FALSE]
               /\ kept' = [form |-> c, candidate |-> kept.candidate]
  BY <1>1
<1>3. /\ IsBook(c) /\ c.calcs = kept.form.calcs /\ c.runs = kept.form.runs
      /\ c.reports = kept.form.reports
  BY <1>2, OtherColumnsSet DEF CaseHolds, CaseTold
<1>4. /\ kept'.form = c /\ kept'.candidate = kept.candidate
      /\ kept' = [form |-> kept'.form, candidate |-> kept'.candidate]
  BY <1>2
<1>5. CaseTold(kept', rows, {})
  BY <1>3, <1>4 DEF CaseHolds, CaseTold
<1>6. \A R : InCase(R, kept) => InCase(R, kept')
  BY <1>3, <1>4 DEF InCase
<1>7. \A t \in Slots : View(t) = kept /\ View(t)' = kept'
  BY <1>1 DEF View, AssistantAssumption
<1> QED  BY <1>1, <1>5, <1>6, <1>7 DEF CaseHolds

---------------------------------------------------------------------------
(* The invariant *)

\* The inductive invariant.
TurnsInv == RowsInv /\ CaseHolds

\* At first nothing is told and nothing is there.
LEMMA TurnsStart ==
    ASSUME AssistantAssumption, ChatInit
    PROVE  TurnsInv
<1>1. /\ kept = [form |-> NewBook, candidate |-> "CONFIRMED"]
      /\ work = kept /\ holder = Unset
      /\ rows = [c \in Chats |-> {}] /\ tx = [s \in Slots |-> Idle] /\ sent = 0
  BY DEF ChatInit
<1>2. Idle \in Turns /\ Idle.phase = "IDLE" /\ Idle.rows = {}
  BY DEF Idle, Turns
<1>3. \A s \in Slots : tx[s] = Idle /\ ~Live(s)
  BY <1>1, <1>2 DEF Live
<1>4. ChatTyped
  BY <1>1, <1>2, <1>3 DEF ChatTyped
<1>5. NumbersRead
  BY <1>2, <1>3 DEF NumbersRead
<1>6. ThreadsHold
  BY <1>1, <1>3, NoRows DEF ThreadsHold
<1>7. CaseTold(kept, rows, {})
  <2>1. kept.form = NewBook /\ kept.candidate = "CONFIRMED"
    BY <1>1
  <2>2. NewBook.calcs = <<>> /\ NewBook.runs = <<>> /\ NewBook.reports = <<>>
    BY DEF NewBook
  <2>3. NewBook = [x \in DOMAIN NewBook |-> NewBook[x]]
    BY DEF NewBook
  <2>4. Requested(<<>>)
    <3>1. <<>> \in Seq({}) /\ Len(<<>>) = 0
      OBVIOUS
    <3> QED  BY <3>1 DEF Requested
  <2>5. IsBook(NewBook)
    BY <2>2, <2>3, <2>4 DEF IsBook
  <2>6. \A tool : TableTold(<<>>, tool, rows, {})
    BY DEF TableTold
  <2> QED  BY <1>1, <2>1, <2>2, <2>5, <2>6 DEF CaseTold
<1>8. CaseHolds
  <2>1. \A k : InCase({}, k)
    BY DEF InCase
  <2> QED  BY <1>1, <1>2, <1>3, <1>7, <2>1 DEF CaseHolds
<1> QED  BY <1>4, <1>5, <1>6, <1>8 DEF RowsInv, TurnsInv

\* A message that ends without a commit leaves nothing.
LEMMA FailInv ==
    ASSUME AssistantAssumption, TurnsInv, NEW s \in Slots, Fail(s)
    PROVE  TurnsInv'
<1>1. /\ tx' = [tx EXCEPT ![s] = Idle] /\ rows' = rows /\ sent' = sent
      /\ holder' \in Slots \cup {Unset}
  BY DEF Fail, TurnsInv, RowsInv, ChatTyped
<1>2. RowsInv'
  BY <1>1, EndRows DEF TurnsInv
<1> QED  BY <1>2, FailCase DEF TurnsInv

\* A message that has its reply.
LEMMA ReplyInv ==
    ASSUME AssistantAssumption, TurnsInv, NEW s \in Slots, Live(s), Reply(s)
    PROVE  TurnsInv'
BY ReplyRows, ReplyCase DEF TurnsInv

\* A message that is sent.
LEMMA SendInv ==
    ASSUME AssistantAssumption, TurnsInv, NEW s \in Slots, NEW m \in Messages, Send(s, m)
    PROVE  TurnsInv'
<1>1. RowsInv'
  BY SendRows DEF TurnsInv
<1>2. /\ UNCHANGED <<kept, work, holder, rows>> /\ tx[s].phase = "IDLE"
      /\ tx'[s].rows = {} /\ \A t \in Slots \ {s} : tx'[t] = tx[t]
  BY DEF Send, Idle, TurnsInv, RowsInv, ChatTyped
<1>3. ~Live(s) /\ tx[s].rows = {}
  BY <1>2 DEF Live, TurnsInv, RowsInv, NumbersRead
<1>4. CaseHolds'
  BY <1>2, <1>3, QuietCase DEF Live, TurnsInv
<1> QED  BY <1>1, <1>4 DEF TurnsInv

\* A message that writes its first row.
LEMMA InsertInv ==
    ASSUME AssistantAssumption, TurnsInv, NEW s \in Slots, Insert(s)
    PROVE  TurnsInv'
<1>1. CASE Fail(s)
  BY <1>1, FailInv
<1>2. CASE ~Fail(s)
  <2> DEFINE row == [NewRow(s, "USER", Unset, Unset, 0) EXCEPT !.no = tx[s].number]
             turn == [tx[s] EXCEPT !.rows = {row}, !.phase = IF Model THEN "ASKING" ELSE "CALLING",
                                   !.calls = IF Model THEN <<>> ELSE FixedCalls(Asked(s))]
  <2>1. RowsInv'
    BY <1>2, InsertRows DEF Insert, TurnsInv
  <2>2. /\ UNCHANGED <<kept, work, holder, rows>> /\ tx[s].phase = "NUMBERED"
        /\ tx' = [tx EXCEPT ![s] = turn] /\ tx \in [Slots -> Turns]
    BY <1>2 DEF Insert, TurnsInv, RowsInv, ChatTyped
  <2>3. row.made = 0
    BY DEF NewRow
  <2> HIDE DEF row
  <2>4. turn.rows = {row}
    BY <2>2 DEF Turns
  <2> HIDE DEF turn
  <2>5. ~Live(s) /\ tx[s].rows = {}
    BY <2>2 DEF Live, TurnsInv, RowsInv, NumbersRead
  <2>6. /\ tx'[s].rows = {row} /\ \A t \in Slots \ {s} : tx'[t] = tx[t]
    BY <2>2, <2>4
  <2>7. CaseHolds'
    BY <2>2, <2>3, <2>5, <2>6, QuietCase DEF Live, TurnsInv
  <2> QED  BY <2>1, <2>7 DEF TurnsInv
<1> QED  BY <1>1, <1>2

\* A call that is not carried out.
LEMMA DeclineInv ==
    ASSUME AssistantAssumption, TurnsInv, NEW s \in Slots, Decline(s)
    PROVE  TurnsInv'
<1> DEFINE tool == Head(tx[s].calls)
           status == Verdict(s, tool)
           row == NewRow(s, "TOOL", tool, status, 0)
           turn == [tx[s] EXCEPT !.rows = tx[s].rows \cup {row}, !.calls = Tail(tx[s].calls),
                                 !.done = tx[s].done, !.applied = tx[s].applied,
                                 !.checked = FALSE]
<1>1. /\ tx[s].phase = "CALLING" /\ tx[s].calls # <<>> /\ status # "EXECUTE"
      /\ Called(s, tool, status, 0, tx[s].done, tx[s].applied)
      /\ UNCHANGED <<kept, work, holder, rows, sent>>
  BY DEF Decline
<1>2. /\ Live(s) /\ tx \in [Slots -> Turns] /\ tool \in Tools
      /\ tx[s].done \in SUBSET Operation /\ tx[s].applied \in BOOLEAN
      /\ holder \in Slots \cup {Unset}
  BY <1>1, HeadTailProperties DEF Live, TurnsInv, RowsInv, ChatTyped, Turns
<1>3. status \in {"SUCCESS", "PENDING", "DENIED"}
  BY <1>1, <1>2, Verdicts
<1> HIDE DEF status, tool
<1>4. RowsInv'
  BY <1>1, <1>2, <1>3, CalledRows DEF TurnsInv
<1>5. row.made = 0
  BY DEF NewRow
<1>6. /\ tx' = [tx EXCEPT ![s] = turn]
      /\ turn.rows = tx[s].rows \cup {row} /\ turn.phase = "CALLING"
  BY <1>1, <1>2 DEF Called, Turns
<1> HIDE DEF row, turn
<1>7. /\ tx'[s].rows = tx[s].rows \cup {row} /\ Live(s)'
      /\ \A t \in Slots \ {s} : tx'[t] = tx[t]
  BY <1>2, <1>6 DEF Live
<1>8. CaseHolds'
  BY <1>1, <1>5, <1>7, QuietCase DEF Live, TurnsInv
<1> QED  BY <1>4, <1>8 DEF TurnsInv

\* A message that goes on without writing.
LEMMA GoesOnInv ==
    ASSUME AssistantAssumption, TurnsInv, NEW s \in Slots, Live(s), NEW turn \in Turns,
           tx' = [tx EXCEPT ![s] = turn], turn.phase \in {"ASKING", "CALLING"},
           turn.message = tx[s].message, turn.rows = tx[s].rows, turn.number = tx[s].number,
           UNCHANGED <<kept, work, holder, rows, sent>>
    PROVE  TurnsInv'
<1>1. /\ tx'[s] = turn /\ \A t \in Slots \ {s} : tx'[t] = tx[t]
      /\ tx' \in [Slots -> Turns] /\ holder \in Slots \cup {Unset}
  BY DEF TurnsInv, RowsInv, ChatTyped
<1>2. Live(s)'
  BY <1>1 DEF Live
<1>3. RowsInv'
  BY <1>1, <1>2, SameRows DEF TurnsInv
<1>4. CaseHolds'
  BY <1>1, <1>2, QuietCase DEF Live, TurnsInv
<1> QED  BY <1>3, <1>4 DEF TurnsInv

\* The candidate is looked at.
LEMMA CheckCandidateInv ==
    ASSUME AssistantAssumption, TurnsInv, NEW s \in Slots, CheckCandidate(s)
    PROVE  TurnsInv'
<1>1. CASE Fail(s)
  BY <1>1, FailInv
<1>2. CASE ~Fail(s)
  <2> DEFINE turn == [tx[s] EXCEPT !.checked = TRUE]
  <2>1. /\ tx[s].phase = "CALLING" /\ tx' = [tx EXCEPT ![s] = turn]
        /\ UNCHANGED <<kept, work, holder, rows, sent>>
    BY <1>2 DEF CheckCandidate, TurnsInv, RowsInv, ChatTyped
  <2>2. /\ Live(s) /\ turn \in Turns /\ turn.phase = "CALLING" /\ turn.message = tx[s].message
        /\ turn.rows = tx[s].rows /\ turn.number = tx[s].number
    BY <2>1 DEF Live, TurnsInv, RowsInv, ChatTyped, Turns
  <2> HIDE DEF turn
  <2> QED  BY <2>1, <2>2, GoesOnInv
<1> QED  BY <1>1, <1>2

\* The model answers.
LEMMA RespondInv ==
    ASSUME AssistantAssumption, TurnsInv, NEW s \in Slots, Respond(s)
    PROVE  TurnsInv'
<1>1. Live(s)
  BY DEF Respond, Live
<1>2. CASE Reply(s) \/ Fail(s)
  BY <1>1, <1>2, ReplyInv, FailInv
<1>3. ASSUME NEW calls \in UNION {[1 .. n -> Tools] : n \in 1 .. MaxCalls},
             tx' = [tx EXCEPT ![s].calls = calls, ![s].phase = "CALLING",
                              ![s].done = {}, ![s].round = @ + 1],
             UNCHANGED <<kept, work, holder, rows, sent>>
      PROVE  TurnsInv'
  <2> DEFINE turn == [tx[s] EXCEPT !.calls = calls, !.phase = "CALLING", !.done = {},
                                   !.round = tx[s].round + 1]
  <2>1. calls \in Seq(Tools)
    <3>1. PICK n \in 1 .. MaxCalls : calls \in [1 .. n -> Tools]
      OBVIOUS
    <3>2. n \in Nat
      BY DEF AssistantAssumption
    <3> QED  BY <3>1, <3>2
  <2>2. tx[s] \in Turns /\ tx' = [tx EXCEPT ![s] = turn]
    BY <1>3 DEF TurnsInv, RowsInv, ChatTyped
  <2>3. /\ turn \in Turns /\ turn.phase = "CALLING" /\ turn.message = tx[s].message
        /\ turn.rows = tx[s].rows /\ turn.number = tx[s].number
    <3>1. tx[s].round + 1 \in Nat /\ {} \in SUBSET Operation
      BY <2>2 DEF Turns
    <3> DEFINE none == {}
               next == tx[s].round + 1
    <3> HIDE DEF none, next
    <3>2. LET w == [tx[s] EXCEPT !.calls = calls, !.phase = "CALLING", !.done = none,
                                       !.round = next]
          IN /\ w \in Turns /\ w.phase = "CALLING" /\ w.message = tx[s].message
             /\ w.rows = tx[s].rows /\ w.number = tx[s].number
      <4>1. none \in SUBSET Operation /\ next \in Nat
        BY <3>1 DEF none, next
      <4> QED  BY <2>1, <2>2, <4>1 DEF Turns
    <3> QED  BY <3>2 DEF none, next
  <2> HIDE DEF turn
  <2> QED  BY <1>1, <1>3, <2>2, <2>3, GoesOnInv
<1> QED  BY <1>2, <1>3 DEF Respond

\* A round of calls ends.
LEMMA EndRoundInv ==
    ASSUME AssistantAssumption, TurnsInv, NEW s \in Slots, EndRound(s)
    PROVE  TurnsInv'
<1>1. Live(s)
  BY DEF EndRound, Live
<1>2. CASE Reply(s) \/ Fail(s)
  BY <1>1, <1>2, ReplyInv, FailInv
<1>3. CASE ~(Reply(s) \/ Fail(s))
  <2> DEFINE turn == [tx[s] EXCEPT !.phase = "ASKING"]
  <2>1. /\ tx' = [tx EXCEPT ![s] = turn]
        /\ UNCHANGED <<kept, work, holder, rows, sent>>
    BY <1>3 DEF EndRound, TurnsInv, RowsInv, ChatTyped
  <2>2. /\ turn \in Turns /\ turn.phase = "ASKING" /\ turn.message = tx[s].message
        /\ turn.rows = tx[s].rows /\ turn.number = tx[s].number
    BY DEF TurnsInv, RowsInv, ChatTyped, Turns
  <2> HIDE DEF turn
  <2> QED  BY <1>1, <2>1, <2>2, GoesOnInv
<1> QED  BY <1>2, <1>3

\* A request that does not go through the assistant.
LEMMA OtherRequestInv ==
    ASSUME AssistantAssumption, TurnsInv, OtherRequest
    PROVE  TurnsInv'
<1>1. UNCHANGED <<holder, rows, tx, sent>>
  BY DEF OtherRequest
<1>2. tx \in [Slots -> Turns] /\ holder \in Slots \cup {Unset}
  BY DEF TurnsInv, RowsInv, ChatTyped
<1>3. RowsInv'
  BY <1>1, <1>2, SameRows DEF TurnsInv
<1>4. CaseHolds'
  BY OtherCase DEF TurnsInv
<1> QED  BY <1>3, <1>4 DEF TurnsInv

\* Every step keeps the invariant.
LEMMA TurnsStep ==
    ASSUME AssistantAssumption, TurnsInv, [ChatNext]_chatVars
    PROVE  TurnsInv'
<1>1. ASSUME NEW s \in Slots, NEW m \in Messages, Send(s, m)
      PROVE  TurnsInv'
  BY <1>1, SendInv
<1>2. ASSUME NEW s \in Slots, Step(s)
      PROVE  TurnsInv'
  <2>1. CASE Execute(s)
    <3>1. CASE Fail(s)
      BY <3>1, FailInv
    <3>2. CASE ~Fail(s)
      BY <2>1, <3>2, ExecuteInv DEF TurnsInv
    <3> QED  BY <3>1, <3>2
  <2>2. CASE Forbid(s)
    BY <2>2, FailInv DEF Forbid
  <2> QED  BY <1>2, <2>1, <2>2, InsertInv, DeclineInv, CheckCandidateInv, RespondInv, EndRoundInv
           DEF Step
<1>3. CASE OtherRequest
  BY <1>3, OtherRequestInv
<1>4. CASE UNCHANGED chatVars
  BY <1>4 DEF chatVars, TurnsInv, RowsInv, ChatTyped, NumbersRead, ThreadsHold, CaseHolds,
              Live, Here, Asked, Seen, View
<1> QED  BY <1>1, <1>2, <1>3, <1>4 DEF ChatNext

\* The invariant says what the form and the rows tell.
LEMMA TurnsTell == ASSUME AssistantAssumption, TurnsInv PROVE TellsWhatHappened
<1>1. BlocksWhole
  BY ThreadsAreWhole DEF TurnsInv, RowsInv
<1>2. CaseTold(kept, rows, {})
  BY DEF TurnsInv, CaseHolds
<1>3. /\ DOMAIN kept.form.calcs = 1 .. Len(kept.form.calcs)
      /\ DOMAIN kept.form.runs = 1 .. Len(kept.form.runs)
      /\ DOMAIN kept.form.reports = 1 .. Len(kept.form.reports)
  BY <1>2 DEF CaseTold, IsBook, Requested
<1>4. \A m, tool, n : SaidIn(rows, {}, m, tool, n) => Told(m, tool, n)
  BY DEF SaidIn, Says, Told
<1>5. \A c \in Chats : InCase(rows[c], kept)
  BY DEF TurnsInv, CaseHolds
<1>6. FormIsAsTold
  <2>1. \A i \in DOMAIN kept.form.calcs : Told(kept.form.calcs[i].request, "run_calculation", i)
    BY <1>2, <1>3, <1>4 DEF CaseTold, TableTold
  <2>2. \A i \in DOMAIN kept.form.runs : Told(kept.form.runs[i].request, "run_validation", i)
    BY <1>2, <1>3, <1>4 DEF CaseTold, TableTold
  <2>3. \A i \in DOMAIN kept.form.reports :
            Told(kept.form.reports[i].request, "generate_report_pdf", i)
    BY <1>2, <1>3, <1>4 DEF CaseTold, TableTold
  <2>4. kept.candidate = "APPLIED" =>
            \E m \in Messages : Ask[m].candidate /\ Told(m, "apply_confirmed_fields", 0)
    BY <1>2, <1>4 DEF CaseTold, CandidateTold
  <2> QED  BY <1>5, <2>1, <2>2, <2>3, <2>4 DEF FormIsAsTold, InCase
<1>7. OnlyWhatWasConfirmed
  <2>1. \A i \in DOMAIN kept.form.calcs : Allowed(kept.form.calcs[i].request, "run_calculation")
    BY <1>2, <1>3 DEF CaseTold, TableTold
  <2>2. \A i \in DOMAIN kept.form.reports :
            Allowed(kept.form.reports[i].request, "generate_report_pdf")
    BY <1>2, <1>3 DEF CaseTold, TableTold
  <2>3. kept.candidate = "APPLIED" =>
            \E m \in Messages : Ask[m].candidate /\ Ask[m].confirmApply
    BY <1>2 DEF CaseTold, CandidateTold
  <2> QED  BY <2>1, <2>2, <2>3 DEF OnlyWhatWasConfirmed, Allowed
<1> QED  BY <1>1, <1>6, <1>7 DEF TellsWhatHappened

\* Whatever the model calls and in whatever order messages, also those sent
\* twice, come and fail: what is in the form is what their rows say and what the
\* user confirmed, and each message is there as a whole.
THEOREM MessagesTellWhatHappened ==
    ASSUME AssistantAssumption
    PROVE  ChatSpec => []TellsWhatHappened
<1>1. ChatInit => TurnsInv
  BY TurnsStart
<1>2. TurnsInv /\ [ChatNext]_chatVars => TurnsInv'
  BY TurnsStep
<1>3. TurnsInv => TellsWhatHappened
  BY TurnsTell
<1> QED  BY <1>1, <1>2, <1>3, PTL DEF ChatSpec
================================================================================
