----------------------------- MODULE AccountsProofs -----------------------------
(***************************************************************************)
(* Proofs about Accounts: its types, that a link sets one password, and    *)
(* that accounts stand for approved requests, for any number of workers,   *)
(* requests and links.                                                     *)
(***************************************************************************)
EXTENDS Accounts, FiniteSetTheorems, SequenceTheorems, TLAPS

Approving == {p \in Doing("decide") : work[p].decision = "APPROVED"}

\* Who holds a link that is not committed.
Holders == Approving \cup Doing("reset")

\* A link that is not committed is held by one worker, and was issued.
NewLinksApart ==
    /\ \A t \in Links : tokens[t] # None => t =< issued
    /\ \A p \in Holders : work[p].token \in 1 .. issued /\ tokens[work[p].token] = None
    /\ \A p, q \in Holders : work[p].token = work[q].token => p = q

\* A link is confirmed by one worker, before it is used.
ConfirmsApart ==
    /\ \A p \in Doing("confirm") :
          tokens[work[p].token] # None /\ ~tokens[work[p].token].used
    /\ \A p, q \in Doing("confirm") : work[p].token = work[q].token => p = q

\* A request is decided by one worker, and what is approved has no account.
DecisionsApart ==
    /\ \A p \in Doing("decide") : requests[work[p].request].status = "PENDING"
    /\ \A p, q \in Doing("decide") : work[p].request = work[q].request => p = q
    /\ \A p \in Approving : ~KnownUser(requests[work[p].request])
    /\ \A p, q \in Approving :
          SameAccount(requests[work[p].request], requests[work[q].request]) => p = q

IInv ==
    /\ TypeOK /\ NewLinksApart /\ ConfirmsApart /\ DecisionsApart
    /\ AccountsAreApproved /\ LinksSetOnePassword

---------------------------------------------------------------------------
(* Workers *)

\* One worker goes on and the others stay where they are.
LEMMA WorkerMoves ==
    ASSUME TypeOK, NEW p \in Workers, NEW x \in States, work' = [work EXCEPT ![p] = x]
    PROVE  /\ work' \in [Workers -> States] /\ work'[p] = x
           /\ \A q \in Workers : q # p => work'[q] = work[q]
BY DEF TypeOK

\* The fields of a worker's state.
LEMMA Fields ==
    ASSUME TypeOK, NEW p \in Workers
    PROVE  /\ work[p].op \in {"idle", "create", "decide", "reset", "confirm"}
           /\ work[p].op = "create" => work[p].account \in [name : UserNames, mail : Mails]
           /\ work[p].op = "decide" =>
                 /\ work[p].request \in DOMAIN requests
                 /\ work[p].decision \in {"APPROVED", "REJECTED"}
                 /\ work[p].token \in {None} \cup Links /\ work[p].sent \in BOOLEAN
           /\ work[p].op = "reset" => work[p].user \in DOMAIN users /\ work[p].token \in Links
           /\ work[p].op = "confirm" => work[p].token \in Links
<1>1. work[p] \in States
  BY DEF TypeOK
<1>2. CASE work[p] = Idle
  BY <1>2 DEF Idle
<1>3. CASE work[p] \in [op : {"create"}, account : [name : UserNames, mail : Mails]]
  BY <1>3
<1>4. CASE work[p] \in [op : {"decide"}, request : Nat, decision : {"APPROVED", "REJECTED"},
                        token : {None} \cup Links, sent : BOOLEAN]
  BY <1>4 DEF TypeOK, Doing
<1>5. CASE work[p] \in [op : {"reset"}, user : Nat, token : Links]
  BY <1>5 DEF TypeOK, Doing
<1>6. CASE work[p] \in [op : {"confirm"}, token : Links]
  BY <1>6
<1> QED
  BY <1>1, <1>2, <1>3, <1>4, <1>5, <1>6 DEF States

\* What each column of the tables holds.
LEMMA Columns ==
    ASSUME TypeOK
    PROVE  /\ Len(requests) \in Nat /\ DOMAIN requests = 1 .. Len(requests)
           /\ Len(users) \in Nat /\ DOMAIN users = 1 .. Len(users)
           /\ \A r \in DOMAIN requests :
                 requests[r] \in [name : UserNames, mail : Mails,
                                  status : {"PENDING", "APPROVED", "REJECTED"}]
           /\ \A u \in DOMAIN users :
                 users[u] \in [name : UserNames, mail : Mails, passwords : Nat]
           /\ \A t \in Links :
                 tokens[t] # None => tokens[t] \in [user : DOMAIN users, used : BOOLEAN]
           /\ issued \in Nat /\ Links = 1 .. MaxTokens /\ MaxTokens \in Nat
<1>1. requests \in Seq([name : UserNames, mail : Mails,
                        status : {"PENDING", "APPROVED", "REJECTED"}])
  BY DEF TypeOK
<1>2. users \in Seq([name : UserNames, mail : Mails, passwords : Nat])
  BY DEF TypeOK
<1>3. /\ Len(requests) \in Nat /\ DOMAIN requests = 1 .. Len(requests)
      /\ Len(users) \in Nat /\ DOMAIN users = 1 .. Len(users)
  BY <1>1, <1>2
<1>4. \A r \in DOMAIN requests :
          requests[r] \in [name : UserNames, mail : Mails,
                           status : {"PENDING", "APPROVED", "REJECTED"}]
  BY <1>1, <1>3, ElementOfSeq
<1>5. \A u \in DOMAIN users :
          users[u] \in [name : UserNames, mail : Mails, passwords : Nat]
  BY <1>2, <1>3, ElementOfSeq
<1>6. \A t \in Links : tokens[t] # None => tokens[t] \in [user : DOMAIN users, used : BOOLEAN]
  BY DEF TypeOK
<1>7. issued \in Nat /\ Links = 1 .. MaxTokens /\ MaxTokens \in Nat
  BY AccountAssumption DEF TypeOK, Links, AccountAssumption
<1> QED
  BY <1>3, <1>4, <1>5, <1>6, <1>7

\* Decisions that go on stay apart while accounts stay as they are.
LEMMA DecisionsKept ==
    ASSUME DecisionsApart, UNCHANGED users, Approving' \subseteq Approving,
           Doing("decide")' \subseteq Doing("decide"),
           \A q \in Doing("decide")' :
              requests'[work'[q].request] = requests[work[q].request]
              /\ work'[q].request = work[q].request
    PROVE  DecisionsApart'
<1>1. Approving' \subseteq Doing("decide")'
  BY DEF Approving
<1>2. \A q \in Doing("decide")' : requests'[work'[q].request].status = "PENDING"
  BY DEF DecisionsApart
<1>3. \A q, o \in Doing("decide")' : work'[q].request = work'[o].request => q = o
  BY DEF DecisionsApart
<1>4. Rows(users)' = Rows(users)
  BY DEF Rows
<1>5. \A q \in Approving' : ~\E u \in Rows(users)' : SameAccount(u, requests'[work'[q].request])
  BY <1>1, <1>4 DEF DecisionsApart, KnownUser
<1>6. \A q, o \in Approving' :
          SameAccount(requests'[work'[q].request], requests'[work'[o].request]) => q = o
  BY <1>1 DEF DecisionsApart
<1> QED
  BY <1>2, <1>3, <1>5, <1>6 DEF DecisionsApart, KnownUser

\* A request that is rolled back, or whose work is in vain, leaves the others
\* as they were.
LEMMA Released ==
    ASSUME IInv, NEW p \in Workers, work' = [work EXCEPT ![p] = Idle],
           UNCHANGED <<requests, users, tokens, expired, issued>>
    PROVE  IInv'
<1>1. /\ work' \in [Workers -> States] /\ work'[p] = Idle
      /\ \A q \in Workers : q # p => work'[q] = work[q]
  BY WorkerMoves, Idle \in States DEF IInv, States
<1>2. \A q \in Workers : work'[q].op # "idle" => q # p /\ work'[q] = work[q]
  BY <1>1 DEF Idle
<1>3. /\ Holders' \subseteq Holders /\ Approving' \subseteq Approving
      /\ \A op \in {"decide", "reset", "confirm"} : Doing(op)' \subseteq Doing(op)
      /\ \A q \in Holders' \cup Doing("decide")' \cup Doing("confirm")' \cup Doing("reset")' :
            work'[q] = work[q]
  BY <1>2 DEF Holders, Approving, Doing
<1>4. TypeOK'
  BY <1>1, <1>3 DEF IInv, TypeOK
<1>5. NewLinksApart' /\ ConfirmsApart' /\ DecisionsApart'
  BY <1>3 DEF IInv, NewLinksApart, ConfirmsApart, DecisionsApart, KnownUser, Holders, Approving
<1>6. AccountsAreApproved' /\ LinksSetOnePassword'
  BY DEF IInv, AccountsAreApproved, LinksSetOnePassword
<1> QED
  BY <1>4, <1>5, <1>6 DEF IInv

---------------------------------------------------------------------------
(* Creating and deciding a request *)

\* A new pending request belongs to nobody's decision and to no account.
LEMMA Created ==
    ASSUME IInv, NEW p \in Workers, CreateCommits(p)
    PROVE  IInv'
<1>1. CASE UNCHANGED requests
  BY <1>1, Released DEF CreateCommits
<1>2. CASE ~UNCHANGED requests
  <2> DEFINE a == work[p].account
             new == [name |-> a.name, mail |-> a.mail, status |-> "PENDING"]
  <2>1. /\ requests' = Append(requests, new)
        /\ work' = [work EXCEPT ![p] = Idle]
        /\ UNCHANGED <<users, tokens, expired, issued>>
    BY <1>2 DEF CreateCommits
  <2>2. new \in [name : UserNames, mail : Mails, status : {"PENDING", "APPROVED", "REJECTED"}]
    BY Fields DEF IInv, CreateCommits
  <2> HIDE DEF new
  <2>3. /\ Len(requests') = Len(requests) + 1
        /\ requests' \in Seq([name : UserNames, mail : Mails,
                             status : {"PENDING", "APPROVED", "REJECTED"}])
        /\ \A r \in DOMAIN requests : requests'[r] = requests[r]
        /\ requests'[Len(requests) + 1] = new
    BY <2>1, <2>2, AppendProperties, Columns DEF IInv, TypeOK
  <2>4. DOMAIN requests' = DOMAIN requests \cup {Len(requests) + 1}
    BY <2>3, Columns DEF IInv
  <2>5. new.status = "PENDING"
    BY DEF new
  <2>6. /\ work' \in [Workers -> States] /\ work'[p] = Idle
        /\ \A q \in Workers : q # p => work'[q] = work[q]
    BY <2>1, WorkerMoves, Idle \in States DEF IInv, States
  <2>7. /\ Holders' \subseteq Holders /\ Approving' \subseteq Approving
        /\ \A op \in {"decide", "reset", "confirm"} : Doing(op)' \subseteq Doing(op)
        /\ \A q \in Holders' \cup Doing("decide")' \cup Doing("confirm")' \cup Doing("reset")' :
              work'[q] = work[q]
    BY <2>6 DEF Holders, Approving, Doing, Idle
  <2>8. TypeOK'
    BY <2>1, <2>3, <2>4, <2>6, <2>7 DEF IInv, TypeOK
  <2>9. \A q \in Doing("decide")' : requests'[work'[q].request] = requests[work[q].request]
    BY <2>3, <2>7 DEF IInv, TypeOK
  <2>10. NewLinksApart' /\ ConfirmsApart' /\ LinksSetOnePassword'
    BY <2>1, <2>7 DEF IInv, NewLinksApart, ConfirmsApart, LinksSetOnePassword
  <2>11. DecisionsApart'
    BY <2>1, <2>7, <2>9, DecisionsKept DEF IInv
  <2>12. AccountsAreApproved'
    <3>1. {r \in DOMAIN requests' : requests'[r].status = "APPROVED"} =
              {r \in DOMAIN requests : requests[r].status = "APPROVED"}
      BY <2>3, <2>4, <2>5
    <3> QED
      BY <3>1, <2>1, <2>3, <2>4, <2>5 DEF IInv, AccountsAreApproved
  <2> QED
    BY <2>8, <2>10, <2>11, <2>12 DEF IInv
<1> QED
  BY <1>1, <1>2

\* A decision takes a pending request nobody decides, for an account that
\* neither is there nor is being made, and a link nobody has.
LEMMA Decided ==
    ASSUME IInv, NEW p \in Workers, NEW r \in DOMAIN requests,
           NEW decision \in {"APPROVED", "REJECTED"}, Decide(p, r, decision)
    PROVE  IInv'
<1> DEFINE x == [op |-> "decide", request |-> r, decision |-> decision,
                 token |-> IF decision = "APPROVED" THEN issued + 1 ELSE None,
                 sent |-> decision = "REJECTED" \/ ~MailServer]
<1>1. /\ x.op = "decide" /\ x.request = r /\ x.decision = decision
      /\ decision = "APPROVED" => x.token = issued + 1
  OBVIOUS
<1>2. /\ decision = "APPROVED" => issued + 1 \in Links /\ r \in Nat
      /\ r \in Nat
  BY Columns DEF IInv, Decide
<1>3. x \in States
  BY <1>2, AccountAssumption DEF States, AccountAssumption
<1> HIDE DEF x
<1>4. work' = [work EXCEPT ![p] = x] /\ UNCHANGED <<requests, users, tokens, expired>>
  BY DEF Decide, x
<1>5. /\ work' \in [Workers -> States] /\ work'[p] = x
      /\ \A q \in Workers : q # p => work'[q] = work[q]
  BY <1>3, <1>4, WorkerMoves DEF IInv
<1>6. issued' = (IF decision = "APPROVED" THEN issued + 1 ELSE issued) /\ issued' \in 0 .. MaxTokens
  BY Columns DEF IInv, TypeOK, Decide
<1>7. /\ Doing("decide")' = Doing("decide") \cup {p} /\ p \notin Doing("decide")
      /\ Doing("reset")' = Doing("reset") /\ Doing("confirm")' = Doing("confirm")
      /\ p \notin Doing("reset") /\ p \notin Doing("confirm")
      /\ Approving' = Approving \cup (IF decision = "APPROVED" THEN {p} ELSE {})
      /\ Doing("decide") \subseteq Workers /\ Doing("reset") \subseteq Workers
      /\ Doing("confirm") \subseteq Workers
  BY <1>1, <1>5 DEF Doing, Approving, Decide, Idle
<1>8. TypeOK'
  BY <1>1, <1>4, <1>5, <1>6, <1>7 DEF IInv, TypeOK
<1>9. NewLinksApart'
  BY <1>1, <1>2, <1>4, <1>5, <1>6, <1>7, Columns DEF IInv, NewLinksApart, Holders, Approving
<1>10. ConfirmsApart' /\ LinksSetOnePassword' /\ AccountsAreApproved'
  BY <1>4, <1>5, <1>7 DEF IInv, ConfirmsApart, LinksSetOnePassword, AccountsAreApproved
<1>11. DecisionsApart'
  <2>1. requests[r].status = "PENDING" /\ \A q \in Doing("decide") : work[q].request # r
    BY DEF Decide, RequestFree
  <2>2. CASE decision = "APPROVED"
    <3>1. /\ ~KnownUser(requests[r])
          /\ \A q \in Approving : ~SameAccount(requests[work[q].request], requests[r])
      BY <2>2 DEF Decide, KeysFree, Approving
    <3>2. \A q \in Approving : ~SameAccount(requests[r], requests[work[q].request])
      BY <3>1 DEF SameAccount
    <3> QED
      BY <2>1, <2>2, <3>1, <3>2, <1>1, <1>4, <1>5, <1>7
      DEF IInv, DecisionsApart, KnownUser, Rows, Approving
  <2>3. CASE decision = "REJECTED"
    BY <2>1, <2>3, <1>1, <1>4, <1>5, <1>7 DEF IInv, DecisionsApart, KnownUser, Rows, Approving
  <2> QED
    BY <2>2, <2>3
<1> QED
  BY <1>8, <1>9, <1>10, <1>11 DEF IInv

\* That the mail was sent tells nothing of the decision.
LEMMA Mailed ==
    ASSUME IInv, NEW p \in Workers, MailSetup(p)
    PROVE  IInv'
<1>1. CASE work' = [work EXCEPT ![p] = Idle]
  BY <1>1, Released DEF MailSetup
<1>2. CASE work' = [work EXCEPT ![p].sent = TRUE]
  <2> DEFINE x == [work[p] EXCEPT !.sent = TRUE]
  <2>1. work[p] \in [op : {"decide"}, request : Nat, decision : {"APPROVED", "REJECTED"},
                     token : {None} \cup Links, sent : BOOLEAN]
    BY DEF IInv, TypeOK, States, Idle, MailSetup
  <2>2. /\ x \in [op : {"decide"}, request : Nat, decision : {"APPROVED", "REJECTED"},
                 token : {None} \cup Links, sent : BOOLEAN]
        /\ x.op = "decide" /\ x.request = work[p].request
        /\ x.decision = work[p].decision /\ x.token = work[p].token
    BY <2>1
  <2>3. work[p].op = "decide" /\ x \in States
    BY <2>1, <2>2 DEF States
  <2>4. work' = [work EXCEPT ![p] = x] /\ UNCHANGED <<requests, users, tokens, expired, issued>>
    BY <1>2 DEF MailSetup
  <2> HIDE DEF x
  <2>5. /\ work' \in [Workers -> States] /\ work'[p] = x
        /\ \A q \in Workers : q # p => work'[q] = work[q]
    BY <2>3, <2>4, WorkerMoves DEF IInv
  <2>6. /\ Doing("decide")' = Doing("decide") /\ Doing("reset")' = Doing("reset")
        /\ Doing("confirm")' = Doing("confirm") /\ Approving' = Approving
        /\ Holders' = Holders
    BY <2>2, <2>3, <2>5 DEF Doing, Approving, Holders
  <2>7. /\ \A q \in Doing("decide") : /\ work'[q].request = work[q].request
                                      /\ work'[q].token = work[q].token
        /\ \A q \in Doing("reset") \cup Doing("confirm") : work'[q] = work[q]
    BY <2>2, <2>3, <2>5 DEF Doing
  <2>8. TypeOK'
    BY <2>4, <2>5, <2>6, <2>7 DEF IInv, TypeOK
  <2>9. NewLinksApart'
    BY <2>4, <2>6, <2>7 DEF IInv, NewLinksApart, Holders, Approving
  <2>10. DecisionsApart'
    BY <2>4, <2>6, <2>7, DecisionsKept DEF IInv
  <2>11. ConfirmsApart' /\ LinksSetOnePassword' /\ AccountsAreApproved'
    BY <2>4, <2>6, <2>7 DEF IInv, ConfirmsApart, LinksSetOnePassword, AccountsAreApproved
  <2> QED
    BY <2>8, <2>9, <2>10, <2>11 DEF IInv
<1> QED
  BY <1>1, <1>2 DEF MailSetup

\* What an approval commits: the account of its request, which no one else is
\* approving, with the link it made.
LEMMA Approved ==
    ASSUME IInv, NEW p \in Workers, DecideCommits(p), work[p].decision = "APPROVED"
    PROVE  IInv'
<1> DEFINE r == work[p].request
           row == requests[r]
           new == [name |-> row.name, mail |-> row.mail, passwords |-> 0]
           n == Len(users) + 1
           link == [user |-> n, used |-> FALSE]
           done == [row EXCEPT !.status = "APPROVED"]
<1>1. /\ p \in Approving /\ p \in Holders /\ p \in Doing("decide")
      /\ work[p].op = "decide" /\ r \in DOMAIN requests
      /\ work[p].token \in Links /\ work[p].token \in 1 .. issued
  BY Fields, Columns DEF IInv, DecideCommits, Approving, Holders, Doing, NewLinksApart, TypeOK
<1>2. /\ row \in [name : UserNames, mail : Mails, status : {"PENDING", "APPROVED", "REJECTED"}]
      /\ row.status = "PENDING"
  BY <1>1, Columns DEF IInv, DecisionsApart
<1>3. /\ done \in [name : UserNames, mail : Mails, status : {"PENDING", "APPROVED", "REJECTED"}]
      /\ done.name = row.name /\ done.mail = row.mail /\ done.status = "APPROVED"
  BY <1>2
<1>4. /\ new \in [name : UserNames, mail : Mails, passwords : Nat]
      /\ new.name = row.name /\ new.mail = row.mail /\ new.passwords = 0
  BY <1>2
<1>5. link \in [user : {n}, used : BOOLEAN] /\ link.user = n /\ ~link.used
  OBVIOUS
<1>6. /\ requests' = [requests EXCEPT ![r] = done] /\ users' = Append(users, new)
      /\ tokens' = [tokens EXCEPT ![work[p].token] = link]
      /\ work' = [work EXCEPT ![p] = Idle] /\ UNCHANGED <<expired, issued>>
  BY DEF DecideCommits, LinkedAccount
<1> HIDE DEF new, link, done
<1>7. /\ requests' \in Seq([name : UserNames, mail : Mails,
                           status : {"PENDING", "APPROVED", "REJECTED"}])
      /\ DOMAIN requests' = DOMAIN requests /\ requests'[r] = done
      /\ \A i \in DOMAIN requests : i # r => requests'[i] = requests[i]
  BY <1>1, <1>3, <1>6, Columns, ExceptSeq DEF IInv, TypeOK
<1>8. /\ users' \in Seq([name : UserNames, mail : Mails, passwords : Nat])
      /\ DOMAIN users' = DOMAIN users \cup {n} /\ n \notin DOMAIN users /\ n \in Nat
      /\ Len(users') = n /\ users'[n] = new
      /\ \A u \in DOMAIN users : users'[u] = users[u]
  <2>1. /\ users \in Seq([name : UserNames, mail : Mails, passwords : Nat])
        /\ Len(users) \in Nat /\ DOMAIN users = 1 .. Len(users)
    BY Columns DEF IInv, TypeOK
  <2>2. /\ users' \in Seq([name : UserNames, mail : Mails, passwords : Nat])
        /\ Len(users') = Len(users) + 1 /\ users'[Len(users) + 1] = new
        /\ \A u \in 1 .. Len(users) : users'[u] = users[u]
    BY <2>1, <1>4, <1>6, AppendProperties
  <2> QED
    BY <2>1, <2>2
<1>9. /\ tokens'[work[p].token] = link
      /\ \A t \in Links : t # work[p].token => tokens'[t] = tokens[t]
      /\ tokens' \in [Links -> {None} \cup [user : DOMAIN users', used : BOOLEAN]]
  BY <1>1, <1>5, <1>6, <1>8 DEF IInv, TypeOK
<1>10. /\ work' \in [Workers -> States] /\ work'[p] = Idle
       /\ \A q \in Workers : q # p => work'[q] = work[q]
  BY <1>6, WorkerMoves, Idle \in States DEF IInv, States
<1>11. /\ Holders' \subseteq Holders \ {p} /\ Approving' \subseteq Approving \ {p}
       /\ \A op \in {"decide", "reset", "confirm"} : Doing(op)' \subseteq Doing(op) \ {p}
       /\ \A q \in Holders' \cup Doing("decide")' \cup Doing("confirm")' \cup Doing("reset")' :
             work'[q] = work[q]
       /\ Approving' \subseteq Doing("decide")'
  BY <1>10 DEF Holders, Approving, Doing, Idle
<1>12. TypeOK'
  BY <1>6, <1>7, <1>8, <1>9, <1>10, <1>11 DEF IInv, TypeOK
<1>13. NewLinksApart'
  BY <1>1, <1>6, <1>9, <1>11 DEF IInv, NewLinksApart
<1>14. ConfirmsApart'
  <2>1. \A q \in Doing("confirm") : work[q].token \in Links /\ work[q].token # work[p].token
    BY <1>1, Fields DEF IInv, ConfirmsApart, NewLinksApart, Doing
  <2> QED
    BY <2>1, <1>9, <1>11 DEF IInv, ConfirmsApart
<1>15. DecisionsApart'
  <2>1. \A q \in Doing("decide")' : /\ work'[q] = work[q] /\ work[q].request # r
                                    /\ requests'[work[q].request] = requests[work[q].request]
    BY <1>1, <1>7, <1>11 DEF IInv, DecisionsApart, TypeOK
  <2>2. \A q \in Approving' : ~SameAccount(row, requests[work[q].request])
    BY <1>1, <1>11 DEF IInv, DecisionsApart
  <2>3. \A q \in Approving' : ~SameAccount(new, requests[work[q].request])
    BY <2>2, <1>4 DEF SameAccount
  <2>4. Rows(users)' = Rows(users) \cup {new}
    BY <1>8 DEF Rows
  <2>5. \A q \in Approving' : ~\E u \in Rows(users)' : SameAccount(u, requests'[work'[q].request])
    BY <2>1, <2>3, <2>4, <1>11 DEF IInv, DecisionsApart, KnownUser
  <2>6. \A q \in Doing("decide")' : requests'[work'[q].request].status = "PENDING"
    BY <2>1, <1>11 DEF IInv, DecisionsApart
  <2>7. \A q, o \in Doing("decide")' : work'[q].request = work'[o].request => q = o
    BY <2>1, <1>11 DEF IInv, DecisionsApart
  <2>8. \A q, o \in Approving' :
            SameAccount(requests'[work'[q].request], requests'[work'[o].request]) => q = o
    BY <2>1, <1>11 DEF IInv, DecisionsApart
  <2> QED
    BY <2>5, <2>6, <2>7, <2>8 DEF DecisionsApart, KnownUser
<1>16. AccountsAreApproved'
  <2> DEFINE granted == {i \in DOMAIN requests : requests[i].status = "APPROVED"}
  <2>1. {i \in DOMAIN requests' : requests'[i].status = "APPROVED"} = granted \cup {r} /\ r \notin granted
    BY <1>1, <1>2, <1>3, <1>7
  <2>2. IsFiniteSet(granted)
    <3>1. granted \in SUBSET (1 .. Len(requests)) /\ Len(requests) \in Int
      BY Columns DEF IInv
    <3>2. IsFiniteSet(1 .. Len(requests))
      BY <3>1, FS_Interval
    <3> QED
      BY <3>1, <3>2, FS_Subset
  <2>3. Len(users') = Cardinality({i \in DOMAIN requests' : requests'[i].status = "APPROVED"})
    BY <2>1, <2>2, <1>8, FS_AddElement DEF IInv, AccountsAreApproved
  <2>4. \A u \in DOMAIN users : ~SameAccount(users[u], new) /\ ~SameAccount(new, users[u])
    BY <1>1, <1>4 DEF IInv, DecisionsApart, KnownUser, Rows, SameAccount
  <2>5. \A u, v \in DOMAIN users' : SameAccount(users'[u], users'[v]) => u = v
    BY <2>4, <1>8 DEF IInv, AccountsAreApproved
  <2>6. \A i \in DOMAIN requests' :
            requests'[i].status = "APPROVED" =>
                \E u \in DOMAIN users' :
                    users'[u].name = requests'[i].name /\ users'[u].mail = requests'[i].mail
    <3> SUFFICES ASSUME NEW i \in DOMAIN requests, requests'[i].status = "APPROVED"
                 PROVE  \E u \in DOMAIN users' :
                            users'[u].name = requests'[i].name /\ users'[u].mail = requests'[i].mail
      BY <1>7
    <3>1. CASE i = r
      BY <3>1, <1>3, <1>4, <1>7, <1>8
    <3>2. CASE i # r
      <4>1. PICK u \in DOMAIN users :
                users[u].name = requests[i].name /\ users[u].mail = requests[i].mail
        BY <3>2, <1>7 DEF IInv, AccountsAreApproved
      <4> QED
        BY <4>1, <3>2, <1>7, <1>8
    <3> QED
      BY <3>1, <3>2
  <2> QED
    BY <2>3, <2>5, <2>6 DEF AccountsAreApproved
<1>17. LinksSetOnePassword'
  <2> SUFFICES ASSUME NEW u \in DOMAIN users'
               PROVE  users'[u].passwords =
                          Cardinality({t \in Links : tokens'[t] # None /\ tokens'[t].user = u /\ tokens'[t].used})
    BY DEF LinksSetOnePassword
  <2>1. {t \in Links : tokens'[t] # None /\ tokens'[t].user = u /\ tokens'[t].used} =
            {t \in Links : tokens[t] # None /\ tokens[t].user = u /\ tokens[t].used}
    BY <1>1, <1>5, <1>9 DEF IInv, NewLinksApart
  <2>2. CASE u \in DOMAIN users
    BY <2>1, <2>2, <1>8 DEF IInv, LinksSetOnePassword
  <2>3. CASE u = n
    <3>1. {t \in Links : tokens[t] # None /\ tokens[t].user = u /\ tokens[t].used} = {}
      BY <2>3, <1>8, Columns DEF IInv
    <3> QED
      BY <3>1, <2>1, <2>3, <1>4, <1>8, FS_EmptySet
  <2> QED
    BY <2>2, <2>3, <1>8
<1> QED
  BY <1>12, <1>13, <1>14, <1>15, <1>16, <1>17 DEF IInv

\* A rejection only closes its request.
LEMMA Rejected ==
    ASSUME IInv, NEW p \in Workers, DecideCommits(p), work[p].decision = "REJECTED"
    PROVE  IInv'
<1> DEFINE r == work[p].request
           row == requests[r]
           done == [row EXCEPT !.status = "REJECTED"]
<1>1. p \in Doing("decide") /\ r \in DOMAIN requests
  BY Fields DEF IInv, DecideCommits, Doing
<1>2. /\ row \in [name : UserNames, mail : Mails, status : {"PENDING", "APPROVED", "REJECTED"}]
      /\ row.status = "PENDING"
  BY <1>1, Columns DEF IInv, DecisionsApart
<1>3. /\ done \in [name : UserNames, mail : Mails, status : {"PENDING", "APPROVED", "REJECTED"}]
      /\ done.status = "REJECTED"
  BY <1>2
<1>4. /\ requests' = [requests EXCEPT ![r] = done]
      /\ work' = [work EXCEPT ![p] = Idle] /\ UNCHANGED <<users, tokens, expired, issued>>
  BY DEF DecideCommits
<1> HIDE DEF done
<1>5. /\ requests' \in Seq([name : UserNames, mail : Mails,
                           status : {"PENDING", "APPROVED", "REJECTED"}])
      /\ DOMAIN requests' = DOMAIN requests /\ requests'[r] = done
      /\ \A i \in DOMAIN requests : i # r => requests'[i] = requests[i]
  BY <1>1, <1>3, <1>4, Columns, ExceptSeq DEF IInv, TypeOK
<1>6. /\ work' \in [Workers -> States] /\ work'[p] = Idle
      /\ \A q \in Workers : q # p => work'[q] = work[q]
  BY <1>4, WorkerMoves, Idle \in States DEF IInv, States
<1>7. /\ Holders' \subseteq Holders /\ Approving' \subseteq Approving
      /\ \A op \in {"decide", "reset", "confirm"} : Doing(op)' \subseteq Doing(op) \ {p}
      /\ \A q \in Holders' \cup Doing("decide")' \cup Doing("confirm")' \cup Doing("reset")' :
            work'[q] = work[q]
      /\ Approving' \subseteq Doing("decide")'
  BY <1>6 DEF Holders, Approving, Doing, Idle
<1>8. TypeOK'
  BY <1>4, <1>5, <1>6, <1>7 DEF IInv, TypeOK
<1>9. NewLinksApart' /\ ConfirmsApart' /\ LinksSetOnePassword'
  BY <1>4, <1>7 DEF IInv, NewLinksApart, ConfirmsApart, LinksSetOnePassword
<1>10. DecisionsApart'
  <2>1. \A q \in Doing("decide")' : /\ work'[q] = work[q]
                                    /\ requests'[work[q].request] = requests[work[q].request]
    BY <1>1, <1>5, <1>7 DEF IInv, DecisionsApart, TypeOK
  <2> QED
    BY <2>1, <1>4, <1>7, DecisionsKept DEF IInv
<1>11. AccountsAreApproved'
  <2>1. {i \in DOMAIN requests' : requests'[i].status = "APPROVED"} =
            {i \in DOMAIN requests : requests[i].status = "APPROVED"}
    BY <1>1, <1>2, <1>3, <1>5
  <2> QED
    BY <2>1, <1>3, <1>4, <1>5 DEF IInv, AccountsAreApproved
<1> QED
  BY <1>8, <1>9, <1>10, <1>11 DEF IInv

---------------------------------------------------------------------------
(* Links *)

\* A reset makes a link nobody has.
LEMMA ResetRequested ==
    ASSUME IInv, NEW p \in Workers, NEW u \in DOMAIN users, RequestReset(p, u)
    PROVE  IInv'
<1> DEFINE x == [op |-> "reset", user |-> u, token |-> issued + 1]
<1>1. x.op = "reset" /\ x.user = u /\ x.token = issued + 1
  OBVIOUS
<1>2. issued + 1 \in Links /\ issued' \in 0 .. MaxTokens /\ u \in Nat /\ issued \in Nat
  BY Columns DEF IInv, TypeOK, RequestReset
<1>3. x \in States
  BY <1>2 DEF States
<1> HIDE DEF x
<1>4. /\ work' = [work EXCEPT ![p] = x] /\ issued' = issued + 1
      /\ UNCHANGED <<requests, users, tokens, expired>>
  BY DEF RequestReset, x
<1>5. /\ work' \in [Workers -> States] /\ work'[p] = x
      /\ \A q \in Workers : q # p => work'[q] = work[q]
  BY <1>3, <1>4, WorkerMoves DEF IInv
<1>6. /\ Doing("reset")' = Doing("reset") \cup {p} /\ p \notin Doing("reset")
      /\ Doing("decide")' = Doing("decide") /\ Doing("confirm")' = Doing("confirm")
      /\ Approving' = Approving /\ Approving \subseteq Doing("decide")
      /\ p \notin Doing("decide") /\ p \notin Doing("confirm")
      /\ Doing("decide") \subseteq Workers /\ Doing("reset") \subseteq Workers
      /\ Doing("confirm") \subseteq Workers
  BY <1>1, <1>5 DEF Doing, Approving, RequestReset, Idle
<1>7. TypeOK'
  BY <1>1, <1>2, <1>4, <1>5, <1>6 DEF IInv, TypeOK
<1>8. NewLinksApart'
  BY <1>1, <1>2, <1>4, <1>5, <1>6, Columns DEF IInv, NewLinksApart, Holders
<1>9. DecisionsApart'
  BY <1>4, <1>5, <1>6, DecisionsKept DEF IInv
<1>10. ConfirmsApart' /\ LinksSetOnePassword' /\ AccountsAreApproved'
  BY <1>4, <1>5, <1>6 DEF IInv, ConfirmsApart, LinksSetOnePassword, AccountsAreApproved
<1> QED
  BY <1>7, <1>8, <1>9, <1>10 DEF IInv

\* Its link is committed unused.
LEMMA ResetCommitted ==
    ASSUME IInv, NEW p \in Workers, ResetCommits(p)
    PROVE  IInv'
<1> DEFINE link == [user |-> work[p].user, used |-> FALSE]
<1>1. /\ p \in Doing("reset") /\ p \in Holders /\ work[p].user \in DOMAIN users
      /\ work[p].token \in Links /\ work[p].token \in 1 .. issued
  BY Fields DEF IInv, ResetCommits, Holders, Doing, NewLinksApart
<1>2. link \in [user : DOMAIN users, used : BOOLEAN] /\ ~link.used
  BY <1>1
<1> HIDE DEF link
<1>3. /\ tokens' = [tokens EXCEPT ![work[p].token] = link]
      /\ work' = [work EXCEPT ![p] = Idle] /\ UNCHANGED <<requests, users, expired, issued>>
  BY DEF ResetCommits, link
<1>4. /\ tokens'[work[p].token] = link
      /\ \A t \in Links : t # work[p].token => tokens'[t] = tokens[t]
      /\ tokens' \in [Links -> {None} \cup [user : DOMAIN users, used : BOOLEAN]]
  BY <1>1, <1>2, <1>3 DEF IInv, TypeOK
<1>5. /\ work' \in [Workers -> States] /\ work'[p] = Idle
      /\ \A q \in Workers : q # p => work'[q] = work[q]
  BY <1>3, WorkerMoves, Idle \in States DEF IInv, States
<1>6. /\ Holders' \subseteq Holders \ {p} /\ Approving' \subseteq Approving
      /\ \A op \in {"decide", "reset", "confirm"} : Doing(op)' \subseteq Doing(op)
      /\ \A q \in Holders' \cup Doing("decide")' \cup Doing("confirm")' \cup Doing("reset")' :
            work'[q] = work[q]
      /\ Approving' \subseteq Doing("decide")'
  BY <1>5 DEF Holders, Approving, Doing, Idle
<1>7. TypeOK'
  BY <1>3, <1>4, <1>5, <1>6 DEF IInv, TypeOK
<1>8. NewLinksApart'
  BY <1>1, <1>3, <1>4, <1>6 DEF IInv, NewLinksApart
<1>9. ConfirmsApart'
  <2>1. \A q \in Doing("confirm") : work[q].token \in Links /\ work[q].token # work[p].token
    BY <1>1, Fields DEF IInv, ConfirmsApart, NewLinksApart, Doing
  <2> QED
    BY <2>1, <1>4, <1>6 DEF IInv, ConfirmsApart
<1>10. DecisionsApart'
  BY <1>3, <1>6, DecisionsKept DEF IInv
<1>11. LinksSetOnePassword'
  <2>1. \A u \in DOMAIN users :
            {t \in Links : tokens'[t] # None /\ tokens'[t].user = u /\ tokens'[t].used} =
            {t \in Links : tokens[t] # None /\ tokens[t].user = u /\ tokens[t].used}
    BY <1>1, <1>2, <1>4 DEF IInv, NewLinksApart
  <2> QED
    BY <2>1, <1>3 DEF IInv, LinksSetOnePassword
<1>12. AccountsAreApproved'
  BY <1>3 DEF IInv, AccountsAreApproved
<1> QED
  BY <1>7, <1>8, <1>9, <1>10, <1>11, <1>12 DEF IInv

\* A confirmation takes a link that is there, not used, and that nobody else
\* confirms.
LEMMA ConfirmTaken ==
    ASSUME IInv, NEW p \in Workers, NEW t \in Links, Confirm(p, t)
    PROVE  IInv'
<1> DEFINE x == [op |-> "confirm", token |-> t]
<1>1. x \in States /\ x.op = "confirm" /\ x.token = t
  BY DEF States
<1> HIDE DEF x
<1>2. work' = [work EXCEPT ![p] = x] /\ UNCHANGED <<requests, users, tokens, expired, issued>>
  BY DEF Confirm, x
<1>3. /\ work' \in [Workers -> States] /\ work'[p] = x
      /\ \A q \in Workers : q # p => work'[q] = work[q]
  BY <1>1, <1>2, WorkerMoves DEF IInv
<1>4. /\ Doing("confirm")' = Doing("confirm") \cup {p} /\ p \notin Doing("confirm")
      /\ Doing("decide")' = Doing("decide") /\ Doing("reset")' = Doing("reset")
      /\ Approving' = Approving /\ Holders' = Holders
      /\ \A q \in Doing("decide") \cup Doing("reset") \cup Doing("confirm") \cup Holders :
            work'[q] = work[q]
  BY <1>1, <1>3 DEF Doing, Approving, Holders, Confirm, Idle
<1>5. TypeOK'
  BY <1>2, <1>3, <1>4 DEF IInv, TypeOK
<1>6. NewLinksApart'
  BY <1>2, <1>4 DEF IInv, NewLinksApart
<1>7. ConfirmsApart'
  <2>1. tokens[t] # None /\ ~tokens[t].used /\ \A q \in Doing("confirm") : work[q].token # t
    BY DEF Confirm, TokenFree
  <2> QED
    BY <2>1, <1>1, <1>2, <1>3, <1>4 DEF IInv, ConfirmsApart
<1>8. DecisionsApart'
  BY <1>2, <1>4, DecisionsKept DEF IInv
<1>9. LinksSetOnePassword' /\ AccountsAreApproved'
  BY <1>2 DEF IInv, LinksSetOnePassword, AccountsAreApproved
<1> QED
  BY <1>5, <1>6, <1>7, <1>8, <1>9 DEF IInv

\* The password it sets is the first one of its link.
LEMMA ConfirmCommitted ==
    ASSUME IInv, NEW p \in Workers, ConfirmCommits(p)
    PROVE  IInv'
<1> DEFINE t == work[p].token
           k == tokens[t].user
           link == [tokens[t] EXCEPT !.used = TRUE]
           row == [users[k] EXCEPT !.passwords = @ + 1]
<1>1. p \in Doing("confirm") /\ t \in Links
  BY Fields DEF IInv, ConfirmCommits, Doing
<1>2. tokens[t] # None /\ tokens[t] \in [user : DOMAIN users, used : BOOLEAN] /\ ~tokens[t].used
  BY <1>1, Columns DEF IInv, ConfirmsApart
<1>3. /\ link \in [user : DOMAIN users, used : BOOLEAN] /\ link.user = k /\ link.used
      /\ k \in DOMAIN users
  BY <1>2
<1>4. link # None
  <2>1. DOMAIN users \subseteq Nat
    BY Columns DEF IInv
  <2>2. link \in [user : Nat, used : BOOLEAN]
    BY <2>1, <1>3
  <2> QED
    BY <2>2, AccountAssumption DEF AccountAssumption
<1>5. users[k] \in [name : UserNames, mail : Mails, passwords : Nat]
  BY <1>3, Columns DEF IInv
<1>6. /\ row \in [name : UserNames, mail : Mails, passwords : Nat]
      /\ row.name = users[k].name /\ row.mail = users[k].mail
      /\ row.passwords = users[k].passwords + 1
  BY <1>5
<1>7. /\ users' = [users EXCEPT ![k] = row] /\ tokens' = [tokens EXCEPT ![t] = link]
      /\ work' = [work EXCEPT ![p] = Idle] /\ UNCHANGED <<requests, expired, issued>>
  BY DEF ConfirmCommits
<1> HIDE DEF link, row
<1>8. /\ users' \in Seq([name : UserNames, mail : Mails, passwords : Nat])
      /\ DOMAIN users' = DOMAIN users /\ Len(users') = Len(users) /\ users'[k] = row
      /\ \A u \in DOMAIN users : u # k => users'[u] = users[u]
  <2>1. users \in Seq([name : UserNames, mail : Mails, passwords : Nat]) /\ DOMAIN users = 1 .. Len(users)
    BY Columns DEF IInv, TypeOK
  <2> QED
    BY <2>1, <1>3, <1>6, <1>7, ExceptSeq
<1>9. \A u \in DOMAIN users : users'[u].name = users[u].name /\ users'[u].mail = users[u].mail
  BY <1>6, <1>8
<1>10. /\ tokens'[t] = link /\ \A s \in Links : s # t => tokens'[s] = tokens[s]
       /\ tokens' \in [Links -> {None} \cup [user : DOMAIN users', used : BOOLEAN]]
  BY <1>1, <1>3, <1>7, <1>8 DEF IInv, TypeOK
<1>11. /\ work' \in [Workers -> States] /\ work'[p] = Idle
       /\ \A q \in Workers : q # p => work'[q] = work[q]
  BY <1>7, WorkerMoves, Idle \in States DEF IInv, States
<1>12. /\ Holders' \subseteq Holders /\ Approving' \subseteq Approving
       /\ \A op \in {"decide", "reset", "confirm"} : Doing(op)' \subseteq Doing(op) \ {p}
       /\ \A q \in Holders' \cup Doing("decide")' \cup Doing("confirm")' \cup Doing("reset")' :
             work'[q] = work[q]
       /\ Approving' \subseteq Doing("decide")'
  BY <1>11 DEF Holders, Approving, Doing, Idle
<1>13. TypeOK'
  BY <1>7, <1>8, <1>10, <1>11, <1>12 DEF IInv, TypeOK
<1>14. NewLinksApart'
  <2>1. \A q \in Holders : work[q].token # t /\ work[q].token \in Links
    BY <1>2, Columns, Fields DEF IInv, NewLinksApart, Holders, Approving, Doing, TypeOK
  <2>2. t =< issued
    BY <1>1, <1>2 DEF IInv, NewLinksApart
  <2> QED
    BY <2>1, <2>2, <1>7, <1>10, <1>12 DEF IInv, NewLinksApart
<1>15. ConfirmsApart'
  <2>1. \A q \in Doing("confirm")' : work[q].token \in Links /\ work[q].token # t
    BY <1>1, <1>12, Fields DEF IInv, ConfirmsApart, Doing
  <2> QED
    BY <2>1, <1>10, <1>12 DEF IInv, ConfirmsApart
<1>16. DecisionsApart'
  <2>1. \A a : KnownUser(a)' => KnownUser(a)
    <3> SUFFICES ASSUME NEW a, NEW u \in DOMAIN users, SameAccount(users'[u], a)
                 PROVE  KnownUser(a)
      BY <1>8 DEF KnownUser, Rows
    <3>1. SameAccount(users[u], a)
      BY <1>9 DEF SameAccount
    <3> QED
      BY <3>1 DEF KnownUser, Rows
  <2>2. \A q \in Approving' : ~\E u \in Rows(users)' : SameAccount(u, requests'[work'[q].request])
    BY <2>1, <1>7, <1>12 DEF IInv, DecisionsApart, KnownUser
  <2>3. \A q \in Doing("decide")' : requests'[work'[q].request].status = "PENDING"
    BY <1>7, <1>12 DEF IInv, DecisionsApart
  <2>4. \A q, o \in Doing("decide")' : work'[q].request = work'[o].request => q = o
    BY <1>12 DEF IInv, DecisionsApart
  <2>5. \A q, o \in Approving' :
            SameAccount(requests'[work'[q].request], requests'[work'[o].request]) => q = o
    BY <1>7, <1>12 DEF IInv, DecisionsApart
  <2> QED
    BY <2>2, <2>3, <2>4, <2>5 DEF DecisionsApart, KnownUser
<1>17. AccountsAreApproved'
  <2>1. \A u, v \in DOMAIN users' : SameAccount(users'[u], users'[v]) => u = v
    BY <1>8, <1>9 DEF IInv, AccountsAreApproved, SameAccount
  <2>2. \A r \in DOMAIN requests :
            requests[r].status = "APPROVED" =>
                \E u \in DOMAIN users' :
                    users'[u].name = requests[r].name /\ users'[u].mail = requests[r].mail
    BY <1>8, <1>9 DEF IInv, AccountsAreApproved
  <2> QED
    BY <2>1, <2>2, <1>7, <1>8 DEF IInv, AccountsAreApproved
<1>18. LinksSetOnePassword'
  <2> SUFFICES ASSUME NEW u \in DOMAIN users
               PROVE  users'[u].passwords =
                          Cardinality({s \in Links : tokens'[s] # None /\ tokens'[s].user = u /\ tokens'[s].used})
    BY <1>8 DEF LinksSetOnePassword
  <2> DEFINE used == {s \in Links : tokens[s] # None /\ tokens[s].user = u /\ tokens[s].used}
  <2>1. users[u].passwords = Cardinality(used)
    BY DEF IInv, LinksSetOnePassword
  <2>2. CASE u = k
    <3>1. /\ {s \in Links : tokens'[s] # None /\ tokens'[s].user = u /\ tokens'[s].used} = used \cup {t}
          /\ t \notin used
      BY <2>2, <1>1, <1>2, <1>3, <1>4, <1>10
    <3>2. IsFiniteSet(used)
      <4>1. used \in SUBSET Links /\ Links = 1 .. MaxTokens /\ MaxTokens \in Int
        BY Columns DEF IInv
      <4>2. IsFiniteSet(Links)
        BY <4>1, FS_Interval
      <4> QED
        BY <4>1, <4>2, FS_Subset
    <3>3. Cardinality(used \cup {t}) = Cardinality(used) + 1
      BY <3>1, <3>2, FS_AddElement
    <3> QED
      BY <2>1, <2>2, <3>1, <3>3, <1>6, <1>8
  <2>3. CASE u # k
    <3>1. {s \in Links : tokens'[s] # None /\ tokens'[s].user = u /\ tokens'[s].used} = used
      BY <2>3, <1>1, <1>2, <1>3, <1>10
    <3> QED
      BY <2>1, <2>3, <3>1, <1>8
  <2> QED
    BY <2>2, <2>3
<1> QED
  BY <1>13, <1>14, <1>15, <1>16, <1>17, <1>18 DEF IInv

---------------------------------------------------------------------------
(* The theorems *)

\* A request that was only checked is nobody's decision and holds no link.
LEMMA CreateChecked ==
    ASSUME IInv, NEW p \in Workers, NEW a \in [name : UserNames, mail : Mails],
           CreateChecks(p, a)
    PROVE  IInv'
<1> DEFINE x == [op |-> "create", account |-> a]
<1>1. x \in States /\ x.op = "create"
  BY DEF States
<1> HIDE DEF x
<1>2. work' = [work EXCEPT ![p] = x] /\ UNCHANGED <<requests, users, tokens, expired, issued>>
  BY DEF CreateChecks, x
<1>3. /\ work' \in [Workers -> States] /\ work'[p] = x
      /\ \A q \in Workers : q # p => work'[q] = work[q]
  BY <1>1, <1>2, WorkerMoves DEF IInv
<1>4. /\ Holders' \subseteq Holders /\ Approving' \subseteq Approving
      /\ \A op \in {"decide", "reset", "confirm"} : Doing(op)' \subseteq Doing(op)
      /\ \A q \in Holders' \cup Doing("decide")' \cup Doing("confirm")' \cup Doing("reset")' :
            work'[q] = work[q]
  BY <1>1, <1>3 DEF Holders, Approving, Doing
<1>5. TypeOK'
  BY <1>2, <1>3, <1>4 DEF IInv, TypeOK
<1>6. NewLinksApart' /\ ConfirmsApart'
  BY <1>2, <1>4 DEF IInv, NewLinksApart, ConfirmsApart
<1>7. DecisionsApart'
  BY <1>2, <1>4, DecisionsKept DEF IInv
<1>8. LinksSetOnePassword' /\ AccountsAreApproved'
  BY <1>2 DEF IInv, LinksSetOnePassword, AccountsAreApproved
<1> QED
  BY <1>5, <1>6, <1>7, <1>8 DEF IInv

\* The invariant says nothing of time but which links may be over.
LEMMA TimeKeeps ==
    ASSUME IInv, expired' \subseteq Links, UNCHANGED <<requests, users, tokens, issued, work>>
    PROVE  IInv'
<1>1. /\ \A op \in {"decide", "reset", "confirm"} : Doing(op)' = Doing(op)
      /\ Approving' = Approving /\ Holders' = Holders
  BY DEF Doing, Approving, Holders
<1>2. TypeOK'
  BY <1>1 DEF IInv, TypeOK
<1>3. NewLinksApart' /\ ConfirmsApart'
  BY <1>1 DEF IInv, NewLinksApart, ConfirmsApart
<1>4. DecisionsApart'
  BY <1>1, DecisionsKept DEF IInv
<1>5. LinksSetOnePassword' /\ AccountsAreApproved'
  BY DEF IInv, LinksSetOnePassword, AccountsAreApproved
<1> QED
  BY <1>2, <1>3, <1>4, <1>5 DEF IInv

LEMMA InitInv == Init => IInv
<1> SUFFICES ASSUME Init PROVE IInv
  OBVIOUS
<1>1. /\ requests = <<>> /\ users = <<>> /\ tokens = [t \in Links |-> None]
      /\ expired = {} /\ issued = 0 /\ work = [p \in Workers |-> Idle]
  BY DEF Init
<1>2. DOMAIN requests = {} /\ DOMAIN users = {} /\ Len(users) = 0
  BY <1>1
<1>3. /\ Doing("decide") = {} /\ Doing("reset") = {} /\ Doing("confirm") = {}
      /\ Approving = {} /\ Holders = {}
  BY <1>1 DEF Doing, Idle, Approving, Holders
<1>4. TypeOK
  <2>1. /\ requests \in Seq([name : UserNames, mail : Mails,
                            status : {"PENDING", "APPROVED", "REJECTED"}])
        /\ users \in Seq([name : UserNames, mail : Mails, passwords : Nat])
    BY <1>1
  <2>2. work \in [Workers -> States] /\ tokens \in [Links -> {None} \cup [user : DOMAIN users, used : BOOLEAN]]
    BY <1>1 DEF States
  <2>3. expired \subseteq Links /\ issued \in 0 .. MaxTokens
    BY <1>1, AccountAssumption DEF AccountAssumption
  <2> QED
    BY <2>1, <2>2, <2>3, <1>3 DEF TypeOK
<1>5. NewLinksApart /\ ConfirmsApart /\ DecisionsApart
  BY <1>1, <1>3 DEF NewLinksApart, ConfirmsApart, DecisionsApart
<1>6. AccountsAreApproved
  <2>1. {r \in DOMAIN requests : requests[r].status = "APPROVED"} = {}
    BY <1>2
  <2> QED
    BY <2>1, <1>2, FS_EmptySet DEF AccountsAreApproved
<1>7. LinksSetOnePassword
  BY <1>2 DEF LinksSetOnePassword
<1> QED
  BY <1>4, <1>5, <1>6, <1>7 DEF IInv

LEMMA NextInv == IInv /\ [Next]_vars => IInv'
<1> SUFFICES ASSUME IInv, [Next]_vars PROVE IInv'
  OBVIOUS
<1>1. CASE UNCHANGED vars
  BY <1>1, TimeKeeps DEF vars, IInv, TypeOK
<1>2. ASSUME NEW p \in Workers, NEW n \in UserNames, NEW m \in Mails,
             CreateChecks(p, [name |-> n, mail |-> m])
      PROVE  IInv'
  <2>1. [name |-> n, mail |-> m] \in [name : UserNames, mail : Mails]
    OBVIOUS
  <2> QED
    BY <2>1, <1>2, CreateChecked
<1>3. ASSUME NEW p \in Workers, DecideCommits(p) PROVE IInv'
  <2>1. work[p].decision \in {"APPROVED", "REJECTED"}
    BY <1>3, Fields DEF IInv, DecideCommits
  <2> QED
    BY <2>1, <1>3, Approved, Rejected
<1>4. ASSUME NEW p \in Workers, RollsBack(p) PROVE IInv'
  BY <1>4, Released DEF RollsBack
<1>5. ASSUME NEW t \in Links, TimePasses(t) PROVE IInv'
  BY <1>5, TimeKeeps DEF IInv, TypeOK, TimePasses
<1> QED
  BY <1>1, <1>2, <1>3, <1>4, <1>5, Created, Decided, Mailed, ResetRequested, ResetCommitted,
     ConfirmTaken, ConfirmCommitted DEF Next

LEMMA InvariantHolds == Spec => []IInv
BY InitInv, NextInv, PTL DEF Spec

\* The tables, the links and the work of every worker have their types.
THEOREM TypesHold == Spec => []TypeOK
<1>1. IInv => TypeOK
  BY DEF IInv
<1> QED
  BY <1>1, InvariantHolds, PTL

\* A link sets one password and only links set passwords, for any number of
\* workers that confirm, reset and approve at the same time.
THEOREM PasswordsAreOfLinks == Spec => []LinksSetOnePassword
<1>1. IInv => LinksSetOnePassword
  BY DEF IInv
<1> QED
  BY <1>1, InvariantHolds, PTL

\* Accounts and approved requests are one to one, for any number of
\* administrators that decide at the same time.
THEOREM AccountsAreOfRequests == Spec => []AccountsAreApproved
<1>1. IInv => AccountsAreApproved
  BY DEF IInv
<1> QED
  BY <1>1, InvariantHolds, PTL

\* No step takes a decision about a request back.
THEOREM DecisionsAreForGood == Spec => [][HandledForGood]_vars
<1>1. IInv /\ [Next]_vars => [HandledForGood]_vars
  <2> SUFFICES ASSUME IInv, Next, NEW r \in DOMAIN requests, requests[r].status # "PENDING"
               PROVE  requests'[r].status = requests[r].status
    BY DEF HandledForGood
  <2>1. CASE \E p \in Workers : CreateCommits(p)
    <3>1. PICK p \in Workers : CreateCommits(p)
      BY <2>1
    <3> DEFINE new == [name |-> work[p].account.name, mail |-> work[p].account.mail, status |-> "PENDING"]
    <3>2. UNCHANGED requests \/ requests' = Append(requests, new)
      BY <3>1 DEF CreateCommits
    <3>3. new \in [name : UserNames, mail : Mails, status : {"PENDING", "APPROVED", "REJECTED"}]
      BY <3>1, Fields DEF IInv, CreateCommits
    <3> HIDE DEF new
    <3>4. /\ requests \in Seq([name : UserNames, mail : Mails,
                               status : {"PENDING", "APPROVED", "REJECTED"}])
          /\ r \in 1 .. Len(requests)
      BY Columns DEF IInv, TypeOK
    <3> QED
      BY <3>2, <3>3, <3>4, AppendProperties
  <2>2. CASE \E p \in Workers : DecideCommits(p)
    <3>1. PICK p \in Workers : DecideCommits(p)
      BY <2>2
    <3>2. work[p].request # r
      BY <3>1, Fields DEF IInv, DecisionsApart, DecideCommits, Doing
    <3> QED
      BY <3>1, <3>2 DEF DecideCommits
  <2>3. CASE UNCHANGED requests
    BY <2>3
  <2> QED
    BY <2>1, <2>2, <2>3 DEF Next, CreateChecks, Decide, RequestReset, Confirm, MailSetup,
       ResetCommits, ConfirmCommits, RollsBack, TimePasses
<1> QED
  BY <1>1, InvariantHolds, PTL DEF Spec

=============================================================================
