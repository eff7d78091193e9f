--------------------------------- MODULE Accounts ---------------------------------
(***************************************************************************)
(* Access requests, accounts and the one-time links that set a password    *)
(* (auth/service.py, auth/router.py, auth/mailer.py).  A request of a      *)
(* worker runs in one transaction: what it reads and locks first, the mail *)
(* it sends, and its commit are steps of their own.                        *)
(***************************************************************************)
EXTENDS Naturals, Sequences, FiniteSets

CONSTANTS
    None,
    Workers,        \* requests that run at the same time
    UserNames, Mails,   \* user names and addresses
    MailServer,     \* whether mail is configured
    MaxRequests,    \* access requests
    MaxTokens       \* links

ASSUME AccountAssumption ==
    /\ MailServer \in BOOLEAN /\ MaxRequests \in Nat /\ MaxTokens \in Nat
    /\ None \notin [user : Nat, used : BOOLEAN]

VARIABLES
    requests,   \* account_access_requests
    users,      \* accounts, with the link that set their password
    tokens,     \* password_reset_tokens that are committed
    expired,    \* links whose time is over
    issued,     \* links made so far, committed or not
    work        \* what each worker is doing

vars == <<requests, users, tokens, expired, issued, work>>

Rows(s) == {s[i] : i \in DOMAIN s}

Links == 1 .. MaxTokens

---------------------------------------------------------------------------
(* Rows, locks and the checks *)

Idle == [op |-> "idle"]

Doing(op) == {p \in Workers : work[p].op = op}

SameAccount(a, b) == a.name = b.name \/ a.mail = b.mail

KnownUser(account) == \E u \in Rows(users) : SameAccount(u, account)

PendingRequest(account) ==
    \E r \in Rows(requests) : r.status = "PENDING" /\ SameAccount(r, account)

\* with_for_update on the request: one decision at a time.
RequestFree(r) == \A p \in Doing("decide") : work[p].request # r

\* Mutant: the link is read without FOR UPDATE.
TokenReadable(t) == TRUE

\* with_for_update on the link.
TokenFree(t) == \A p \in Doing("confirm") : work[p].token # t

\* The unique keys of a flush that is not committed make others wait.
KeysFree(account) ==
    \A p \in Doing("decide") :
        work[p].decision = "APPROVED" => ~SameAccount(requests[work[p].request], account)

\* A decision carries the link it made, if any, and whether no mail is left to
\* send.
States ==
    {Idle} \cup [op : {"create"}, account : [name : UserNames, mail : Mails]]
    \cup [op : {"decide"}, request : Nat, decision : {"APPROVED", "REJECTED"},
          token : {None} \cup Links, sent : BOOLEAN]
    \cup [op : {"reset"}, user : Nat, token : Links]
    \cup [op : {"confirm"}, token : Links]

TypeOK ==
    /\ requests \in Seq([name : UserNames, mail : Mails,
                         status : {"PENDING", "APPROVED", "REJECTED"}])
    /\ users \in Seq([name : UserNames, mail : Mails, passwords : Nat])
    /\ tokens \in [Links -> {None} \cup [user : DOMAIN users, used : BOOLEAN]]
    /\ expired \subseteq Links /\ issued \in 0 .. MaxTokens
    /\ work \in [Workers -> States]
    /\ \A p \in Doing("decide") : work[p].request \in DOMAIN requests
    /\ \A p \in Doing("reset") : work[p].user \in DOMAIN users

Init ==
    /\ requests = <<>> /\ users = <<>> /\ tokens = [t \in Links |-> None]
    /\ expired = {} /\ issued = 0
    /\ work = [p \in Workers |-> Idle]

---------------------------------------------------------------------------
(* POST /registration-requests *)

\* create_account_access_request: neither an account nor a pending request.
CreateChecks(p, account) ==
    /\ work[p] = Idle /\ Len(requests) < MaxRequests
    /\ ~KnownUser(account) /\ ~PendingRequest(account)
    /\ work' = [work EXCEPT ![p] = [op |-> "create", account |-> account]]
    /\ UNCHANGED <<requests, users, tokens, expired, issued>>

\* The partial unique indexes refuse a second pending request at the flush.
CreateCommits(p) ==
    /\ work[p].op = "create"
    /\ IF PendingRequest(work[p].account) \/ Len(requests) >= MaxRequests
       THEN UNCHANGED requests
       ELSE requests' = Append(requests,
                [name |-> work[p].account.name, mail |-> work[p].account.mail,
                 status |-> "PENDING"])
    /\ work' = [work EXCEPT ![p] = Idle]
    /\ UNCHANGED <<users, tokens, expired, issued>>

---------------------------------------------------------------------------
(* POST /registration-requests/{id}/decision *)

\* decide_account_access_request, up to the flush of account and link.  The role
\* asked for is there (409 otherwise) and accounts stay active: nothing in the
\* service deactivates either.
Decide(p, r, decision) ==
    /\ work[p] = Idle /\ RequestFree(r) /\ requests[r].status = "PENDING"
    /\ decision = "APPROVED" =>
           ~KnownUser(requests[r]) /\ KeysFree(requests[r]) /\ issued < MaxTokens
    /\ issued' = IF decision = "APPROVED" THEN issued + 1 ELSE issued
    /\ work' = [work EXCEPT ![p] =
           [op |-> "decide", request |-> r, decision |-> decision,
            token |-> IF decision = "APPROVED" THEN issued + 1 ELSE None,
            sent |-> decision = "REJECTED" \/ ~MailServer]]
    /\ UNCHANGED <<requests, users, tokens, expired>>

\* send_password_setup_email: the server may take the mail and still fail, and
\* a failure is answered 503 and rolled back.
MailSetup(p) ==
    /\ work[p].op = "decide" /\ ~work[p].sent
    /\ \/ work' = [work EXCEPT ![p].sent = TRUE]
       \/ work' = [work EXCEPT ![p] = Idle]
    /\ UNCHANGED <<requests, users, tokens, expired, issued>>

\* The link is for the account that is made with it.
LinkedAccount == Len(users) + 1

DecideCommits(p) ==
    /\ work[p].op = "decide" /\ work[p].sent
    /\ requests' = [requests EXCEPT ![work[p].request].status = work[p].decision]
    /\ IF work[p].decision = "APPROVED"
       THEN LET r == requests[work[p].request]
            IN  /\ users' = Append(users, [name |-> r.name, mail |-> r.mail, passwords |-> 0])
                /\ tokens' = [tokens EXCEPT ![work[p].token] =
                                  [user |-> LinkedAccount, used |-> FALSE]]
       ELSE UNCHANGED <<users, tokens>>
    /\ work' = [work EXCEPT ![p] = Idle]
    /\ UNCHANGED <<expired, issued>>

---------------------------------------------------------------------------
(* POST /password-reset-requests and /password-reset-confirm *)

\* password_reset_request of an account that exists: link, mail, commit.
RequestReset(p, u) ==
    /\ work[p] = Idle /\ issued < MaxTokens
    /\ issued' = issued + 1
    /\ work' = [work EXCEPT ![p] = [op |-> "reset", user |-> u, token |-> issued + 1]]
    /\ UNCHANGED <<requests, users, tokens, expired>>

ResetCommits(p) ==
    /\ work[p].op = "reset"
    /\ tokens' = [tokens EXCEPT ![work[p].token] = [user |-> work[p].user, used |-> FALSE]]
    /\ work' = [work EXCEPT ![p] = Idle]
    /\ UNCHANGED <<requests, users, expired, issued>>

\* confirm_password_reset: a link that is there, not used and not over.
Confirm(p, t) ==
    /\ work[p] = Idle /\ TokenFree(t)
    /\ tokens[t] # None /\ ~tokens[t].used /\ t \notin expired
    /\ work' = [work EXCEPT ![p] = [op |-> "confirm", token |-> t]]
    /\ UNCHANGED <<requests, users, tokens, expired, issued>>

ConfirmCommits(p) ==
    /\ work[p].op = "confirm"
    /\ users' = [users EXCEPT ![tokens[work[p].token].user].passwords = @ + 1]
    /\ tokens' = [tokens EXCEPT ![work[p].token].used = TRUE]
    /\ work' = [work EXCEPT ![p] = Idle]
    /\ UNCHANGED <<requests, expired, issued>>

\* The process ends or the database refuses the commit.
RollsBack(p) ==
    /\ work[p] # Idle
    /\ work' = [work EXCEPT ![p] = Idle]
    /\ UNCHANGED <<requests, users, tokens, expired, issued>>

TimePasses(t) ==
    /\ t =< issued /\ t \notin expired
    /\ expired' = expired \cup {t}
    /\ UNCHANGED <<requests, users, tokens, issued, work>>

Next ==
    \/ \E p \in Workers :
           \/ \E n \in UserNames, m \in Mails : CreateChecks(p, [name |-> n, mail |-> m])
           \/ \E r \in DOMAIN requests, d \in {"APPROVED", "REJECTED"} : Decide(p, r, d)
           \/ \E u \in DOMAIN users : RequestReset(p, u)
           \/ \E t \in Links : Confirm(p, t)
           \/ CreateCommits(p) \/ MailSetup(p) \/ DecideCommits(p)
           \/ ResetCommits(p) \/ ConfirmCommits(p) \/ RollsBack(p)
    \/ \E t \in Links : TimePasses(t)

Spec == Init /\ [][Next]_vars

---------------------------------------------------------------------------
(* Properties *)

\* An account stands for exactly one approved request, no two accounts share a
\* name or an address, and a rejected request leaves none, with several
\* administrators deciding at once (decide_account_access_request).
AccountsAreApproved ==
    /\ \A u, v \in DOMAIN users : SameAccount(users[u], users[v]) => u = v
    /\ \A r \in DOMAIN requests :
           requests[r].status = "APPROVED" =>
               \E u \in DOMAIN users :
                   users[u].name = requests[r].name /\ users[u].mail = requests[r].mail
    /\ Len(users) = Cardinality({r \in DOMAIN requests : requests[r].status = "APPROVED"})

\* A request that was approved or rejected stays as it is.
HandledForGood ==
    \A r \in DOMAIN requests :
           requests[r].status # "PENDING" => requests'[r].status = requests[r].status

\* A link sets one password, and passwords are set by links alone, whatever
\* runs at the same time (confirm_password_reset).
LinksSetOnePassword ==
    \A u \in DOMAIN users :
        users[u].passwords =
            Cardinality({t \in Links : tokens[t] # None /\ tokens[t].user = u /\ tokens[t].used})
==================================================================================
