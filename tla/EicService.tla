----------------------------- MODULE EicService -----------------------------
(***************************************************************************)
(* The e-mail identity confirmation service (bcr-wdc-eic-service).         *)
(*                                                                         *)
(* A node asks for a challenge, registers an e-mail address with the       *)
(* signed challenge, gets a code by mail, and confirms the code; the mint  *)
(* then signs the binding of the node (or a company of it) to the address, *)
(* stores it and tells the notification service (ENS).                     *)
(*                                                                         *)
(* Every HTTP request is a process.  Its steps are the awaits of its       *)
(* handler: one call of a repository, of the mail provider or of ENS each, *)
(* together with the local code up to the next await.  Requests interleave *)
(* freely between them.  A request that is refused before it changes       *)
(* anything leaves no trace and has no step.                               *)
(***************************************************************************)
EXTENDS Integers, FiniteSets

CONSTANTS
    Node,               \* node ids
    Company,            \* company node ids
    Personal,           \* stands for company_node_id = None
    Email,              \* e-mail addresses
    NoEmail,            \* no address
    Code,               \* confirmation codes
    NoCode,             \* no code
    Req,                \* request slots: how many requests run at once
    ChallengeTtl,       \* CHALLENGE_EXPIRY, 2 minutes in the code
    ConfirmationExpiry, \* EMAIL_CONFIRMATION_EXPIRY, 1 day
    MaxWrongTries,      \* MAX_WRONG_TRIES, 5
    MaxChallenges,      \* bound: challenges created
    MaxIssues,          \* bound: confirmation codes issued
    MaxTime             \* bound: the clock

ASSUME EicAssumption ==
    /\ Personal \notin Company
    /\ NoEmail \notin Email
    /\ NoCode \notin Code
    /\ IsFiniteSet(Req)
    /\ Req # {}
    /\ ChallengeTtl \in Nat
    /\ ConfirmationExpiry \in Nat
    /\ MaxWrongTries \in Nat \ {0}
    /\ MaxChallenges \in Nat
    /\ MaxIssues \in Nat
    /\ MaxTime \in Nat

\* What confirmations and registrations are stored under: a node, on its own
\* or for one of its companies.  DBEmails::id concatenates the two ids, which
\* have a fixed length, so distinct keys have distinct ids.
Key == Node \X (Company \cup {Personal})
NodeOf(k) == k[1]
NoKey == <<>>

\* A row of the challenge table.  Challenges are 32 random bytes and never
\* repeat: the model numbers them.  Number 0 says that there is no row.
ChallengeRow == [id: Nat, created: Nat]
NoChallenge == [id |-> 0, created |-> 0]

\* A row of email_confirmations.  issue numbers the rows ever written, which
\* the code does not store; issue 0 says that there is no row.
ConfirmationRow ==
    [issue: Nat \ {0}, email: Email, code: Code, wrong: Nat, created: Nat]
NoConfirmation ==
    [issue |-> 0, email |-> NoEmail, code |-> NoCode, wrong |-> 0, created |-> 0]

\* Where a running request is: the await it will do next.
RegisterPc == {"challenge_remove", "rate_limit", "insert_writable", "insert",
               "mail"}
WrongPc    == {"wrong_writable", "wrong"}
BindPc     == {"bind_writable", "bind", "ens"}
ConfirmPc  == BindPc \cup {"remove_writable", "remove"}
Pc == {"idle"} \cup RegisterPc \cup WrongPc \cup ConfirmPc

\* The local variables of a request.  email is the address to register, or
\* the one read with the confirmation.
Local ==
    [key: Key \cup {NoKey}, email: Email \cup {NoEmail}, challenge: Nat,
     issue: Nat, alone: BOOLEAN]
NoLocal ==
    [key |-> NoKey, email |-> NoEmail, challenge |-> 0, issue |-> 0,
     alone |-> FALSE]

VARIABLES
    now,            \* wall clock
    challenges,     \* [Node -> row]: the challenge table
    confirmations,  \* [Key -> row]: email_confirmations
    registrations,  \* [Key -> address]: email_registrations
    migrated,       \* the marker that makes SurrealDB read-only
    ens,            \* [Key -> address]: what ENS was told last
    pc,             \* [Req -> Pc]
    local,          \* [Req -> Local]
    lastChallenge,  \* number of the last challenge created
    lastIssue,      \* number of the last confirmation row written
    \* History variables, which the code does not have:
    issued,         \* every confirmation row ever written: key, address, code
    presented,      \* the issues whose code a caller presented in time
    unspent,        \* challenges some request used and failed to remove
    uses,           \* [challenge -> requests it let in before it was unspent]
    unsynced        \* keys whose last undisturbed ENS update is still due

store   == <<challenges, confirmations, registrations, migrated, ens>>
process == <<pc, local>>
history == <<issued, presented, uses, unspent, unsynced>>
vars    == <<now, store, process, lastChallenge, lastIssue, history>>
-----------------------------------------------------------------------------

Issue == [key: Key, email: Email, code: Code, issue: Nat]

StoreTypeOK ==
    /\ challenges \in [Node -> ChallengeRow]
    /\ confirmations \in [Key -> ConfirmationRow \cup {NoConfirmation}]
    /\ registrations \in [Key -> Email \cup {NoEmail}]
    /\ migrated \in BOOLEAN
    /\ ens \in [Key -> Email \cup {NoEmail}]

ProcessTypeOK ==
    /\ pc \in [Req -> Pc]
    /\ local \in [Req -> Local]
    /\ \A r \in Req : pc[r] # "idle" => local[r].key \in Key
    /\ \A r \in Req : pc[r] \in RegisterPc \cup ConfirmPc => local[r].email \in Email

HistoryTypeOK ==
    /\ issued \in SUBSET Issue
    /\ presented \in SUBSET Issue
    /\ uses \in [1..MaxChallenges -> Nat]
    /\ unspent \in SUBSET Nat
    /\ unsynced \in SUBSET Key

TypeOK ==
    /\ now \in Nat
    /\ StoreTypeOK
    /\ ProcessTypeOK
    /\ HistoryTypeOK
    /\ lastChallenge \in 0..MaxChallenges
    /\ lastIssue \in Nat

Init ==
    /\ now = 0
    /\ challenges = [n \in Node |-> NoChallenge]
    /\ confirmations = [k \in Key |-> NoConfirmation]
    /\ registrations = [k \in Key |-> NoEmail]
    /\ migrated \in BOOLEAN
    /\ ens = [k \in Key |-> NoEmail]
    /\ pc = [r \in Req |-> "idle"]
    /\ local = [r \in Req |-> NoLocal]
    /\ lastChallenge = 0
    /\ lastIssue = 0
    /\ issued = {}
    /\ presented = {}
    /\ uses = [c \in 1..MaxChallenges |-> 0]
    /\ unspent = {}
    /\ unsynced = {}

Goto(r, label) ==
    /\ pc' = [pc EXCEPT ![r] = label]
    /\ local' = local

\* The handler returns, with a result or with an error.
Finish(r) ==
    /\ pc' = [pc EXCEPT ![r] = "idle"]
    /\ local' = [local EXCEPT ![r] = NoLocal]

Begin(r, label, values) ==
    /\ pc[r] = "idle"
    /\ pc' = [pc EXCEPT ![r] = label]
    /\ local' = [local EXCEPT ![r] = values]
-----------------------------------------------------------------------------
(* Challenges *)

\* POST /v1/challenge.  A new challenge replaces the node's previous one.
CreateChallenge(n) ==
    /\ lastChallenge < MaxChallenges
    /\ lastChallenge' = lastChallenge + 1
    /\ challenges' = [challenges EXCEPT ![n] = [id |-> lastChallenge + 1, created |-> now]]
    /\ UNCHANGED <<now, confirmations, registrations, migrated, ens, process,
                   lastIssue, history>>

ChallengeTimedOut(row) == now > row.created + ChallengeTtl

\* Registrations that are still going to write a confirmation row.
Registering == {r \in Req : pc[r] \in RegisterPc \ {"mail"}}

\* POST /v1/email/register, up to the verdict on the signed challenge: the
\* row is read and the caller has signed the challenge it holds.  Nothing
\* else the caller signs gets past this point.
CheckChallenge(r, k, e) ==
    LET row == challenges[NodeOf(k)] IN
    /\ lastIssue + Cardinality(Registering) < MaxIssues
    /\ row.id # 0
    /\ ~ChallengeTimedOut(row)
    /\ Begin(r, "challenge_remove",
             [NoLocal EXCEPT !.key = k, !.email = e, !.challenge = row.id])
    /\ uses' = IF row.id \in unspent THEN uses ELSE [uses EXCEPT ![row.id] = @ + 1]
    /\ UNCHANGED <<now, store, lastChallenge, lastIssue, issued, presented,
                   unspent, unsynced>>

\* (mutant) The row of a consumed challenge stays.
RemoveChallengeNot(r) ==
    /\ pc[r] = "challenge_remove"
    /\ Goto(r, "rate_limit")
    /\ UNCHANGED <<now, store, lastChallenge, lastIssue, history>>

\* The challenge is consumed: whatever row the node has now is deleted.  A
\* failure of the delete is logged and the request goes on.
RemoveChallenge(r) ==
    /\ pc[r] = "challenge_remove"
    /\ Goto(r, "rate_limit")
    /\ \/ /\ challenges' = [challenges EXCEPT ![NodeOf(local[r].key)] = NoChallenge]
          /\ unspent' = unspent
       \/ /\ challenges' = challenges
          /\ unspent' = unspent \cup {local[r].challenge}
    /\ UNCHANGED <<now, confirmations, registrations, migrated, ens,
                   lastChallenge, lastIssue, issued, presented, uses, unsynced>>
-----------------------------------------------------------------------------
(* Registering an address *)

\* The limiter (module RateLimit) lets the request pass or refuses it.
PassRateLimit(r) ==
    /\ pc[r] = "rate_limit"
    /\ Goto(r, "insert_writable") \/ Finish(r)
    /\ UNCHANGED <<now, store, lastChallenge, lastIssue, history>>

\* Every write of DBEmails first reads the marker of the migration, in a
\* statement of its own, and fails when it is set.
Guarded == [insert_writable |-> "insert", wrong_writable |-> "wrong",
            bind_writable |-> "bind", remove_writable |-> "remove"]

\* (mutant) A write does not look at the marker.
EnsureWritableNot(r) ==
    /\ pc[r] \in DOMAIN Guarded
    /\ Goto(r, Guarded[pc[r]])
    /\ UNCHANGED <<now, store, lastChallenge, lastIssue, history>>

EnsureWritable(r) ==
    /\ pc[r] \in DOMAIN Guarded
    /\ IF migrated THEN Finish(r) ELSE Goto(r, Guarded[pc[r]])
    /\ UNCHANGED <<now, store, lastChallenge, lastIssue, history>>

\* A fresh code replaces the key's confirmation, whatever its state.
InsertConfirmation(r) ==
    /\ pc[r] = "insert"
    /\ Goto(r, "mail")
    /\ lastIssue' = lastIssue + 1
    /\ \E c \in Code :
         /\ confirmations' = [confirmations EXCEPT ![local[r].key] =
                [issue |-> lastIssue + 1, email |-> local[r].email, code |-> c,
                 wrong |-> 0, created |-> now]]
         /\ issued' = issued \cup {[key |-> local[r].key, email |-> local[r].email,
                                     code |-> c, issue |-> lastIssue + 1]}
    /\ UNCHANGED <<now, challenges, registrations, migrated, ens, lastChallenge,
                   presented, uses, unspent, unsynced>>

\* The code is mailed after its row is stored.
SendMail(r) ==
    /\ pc[r] = "mail"
    /\ Finish(r)
    /\ UNCHANGED <<now, store, lastChallenge, lastIssue, history>>
-----------------------------------------------------------------------------
(* Confirming an address *)

Expired(row) == now > row.created + ConfirmationExpiry

\* (mutant) One try too many.
TooManyRetriesLate(row) == row.wrong > MaxWrongTries

TooManyRetries(row) == row.wrong >= MaxWrongTries

\* The confirmations of key k that will still write its registration or
\* tell ENS about it.
Binding(k) == {r \in Req : pc[r] \in BindPc /\ local[r].key = k}

\* The row can be confirmed, as far as the copy that was read says.
Open(k) ==
    /\ confirmations[k].issue # 0
    /\ ~Expired(confirmations[k])
    /\ ~TooManyRetries(confirmations[k])

\* POST /v1/email/confirm with a wrong code.
PresentWrongCode(r, k, c) ==
    /\ Open(k)
    /\ c # confirmations[k].code
    /\ Begin(r, "wrong_writable", [NoLocal EXCEPT !.key = k])
    /\ UNCHANGED <<now, store, lastChallenge, lastIssue, history>>

\* (mutant) The confirmation is consumed before the registration is stored.
PresentCodeConsumeFirst(r, k, c) ==
    /\ Open(k)
    /\ c = confirmations[k].code
    /\ Begin(r, "bind_writable",
             [NoLocal EXCEPT !.key = k, !.email = confirmations[k].email])
    /\ confirmations' = [confirmations EXCEPT ![k] = NoConfirmation]
    /\ UNCHANGED <<now, challenges, registrations, migrated, ens, lastChallenge,
                   lastIssue, history>>

\* POST /v1/email/confirm with the right code: the mint signs the address
\* that was read with it.
PresentCode(r, k, c) ==
    LET row == confirmations[k] IN
    /\ Open(k)
    /\ c = row.code
    /\ pc[r] = "idle"
    /\ pc' = [pc EXCEPT ![r] = "bind_writable"]
    /\ local' = [s \in Req |->
         IF s = r
         THEN [NoLocal EXCEPT !.key = k, !.email = row.email, !.issue = row.issue,
                              !.alone = Binding(k) = {}]
         ELSE [local[s] EXCEPT !.alone = @ /\ s \notin Binding(k)]]
    /\ presented' = presented \cup {[key |-> k, email |-> row.email, code |-> c,
                                      issue |-> row.issue]}
    /\ UNCHANGED <<now, store, lastChallenge, lastIssue, issued, uses, unspent,
                   unsynced>>

\* (mutant) The increment creates the row when there is none.
RecordWrongEntryUpsert(r) ==
    /\ pc[r] = "wrong"
    /\ Finish(r)
    /\ confirmations' = [confirmations EXCEPT ![local[r].key].wrong = @ + 1]
    /\ UNCHANGED <<now, challenges, registrations, migrated, ens, lastChallenge,
                   lastIssue, history>>

\* One more wrong entry on whatever row the key has now, if it has one.
RecordWrongEntry(r) ==
    LET k == local[r].key IN
    /\ pc[r] = "wrong"
    /\ Finish(r)
    /\ confirmations' = IF confirmations[k].issue = 0 THEN confirmations
                        ELSE [confirmations EXCEPT ![k].wrong = @ + 1]
    /\ UNCHANGED <<now, challenges, registrations, migrated, ens, lastChallenge,
                   lastIssue, history>>

\* (mutant) The address is read again when the registration is stored.
BindAddressReread(r) ==
    LET k == local[r].key IN
    /\ pc[r] = "bind"
    /\ Goto(r, "ens")
    /\ registrations' = [registrations EXCEPT ![k] =
          IF confirmations[k].issue # 0 THEN confirmations[k].email ELSE local[r].email]
    /\ unsynced' = unsynced \cup {k}
    /\ UNCHANGED <<now, challenges, confirmations, migrated, ens, lastChallenge,
                   lastIssue, issued, presented, uses, unspent>>

\* The signed registration replaces the key's previous one.
BindAddress(r) ==
    /\ pc[r] = "bind"
    /\ Goto(r, "ens")
    /\ registrations' = [registrations EXCEPT ![local[r].key] = local[r].email]
    /\ unsynced' = unsynced \cup {local[r].key}
    /\ UNCHANGED <<now, challenges, confirmations, migrated, ens, lastChallenge,
                   lastIssue, issued, presented, uses, unspent>>

\* (mutant) ENS is only told about a key's first address.
TellEnsOnce(r) ==
    LET k == local[r].key IN
    /\ pc[r] = "ens"
    /\ Goto(r, "remove_writable")
    /\ ens' = IF ens[k] = NoEmail THEN [ens EXCEPT ![k] = local[r].email] ELSE ens
    /\ unsynced' = IF local[r].alone THEN unsynced \ {k} ELSE unsynced
    /\ UNCHANGED <<now, challenges, confirmations, registrations, migrated,
                   lastChallenge, lastIssue, issued, presented, uses, unspent>>

\* ENS stores the address for the key's notifications, or the call fails,
\* with or without having had its effect, which is logged.
TellEns(r) ==
    LET k == local[r].key
        told == [ens EXCEPT ![k] = local[r].email]
    IN
    /\ pc[r] = "ens"
    /\ Goto(r, "remove_writable")
    /\ \/ /\ ens' = told
          /\ unsynced' = IF local[r].alone THEN unsynced \ {k} ELSE unsynced
       \/ /\ ens' \in {ens, told}
          /\ unsynced' = unsynced
    /\ UNCHANGED <<now, challenges, confirmations, registrations, migrated,
                   lastChallenge, lastIssue, issued, presented, uses, unspent>>

\* The key's confirmation is deleted, whichever row that is by now, and the
\* caller gets its signature.
RemoveConfirmation(r) ==
    /\ pc[r] = "remove"
    /\ Finish(r)
    /\ confirmations' = [confirmations EXCEPT ![local[r].key] = NoConfirmation]
    /\ UNCHANGED <<now, challenges, registrations, migrated, ens, lastChallenge,
                   lastIssue, history>>
-----------------------------------------------------------------------------
\* (mutant) A confirmation that fails takes back the registration it stored.
FailTakesBack(r) ==
    /\ pc[r] # "idle"
    /\ Finish(r)
    /\ registrations' = IF pc[r] = "ens" THEN [registrations EXCEPT ![local[r].key] = NoEmail]
                        ELSE registrations
    /\ UNCHANGED <<now, challenges, confirmations, migrated, ens, lastChallenge, lastIssue,
                   history>>

\* A request ends before its next await takes effect: a store or the mail
\* provider fails and the handler returns the error, the caller hangs up and
\* the handler is dropped, or the process is killed.
Fail(r) ==
    /\ pc[r] # "idle"
    /\ Finish(r)
    /\ unspent' = IF pc[r] = "challenge_remove"
                  THEN unspent \cup {local[r].challenge} ELSE unspent
    /\ UNCHANGED <<now, store, lastChallenge, lastIssue, issued, presented, uses,
                   unsynced>>

Tick ==
    /\ now < MaxTime
    /\ now' = now + 1
    /\ UNCHANGED <<store, process, lastChallenge, lastIssue, history>>

Step(r) ==
    \/ RemoveChallenge(r)
    \/ PassRateLimit(r)
    \/ EnsureWritable(r)
    \/ InsertConfirmation(r)
    \/ SendMail(r)
    \/ RecordWrongEntry(r)
    \/ BindAddress(r)
    \/ TellEns(r)
    \/ RemoveConfirmation(r)

Next ==
    \/ Tick
    \/ \E n \in Node : CreateChallenge(n)
    \/ \E r \in Req, k \in Key, e \in Email : CheckChallenge(r, k, e)
    \/ \E r \in Req, k \in Key, c \in Code :
          PresentCode(r, k, c) \/ PresentWrongCode(r, k, c)
    \/ \E r \in Req : Step(r) \/ Fail(r)

Spec == Init /\ [][Next]_vars
-----------------------------------------------------------------------------
(* Properties *)

\* Requests that will add a wrong entry to the key's confirmation.
Mistaken(k) == {r \in Req : pc[r] \in WrongPc /\ local[r].key = k}

\* The count of wrong entries is checked on a copy and raised later, so it can
\* pass the maximum; but every request is in flight with at most one entry,
\* so it never gets further than the requests running at once
\* (Service::confirm_email_for_node_id).
WrongEntriesBounded ==
    \A k \in Key :
        confirmations[k].wrong + Cardinality(Mistaken(k))
            <= MaxWrongTries - 1 + Cardinality(Req)

\* An address is bound to a key, and told to ENS, only if a code issued for
\* that very key and address was presented, even when the confirmation was
\* replaced, for another address, between reading it and storing the result.
OnlyProvedAddresses ==
    /\ presented \subseteq issued
    /\ \A k \in Key : \A e \in {registrations[k], ens[k]} \ {NoEmail} :
          \E i \in presented : i.key = k /\ i.email = e

\* Once a code was issued for a key, the key has a confirmation or a
\* registration at every moment, so a crash, an error or a dropped handler
\* between the writes never leaves the caller with neither.
NoLostConfirmation ==
    \A i \in issued :
        confirmations[i.key].issue # 0 \/ registrations[i.key] # NoEmail

\* When the last confirmation that ENS heard of ran without another one of the
\* same key, and none failed to reach it since, both services hold the same
\* address.
EnsAgreesWithRegistration ==
    \A k \in Key \ unsynced : ens[k] = registrations[k]

\* As long as no removal of a challenge failed, it lets in at most as many
\* registrations as run at once: those that read it before the first of them
\* removed it, and none later (Service::check_challenge).
ChallengeReplayBounded ==
    \A c \in 1..MaxChallenges :
        uses[c] <= Cardinality(Req)

\* The requests implement the address book: whatever fails, and however they
\* interleave, an address is stored and ENS is told of it only after it was
\* proved, ENS is never told of a key that has no registration, and no step
\* takes a registration back (Service::confirm_email_for_node_id).
Book == INSTANCE AddressBook WITH
    proved <- {<<i.key, i.email>> : i \in presented},
    bound  <- registrations,
    told   <- ens
ImplementsAddressBook == Book!Spec
=============================================================================
