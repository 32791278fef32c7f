# Verification of Wildcat-Auxiliary

TLA+ models of the auxiliary services of the Wildcat mint (`crates/` in the
repository), the TLC configurations that check them on small instances, and
theorems about them checked by TLAPS. Paths below are relative to the
repository, `crates/` left out; `PROJECT.json` maps every definition to the
lines it models.

## 1. The system

| component | state it keeps | operations | hard because |
|---|---|---|---|
| rate limiter, `bcr-wdc-shared/src/rate_limit.rs` | three maps of sliding windows (by address, sender, receiver), time of the last pruning | `check`, with `prune_if_needed` and `allow` | lazy expiry and pruning must not change decisions; a request charges several windows |
| challenges, `bcr-wdc-shared/src/challenge` | one row per node | create, check, remove, `clean_expired` | read and removal are separate statements, a failed removal is ignored |
| identity confirmation (EIC), `bcr-wdc-eic-service` | confirmations, registrations, challenges in SurrealDB, a migration marker | `/v1/challenge`, `/v1/email/register`, `/v1/email/confirm` | every handler is a chain of awaits; two stores and a second service have to agree |
| migration, `bcr-wdc-eic-service/src/bin/migrate.rs` | PostgreSQL registrations | dump, strict import, mark | runs next to the service, may be killed and rerun |
| notification service (ENS), `bcr-wdc-ens-service` | one preferences row per node or company | set address, change preferences, get link, send mail, notify admins | read-modify-write from two sides, tokens in links already mailed |
| relay admission, `bcr-wdc-relay/src/relay.rs`, `rate_limit.rs` | a window per peer address and chain key | `admit_event` | window length is configurable, idle limit is not |
| Blossom store, `bcr-wdc-relay/src/blossom` | content-addressed `files` table | upload, preflight, get, head, mirror | download of unknown size between lookup and insert |
| demo faucet, `bcr-wdc-demo-faucet` | activity log per holder, in memory | the main loop: deny, offer; `discount_sats` | times of quotes instead of the clock, retries, integer arithmetic |
| e-bill service, `bcr-wdc-ebill-service` | keys, network, identity and bills in the e-bill library's database; set of reported bills, Nostr subscription | start, jobs, Nostr consumer loop, HTTP handlers | check-then-create of the identity, restarts of the consumer, jobs and handlers on the same bill, errors after an effect |
| signatures, wire types, mail client, pool, templates, deployment | none | | |

How they interact. EIC asks the rate limiter (behind a mutex) before it
registers an address, sends a mail through Mailjet, and after a confirmation
calls ENS over HTTP, which stores the address. ENS asks its own instance of the
same limiter before it sends a notification. Both use the shared challenge
code. The migrate program and a running EIC share SurrealDB; the marker is the
only synchronisation. The relay, the faucet and the e-bill service stand alone:
they call libraries and the mint.

What makes each part correct:

* limiter: never more than the limit in any window; nobody refused who has
  budget; bookkeeping without influence on decisions;
* EIC: only a proved address is bound or told to ENS; wrong entries bounded;
  a challenge is used a bounded number of times; no crash leaves a caller
  without confirmation and registration; EIC and ENS agree;
* migration: all or nothing, nothing overwritten, nothing older than the dump
  lost, no writes afterwards;
* ENS: settings are what the owner chose; links stay valid and never lead to
  somebody else; unsubscribing stops mails;
* relay limiter: never more than the limit within the window or, if that is
  shorter, the idle limit; nobody refused who has budget; its map bounded;
* Blossom: only whole, acceptable blobs are stored, each under its own digest,
  for good; a descriptor that was given stays true; every request ends;
* faucet: at most so many offers per holder and retention period; the discount
  never exceeds the sum;
* e-bill: the node's own keys, network and identity through all failed starts;
  events handled although the consumer is torn down all the time; payments found
  before requests expire; a matured bill reported once; a refused request changed
  nothing; no two contradicting versions of a bill called valid.

## 2. The modules

| module | models |
|---|---|
| `SlidingLog` | abstract: a limiter that keeps the complete history and counts |
| `RateLimit` | `rate_limit.rs`; refines `SlidingLog` (`Exact`, `DecidesLikeFullHistory`) |
| `RateLimitProofs` | its theorems |
| `AddressBook` | abstract: what EIC promises about addresses: a key is bound only to an address that its owner proved, and only told once it is bound |
| `EicService` | EIC with its challenges and the effect of its call to ENS; refines `AddressBook` (`ImplementsAddressBook`) |
| `EicMigration` | EXTENDS `EicService` with the migrate program |
| `EicProofs` | theorems about both |
| `EnsService` | ENS |
| `EnsProofs` | its theorems |
| `Discount` | the faucet's `discount_sats`, in words that wrap around |
| `Faucet` | EXTENDS `Discount` with the faucet's `main_loop`, `evict_expired` and the loop around them in `main` |
| `FaucetProofs` | theorems about both |
| `RelayLimit` | the relay's `admit_event` and its `rate_limit.rs` |
| `RelayLimitProofs` | its theorems |
| `ContentStore` | abstract: a store that keeps blobs for good and promises only what it keeps |
| `Blossom` | the relay's `blossom/` and `auth.rs`; refines `ContentStore` (`ImplementsContentStore`) |
| `BlossomProofs` | its theorems |
| `EbillErrors` | the e-bill service's errors and their HTTP statuses, `error.rs` |
| `EbillNode` | EXTENDS `EbillErrors`: start, identity and consumer loop of the e-bill service |
| `EbillNodeProofs` | its theorems |
| `EbillBills` | EXTENDS `EbillErrors`: one bill between the jobs, the handlers and Nostr |
| `EbillBillsProofs` | its theorems |
| `MC*` | instances and symmetries for TLC |

### Handlers as processes

Every request is a slot `r \in Req` with a program counter `pc[r]` and the local
variables `local[r]` that later awaits use. One action is one await of the
handler (a statement of a store, a mail, a call to ENS) together with the local
code up to the next one. In EIC:

    register:  CheckChallenge  challenge_remove  rate_limit  insert_writable  insert  mail
    wrong:     PresentWrongCode  wrong_writable  wrong
    confirm:   PresentCode  bind_writable  bind  ens  remove_writable  remove

`*_writable` are the calls of `ensure_writable` that precede each write of
`DBEmails`. A read at the start of a handler is joined with the first decision,
since nothing that happens between its begin and its read can be told apart.
`Fail(r)` ends a request before its next await takes effect: an error of a store
or provider that the handler returns, a caller that hangs up (the handler is
dropped), the process being killed. Errors the handler only logs are
alternatives inside the action (`RemoveChallenge`, `TellEns`); those after which
it does nothing more that matters (`wrong`, `remove`) coincide with `Fail`. A
call that had its effect although its answer got lost is the action followed by
`Fail`, or a disjunct of its own in `TellEns`. A call that has not taken effect
when its caller gives up never does in these models.

Stores survive all of this; the models have no other crash. The rate limiter's
memory does not survive a restart: in `EicService` its verdict is a free choice,
so no property there depends on it, and `RateLimit` models one process lifetime.

### The faucet as a process

`main_loop` is one process with the labels `list`, `next`, `deny` and `offer`.
Each of its calls to the mint is an action, as is the end of a round (`Sleep`).
`Handle(q)` joins the answer to `lookup` with everything up to the next await:
eviction, the test of the limit, and the push that counts the offer before it is
made. Around it, quotes are submitted (`Submit`) and decided by other users of the
mint (`DecideElsewhere`), calls fail without effect (`LookupFails`,
`DecideFails`), and the loop starts over with an empty log, after a failed `list`
(`ListFails`) or because the process ended (`Restart`). A call that had its effect
but whose answer was lost has the same effect on the loop as one that succeeded,
since the code only logs either. The mint's list is a set, handled in any order;
`quotes::Client` and the order of its list are outside the repository. The log
holds quotes instead of their submission times, so that properties can tell what
was counted; only the times decide.

The arithmetic of `discount_sats` wraps around at `Word`, as it does in a release
build; its assertions about exactness are for sums that fit, its bounds for all.

### The relay

`RelayLimit` needs no interleaving: the limiter is behind a mutex, reads the clock
while it holds it, and awaits nothing, so `Admit` is `admit_event` as a whole, from
the tags of the event to the answer. `Restart` is there because the windows are in
memory only. That the window may be longer than `MAX_IDLE` makes the difference to
`RateLimit`: pruning then forgets hits that still count, and the module does not
refine `SlidingLog`. With a window no longer than that, as by default (120 s against
24 h), it does decide like a complete history (`DecidesExactly`, which is proved in
`RelayLimitProofs`; the run is for the other case).

In `Blossom` a request `op[h]` is at one of

    upload:  Upload                                  store
    mirror:  Mirror  lookup  fetch  stream (chunks)  store

`Found`/`Missing` answer the lookup, `Fetch` opens the download, `Chunk` and
`BodyEnds` read it, `Store` is the insert. Every label has its failures: the
database's (`LookupFails`, `StoreFails`; an insert that failed may have been carried
out), the source's (`FetchFails`, `BreaksOff`, `TimesOut`), and the client's, that
goes away (`ClientGone`: the handler is dropped, an insert that was sent may still
be carried out). `Restart` drops all requests and keeps the table. What cannot wait
(a blob or its head from the table, a preflight, the unimplemented methods) is one
action.

### The e-bill service

The e-bill library (keys, identity, chains, payments) and the Nostr relays are
not in the repository. They are modelled from how this code uses them: each call is
one step, and one that fails may have had its effect before.

`EbillNode` has the process (`proc.pc`: `down`, then the awaits of `main` up to
serving, `network`, `keys`, `clients`, `identity`, then `up`), with a configuration
that may be another one at each `Begin`; the requests that create or recover the
identity; and the task around the consumer (`consumer`: `start`, `run`,
`unsubscribe`; `dead` after a failed start of the consumer, which ends the task).
The start ends in `down` when the network or the keys differ from the configured
ones; `MisreadKeys` is the branch of `main` that takes any error of `get_key_pair`
for "no keys". `Stop` ends the process anywhere.

`EbillBills` follows one bill. The jobs' task (`job.pc`: `delay`, `wait`, `check`,
`maturity`) starts the three payment jobs together (`job.left` is what is still
running), waits for all of them, expires requests, and looks for matured bills; the
handlers change the same bill meanwhile. Two handlers await something after they had
an effect or read something (`keys`: the answer to a request to pay; `files`: the
download of a shared bill's files); the others are one step. The chain on Nostr
grows (`Publish`), the consumer and `sync_bill_chain` bring the local one up to date.
When the mint asks to be paid, that block is stored locally before Nostr has it, and
somebody else's may come first: then the chains fork at the mint's request, until the
library gives the local one up.
A shared bill is a record that says how it fares in each check of
`validate_and_decrypt_shared_bill`, in the order of the checks.

### What is abstracted

* A challenge is a number, a confirmation code a model value, a signature is
  left out: only the owner of a node signs for it, so `CheckChallenge` is enabled
  for the challenge that is stored. Requests that are refused before they change
  anything have no action.
* Mails are events without content; templates, logging and HTTP codes are left
  out, and so is `clean_expired`, which nothing calls.
* The key of the stores is the pair of node and company (or `Personal`): ids have
  a fixed length, so the concatenation `DBEmails::id` is injective.
* Clocks never run backwards. The code reads the wall clock.
* Statements of the databases are atomic; the import is one transaction.
* One instance of each service and at most one migrate program run at a time.
* A blob is known by its digest (SHA-256 is taken to be free of collisions); what
  was received of it is a number of bytes. A broken-off download has no blob's digest.
* Signatures, encryption and the validity of a bill's chain are facts about an
  input, not computed: a block's holder and what it asks for are constants.
* `get_preferences` of ENS changes nothing and is left out; the check of the
  challenge in front of `GetLink` is the code modelled in `EicService`.

History variables (`log`, `issued`, `presented`, `uses`, `unspent`, `unsynced`,
`late`, `chosen`, `disturbed`, `links`, `raced`) record what happened, so that
properties can speak of it, as `latest`, `disordered`, `wasted` and `forgotten` do
in `Faucet`, `granted` in `RelayLimit`, `given` in `Blossom`, `creations` and `recovered`
in `EbillNode`, `told`, `due` and `accepted` in `EbillBills`; no guard reads them except `OpenPreferences`, which uses `links` for
"has been given this link".

## 3. The runs

| run | instance | shows |
|---|---|---|
| `rate_limit` | one address, one node, limits 2 and 1, windows 2 and 1, idle limit 2, pruning every 2, clock to 5 | `OnlyExpiredForgotten`, `WindowBound`, refinement of `SlidingLog` |
| `eic_service` | 1 key, 2 requests, 2 addresses, 2 codes, 2 challenges, 2 codes issued, 2 wrong tries, clock 0..1 with expiry 0 | types and the five properties of EIC, refinement of `AddressBook` |
| `eic_migration` | a node with a company (2 keys), 1 request, 2 addresses, any content of PostgreSQL | `OnlyLateRegistrationsMissing`, `FrozenOnceDrained`, `ImportAllOrNothing` |
| `ens_service` | 2 keys, 2 requests, 1 address, 1 kind, 2 tokens | types and the three properties of ENS |
| `faucet` | 3 quotes of one holder, limit 2, retention 1, clock 0..2, 1 failure; 6 sums, 3 rates, 5 due days, words of 24 bits | `OffersBounded`, `DenialJustified`, `QuotesDecided`; `DiscountSound` |
| `relay_limit` | 2 connections, 4 kinds of events, limit 2, window 3 but idle limit 1, pruning every 2, clock to 5 | types, `GrantsBounded`, `RefusesOnlySpent`, `MapHoldsRecent` |
| `blossom` | 2 requests, 3 blobs (good, too large, plain text), limit 3, 1 failure of the database | the three invariants and `ErrorsOnlyFromDatabase`, refinement of `ContentStore`, `RequestsEnd` |
| `ebill_node` | 2 seeds, 2 networks, 4 configurations, 2 requests, 1 event, 2 failures or kills | `ServesOwnSeed`, `CreatedOnlyByOverlap`, `EventsHandled` |
| `ebill_bills` | 1 bill with 7 chains, 9 shared bills, 9 file sources, 1 request, deadline 0, maturity 1, clock to 1, 2 failures or restarts | types and the five properties of the bill |
| `faucet_denies_only_spam` | as `faucet` | expected violation of `DeniesOnlySpam` |
| `eic_no_registration_lost` | as `eic_migration` | expected violation of `NoRegistrationLost` |
| `ens_keeps_settings` | as `ens_service` | expected violation of `KeepsOtherSettings` |

Why the bounds are enough for what they are for. Two requests are the smallest
number that race, and every hazard listed for EIC and ENS is a race of two or a
failure of one; two issued codes let a confirmation be replaced while another
request holds the old one; a wrong-entry limit of two is reached, passed by a
race, and differs from zero and one; one unit of time lets challenges and
confirmations expire. In the limiter the e-mail window is as long as the idle
limit, as in the code, and five units of time let a window fill, expire, be
pruned and be used again. Three quotes are one more than the faucet allows, and
enough to be submitted in one order, handled in another, and expire one by one;
the failure lets an offer be retried, or the log be lost. Words of 24 bits
overflow for the greatest sum only; due days lie in the past, around today,
within the year, and about the 360 days that are charged for at most. That bills too big for
the faucet are passed over, and that holders do not disturb each other, is
covered by the proofs only, which are for any `Small` and `HolderOf`.

In the relay, a window of three with an idle limit of one is the smallest in which
pruning forgets hits that count, and two connections show that they do not share a
budget. Two requests race for a blob of two bytes, which comes in one chunk or two;
sources may send any of the three blobs, announced or not, whatever was asked for.
An e-bill node that fails or is killed twice can be stopped in a start, and in the
next one; the configurations differ from the first in one part each. The bill can
be offered for sale, sold, accepted and asked to be paid, or be claimed by recourse,
so that each of the three payment jobs has a request that only it settles; or it can
go on along another branch, so that two shared versions contradict and Nostr may
leave the node's request aside. Each shared bill and each source fails one check.
Two failures let a payment job fail, and the process restart. The theorems below
drop these bounds.

`CHECK_DEADLOCK FALSE` where the bounds on challenges, issued codes and tokens
can leave a system with nothing to do; limiters, the file store and the e-bill
service can always be asked, and the faucet always looks again. Type invariants
that are proved (section 4) are not checked again in `rate_limit`, `eic_migration`,
`faucet`, `blossom` and `ebill_node`.
Symmetry permutes requests, codes, addresses and, in ENS, keys; no definition
distinguishes them, and the runs that use symmetry check no liveness.

Fairness.

* Faucet: `WF_vars(Loop)`. The loop is one task that the runtime polls, each of its
  awaits ends (a call by its answer or an error, the sleep by its timer), and `main`
  restarts it when it returns an error. The mint's users are not fair.
* Blossom: `WF` on `Database(h)` (a query is answered or fails) and on `TimesOut(h)`
  (the HTTP client is built with a timeout, `main.rs:155`, which spans connecting and
  the whole body). Sources and clients may stall for ever. Assumed to end, and not
  modelled as steps: the lookup of the source's host before the first of a mirror's
  labels, and the wait for a connection from the pool.
* E-bill node: `WF` on the consumer's task (`Loop`: the runtime polls it, its
  interval ends), and `SF` on `Handle(e)`: the event is there again after every
  restart of the consumer, and an interval lasts minutes.
* E-bill jobs: `WF` on `Round` as a whole, which is one task. The clock, payments,
  Nostr and requests are not fair.

Failures and restarts are never fair; that there are finitely many is a bound of
the models, without which nobody could be promised anything.

### Properties worth a second look

* `WrongEntriesBounded`. The test of `MAX_WRONG_TRIES` uses a copy, the count is
  raised later. So the documented maximum does not hold, but
  `wrong + requests in flight <= MaxWrongTries - 1 + |Req|` does.
* `OnlyProvedAddresses`. A confirmation may be replaced, for another address,
  while a request that read the old one is about to store it. Storing the
  address that was read is what keeps the property; reading it again breaks it
  (the mutant).
* `NoLostConfirmation`. The removal deletes by key, so it may delete a newer
  confirmation than the one that was confirmed; but only after a registration of
  that key was stored.
* `EnsAgreesWithRegistration`. With overlapping confirmations, or failed calls,
  EIC and ENS may disagree for good; the history variable `unsynced` says exactly
  when agreement is promised: from a delivered, undisturbed update on.
* `ChallengeReplayBounded`. A challenge can let in several requests that read it
  before the first removal, at most all that run at once.
* `OnlyLateRegistrationsMissing`, `FrozenOnceDrained`. `migrate.rs:1` promises that
  everything survives, `surreal.rs:113` that every write is refused once the marker
  is set. What is true: nothing older than the dump is lost, and writes stop once
  those that had looked at the marker before it was set are through.
* `SettingsAsChosen`, `LinksStayValid`. Hold unless two requests overlap, and the
  history variables `disturbed` and `raced` say which.
* `OffersBounded`, `DenialJustified`. Counting by submission times, with eviction
  that stops at the first entry still alive, is exact while quotes are handled in
  the order in which they were submitted. A restart of `main_loop` loses the log
  and gives the holder its budget again: `OffersBounded` counts from one such loss
  to the next (`forgotten` holds the offers made before it), `DenialJustified` needs
  no such exception. Holders whose quotes are handled in another order are set apart
  (`disordered`): the code bounds nothing there, in either direction.
* `QuotesDecided`. Nothing but the next round's list brings back a quote whose
  lookup, denial or offer failed (the mutant lists only quotes not counted yet).
* `GrantsBounded`, `MapHoldsRecent`. With a window longer than `MAX_IDLE`, an unused
  window is dropped with hits that count. What remains is a bound over the shorter
  of both times; and since every check prunes first when it is time to, the windows
  in the map were used within `MAX_IDLE` and `PRUNE_INTERVAL` of each other.
* `RowsAreWhole`, `DescriptorsHold`. A mirror trusts nothing that it read before its
  last await: the digest of what came is compared, and the insert leaves a row that
  appeared meanwhile alone. A source that ends early without having announced a
  length is told from a complete one by the digest only.
* `ServesOwnSeed`. `main` creates the Nostr clients from the keys in the database,
  not from the configured mnemonic; that both are the same rests on the comparison
  before, on the keys being saved first, and on nothing writing them in between.
* `CreatedOnlyByOverlap`. Creating the identity is check-then-act, in the start and
  in every request; a failed creation may have had its effect. Still, over all
  restarts there are at most as many creations as requests fit into one moment.
  This rests on an assumption about the library, which the model does not vary:
  `identity_exists` returns a boolean, and returns false only if there is none.
* `EventsHandled`. A restart of the consumer re-reads what the relays have stored
  only if the old subscription is gone (the mutant keeps it). A start of the consumer
  that fails is a panic of its task (`main.rs:253`), and nothing starts that again:
  the property excludes this case.
* `TimeoutsAfterPayments`, `PaymentsSettle`. The comment in `job.rs` says why the
  timeout job comes last. It helps within a round: a payment that becomes visible
  after its job looked, or whose job failed, may still expire. A payment that stays
  visible is settled at last, of whatever kind the request is: the mutant, a recourse
  job that looks for ordinary payments, leaves the claim of recourse waiting while
  the other two jobs work. What holds within every round is proved (`FoundInRound`).
* `MaturedReported`. The set of reported bills is marked only for a bill that is
  held and mature; a restart forgets it and reports again, once per process.
* `RefusedMeansUnchanged`. `request_to_pay` can fail after its block was stored; it
  is the table of errors that keeps such a failure from looking like the caller's
  mistake (the mutant answers 404 for anything the stores fail to give). Assumed of
  the library: a failure that comes after an effect is one of persisting or notifying.
* `AcceptedAgree`. A shared bill is judged by Nostr, an endorsed one by the local
  chain, and the files are downloaded after the chain was compared. Of two versions
  that were called valid, one continues the other, except for requests of the mint's
  own at the end of one that had not reached Nostr when it was judged. That
  exception is real: an earlier form of the property, without it, held in an instance
  that had no fork at the mint's request, and no inductive invariant implied it.
* `ImplementsAddressBook`. A registration whose call to ENS failed stays; taking it
  back (the mutant) would bind and unbind a key that its owner has proved.

### Where code and documentation differ

Three runs expect a violation; each refutes a sentence of a comment:
`bin/migrate.rs:1` on copying what must survive, `service.rs:96` of ENS on
keeping the rest of the settings, and `lib.rs:76` of the faucet on denying only
holders with too many requests (a retried offer counts twice).

Two more comments say more than the code does, and a property of a passing run says
what holds: `email/mod.rs:34` on the maximum of wrong entries
(`WrongEntriesBounded`; and the confirmation is not deleted, only refused), and
`persistence/surreal.rs:113` on refusing every write (`FrozenOnceDrained`).

## 4. The theorems

Assumptions are the named `ASSUME`s of the modules and nothing else; all sets are
arbitrary, of any size (requests finite), all bounds arbitrary naturals.

* `RateLimitProofs`. From `RateLimitAssumption`, in particular: no window is
  longer than `MAX_IDLE`. The inductive invariant is `IInv`: the history is
  ordered and not later than the last use of a live window (`LogOrdered`), a
  window remembers a suffix of its history (`HitsAreSuffix`), the forgotten
  prefix has expired (`OnlyExpiredForgotten`), and the window bound itself.
  `CheckWindow` proves per window what a check does; the refinement then follows
  because the hits that count are the same in both (`PoppedKeepsRecent`,
  `SameDecision`): `LimiterImplementsFullHistory`.
* `EicProofs`. `TypeCorrect`, and one inductive invariant per property:
  `ProofInv` (rows were issued, requests about to bind were proved),
  `KeepInv` (a request past `bind` has its key registered), `EnsInv` (who may
  disturb whom between the two services), `WrongEntriesBounded` (inductive
  itself, by counting requests in flight), `UseInv` (uses of a challenge are
  either past its removal or in flight).
  `AddressBookImplemented`: every step is a step of `AddressBook` or a stutter
  (`BookStep`); binding needs `ProofInv`, telling `KeepInv`. Together these invariants
  are `ServiceInv`, and they hold next to the migrate program as well
  (`PromisesKeptWhileMigrating`, `AddressBookWhileMigrating`): a step of it leaves
  everything but the marker alone, which only guards writes (`MarkerKeepsService`).
  Of the migration, `MigrationInv`: keys not late have the address that was
  dumped, and the marker step implies a complete import. The service's types
  carry over since a step of it is a step of `EicService` (`ServiceTypes`).
* `EnsProofs`. `LinkInv`: every token that is stored, pending or in a link has
  one owner (an existential over maps from tokens to keys, which a step extends
  when it draws a token), and a key that is not `raced` has one token. From it
  follow `LinksLeadToTheirKey` and that changing preferences touches one row
  (`UpdateEffect`), on which `SettingsKept` rests. `LateBounded` counts the
  requests that are mailing together with the mails counted as late, and is
  strict because the request that unsubscribes is not mailing.
* `FaucetProofs`. `DiscountIsSound` is arithmetic (`DiscountFacts`): dividing by 100 and by 360 is
  dividing by 36000 (`DivideTwice`), wrapping around only makes the fee smaller
  (`Remainder`), and products grow with their factors. For the loop, `IInv` says
  that logs are sorted while nothing is handled out of order (`LogOrdered`), that
  offers made since the log was last lost, which still count, are in it
  (`OffersLogged`), that while no offer
  failed the log counts offers only and each once (`LogOffered`), and what holds of
  the quote between its decision and the call (`CurHandled`). Then the offers that
  count are a subset of the log's entries, or all of them, and the bounds follow
  by cardinality (`EntriesCounted`).
* `RelayLimitProofs`. For any configured window. What a window remembers is the end
  of what was granted, and whatever is missing from it is older than `Memory`, the
  shorter of window and idle limit (`Stands`); grants are in order (`Ordered`) and
  spaced (`Spaced`). `KeyInv` says this of one key and `WindowInv` of the window
  behind it, so that a check is an induction step of one key. `RefusesOnlySpent`
  follows because a full window's hits are distinct grants that have not expired;
  `MapHoldsRecent` from bounding `lastSeen` by the last pruning on either side. If
  the window is no longer than the idle limit, `Memory` is the window, and the
  remembered hits are exactly the grants that count (`RememberedRecent`), hence
  `DecidesExactly`; this hypothesis is that of the theorem, not of the module.
* `BlossomProofs`. Whether an insert is sound depends on what its request did
  before, so `Inv` says of every label what its request's variables hold (`Sound`):
  at `store`, a complete, accepted blob with the digest that was asked for. Each
  action is shown to be a `Summary`: it moves one sound record, changes the table
  by at most one acceptable blob, and answers an internal error only with a
  failure. Invariants and the refinement of `ContentStore`
  (`ContentStoreImplemented`, every step a `Put` or a stutter) are read off from it.
* `EbillNodeProofs`. `KeysInv` has one line per step of the start: after the network
  it is the configured one, after the keys they are the mnemonic's unless somebody
  recovered, after the clients these have them. `CreationInv` counts creations
  together with the requests that found no identity and may still create one; while
  there is no identity there was no creation. Needs finitely many requests.
* `EbillBillsProofs`. `Known`: every chain the node has, or has called valid, is a
  beginning of Nostr's chain followed by nothing but requests of the mint's own; two
  such chains differ only in the way `AcceptedAgree` allows. `Sound` says, per label
  of a request, whether its effect has happened (`BlameChangesNothing`); `DueInv`,
  that a payment that was visible when the round's jobs started is found, or its job
  is still to come (`FoundInRound`), before requests expire (`ExpiredAfterPayments`).
  `ReportedAtMostOnce` is the safety half of `MaturedReported`.

The types of `RateLimit`, `EicMigration`, `Faucet`, `Blossom` and `EbillNode` are proved
and not checked by a run. Every invariant, every action property and every refinement
that a passing run checks is also stated by a theorem.

Out of the prover's reach, and left to TLC: liveness under fairness (`QuotesDecided`,
`RequestsEnd`, `EventsHandled`, `PaymentsSettle`, and that a matured bill is reported
at last, the other half of `MaturedReported`), `ENABLED`, induction over data.

## 5. Plan

Done: limiter, EIC, migration, ENS, faucet, relay limiter, Blossom, the e-bill
service's node and bills, all with theorems.

Next: `EicEns`, EIC and ENS composed, with calls that ENS carries out after EIC has
given up on them, and what is left of `EnsAgreesWithRegistration` then.

Runs: one passing run per module and question, violations only where a comment is
refuted.

## 6. Not modelled

* Signatures, wire types, Mailjet client, database pool, templates, deployment:
  no state, or I/O with success and failure, which the callers' actions have as
  alternatives. `convert.rs` of the e-bill service translates between the types of
  two libraries and keeps no state.
* The Nostr relay and the e-bill library are not in the repository. What this code
  relies on is modelled as external and atomic; what they do inside is not.
* EIC and ENS composed: a call of EIC that ENS carries out late.
* Shared bills: no property is about the number of files (one presented twice counts
  twice) or about chains that are presented by an earlier holder after they were
  continued; the model does what the code does.
* The download of a shared file (`web.rs:723`) has no timeout. The model gives it no
  fairness, and no property promises that such a request ends.
* What a task that panicked leaves undone: the consumer's is modelled (`dead`) and
  excluded from `EventsHandled`; the jobs do not panic.
