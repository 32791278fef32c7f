------------------------------- MODULE Faucet -------------------------------
(***************************************************************************)
(* The demo faucet (bcr-wdc-demo-faucet).                                  *)
(*                                                                         *)
(* It polls the mint for pending quotes and offers a discounted sum for    *)
(* each, unless the holder of the bill asked too often within the          *)
(* retention period: then it denies.  Requests are counted in a log per    *)
(* holder, kept in memory, by the times at which the quotes were           *)
(* submitted and not by the clock.                                         *)
(*                                                                         *)
(* The loop is one process, whose steps are its calls to the mint.  The    *)
(* mint, its other users and the holders are its environment: quotes are   *)
(* submitted and decided between any two calls, calls fail, also after     *)
(* they had their effect, and the process may end and be started again.    *)
(***************************************************************************)
EXTENDS Discount, Sequences, FiniteSets

CONSTANTS
    Quote,          \* quotes that holders submit
    Holder,         \* node ids
    HolderOf,       \* [Quote -> Holder]: last endorsee of the bill, or its payee
    Small,          \* quotes for at most max_bill_offer_sum
    MaxRequests,    \* max_requests_per_retention_period
    Retention,      \* retention_period_secs
    None,           \* no quote
    MaxTime,        \* bound of the clock, which counts seconds and days alike
    MaxFailures     \* bound: failed calls and restarts

ASSUME FaucetAssumption ==
    /\ IsFiniteSet(Quote) /\ None \notin Quote
    /\ HolderOf \in [Quote -> Holder]
    /\ Small \subseteq Quote
    /\ MaxRequests \in Nat /\ Retention \in Nat
    /\ MaxTime \in Nat /\ MaxFailures \in Nat

Status == {"new", "pending", "offered", "denied", "other"}
Deciding == {"deny", "offer"}
Pc == {"list", "next"} \cup Deciding

VARIABLES
    \* The mint:
    status,     \* [Quote -> Status]; "other" is decided by somebody else
    submitted,  \* [Quote -> time]
    now,        \* the clock
    \* The loop:
    pc,
    todo,       \* listed quotes that are still to be handled, in any order
    cur,        \* the quote that is being denied or offered
    log,        \* [Holder -> sequence]: activity_log.  The code pushes the time
                \* at which a quote was submitted, the model the quote
    \* The environment and history:
    failures,   \* failed calls and restarts so far
    latest,     \* [Holder -> time]: latest submission handled by this loop
    disordered, \* holders with a quote handled after one submitted later
    wasted,     \* holders with an offer counted that was not made
    forgotten   \* quotes that were offered when the log was lost

mint == <<status, submitted, now>>
loop == <<pc, todo, cur, log>>
vars == <<mint, loop, failures, latest, disordered, wasted, forgotten>>

TypeOK ==
    /\ status \in [Quote -> Status]
    /\ submitted \in [Quote -> 0..now]
    /\ now \in 0..MaxTime
    /\ pc \in Pc
    /\ todo \in SUBSET Quote
    /\ cur \in IF pc \in Deciding THEN Small ELSE {None}
    /\ log \in [Holder -> Seq(Small)]
    /\ \A h \in Holder : Len(log[h]) <= MaxRequests
    /\ failures \in 0..MaxFailures
    /\ latest \in [Holder -> 0..now]
    /\ {disordered, wasted} \subseteq SUBSET Holder
    /\ forgotten \subseteq Quote

EmptyLog == [h \in Holder |-> <<>>]

Init ==
    /\ status = [q \in Quote |-> "new"]
    /\ submitted = [q \in Quote |-> 0]
    /\ now = 0
    /\ pc = "list"
    /\ todo = {}
    /\ cur = None
    /\ log = EmptyLog
    /\ failures = 0
    /\ latest = [h \in Holder |-> 0]
    /\ disordered = {}
    /\ wasted = {}
    /\ forgotten = {}
-----------------------------------------------------------------------------
(* The mint and its users *)

Tick ==
    /\ now < MaxTime
    /\ now' = now + 1
    /\ UNCHANGED <<status, submitted, loop, failures, latest, disordered, wasted, forgotten>>

\* A holder asks for a quote.
Submit(q) ==
    /\ status[q] = "new"
    /\ status' = [status EXCEPT ![q] = "pending"]
    /\ submitted' = [submitted EXCEPT ![q] = now]
    /\ UNCHANGED <<now, loop, failures, latest, disordered, wasted, forgotten>>

\* A quote is offered, denied or cancelled without the faucet.
DecideElsewhere(q) ==
    /\ status[q] = "pending"
    /\ status' = [status EXCEPT ![q] = "other"]
    /\ UNCHANGED <<submitted, now, loop, failures, latest, disordered, wasted, forgotten>>

Fails ==
    /\ failures < MaxFailures
    /\ failures' = failures + 1
-----------------------------------------------------------------------------
(* The loop *)

\* (mutant) Quotes that are in some log are not listed again.
ListedOnce ==
    {q \in Quote : status[q] = "pending" /\ \A i \in 1..Len(log[HolderOf[q]]) : log[HolderOf[q]][i] # q}

\* The pending quotes.
Listed == {q \in Quote : status[q] = "pending"}

List ==
    /\ pc = "list"
    /\ todo' = Listed
    /\ pc' = "next"
    /\ UNCHANGED <<mint, cur, log, failures, latest, disordered, wasted, forgotten>>

\* The loop starts from the beginning, with an empty log.
StartOver ==
    /\ Fails
    /\ pc' = "list"
    /\ todo' = {}
    /\ cur' = None
    /\ log' = EmptyLog
    /\ latest' = [h \in Holder |-> 0]
    /\ forgotten' = {q \in Quote : status[q] = "offered"}
    /\ UNCHANGED <<mint, disordered, wasted>>

\* main_loop returns the error, and main calls it again.
ListFails == pc = "list" /\ StartOver

\* The process ends at any of its awaits and is started again.
Restart == StartOver

Expired(old, q) == submitted[q] - submitted[old] > Retention

\* (mutant) A request as old as the retention period no longer counts.
EvictedEarly(q) ==
    LET entries == log[HolderOf[q]]
        kept == CHOOSE i \in 1..(Len(entries) + 1) :
                    /\ i <= Len(entries) => submitted[q] - submitted[entries[i]] < Retention
                    /\ \A j \in 1..(i - 1) : submitted[q] - submitted[entries[j]] >= Retention
    IN  SubSeq(entries, kept, Len(entries))

\* (mutant) Nothing is ever evicted.
EvictedNever(q) == log[HolderOf[q]]

\* The holder's log without the entries at its front that had expired when q
\* was submitted.
Evicted(q) ==
    LET entries == log[HolderOf[q]]
        kept == CHOOSE i \in 1..(Len(entries) + 1) :
                    /\ i <= Len(entries) => ~Expired(entries[i], q)
                    /\ \A j \in 1..(i - 1) : Expired(entries[j], q)
    IN  SubSeq(entries, kept, Len(entries))

Full(entries) == Len(entries) >= MaxRequests

\* The quote looked up is pending and small enough: its holder's log decides.
\* An offer is counted before it is made.
Handle(q) ==
    LET h == HolderOf[q] IN
    /\ pc = "next" /\ q \in todo
    /\ status[q] = "pending" /\ q \in Small
    /\ todo' = todo \ {q}
    /\ cur' = q
    /\ IF Full(Evicted(q))
       THEN /\ pc' = "deny"
            /\ log' = [log EXCEPT ![h] = Evicted(q)]
       ELSE /\ pc' = "offer"
            /\ log' = [log EXCEPT ![h] = Append(Evicted(q), q)]
    /\ latest' = [latest EXCEPT ![h] = AtLeast(@, submitted[q])]
    /\ disordered' = IF submitted[q] < latest[h] THEN disordered \cup {h} ELSE disordered
    /\ UNCHANGED <<mint, failures, wasted, forgotten>>

\* The quote is decided by now, or the bill is too big.
Pass(q) ==
    /\ pc = "next" /\ q \in todo
    /\ status[q] # "pending" \/ q \notin Small
    /\ todo' = todo \ {q}
    /\ UNCHANGED <<mint, pc, cur, log, failures, latest, disordered, wasted, forgotten>>

LookupFails(q) ==
    /\ pc = "next" /\ q \in todo
    /\ Fails
    /\ todo' = todo \ {q}
    /\ UNCHANGED <<mint, pc, cur, log, latest, disordered, wasted, forgotten>>

\* The mint takes a decision on a pending quote, whether or not its answer
\* arrives.
Decide(step, decision) ==
    /\ pc = step /\ status[cur] = "pending"
    /\ pc' = "next" /\ cur' = None
    /\ status' = [status EXCEPT ![cur] = decision]
    /\ UNCHANGED <<submitted, now, todo, log, failures, latest, disordered, wasted, forgotten>>

Deny == Decide("deny", "denied")

Offer == Decide("offer", "offered")

\* The call fails, or answers that the quote was denied, because the quote is
\* decided by now or for another reason.  What was counted stays counted.
DecideFails ==
    /\ pc \in Deciding
    /\ IF status[cur] = "pending" THEN Fails ELSE UNCHANGED failures
    /\ pc' = "next" /\ cur' = None
    /\ wasted' = IF pc = "offer" THEN wasted \cup {HolderOf[cur]} ELSE wasted
    /\ UNCHANGED <<mint, todo, log, latest, disordered, forgotten>>

\* The loop waits and polls again.
Sleep ==
    /\ pc = "next" /\ todo = {}
    /\ pc' = "list"
    /\ UNCHANGED <<mint, todo, cur, log, failures, latest, disordered, wasted, forgotten>>

Loop ==
    \/ List \/ ListFails
    \/ \E q \in Quote : Handle(q) \/ Pass(q) \/ LookupFails(q)
    \/ Deny \/ Offer \/ DecideFails
    \/ Sleep

Next ==
    \/ Loop
    \/ Restart
    \/ Tick
    \/ \E q \in Quote : Submit(q) \/ DecideElsewhere(q)

Spec == Init /\ [][Next]_vars

\* The runtime keeps polling the loop's future, and every call ends, if only by
\* an error.
FairSpec == Spec /\ WF_vars(Loop)
-----------------------------------------------------------------------------
(* Properties *)

\* Quotes of q's holder that were submitted at most a retention period before.
Before(q) ==
    {p \in Quote : /\ HolderOf[p] = HolderOf[q]
                   /\ status[p] # "new"
                   /\ submitted[q] - submitted[p] \in 0..Retention}

\* Between two losses of the log, no holder is made more offers in a retention
\* period than configured: each loss gives the budget once more and no more than
\* that, also if it comes between counting an offer and making it.  Not so where
\* quotes were handled in another order than they were submitted: then
\* evict_expired, which stops at the first entry that has not expired, and the
\* counting by submission times go wrong.
OffersBounded ==
    \A q \in Quote \ forgotten :
        status[q] = "offered" /\ HolderOf[q] \notin disordered =>
            Cardinality({p \in Before(q) \ forgotten : status[p] = "offered"}) <= MaxRequests

\* Nobody is denied who was not made as many offers as configured in the
\* retention period before, unless an offer that failed was counted or quotes
\* were handled in another order.
DenialJustified ==
    \A q \in Quote :
        status[q] = "denied" /\ HolderOf[q] \notin disordered \cup wasted =>
            Cardinality({p \in Before(q) : status[p] = "offered"}) >= MaxRequests

\* What discount_sats promises of the offer that is about to be made, whatever
\* the bill's sum, the configured discount and the day of maturity are, and, for
\* sums that do not overflow, how exact it is.
DiscountSound ==
    pc = "offer" => OfferBounded(now) /\ FeeExact(now) /\ LaterIsCheaper(now)

\* Every quote for a small bill is decided at last, though calls fail, the
\* process restarts, and a counted offer may have to be tried again.
QuotesDecided ==
    \A q \in Small : status[q] = "pending" ~> status[q] # "pending"

\* The comment in main_loop: "if holder did more requests in the last
\* $retention_period than we allow, deny to avoid spam".
DeniesOnlySpam ==
    \A q \in Quote : status[q] = "denied" => Cardinality(Before(q)) > MaxRequests
=============================================================================
