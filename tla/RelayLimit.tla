----------------------------- MODULE RelayLimit -----------------------------
(***************************************************************************)
(* Admission of events by the relay (bcr-wdc-relay, relay.rs and           *)
(* rate_limit.rs).  A text note that publishes a block of a bill, identity *)
(* or company chain is charged to a sliding window of its connection and   *)
(* chain address; every other event is accepted.                           *)
(*                                                                         *)
(* Limit and length of the windows come from the configuration, so unlike  *)
(* in the limiter of the mail services a window may be longer than         *)
(* MAX_IDLE, after which an unused window is dropped with all its hits.    *)
(* The limiter is behind a mutex and reads the clock with the mutex held:  *)
(* admitting one event is one step.                                        *)
(***************************************************************************)
EXTENDS Integers, Sequences, FiniteSets

CONSTANTS
    Addr,             \* socket addresses, port included, of connections
    Event,            \* events that are published: [kind, tags]
    Chains,           \* chain ids that are limited: bill, identity, company
    ChainRateLimit,   \* chain_rate_limit, 12 unless configured
    ChainRateWindow,  \* chain_rate_limit_window, 120 s unless configured
    MaxIdle,          \* MAX_IDLE, 24 hours
    PruneInterval,    \* PRUNE_INTERVAL, 10 minutes
    MaxTime           \* bound of the clock

\* A tag is [kind, chain, id, address]; "i" tags name external content.
ASSUME RelayLimitAssumption ==
    /\ ChainRateLimit \in Nat /\ ChainRateWindow \in Nat
    /\ MaxIdle \in Nat /\ PruneInterval \in Nat \ {0} /\ MaxTime \in Nat
    /\ \A e \in Event :
          /\ DOMAIN e = {"kind", "tags"}
          /\ DOMAIN e.tags = 1..Len(e.tags)
-----------------------------------------------------------------------------
\* The tags of e that name a limited bitcredit chain, in order.
ChainTags(e) ==
    SelectSeq(e.tags, LAMBDA t : /\ t.kind = "i"
                                 /\ t.chain = "bitcredit"
                                 /\ t.id \in Chains)

\* bcr_chain_key: only the first such tag counts.
ChainKey(e) == <<ChainTags(e)[1].id, ChainTags(e)[1].address>>

\* Whether admit_event asks the limiter at all.
Limited(e) == e.kind = "TextNote" /\ ChainTags(e) # <<>>

\* The key of the window an event is charged to.
Key(a, e) == <<a, ChainKey(e)>>
Keys == {Key(a, e) : a \in Addr, e \in {f \in Event : Limited(f)}}

VARIABLES
    keys,       \* the windows in the map: key -> [hits, lastSeen]
    lastPrune,  \* when the map was last pruned
    now,        \* the clock
    answer,     \* whether the last event was accepted
    granted     \* history: the blocks admitted per key since the start

vars == <<keys, lastPrune, now, answer, granted>>

Window == [hits : Seq(Nat), lastSeen : Nat]

TypeOK ==
    /\ DOMAIN keys \subseteq Keys
    /\ \A k \in DOMAIN keys : /\ keys[k] \in Window
                              /\ Len(keys[k].hits) <= ChainRateLimit
    /\ lastPrune \in Nat
    /\ now \in Nat
    /\ answer \in BOOLEAN
    /\ granted \in [Keys -> Seq(Nat)]

Init ==
    /\ keys = <<>>
    /\ lastPrune = 0
    /\ now = 0
    /\ answer = TRUE
    /\ granted = [k \in Keys |-> <<>>]
-----------------------------------------------------------------------------
Expired(ts) == now - ts > ChainRateWindow

\* (mutant) Pruning goes by the oldest hit instead of the last use.
RetainedByFirstHit ==
    IF now - lastPrune < PruneInterval
    THEN DOMAIN keys
    ELSE {k \in DOMAIN keys :
            keys[k].hits = <<>> \/ now - keys[k].hits[1] <= MaxIdle}

\* (mutant) Windows are never dropped.
NeverPruned == DOMAIN keys

\* The windows left by prune, which runs first in every check.
Retained ==
    IF now - lastPrune < PruneInterval
    THEN DOMAIN keys
    ELSE {k \in DOMAIN keys : now - keys[k].lastSeen <= MaxIdle}

\* The first hit the popping loop of allow stops at.
FirstKept(hits) ==
    CHOOSE i \in 1..(Len(hits) + 1) :
        /\ i <= Len(hits) => ~Expired(hits[i])
        /\ \A j \in 1..(i - 1) : Expired(hits[j])

\* (mutant) Hits that no longer count are not popped.
RememberedUnpopped(k) == IF k \in Retained THEN keys[k].hits ELSE <<>>

\* What the window of k, created if it is missing, remembers after popping.
Remembered(k) ==
    IF k \in Retained
    THEN SubSeq(keys[k].hits, FirstKept(keys[k].hits), Len(keys[k].hits))
    ELSE <<>>

\* (mutant) A full window still takes a hit.
AllowsOneMore(k) == Len(Remembered(k)) <= ChainRateLimit

Allows(k) == Len(Remembered(k)) < ChainRateLimit

\* NostrRateLimiter::check for the window of k: prune, then allow.
Check(k) ==
    LET hits == IF Allows(k) THEN Append(Remembered(k), now)
                ELSE Remembered(k)
    IN keys' = [j \in Retained \cup {k} |->
                  IF j = k THEN [hits |-> hits, lastSeen |-> now]
                  ELSE keys[j]]

\* admit_event accepts or rejects the block e that a publishes.
Admit(a, e) ==
    /\ Limited(e)
    /\ Check(Key(a, e))
    /\ lastPrune' = IF now - lastPrune < PruneInterval THEN lastPrune ELSE now
    /\ answer' = Allows(Key(a, e))
    /\ granted' = IF Allows(Key(a, e))
                  THEN [granted EXCEPT ![Key(a, e)] = Append(@, now)]
                  ELSE granted
    /\ UNCHANGED now

\* admit_event accepts everything else without asking the limiter.
Pass(e) ==
    /\ ~Limited(e)
    /\ answer' = TRUE
    /\ UNCHANGED <<keys, lastPrune, now, granted>>

Tick ==
    /\ now < MaxTime
    /\ now' = now + 1
    /\ UNCHANGED <<keys, lastPrune, answer, granted>>

\* The windows are only in memory: a restarted relay starts with none, and
\* every budget afresh.
Restart ==
    /\ keys' = <<>>
    /\ lastPrune' = now
    /\ granted' = [k \in Keys |-> <<>>]
    /\ UNCHANGED <<now, answer>>

Next ==
    \/ \E a \in Addr, e \in Event : Admit(a, e)
    \/ \E e \in Event : Pass(e)
    \/ Tick
    \/ Restart

Spec == Init /\ [][Next]_vars
-----------------------------------------------------------------------------
\* A window is trusted as long as neither its own length nor the longest idle
\* time has passed.
Memory == IF ChainRateWindow <= MaxIdle THEN ChainRateWindow ELSE MaxIdle

\* Whatever window the relay is configured with, and however requests,
\* popping and pruning fall, a connection is granted no more than
\* ChainRateLimit blocks of a chain within the window, or within MAX_IDLE if
\* the configured window is longer than that (NostrRateLimiter::check).
GrantsBounded ==
    \A k \in Keys : \A i, j \in 1..Len(granted[k]) :
        j = i + ChainRateLimit => granted[k][j] - granted[k][i] > Memory

\* The blocks granted for k that count.
Recent(k) == {i \in DOMAIN granted[k] : ~Expired(granted[k][i])}

\* A block is refused only when the full budget was granted within the
\* window: nobody is refused for blocks that no longer count, or for blocks
\* of another connection or chain (SlidingWindow::allow).
RefusesOnlySpent ==
    \A k \in Keys : Allows(k) \/ Cardinality(Recent(k)) >= ChainRateLimit

\* Connections come and go, and the map does not collect their windows for
\* ever: any two windows it holds were used less than MAX_IDLE and
\* PRUNE_INTERVAL apart, though only a check ever prunes
\* (NostrRateLimiter::prune).
MapHoldsRecent ==
    \A j, k \in DOMAIN keys :
        keys[j].lastSeen - keys[k].lastSeen < MaxIdle + PruneInterval
=============================================================================
