------------------------------ MODULE RateLimit ------------------------------
(***************************************************************************)
(* The in-memory rate limiter that the e-mail identity service and the     *)
(* e-mail notification service share (bcr-wdc-shared, rate_limit.rs).      *)
(*                                                                         *)
(* Three maps hold a sliding window per e-mail address, per sending node   *)
(* and per receiving node.  A window remembers the times of its granted    *)
(* hits; expired ones are popped only when the window is used, and windows *)
(* that were idle for MaxIdle are dropped when some request happens to run *)
(* the periodic pruning.  The limiter sits behind a mutex, so one call of  *)
(* check is one step.                                                      *)
(***************************************************************************)
EXTENDS Integers, Sequences, FiniteSets

CONSTANTS
    Email,          \* e-mail addresses
    Node,           \* node ids
    EmailLimit,     \* EMAIL_LIMIT, 20 in the code
    EmailWindow,    \* EMAIL_WINDOW, 1 day
    NodeLimit,      \* NODE_ID_LIMIT, 50
    NodeWindow,     \* NODE_ID_WINDOW, 10 minutes
    MaxIdle,        \* MAX_IDLE, 1 day
    PruneInterval,  \* PRUNE_INTERVAL, 10 minutes
    MaxTime         \* bound of the clock

\* Pruning is sound only because a window is never longer than MAX_IDLE; the
\* e-mail window is exactly as long.
ASSUME RateLimitAssumption ==
    /\ EmailLimit \in Nat /\ EmailWindow \in Nat
    /\ NodeLimit \in Nat /\ NodeWindow \in Nat
    /\ MaxIdle \in Nat /\ PruneInterval \in Nat
    /\ EmailWindow <= MaxIdle
    /\ NodeWindow <= MaxIdle
    /\ MaxTime \in Nat

\* A window is named by the map it lives in and its key in that map.
Win == ({"email"} \X Email) \cup ({"sender", "receiver"} \X Node)

Limit  == [w \in Win |-> IF w[1] = "email" THEN EmailLimit ELSE NodeLimit]
Window == [w \in Win |-> IF w[1] = "email" THEN EmailWindow ELSE NodeWindow]

\* The arguments of check: each of the three is given or left out.
Request == {q \in SUBSET Win : \A v, w \in q : v[1] = w[1] => v = w}

VARIABLES
    entries,    \* the windows present in the three maps
    hits,       \* hits[w]: the granted hits w remembers, oldest first
    lastSeen,   \* lastSeen[w]: when w was last used
    lastPrune,  \* when the maps were last pruned
    now,        \* the clock
    answer,     \* the answer of the last check
    log         \* history: every hit ever granted

vars == <<entries, hits, lastSeen, lastPrune, now, answer, log>>

TypeOK ==
    /\ entries \in SUBSET Win
    /\ hits \in [Win -> Seq(Nat)]
    /\ \A w \in Win : Len(hits[w]) <= Limit[w]
    /\ lastSeen \in [Win -> Nat]
    /\ lastPrune \in Nat
    /\ now \in Nat
    /\ answer \in BOOLEAN
    /\ log \in [Win -> Seq(Nat)]

Init ==
    /\ entries = {}
    /\ hits = [w \in Win |-> <<>>]
    /\ lastSeen = [w \in Win |-> 0]
    /\ lastPrune = 0
    /\ now = 0
    /\ answer = TRUE
    /\ log = [w \in Win |-> <<>>]
-----------------------------------------------------------------------------
\* (mutant) A hit exactly one window old no longer counts.
ExpiredAtWindow(ts, w) == now - ts >= Window[w]

Expired(ts, w) == now - ts > Window[w]

\* The position of the first hit the popping loop of allow stops at.
FirstKept(w) ==
    CHOOSE i \in 1..(Len(hits[w]) + 1) :
        /\ i <= Len(hits[w]) => ~Expired(hits[w][i], w)
        /\ \A j \in 1..(i - 1) : Expired(hits[w][j], w)

\* (mutant) Idle windows are dropped one moment too early.
RetainedTooBriefly ==
    IF now - lastPrune < PruneInterval
    THEN entries
    ELSE {w \in entries : now - lastSeen[w] < MaxIdle}

\* The windows that survive prune_if_needed at the start of a check.
Retained ==
    IF now - lastPrune < PruneInterval
    THEN entries
    ELSE {w \in entries : now - lastSeen[w] <= MaxIdle}

\* (mutant) Expired hits are not popped, only idle windows dropped.
PoppedNever(w) == IF w \in Retained THEN hits[w] ELSE <<>>

\* What w remembers once pruned, created if it was missing, and popped.
Popped(w) ==
    IF w \in Retained
    THEN SubSeq(hits[w], FirstKept(w), Len(hits[w]))
    ELSE <<>>

Admits(w) == Len(Popped(w)) < Limit[w]

\* One call of check.  Every window that is asked is charged on its own: a
\* request refused by one of them still uses up the budget of the others.
Check(q) ==
    /\ entries' = Retained \cup q
    /\ hits' = [w \in Win |->
                  IF w \notin q
                  THEN (IF w \in Retained THEN hits[w] ELSE <<>>)
                  ELSE IF Admits(w) THEN Append(Popped(w), now)
                       ELSE Popped(w)]
    /\ lastSeen' = [w \in Win |-> IF w \in q THEN now
                                  ELSE IF w \in Retained THEN lastSeen[w]
                                  ELSE 0]
    /\ lastPrune' = IF now - lastPrune < PruneInterval THEN lastPrune ELSE now
    /\ answer' = \A w \in q : Admits(w)
    /\ log' = [w \in Win |-> IF w \in q /\ Admits(w)
                             THEN Append(log[w], now)
                             ELSE log[w]]
    /\ now' = now

Tick ==
    /\ now < MaxTime
    /\ now' = now + 1
    /\ UNCHANGED <<entries, hits, lastSeen, lastPrune, answer, log>>

Next == Tick \/ \E q \in Request : Check(q)

Spec == Init /\ [][Next]_vars
-----------------------------------------------------------------------------
(***************************************************************************)
(* The inductive invariant: a window remembers a suffix of its history,    *)
(* what it forgot (by popping or by pruning) has expired, and the limit    *)
(* holds in every window of the history.                                   *)
(***************************************************************************)

\* How many hits of the history w has forgotten.
Forgotten(w) == Len(log[w]) - Len(hits[w])

\* The history is in order, in the past, and never after the last use of a
\* window that is still in its map.
LogOrdered ==
    \A w \in Win :
        /\ \A i, j \in 1..Len(log[w]) : i <= j => log[w][i] <= log[w][j]
        /\ \A i \in 1..Len(log[w]) : log[w][i] <= now
        /\ w \in entries => \A i \in 1..Len(log[w]) : log[w][i] <= lastSeen[w]

\* A window remembers the end of its history.
HitsAreSuffix ==
    \A w \in Win :
        /\ Len(hits[w]) <= Len(log[w])
        /\ \A i \in 1..Len(hits[w]) : hits[w][i] = log[w][Forgotten(w) + i]

\* Hits that no longer count may be forgotten, and only those: neither lazy
\* popping nor dropping an idle window loses a hit that is still inside the
\* window (SlidingWindow::allow and retain).
OnlyExpiredForgotten ==
    \A w \in Win :
        /\ w \notin entries => hits[w] = <<>>
        /\ \A i \in 1..Forgotten(w) : Expired(log[w][i], w)

\* No window of time holds more than Limit granted hits of a key, however
\* the requests interleave with popping and pruning: the hit Limit places
\* after another one comes more than a whole window later.
WindowBound ==
    \A w \in Win : \A i, j \in 1..Len(log[w]) :
        j = i + Limit[w] => log[w][j] - log[w][i] > Window[w]

\* The bookkeeping never changes a decision: the limiter grants and refuses
\* exactly what one with a complete history would, so nobody is refused who
\* still has budget either.
Exact == INSTANCE SlidingLog WITH
    Win <- Win, Limit <- Limit, Window <- Window,
    log <- log, now <- now, answer <- answer
DecidesLikeFullHistory == Exact!Spec
=============================================================================
