----------------------------- MODULE SlidingLog -----------------------------
(***************************************************************************)
(* What a rate limiter promises, without any of its bookkeeping.  The      *)
(* complete history of granted hits is kept per key, nothing is ever       *)
(* forgotten, and a request is decided by counting the hits that are at    *)
(* most one window old.  RateLimit implements this specification while     *)
(* keeping only a few hits per key and dropping idle keys altogether.      *)
(***************************************************************************)
EXTENDS Integers, Sequences, FiniteSets

CONSTANTS
    Win,      \* the keys hits are counted for
    Limit,    \* [Win -> Nat]: hits granted per window
    Window    \* [Win -> Nat]: length of the window

VARIABLES
    log,      \* log[w]: the times at which a hit of w was granted, in order
    now,      \* the clock the limiter reads
    answer    \* the answer to the last request

logVars == <<log, now, answer>>

\* The hits of w that still count against its limit.
Recent(w) == {i \in 1..Len(log[w]) : now - log[w][i] <= Window[w]}

HasBudget(w) == Cardinality(Recent(w)) < Limit[w]

Init ==
    /\ log = [w \in Win |-> <<>>]
    /\ now = 0
    /\ answer = TRUE

\* A request names the keys it uses.  Each key that has budget left is
\* charged, also when the request as a whole is refused.
Ask(q) ==
    /\ answer' = \A w \in q : HasBudget(w)
    /\ log' = [w \in Win |-> IF w \in q /\ HasBudget(w)
                             THEN Append(log[w], now)
                             ELSE log[w]]
    /\ now' = now

Advance ==
    /\ now' = now + 1
    /\ UNCHANGED <<log, answer>>

Next == Advance \/ \E q \in SUBSET Win : Ask(q)

Spec == Init /\ [][Next]_logVars
=============================================================================
