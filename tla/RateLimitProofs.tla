--------------------------- MODULE RateLimitProofs ---------------------------
(***************************************************************************)
(* Proofs about the shared rate limiter, for all limits, windows, idle     *)
(* times and pruning intervals that RateLimitAssumption allows.            *)
(*                                                                         *)
(* The argument: whatever a window remembers stands for its history, being *)
(* the end of it with only expired hits missing (StandsFor).  Popping and  *)
(* dropping idle windows keep that, so the next granted hit is more than a *)
(* window later than the one Limit places before it, and the number of     *)
(* hits left after popping is the number of hits that still count.         *)
(***************************************************************************)
EXTENDS RateLimit, TLAPS, WellFoundedInduction, SequenceTheorems, FiniteSetTheorems

\* A set of naturals that is not empty has a smallest member, so that there is
\* a first entry at which popping expired ones stops.
LEMMA SmallestOf ==
    ASSUME NEW T, T \subseteq Nat, T # {}
    PROVE  \E m \in T : \A y \in T : m <= y
<1> DEFINE Less == {s \in Nat \X Nat : s[1] < s[2]}
<1>1. IsWellFoundedOn(Less, Nat)
  BY NatLessThanWellFounded DEF OpToRel
<1> HIDE DEF Less
<1>2. PICK m \in T : \A y \in T : ~(<<y, m>> \in Less)
  BY <1>1, WFMin
<1>3. \A y \in T : ~(y < m)
  BY <1>2 DEF Less
<1> QED BY <1>3

\* Every window has a limit and a length, and no window outlasts MaxIdle.
LEMMA WinConstants ==
    ASSUME NEW w \in Win
    PROVE  /\ Limit[w] \in Nat
           /\ Window[w] \in Nat
           /\ Window[w] <= MaxIdle
BY RateLimitAssumption DEF Limit, Window

\* Where the popping loop of SlidingWindow::allow stops: at the first hit that
\* has not expired, or behind the last one.
LEMMA FirstKeptProperties ==
    ASSUME TypeOK, NEW w \in Win
    PROVE  /\ FirstKept(w) \in 1..(Len(hits[w]) + 1)
           /\ FirstKept(w) <= Len(hits[w]) => ~Expired(hits[w][FirstKept(w)], w)
           /\ \A j \in 1..(FirstKept(w) - 1) : Expired(hits[w][j], w)
<1> DEFINE n == Len(hits[w])
           T == {i \in 1..(n + 1) : i <= n => ~Expired(hits[w][i], w)}
<1>1. n \in Nat
  BY DEF TypeOK
<1>2. T \subseteq Nat /\ n + 1 \in T
  BY <1>1
<1>3. PICK m \in T : \A y \in T : m <= y
  BY <1>2, SmallestOf
<1>4. ASSUME NEW j \in 1..(m - 1) PROVE Expired(hits[w][j], w)
  BY <1>1, <1>3
<1>5. /\ m \in 1..(n + 1)
      /\ m <= n => ~Expired(hits[w][m], w)
      /\ \A j \in 1..(m - 1) : Expired(hits[w][j], w)
  BY <1>3, <1>4
<1> QED BY <1>5 DEF FirstKept

\* The strengthening under which the bound is inductive.
IInv == TypeOK /\ LogOrdered /\ HitsAreSuffix /\ OnlyExpiredForgotten /\ WindowBound

\* h may stand for the history of w: it is the end of it, and what is missing
\* has expired.
StandsFor(h, w) ==
    /\ h \in Seq(Nat)
    /\ Len(h) <= Len(log[w])
    /\ \A i \in 1..Len(h) : h[i] = log[w][Len(log[w]) - Len(h) + i]
    /\ \A i \in 1..(Len(log[w]) - Len(h)) : Expired(log[w][i], w)

\* What a window remembers between two calls stands for its history.
LEMMA HitsStandForHistory ==
    ASSUME IInv, NEW w \in Win
    PROVE  StandsFor(hits[w], w)
BY DEF IInv, TypeOK, HitsAreSuffix, OnlyExpiredForgotten, StandsFor, Forgotten

\* A window that is missing, or idle for too long, has nothing to remember.
LEMMA NothingToRemember ==
    ASSUME IInv, NEW w \in Win, w \notin Retained
    PROVE  StandsFor(<<>>, w)
<1>1. log[w] \in Seq(Nat) /\ Len(log[w]) \in Nat
  BY DEF IInv, TypeOK
<1>2. ASSUME NEW i \in 1..Len(log[w]) PROVE Expired(log[w][i], w)
  <2>1. CASE w \notin entries
    BY <1>1, <1>2, <2>1 DEF IInv, OnlyExpiredForgotten, Forgotten
  <2>2. CASE w \in entries
    <3>1. now - lastSeen[w] > MaxIdle
      BY <2>2, RateLimitAssumption DEF Retained, IInv, TypeOK
    <3>2. log[w][i] <= lastSeen[w] /\ log[w][i] \in Nat
      BY <1>1, <1>2, <2>2 DEF IInv, LogOrdered
    <3> QED BY <3>1, <3>2, WinConstants, RateLimitAssumption DEF Expired, IInv, TypeOK
  <2> QED BY <2>1, <2>2
<1> QED BY <1>1, <1>2 DEF StandsFor

\* The elements of a suffix of a sequence.
LEMMA SuffixProperties ==
    ASSUME NEW s \in Seq(Nat), NEW k \in 1..(Len(s) + 1)
    PROVE  /\ SubSeq(s, k, Len(s)) \in Seq(Nat)
           /\ Len(SubSeq(s, k, Len(s))) = Len(s) - k + 1
           /\ \A i \in 1..(Len(s) - k + 1) : SubSeq(s, k, Len(s))[i] = s[k + i - 1]
<1>1. Len(s) \in Nat /\ Len(s) \in (k - 1)..Len(s)
  OBVIOUS
<1> QED BY <1>1, SubSeqProperties

\* Dropping expired hits from the front of something that stands for the
\* history leaves something that does.
LEMMA SuffixStandsForHistory ==
    ASSUME NEW w \in Win, log[w] \in Seq(Nat), NEW g, StandsFor(g, w),
           NEW k \in 1..(Len(g) + 1), \A j \in 1..(k - 1) : Expired(g[j], w)
    PROVE  /\ StandsFor(SubSeq(g, k, Len(g)), w)
           /\ Len(SubSeq(g, k, Len(g))) <= Len(g)
<1> DEFINE n == Len(g)
           l == Len(log[w])
           h == SubSeq(g, k, n)
           m == Len(h)
<1>1. n \in Nat /\ l \in Nat /\ n <= l /\ g \in Seq(Nat) /\ k \in 1..(n + 1)
  BY DEF StandsFor
<1>2. /\ \A i \in 1..n : g[i] = log[w][l - n + i]
      /\ \A i \in 1..(l - n) : Expired(log[w][i], w)
  BY DEF StandsFor
<1>3. h \in Seq(Nat) /\ m = n - k + 1 /\ \A i \in 1..m : h[i] = g[k + i - 1]
  BY <1>1, SuffixProperties
<1> HIDE DEF n, l, h, m
<1>4. m <= l
  BY <1>1, <1>3
<1>5. ASSUME NEW i \in 1..m PROVE h[i] = log[w][l - m + i]
  <2>1. k + i - 1 \in 1..n /\ l - n + (k + i - 1) = l - m + i
    BY <1>1, <1>3
  <2> QED BY <1>2, <1>3, <2>1
<1>6. ASSUME NEW i \in 1..(l - m) PROVE Expired(log[w][i], w)
  <2>1. i \in Int /\ l \in Int /\ n \in Int /\ k \in Int /\ 1 <= i /\ i <= l - n + k - 1
    BY <1>1, <1>3
  <2>2. CASE i <= l - n
    BY <1>2, <2>1, <2>2
  <2>3. CASE i > l - n
    <3>1. i - (l - n) \in 1..(k - 1) /\ i - (l - n) \in 1..n /\ l - n + (i - (l - n)) = i
      BY <1>1, <2>1, <2>3
    <3>2. Expired(g[i - (l - n)], w)
      BY <3>1
    <3>3. g[i - (l - n)] = log[w][l - n + (i - (l - n))]
      BY <3>1, <1>2
    <3> QED BY <3>1, <3>2, <3>3
  <2> QED BY <2>1, <2>2, <2>3
<1>7. StandsFor(h, w)
  BY <1>3, <1>4, <1>5, <1>6 DEF StandsFor, l, m
<1>8. m <= n
  BY <1>1, <1>3
<1> QED BY <1>7, <1>8 DEF h, m, n

\* After pruning and popping, what is left still stands for the history, and
\* is no longer than what was remembered.
LEMMA PoppedStandsForHistory ==
    ASSUME IInv, NEW w \in Win
    PROVE  StandsFor(Popped(w), w) /\ Len(Popped(w)) <= Len(hits[w])
<1>1. CASE w \notin Retained
  BY <1>1, NothingToRemember DEF Popped, IInv, TypeOK
<1>2. CASE w \in Retained
  <2>1. /\ FirstKept(w) \in 1..(Len(hits[w]) + 1)
        /\ \A j \in 1..(FirstKept(w) - 1) : Expired(hits[w][j], w)
    BY FirstKeptProperties DEF IInv
  <2>2. StandsFor(hits[w], w) /\ log[w] \in Seq(Nat)
    BY HitsStandForHistory DEF IInv, TypeOK
  <2>3. StandsFor(SubSeq(hits[w], FirstKept(w), Len(hits[w])), w)
         /\ Len(SubSeq(hits[w], FirstKept(w), Len(hits[w]))) <= Len(hits[w])
    <3>1. Len(hits[w]) \in Nat
      BY <2>2 DEF StandsFor
    <3> QED BY <2>1, <2>2, SuffixStandsForHistory
  <2> QED BY <1>2, <2>3 DEF Popped
<1> QED BY <1>1, <1>2
-----------------------------------------------------------------------------
\* The limiter starts with empty maps and an empty history.
LEMMA InitInvariant == Init => IInv
BY RateLimitAssumption, WinConstants
   DEF Init, IInv, TypeOK, LogOrdered, HitsAreSuffix, OnlyExpiredForgotten,
       WindowBound, Forgotten

\* Time passing only expires hits.
LEMMA TickInvariant ==
    ASSUME IInv, Tick
    PROVE  IInv'
<1> USE DEF IInv, Tick
<1>1. TypeOK'
  BY DEF TypeOK
<1>2. LogOrdered'
  <2>1. \A w \in Win : \A i \in 1..Len(log[w]) : log[w][i] \in Nat
    BY DEF TypeOK
  <2> QED BY <2>1 DEF LogOrdered, TypeOK
<1>3. HitsAreSuffix'
  BY DEF HitsAreSuffix, Forgotten
<1>4. OnlyExpiredForgotten'
  <2>1. ASSUME NEW w \in Win, NEW i \in 1..Forgotten(w)
        PROVE  Expired(log[w][i], w)'
    <3>1. Len(log[w]) \in Nat /\ Len(hits[w]) \in Nat /\ log[w] \in Seq(Nat)
      BY DEF TypeOK
    <3>2. i \in 1..Len(log[w])
      BY <3>1 DEF Forgotten
    <3>3. log[w][i] \in Nat /\ now \in Nat /\ Window[w] \in Nat
      BY <3>1, <3>2, WinConstants DEF TypeOK
    <3>4. Expired(log[w][i], w)
      BY DEF OnlyExpiredForgotten
    <3> QED BY <3>3, <3>4 DEF Expired
  <2> QED BY <2>1 DEF OnlyExpiredForgotten, Forgotten
<1>5. WindowBound'
  BY DEF WindowBound
<1> QED BY <1>1, <1>2, <1>3, <1>4, <1>5

\* What one check does to a window and its history.
LEMMA CheckWindow ==
    ASSUME IInv, NEW q \in Request, Check(q), NEW w \in Win
    PROVE  /\ StandsFor(hits[w], w)'
           /\ Len(hits'[w]) <= Limit[w]
           /\ log'[w] \in Seq(Nat)
           /\ \/ log'[w] = log[w]
              \/ /\ w \in q
                 /\ log'[w] = Append(log[w], now)
                 /\ Len(Popped(w)) < Limit[w]
<1>1. /\ now' = now /\ now \in Nat
      /\ log[w] \in Seq(Nat) /\ hits[w] \in Seq(Nat)
      /\ Len(hits[w]) <= Limit[w] /\ Limit[w] \in Nat
  BY WinConstants DEF Check, IInv, TypeOK
<1>3. CASE w \notin q /\ w \in Retained
  <2>1. hits'[w] = hits[w] /\ log'[w] = log[w]
    BY <1>3 DEF Check
  <2> QED BY <1>1, <2>1, HitsStandForHistory DEF StandsFor, Expired
<1>4. CASE w \notin q /\ w \notin Retained
  <2>1. hits'[w] = <<>> /\ log'[w] = log[w]
    BY <1>4 DEF Check
  <2> QED BY <1>1, <1>4, <2>1, NothingToRemember DEF StandsFor, Expired
<1>5. CASE w \in q /\ ~Admits(w)
  <2>1. hits'[w] = Popped(w) /\ log'[w] = log[w]
    BY <1>5 DEF Check
  <2>2. Len(Popped(w)) <= Limit[w]
    BY <1>1, PoppedStandsForHistory DEF StandsFor
  <2> QED BY <1>1, <2>1, <2>2, PoppedStandsForHistory DEF StandsFor, Expired
<1>6. CASE w \in q /\ Admits(w)
  <2> DEFINE h == Popped(w)
             l == log[w]
  <2>1. hits'[w] = Append(h, now) /\ log'[w] = Append(l, now)
    BY <1>6 DEF Check
  <2>2. StandsFor(h, w)
    BY PoppedStandsForHistory
  <2>3. Len(h) < Limit[w]
    BY <1>6 DEF Admits
  <2>4. /\ h \in Seq(Nat) /\ Len(h) \in Nat /\ Len(l) \in Nat /\ Len(h) <= Len(l)
        /\ l \in Seq(Nat)
    BY <1>1, <2>2 DEF StandsFor
  <2>5. /\ \A i \in 1..Len(h) : h[i] = l[Len(l) - Len(h) + i]
        /\ \A i \in 1..(Len(l) - Len(h)) : now - l[i] > Window[w]
    BY <2>2 DEF StandsFor, Expired
  <2> HIDE DEF h, l
  <2>6. /\ Append(h, now) \in Seq(Nat) /\ Len(Append(h, now)) = Len(h) + 1
        /\ Append(l, now) \in Seq(Nat) /\ Len(Append(l, now)) = Len(l) + 1
    BY <1>1, <2>4
  <2>7. ASSUME NEW i \in 1..(Len(h) + 1)
        PROVE  Append(h, now)[i] = Append(l, now)[Len(l) - Len(h) + i]
    <3>1. CASE i = Len(h) + 1
      BY <1>1, <2>4, <3>1
    <3>2. CASE i \in 1..Len(h)
      <4>1. Len(l) - Len(h) + i \in 1..Len(l)
        BY <2>4, <3>2
      <4>2. Append(h, now)[i] = h[i]
        BY <2>4, <3>2
      <4>3. Append(l, now)[Len(l) - Len(h) + i] = l[Len(l) - Len(h) + i]
        BY <2>4, <4>1
      <4>4. h[i] = l[Len(l) - Len(h) + i]
        BY <2>5, <3>2
      <4> QED BY <4>2, <4>3, <4>4
    <3> QED BY <2>4, <3>1, <3>2
  <2>8. ASSUME NEW i \in 1..(Len(l) - Len(h))
        PROVE  now - Append(l, now)[i] > Window[w]
    BY <1>1, <2>4, <2>5
  <2>9. StandsFor(hits[w], w)'
    <3>1. Len(h) + 1 <= Len(l) + 1 /\ (Len(l) + 1) - (Len(h) + 1) = Len(l) - Len(h)
      BY <2>4
    <3>2. /\ hits'[w] \in Seq(Nat)
          /\ Len(hits'[w]) = Len(h) + 1
          /\ Len(log'[w]) = Len(l) + 1
      BY <2>1, <2>6
    <3>3. \A i \in 1..Len(hits'[w]) :
             hits'[w][i] = log'[w][Len(log'[w]) - Len(hits'[w]) + i]
      BY <2>1, <2>7, <3>1, <3>2
    <3>4. \A i \in 1..(Len(log'[w]) - Len(hits'[w])) : now' - log'[w][i] > Window[w]
      BY <1>1, <2>1, <2>8, <3>1, <3>2
    <3> QED BY <3>1, <3>2, <3>3, <3>4 DEF StandsFor, Expired
  <2>10. Len(hits'[w]) <= Limit[w]
    BY <1>1, <2>1, <2>3, <2>4, <2>6
  <2>11. log'[w] \in Seq(Nat)
    BY <2>1, <2>6
  <2>12. log'[w] = Append(log[w], now) /\ Len(Popped(w)) < Limit[w]
    BY <2>1, <2>3 DEF h, l
  <2> QED BY <1>6, <2>9, <2>10, <2>11, <2>12
<1> QED BY <1>3, <1>4, <1>5, <1>6

\* One call of RateLimiter::check keeps the invariant.
LEMMA CheckInvariant ==
    ASSUME IInv, NEW q \in Request, Check(q)
    PROVE  IInv'
<1>1. /\ now' = now /\ now \in Nat /\ q \in SUBSET Win /\ Retained \subseteq entries
      /\ entries \subseteq Win
  BY DEF Check, IInv, TypeOK, Request, Retained
<1>2. TypeOK'
  <2>1. hits' \in [Win -> Seq(Nat)] /\ \A w \in Win : Len(hits'[w]) <= Limit[w]
    <3>1. \A w \in Win : hits'[w] \in Seq(Nat) /\ Len(hits'[w]) <= Limit[w]
      BY CheckWindow DEF StandsFor
    <3>2. hits' = [w \in Win |-> hits'[w]]
      BY DEF Check
    <3> QED BY <3>1, <3>2
  <2>2. log' \in [Win -> Seq(Nat)]
    <3>1. \A w \in Win : log'[w] \in Seq(Nat)
      BY CheckWindow
    <3>2. log' = [w \in Win |-> log'[w]]
      BY DEF Check
    <3> QED BY <3>1, <3>2
  <2>3. lastSeen' \in [Win -> Nat]
    BY <1>1 DEF Check, IInv, TypeOK
  <2>4. entries' \subseteq Win /\ lastPrune' \in Nat /\ answer' \in BOOLEAN
    BY <1>1 DEF Check, IInv, TypeOK
  <2> QED BY <1>1, <2>1, <2>2, <2>3, <2>4 DEF TypeOK
<1>3. LogOrdered'
  <2> SUFFICES ASSUME NEW w \in Win
               PROVE  /\ \A i, j \in 1..Len(log'[w]) : i <= j => log'[w][i] <= log'[w][j]
                      /\ \A i \in 1..Len(log'[w]) : log'[w][i] <= now
                      /\ w \in entries' => \A i \in 1..Len(log'[w]) :
                                               log'[w][i] <= lastSeen'[w]
    BY <1>1 DEF LogOrdered
  <2>1. /\ log[w] \in Seq(Nat) /\ Len(log[w]) \in Nat
        /\ \A i, j \in 1..Len(log[w]) : i <= j => log[w][i] <= log[w][j]
        /\ \A i \in 1..Len(log[w]) : log[w][i] <= now
        /\ w \in entries => \A i \in 1..Len(log[w]) : log[w][i] <= lastSeen[w]
    BY DEF IInv, TypeOK, LogOrdered
  <2>2. CASE log'[w] = log[w]
    <3>1. CASE w \in q
      BY <1>1, <2>1, <2>2, <3>1 DEF Check
    <3>2. CASE w \notin q
      BY <1>1, <2>1, <2>2, <3>2 DEF Check
    <3> QED BY <3>1, <3>2
  <2>3. CASE w \in q /\ log'[w] = Append(log[w], now)
    <3>1. lastSeen'[w] = now
      BY <2>3 DEF Check
    <3>2. \A i \in 1..Len(log'[w]) : log'[w][i] <= now
      BY <1>1, <2>1, <2>3
    <3>3. \A i, j \in 1..Len(log'[w]) : i <= j => log'[w][i] <= log'[w][j]
      BY <1>1, <2>1, <2>3
    <3> QED BY <3>1, <3>2, <3>3
  <2> QED BY <2>2, <2>3, CheckWindow
<1>4. HitsAreSuffix'
  BY CheckWindow DEF HitsAreSuffix, StandsFor, Forgotten
<1>5. OnlyExpiredForgotten'
  <2>1. \A w \in Win : w \notin entries' => hits'[w] = <<>>
    BY DEF Check
  <2> QED BY <2>1, CheckWindow DEF OnlyExpiredForgotten, StandsFor, Forgotten
<1>6. WindowBound'
  <2> SUFFICES ASSUME NEW w \in Win, NEW i \in 1..Len(log'[w]),
                      NEW j \in 1..Len(log'[w]), j = i + Limit[w]
               PROVE  log'[w][j] - log'[w][i] > Window[w]
    BY DEF WindowBound
  <2>1. /\ log[w] \in Seq(Nat) /\ Len(log[w]) \in Nat /\ Limit[w] \in Nat
        /\ \A x, y \in 1..Len(log[w]) :
              y = x + Limit[w] => log[w][y] - log[w][x] > Window[w]
    <3>1. log[w] \in Seq(Nat) /\ Len(log[w]) \in Nat
      BY DEF IInv, TypeOK
    <3>2. Limit[w] \in Nat
      BY WinConstants
    <3>3. \A x, y \in 1..Len(log[w]) :
             y = x + Limit[w] => log[w][y] - log[w][x] > Window[w]
      BY DEF IInv, WindowBound
    <3> QED BY <3>1, <3>2, <3>3
  <2>2. CASE log'[w] = log[w]
    BY <2>1, <2>2
  <2>3. CASE log'[w] = Append(log[w], now) /\ Len(Popped(w)) < Limit[w]
    <3>1. CASE j \in 1..Len(log[w])
      BY <2>1, <2>3, <3>1
    <3>2. CASE j = Len(log[w]) + 1
      <4>1. /\ Len(Popped(w)) \in Nat
            /\ \A x \in 1..(Len(log[w]) - Len(Popped(w))) : now - log[w][x] > Window[w]
        BY PoppedStandsForHistory DEF StandsFor, Expired
      <4>2. i \in 1..(Len(log[w]) - Len(Popped(w))) /\ i \in 1..Len(log[w])
        BY <2>1, <2>3, <3>2, <4>1
      <4>3. log'[w][j] = now /\ log'[w][i] = log[w][i]
        BY <1>1, <2>1, <2>3, <3>2, <4>2
      <4>4. now - log[w][i] > Window[w]
        BY <4>1, <4>2
      <4> QED BY <4>3, <4>4
    <3>3. Len(log'[w]) = Len(log[w]) + 1
      BY <1>1, <2>1, <2>3
    <3>4. j \in 1..Len(log[w]) \/ j = Len(log[w]) + 1
      BY <2>1, <3>3
    <3> QED BY <3>1, <3>2, <3>4
  <2> QED BY <2>2, <2>3, CheckWindow
<1> QED BY <1>2, <1>3, <1>4, <1>5, <1>6 DEF IInv

\* A stuttering step keeps the invariant.
LEMMA StutterInvariant ==
    ASSUME IInv, UNCHANGED vars
    PROVE  IInv'
BY DEF vars, IInv, TypeOK, LogOrdered, HitsAreSuffix, OnlyExpiredForgotten,
       WindowBound, Forgotten, Expired

\* The strengthened invariant holds in every reachable state: a window always
\* remembers the end of its history and has forgotten only what expired.
THEOREM Invariance == Spec => []IInv
<1>1. IInv /\ [Next]_vars => IInv'
  BY TickInvariant, CheckInvariant, StutterInvariant DEF Next
<1> QED BY InitInvariant, <1>1, PTL DEF Spec

\* The limiter's state keeps its types; in particular no window ever remembers
\* more than Limit hits, so the memory of a key is bounded.
THEOREM TypeCorrect == Spec => []TypeOK
<1>1. IInv => TypeOK
  BY DEF IInv
<1> QED BY Invariance, <1>1, PTL

\* No key is granted more than Limit hits in any window of time, however calls
\* of check interleave with popping and pruning (SlidingWindow::allow).
THEOREM WindowBoundHolds == Spec => []WindowBound
<1>1. IInv => WindowBound
  BY DEF IInv
<1> QED BY Invariance, <1>1, PTL

\* Neither popping nor prune_if_needed ever loses a hit that still counts.
THEOREM OnlyExpiredForgottenHolds == Spec => []OnlyExpiredForgotten
<1>1. IInv => OnlyExpiredForgotten
  BY DEF IInv
<1> QED BY Invariance, <1>1, PTL
-----------------------------------------------------------------------------
\* Popping stops at the first hit that still counts, and the history is in
\* order: nothing that is kept has expired.
LEMMA PoppedKeepsRecent ==
    ASSUME IInv, NEW w \in Win,
           NEW i \in (Len(log[w]) - Len(Popped(w)) + 1)..Len(log[w])
    PROVE  ~Expired(log[w][i], w)
<1> DEFINE l == Len(log[w])
           n == Len(hits[w])
           k == FirstKept(w)
<1>1. /\ l \in Nat /\ n \in Nat /\ n <= l /\ hits[w] \in Seq(Nat) /\ log[w] \in Seq(Nat)
      /\ \A x \in 1..n : hits[w][x] = log[w][l - n + x]
  BY HitsStandForHistory DEF StandsFor, IInv, TypeOK
<1>2. Popped(w) \in Seq(Nat) /\ Len(Popped(w)) \in Nat /\ Len(Popped(w)) <= l
  BY PoppedStandsForHistory DEF StandsFor
<1>3. Popped(w) # <<>>
  BY <1>1, <1>2
<1>4. w \in Retained /\ Popped(w) = SubSeq(hits[w], k, n)
  BY <1>3 DEF Popped
<1>5. k \in 1..(n + 1) /\ (k <= n => ~Expired(hits[w][k], w))
  BY FirstKeptProperties DEF IInv
<1> HIDE DEF k
<1>6. Len(Popped(w)) = n - k + 1
  <2>1. hits[w] \in Seq(Nat) /\ k \in 1..(Len(hits[w]) + 1)
    BY <1>1, <1>5
  <2>2. Len(SubSeq(hits[w], k, n)) = n - k + 1
    BY <2>1, SuffixProperties
  <2> QED BY <1>4, <2>2
<1> HIDE DEF l, n
<1>7. k <= n /\ l - n + k \in 1..l /\ l - n + k <= i /\ i \in 1..l
  <2>1. i \in (l - Len(Popped(w)) + 1)..l
    BY DEF l
  <2> QED BY <1>1, <1>2, <1>5, <1>6, <2>1
<1>8. ~Expired(log[w][l - n + k], w)
  <2>1. k \in 1..n
    BY <1>1, <1>5, <1>7
  <2>2. hits[w][k] = log[w][l - n + k]
    BY <1>1, <2>1 DEF l, n
  <2> QED BY <1>5, <1>7, <2>2
<1>9. log[w][l - n + k] <= log[w][i]
  BY <1>7 DEF IInv, LogOrdered, l
<1>10. now \in Nat /\ log[w][i] \in Nat /\ log[w][l - n + k] \in Nat /\ Window[w] \in Nat
  BY <1>1, <1>7, WinConstants DEF IInv, TypeOK, l
<1> QED BY <1>8, <1>9, <1>10 DEF Expired

\* What is left after popping is exactly what still counts, so the limiter
\* decides as if it had the full history.
LEMMA SameDecision ==
    ASSUME IInv, NEW w \in Win
    PROVE  Admits(w) <=> Exact!HasBudget(w)
<1> DEFINE l == Len(log[w])
           p == Len(Popped(w))
<1>1. /\ l \in Nat /\ p \in Nat /\ p <= l
      /\ \A i \in 1..(l - p) : Expired(log[w][i], w)
  BY PoppedStandsForHistory DEF StandsFor, IInv, TypeOK
<1>2. \A i \in (l - p + 1)..l : ~Expired(log[w][i], w)
  BY PoppedKeepsRecent
<1>3. now \in Nat /\ Window[w] \in Nat /\ \A i \in 1..l : log[w][i] \in Nat
  BY WinConstants DEF IInv, TypeOK
<1> HIDE DEF l, p
<1>4. Exact!Recent(w) = {i \in 1..l : ~Expired(log[w][i], w)}
  BY <1>3 DEF Exact!Recent, Expired, l
<1>5. {i \in 1..l : ~Expired(log[w][i], w)} = (l - p + 1)..l
  <2>1. ASSUME NEW i \in 1..l
        PROVE  Expired(log[w][i], w) <=> i \notin (l - p + 1)..l
    BY <1>1, <1>2
  <2>2. (l - p + 1)..l \subseteq 1..l
    BY <1>1
  <2> QED BY <2>1, <2>2
<1>6. Cardinality((l - p + 1)..l) = p
  BY <1>1, FS_Interval
<1>7. Cardinality(Exact!Recent(w)) = p
  BY <1>4, <1>5, <1>6
<1>8. Admits(w) <=> p < Limit[w]
  BY DEF Admits, p
<1>9. Exact!HasBudget(w) <=> p < Limit[w]
  BY <1>7, Zenon DEF Exact!HasBudget, Exact!Cardinality, Cardinality
<1> QED BY <1>8, <1>9

\* The limiter implements SlidingLog: every answer is the one a limiter with a
\* complete history would give, so pruning neither lets anybody through nor
\* refuses anybody wrongly (RateLimiter::check).
THEOREM LimiterImplementsFullHistory == Spec => DecidesLikeFullHistory
<1>1. Init => Exact!Init
  BY DEF Init, Exact!Init
<1>2. IInv /\ [Next]_vars => [Exact!Next]_(Exact!logVars)
  <2> SUFFICES ASSUME IInv, [Next]_vars
               PROVE  [Exact!Next]_(Exact!logVars)
    OBVIOUS
  <2>1. CASE Tick
    BY <2>1 DEF Tick, Exact!Next, Exact!Advance
  <2>2. ASSUME NEW q \in Request, Check(q)
        PROVE  Exact!Ask(q) /\ q \in SUBSET Win
    <3>1. q \in SUBSET Win
      BY DEF Request
    <3>2. answer' = \A w \in q : Exact!HasBudget(w)
      BY <2>2, <3>1, SameDecision, Zenon DEF Check
    <3>3. log' = [w \in Win |-> IF w \in q /\ Exact!HasBudget(w)
                               THEN Append(log[w], now) ELSE log[w]]
      BY <2>2, SameDecision DEF Check
    <3>4. now' = now
      BY <2>2 DEF Check
    <3> QED BY <3>1, <3>2, <3>3, <3>4 DEF Exact!Ask
  <2>3. CASE UNCHANGED vars
    BY <2>3 DEF vars, Exact!logVars
  <2> QED BY <2>1, <2>2, <2>3 DEF Next, Exact!Next
<1> QED BY <1>1, <1>2, Invariance, PTL DEF Spec, DecidesLikeFullHistory, Exact!Spec
=============================================================================
