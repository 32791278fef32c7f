-------------------------- MODULE RelayLimitProofs --------------------------
(***************************************************************************)
(* Proofs about the relay's limiter, for every limit and window it may be  *)
(* configured with, also windows longer than MAX_IDLE.                     *)
(*                                                                         *)
(* The argument: the hits that a window remembers, none if it was dropped, *)
(* are the end of what was granted for its key, and what is missing is     *)
(* older than the window or MAX_IDLE, whichever is shorter (Stands).  The  *)
(* lemmas about that are about sequences, not about states, so that they   *)
(* can be used for the state before a step and the one after it.           *)
(***************************************************************************)
EXTENDS RelayLimit, TLAPS, WellFoundedInduction, SequenceTheorems, FiniteSetTheorems

\* A set of naturals that is not empty has a smallest member, so that there is
\* a first entry at which popping expired ones stops.
LEMMA SmallestOf ==
    ASSUME NEW T, T \subseteq Nat, T # {}
    PROVE  \E m \in T : \A y \in T : m <= y
<1> DEFINE Less == {s \in Nat \X Nat : s[1] < s[2]}
<1>1. IsWellFoundedOn(Less, Nat)
  BY NatLessThanWellFounded DEF OpToRel
<1> HIDE DEF Less
<1>2. PICK m \in T : \A y \in T : ~(<<y, m>> \in Less)
  BY <1>1, WFMin
<1>3. \A y \in T : ~(y < m)
  BY <1>2 DEF Less
<1> QED BY <1>3

\* h is the end of l, and what it lacks is too old at time t to count.
Stands(h, l, t) ==
    /\ h \in Seq(Nat)
    /\ l \in Seq(Nat)
    /\ Len(h) <= Len(l)
    /\ \A i \in 1..Len(h) : h[i] = l[Len(l) - Len(h) + i]
    /\ \A i \in 1..(Len(l) - Len(h)) : t - l[i] > Memory

\* Stamps in the order of time, none later than t.
Ordered(l, t) ==
    /\ \A i, j \in 1..Len(l) : i <= j => l[i] <= l[j]
    /\ \A i \in 1..Len(l) : l[i] <= t

\* What GrantsBounded says of the grants of one key.
Spaced(l) ==
    \A i, j \in 1..Len(l) : j = i + ChainRateLimit => l[j] - l[i] > Memory

LEMMA MemoryProperties ==
    /\ Memory \in Nat
    /\ Memory <= MaxIdle
    /\ Memory <= ChainRateWindow
  BY RelayLimitAssumption DEF Memory

LEMMA SuffixProperties ==
    ASSUME NEW s \in Seq(Nat), NEW k \in 1..(Len(s) + 1)
    PROVE  /\ SubSeq(s, k, Len(s)) \in Seq(Nat)
           /\ Len(SubSeq(s, k, Len(s))) = Len(s) - k + 1
           /\ \A i \in 1..(Len(s) - k + 1) : SubSeq(s, k, Len(s))[i] = s[k + i - 1]
  <1>1. Len(s) \in Nat /\ Len(s) \in (k - 1)..Len(s)
    OBVIOUS
  <1> QED
    BY <1>1, SubSeqProperties

LEMMA AppendStamp ==
    ASSUME NEW s \in Seq(Nat), NEW t \in Nat
    PROVE  /\ Append(s, t) \in Seq(Nat)
           /\ Len(Append(s, t)) = Len(s) + 1
           /\ \A i \in 1..Len(s) : Append(s, t)[i] = s[i]
           /\ Append(s, t)[Len(s) + 1] = t
  OBVIOUS

\* Time passes.
LEMMA StandsLater ==
    ASSUME NEW h, NEW l, NEW t \in Nat, Stands(h, l, t), NEW u \in Nat, t <= u
    PROVE  Stands(h, l, u)
  <1>1. Len(l) \in Nat /\ Len(h) \in Nat /\ Memory \in Nat
    BY MemoryProperties DEF Stands
  <1>2. ASSUME NEW i \in 1..(Len(l) - Len(h))
        PROVE  u - l[i] > Memory
    <2>1. i \in 1..Len(l) /\ t - l[i] > Memory
      BY <1>1 DEF Stands
    <2>2. l[i] \in Nat
      BY <2>1 DEF Stands
    <2> QED
      BY <1>1, <2>1, <2>2
  <1> QED
    BY <1>2 DEF Stands

\* Popping old hits from the front.
LEMMA SuffixStands ==
    ASSUME NEW h, NEW l, NEW t \in Nat, Stands(h, l, t),
           NEW k \in 1..(Len(h) + 1), \A j \in 1..(k - 1) : t - h[j] > Memory
    PROVE  /\ Stands(SubSeq(h, k, Len(h)), l, t)
           /\ Len(SubSeq(h, k, Len(h))) <= Len(h)
  <1> DEFINE g == SubSeq(h, k, Len(h))
             n == Len(h)
             m == Len(g)
             c == Len(l)
  <1>1. n \in Nat /\ c \in Nat /\ n <= c /\ k \in 1..(n + 1)
    BY DEF Stands
  <1>2. /\ \A i \in 1..n : h[i] = l[c - n + i]
        /\ \A i \in 1..(c - n) : t - l[i] > Memory
    BY DEF Stands
  <1>3. g \in Seq(Nat) /\ m = n - k + 1 /\ \A i \in 1..m : g[i] = h[k + i - 1]
    BY SuffixProperties DEF Stands
  <1> HIDE DEF g, n, m, c
  <1>4. m <= c /\ m <= n
    BY <1>1, <1>3
  <1>5. ASSUME NEW i \in 1..m
        PROVE  g[i] = l[c - m + i]
    <2>1. k + i - 1 \in 1..n /\ c - n + (k + i - 1) = c - m + i
      BY <1>1, <1>3
    <2> QED
      BY <1>2, <1>3, <2>1
  <1>6. ASSUME NEW i \in 1..(c - m)
        PROVE  t - l[i] > Memory
    <2>1. i \in Int /\ 1 <= i /\ i <= c - n + k - 1
      BY <1>1, <1>3
    <2>2. CASE i <= c - n
      BY <1>1, <1>2, <2>1, <2>2
    <2>3. CASE i > c - n
      <3>1. /\ i - (c - n) \in 1..(k - 1) /\ i - (c - n) \in 1..n
            /\ c - n + (i - (c - n)) = i
        BY <1>1, <2>1, <2>3
      <3>2. t - h[i - (c - n)] > Memory /\ h[i - (c - n)] = l[i]
        BY <1>2, <3>1
      <3> QED
        BY <3>2
    <2> QED
      BY <1>1, <2>1, <2>2, <2>3
  <1>7. l \in Seq(Nat)
    BY DEF Stands
  <1> QED
    BY <1>3, <1>4, <1>5, <1>6, <1>7 DEF Stands, g, n, m, c

\* A hit is granted.
LEMMA AppendStands ==
    ASSUME NEW h, NEW l, NEW t \in Nat, Stands(h, l, t)
    PROVE  Stands(Append(h, t), Append(l, t), t)
  <1> DEFINE g == Append(h, t)
             k == Append(l, t)
  <1>1. /\ h \in Seq(Nat) /\ l \in Seq(Nat)
        /\ Len(h) \in Nat /\ Len(l) \in Nat /\ Len(h) <= Len(l)
        /\ \A i \in 1..Len(h) : h[i] = l[Len(l) - Len(h) + i]
        /\ \A i \in 1..(Len(l) - Len(h)) : t - l[i] > Memory
    BY DEF Stands
  <1>2. /\ g \in Seq(Nat) /\ Len(g) = Len(h) + 1
        /\ \A i \in 1..Len(h) : g[i] = h[i]
        /\ g[Len(h) + 1] = t
    BY <1>1, AppendStamp
  <1>3. /\ k \in Seq(Nat) /\ Len(k) = Len(l) + 1
        /\ \A i \in 1..Len(l) : k[i] = l[i]
        /\ k[Len(l) + 1] = t
    BY <1>1, AppendStamp
  <1> HIDE DEF g, k
  <1>4. Len(k) - Len(g) = Len(l) - Len(h) /\ Len(g) <= Len(k)
    BY <1>1, <1>2, <1>3
  <1>5. ASSUME NEW i \in 1..Len(g)
        PROVE  g[i] = k[Len(k) - Len(g) + i]
    <2>1. CASE i = Len(h) + 1
      <3>1. Len(l) - Len(h) + i = Len(l) + 1
        BY <1>1, <2>1
      <3> QED
        BY <1>2, <1>3, <1>4, <2>1, <3>1
    <2>2. CASE i \in 1..Len(h)
      <3>1. Len(l) - Len(h) + i \in 1..Len(l)
        BY <1>1, <2>2
      <3> QED
        BY <1>1, <1>2, <1>3, <1>4, <2>2, <3>1
    <2> QED
      BY <1>1, <1>2, <2>1, <2>2
  <1>6. ASSUME NEW i \in 1..(Len(k) - Len(g))
        PROVE  t - k[i] > Memory
    <2>1. i \in 1..(Len(l) - Len(h)) /\ i \in 1..Len(l)
      BY <1>1, <1>4
    <2> QED
      BY <1>1, <1>3, <2>1
  <1> QED
    BY <1>2, <1>3, <1>4, <1>5, <1>6 DEF Stands, g, k

LEMMA AppendOrdered ==
    ASSUME NEW l \in Seq(Nat), NEW t \in Nat, Ordered(l, t)
    PROVE  Ordered(Append(l, t), t)
  <1> DEFINE k == Append(l, t)
  <1>1. /\ Len(l) \in Nat /\ Len(k) = Len(l) + 1
        /\ \A i \in 1..Len(l) : k[i] = l[i]
        /\ k[Len(l) + 1] = t
    BY AppendStamp
  <1> HIDE DEF k
  <1>2. ASSUME NEW i \in 1..Len(k)
        PROVE  k[i] <= t
    BY <1>1 DEF Ordered
  <1>3. ASSUME NEW i \in 1..Len(k), NEW j \in 1..Len(k), i <= j
        PROVE  k[i] <= k[j]
    <2>1. CASE j = Len(l) + 1
      BY <1>1, <1>2, <2>1
    <2>2. CASE j \in 1..Len(l)
      <3>1. i \in 1..Len(l)
        BY <1>1, <1>3, <2>2
      <3> QED
        BY <1>1, <1>3, <2>2, <3>1 DEF Ordered
    <2> QED
      BY <1>1, <2>1, <2>2
  <1> QED
    BY <1>2, <1>3 DEF Ordered, k

\* A hit is granted when the window remembers fewer than the limit.
LEMMA AppendSpaced ==
    ASSUME NEW h, NEW l, NEW t \in Nat, Stands(h, l, t), Spaced(l),
           Len(h) < ChainRateLimit
    PROVE  Spaced(Append(l, t))
  <1> DEFINE k == Append(l, t)
  <1>1. /\ l \in Seq(Nat) /\ Len(l) \in Nat /\ Len(h) \in Nat
        /\ \A i \in 1..(Len(l) - Len(h)) : t - l[i] > Memory
        /\ ChainRateLimit \in Nat
    BY RelayLimitAssumption DEF Stands
  <1>2. /\ Len(k) = Len(l) + 1
        /\ \A i \in 1..Len(l) : k[i] = l[i]
        /\ k[Len(l) + 1] = t
    BY <1>1, AppendStamp
  <1> HIDE DEF k
  <1>3. ASSUME NEW i \in 1..Len(k), NEW j \in 1..Len(k), j = i + ChainRateLimit
        PROVE  k[j] - k[i] > Memory
    <2>1. i \in 1..Len(l)
      BY <1>1, <1>2, <1>3
    <2>2. CASE j = Len(l) + 1
      <3>1. i \in 1..(Len(l) - Len(h))
        BY <1>1, <1>3, <2>1, <2>2
      <3> QED
        BY <1>1, <1>2, <2>1, <2>2, <3>1
    <2>3. CASE j \in 1..Len(l)
      BY <1>2, <1>3, <2>1, <2>3 DEF Spaced
    <2> QED
      BY <1>1, <1>2, <2>2, <2>3
  <1> QED
    BY <1>3 DEF Spaced, k
-----------------------------------------------------------------------------
(* The invariant *)

\* A window in the map was used when the map was last pruned or not long before,
\* and not much later.
WindowInv(k) ==
    /\ keys[k] \in Window
    /\ Len(keys[k].hits) <= ChainRateLimit
    /\ Stands(keys[k].hits, granted[k], now)
    /\ Ordered(granted[k], keys[k].lastSeen)
    /\ keys[k].lastSeen <= now
    /\ lastPrune - MaxIdle <= keys[k].lastSeen
    /\ keys[k].lastSeen < lastPrune + PruneInterval

KeyInv(k) ==
    /\ granted[k] \in Seq(Nat)
    /\ Ordered(granted[k], now)
    /\ Spaced(granted[k])
    /\ k \in DOMAIN keys => WindowInv(k)
    /\ k \notin DOMAIN keys => Stands(<<>>, granted[k], now)

Inv ==
    /\ DOMAIN keys \subseteq Keys
    /\ lastPrune \in Nat /\ now \in Nat /\ lastPrune <= now
    /\ answer \in BOOLEAN
    /\ granted \in [Keys -> Seq(Nat)]
    /\ \A k \in Keys : KeyInv(k)

\* Where the popping loop of SlidingWindow::allow stops.
LEMMA FirstKeptProperties ==
    ASSUME NEW h \in Seq(Nat)
    PROVE  /\ FirstKept(h) \in 1..(Len(h) + 1)
           /\ FirstKept(h) <= Len(h) => ~Expired(h[FirstKept(h)])
           /\ \A j \in 1..(FirstKept(h) - 1) : Expired(h[j])
  <1> DEFINE n == Len(h)
             T == {i \in 1..(n + 1) : i <= n => ~Expired(h[i])}
  <1>1. n \in Nat
    OBVIOUS
  <1>2. T \subseteq Nat /\ n + 1 \in T
    BY <1>1
  <1>3. PICK m \in T : \A y \in T : m <= y
    BY <1>2, SmallestOf
  <1>4. ASSUME NEW j \in 1..(m - 1)
        PROVE  Expired(h[j])
    BY <1>1, <1>3
  <1>5. /\ m \in 1..(n + 1)
        /\ m <= n => ~Expired(h[m])
        /\ \A j \in 1..(m - 1) : Expired(h[j])
    BY <1>3, <1>4
  <1> QED
    BY <1>5 DEF FirstKept

LEMMA ExpiredIsOld ==
    ASSUME Inv, NEW t \in Nat, Expired(t)
    PROVE  now - t > Memory
  BY MemoryProperties, RelayLimitAssumption DEF Expired, Inv

\* What a window remembers once it is pruned and popped: the hits that count.
LEMMA RememberedProperties ==
    ASSUME Inv, NEW k \in Keys
    PROVE  /\ Stands(Remembered(k), granted[k], now)
           /\ Len(Remembered(k)) <= ChainRateLimit
           /\ \A i \in 1..Len(Remembered(k)) : ~Expired(Remembered(k)[i])
  <1>0. /\ now \in Nat /\ lastPrune \in Nat /\ KeyInv(k)
        /\ granted[k] \in Seq(Nat) /\ ChainRateLimit \in Nat
    BY RelayLimitAssumption DEF Inv, KeyInv
  <1>1. CASE k \in Retained
    <2> DEFINE h == keys[k].hits
               f == FirstKept(h)
               g == SubSeq(h, f, Len(h))
               l == granted[k]
    <2>1. k \in DOMAIN keys /\ WindowInv(k)
      BY <1>0, <1>1 DEF Retained, KeyInv
    <2>2. h \in Seq(Nat) /\ Stands(h, l, now) /\ Len(h) <= ChainRateLimit
      BY <2>1 DEF WindowInv, Stands
    <2>3. g = Remembered(k)
      BY <1>1 DEF Remembered
    <2> HIDE DEF h, l
    <2>4. /\ f \in 1..(Len(h) + 1)
          /\ f <= Len(h) => ~Expired(h[f])
          /\ \A j \in 1..(f - 1) : Expired(h[j])
      BY <2>2, FirstKeptProperties
    <2>5. Len(h) \in Nat /\ Len(l) \in Nat /\ Len(h) <= Len(l)
          /\ \A i \in 1..Len(h) : h[i] = l[Len(l) - Len(h) + i]
      BY <2>2 DEF Stands
    <2>6. g \in Seq(Nat) /\ Len(g) = Len(h) - f + 1
          /\ \A i \in 1..(Len(h) - f + 1) : g[i] = h[f + i - 1]
      BY <2>2, <2>4, SuffixProperties
    <2> HIDE DEF f, g
    <2>7. \A j \in 1..(f - 1) : now - h[j] > Memory
      <3>1. ASSUME NEW j \in 1..(f - 1)
            PROVE  now - h[j] > Memory
        <4>1. h[j] \in Nat /\ Expired(h[j])
          BY <2>2, <2>4, <2>5, <3>1
        <4> QED
          BY <4>1, ExpiredIsOld
      <3> QED
        BY <3>1
    <2>8. Stands(g, l, now) /\ Len(g) <= Len(h)
      BY <1>0, <2>2, <2>4, <2>7, SuffixStands DEF g
    <2>9. ASSUME NEW i \in 1..Len(g)
          PROVE  ~Expired(g[i])
      <3>1. /\ f + i - 1 \in 1..Len(h) /\ f \in 1..Len(h)
            /\ g[i] = h[f + i - 1]
        BY <2>4, <2>5, <2>6
      <3>2. /\ h[f] = l[Len(l) - Len(h) + f]
            /\ h[f + i - 1] = l[Len(l) - Len(h) + (f + i - 1)]
        BY <2>5, <3>1
      <3>3. /\ Len(l) - Len(h) + f \in 1..Len(l)
            /\ Len(l) - Len(h) + (f + i - 1) \in 1..Len(l)
            /\ Len(l) - Len(h) + f <= Len(l) - Len(h) + (f + i - 1)
        BY <2>5, <3>1
      <3>4. h[f] <= h[f + i - 1]
        BY <1>0, <3>2, <3>3 DEF KeyInv, Ordered, l
      <3>5. h[f] \in Nat /\ h[f + i - 1] \in Nat /\ ~Expired(h[f])
        BY <2>2, <2>4, <2>5, <3>1
      <3> QED
        BY <1>0, <3>1, <3>4, <3>5, RelayLimitAssumption DEF Expired
    <2>10. Len(g) \in Nat
      BY <2>6
    <2> QED
      BY <1>0, <2>2, <2>3, <2>5, <2>8, <2>9, <2>10 DEF l
  <1>2. CASE k \notin Retained
    <2>1. Remembered(k) = <<>>
      BY <1>2 DEF Remembered
    <2>2. Stands(<<>>, granted[k], now)
      <3>1. CASE k \notin DOMAIN keys
        BY <1>0, <3>1 DEF KeyInv
      <3>2. CASE k \in DOMAIN keys
        <4>1. WindowInv(k)
          BY <1>0, <3>2 DEF KeyInv
        <4>2. now - keys[k].lastSeen > MaxIdle /\ keys[k].lastSeen \in Nat
          BY <1>0, <1>2, <3>2, <4>1, RelayLimitAssumption
             DEF Retained, WindowInv, Window
        <4>3. ASSUME NEW i \in 1..Len(granted[k])
              PROVE  now - granted[k][i] > Memory
          <5>1. granted[k][i] \in Nat /\ granted[k][i] <= keys[k].lastSeen
            BY <1>0, <4>1 DEF WindowInv, Ordered
          <5> QED
            BY <1>0, <4>2, <5>1, MemoryProperties, RelayLimitAssumption
        <4>4. Len(granted[k]) \in Nat /\ <<>> \in Seq(Nat) /\ Len(<<>>) = 0
          BY <1>0
        <4> QED
          BY <1>0, <4>3, <4>4 DEF Stands
      <3> QED
        BY <3>1, <3>2
    <2> QED
      BY <1>0, <2>1, <2>2
  <1> QED
    BY <1>1, <1>2
-----------------------------------------------------------------------------
(* The steps *)

LEMMA EmptyStands == Stands(<<>>, <<>>, now)
  <1>1. <<>> \in Seq(Nat) /\ Len(<<>>) = 0
    OBVIOUS
  <1> QED
    BY <1>1 DEF Stands

LEMMA EmptyGrants == Ordered(<<>>, now) /\ Spaced(<<>>)
  BY DEF Ordered, Spaced

LEMMA InitInv ==
    ASSUME Init
    PROVE  Inv
  <1>1. ASSUME NEW k \in Keys
        PROVE  KeyInv(k)
    BY <1>1, EmptyStands, EmptyGrants DEF Init, KeyInv
  <1>2. DOMAIN keys = {}
    BY DEF Init
  <1> QED
    BY <1>1, <1>2 DEF Init, Inv

\* The check of a key, for the window of that key.
LEMMA CheckedKey ==
    ASSUME Inv, NEW a \in Addr, NEW e \in Event, Admit(a, e)
    PROVE  /\ Key(a, e) \in Keys
           /\ KeyInv(Key(a, e))'
           /\ granted'[Key(a, e)] \in Seq(Nat)
  <1> DEFINE k == Key(a, e)
             h == Remembered(k)
             l == granted[k]
  <1>1. k \in Keys
    BY DEF Admit, Keys
  <1>2. /\ now \in Nat /\ now' = now /\ lastPrune \in Nat /\ lastPrune <= now
        /\ l \in Seq(Nat) /\ Ordered(l, now) /\ Spaced(l)
        /\ ChainRateLimit \in Nat /\ granted \in [Keys -> Seq(Nat)]
    BY <1>1, RelayLimitAssumption DEF Admit, Inv, KeyInv
  <1>3. Stands(h, l, now) /\ Len(h) <= ChainRateLimit
    BY <1>1, RememberedProperties
  <1>4. k \in DOMAIN keys' /\ lastPrune' <= now /\ now - lastPrune' < PruneInterval
    BY <1>2, RelayLimitAssumption DEF Admit, Check
  <1>5. lastPrune' \in Nat /\ lastPrune' - MaxIdle <= now
    BY <1>2, <1>4, RelayLimitAssumption DEF Admit
  <1>6. ASSUME NEW g, NEW m, m \in Seq(Nat),
               keys'[k] = [hits |-> g, lastSeen |-> now], granted'[k] = m,
               Stands(g, m, now), Len(g) <= ChainRateLimit,
               Ordered(m, now), Spaced(m)
        PROVE  KeyInv(k)' /\ granted'[k] \in Seq(Nat)
    <2>1. keys'[k].hits = g /\ keys'[k].lastSeen = now /\ g \in Seq(Nat)
      BY <1>6 DEF Stands
    <2>2. keys'[k] \in Window
      BY <1>2, <1>6, <2>1 DEF Window
    <2>3. now < lastPrune' + PruneInterval
      BY <1>2, <1>4, <1>5, RelayLimitAssumption
    <2>4. now <= now' /\ now' = now
      BY <1>2
    <2> QED
      BY <1>4, <1>5, <1>6, <2>1, <2>2, <2>3, <2>4
         DEF KeyInv, WindowInv, Stands, Ordered, Spaced, Memory
  <1>7. CASE Allows(k)
    <2>1. Len(h) < ChainRateLimit /\ Len(h) \in Nat /\ h \in Seq(Nat)
      BY <1>3, <1>7 DEF Allows, Stands
    <2>2. /\ keys'[k] = [hits |-> Append(h, now), lastSeen |-> now]
          /\ granted'[k] = Append(l, now)
      BY <1>1, <1>2, <1>7 DEF Admit, Check
    <2>3. Len(Append(h, now)) <= ChainRateLimit /\ Append(l, now) \in Seq(Nat)
      BY <1>2, <2>1, AppendStamp
    <2>4. /\ Stands(Append(h, now), Append(l, now), now)
          /\ Ordered(Append(l, now), now)
          /\ Spaced(Append(l, now))
      BY <1>2, <1>3, <2>1, AppendStands, AppendOrdered, AppendSpaced
    <2> QED
      BY <1>1, <1>6, <2>2, <2>3, <2>4
  <1>8. CASE ~Allows(k)
    <2>1. keys'[k] = [hits |-> h, lastSeen |-> now] /\ granted'[k] = l
      BY <1>8 DEF Admit, Check
    <2> QED
      BY <1>1, <1>2, <1>3, <1>6, <2>1
  <1> QED
    BY <1>1, <1>7, <1>8

\* The check of a key, for the other windows: they are kept or dropped.
LEMMA OtherKeys ==
    ASSUME Inv, NEW a \in Addr, NEW e \in Event, Admit(a, e),
           NEW k \in Keys, k # Key(a, e)
    PROVE  KeyInv(k)' /\ granted'[k] \in Seq(Nat)
  <1>1. /\ now \in Nat /\ now' = now /\ lastPrune \in Nat /\ lastPrune <= now
        /\ granted'[k] = granted[k] /\ KeyInv(k)
    BY DEF Admit, Inv
  <1>2. CASE k \in Retained
    <2>1. k \in DOMAIN keys' /\ keys'[k] = keys[k] /\ k \in DOMAIN keys /\ WindowInv(k)
      BY <1>1, <1>2 DEF Admit, Check, Retained, KeyInv
    <2>2. keys[k].lastSeen \in Nat
      BY <2>1 DEF WindowInv, Window
    <2>3. /\ lastPrune' - MaxIdle <= keys[k].lastSeen
          /\ keys[k].lastSeen < lastPrune' + PruneInterval
      <3>1. CASE now - lastPrune < PruneInterval
        BY <2>1, <3>1 DEF Admit, WindowInv
      <3>2. CASE ~(now - lastPrune < PruneInterval)
        BY <1>1, <1>2, <2>1, <2>2, <3>2, RelayLimitAssumption DEF Admit, WindowInv, Retained
      <3> QED
        BY <3>1, <3>2
    <2> QED
      BY <1>1, <2>1, <2>3 DEF KeyInv, WindowInv, Stands, Ordered, Spaced, Memory
  <1>3. CASE k \notin Retained
    <2>1. k \notin DOMAIN keys' /\ Remembered(k) = <<>>
      BY <1>3 DEF Admit, Check, Remembered
    <2>2. Stands(<<>>, granted[k], now)
      BY <2>1, RememberedProperties
    <2> QED
      BY <1>1, <2>1, <2>2 DEF KeyInv, Stands, Ordered, Spaced, Memory
  <1> QED
    BY <1>2, <1>3

LEMMA AdmitInv ==
    ASSUME Inv, NEW a \in Addr, NEW e \in Event, Admit(a, e)
    PROVE  Inv'
  <1>1. Key(a, e) \in Keys
    BY CheckedKey
  <1>2. \A k \in Keys : KeyInv(k)' /\ granted'[k] \in Seq(Nat)
    BY CheckedKey, OtherKeys
  <1>3. granted' \in [Keys -> Seq(Nat)]
    <2>1. granted' = [k \in Keys |-> granted'[k]]
      BY DEF Admit, Inv
    <2> QED
      BY <1>2, <2>1
  <1>4. DOMAIN keys' \subseteq Keys
    <2>1. DOMAIN keys' = Retained \cup {Key(a, e)}
      BY DEF Admit, Check
    <2>2. Retained \subseteq DOMAIN keys /\ DOMAIN keys \subseteq Keys
      BY DEF Retained, Inv
    <2> QED
      BY <1>1, <2>1, <2>2
  <1>5. /\ lastPrune' \in Nat /\ now' \in Nat /\ lastPrune' <= now'
        /\ answer' \in BOOLEAN
    BY DEF Admit, Inv, Allows
  <1> QED
    BY <1>2, <1>3, <1>4, <1>5 DEF Inv

LEMMA TickInv ==
    ASSUME Inv, Tick
    PROVE  Inv'
  <1>1. /\ now \in Nat /\ now' = now + 1
        /\ UNCHANGED <<keys, lastPrune, answer, granted>>
    BY DEF Tick, Inv
  <1>2. ASSUME NEW k \in Keys
        PROVE  KeyInv(k)'
    <2>1. KeyInv(k) /\ granted[k] \in Seq(Nat)
      BY DEF Inv
    <2>2. \A h : Stands(h, granted[k], now) => Stands(h, granted[k], now')
      BY <1>1, StandsLater
    <2>3. Ordered(granted[k], now')
      <3>1. \A i \in 1..Len(granted[k]) : granted[k][i] \in Nat /\ granted[k][i] <= now
        BY <2>1 DEF KeyInv, Ordered
      <3> QED
        BY <1>1, <2>1, <3>1 DEF KeyInv, Ordered
    <2>4. k \in DOMAIN keys => keys[k].lastSeen \in Nat
      BY <2>1 DEF KeyInv, WindowInv, Window
    <2>5. k \in DOMAIN keys => WindowInv(k)'
      BY <1>1, <2>1, <2>2, <2>4 DEF KeyInv, WindowInv, Ordered
    <2> QED
      BY <1>1, <2>1, <2>2, <2>3, <2>5 DEF KeyInv, Spaced
  <1> QED
    BY <1>1, <1>2 DEF Inv, Keys

LEMMA NextInv ==
    ASSUME Inv, [Next]_vars
    PROVE  Inv'
  <1>1. CASE \E a \in Addr, e \in Event : Admit(a, e)
    BY <1>1, AdmitInv
  <1>2. ASSUME UNCHANGED <<keys, lastPrune, now, granted>>, answer' \in BOOLEAN
        PROVE  Inv'
    <2>1. \A k : KeyInv(k)' = KeyInv(k)
      BY <1>2 DEF KeyInv, WindowInv, Stands, Ordered, Spaced, Memory
    <2>2. \A k \in Keys : KeyInv(k)'
      BY <2>1 DEF Inv
    <2> QED
      BY <1>2, <2>2 DEF Inv
  <1>3. CASE Tick
    BY <1>3, TickInv
  <1>4. CASE Restart
    <2>1. DOMAIN keys' = {} /\ now' = now
      BY <1>4 DEF Restart
    <2>2. ASSUME NEW k \in Keys
          PROVE  KeyInv(k)'
      <3>1. granted'[k] = <<>>
        BY <1>4 DEF Restart
      <3> QED
        BY <2>1, <3>1, EmptyStands, EmptyGrants DEF KeyInv, Stands, Ordered, Spaced
    <2> QED
      BY <1>4, <2>1, <2>2 DEF Restart, Inv, Keys
  <1>5. CASE \E e \in Event : Pass(e)
    <2>1. UNCHANGED <<keys, lastPrune, now, granted>> /\ answer' \in BOOLEAN
      BY <1>5 DEF Pass
    <2> QED
      BY <1>2, <2>1
  <1>6. CASE UNCHANGED vars
    <2>1. UNCHANGED <<keys, lastPrune, now, granted>> /\ answer' \in BOOLEAN
      BY <1>6 DEF vars, Inv
    <2> QED
      BY <1>2, <2>1
  <1> QED
    BY <1>1, <1>3, <1>4, <1>5, <1>6 DEF Next
\* The remembered hits are grants that count, and all of them if pruning drops
\* no window before its hits have expired.
LEMMA RememberedRecent ==
    ASSUME Inv, NEW k \in Keys
    PROVE  /\ Len(Remembered(k)) \in Nat
           /\ Cardinality(Recent(k)) \in Nat
           /\ Len(Remembered(k)) <= Cardinality(Recent(k))
           /\ ChainRateWindow <= MaxIdle =>
                 Len(Remembered(k)) = Cardinality(Recent(k))
  <1> DEFINE r == Remembered(k)
             l == granted[k]
             last == (Len(l) - Len(r) + 1)..Len(l)
  <1>1. /\ Stands(r, l, now)
        /\ \A i \in 1..Len(r) : ~Expired(r[i])
    BY RememberedProperties
  <1>2. Recent(k) = {i \in DOMAIN l : ~Expired(l[i])}
    BY DEF Recent
  <1> HIDE DEF r, l
  <1>3. /\ Len(r) \in Nat /\ Len(l) \in Nat /\ Len(r) <= Len(l)
        /\ DOMAIN l = 1..Len(l)
        /\ \A i \in 1..Len(r) : r[i] = l[Len(l) - Len(r) + i]
        /\ \A i \in 1..(Len(l) - Len(r)) : now - l[i] > Memory
    BY <1>1 DEF Stands
  <1>4. last \subseteq Recent(k)
    <2>1. ASSUME NEW i \in last
          PROVE  i \in Recent(k)
      <3>1. /\ i - (Len(l) - Len(r)) \in 1..Len(r)
            /\ Len(l) - Len(r) + (i - (Len(l) - Len(r))) = i
            /\ i \in DOMAIN l
        BY <1>3, <2>1
      <3> QED
        BY <1>1, <1>2, <1>3, <3>1
    <2> QED
      BY <2>1
  <1>5. ASSUME ChainRateWindow <= MaxIdle, NEW i \in Recent(k)
        PROVE  i \in last
    <2>1. i \in 1..Len(l) /\ ~(now - l[i] > Memory)
      BY <1>2, <1>3, <1>5 DEF Expired, Memory
    <2> QED
      BY <1>3, <2>1
  <1>6. IsFiniteSet(DOMAIN l) /\ Cardinality(last) = Len(r)
    <2>1. \A a, b \in Int : IsFiniteSet(a..b)
      BY FS_Interval
    <2>2. \A a, b \in Int : a <= b + 1 => Cardinality(a..b) = b - a + 1
      BY FS_Interval
    <2>3. /\ 1 \in Int /\ Len(l) \in Int /\ Len(l) - Len(r) + 1 \in Int
          /\ Len(l) - Len(r) + 1 <= Len(l) + 1
          /\ Len(l) - (Len(l) - Len(r) + 1) + 1 = Len(r)
      BY <1>3
    <2> QED
      BY <1>3, <2>1, <2>2, <2>3
  <1>7. IsFiniteSet(Recent(k))
    BY <1>2, <1>6, FS_Subset
  <1>8. Cardinality(Recent(k)) \in Nat /\ Cardinality(last) <= Cardinality(Recent(k))
    BY <1>4, <1>7, FS_CardinalityType, FS_Subset
  <1>9. ChainRateWindow <= MaxIdle => last = Recent(k)
    BY <1>4, <1>5
  <1> HIDE DEF last
  <1> QED
    BY <1>3, <1>6, <1>8, <1>9 DEF r
-----------------------------------------------------------------------------
(* The theorems *)

\* The remembered hits are the end of what was granted and the rest is too
\* old to count, after any admissions, pruning, popping and restarts.
THEOREM Invariance == Spec => []Inv
  <1>1. Init => Inv
    BY InitInv
  <1>2. Inv /\ [Next]_vars => Inv'
    BY NextInv
  <1> QED
    BY <1>1, <1>2, PTL DEF Spec

\* Every window is one of a connection and a chain address, and holds no more
\* hits than the limit (SlidingWindow::allow pushes only below it).
THEOREM TypeCorrect == Spec => []TypeOK
  <1>1. Inv => TypeOK
    BY DEF Inv, KeyInv, WindowInv, TypeOK
  <1> QED
    BY <1>1, Invariance, PTL

\* NostrRateLimiter::check grants a connection no more than the limit within
\* the window, whatever the configured limit and window.
THEOREM GrantsBoundedHolds == Spec => []GrantsBounded
  <1>1. Inv => GrantsBounded
    BY DEF Inv, KeyInv, Spaced, GrantsBounded
  <1> QED
    BY <1>1, Invariance, PTL

\* A block is refused only if the full budget of its connection and chain was
\* granted within the window.
THEOREM RefusesOnlySpentHolds == Spec => []RefusesOnlySpent
  <1>1. ASSUME Inv, NEW k \in Keys, ~Allows(k)
        PROVE  Cardinality(Recent(k)) >= ChainRateLimit
    BY <1>1, RememberedRecent, RelayLimitAssumption DEF Allows
  <1>2. Inv => RefusesOnlySpent
    BY <1>1 DEF RefusesOnlySpent
  <1> QED
    BY <1>2, Invariance, PTL

\* For a window no longer than MAX_IDLE, as the default one: the relay always
\* decides as if it had kept every grant, so neither dropping idle windows nor
\* popping hits gives or takes a block (NostrRateLimiter::check).
DecidesExactly ==
    \A k \in Keys : Allows(k) <=> Cardinality(Recent(k)) < ChainRateLimit

\* With a window no longer than MAX_IDLE the relay forgets nothing that counts:
\* it grants a block exactly when fewer than the limit were granted within the
\* window.
THEOREM DecidesExactlyHolds ==
    ASSUME ChainRateWindow <= MaxIdle
    PROVE  Spec => []DecidesExactly
  <1>1. ASSUME Inv, NEW k \in Keys
        PROVE  Allows(k) <=> Cardinality(Recent(k)) < ChainRateLimit
    <2>1. Len(Remembered(k)) = Cardinality(Recent(k))
      BY <1>1, RememberedRecent
    <2> QED
      BY <2>1 DEF Allows
  <1>2. Inv => DecidesExactly
    BY <1>1 DEF DecidesExactly
  <1> QED
    BY <1>2, Invariance, PTL

\* However long a relay runs without a quiet moment, its map holds no window
\* that was left alone for MAX_IDLE and PRUNE_INTERVAL before another was used.
THEOREM MapHoldsRecentHolds == Spec => []MapHoldsRecent
  <1>1. ASSUME Inv, NEW j \in DOMAIN keys, NEW k \in DOMAIN keys
        PROVE  keys[j].lastSeen - keys[k].lastSeen < MaxIdle + PruneInterval
    <2>1. WindowInv(j) /\ WindowInv(k) /\ lastPrune \in Nat
      BY <1>1 DEF Inv, KeyInv
    <2>2. keys[j].lastSeen \in Nat /\ keys[k].lastSeen \in Nat
      BY <2>1 DEF WindowInv, Window
    <2> QED
      BY <2>1, <2>2, RelayLimitAssumption DEF WindowInv
  <1>2. Inv => MapHoldsRecent
    BY <1>1 DEF MapHoldsRecent
  <1> QED
    BY <1>2, Invariance, PTL
=============================================================================
