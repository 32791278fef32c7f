---------------------------- MODULE FaucetProofs ----------------------------
(***************************************************************************)
(* Proofs about the demo faucet: about its discounts for all sums, rates   *)
(* and days, and about its loop for any number of holders, quotes, failed  *)
(* calls and restarts.                                                     *)
(***************************************************************************)
EXTENDS Faucet, TLAPS, WellFoundedInduction, SequenceTheorems, FiniteSetTheorems

\* A set of naturals that is not empty has a smallest member, so that there is
\* a first entry at which popping expired ones stops.
LEMMA SmallestOf ==
    ASSUME NEW T, T \subseteq Nat, T # {}
    PROVE  \E m \in T : \A y \in T : m <= y
<1> DEFINE Less == {s \in Nat \X Nat : s[1] < s[2]}
<1>1. IsWellFoundedOn(Less, Nat)
  BY NatLessThanWellFounded DEF OpToRel
<1> HIDE DEF Less
<1>2. PICK m \in T : \A y \in T : ~(<<y, m>> \in Less)
  BY <1>1, WFMin
<1>3. \A y \in T : ~(y < m)
  BY <1>2 DEF Less
<1> QED BY <1>3

\* Products of numbers that are not negative grow with each factor.
LEMMA ProductGrows ==
    ASSUME NEW a \in Nat, NEW b \in Nat, NEW c \in Nat, b <= c
    PROVE  a * b <= a * c /\ a * b \in Nat
<1>1. PICK d \in Nat : c = b + d
  <2>1. c - b \in Nat /\ c = b + (c - b)
    OBVIOUS
  <2> QED BY <2>1
<1>2. a * c = a * b + a * d
  BY <1>1
<1>3. a * d \in Nat /\ a * b \in Nat
  BY <1>1
<1> QED BY <1>2, <1>3

\* A remainder is not more than what is divided, and is that if it is less
\* than the divisor.
LEMMA Remainder ==
    ASSUME NEW a \in Nat, NEW b \in Nat \ {0}
    PROVE  a % b \in 0..a /\ (a < b => a % b = a)
OBVIOUS

\* Dividing by 100 and then by 360 is dividing by 36000.
LEMMA DivideTwice ==
    ASSUME NEW a \in Nat
    PROVE  LET f == (a \div 100) \div 360 IN f \in Nat /\ f * 36000 <= a /\ a < (f + 1) * 36000
<1>1. PICK b \in Nat : b = a \div 100 /\ b * 100 <= a /\ a < b * 100 + 100
  <2>1. a \div 100 \in Nat /\ (a \div 100) * 100 <= a /\ a < (a \div 100) * 100 + 100
    OBVIOUS
  <2> QED BY <2>1
<1>2. PICK f \in Nat : f = b \div 360 /\ f * 360 <= b /\ b < f * 360 + 360
  <2>1. b \div 360 \in Nat /\ (b \div 360) * 360 <= b /\ b < (b \div 360) * 360 + 360
    OBVIOUS
  <2> QED BY <2>1
<1> QED BY <1>1, <1>2

\* The rate and the days that count.
LEMMA Clamped ==
    ASSUME NEW percent \in Nat, NEW due \in Int, NEW today \in Int
    PROVE  Clamp(percent, 0, 99) \in 0..99 /\ Days(due, today) \in 1..360
BY DEF Clamp, Days

Exact(sum, percent, due, today) == sum * Clamp(percent, 0, 99) * Days(due, today)

\* The exact fee is less than the sum.
LEMMA ExactBounded ==
    ASSUME NEW sum \in Nat, NEW percent \in Nat, NEW due \in Int, NEW today \in Int
    PROVE  /\ Exact(sum, percent, due, today) \in Nat
           /\ Exact(sum, percent, due, today) <= sum * 99 * 360
<1> DEFINE p == Clamp(percent, 0, 99)
           d == Days(due, today)
<1>1. p \in 0..99 /\ d \in 1..360
  <2>1. Clamp(percent, 0, 99) \in 0..99 /\ Days(due, today) \in 1..360
    BY DEF Clamp, Days
  <2> QED BY <2>1
<1> HIDE DEF p, d
<1>2. sum * p <= sum * 99 /\ sum * p \in Nat
  BY <1>1, ProductGrows
<1>3. (sum * p) * d <= (sum * p) * 360 /\ (sum * p) * d \in Nat
  BY <1>1, <1>2, ProductGrows
<1>4. (sum * p) * 360 <= (sum * 99) * 360
  BY <1>2
<1>5. (sum * p) * d <= (sum * 99) * 360
  BY <1>2, <1>3, <1>4
<1>6. Exact(sum, percent, due, today) = (sum * p) * d
  BY DEF Exact, p, d
<1> QED BY <1>3, <1>5, <1>6

\* What is known of the fee.
LEMMA FeeFacts ==
    ASSUME NEW sum \in Nat, NEW percent \in Nat, NEW due \in Int, NEW today \in Int
    PROVE  LET fee == Fee(sum, percent, due, today)
               exact == Exact(sum, percent, due, today)
           IN  /\ fee \in Nat \ {0}
               /\ fee = 1 \/ fee * 36000 <= exact
               /\ fee = 1 \/ fee < sum
               /\ exact < Word => exact < (fee + 1) * 36000
<1> DEFINE exact == Exact(sum, percent, due, today)
           word == exact % Word
           f == (word \div 100) \div 360
<1>1. exact \in Nat /\ exact <= sum * 99 * 360
  BY ExactBounded
<1>2. word \in 0..exact /\ (exact < Word => word = exact)
  <2> HIDE DEF exact
  <2> QED BY <1>1, Remainder, DiscountAssumption
<1>3. f \in Nat /\ f * 36000 <= word /\ word < (f + 1) * 36000
  <2>1. word \in Nat
    BY <1>1, <1>2
  <2> HIDE DEF word
  <2> QED BY <2>1, DivideTwice
<1>4. Fee(sum, percent, due, today) = AtLeast(f, 1)
  BY DEF Fee, Exact
<1> HIDE DEF exact, word, f
<1>5. f * 36000 <= exact
  BY <1>1, <1>2, <1>3
<1>6. f >= 1 => f < sum
  BY <1>1, <1>3, <1>5
<1>7. AtLeast(f, 1) = IF f < 1 THEN 1 ELSE f
  BY DEF AtLeast
<1>8. exact < Word => exact < (f + 1) * 36000
  BY <1>1, <1>2, <1>3
<1>9. CASE f < 1
  <2>1. f = 0 /\ AtLeast(f, 1) = 1
    BY <1>3, <1>7, <1>9
  <2>2. exact < Word => exact < (1 + 1) * 36000
    BY <1>1, <1>8, <2>1, DiscountAssumption
  <2> QED BY <1>4, <2>1, <2>2 DEF exact
<1>10. CASE f >= 1
  <2>1. AtLeast(f, 1) = f
    BY <1>3, <1>7, <1>10
  <2> QED BY <1>3, <1>4, <1>5, <1>6, <1>8, <1>10, <2>1 DEF exact
<1> QED BY <1>3, <1>9, <1>10

\* An offer in terms of the fee.
LEMMA OfferFacts ==
    ASSUME NEW sum \in Nat, NEW percent \in Nat, NEW due \in Int, NEW today \in Int
    PROVE  LET offer == DiscountSats(sum, percent, due, today)
               fee == Fee(sum, percent, due, today)
           IN  /\ percent = 0 => offer = sum
               /\ percent > 0 /\ sum <= 1 => offer = sum
               /\ percent > 0 /\ sum > 1 => fee < sum /\ offer = sum - fee
<1> DEFINE fee == Fee(sum, percent, due, today)
<1>1. fee \in Nat \ {0} /\ (fee = 1 \/ fee < sum)
  BY FeeFacts
<1>2. DiscountSats(sum, percent, due, today) =
        IF percent = 0 THEN sum ELSE IF sum > fee THEN sum - fee ELSE sum
  BY <1>1 DEF DiscountSats
<1> HIDE DEF fee
<1>3. sum > 1 => fee < sum
  BY <1>1
<1>4. sum <= 1 => ~(sum > fee)
  BY <1>1
<1> QED BY <1>1, <1>2, <1>3, <1>4 DEF fee

\* Sums, rates and days are numbers.
LEMMA Inputs == Sum \subseteq Nat /\ Percent \subseteq Nat /\ Due \subseteq Int
BY DiscountAssumption

\* The fee does not sink from one day to a later one.
LEMMA FeeGrows ==
    ASSUME NEW sum \in Nat, NEW percent \in Nat, NEW early \in Int, NEW late \in Int,
           NEW today \in Int, early <= late, Fits(sum)
    PROVE  Fee(sum, percent, early, today) <= Fee(sum, percent, late, today)
<1> DEFINE e == Fee(sum, percent, early, today)
           l == Fee(sum, percent, late, today)
           a == sum * Clamp(percent, 0, 99)
           c == Days(early, today)
           d == Days(late, today)
<1>1. c \in Nat /\ d \in Nat /\ c <= d
  BY DEF Clamp, Days
<1>2. a \in Nat
  <2>1. Clamp(percent, 0, 99) \in Nat
    BY DEF Clamp
  <2> QED BY <2>1
<1>3. a * c <= a * d /\ a * c \in Nat /\ a * d \in Nat
  <2> HIDE DEF a, c, d
  <2> QED BY <1>1, <1>2, ProductGrows
<1>4. Exact(sum, percent, early, today) = a * c /\ Exact(sum, percent, late, today) = a * d
  BY DEF Exact
<1>5. Exact(sum, percent, late, today) < Word
  <2>1. /\ Exact(sum, percent, late, today) \in Nat
        /\ Exact(sum, percent, late, today) <= sum * 99 * 360
    BY ExactBounded
  <2>2. sum * 99 * 360 \in Nat /\ sum * 99 * 360 < Word
    BY DEF Fits
  <2> QED BY <2>1, <2>2, DiscountAssumption
<1>6. e \in Nat \ {0} /\ (e = 1 \/ e * 36000 <= Exact(sum, percent, early, today))
  <2> HIDE DEF a, c, d, l
  <2> QED BY ONLY sum \in Nat, percent \in Nat, early \in Int, today \in Int, FeeFacts
<1>7. l \in Nat \ {0} /\ Exact(sum, percent, late, today) < (l + 1) * 36000
  <2> HIDE DEF a, c, d, e
  <2>1. /\ l \in Nat \ {0}
        /\ Exact(sum, percent, late, today) < Word =>
              Exact(sum, percent, late, today) < (l + 1) * 36000
    BY ONLY sum \in Nat, percent \in Nat, late \in Int, today \in Int, FeeFacts
  <2> QED BY <1>5, <2>1
<1> HIDE DEF e, l, a, c, d
<1>8. e <= l
  BY <1>3, <1>4, <1>6, <1>7
<1> QED BY <1>8 DEF e, l

\* Whatever the sum, the discount and the day of maturity are, an offer is not
\* more than the sum, and not nothing; for sums that do not overflow it is exact
\* to one sat, and does not grow with the days until the bill is due.
LEMMA DiscountFacts ==
    ASSUME NEW today \in Int
    PROVE  OfferBounded(today) /\ FeeExact(today) /\ LaterIsCheaper(today)
<1>1. OfferBounded(today)
  <2> SUFFICES ASSUME NEW sum \in Sum, NEW percent \in Percent, NEW due \in Due
               PROVE  LET offer == DiscountSats(sum, percent, due, today) IN
                      /\ offer <= sum
                      /\ sum > 0 => offer > 0
                      /\ sum > 1 /\ percent > 0 => offer < sum
    BY DEF OfferBounded
  <2> DEFINE offer == DiscountSats(sum, percent, due, today)
             fee == Fee(sum, percent, due, today)
  <2>1. sum \in Nat /\ percent \in Nat /\ due \in Int
    BY Inputs
  <2>2. fee \in Nat \ {0}
    BY <2>1, FeeFacts
  <2>3. /\ percent = 0 => offer = sum
        /\ percent > 0 /\ sum <= 1 => offer = sum
        /\ percent > 0 /\ sum > 1 => fee < sum /\ offer = sum - fee
    BY <2>1, OfferFacts
  <2> HIDE DEF offer, fee
  <2>4. /\ offer <= sum
        /\ sum > 0 => offer > 0
        /\ sum > 1 /\ percent > 0 => offer < sum
    BY <2>1, <2>2, <2>3
  <2> QED BY <2>4 DEF offer
<1>2. FeeExact(today)
  <2> SUFFICES ASSUME NEW sum \in Sum, NEW percent \in Percent, NEW due \in Due, Fits(sum)
               PROVE  LET fee == Fee(sum, percent, due, today)
                          exact == sum * Clamp(percent, 0, 99) * Days(due, today)
                      IN  /\ fee = 1 \/ fee * 36000 <= exact
                          /\ exact < (fee + 1) * 36000
    BY DEF FeeExact
  <2>1. sum \in Nat /\ percent \in Nat /\ due \in Int
    BY Inputs
  <2>2. /\ Exact(sum, percent, due, today) \in Nat
        /\ Exact(sum, percent, due, today) <= sum * 99 * 360
    BY <2>1, ExactBounded
  <2>3. sum * 99 * 360 \in Nat /\ sum * 99 * 360 < Word
    BY <2>1 DEF Fits
  <2>4. Exact(sum, percent, due, today) < Word
    BY <2>2, <2>3, DiscountAssumption
  <2>5. /\ \/ Fee(sum, percent, due, today) = 1
           \/ Fee(sum, percent, due, today) * 36000 <= Exact(sum, percent, due, today)
        /\ Exact(sum, percent, due, today) < Word =>
              Exact(sum, percent, due, today) < (Fee(sum, percent, due, today) + 1) * 36000
    BY ONLY <2>1, today \in Int, FeeFacts
  <2> QED BY <2>4, <2>5 DEF Exact
<1>3. LaterIsCheaper(today)
  <2> SUFFICES ASSUME NEW sum \in Sum, NEW percent \in Percent,
                      NEW early \in Due, NEW late \in Due,
                      early <= late, Fits(sum)
               PROVE  DiscountSats(sum, percent, late, today) <= DiscountSats(sum, percent, early, today)
    BY DEF LaterIsCheaper
  <2> DEFINE e == Fee(sum, percent, early, today)
             l == Fee(sum, percent, late, today)
  <2>1. sum \in Nat /\ percent \in Nat /\ early \in Int /\ late \in Int
    BY Inputs
  <2>2. e \in Nat \ {0} /\ l \in Nat \ {0}
    BY <2>1, FeeFacts
  <2>3. e <= l
    BY <2>1, FeeGrows
  <2>4. /\ percent = 0 => DiscountSats(sum, percent, early, today) = sum
        /\ percent > 0 /\ sum <= 1 => DiscountSats(sum, percent, early, today) = sum
        /\ percent > 0 /\ sum > 1 =>
              e < sum /\ DiscountSats(sum, percent, early, today) = sum - e
    BY ONLY <2>1, today \in Int, OfferFacts
  <2>5. /\ percent = 0 => DiscountSats(sum, percent, late, today) = sum
        /\ percent > 0 /\ sum <= 1 => DiscountSats(sum, percent, late, today) = sum
        /\ percent > 0 /\ sum > 1 =>
              l < sum /\ DiscountSats(sum, percent, late, today) = sum - l
    BY ONLY <2>1, today \in Int, OfferFacts
  <2> HIDE DEF e, l
  <2> QED BY <2>1, <2>2, <2>3, <2>4, <2>5
<1> QED BY <1>1, <1>2, <1>3
-----------------------------------------------------------------------------
(* The loop *)

\* Where evict_expired stops: at the first entry that has not expired, or
\* behind the last one.
LEMMA EvictedProperties ==
    ASSUME TypeOK, NEW q \in Quote
    PROVE  LET entries == log[HolderOf[q]] IN
           \E kept \in 1..(Len(entries) + 1) :
              /\ kept <= Len(entries) => ~Expired(entries[kept], q)
              /\ \A j \in 1..(kept - 1) : Expired(entries[j], q)
              /\ Evicted(q) \in Seq(Small)
              /\ Len(Evicted(q)) = Len(entries) - kept + 1
              /\ \A i \in 1..Len(Evicted(q)) : Evicted(q)[i] = entries[kept + i - 1]
<1> DEFINE entries == log[HolderOf[q]]
           n == Len(entries)
           T == {i \in 1..(n + 1) : i <= n => ~Expired(entries[i], q)}
           First(i) == /\ i <= n => ~Expired(entries[i], q)
                       /\ \A j \in 1..(i - 1) : Expired(entries[j], q)
           kept == CHOOSE i \in 1..(n + 1) : First(i)
<1>1. entries \in Seq(Small) /\ n \in Nat
  BY FaucetAssumption DEF TypeOK
<1>2. T \subseteq Nat /\ n + 1 \in T
  BY <1>1
<1>3. PICK m \in T : \A y \in T : m <= y
  BY <1>2, SmallestOf
<1>4. ASSUME NEW j \in 1..(m - 1) PROVE Expired(entries[j], q)
  BY <1>1, <1>3
<1>5. m \in 1..(n + 1) /\ First(m)
  BY <1>3, <1>4
<1>6. kept \in 1..(n + 1) /\ First(kept)
  BY <1>5
<1>7. Evicted(q) = SubSeq(entries, kept, n)
  BY DEF Evicted
<1> HIDE DEF kept, entries, n
<1>8. \A i \in kept..n : entries[i] \in Small
  <2>1. Len(entries) = n
    BY DEF n
  <2> QED BY <1>1, <1>6, <2>1
<1>9. /\ SubSeq(entries, kept, n) \in Seq(Small)
      /\ Len(SubSeq(entries, kept, n)) = IF kept <= n THEN n - kept + 1 ELSE 0
      /\ \A i \in 1..(n - kept + 1) : SubSeq(entries, kept, n)[i] = entries[kept + i - 1]
  BY <1>1, <1>6, <1>8, SubSeqProperties
<1>10. /\ Evicted(q) \in Seq(Small)
       /\ Len(Evicted(q)) = n - kept + 1
       /\ \A i \in 1..Len(Evicted(q)) : Evicted(q)[i] = entries[kept + i - 1]
  BY <1>1, <1>6, <1>7, <1>9
<1> QED BY <1>6, <1>10 DEF entries, n

\* The log after eviction is no longer than before, and short enough for one
\* entry more if it is not full.
LEMMA EvictedTypes ==
    ASSUME TypeOK, NEW q \in Small
    PROVE  /\ Evicted(q) \in Seq(Small) /\ Len(Evicted(q)) \in 0..MaxRequests
           /\ ~Full(Evicted(q)) => /\ Append(Evicted(q), q) \in Seq(Small)
                                   /\ Len(Append(Evicted(q), q)) \in 0..MaxRequests
<1> DEFINE n == Len(log[HolderOf[q]])
<1>1. q \in Quote /\ n \in Nat /\ n <= MaxRequests /\ MaxRequests \in Nat
  BY FaucetAssumption DEF TypeOK
<1>2. Evicted(q) \in Seq(Small) /\ \E kept \in 1..(n + 1) : Len(Evicted(q)) = n - kept + 1
  BY <1>1, EvictedProperties
<1>3. Len(Evicted(q)) \in 0..MaxRequests
  BY <1>1, <1>2
<1>4. Append(Evicted(q), q) \in Seq(Small) /\ Len(Append(Evicted(q), q)) = Len(Evicted(q)) + 1
  BY <1>2, AppendProperties
<1> QED BY <1>1, <1>2, <1>3, <1>4 DEF Full

\* The initial state has them.
LEMMA InitTypes == Init => TypeOK
BY FaucetAssumption DEF Init, TypeOK, EmptyLog, Status, Pc, Deciding

\* Every step keeps the types.
LEMMA TypeStep ==
    ASSUME TypeOK, [Next]_vars
    PROVE  TypeOK'
<1> USE FaucetAssumption DEF TypeOK, Status, Pc, Deciding
<1>1. CASE Tick
  BY <1>1 DEF Tick, loop
<1>2. ASSUME NEW q \in Quote, Submit(q) PROVE TypeOK'
  BY <1>2 DEF Submit, loop
<1>3. ASSUME NEW q \in Quote, DecideElsewhere(q) PROVE TypeOK'
  BY <1>3 DEF DecideElsewhere, loop
<1>4. CASE List
  BY <1>4 DEF List, Listed, mint
<1>5. CASE StartOver
  BY <1>5 DEF StartOver, Fails, EmptyLog, mint
<1>6. ASSUME NEW q \in Quote, Handle(q) PROVE TypeOK'
  <2>1. q \in Small /\ HolderOf[q] \in Holder
    BY <1>6 DEF Handle
  <2>2. log' \in [Holder -> Seq(Small)] /\ \A h \in Holder : Len(log'[h]) <= MaxRequests
    <3>1. /\ Evicted(q) \in Seq(Small) /\ Len(Evicted(q)) \in 0..MaxRequests
          /\ ~Full(Evicted(q)) => /\ Append(Evicted(q), q) \in Seq(Small)
                                  /\ Len(Append(Evicted(q), q)) \in 0..MaxRequests
      BY <2>1, EvictedTypes
    <3>2. PICK e \in Seq(Small) : /\ Len(e) \in 0..MaxRequests
                                  /\ log' = [log EXCEPT ![HolderOf[q]] = e]
      BY <1>6, <3>1 DEF Handle
    <3> QED BY <2>1, <3>2
  <2>3. cur' \in Small /\ pc' \in {"deny", "offer"}
    BY <1>6, <2>1 DEF Handle
  <2>4. latest' \in [Holder -> 0..now']
    BY <1>6, <2>1 DEF Handle, AtLeast, mint
  <2>5. /\ UNCHANGED <<mint, failures>> /\ todo' \in SUBSET Quote
        /\ {disordered', wasted'} \subseteq SUBSET Holder /\ forgotten' \subseteq Quote
    BY <1>6, <2>1 DEF Handle
  <2> QED BY <2>2, <2>3, <2>4, <2>5 DEF mint
<1>7. ASSUME NEW q \in Quote, Pass(q) PROVE TypeOK'
  BY <1>7 DEF Pass, mint
<1>8. ASSUME NEW q \in Quote, LookupFails(q) PROVE TypeOK'
  BY <1>8 DEF LookupFails, Fails, mint
<1>9. ASSUME NEW step \in Deciding, NEW decision \in {"denied", "offered"},
             Decide(step, decision)
      PROVE  TypeOK'
  BY <1>9 DEF Decide
<1>10. CASE DecideFails
  <2>1. HolderOf[cur] \in Holder
    BY <1>10 DEF DecideFails
  <2>2. failures' \in 0..MaxFailures
    BY <1>10 DEF DecideFails, Fails
  <2> QED BY <1>10, <2>1, <2>2 DEF DecideFails, mint
<1>11. CASE Sleep
  BY <1>11 DEF Sleep, mint
<1>12. CASE UNCHANGED vars
  BY <1>12 DEF vars, mint, loop
<1> QED BY <1>1, <1>2, <1>3, <1>4, <1>5, <1>6, <1>7, <1>8, <1>9, <1>10, <1>11, <1>12
        DEF Next, Loop, ListFails, Restart, Deny, Offer

\* (type correctness) The loop's program counter agrees with what it works on,
\* only small bills are counted, and no log outgrows max_requests (main_loop).
THEOREM TypeCorrect == Spec => []TypeOK
<1>1. Init => TypeOK
  BY InitTypes
<1>2. TypeOK /\ [Next]_vars => TypeOK'
  BY TypeStep
<1> QED BY <1>1, <1>2, PTL DEF Spec

\* Whatever the bill's sum, the configured discount, the day of maturity and
\* today are, what is offered is not more than the sum, and not nothing; for sums
\* that do not overflow it is exact to one sat, and not more for bills that are
\* due later (discount_sats).
THEOREM DiscountIsSound == Spec => []DiscountSound
<1>1. TypeOK => DiscountSound
  <2> SUFFICES ASSUME TypeOK PROVE DiscountSound
    OBVIOUS
  <2>1. now \in Int
    BY FaucetAssumption DEF TypeOK
  <2> QED BY <2>1, DiscountFacts DEF DiscountSound
<1> QED BY <1>1, TypeCorrect, PTL
-----------------------------------------------------------------------------
\* The quotes that a log counts.
Entries(h) == {log[h][i] : i \in 1..Len(log[h])}

\* Logs count quotes of their holders.
LogKnown ==
    \A h \in Holder : \A i \in 1..Len(log[h]) :
        HolderOf[log[h][i]] = h /\ status[log[h][i]] # "new"

\* As long as quotes are handled in the order of their submission, so are logs
\* sorted, and latest is the end of them.
LogOrdered ==
    \A h \in Holder \ disordered : \A i \in 1..Len(log[h]) :
        /\ submitted[log[h][i]] <= latest[h]
        /\ \A j \in 1..i : submitted[log[h][j]] <= submitted[log[h][i]]

\* An offer is in the log as long as it counts, if the log was not lost since.
OffersLogged ==
    \A p \in Quote \ forgotten : status[p] = "offered" /\ HolderOf[p] \notin disordered =>
        /\ log[HolderOf[p]] # <<>>
        /\ submitted[p] <= latest[HolderOf[p]]
        /\ latest[HolderOf[p]] - submitted[p] <= Retention => p \in Entries(HolderOf[p])

\* What the loop knows of the quote that it is about to deny or to offer.
CurHandled ==
    pc \in Deciding =>
        LET h == HolderOf[cur] IN
        /\ status[cur] # "new"
        /\ h \notin disordered => /\ submitted[cur] = latest[h]
                                  /\ \A i \in 1..Len(log[h]) : ~Expired(log[h][i], cur)
        /\ pc = "offer" => cur \in Entries(h)
        /\ pc = "deny" => Full(log[h])

\* As long as offers succeed, logs count offers only, and each of them once.
LogOffered ==
    \A h \in Holder \ (disordered \cup wasted) : \A i \in 1..Len(log[h]) :
        /\ status[log[h][i]] = "offered" \/ (pc = "offer" /\ log[h][i] = cur)
        /\ \A j \in 1..Len(log[h]) : log[h][j] = log[h][i] => j = i

\* The strengthening under which both bounds are inductive.
IInv ==
    /\ TypeOK /\ LogKnown /\ LogOrdered /\ OffersLogged /\ CurHandled /\ LogOffered
    /\ OffersBounded /\ DenialJustified

\* What never changes of a quote that was submitted, and who decides.
LEMMA QuotesSettle ==
    ASSUME TypeOK, [Next]_vars, NEW p \in Quote
    PROVE  /\ status[p] # "new" => status'[p] # "new" /\ submitted'[p] = submitted[p]
           /\ status[p] = "offered" => status'[p] = "offered"
           /\ status'[p] = "offered" => status[p] = "offered" \/ (Offer /\ p = cur)
           /\ status'[p] = "denied" => status[p] = "denied" \/ (Deny /\ p = cur)
<1> USE DEF TypeOK, mint
<1>1. CASE UNCHANGED mint
  BY <1>1
<1>2. ASSUME NEW q \in Quote, Submit(q) \/ DecideElsewhere(q)
      PROVE  /\ status[p] # "new" => status'[p] # "new" /\ submitted'[p] = submitted[p]
             /\ status[p] = "offered" => status'[p] = "offered"
             /\ status'[p] = "offered" => status[p] = "offered"
             /\ status'[p] = "denied" => status[p] = "denied"
  BY <1>2 DEF Submit, DecideElsewhere
<1>3. CASE Deny
  BY <1>3 DEF Deny, Decide
<1>4. CASE Offer
  BY <1>4 DEF Offer, Decide
<1>5. ASSUME Tick PROVE UNCHANGED <<status, submitted>>
  BY <1>5 DEF Tick
<1>6. ASSUME \/ List \/ ListFails \/ Restart \/ DecideFails \/ Sleep
             \/ \E q \in Quote : Handle(q) \/ Pass(q) \/ LookupFails(q)
      PROVE  UNCHANGED mint
  BY <1>6 DEF List, ListFails, Restart, StartOver, DecideFails, Sleep, Handle, Pass, LookupFails
<1> QED BY <1>1, <1>2, <1>3, <1>4, <1>5, <1>6 DEF Next, Loop, vars

\* The steps that leave the log and what is known of it alone.
Aside ==
    \/ Tick \/ List \/ Sleep \/ UNCHANGED vars
    \/ \E q \in Quote : Submit(q) \/ DecideElsewhere(q) \/ Pass(q) \/ LookupFails(q)

LEMMA StepsAside ==
    ASSUME TypeOK, Aside
    PROVE  /\ UNCHANGED <<cur, log, latest, disordered, wasted, forgotten>>
           /\ pc' # pc => pc \notin Deciding /\ pc' \notin Deciding
BY DEF Aside, Tick, List, Sleep, Submit, DecideElsewhere, Pass, LookupFails, vars, loop, mint,
       TypeOK, Deciding

LEMMA Steps ==
    ASSUME [Next]_vars
    PROVE  \/ Aside \/ StartOver \/ Deny \/ Offer \/ DecideFails
           \/ \E q \in Quote : Handle(q)
BY DEF Next, Loop, Aside, ListFails, Restart

LEMMA EntryTypes ==
    ASSUME TypeOK, NEW h \in Holder, NEW i \in 1..Len(log[h])
    PROVE  log[h][i] \in Quote /\ submitted[log[h][i]] \in Nat
<1>1. log[h][i] \in Small
  BY DEF TypeOK
<1>2. now \in Nat
  BY FaucetAssumption DEF TypeOK
<1> QED BY <1>1, <1>2, FaucetAssumption DEF TypeOK

\* Handling a quote does not concern other holders.
LEMMA OtherHolders ==
    ASSUME TypeOK, NEW q \in Quote, Handle(q), NEW g \in Holder, g # HolderOf[q]
    PROVE  /\ log'[g] = log[g] /\ latest'[g] = latest[g]
           /\ g \in disordered' <=> g \in disordered
BY FaucetAssumption DEF Handle, TypeOK

\* How handling q changes the log of its holder h: entries before kept are
\* evicted, and q is added if it is to be offered.
Trimmed(h, q, kept) ==
    /\ kept <= Len(log[h]) => ~Expired(log[h][kept], q)
    /\ \A j \in 1..(kept - 1) : Expired(log[h][j], q)
    /\ \A i \in 1..Len(log'[h]) :
          \/ kept + i - 1 <= Len(log[h]) /\ log'[h][i] = log[h][kept + i - 1]
          \/ kept + i - 1 = Len(log[h]) + 1 /\ pc' = "offer" /\ log'[h][i] = q
    /\ \A j \in kept..Len(log[h]) :
          j - kept + 1 \in 1..Len(log'[h]) /\ log'[h][j - kept + 1] = log[h][j]
    /\ \/ pc' = "deny" /\ Full(log'[h])
       \/ pc' = "offer" /\ Len(log'[h]) > 0 /\ log'[h][Len(log'[h])] = q

\* Handling a quote: its holder's log before and after.
LEMMA Handled ==
    ASSUME TypeOK, NEW q \in Quote, Handle(q)
    PROVE  LET h == HolderOf[q] IN
           /\ h \in Holder /\ cur' = q /\ pc' \in Deciding
           /\ UNCHANGED <<mint, wasted, forgotten>>
           /\ h \notin disordered' => /\ h \notin disordered
                                      /\ latest[h] <= submitted[q]
                                      /\ latest'[h] = submitted[q]
           /\ \E kept \in 1..(Len(log[h]) + 1) : Trimmed(h, q, kept)
<1> DEFINE h == HolderOf[q]
           n == Len(log[h])
<1>1. h \in Holder /\ n \in Nat
  BY FaucetAssumption DEF TypeOK
<1>2. cur' = q /\ pc' \in Deciding /\ UNCHANGED <<mint, wasted, forgotten>>
  BY DEF Handle, Deciding
<1>4. submitted[q] \in Nat /\ latest[h] \in Nat
  BY <1>1, FaucetAssumption DEF TypeOK
<1>5. h \notin disordered' => /\ h \notin disordered
                             /\ latest[h] <= submitted[q]
                             /\ latest'[h] = submitted[q]
  BY <1>1, <1>4 DEF Handle, TypeOK, AtLeast
<1>6. PICK kept \in 1..(n + 1) :
         /\ kept <= n => ~Expired(log[h][kept], q)
         /\ \A j \in 1..(kept - 1) : Expired(log[h][j], q)
         /\ Evicted(q) \in Seq(Small)
         /\ Len(Evicted(q)) = n - kept + 1
         /\ \A i \in 1..Len(Evicted(q)) : Evicted(q)[i] = log[h][kept + i - 1]
  BY EvictedProperties
<1>7. q \in Small
  BY DEF Handle
<1>8. /\ Append(Evicted(q), q) \in Seq(Small)
      /\ Append(Evicted(q), q) # <<>>
      /\ Len(Append(Evicted(q), q)) = Len(Evicted(q)) + 1
      /\ \A i \in 1..Len(Evicted(q)) : Append(Evicted(q), q)[i] = Evicted(q)[i]
      /\ Append(Evicted(q), q)[Len(Evicted(q)) + 1] = q
  BY <1>6, <1>7, AppendProperties
<1>9. \/ pc' = "deny" /\ Full(Evicted(q)) /\ log'[h] = Evicted(q)
      \/ pc' = "offer" /\ log'[h] = Append(Evicted(q), q)
  BY <1>1 DEF Handle, TypeOK
<1> DEFINE m == Len(log'[h])
<1>10. /\ \A i \in 1..m : \/ kept + i - 1 <= n /\ log'[h][i] = log[h][kept + i - 1]
                          \/ kept + i - 1 = n + 1 /\ pc' = "offer" /\ log'[h][i] = q
       /\ \A j \in kept..n : j - kept + 1 \in 1..m /\ log'[h][j - kept + 1] = log[h][j]
       /\ \/ pc' = "deny" /\ Full(log'[h])
          \/ pc' = "offer" /\ m > 0 /\ log'[h][m] = q
  <2>1. CASE pc' = "deny" /\ Full(Evicted(q)) /\ log'[h] = Evicted(q)
    <3>1. m = n - kept + 1 /\ \A i \in 1..m : log'[h][i] = log[h][kept + i - 1]
      BY <1>6, <2>1
    <3>2. kept \in 1..(n + 1)
      OBVIOUS
    <3>3. Full(log'[h])
      BY <2>1
    <3> HIDE DEF m, n, h
    <3>4. \A i \in 1..m : kept + i - 1 <= n
      BY <1>1, <3>1, <3>2
    <3>5. ASSUME NEW j \in kept..n
          PROVE  j - kept + 1 \in 1..m /\ log'[h][j - kept + 1] = log[h][j]
      <4>1. j - kept + 1 \in 1..m /\ kept + (j - kept + 1) - 1 = j
        BY <1>1, <3>1, <3>2
      <4>2. log'[h][j - kept + 1] = log[h][kept + (j - kept + 1) - 1]
        BY <3>1, <4>1
      <4> QED BY <4>1, <4>2
    <3> QED BY <2>1, <3>1, <3>3, <3>4, <3>5
  <2>2. CASE pc' = "offer" /\ log'[h] = Append(Evicted(q), q)
    <3>1. /\ m = n - kept + 2 /\ log'[h][m] = q
          /\ \A i \in 1..(n - kept + 1) : log'[h][i] = log[h][kept + i - 1]
      BY <1>1, <1>6, <1>8, <2>2
    <3>2. kept \in 1..(n + 1)
      OBVIOUS
    <3> HIDE DEF m, n, h
    <3>4. /\ m > 0
          /\ \A i \in 1..m : \/ kept + i - 1 <= n /\ i \in 1..(n - kept + 1)
                             \/ kept + i - 1 = n + 1 /\ i = m
      BY <1>1, <3>1, <3>2
    <3>5. ASSUME NEW j \in kept..n
          PROVE  j - kept + 1 \in 1..m /\ log'[h][j - kept + 1] = log[h][j]
      <4>1. /\ j - kept + 1 \in 1..m /\ j - kept + 1 \in 1..(n - kept + 1)
            /\ kept + (j - kept + 1) - 1 = j
        BY <1>1, <3>1, <3>2
      <4>2. log'[h][j - kept + 1] = log[h][kept + (j - kept + 1) - 1]
        BY <3>1, <4>1
      <4> QED BY <4>1, <4>2
    <3> QED BY <2>2, <3>1, <3>4, <3>5
  <2> QED BY <1>9, <2>1, <2>2
<1>11. Trimmed(h, q, kept)
  BY <1>6, <1>10 DEF Trimmed
<1> QED BY <1>1, <1>2, <1>5, <1>11

\* The steps that leave the logs alone.
Stays == Aside \/ Deny \/ Offer \/ DecideFails

LEMMA LogStays ==
    ASSUME TypeOK, Stays
    PROVE  UNCHANGED <<log, latest, disordered, forgotten>> /\ wasted \subseteq wasted'
<1>1. CASE Aside
  BY <1>1, StepsAside
<1>2. CASE Deny \/ Offer
  BY <1>2 DEF Deny, Offer, Decide
<1>3. CASE DecideFails
  BY <1>3 DEF DecideFails
<1> QED BY <1>1, <1>2, <1>3 DEF Stays

\* What excuses a wrong decision is remembered; only offers are forgotten.
LEMMA NothingForgiven ==
    ASSUME TypeOK, [Next]_vars
    PROVE  /\ disordered \subseteq disordered' /\ wasted \subseteq wasted'
           /\ ~StartOver => forgotten' = forgotten
<1>1. CASE Stays
  BY <1>1, LogStays
<1>2. CASE StartOver
  BY <1>2 DEF StartOver
<1>3. ASSUME NEW q \in Quote, Handle(q)
      PROVE  disordered \subseteq disordered' /\ UNCHANGED <<wasted, forgotten>>
  BY <1>3 DEF Handle
<1> QED BY <1>1, <1>2, <1>3, Steps DEF Stays

\* Starting over leaves empty logs.
LEMMA Restarted ==
    ASSUME StartOver
    PROVE  /\ \A h \in Holder : Len(log'[h]) = 0
           /\ UNCHANGED <<mint, disordered, wasted>>
           /\ forgotten' = {q \in Quote : status[q] = "offered"}
           /\ pc' = "list"
BY DEF StartOver, EmptyLog

\* What the invariants say of a quote's holder.
LEMMA Holders == \A q \in Quote : HolderOf[q] \in Holder
BY FaucetAssumption

LEMMA LogKnownStep ==
    ASSUME IInv, [Next]_vars
    PROVE  LogKnown'
<1> SUFFICES ASSUME NEW h \in Holder, NEW i \in 1..Len(log'[h])
             PROVE  HolderOf[log'[h][i]] = h /\ status'[log'[h][i]] # "new"
  BY DEF LogKnown
<1> USE DEF IInv
<1>1. ASSUME log'[h] = log[h] PROVE HolderOf[log'[h][i]] = h /\ status'[log'[h][i]] # "new"
  BY <1>1, EntryTypes, QuotesSettle DEF LogKnown
<1>2. CASE Stays
  BY <1>1, <1>2, LogStays
<1>3. CASE StartOver
  BY <1>3, Restarted
<1>4. ASSUME NEW q \in Quote, Handle(q)
      PROVE  HolderOf[log'[h][i]] = h /\ status'[log'[h][i]] # "new"
  <2>1. CASE h # HolderOf[q]
    <3>1. log'[h] = log[h]
      BY <1>4, <2>1, OtherHolders
    <3> QED BY <1>1, <3>1
  <2>2. CASE h = HolderOf[q]
    <3>1. status'[q] # "new"
      BY <1>4 DEF Handle, mint
    <3>2. \/ log'[h][i] = q
          \/ \E j \in 1..Len(log[h]) : log'[h][i] = log[h][j]
      <4>1. PICK kept \in 1..(Len(log[h]) + 1) : Trimmed(h, q, kept)
        BY <1>4, <2>2, Handled
      <4>2. kept + i - 1 >= 1 /\ kept + i - 1 \in Int
        OBVIOUS
      <4> QED BY <4>1, <4>2 DEF Trimmed
    <3> QED BY <1>4, <2>2, <3>1, <3>2, EntryTypes, QuotesSettle DEF LogKnown
  <2> QED BY <2>1, <2>2
<1> QED BY <1>2, <1>3, <1>4, Steps DEF Stays

LEMMA LogOrderedStep ==
    ASSUME IInv, [Next]_vars
    PROVE  LogOrdered'
<1> SUFFICES ASSUME NEW h \in Holder, h \notin disordered',
                    NEW i \in 1..Len(log'[h]), NEW j \in 1..i
             PROVE  /\ submitted'[log'[h][i]] <= latest'[h]
                    /\ submitted'[log'[h][j]] <= submitted'[log'[h][i]]
  BY DEF LogOrdered
<1> USE DEF IInv
<1>1. ASSUME log'[h] = log[h], latest'[h] = latest[h], h \notin disordered
      PROVE  /\ submitted'[log'[h][i]] <= latest'[h]
             /\ submitted'[log'[h][j]] <= submitted'[log'[h][i]]
  <2>1. i \in 1..Len(log[h]) /\ j \in 1..Len(log[h])
    BY <1>1
  <2> QED BY <1>1, <2>1, EntryTypes, QuotesSettle DEF LogKnown, LogOrdered
<1>2. CASE Stays
  BY <1>1, <1>2, LogStays
<1>3. CASE StartOver
  BY <1>3, Restarted
<1>4. ASSUME NEW q \in Quote, Handle(q)
      PROVE  /\ submitted'[log'[h][i]] <= latest'[h]
             /\ submitted'[log'[h][j]] <= submitted'[log'[h][i]]
  <2>1. CASE h # HolderOf[q]
    <3>1. log'[h] = log[h] /\ latest'[h] = latest[h] /\ h \notin disordered
      BY <1>4, <2>1, OtherHolders
    <3> QED BY <1>1, <3>1
  <2>2. CASE h = HolderOf[q]
    <3>1. /\ h \notin disordered /\ latest[h] <= submitted[q] /\ latest'[h] = submitted[q]
          /\ submitted' = submitted
      BY <1>4, <2>2, Handled DEF mint
    <3>2. submitted[q] \in Nat /\ latest[h] \in Nat
      BY FaucetAssumption DEF TypeOK
    <3>0. PICK kept \in 1..(Len(log[h]) + 1) : Trimmed(h, q, kept)
      BY <1>4, <2>2, Handled
    <3>3. \A k \in 1..Len(log'[h]) :
             \/ kept + k - 1 <= Len(log[h]) /\ log'[h][k] = log[h][kept + k - 1]
             \/ kept + k - 1 = Len(log[h]) + 1 /\ log'[h][k] = q
      BY <3>0 DEF Trimmed
    <3>4. j \in 1..Len(log'[h]) /\ kept + i - 1 \in Nat \ {0} /\ kept + j - 1 \in Nat \ {0}
          /\ kept + j - 1 <= kept + i - 1
      OBVIOUS
    <3>5. ASSUME NEW k \in 1..Len(log[h])
          PROVE  submitted[log[h][k]] <= submitted[q] /\ submitted[log[h][k]] \in Nat
      BY <3>1, <3>2, <3>5, EntryTypes DEF LogOrdered
    <3>6. CASE log'[h][i] = q
      <4>1. submitted[log'[h][j]] <= submitted[q]
        <5>1. CASE log'[h][j] = q
          BY <3>2, <5>1
        <5>2. CASE kept + j - 1 <= Len(log[h]) /\ log'[h][j] = log[h][kept + j - 1]
          <6>1. kept + j - 1 \in 1..Len(log[h])
            BY <3>4, <5>2 DEF TypeOK
          <6> QED BY <3>5, <5>2, <6>1
        <5> QED BY <3>3, <3>4, <5>1, <5>2
      <4> QED BY <3>1, <3>2, <3>6, <4>1
    <3>7. CASE kept + i - 1 <= Len(log[h]) /\ log'[h][i] = log[h][kept + i - 1]
      <4>1. Len(log[h]) \in Nat
        BY DEF TypeOK
      <4>2. log'[h][j] = log[h][kept + j - 1] /\ kept + j - 1 \in 1..(kept + i - 1)
            /\ kept + i - 1 \in 1..Len(log[h])
        BY <3>3, <3>4, <3>7, <4>1
      <4> QED BY <3>1, <3>5, <3>7, <4>2 DEF LogOrdered
    <3> QED BY <3>3, <3>6, <3>7
  <2> QED BY <2>1, <2>2
<1> QED BY <1>2, <1>3, <1>4, Steps DEF Stays

LEMMA OffersLoggedStep ==
    ASSUME IInv, [Next]_vars
    PROVE  OffersLogged'
<1> SUFFICES ASSUME NEW p \in Quote, NEW h \in Holder, h = HolderOf[p],
                    status'[p] = "offered", h \notin disordered', p \notin forgotten'
             PROVE  /\ log'[h] # <<>>
                    /\ submitted'[p] <= latest'[h]
                    /\ latest'[h] - submitted'[p] <= Retention =>
                          \E i \in 1..Len(log'[h]) : log'[h][i] = p
  BY Holders DEF OffersLogged, Entries
<1> USE DEF IInv
<1>1. CASE Offer /\ p = cur
  <2>1. UNCHANGED <<log, latest, disordered, forgotten, submitted>> /\ pc = "offer"
    BY <1>1 DEF Offer, Decide
  <2>2. submitted[p] = latest[h] /\ \E i \in 1..Len(log[h]) : log[h][i] = p
    BY <1>1, <2>1 DEF CurHandled, Deciding, Entries
  <2>3. log[h] # <<>> /\ latest[h] \in Nat
    BY <2>2, FaucetAssumption DEF TypeOK
  <2> QED BY <2>1, <2>2, <2>3
<1>2. ASSUME status[p] = "offered", UNCHANGED <<log[h], latest[h]>>,
             h \notin disordered, p \notin forgotten
      PROVE  /\ log'[h] # <<>>
             /\ submitted'[p] <= latest'[h]
             /\ latest'[h] - submitted'[p] <= Retention =>
                   \E i \in 1..Len(log'[h]) : log'[h][i] = p
  BY <1>2, QuotesSettle DEF OffersLogged, Entries
<1>3. CASE status[p] = "offered" /\ Stays
  <2>1. UNCHANGED <<log[h], latest[h]>> /\ h \notin disordered /\ p \notin forgotten
    BY <1>3, LogStays
  <2> QED BY <1>2, <1>3, <2>1
<1>4. CASE StartOver
  <2>1. status[p] = "offered" /\ p \in forgotten'
    BY <1>4, Restarted DEF mint
  <2> QED BY <2>1
<1>5. ASSUME NEW q \in Quote, Handle(q), status[p] = "offered"
      PROVE  /\ log'[h] # <<>>
             /\ submitted'[p] <= latest'[h]
             /\ latest'[h] - submitted'[p] <= Retention =>
                   \E i \in 1..Len(log'[h]) : log'[h][i] = p
  <2>1. UNCHANGED <<status, submitted, forgotten>>
    BY <1>5, Handled DEF mint
  <2>2. CASE h # HolderOf[q]
    <3>1. log'[h] = log[h] /\ latest'[h] = latest[h] /\ h \notin disordered
      BY <1>5, <2>2, OtherHolders
    <3> QED BY <1>2, <1>5, <2>1, <3>1
  <2>3. CASE h = HolderOf[q]
    <3>1. h \notin disordered /\ latest[h] <= submitted[q] /\ latest'[h] = submitted[q]
      BY <1>5, <2>3, Handled
    <3>2. /\ submitted[q] \in Nat /\ latest[h] \in Nat /\ submitted[p] \in Nat
          /\ Retention \in Nat /\ MaxRequests \in Nat
      BY FaucetAssumption DEF TypeOK
    <3>3. /\ log[h] # <<>>
          /\ submitted[p] <= latest[h]
          /\ latest[h] - submitted[p] <= Retention => \E i \in 1..Len(log[h]) : log[h][i] = p
      BY <1>5, <2>1, <3>1 DEF OffersLogged, Entries
    <3>4. PICK kept \in 1..(Len(log[h]) + 1) : Trimmed(h, q, kept)
      BY <1>5, <2>3, Handled
    <3>5. log'[h] # <<>>
      <4>1. Len(log[h]) \in 1..MaxRequests
        BY <3>3 DEF TypeOK
      <4>2. Len(log'[h]) > 0
        BY <3>2, <3>4, <4>1 DEF Trimmed, Full
      <4> QED BY <4>2
    <3>6. ASSUME latest'[h] - submitted[p] <= Retention
          PROVE  \E i \in 1..Len(log'[h]) : log'[h][i] = p
      <4>1. PICK j \in 1..Len(log[h]) : log[h][j] = p
        BY <3>1, <3>2, <3>3, <3>6
      <4>2. ~Expired(log[h][j], q)
        BY <3>1, <3>2, <3>6, <4>1 DEF Expired
      <4>3. j \in kept..Len(log[h])
        BY <3>4, <4>2 DEF Trimmed
      <4>4. j - kept + 1 \in 1..Len(log'[h]) /\ log'[h][j - kept + 1] = p
        BY <3>4, <4>1, <4>3 DEF Trimmed
      <4> QED BY <4>4
    <3> QED BY <2>1, <3>1, <3>2, <3>3, <3>5, <3>6
  <2> QED BY <2>2, <2>3
<1>6. status[p] = "offered" \/ (Offer /\ p = cur)
  BY QuotesSettle
<1>7. ASSUME NEW q \in Quote, Handle(q) PROVE ~(Offer /\ p = cur)
  BY <1>7 DEF Handle, Offer, Decide
<1> QED BY <1>1, <1>3, <1>4, <1>5, <1>6, <1>7, Steps DEF Stays

LEMMA CurHandledStep ==
    ASSUME IInv, [Next]_vars
    PROVE  CurHandled'
<1> SUFFICES ASSUME pc' \in Deciding, NEW h \in Holder, h = HolderOf[cur'], cur' \in Quote
             PROVE  /\ status'[cur'] # "new"
                    /\ h \notin disordered' =>
                          /\ submitted'[cur'] = latest'[h]
                          /\ \A i \in 1..Len(log'[h]) : ~Expired(log[h][i], cur)'
                    /\ pc' = "offer" => \E i \in 1..Len(log'[h]) : log'[h][i] = cur'
                    /\ pc' = "deny" => Full(log'[h])
  <2>1. TypeOK'
    BY TypeStep DEF IInv
  <2>2. pc' \in Deciding => cur' \in Quote
    BY <2>1, FaucetAssumption DEF TypeOK
  <2> QED BY <2>2, Holders DEF CurHandled, Entries, Full
<1> USE DEF IInv
<1>1. CASE Aside
  <2>1. UNCHANGED <<pc, cur, log, latest, disordered>>
    BY <1>1, StepsAside
  <2>2. status'[cur] # "new" /\ submitted'[cur] = submitted[cur]
    BY <2>1, QuotesSettle DEF CurHandled
  <2>3. ASSUME NEW i \in 1..Len(log[h]), ~Expired(log[h][i], cur)
        PROVE  ~(submitted'[cur'] - submitted'[log'[h][i]] > Retention)
    BY <2>1, <2>2, <2>3, EntryTypes, QuotesSettle DEF LogKnown, Expired
  <2> QED BY <2>1, <2>2, <2>3 DEF CurHandled, Entries, Expired
<1>2. CASE StartOver \/ Deny \/ Offer \/ DecideFails
  <2>1. pc' \in {"list", "next"}
    BY <1>2 DEF StartOver, Deny, Offer, Decide, DecideFails
  <2> QED BY <2>1 DEF Deciding
<1>3. ASSUME NEW q \in Quote, Handle(q)
      PROVE  /\ status'[cur'] # "new"
             /\ h \notin disordered' =>
                   /\ submitted'[cur'] = latest'[h]
                   /\ \A i \in 1..Len(log'[h]) :
                         ~(submitted'[cur'] - submitted'[log'[h][i]] > Retention)
             /\ pc' = "offer" => \E i \in 1..Len(log'[h]) : log'[h][i] = cur'
             /\ pc' = "deny" => Full(log'[h])
  <2>1. cur' = q /\ UNCHANGED <<status, submitted>> /\ h = HolderOf[q] /\ status[q] = "pending"
    <3>1. cur' = q /\ UNCHANGED <<status, submitted>>
      BY <1>3, Handled DEF mint
    <3> QED BY <1>3, <3>1 DEF Handle
  <2>2. PICK kept \in 1..(Len(log[h]) + 1) : Trimmed(h, q, kept)
    BY <1>3, <2>1, Handled
  <2>3. ASSUME h \notin disordered', NEW i \in 1..Len(log'[h])
        PROVE  ~(submitted[q] - submitted[log'[h][i]] > Retention)
    <3>1. submitted[q] \in Nat /\ Retention \in Nat /\ Len(log[h]) \in Nat
      BY FaucetAssumption DEF TypeOK
    <3>2. h \notin disordered
      BY <1>3, <2>1, <2>3, Handled
    <3>3. CASE log'[h][i] = q
      BY <3>1, <3>3
    <3>4. CASE kept + i - 1 <= Len(log[h]) /\ log'[h][i] = log[h][kept + i - 1]
      <4>1. kept \in 1..Len(log[h]) /\ kept + i - 1 \in 1..Len(log[h])
            /\ kept \in 1..(kept + i - 1)
        BY <3>1, <3>4
      <4>2. submitted[log[h][kept]] <= submitted[log[h][kept + i - 1]]
        BY <3>2, <4>1 DEF LogOrdered
      <4>3. submitted[log[h][kept]] \in Nat /\ submitted[log[h][kept + i - 1]] \in Nat
        BY <4>1, EntryTypes
      <4>4. ~(submitted[q] - submitted[log[h][kept]] > Retention)
        BY <2>2, <4>1 DEF Trimmed, Expired
      <4> QED BY <3>1, <3>4, <4>2, <4>3, <4>4
    <3> QED BY <2>2, <3>3, <3>4 DEF Trimmed
  <2>4. h \notin disordered' => submitted'[cur'] = latest'[h]
    BY <1>3, <2>1, Handled
  <2>5. /\ pc' = "offer" => \E i \in 1..Len(log'[h]) : log'[h][i] = q
        /\ pc' = "deny" => Full(log'[h])
    <3>1. CASE pc' = "deny" /\ Full(log'[h])
      BY <3>1
    <3>2. CASE pc' = "offer" /\ Len(log'[h]) > 0 /\ log'[h][Len(log'[h])] = q
      <4>1. Len(log'[h]) \in 1..Len(log'[h])
        <5>1. log'[h] \in Seq(Small)
          BY TypeStep DEF TypeOK
        <5> QED BY <3>2, <5>1
      <4> QED BY <3>2, <4>1
    <3> QED BY <2>2, <3>1, <3>2 DEF Trimmed
  <2> QED BY <2>1, <2>3, <2>4, <2>5
<1> QED BY <1>1, <1>2, <1>3, Steps DEF Expired

LEMMA LogOfferedStep ==
    ASSUME IInv, [Next]_vars
    PROVE  LogOffered'
<1> SUFFICES ASSUME NEW h \in Holder, h \notin disordered' \cup wasted',
                    NEW i \in 1..Len(log'[h])
             PROVE  /\ \/ status'[log'[h][i]] = "offered"
                       \/ pc' = "offer" /\ log'[h][i] = cur'
                    /\ \A j \in 1..Len(log'[h]) : log'[h][j] = log'[h][i] => j = i
  BY DEF LogOffered
<1> USE DEF IInv
<1>1. ASSUME UNCHANGED <<log, disordered>>, wasted \subseteq wasted'
      PROVE  /\ log[h][i] \in Quote /\ HolderOf[log[h][i]] = h
             /\ status[log[h][i]] = "offered" \/ (pc = "offer" /\ log[h][i] = cur)
             /\ \A j \in 1..Len(log'[h]) : log'[h][j] = log'[h][i] => j = i
  BY <1>1, EntryTypes DEF LogOffered, LogKnown
<1>2. CASE Stays
  <2>1. UNCHANGED <<log, disordered>> /\ wasted \subseteq wasted'
    BY <1>2, LogStays
  <2>2. CASE status[log[h][i]] = "offered"
    BY <1>1, <2>1, <2>2, QuotesSettle
  <2>3. CASE pc = "offer" /\ log[h][i] = cur
    <3>1. CASE Aside
      BY <1>1, <2>1, <2>3, <3>1, StepsAside DEF Deciding
    <3>2. CASE Deny
      BY <2>3, <3>2 DEF Deny, Decide
    <3>3. CASE Offer
      <4>1. status'[cur] = "offered"
        BY <1>1, <2>1, <2>3, <3>3 DEF Offer, Decide, TypeOK
      <4> QED BY <1>1, <2>1, <2>3, <4>1
    <3>4. CASE DecideFails
      <4>1. HolderOf[cur] \in wasted'
        BY <2>3, <3>4 DEF DecideFails
      <4> QED BY <1>1, <2>1, <2>3, <4>1
    <3> QED BY <1>2, <3>1, <3>2, <3>3, <3>4 DEF Stays
  <2> QED BY <1>1, <2>1, <2>2, <2>3
<1>3. CASE StartOver
  BY <1>3, Restarted
<1>4. ASSUME NEW q \in Quote, Handle(q)
      PROVE  /\ \/ status'[log'[h][i]] = "offered"
                \/ pc' = "offer" /\ log'[h][i] = cur'
             /\ \A j \in 1..Len(log'[h]) : log'[h][j] = log'[h][i] => j = i
  <2>1. cur' = q /\ status' = status /\ wasted' = wasted
    BY <1>4, Handled DEF mint
  <2>2. pc = "next" /\ status[q] = "pending"
    BY <1>4 DEF Handle
  <2>3. CASE h # HolderOf[q]
    <3>1. log'[h] = log[h] /\ h \notin disordered
      BY <1>4, <2>3, OtherHolders
    <3> QED BY <2>1, <2>2, <3>1 DEF LogOffered
  <2>4. CASE h = HolderOf[q]
    <3>1. h \notin disordered \cup wasted
      BY <1>4, <2>1, <2>4, Handled
    <3>2. \A k \in 1..Len(log[h]) :
             /\ status[log[h][k]] = "offered"
             /\ \A l \in 1..Len(log[h]) : log[h][l] = log[h][k] => l = k
      BY <2>2, <3>1 DEF LogOffered
    <3>3. PICK kept \in 1..(Len(log[h]) + 1) : Trimmed(h, q, kept)
      BY <1>4, <2>4, Handled
    <3>4. \A k \in 1..Len(log'[h]) :
             \/ /\ kept + k - 1 \in 1..Len(log[h])
                /\ log'[h][k] = log[h][kept + k - 1]
                /\ log'[h][k] # q
             \/ kept + k - 1 = Len(log[h]) + 1 /\ pc' = "offer" /\ log'[h][k] = q
      <4>1. Len(log[h]) \in Nat
        BY DEF TypeOK
      <4>3. ASSUME NEW k \in 1..Len(log'[h])
            PROVE  \/ /\ kept + k - 1 \in 1..Len(log[h])
                      /\ log'[h][k] = log[h][kept + k - 1]
                   \/ kept + k - 1 = Len(log[h]) + 1 /\ pc' = "offer" /\ log'[h][k] = q
        <5>1. \/ kept + k - 1 <= Len(log[h]) /\ log'[h][k] = log[h][kept + k - 1]
              \/ kept + k - 1 = Len(log[h]) + 1 /\ pc' = "offer" /\ log'[h][k] = q
          BY <3>3 DEF Trimmed
        <5>2. kept + k - 1 \in Nat \ {0}
          OBVIOUS
        <5>3. kept + k - 1 <= Len(log[h]) => kept + k - 1 \in 1..Len(log[h])
          BY <4>1, <5>2
        <5> QED BY <5>1, <5>3
      <4>4. \A k \in 1..Len(log[h]) : log[h][k] # q
        BY <2>2, <3>2
      <4> QED BY <4>3, <4>4
    <3>5. ASSUME NEW j \in 1..Len(log'[h]), log'[h][j] = log'[h][i] PROVE j = i
      <4>1. kept + j - 1 = kept + i - 1
        BY <3>2, <3>4, <3>5
      <4> QED BY <4>1
    <3> QED BY <2>1, <3>2, <3>4, <3>5
  <2> QED BY <2>3, <2>4
<1> QED BY <1>2, <1>3, <1>4, Steps DEF Stays
-----------------------------------------------------------------------------
\* The offers of a retention period, as a finite set.
LEMMA OffersFinite ==
    ASSUME NEW P, P \subseteq Quote
    PROVE  IsFiniteSet(P) /\ Cardinality(P) \in Nat
BY FaucetAssumption, FS_Subset, FS_CardinalityType

\* A log counts at most as many quotes as it is long, and, if each of them
\* once, as many.
LEMMA EntriesCounted ==
    ASSUME TypeOK, NEW h \in Holder
    PROVE  /\ Cardinality(Entries(h)) <= Len(log[h])
           /\ (\A i, j \in 1..Len(log[h]) : log[h][j] = log[h][i] => j = i) =>
                 Cardinality(Entries(h)) = Len(log[h])
<1> DEFINE f == log[h]
           n == Len(log[h])
<1>1. n \in Nat /\ f \in [1..n -> Small]
  BY DEF TypeOK
<1>2. IsFiniteSet(1..n) /\ Cardinality(1..n) = n
  <2> HIDE DEF n
  <2>1. 1 \in Int /\ n \in Int
    BY <1>1
  <2>2. IsFiniteSet(1..n) /\ Cardinality(1..n) = IF 1 > n THEN 0 ELSE n - 1 + 1
    BY <2>1, FS_Interval
  <2> QED BY <1>1, <2>2
<1>3. f \in [1..n -> Entries(h)] /\ f \in Surjection(1..n, Entries(h))
  BY <1>1 DEF Entries, Surjection
<1>4. /\ Cardinality(Entries(h)) <= Cardinality(1..n)
      /\ Cardinality(Entries(h)) = Cardinality(1..n) <=> f \in Injection(1..n, Entries(h))
  BY <1>2, <1>3, FS_Surjection
<1>5. (\A i, j \in 1..n : f[j] = f[i] => j = i) => f \in Injection(1..n, Entries(h))
  <2> HIDE DEF f, n
  <2> QED BY <1>3 DEF Injection, IsInjective
<1> QED BY <1>2, <1>4, <1>5

\* Sets of quotes that include each other are as large.
LEMMA Fewer ==
    ASSUME NEW P, NEW R, P \subseteq R, R \subseteq Quote
    PROVE  Cardinality(P) <= Cardinality(R)
BY OffersFinite, FS_Subset

\* The offers that count when q is decided.
Counting(q) == {p \in Before(q) : status[p] = "offered"}

\* What counts as an offer to the holder of a quote does not change, but by an
\* offer.
LEMMA CountingSettles ==
    ASSUME TypeOK, [Next]_vars, NEW q \in Quote, status[q] # "new"
    PROVE  /\ Counting(q) \subseteq Counting(q)'
           /\ ~Offer => Counting(q)' = Counting(q)
BY QuotesSettle DEF Counting, Before

\* Those of them that the log has not lost.
Kept(q) == Counting(q) \ forgotten

LEMMA OffersBoundedStep ==
    ASSUME IInv, [Next]_vars
    PROVE  OffersBounded'
<1> SUFFICES ASSUME NEW q \in Quote, NEW h \in Holder, h = HolderOf[q],
                    status'[q] = "offered", h \notin disordered', q \notin forgotten'
             PROVE  Cardinality(Kept(q)') <= MaxRequests
  <2>1. \A q \in Quote : Kept(q) = {p \in Before(q) \ forgotten : status[p] = "offered"}
    BY DEF Kept, Counting
  <2>2. \A q \in Quote : Kept(q)' = {p \in Before(q) \ forgotten : status[p] = "offered"}'
    BY DEF Kept, Counting
  <2> QED BY <2>2, Holders DEF OffersBounded
<1>0. h \notin disordered =>
        (q \notin forgotten /\ status[q] = "offered" => Cardinality(Kept(q)) <= MaxRequests)
  <2>1. Kept(q) = {p \in Before(q) \ forgotten : status[p] = "offered"}
    BY DEF Kept, Counting
  <2> QED BY <2>1 DEF OffersBounded, IInv
<1> USE DEF IInv
<1>1. CASE Offer
  <2>1. /\ UNCHANGED <<log, latest, disordered, forgotten, submitted>> /\ pc = "offer"
        /\ cur \in Quote /\ status[cur] = "pending"
        /\ status' = [status EXCEPT ![cur] = "offered"]
    BY <1>1, FaucetAssumption DEF Offer, Decide, TypeOK, Deciding, mint, loop
  <2>2. status[q] = "offered" \/ q = cur
    BY <2>1 DEF TypeOK
  <2>3. CASE HolderOf[cur] # h
    <3>1. status[q] = "offered" /\ Kept(q)' = Kept(q)
      BY <2>1, <2>2, <2>3 DEF Kept, Counting, Before, TypeOK
    <3> QED BY <1>0, <2>1, <3>1
  <2>4. CASE HolderOf[cur] = h
    <3>1. submitted[cur] = latest[h] /\ cur \in Entries(h)
      BY <2>1, <2>4 DEF CurHandled, Deciding
    <3>2. latest[h] \in Nat /\ Retention \in Nat /\ \A p \in Quote : submitted[p] \in Nat
      BY FaucetAssumption DEF TypeOK
    <3>3. CASE submitted[q] = latest[h]
      <4>1. Kept(q)' \subseteq Entries(h)
        <5> SUFFICES ASSUME NEW p \in Quote, p # cur, HolderOf[p] = h, status[p] = "offered",
                            p \notin forgotten,
                            submitted[q] - submitted[p] \in 0..Retention
                     PROVE  p \in Entries(h)
          BY <2>1, <3>1 DEF Kept, Counting, Before, TypeOK
        <5>1. latest[h] - submitted[p] <= Retention
          BY <3>2, <3>3
        <5> QED BY <2>1, <5>1 DEF OffersLogged
      <4>2. Entries(h) \subseteq Quote /\ Len(log[h]) <= MaxRequests /\ Len(log[h]) \in Nat
        BY EntryTypes DEF Entries, TypeOK
      <4>3. Cardinality(Kept(q)') <= Cardinality(Entries(h))
        BY <4>1, <4>2, Fewer
      <4>4. Cardinality(Entries(h)) <= Len(log[h])
        BY EntriesCounted
      <4>5. Cardinality(Entries(h)) \in Nat /\ Cardinality(Kept(q)') \in Nat
        BY <4>1, <4>2, OffersFinite
      <4> QED BY <4>2, <4>3, <4>4, <4>5, FaucetAssumption
    <3>4. CASE submitted[q] # latest[h]
      <4>1. q # cur /\ status[q] = "offered" /\ submitted[q] < latest[h]
        BY <2>1, <2>2, <3>1, <3>2, <3>4 DEF OffersLogged
      <4>2. cur \notin Kept(q)'
        BY <2>1, <3>1, <3>2, <4>1 DEF Kept, Counting, Before
      <4>3. Kept(q)' \subseteq Kept(q)
        BY <2>1, <4>2 DEF Kept, Counting, Before, TypeOK
      <4>4. Kept(q)' = Kept(q)
        BY <2>1, <4>1, <4>3, CountingSettles DEF Kept
      <4> QED BY <1>0, <2>1, <4>1, <4>4
    <3> QED BY <3>3, <3>4
  <2> QED BY <2>3, <2>4
<1>2. CASE ~Offer
  <2>1. status[q] = "offered" /\ Counting(q)' = Counting(q)
    BY <1>2, QuotesSettle, CountingSettles
  <2>2. h \notin disordered
    BY NothingForgiven
  <2>3. CASE StartOver
    BY <2>1, <2>3, Restarted
  <2>4. CASE ~StartOver
    <3>1. forgotten' = forgotten
      BY <2>4, NothingForgiven
    <3>2. Kept(q)' = Kept(q)
      BY <2>1, <3>1 DEF Kept
    <3> QED BY <1>0, <2>1, <2>2, <3>1, <3>2
  <2> QED BY <2>3, <2>4
<1> QED BY <1>1, <1>2

LEMMA DenialJustifiedStep ==
    ASSUME IInv, [Next]_vars
    PROVE  DenialJustified'
<1> SUFFICES ASSUME NEW q \in Quote, NEW h \in Holder, h = HolderOf[q],
                    status'[q] = "denied", h \notin disordered' \cup wasted'
             PROVE  Cardinality(Counting(q)') >= MaxRequests
  BY Holders DEF DenialJustified, Counting
<1> USE DEF IInv
<1>1. h \notin disordered \cup wasted
  BY NothingForgiven
<1>2. Counting(q) \subseteq Quote /\ Counting(q)' \subseteq Quote
  BY DEF Counting, Before
<1>3. MaxRequests \in Nat
  BY FaucetAssumption
<1>4. CASE status[q] = "denied"
  <2>1. Cardinality(Counting(q)) >= MaxRequests
    BY <1>1, <1>4 DEF DenialJustified, Counting
  <2>2. Cardinality(Counting(q)) <= Cardinality(Counting(q)')
    BY <1>2, <1>4, CountingSettles, Fewer
  <2>3. Cardinality(Counting(q)) \in Nat /\ Cardinality(Counting(q)') \in Nat
    BY <1>2, OffersFinite
  <2> QED BY <1>3, <2>1, <2>2, <2>3
<1>5. CASE Deny /\ q = cur
  <2>1. /\ UNCHANGED <<log, latest, submitted>> /\ pc = "deny" /\ status[q] = "pending"
        /\ status' = [status EXCEPT ![q] = "denied"]
    BY <1>5 DEF Deny, Decide, mint, loop
  <2>2. /\ submitted[q] = latest[h] /\ Full(log[h])
        /\ \A i \in 1..Len(log[h]) : ~Expired(log[h][i], q)
    BY <1>1, <1>5, <2>1 DEF CurHandled, Deciding
  <2>3. ASSUME NEW i \in 1..Len(log[h]) PROVE log[h][i] \in Counting(q)'
    <3>1. /\ log[h][i] \in Quote /\ HolderOf[log[h][i]] = h /\ status[log[h][i]] = "offered"
          /\ submitted[log[h][i]] <= latest[h] /\ submitted[log[h][i]] \in Nat
      BY <1>1, <2>1, EntryTypes DEF LogKnown, LogOffered, LogOrdered
    <3>2. submitted[q] - submitted[log[h][i]] \in 0..Retention
      <4>1. submitted[q] \in Nat /\ Retention \in Nat
        BY FaucetAssumption DEF TypeOK
      <4> QED BY <2>2, <3>1, <4>1 DEF Expired
    <3>3. status'[log[h][i]] = "offered"
      BY <2>1, <3>1 DEF TypeOK
    <3> QED BY <2>1, <3>1, <3>2, <3>3 DEF Counting, Before
  <2>4. Cardinality(Entries(h)) <= Cardinality(Counting(q)')
    <3>1. Entries(h) \subseteq Counting(q)'
      BY <2>3 DEF Entries
    <3> QED BY <1>2, <3>1, Fewer
  <2>5. Cardinality(Entries(h)) = Len(log[h])
    BY <1>1, EntriesCounted DEF LogOffered
  <2>6. Len(log[h]) \in Nat /\ Len(log[h]) >= MaxRequests
    BY <2>2 DEF Full, TypeOK
  <2>7. Cardinality(Counting(q)') \in Nat
    BY <1>2, OffersFinite
  <2> QED BY <1>3, <2>4, <2>5, <2>6, <2>7
<1> QED BY <1>4, <1>5, QuotesSettle

LEMMA Inductive == IInv /\ [Next]_vars => IInv'
<1> SUFFICES ASSUME IInv, [Next]_vars PROVE IInv'
  OBVIOUS
<1>1. TypeOK'
  BY TypeStep DEF IInv
<1> QED BY <1>1, LogKnownStep, LogOrderedStep, OffersLoggedStep, CurHandledStep, LogOfferedStep,
           OffersBoundedStep, DenialJustifiedStep DEF IInv

LEMMA Initially == Init => IInv
<1> SUFFICES ASSUME Init PROVE IInv
  OBVIOUS
<1>1. \A h \in Holder : Len(log[h]) = 0
  BY DEF Init, EmptyLog
<1>2. pc = "list" /\ \A q \in Quote : status[q] = "new"
  BY DEF Init
<1>3. TypeOK
  BY InitTypes
<1>4. LogKnown /\ LogOrdered /\ LogOffered
  BY <1>1 DEF LogKnown, LogOrdered, LogOffered
<1>5. OffersLogged /\ CurHandled /\ OffersBounded /\ DenialJustified
  BY <1>2 DEF OffersLogged, CurHandled, Deciding, OffersBounded, DenialJustified
<1> QED BY <1>3, <1>4, <1>5 DEF IInv

\* No holder is made more offers in a retention period than configured, for any
\* number of quotes, holders and failed calls, and however long the loop runs
\* between two losses of its log, unless quotes are handled in another order than
\* they were submitted (main_loop, evict_expired).
THEOREM AtMostMaxRequestsOffered == Spec => []OffersBounded
<1>1. IInv => OffersBounded
  BY DEF IInv
<1> QED BY <1>1, Initially, Inductive, PTL DEF Spec

\* Nobody is denied who was not made that many offers, unless an offer that
\* failed was counted or quotes were handled in another order (main_loop).
THEOREM DenialsAreJustified == Spec => []DenialJustified
<1>1. IInv => DenialJustified
  BY DEF IInv
<1> QED BY <1>1, Initially, Inductive, PTL DEF Spec
=============================================================================
