---------------------------- MODULE PricingProofs ----------------------------
(***************************************************************************)
(* How a price is found. First the inverse solver of InverseQuote: what it *)
(* returns, for every target, pool and number of probes. Then the calls of *)
(* PartnerPricing that use such answers: which engine they may rely on,    *)
(* and what they leave in the tables, for any number of overlapping calls, *)
(* any tokens, chains, profiles and reconfigurations of the swappers.      *)
(***************************************************************************)
EXTENDS InverseQuote, PartnerPricing, TLAPS

-----------------------------------------------------------------------------
(* The inverse solver *)

\* The upper end of the interval under binary search was probed.
HighWasEnough == stage = "search" => high \in enough

\* The search returns that end.
ReturnsHigh == stage = "done" /\ source = "search" => result = high

\* As long as the pool has not moved, what was enough still is.
EnoughStays == moves = 0 => \A x \in enough : Output(x) >= target

\* In a monotone pool that has not moved, everything dropped below is too little.
DroppedTooLittle ==
    (stage = "search" \/ (stage = "done" /\ source = "search")) /\ moves = 0 /\ Monotone =>
        \A x \in floor .. low - 1 : Output(x) < target

\* A result exists only once the solver is done.
NoneBefore == stage # "done" => source = "none"

SolverInv == /\ SolverTypeOK
             /\ low <= high
             /\ NoneBefore
             /\ HighWasEnough
             /\ ReturnsHigh
             /\ ResultWasEnough
             /\ EnoughStays
             /\ DroppedTooLittle

USE MaxInputAssumption, TargetsAssumption, CurvesAssumption, LimitsAssumption

\* A quote is a natural number.
LEMMA QuoteType == ASSUME SolverTypeOK, NEW x \in Nat \ {0} PROVE Output(x) \in Nat
<1>1. curve \in [1 .. MaxInput -> Nat]
  BY DEF SolverTypeOK
<1>2. (IF x <= MaxInput THEN x ELSE MaxInput) \in 1 .. MaxInput
  OBVIOUS
<1> QED BY <1>1, <1>2 DEF Output

\* In a monotone pool more input never gives less.
LEMMA QuoteMonotone ==
    ASSUME SolverTypeOK, Monotone, NEW x \in Nat \ {0}, NEW y \in Nat \ {0}, x <= y
    PROVE  Output(x) <= Output(y)
<1> DEFINE cap(z) == IF z <= MaxInput THEN z ELSE MaxInput
<1>1. cap(x) \in 1 .. MaxInput /\ cap(y) \in 1 .. MaxInput /\ cap(x) <= cap(y)
  OBVIOUS
<1> QED BY <1>1 DEF Output, Monotone

\* The interval around a guess is not empty.
LEMMA GuessInterval ==
    ASSUME NEW g \in Int
    PROVE  /\ AtLeastOne(g \div 2) \in Nat \ {0}
           /\ AtLeastOne(g * 2) \in Nat \ {0}
           /\ AtLeastOne(g \div 2) <= AtLeastOne(g * 2)
  BY DEF AtLeastOne

\* The middle of an interval lies in it, below its upper end.
LEMMA MidBetween ==
    ASSUME SolverTypeOK, low < high
    PROVE  Mid \in Nat \ {0} /\ low <= Mid /\ Mid < high
  BY DEF SolverTypeOK, Mid, AtLeastOne

\* The solver starts with an empty history.
LEMMA SolverStarts == SolverInit => SolverInv
  BY DEF SolverInit, SolverInv, SolverTypeOK, NoneBefore, HighWasEnough, ReturnsHigh, ResultWasEnough,
         EnoughStays, DroppedTooLittle, Stages, Sources

\* Every step preserves the invariant.
LEMMA SolverKeeps == SolverInv /\ [SolverNext]_solverVars => SolverInv'
<1> SUFFICES ASSUME SolverInv, [SolverNext]_solverVars PROVE SolverInv'
  OBVIOUS
<1> USE DEF SolverInv, NoneBefore, HighWasEnough, ReturnsHigh, ResultWasEnough, Return
<1>1. ASSUME NEW x \in 1 .. MaxInput, InversePreview(x) PROVE SolverInv'
  BY <1>1 DEF InversePreview, SolverTypeOK, EnoughStays, DroppedTooLittle, Output, Monotone,
       Stages, Sources
<1>2. CASE NoInversePreview \/ AnchorUseless
  BY <1>2 DEF NoInversePreview, AnchorUseless, SolverTypeOK, EnoughStays, DroppedTooLittle,
       Output, Monotone, Stages, Sources
<1>3. CASE AnchorProbe
  <2> DEFINE q == Output(target)
  <2>1. target \in Nat \ {0} /\ q \in Nat \ {0}
    BY <1>3, QuoteType DEF AnchorProbe, SolverTypeOK
  <2>2. Guess(q) \in Int
    <3>1. target * target \in Int
      BY <2>1
    <3> QED BY <2>1, <3>1 DEF Guess
  <2>3. /\ AtLeastOne(Guess(q) \div 2) \in Nat \ {0}
        /\ AtLeastOne(Guess(q) * 2) \in Nat \ {0}
        /\ AtLeastOne(Guess(q) \div 2) <= AtLeastOne(Guess(q) * 2)
    BY <2>2, GuessInterval
  <2>4. low' \in Nat \ {0} /\ high' \in Nat \ {0} /\ low' <= high'
    BY <1>3, <2>3 DEF AnchorProbe, SolverTypeOK
  <2>5. enough' = IF q >= target THEN enough \cup {target} ELSE enough
    BY <1>3 DEF AnchorProbe, Seen
  <2>6. SolverTypeOK'
    BY <1>3, <2>1, <2>4, <2>5 DEF AnchorProbe, SolverTypeOK, Stages, Sources
  <2>7. EnoughStays'
    BY <1>3, <2>5 DEF AnchorProbe, EnoughStays, Output
  <2>8. stage' # "search" /\ (stage' = "done" => source' = "anchor" /\ result' = target /\ q = target)
    BY <1>3 DEF AnchorProbe
  <2>9. ResultWasEnough'
    BY <2>1, <2>5, <2>8
  <2>10. DroppedTooLittle' /\ HighWasEnough' /\ ReturnsHigh'
    BY <2>8 DEF DroppedTooLittle
  <2>11. NoneBefore'
    BY <1>3 DEF AnchorProbe
  <2> QED BY <2>4, <2>6, <2>7, <2>9, <2>10, <2>11
<1>4. CASE UpperBoundProbe
  <2>1. high \in Nat \ {0} /\ low \in Nat \ {0} /\ low <= high /\ target \in Nat
    BY DEF SolverTypeOK
  <2>2. enough' = IF Output(high) >= target THEN enough \cup {high} ELSE enough
    BY <1>4 DEF UpperBoundProbe, Seen
  <2>3. SolverTypeOK' /\ low' <= high'
    BY <1>4, <2>1, <2>2 DEF UpperBoundProbe, SolverTypeOK, Stages, Sources
  <2>4. EnoughStays'
    BY <1>4, <2>2 DEF UpperBoundProbe, EnoughStays, Output
  <2>5. HighWasEnough'
    BY <1>4, <2>2 DEF UpperBoundProbe
  <2>6. stage' # "done" /\ (stage' = "search" => floor' = low /\ low' = low)
    BY <1>4 DEF UpperBoundProbe
  <2>7. DroppedTooLittle'
    <3>1. \A x \in low .. low - 1 : FALSE
      BY <2>1
    <3> QED BY <2>6, <3>1 DEF DroppedTooLittle
  <2>8. NoneBefore' /\ ReturnsHigh' /\ ResultWasEnough'
    BY <1>4, <2>6 DEF UpperBoundProbe
  <2> QED BY <2>3, <2>4, <2>5, <2>7, <2>8
<1>5. CASE BinarySearchProbe
  <2>1. low < high /\ stage = "search" /\ stage' = "search"
    BY <1>5 DEF BinarySearchProbe, Searching
  <2>2. Mid \in Nat \ {0} /\ low <= Mid /\ Mid < high
    BY <2>1, MidBetween
  <2>3. enough' = IF Output(Mid) >= target THEN enough \cup {Mid} ELSE enough
    BY <1>5 DEF BinarySearchProbe, Seen
  <2>4. /\ Output(Mid) >= target => high' = Mid /\ low' = low
        /\ ~(Output(Mid) >= target) => low' = Mid + 1 /\ high' = high
    BY <1>5 DEF BinarySearchProbe, Narrow
  <2>5. low \in Nat \ {0} /\ high \in Nat \ {0} /\ target \in Nat
    BY DEF SolverTypeOK
  <2>6. SolverTypeOK' /\ low' <= high'
    <3>1. low' \in Nat \ {0} /\ high' \in Nat \ {0} /\ low' <= high'
      BY <2>2, <2>4, <2>5
    <3>2. enough' \subseteq Nat \ {0}
      BY <2>2, <2>3 DEF SolverTypeOK
    <3> QED BY <1>5, <3>1, <3>2 DEF BinarySearchProbe, SolverTypeOK
  <2>7. HighWasEnough'
    BY <2>1, <2>3, <2>4
  <2>8. EnoughStays'
    BY <1>5, <2>3 DEF BinarySearchProbe, EnoughStays, Output
  <2>9. DroppedTooLittle'
    <3> SUFFICES ASSUME moves = 0, Monotone, NEW x \in floor .. low' - 1
                 PROVE  Output(x) < target
      BY <1>5 DEF BinarySearchProbe, DroppedTooLittle, Output, Monotone
    <3>1. CASE Output(Mid) >= target
      BY <2>1, <2>4, <3>1 DEF DroppedTooLittle
    <3>2. CASE ~(Output(Mid) >= target)
      <4>1. low' = Mid + 1 /\ floor \in Nat /\ x \in Int
        BY <2>4, <3>2 DEF SolverTypeOK
      <4>2. CASE x < low
        BY <2>1, <2>5, <4>1, <4>2 DEF DroppedTooLittle
      <4>3. CASE ~(x < low)
        <5>1. x \in Nat \ {0} /\ x <= Mid
          BY <2>2, <2>5, <4>1, <4>3
        <5>2. Output(x) <= Output(Mid) /\ Output(x) \in Nat /\ Output(Mid) \in Nat
          BY <2>2, <5>1, QuoteMonotone, QuoteType
        <5> QED BY <2>5, <3>2, <5>2
      <4> QED BY <4>2, <4>3
    <3> QED BY <3>1, <3>2
  <2>10. NoneBefore' /\ ReturnsHigh' /\ ResultWasEnough'
    BY <1>5, <2>1 DEF BinarySearchProbe
  <2> QED BY <2>6, <2>7, <2>8, <2>9, <2>10
<1>6. CASE SearchEnds
  BY <1>6 DEF SearchEnds, SolverTypeOK, EnoughStays, DroppedTooLittle, Output, Monotone, Stages, Sources
<1>7. CASE NoUpperBound \/ ProbeFails
  BY <1>7 DEF NoUpperBound, ProbeFails, Searching, SolverTypeOK, EnoughStays, DroppedTooLittle,
       Output, Monotone, Stages
<1>8. CASE PoolMoves
  BY <1>8 DEF PoolMoves, SolverTypeOK, EnoughStays, DroppedTooLittle
<1>9. CASE UNCHANGED solverVars
  BY <1>9 DEF solverVars, SolverTypeOK, EnoughStays, DroppedTooLittle, Output, Monotone
<1> QED BY <1>1, <1>2, <1>3, <1>4, <1>5, <1>6, <1>7, <1>8, <1>9 DEF SolverNext, Solve

\* The inductive invariant.
THEOREM SolverInvariance == SolverSpec => []SolverInv
  BY SolverStarts, SolverKeeps, PTL DEF SolverSpec

\* Types are kept: in particular the interval never reaches 0.
THEOREM SolverTypeCorrect == SolverSpec => []SolverTypeOK
<1>1. SolverInv => SolverTypeOK
  BY DEF SolverInv
<1> QED BY SolverInvariance, <1>1, PTL

\* What the anchor or the search returns was quoted to be enough.
THEOREM SolverSound == SolverSpec => []ResultWasEnough
<1>1. SolverInv => ResultWasEnough
  BY DEF SolverInv
<1> QED BY SolverInvariance, <1>1, PTL

\* A converged search of a steady monotone pool returns the least sufficient
\* input of its interval.
THEOREM SolverLeast == SolverSpec => []LeastWhenSteady
<1>1. SolverInv => LeastWhenSteady
  BY DEF SolverInv, ReturnsHigh, ResultWasEnough, EnoughStays, DroppedTooLittle, LeastWhenSteady
<1> QED BY SolverInvariance, <1>1, PTL

\* After each probe of the search the interval is at most half as wide.
Halved ==
    /\ stage = "search" =>
           /\ iter <= MaxSearch
           /\ span < 2 ^ MaxSearch => high - low < 2 ^ (MaxSearch - iter)
    /\ SearchConverges

\* The two halves of an interval, around its middle.
LEMMA HalfInterval ==
    ASSUME NEW l \in Nat, NEW h \in Nat, l < h, NEW q \in Nat, h - l < 2 * q
    PROVE  LET m == (l + h) \div 2 IN m - l < q /\ h - (m + 1) < q
  OBVIOUS

LEMMA HalvedKeeps == ASSUME PowersDouble
                     PROVE  SolverInv /\ Halved /\ [SolverNext]_solverVars => Halved'
<1> SUFFICES ASSUME SolverInv, Halved, [SolverNext]_solverVars PROVE Halved'
  OBVIOUS
<1>t. SolverTypeOK /\ low <= high /\ NoneBefore
  BY DEF SolverInv
<1>n. /\ low \in Nat \ {0} /\ high \in Nat \ {0} /\ iter \in Nat /\ span \in Nat
  BY <1>t DEF SolverTypeOK
<1> USE DEF Halved, SearchConverges
<1>1. CASE BinarySearchProbe
  <2>1. /\ stage = "search" /\ iter < MaxSearch /\ low < high
        /\ iter' = iter + 1 /\ UNCHANGED <<stage, span, source>>
    BY <1>1 DEF BinarySearchProbe, Searching
  <2> DEFINE n == MaxSearch - iter - 1
  <2>2. n \in 0 .. MaxSearch - 1 /\ n + 1 = MaxSearch - iter /\ n = MaxSearch - iter'
    BY <2>1, <1>n
  <2>3. 2 ^ n \in Nat /\ 2 ^ (MaxSearch - iter) = 2 * 2 ^ n
    BY <2>2 DEF PowersDouble
  <2> HIDE DEF n
  <2>4. Mid = (low + high) \div 2
    BY <1>n, <2>1 DEF Mid, AtLeastOne
  <2>5. \/ high' = Mid /\ low' = low
        \/ low' = Mid + 1 /\ high' = high
    BY <1>1 DEF BinarySearchProbe, Narrow
  <2>6. high - low < 2 * 2 ^ n => high' - low' < 2 ^ n
    <3> SUFFICES ASSUME high - low < 2 * 2 ^ n PROVE high' - low' < 2 ^ n
      OBVIOUS
    <3> DEFINE q == 2 ^ n
    <3>1. q \in Nat /\ high - low < 2 * q
      BY <2>3
    <3> HIDE DEF q
    <3>2. Mid - low < q /\ high - (Mid + 1) < q
      BY <3>1, <2>1, <2>4, <1>n, HalfInterval
    <3>3. high' - low' < q
      BY <2>5, <3>2
    <3> QED BY <3>3 DEF q
  <2>7. 2 ^ (MaxSearch - iter') = 2 ^ n
    BY <2>2
  <2>8. iter' <= MaxSearch
    BY <2>1, <1>n
  <2> QED BY <2>1, <2>3, <2>6, <2>7, <2>8
<1>2. CASE SearchEnds
  <2>1. /\ stage = "search" /\ (iter >= MaxSearch \/ low >= high)
        /\ stage' = "done" /\ UNCHANGED <<low, high, span>>
    BY <1>2, <1>n DEF SearchEnds, Searching, Return
  <2>2. span < 2 ^ MaxSearch => low = high
    <3> SUFFICES ASSUME span < 2 ^ MaxSearch, iter >= MaxSearch PROVE low = high
      BY <2>1, <1>t, <1>n
    <3>1. MaxSearch - iter = 0
      BY <2>1, <1>n
    <3>2. high - low < 1
      BY <3>1, <2>1 DEF PowersDouble
    <3> QED BY <3>2, <1>t, <1>n
  <2> QED BY <2>1, <2>2
<1>3. CASE UpperBoundProbe
  <2>1. /\ UNCHANGED source /\ stage = "upper" /\ stage' # "done"
        /\ stage' = "search" => iter' = 0 /\ span' = high' - low'
    BY <1>3 DEF UpperBoundProbe
  <2>2. MaxSearch - 0 = MaxSearch /\ 0 <= MaxSearch
    OBVIOUS
  <2> QED BY <2>1, <2>2
<1>4. ASSUME NEW x \in 1 .. MaxInput, InversePreview(x) PROVE Halved'
  BY <1>4 DEF InversePreview, Return
<1>5. CASE NoInversePreview \/ AnchorProbe \/ AnchorUseless \/ NoUpperBound \/ ProbeFails
  <2>1. stage' # "search" /\ (stage' = "done" => source' # "search")
    BY <1>5 DEF NoInversePreview, AnchorProbe, AnchorUseless, NoUpperBound, ProbeFails, Return
  <2> QED BY <2>1
<1>6. CASE PoolMoves \/ UNCHANGED solverVars
  BY <1>6 DEF PoolMoves, solverVars
<1> QED BY <1>1, <1>2, <1>3, <1>4, <1>5, <1>6 DEF SolverNext, Solve

\* The binary search uses at most its MaxSearch probes to converge on an
\* interval narrower than 2^MaxSearch, however the pool moves meanwhile.
THEOREM SolverConverges == ASSUME PowersDouble PROVE SolverSpec => []SearchConverges
<1>1. SolverInit => Halved
  BY DEF SolverInit, Halved, SearchConverges
<1>2. Halved => SearchConverges
  BY DEF Halved
<1> QED BY <1>1, <1>2, HalvedKeeps, SolverInvariance, PTL DEF SolverSpec

-----------------------------------------------------------------------------
(* The calls: where they are, and what they have read *)

Quoting == {"route", "price", "anchor", "search"}

\* A payment past its first stage works on one stored profile and its wallet.
SnapInv ==
    /\ profile \in stored
    /\ \A c \in Calls : Dry(c) /\ pc[c] \in Quoting \cup {"save", "session", "answered"} =>
           snap[c] \in stored /\ wallet[c] = ResolveMerchantWallet(snap[c])

\* What is being priced is not nothing.
AmountInv ==
    \A c \in Calls : pc[c] \in Quoting =>
        IF Dry(c) THEN /\ ask[c].pricing = "invoice_currency"
                       /\ InvoiceAtomic(c) \in Nat \ {0}
                  ELSE ask[c].amount.units # 0

\* The search is for two different tokens of a leg between two chains.
LegInv ==
    \A c \in Calls : /\ pc[c] \in {"anchor", "search"} => ~SameChain(c) /\ Leg(c).in # Leg(c).out
                     /\ pc[c] = "price" => SameChain(c)
                     /\ pc[c] \in {"merchant", "session"} => Dry(c)

CallInv == TypeOK /\ SnapInv /\ AmountInv /\ LegInv

\* The input the search returns is one whose quote reaches the target.
LEMMA SearchResult == ASSUME NEW c, NEW l, NEW rd, NEW a \in Solutions(c, l, rd)
                      PROVE  /\ a \in Nat \ {0}
                             /\ Quote(c, l.chain, l.in, l.out, a, rd).amount >= l.amount
  BY PricingBoundsAssumption DEF Solutions, Enough

\* Where a leg is priced, and for how much.
LEMMA LegFacts == ASSUME CallInv, NEW c \in Calls, pc[c] \in Quoting
                  PROVE  /\ Leg(c).chain \in Chains
                         /\ Leg(c).amount # 0
                         /\ ~SameChain(c) => Leg(c).amount \in Nat \ {0}
<1>1. ask[c].chain \in Chains
  BY AsksAssumption DEF CallInv, TypeOK, RowsOK
<1>2. Dry(c) => snap[c].chain \in Chains /\ InvoiceAtomic(c) \in Nat \ {0}
  BY ProfilesAssumption DEF CallInv, TypeOK, RowsOK, SnapInv, AmountInv, Quoting
<1>3. ~Dry(c) => SameChain(c) /\ ask[c].amount.units # 0
  BY DEF SameChain, CallInv, AmountInv
<1>4. bridge[c] \in Nat
  BY DEF CallInv, TypeOK, CallsOK
<1> QED BY <1>1, <1>2, <1>3, <1>4 DEF Leg, SameChainLeg

LEMMA PoolConfigured == ASSUME TypeOK, NEW ch \in Chains
                        PROVE  /\ onchain[ch] \in ChainStates
                               /\ PoolOf(onchain[ch]) \in {PoolOf(s) : s \in ChainStates}
                               /\ PoolOf(onchain[ch]) # None
                               /\ onchain[ch].route \in {None, "direct", "hub"}
<1>1. onchain[ch] \in ChainStates
  BY DEF TypeOK, RowsOK
<1>2. PoolOf(onchain[ch]) # None
  BY <1>1, NoneAssumption DEF PoolOf
<1> QED BY <1>1, <1>2, ChainStatesAssumption

LEMMA RouteType == ASSUME TypeOK, NEW c \in Calls, NEW ch \in Chains
                   PROVE  cache[c][ch] \in CacheEntry /\ Route(c, ch) \in CacheEntry
<1> DEFINE P == {PoolOf(s) : s \in ChainStates} \cup {None}
<1>1. cache[c][ch] \in [path : {None, "direct", "hub"}, pool : P]
  BY DEF TypeOK, CacheEntry
<1>2. PoolOf(onchain[ch]) \in P /\ onchain[ch].route \in {None, "direct", "hub"}
  BY PoolConfigured
<1> HIDE DEF P
<1>3. Route(c, ch) \in [path : {None, "direct", "hub"}, pool : P]
  BY <1>1, <1>2 DEF Route
<1> QED BY <1>1, <1>3 DEF P, CacheEntry

\* Whichever reads fail, an engine knows what the cache holds, and of the rest
\* what the chain says or nothing.
LEMMA KnownParts == ASSUME TypeOK, NEW c \in Calls, NEW ch \in Chains, NEW r \in Known(c, ch)
                    PROVE  /\ r \in CacheEntry
                           /\ r.path \in {None, Route(c, ch).path}
                           /\ r.pool \in {None, Route(c, ch).pool}
                           /\ cache[c][ch].path # None => r.path = cache[c][ch].path
                           /\ cache[c][ch].pool # None => r.pool = cache[c][ch].pool
<1> DEFINE seen == cache[c][ch]
           full == Route(c, ch)
<1>1. seen \in CacheEntry /\ full \in CacheEntry
  BY RouteType
<1>2. /\ seen.path # None => full.path = seen.path
      /\ seen.pool # None => full.pool = seen.pool
  BY DEF Route
<1>3. r \in {full, [full EXCEPT !.pool = seen.pool], seen}
  BY DEF Known
<1> HIDE DEF seen, full
<1>4. /\ [full EXCEPT !.pool = seen.pool] \in CacheEntry
      /\ [full EXCEPT !.pool = seen.pool].path = full.path
      /\ [full EXCEPT !.pool = seen.pool].pool = seen.pool
  BY <1>1 DEF CacheEntry
<1>5. /\ r \in CacheEntry
      /\ r.path \in {None, full.path} /\ r.pool \in {None, full.pool}
      /\ seen.path # None => r.path = seen.path
      /\ seen.pool # None => r.pool = seen.pool
  BY <1>1, <1>2, <1>3, <1>4
<1> QED BY <1>5 DEF seen, full

LEMMA ReadingsKnown == ASSUME NEW c, NEW ch, NEW rd, rd \in Readings(c, ch)
                       PROVE  /\ rd[1] \in Known(c, ch) /\ rd[2] \in Known(c, ch)
                              /\ rd[1].path # None => rd[2].path # None
<1>1. rd \in Known(c, ch) \X Known(c, ch)
  BY DEF Readings
<1>2. rd[1].path # None => rd[2].path # None
  BY DEF Readings
<1>3. rd[1] \in Known(c, ch) /\ rd[2] \in Known(c, ch)
  BY <1>1
<1> QED BY <1>2, <1>3

\* What a call remembers of a chain is a route and a pool that the chain had.
LEMMA RememberType == ASSUME TypeOK, NEW c \in Calls, NEW ch \in Chains, NEW r \in CacheEntry
                      PROVE  Remember(c, ch, r) \in [Calls -> [Chains -> CacheEntry]]
<1> DEFINE seen == cache[c][ch]
<1>1. cache \in [Calls -> [Chains -> CacheEntry]] /\ seen \in CacheEntry
  BY RouteType DEF TypeOK
<1>2. [seen EXCEPT !.path = r.path] \in CacheEntry
  <2> HIDE DEF seen
  <2> QED BY <1>1 DEF CacheEntry
<1>3. PICK e \in CacheEntry : Remember(c, ch, r) = [cache EXCEPT ![c][ch] = e]
  BY <1>1, <1>2 DEF Remember
<1> QED BY <1>1, <1>3

LEMMA CallInit == Init => CallInv
<1> SUFFICES ASSUME Init PROVE CallInv
  OBVIOUS
<1>1. cache \in [Calls -> [Chains -> CacheEntry]]
  BY DEF Init, Unread, CacheEntry
<1>2. RowsOK /\ stored = {profile}
  BY DEF Init, RowsOK
<1>3. CallsOK
  BY DEF Init, CallsOK, Labels
<1>4. TablesOK
  BY DEF Init, TablesOK
<1>5. CountsOK
  BY PricingBoundsAssumption DEF Init, CountsOK
<1>6. TypeOK
  BY <1>1, <1>2, <1>3, <1>4, <1>5 DEF TypeOK
<1> QED BY <1>2, <1>6 DEF Init, CallInv, SnapInv, AmountInv, LegInv, Quoting

\* What the state of one call says of it.
CallAt(c) ==
    /\ Dry(c) /\ pc[c] \in Quoting \cup {"save", "session", "answered"} =>
           snap[c] \in stored /\ wallet[c] = ResolveMerchantWallet(snap[c])
    /\ pc[c] \in Quoting =>
           IF Dry(c) THEN /\ ask[c].pricing = "invoice_currency"
                          /\ InvoiceAtomic(c) \in Nat \ {0}
                     ELSE ask[c].amount.units # 0
    /\ pc[c] \in {"anchor", "search"} => ~SameChain(c) /\ Leg(c).in # Leg(c).out
    /\ pc[c] = "price" => SameChain(c)
    /\ pc[c] \in {"merchant", "session"} => Dry(c)

LEMMA CallInvParts == CallInv <=> TypeOK /\ profile \in stored /\ \A c \in Calls : CallAt(c)
  BY DEF CallInv, SnapInv, AmountInv, LegInv, CallAt

\* A call that a step does not touch.
LEMMA CallFrame == ASSUME NEW c \in Calls, UNCHANGED ask, snap'[c] = snap[c], bridge'[c] = bridge[c]
                   PROVE  /\ Dry(c)' = Dry(c)
                          /\ SameChain(c)' = SameChain(c)
                          /\ InvoiceAtomic(c)' = InvoiceAtomic(c)
                          /\ Leg(c)' = Leg(c)
<1>1. Dry(c)' = Dry(c) /\ SameChain(c)' = SameChain(c) /\ InvoiceAtomic(c)' = InvoiceAtomic(c)
  BY DEF Dry, SameChain, InvoiceAtomic
<1>2. SameChainLeg(c)' = SameChainLeg(c)
  BY <1>1 DEF SameChainLeg, InvoiceToken
<1> QED BY <1>1, <1>2 DEF Leg

\* A step of one call leaves the others where they are.
OthersStay(c) ==
    /\ UNCHANGED <<ask, onchain, profile, suspended, stored, changes>>
    /\ moved' \in {moved, moved \cup {c}}
    /\ \A d \in Calls \ {c} : /\ pc'[d] = pc[d] /\ snap'[d] = snap[d] /\ wallet'[d] = wallet[d]
                              /\ cache'[d] = cache[d] /\ bridge'[d] = bridge[d]
                              /\ price'[d] = price[d] /\ used'[d] = used[d]

\* Whatever the answer that is relied on, the call keeps the rest.
LEMMA RelyLocal == ASSUME TypeOK, NEW c \in Calls, NEW l, l.chain \in Chains,
                          NEW given, NEW answer, NEW r \in CacheEntry,
                          Rely(c, l, given, answer, r)
                   PROVE  /\ DOMAIN used' = Calls
                          /\ cache' \in [Calls -> [Chains -> CacheEntry]]
                          /\ \A d \in Calls \ {c} : cache'[d] = cache[d] /\ used'[d] = used[d]
<1>1. /\ DOMAIN used' = Calls
      /\ \A d \in Calls \ {c} : used'[d] = used[d]
  BY DEF TypeOK, CallsOK, Rely
<1>2. cache' = cache \/ cache' = Remember(c, l.chain, r)
  BY DEF Rely
<1>3. CASE cache' = cache
  BY <1>1, <1>3 DEF TypeOK
<1>4. CASE cache' = Remember(c, l.chain, r)
  <2> DEFINE ch == l.chain
  <2>1. ch \in Chains /\ cache' = Remember(c, ch, r)
    BY <1>4
  <2> HIDE DEF ch
  <2>2. \A d \in Calls \ {c} : cache'[d] = cache[d]
    BY <2>1 DEF TypeOK, Remember
  <2> QED BY <1>1, <2>1, <2>2, RememberType
<1> QED BY <1>2, <1>3, <1>4

\* What is found is the bridge amount, or the price.
LEMMA FoundLocal == ASSUME TypeOK, NEW c \in Calls, NEW amount \in Nat, NEW by, Found(c, amount, by)
                    PROVE  /\ bridge' \in [Calls -> Nat] /\ DOMAIN price' = Calls
                           /\ pc' \in [Calls -> Labels]
                           /\ \A d \in Calls \ {c} : /\ pc'[d] = pc[d] /\ bridge'[d] = bridge[d]
                                                     /\ price'[d] = price[d]
<1>1. CASE bridge[c] = 0
  BY <1>1 DEF TypeOK, CallsOK, Found, Goto, Labels
<1>2. CASE bridge[c] # 0
  BY <1>2 DEF TypeOK, CallsOK, Found, Goto, Labels
<1> QED BY <1>1, <1>2

\* Reads that fail are counted, and noted of their call.
LEMMA ReadsLocal == ASSUME TypeOK, NEW c \in Calls, NEW ch, NEW rd, Reads(c, ch, rd),
                           UNCHANGED changes
                    PROVE  CountsOK' /\ moved' \in {moved, moved \cup {c}}
<1>1. CASE UNCHANGED <<moved, faults>>
  BY <1>1 DEF TypeOK, CountsOK
<1>2. CASE Fault /\ moved' = moved \cup {c}
  BY <1>2, PricingBoundsAssumption DEF TypeOK, CountsOK, Fault
<1> QED BY <1>1, <1>2 DEF Reads

\* The steps of a call preserve the types and touch no other call.
LEMMA StepLocal == ASSUME CallInv, NEW c \in Calls, Step(c) PROVE TypeOK' /\ OthersStay(c)
<1>t. TypeOK
  BY DEF CallInv
<1>f. Fault => faults' \in 0..MaxFaults
  BY <1>t, PricingBoundsAssumption DEF TypeOK, CountsOK, Fault
<1>1. CASE StartQuote(c) \/ StartPayment(c) \/ CheckRoute(c)
  <2>1. /\ \E x \in Labels : Goto(c, x)
        /\ UNCHANGED <<onchain, rows, reads, cache, bridge, price, quotes, sessions, used,
                       moved, changes, faults>>
    BY <1>1 DEF StartQuote, StartPayment, CheckRoute, Labels
  <2> QED BY <2>1, <1>t DEF TypeOK, RowsOK, CallsOK, TablesOK, CountsOK, Goto, rows, reads,
                            OthersStay
<1>2. CASE QuoteStageFails(c)
  <2>1. CallsOK' /\ \A d \in Calls \ {c} : pc'[d] = pc[d]
    BY <1>2, <1>t DEF QuoteStageFails, TypeOK, CallsOK, Goto, reads, Labels
  <2> QED BY <1>2, <1>t, <1>f, <2>1 DEF QuoteStageFails, TypeOK, RowsOK, TablesOK, CountsOK, rows,
                                        reads, OthersStay
<1>3. CASE ReadSettlement(c)
  <2>1. \E x \in Labels : Goto(c, x)
    BY <1>3 DEF ReadSettlement, Labels
  <2>2. \E x : price' = price \/ price' = [price EXCEPT ![c] = x]
    BY <1>3 DEF ReadSettlement
  <2>3. /\ snap' = [snap EXCEPT ![c] = profile]
        /\ wallet' = [wallet EXCEPT ![c] = ResolveMerchantWallet(profile)]
        /\ UNCHANGED <<onchain, rows, cache, bridge, quotes, sessions, used, moved, changes,
                       faults>>
    BY <1>3 DEF ReadSettlement
  <2>4. CallsOK'
    BY <2>1, <2>2, <2>3, <1>t DEF TypeOK, RowsOK, CallsOK, Goto
  <2>5. TypeOK'
    BY <2>3, <2>4, <1>t DEF TypeOK, RowsOK, TablesOK, CountsOK, rows
  <2>6. \A d \in Calls \ {c} : /\ pc'[d] = pc[d] /\ snap'[d] = snap[d]
                               /\ wallet'[d] = wallet[d] /\ price'[d] = price[d]
    BY <2>1, <2>2, <2>3, <1>t DEF TypeOK, CallsOK, Goto
  <2> QED BY <2>3, <2>5, <2>6 DEF OthersStay, rows
<1>4. CASE BridgeDirect(c)
  <2>1. InvoiceAtomic(c) \in Nat
    <3>1. Dry(c) /\ pc[c] = "route"
      BY <1>4 DEF BridgeDirect, SameChain
    <3> QED BY <3>1 DEF CallInv, AmountInv, Quoting
  <2> QED BY <1>4, <1>t, <2>1 DEF BridgeDirect, TypeOK, RowsOK, CallsOK, TablesOK, CountsOK, rows,
                                  reads, OthersStay
<1>5. CASE SourceDirect(c)
  <2>1. CallsOK' /\ \A d \in Calls \ {c} : pc'[d] = pc[d] /\ price'[d] = price[d]
    BY <1>5, <1>t DEF SourceDirect, TypeOK, CallsOK, Goto, reads, Labels
  <2> QED BY <1>5, <1>t, <2>1 DEF SourceDirect, TypeOK, RowsOK, TablesOK, CountsOK, rows, reads,
                                  OthersStay
<1>6. CASE Price(c)
  <2>1. Leg(c).chain \in Chains
    BY <1>6, LegFacts DEF Price, Quoting
  <2>0. PICK rd \in Readings(c, Leg(c).chain) :
            /\ Reads(c, Leg(c).chain, rd)
            /\ \E given, answer : Rely(c, Leg(c), given, answer, rd[2])
            /\ \E x \in Labels : Goto(c, x)
            /\ \E x : price' = [price EXCEPT ![c] = x]
    BY <1>6 DEF Price, Labels
  <2>2. PICK given, answer : Rely(c, Leg(c), given, answer, rd[2])
    BY <2>0
  <2>c. rd[2] \in CacheEntry
    BY <2>1, <1>t, KnownParts, ReadingsKnown
  <2>3. /\ DOMAIN used' = Calls
        /\ cache' \in [Calls -> [Chains -> CacheEntry]]
        /\ \A d \in Calls \ {c} : cache'[d] = cache[d] /\ used'[d] = used[d]
    BY <2>1, <2>2, <2>c, <1>t, RelyLocal
  <2>5. UNCHANGED <<onchain, rows, reads, bridge, quotes, sessions, changes>>
    BY <1>6 DEF Price
  <2>6. CallsOK' /\ \A d \in Calls \ {c} : pc'[d] = pc[d] /\ price'[d] = price[d]
    BY <2>0, <2>3, <2>5, <1>t DEF TypeOK, CallsOK, Goto, reads
  <2>7. CountsOK' /\ moved' \in {moved, moved \cup {c}}
    BY <2>0, <2>5, <1>t, ReadsLocal
  <2> QED BY <1>t, <2>3, <2>5, <2>6, <2>7 DEF TypeOK, RowsOK, TablesOK, rows, reads, OthersStay
<1>7. CASE Anchor(c)
  <2>1. Leg(c).chain \in Chains /\ Leg(c).amount \in Nat
    BY <1>7, LegFacts DEF Anchor, Quoting, CallInv, LegInv
  <2>0. PICK rd \in Readings(c, Leg(c).chain) :
            /\ Reads(c, Leg(c).chain, rd)
            /\ \E given, answer : Rely(c, Leg(c), given, answer, rd[2])
            /\ \/ \E by : Found(c, Leg(c).amount, by)
               \/ Goto(c, "search") /\ UNCHANGED <<bridge, price>>
    BY <1>7 DEF Anchor
  <2>2. PICK given, answer : Rely(c, Leg(c), given, answer, rd[2])
    BY <2>0
  <2>c. rd[2] \in CacheEntry
    BY <2>1, <1>t, KnownParts, ReadingsKnown
  <2>3. /\ DOMAIN used' = Calls
        /\ cache' \in [Calls -> [Chains -> CacheEntry]]
        /\ \A d \in Calls \ {c} : cache'[d] = cache[d] /\ used'[d] = used[d]
    BY <2>1, <2>2, <2>c, <1>t, RelyLocal
  <2>5. /\ bridge' \in [Calls -> Nat] /\ DOMAIN price' = Calls
        /\ pc' \in [Calls -> Labels]
        /\ \A d \in Calls \ {c} : /\ pc'[d] = pc[d] /\ bridge'[d] = bridge[d]
                                  /\ price'[d] = price[d]
    BY <2>0, <2>1, <1>t, FoundLocal DEF TypeOK, CallsOK, Goto, Labels
  <2>6. UNCHANGED <<onchain, rows, reads, quotes, sessions, changes>>
    BY <1>7 DEF Anchor
  <2>7. CountsOK' /\ moved' \in {moved, moved \cup {c}}
    BY <2>0, <2>6, <1>t, ReadsLocal
  <2> QED BY <1>t, <2>3, <2>5, <2>6, <2>7 DEF TypeOK, RowsOK, CallsOK, TablesOK, rows, reads,
                                              OthersStay
<1>8. CASE Search(c)
  <2>1. Leg(c).chain \in Chains
    BY <1>8, LegFacts DEF Search, Quoting
  <2>2. UNCHANGED <<onchain, rows, reads, quotes, sessions, changes>>
    BY <1>8 DEF Search
  <2>3. ASSUME NEW rd \in Readings(c, Leg(c).chain), NEW a \in Solutions(c, Leg(c), rd),
               Reads(c, Leg(c).chain, rd), NEW answer, NEW by,
               Rely(c, Leg(c), a, answer, rd[2]), Found(c, a, by)
        PROVE  TypeOK' /\ OthersStay(c)
    <3>1. rd[2] \in CacheEntry /\ a \in Nat
      BY <2>1, <1>t, KnownParts, ReadingsKnown, SearchResult
    <3>2. /\ DOMAIN used' = Calls
          /\ cache' \in [Calls -> [Chains -> CacheEntry]]
          /\ \A d \in Calls \ {c} : cache'[d] = cache[d] /\ used'[d] = used[d]
      BY <2>1, <2>3, <3>1, <1>t, RelyLocal
    <3>3. /\ bridge' \in [Calls -> Nat] /\ DOMAIN price' = Calls
          /\ pc' \in [Calls -> Labels]
          /\ \A d \in Calls \ {c} : /\ pc'[d] = pc[d] /\ bridge'[d] = bridge[d]
                                    /\ price'[d] = price[d]
      BY <2>3, <3>1, <1>t, FoundLocal
    <3>4. CountsOK' /\ moved' \in {moved, moved \cup {c}}
      BY <2>2, <2>3, <1>t, ReadsLocal
    <3> QED BY <1>t, <2>2, <3>2, <3>3, <3>4 DEF TypeOK, RowsOK, CallsOK, TablesOK, rows, reads,
                                                OthersStay
  <2>4. CASE Goto(c, "failed") /\ UNCHANGED <<cache, used, bridge, price, moved, faults>>
    <3>1. pc' \in [Calls -> Labels] /\ \A d \in Calls \ {c} : pc'[d] = pc[d]
      BY <2>4, <1>t DEF TypeOK, CallsOK, Goto, Labels
    <3> QED BY <1>t, <2>2, <2>4, <3>1 DEF TypeOK, RowsOK, CallsOK, TablesOK, CountsOK, rows, reads,
                                          OthersStay
  <2> QED BY <1>8, <2>3, <2>4 DEF Search
<1>9. CASE SaveQuote(c)
  <2>1. faults' \in 0..MaxFaults
    BY <1>9, <1>t, <1>f DEF SaveQuote, TypeOK, CountsOK
  <2>2. TablesOK'
    <3>1. /\ DOMAIN QuoteRow(c) = {"call", "amount", "by", "status"}
          /\ QuoteRow(c).call = c /\ QuoteRow(c).status = "active"
      BY DEF QuoteRow
    <3>2. quotes' = quotes \/ quotes' = quotes \cup {QuoteRow(c)}
      BY <1>9 DEF SaveQuote
    <3>3. UNCHANGED sessions
      BY <1>9 DEF SaveQuote
    <3> QED BY <1>t, <3>1, <3>2, <3>3 DEF TypeOK, TablesOK
  <2>3. /\ \E x \in Labels : Goto(c, x)
        /\ UNCHANGED <<onchain, rows, reads, cache, bridge, price, used, moved, changes>>
    BY <1>9 DEF SaveQuote, Labels
  <2> QED BY <1>t, <2>1, <2>2, <2>3 DEF TypeOK, RowsOK, CallsOK, CountsOK, Goto, rows, reads,
                                        OthersStay
<1>10. CASE SessionStage(c)
  <2>1. faults' \in 0..MaxFaults
    BY <1>10, <1>t, <1>f DEF SessionStage, TypeOK, CountsOK
  <2>2. TablesOK'
    <3>1. quotes' = quotes \/ quotes' = MarkUsed(c)
      BY <1>10 DEF SessionStage
    <3>2. sessions' = sessions \/ sessions' = sessions \cup {SessionRow(c, wallet[c])}
      BY <1>10 DEF SessionStage
    <3>3. \A q \in MarkUsed(c) : /\ DOMAIN q = {"call", "amount", "by", "status"}
                                 /\ q.call \in Calls /\ q.status \in {"active", "used"}
      <4> SUFFICES ASSUME NEW q \in quotes
                   PROVE  LET m == IF q.call = c THEN [q EXCEPT !.status = "used"] ELSE q
                          IN  /\ DOMAIN m = {"call", "amount", "by", "status"}
                              /\ m.call \in Calls /\ m.status \in {"active", "used"}
        BY DEF MarkUsed
      <4> QED BY <1>t DEF TypeOK, TablesOK
    <3>4. SessionRow(c, wallet[c]).call = c
      BY DEF SessionRow
    <3> QED BY <1>t, <3>1, <3>2, <3>3, <3>4 DEF TypeOK, TablesOK
  <2>3. /\ \E x \in Labels : Goto(c, x)
        /\ UNCHANGED <<onchain, rows, reads, cache, bridge, price, used, moved, changes>>
    BY <1>10 DEF SessionStage, Labels
  <2> QED BY <1>t, <2>1, <2>2, <2>3 DEF TypeOK, RowsOK, CallsOK, CountsOK, Goto, rows, reads,
                                        OthersStay
<1> QED BY <1>1, <1>2, <1>3, <1>4, <1>5, <1>6, <1>7, <1>8, <1>9, <1>10 DEF Step

\* Where the step of a call leads, and what it keeps of the call.
LEMMA CallStep == ASSUME CallInv, NEW c \in Calls, Step(c) PROVE CallAt(c)'
<1>t. TypeOK /\ OthersStay(c) /\ CallAt(c) /\ profile \in stored
  BY StepLocal, CallInvParts
<1>p. \A x : Goto(c, x) => pc'[c] = x
  BY <1>t DEF Goto, TypeOK, CallsOK
<1>a. UNCHANGED ask /\ Dry(c)' = Dry(c) /\ UNCHANGED stored
  BY <1>t DEF OthersStay, Dry
<1>s. ASSUME snap'[c] = snap[c]
      PROVE  /\ InvoiceAtomic(c)' = InvoiceAtomic(c)
             /\ SameChain(c)' = SameChain(c)
  BY <1>a, <1>s DEF InvoiceAtomic, SameChain
<1> USE DEF Quoting
<1>1. CASE StartQuote(c)
  <2>1. pc'[c] \in {"route", "failed"} /\ ~Dry(c)
    BY <1>1, <1>p DEF StartQuote
  <2>2. pc'[c] = "route" => ask[c].amount.units # 0
    BY <1>1, <1>p DEF StartQuote
  <2> QED BY <2>1, <2>2, <1>a DEF CallAt
<1>2. CASE StartPayment(c)
  <2>1. pc'[c] \in {"merchant", "failed"} /\ Dry(c)
    BY <1>2, <1>p DEF StartPayment
  <2> QED BY <2>1, <1>a DEF CallAt
<1>3. CASE ReadSettlement(c)
  <2>1. Dry(c) /\ snap'[c] = profile /\ wallet'[c] = ResolveMerchantWallet(profile)
    BY <1>3, <1>t DEF ReadSettlement, CallAt, TypeOK, CallsOK
  <2>2. InvoiceAtomic(c)' = ConvertToSmallestUnit(ask[c].amount,
                                                  Decimals[profile.chain][profile.token])
    BY <2>1, <1>a DEF InvoiceAtomic
  <2>3. InvoiceAtomic(c)' \in Nat \cup {None}
    BY <2>2, <1>t, AmountsAssumption, ProfilesAssumption DEF TypeOK, RowsOK
  <2>4. CASE ask[c].pricing = "invoice_currency"
    <3>1. pc'[c] \in {"route", "failed"}
      BY <1>3, <2>4, <1>p DEF ReadSettlement
    <3>2. pc'[c] = "route" => InvoiceAtomic(c)' # None /\ InvoiceAtomic(c)' > 0
      BY <1>3, <2>4, <1>p, <2>2 DEF ReadSettlement
    <3>3. pc'[c] = "route" => InvoiceAtomic(c)' \in Nat \ {0}
      BY <3>2, <2>3
    <3> QED BY <3>1, <3>3, <2>1, <2>4, <1>a, <1>t DEF CallAt
  <2>5. CASE ask[c].pricing # "invoice_currency"
    <3>1. pc'[c] \in {"save", "failed"}
      BY <1>3, <2>5, <1>p DEF ReadSettlement
    <3> QED BY <3>1, <2>1, <1>a, <1>t DEF CallAt
  <2> QED BY <2>4, <2>5
<1>4. CASE BridgeDirect(c)
  <2>1. pc[c] = "route" /\ pc'[c] = "route" /\ snap'[c] = snap[c] /\ wallet'[c] = wallet[c]
    BY <1>4 DEF BridgeDirect, reads
  <2> QED BY <2>1, <1>a, <1>s, <1>t DEF CallAt
<1>5. CASE SourceDirect(c)
  <2>1. pc[c] = "route" /\ pc'[c] = "save" /\ snap'[c] = snap[c] /\ wallet'[c] = wallet[c]
    BY <1>5, <1>p DEF SourceDirect, reads
  <2> QED BY <2>1, <1>a, <1>s, <1>t DEF CallAt
<1>6. CASE CheckRoute(c)
  <2>1. /\ pc[c] = "route" /\ snap'[c] = snap[c] /\ wallet'[c] = wallet[c]
        /\ bridge'[c] = bridge[c]
    BY <1>6 DEF CheckRoute, reads
  <2>2. \/ pc'[c] = "price" /\ SameChain(c)
        \/ pc'[c] = "anchor" /\ ~SameChain(c) /\ Leg(c).in # Leg(c).out
        \/ pc'[c] = "failed"
    BY <1>6, <1>p DEF CheckRoute
  <2>3. Leg(c)' = Leg(c)
    BY <2>1, <1>a, CallFrame
  <2> QED BY <2>1, <2>2, <2>3, <1>a, <1>s, <1>t DEF CallAt
<1>7. CASE Price(c)
  <2>1. /\ pc[c] = "price" /\ pc'[c] \in {"save", "failed"}
        /\ snap'[c] = snap[c] /\ wallet'[c] = wallet[c]
    BY <1>7, <1>p DEF Price, reads
  <2> QED BY <2>1, <1>a, <1>s, <1>t DEF CallAt
<1>8. CASE Anchor(c)
  <2>1. pc[c] = "anchor" /\ snap'[c] = snap[c] /\ wallet'[c] = wallet[c]
    BY <1>8 DEF Anchor, reads
  <2>2. \/ pc'[c] \in {"route", "save"}
        \/ pc'[c] = "search" /\ bridge'[c] = bridge[c]
    BY <1>8, <1>p DEF Anchor, Found
  <2>3. bridge'[c] = bridge[c] => Leg(c)' = Leg(c)
    BY <2>1, <1>a, CallFrame
  <2> QED BY <2>1, <2>2, <2>3, <1>a, <1>s, <1>t DEF CallAt
<1>9. CASE Search(c)
  <2>1. /\ pc[c] = "search" /\ snap'[c] = snap[c] /\ wallet'[c] = wallet[c]
        /\ pc'[c] \in {"route", "save", "failed"}
    BY <1>9, <1>p DEF Search, Found, reads
  <2> QED BY <2>1, <1>a, <1>s, <1>t DEF CallAt
<1>10. CASE SaveQuote(c)
  <2>1. /\ pc[c] = "save" /\ snap'[c] = snap[c] /\ wallet'[c] = wallet[c]
        /\ \/ pc'[c] = "session" /\ Dry(c)
           \/ pc'[c] \in {"answered", "failed"}
    BY <1>10, <1>p DEF SaveQuote, reads
  <2> QED BY <2>1, <1>a, <1>s, <1>t DEF CallAt
<1>11. CASE SessionStage(c)
  <2>1. /\ pc[c] = "session" /\ snap'[c] = snap[c] /\ wallet'[c] = wallet[c]
        /\ pc'[c] \in {"answered", "failed"}
    BY <1>11, <1>p DEF SessionStage, reads
  <2> QED BY <2>1, <1>a, <1>s, <1>t DEF CallAt
<1>12. CASE QuoteStageFails(c)
  <2>1. pc'[c] = "failed"
    BY <1>12, <1>p DEF QuoteStageFails
  <2> QED BY <2>1 DEF CallAt
<1> QED BY <1>1, <1>2, <1>3, <1>4, <1>5, <1>6, <1>7, <1>8, <1>9, <1>10, <1>11, <1>12 DEF Step

\* A call keeps its place while another moves, or the merchant's rows change.
LEMMA CallKept == ASSUME NEW c \in Calls, CallAt(c), UNCHANGED ask, stored \subseteq stored',
                         pc'[c] = pc[c], snap'[c] = snap[c], wallet'[c] = wallet[c],
                         bridge'[c] = bridge[c]
                  PROVE  CallAt(c)'
<1>1. /\ Dry(c)' = Dry(c) /\ SameChain(c)' = SameChain(c)
      /\ InvoiceAtomic(c)' = InvoiceAtomic(c) /\ Leg(c)' = Leg(c)
  BY CallFrame
<1> QED BY <1>1 DEF CallAt

LEMMA CallNext == CallInv /\ [Next]_vars => CallInv'
<1> SUFFICES ASSUME CallInv, [Next]_vars PROVE CallInv'
  OBVIOUS
<1>t. TypeOK /\ profile \in stored /\ \A c \in Calls : CallAt(c)
  BY CallInvParts
<1>1. ASSUME NEW c \in Calls, Step(c) PROVE CallInv'
  <2>1. TypeOK' /\ OthersStay(c)
    BY <1>1, StepLocal
  <2>2. profile' \in stored' /\ UNCHANGED ask /\ UNCHANGED stored
    BY <2>1, <1>t DEF OthersStay
  <2>3. CallAt(c)'
    BY <1>1, CallStep
  <2>4. ASSUME NEW d \in Calls \ {c} PROVE CallAt(d)'
    BY <1>t, <2>1, <2>2, CallKept DEF OthersStay
  <2> QED BY <2>1, <2>2, <2>3, <2>4 DEF CallInv, SnapInv, AmountInv, LegInv, CallAt
<1>c. Change => changes' \in 0..MaxChanges
  BY <1>t, PricingBoundsAssumption DEF Change, TypeOK, CountsOK
<1>2. ASSUME UNCHANGED <<pc, reads, bridge, ask>>, stored \subseteq stored', profile' \in stored',
             TypeOK'
      PROVE  CallInv'
  <2>1. \A c \in Calls : CallAt(c)'
    BY <1>2, <1>t, CallKept DEF reads
  <2> QED BY <2>1, <1>2 DEF CallInv, SnapInv, AmountInv, LegInv, CallAt
<1>3. ASSUME NEW ch \in Chains, ChangeChain(ch) PROVE CallInv'
  <2>1. onchain' \in [Chains -> ChainStates] /\ moved' \subseteq Calls
    BY <1>3, <1>t DEF ChangeChain, TypeOK, RowsOK, CountsOK
  <2>2. UNCHANGED <<rows, pc, reads, cache, bridge, price, quotes, sessions, used, faults>>
    BY <1>3 DEF ChangeChain
  <2>3. TypeOK'
    BY <1>3, <1>c, <2>1, <2>2, <1>t DEF ChangeChain, TypeOK, RowsOK, CallsOK, TablesOK, CountsOK,
                                        rows, reads
  <2> QED BY <1>2, <1>t, <2>2, <2>3 DEF rows
<1>4. ASSUME NEW p \in Profiles, UpsertSettlementProfile(p) PROVE CallInv'
  <2>1. profile' = p /\ stored' = stored \cup {p}
    BY <1>4 DEF UpsertSettlementProfile
  <2>2. UNCHANGED <<ask, onchain, suspended, pc, reads, cache, bridge, price, quotes, sessions,
                    used, moved, faults>>
    BY <1>4 DEF UpsertSettlementProfile
  <2>3. TypeOK'
    BY <1>4, <1>c, <2>1, <2>2, <1>t DEF UpsertSettlementProfile, TypeOK, RowsOK, CallsOK, TablesOK,
                                        CountsOK, reads
  <2> QED BY <1>2, <1>t, <2>1, <2>2, <2>3
<1>5. CASE MerchantStatusChanges
  <2>1. TypeOK'
    BY <1>5, <1>c, <1>t DEF MerchantStatusChanges, TypeOK, RowsOK, CallsOK, TablesOK, CountsOK,
                            reads
  <2> QED BY <1>5, <1>2, <1>t, <2>1 DEF MerchantStatusChanges
<1>6. CASE UNCHANGED vars
  <2>1. TypeOK'
    BY <1>6, <1>t DEF vars, TypeOK, RowsOK, CallsOK, TablesOK, CountsOK
  <2> QED BY <1>6, <1>2, <1>t, <2>1 DEF vars, reads
<1> QED BY <1>1, <1>3, <1>4, <1>5, <1>6 DEF Next

\* Where the calls are: what a call that prices a leg has read, for how much it
\* prices it, and that a search is for two tokens.
LEMMA CallInvariance == Spec => []CallInv
  BY CallInit, CallNext, PTL DEF Spec

\* Type correctness of the calls of CreateQuote and CreatePayment.
THEOREM PricingTypeCorrect == Spec => []TypeOK
<1>1. CallInv => TypeOK
  BY DEF CallInv
<1> QED BY <1>1, CallInvariance, PTL

-----------------------------------------------------------------------------
(* The rows: sessions and quotes *)

\* Only the last stages write the tables; no other step enters or leaves them.
LEMMA RowWriters == ASSUME CallInv, NEW c \in Calls, Step(c), ~SaveQuote(c), ~SessionStage(c)
                    PROVE  /\ UNCHANGED <<quotes, sessions>>
                           /\ pc[c] \notin {"save", "session", "answered", "failed"}
                           /\ pc'[c] # "session"
<1>p. \A x : Goto(c, x) => pc'[c] = x
  BY DEF Goto, CallInv, TypeOK, CallsOK
<1>1. CASE StartQuote(c) \/ StartPayment(c) \/ QuoteStageFails(c)
  BY <1>1, <1>p DEF StartQuote, StartPayment, QuoteStageFails
<1>2. CASE ReadSettlement(c)
  BY <1>2, <1>p DEF ReadSettlement
<1>3. CASE BridgeDirect(c) \/ SourceDirect(c)
  BY <1>3, <1>p DEF BridgeDirect, SourceDirect
<1>4. CASE CheckRoute(c)
  BY <1>4, <1>p DEF CheckRoute
<1>5. CASE Price(c)
  BY <1>5, <1>p DEF Price
<1>6. CASE Anchor(c)
  BY <1>6, <1>p DEF Anchor, Found
<1>7. CASE Search(c)
  BY <1>7, <1>p DEF Search, Found
<1> QED BY <1>1, <1>2, <1>3, <1>4, <1>5, <1>6, <1>7 DEF Step

\* Nobody but a call touches what the calls have.
LEMMA OthersTouchNoCall ==
    ASSUME [Next]_vars, ~ \E c \in Calls : Step(c)
    PROVE  /\ UNCHANGED <<ask, pc, snap, wallet, cache, bridge, price, used, quotes, sessions>>
           /\ stored \subseteq stored'
  BY DEF Next, ChangeChain, UpsertSettlementProfile, MerchantStatusChanges, rows, reads, vars

LEMMA VersionStep == CallInv /\ SettlementIsOneVersion /\ [Next]_vars => SettlementIsOneVersion'
<1> SUFFICES ASSUME CallInv, SettlementIsOneVersion, [Next]_vars PROVE SettlementIsOneVersion'
  OBVIOUS
<1>1. ASSUME UNCHANGED sessions, stored \subseteq stored' PROVE SettlementIsOneVersion'
  BY <1>1 DEF SettlementIsOneVersion
<1>2. ASSUME NEW c \in Calls, Step(c) PROVE SettlementIsOneVersion'
  <2>1. UNCHANGED stored
    BY <1>2, StepLocal DEF OthersStay
  <2>2. CASE UNCHANGED sessions
    BY <2>1, <2>2, <1>1
  <2>3. CASE sessions' # sessions
    <3>1. SessionStage(c)
      BY <1>2, <2>3, RowWriters DEF SaveQuote
    <3>2. sessions' = sessions \cup {SessionRow(c, wallet[c])} /\ pc[c] = "session"
      BY <2>3, <3>1 DEF SessionStage
    <3>3. snap[c] \in stored /\ wallet[c] = ResolveMerchantWallet(snap[c])
      BY <3>2 DEF CallInv, SnapInv, LegInv
    <3> QED BY <2>1, <3>2, <3>3 DEF SettlementIsOneVersion, SessionRow
  <2> QED BY <2>2, <2>3
<1> QED BY <1>1, <1>2, OthersTouchNoCall

\* A session pays out as one version of the settlement profile said, for any
\* number of calls and of replacements of the profile.
THEOREM SettlementCorrect == Spec => []SettlementIsOneVersion
<1>1. Init => SettlementIsOneVersion
  BY DEF Init, SettlementIsOneVersion
<1> QED BY <1>1, VersionStep, CallInvariance, PTL DEF Spec

\* A row of the tables is the work of a call's last stages: one quote for each
\* call, used exactly when its session is there, and at its amount.
RowsInv ==
    /\ \A q \in quotes : pc[q.call] \in {"session", "answered", "failed"}
    /\ \A q, r \in quotes : q.call = r.call => q = r
    /\ \A q \in quotes : q.status = "used" <=> \E s \in sessions : s.call = q.call
    /\ \A s \in sessions : /\ pc[s.call] \in {"answered", "failed"}
                           /\ \E q \in quotes : q.call = s.call /\ q.amount = s.amount
    /\ \A c \in Calls : pc[c] = "session" =>
          \E q \in quotes : q.call = c /\ q.amount = price[c].amount

\* A quote is inserted for a call that had none.
LEMMA QuoteInserted == ASSUME CallInv, RowsInv, NEW c \in Calls, Step(c), SaveQuote(c)
                       PROVE  RowsInv'
<1>1. /\ QuoteRow(c).call = c /\ QuoteRow(c).amount = price[c].amount
      /\ QuoteRow(c).status = "active"
  BY DEF QuoteRow
<1>2. /\ pc[c] = "save" /\ pc'[c] \in {"session", "answered", "failed"}
      /\ UNCHANGED sessions /\ UNCHANGED price
      /\ \/ quotes' = quotes \cup {QuoteRow(c)}
         \/ quotes' = quotes /\ pc'[c] = "failed"
  BY DEF SaveQuote, Goto, CallInv, TypeOK, CallsOK
<1>3. \A d \in Calls \ {c} : pc'[d] = pc[d]
  BY StepLocal DEF OthersStay
<1>4. /\ \A q \in quotes : q.call \in Calls /\ q.call # c
      /\ \A s \in sessions : s.call \in Calls /\ s.call # c
  BY <1>2 DEF RowsInv, CallInv, TypeOK, TablesOK
<1>5. CASE quotes' = quotes /\ pc'[c] = "failed"
  BY <1>2, <1>3, <1>4, <1>5 DEF RowsInv
<1>6. CASE quotes' = quotes \cup {QuoteRow(c)}
  <2> HIDE DEF RowsInv
  <2>1. \A q \in quotes' : pc'[q.call] \in {"session", "answered", "failed"}
    BY <1>1, <1>2, <1>3, <1>4, <1>6 DEF RowsInv
  <2>2. \A q, r \in quotes' : q.call = r.call => q = r
    BY <1>1, <1>4, <1>6 DEF RowsInv
  <2>3. \A q \in quotes' : q.status = "used" <=> \E s \in sessions' : s.call = q.call
    BY <1>1, <1>2, <1>4, <1>6 DEF RowsInv
  <2>4. \A s \in sessions' : /\ pc'[s.call] \in {"answered", "failed"}
                             /\ \E q \in quotes' : q.call = s.call /\ q.amount = s.amount
    BY <1>2, <1>3, <1>4, <1>6 DEF RowsInv
  <2>5. \A d \in Calls : pc'[d] = "session" =>
          \E q \in quotes' : q.call = d /\ q.amount = price'[d].amount
    BY <1>1, <1>2, <1>3, <1>6 DEF RowsInv
  <2> QED BY <2>1, <2>2, <2>3, <2>4, <2>5 DEF RowsInv
<1> QED BY <1>2, <1>5, <1>6

\* The session and its quote are written together, or not at all.
LEMMA SessionInserted == ASSUME CallInv, RowsInv, NEW c \in Calls, Step(c), SessionStage(c)
                         PROVE  RowsInv'
<1> DEFINE m(q) == IF q.call = c THEN [q EXCEPT !.status = "used"] ELSE q
           s0 == SessionRow(c, wallet[c])
<1>1. s0.call = c /\ s0.amount = price[c].amount
  BY DEF SessionRow
<1>2. /\ pc[c] = "session" /\ pc'[c] \in {"answered", "failed"} /\ UNCHANGED price
      /\ \/ sessions' = sessions \cup {s0} /\ quotes' = {m(q) : q \in quotes}
         \/ UNCHANGED <<sessions, quotes>>
  BY DEF SessionStage, Goto, CallInv, TypeOK, CallsOK, MarkUsed
<1>3. \A d \in Calls \ {c} : pc'[d] = pc[d]
  BY StepLocal DEF OthersStay
<1>4. /\ \A q \in quotes : q.call \in Calls
      /\ \A s \in sessions : s.call \in Calls /\ s.call # c
  BY <1>2 DEF RowsInv, CallInv, TypeOK, TablesOK
<1>5. \A q \in quotes : /\ m(q).call = q.call /\ m(q).amount = q.amount
                        /\ m(q).status = IF q.call = c THEN "used" ELSE q.status
  BY DEF CallInv, TypeOK, TablesOK
<1> HIDE DEF m, s0
<1>6. CASE UNCHANGED <<sessions, quotes>>
  BY <1>2, <1>3, <1>4, <1>6 DEF RowsInv
<1>7. CASE sessions' = sessions \cup {s0} /\ quotes' = {m(q) : q \in quotes}
  <2>1. \A q \in quotes' : pc'[q.call] \in {"session", "answered", "failed"}
    BY <1>2, <1>3, <1>4, <1>5, <1>7 DEF RowsInv
  <2>2. \A q, r \in quotes' : q.call = r.call => q = r
    BY <1>5, <1>7 DEF RowsInv
  <2>3. \A q \in quotes' : q.status = "used" <=> \E s \in sessions' : s.call = q.call
    <3> SUFFICES ASSUME NEW q \in quotes
                 PROVE  m(q).status = "used" <=> \E s \in sessions \cup {s0} : s.call = m(q).call
      BY <1>7
    <3>1. CASE q.call = c
      BY <3>1, <1>1, <1>5
    <3>2. CASE q.call # c
      BY <3>2, <1>1, <1>5 DEF RowsInv
    <3> QED BY <3>1, <3>2
  <2>4. \A s \in sessions' : /\ pc'[s.call] \in {"answered", "failed"}
                             /\ \E q \in quotes' : q.call = s.call /\ q.amount = s.amount
    <3>1. \A s \in sessions' : \E q \in quotes : q.call = s.call /\ q.amount = s.amount
      BY <1>1, <1>2, <1>7 DEF RowsInv
    <3>2. \A s \in sessions' : \E q \in quotes' : q.call = s.call /\ q.amount = s.amount
      BY <3>1, <1>5, <1>7
    <3>3. \A s \in sessions' : pc'[s.call] \in {"answered", "failed"}
      BY <1>1, <1>2, <1>3, <1>4, <1>7 DEF RowsInv
    <3> QED BY <3>2, <3>3
  <2>5. \A d \in Calls : pc'[d] = "session" =>
          \E q \in quotes' : q.call = d /\ q.amount = price'[d].amount
    <3> SUFFICES ASSUME NEW d \in Calls, pc'[d] = "session"
                 PROVE  \E q \in quotes' : q.call = d /\ q.amount = price'[d].amount
      OBVIOUS
    <3>1. d # c /\ pc[d] = "session"
      BY <1>2, <1>3
    <3>2. PICK q \in quotes : q.call = d /\ q.amount = price[d].amount
      BY <3>1 DEF RowsInv
    <3> QED BY <3>2, <1>2, <1>5, <1>7
  <2> QED BY <2>1, <2>2, <2>3, <2>4, <2>5 DEF RowsInv
<1> QED BY <1>2, <1>6, <1>7

LEMMA RowsNext == CallInv /\ RowsInv /\ [Next]_vars => RowsInv'
<1> SUFFICES ASSUME CallInv, RowsInv, [Next]_vars PROVE RowsInv'
  OBVIOUS
<1>1. ASSUME NEW c \in Calls, Step(c), ~SaveQuote(c), ~SessionStage(c) PROVE RowsInv'
  <2>1. /\ UNCHANGED <<quotes, sessions>>
        /\ pc[c] \notin {"save", "session", "answered", "failed"} /\ pc'[c] # "session"
    BY <1>1, RowWriters
  <2>2. \A d \in Calls \ {c} : pc'[d] = pc[d] /\ price'[d] = price[d]
    BY <1>1, StepLocal DEF OthersStay
  <2>3. /\ \A q \in quotes : q.call \in Calls /\ q.call # c
        /\ \A s \in sessions : s.call \in Calls /\ s.call # c
    BY <2>1 DEF RowsInv, CallInv, TypeOK, TablesOK
  <2> QED BY <2>1, <2>2, <2>3 DEF RowsInv
<1>2. CASE ~ \E c \in Calls : Step(c)
  <2>1. UNCHANGED <<pc, price, quotes, sessions>>
    BY <1>2, OthersTouchNoCall
  <2> QED BY <2>1 DEF RowsInv
<1> QED BY <1>1, <1>2, QuoteInserted, SessionInserted

\* A call leaves at most one quote however it ends, its probes leave none, and
\* the quote of a payment is used exactly when its session is in the table.
THEOREM OneQuoteCorrect == Spec => []CallLeavesOneQuote
<1>1. Init => RowsInv
  BY DEF Init, RowsInv
<1>2. RowsInv => CallLeavesOneQuote
  BY DEF RowsInv, CallLeavesOneQuote
<1> QED BY <1>1, <1>2, RowsNext, CallInvariance, PTL DEF Spec

-----------------------------------------------------------------------------
(* The engines, and what a call relies on *)

\* Hop by hop there is an answer only along a route, and from a quoter.
LEMMA HopsAlongRoute == ASSUME NEW c, NEW ch, NEW in, NEW out, NEW amount,
                               NEW rd \in Readings(c, ch),
                               Quote(c, ch, in, out, amount, rd).by = "hops"
                        PROVE  rd[2].path # None /\ onchain[ch].quoter
<1> DEFINE state == onchain[ch]
<1> HIDE DEF state
<1>0. rd[1].path # None => rd[2].path # None
  BY ReadingsKnown
<1>1. ASSUME NEW r
      PROVE  GetRPCDryRunPartnerQuote(state, in, out, amount, r) > 0 => r.path # None /\ state.quoter
  <2>1. r.path = None \/ ~state.quoter =>
            GetRPCDryRunPartnerQuote(state, in, out, amount, r) = 0
    BY DEF GetRPCDryRunPartnerQuote
  <2> QED BY <2>1
<1>2. GetSimulatorBackedPartnerQuote(state, in, out, amount, rd[2]).by = "hops" =>
          rd[2].path # None /\ state.quoter
  BY <1>1, NoneAssumption DEF GetSimulatorBackedPartnerQuote, NoAnswer
<1>3. GetAccuratePartnerQuote(state, in, out, amount, rd[1]).by = "hops" =>
          rd[1].path # None /\ state.quoter
  BY NoneAssumption DEF GetAccuratePartnerQuote, NoAnswer
<1>4. CASE Dry(c)
  <2>1. Quote(c, ch, in, out, amount, rd)
            = QuoteWithDryRunPreferred(state, in, out, amount, rd[2])
    BY <1>4 DEF Quote, state
  <2>2. QuoteWithDryRunPreferred(state, in, out, amount, rd[2]).by = "hops" =>
            GetSimulatorBackedPartnerQuote(state, in, out, amount, rd[2]).by = "hops"
    BY DEF QuoteWithDryRunPreferred
  <2> QED BY <1>2, <2>1, <2>2 DEF state
<1>5. CASE ~Dry(c)
  <2>1. Quote(c, ch, in, out, amount, rd) = QuoteWithFallbacks(state, in, out, amount, rd)
    BY <1>5 DEF Quote, state
  <2>2. QuoteWithFallbacks(state, in, out, amount, rd).by = "hops" =>
            \/ GetAccuratePartnerQuote(state, in, out, amount, rd[1]).by = "hops"
            \/ GetSimulatorBackedPartnerQuote(state, in, out, amount, rd[2]).by = "hops"
    BY NoneAssumption DEF QuoteWithFallbacks, NoAnswer
  <2> QED BY <1>0, <1>2, <1>3, <2>1, <2>2 DEF state
<1> QED BY <1>4, <1>5

\* For two different tokens, an answer that is what was given is the quoter's.
LEMMA OneToOneIsHops == ASSUME NEW c, NEW ch, NEW in, NEW out, NEW given, NEW rd, in # out,
                               given # 0, Quote(c, ch, in, out, given, rd).amount = given
                        PROVE  Quote(c, ch, in, out, given, rd).by = "hops"
<1> DEFINE state == onchain[ch]
<1> HIDE DEF state
<1>1. GetSimulatorBackedPartnerQuote(state, in, out, given, rd[2]).amount = given =>
          GetSimulatorBackedPartnerQuote(state, in, out, given, rd[2]).by = "hops"
  BY DEF GetSimulatorBackedPartnerQuote, NoAnswer
<1>2. GetAccuratePartnerQuote(state, in, out, given, rd[1]).amount = given =>
          GetAccuratePartnerQuote(state, in, out, given, rd[1]).by = "hops"
  BY DEF GetAccuratePartnerQuote, NoAnswer
<1>3. CASE Dry(c)
  <2>1. Quote(c, ch, in, out, given, rd) = QuoteWithDryRunPreferred(state, in, out, given, rd[2])
    BY <1>3 DEF Quote, state
  <2>2. QuoteWithDryRunPreferred(state, in, out, given, rd[2]).amount = given =>
            QuoteWithDryRunPreferred(state, in, out, given, rd[2])
                = GetSimulatorBackedPartnerQuote(state, in, out, given, rd[2])
    BY DEF QuoteWithDryRunPreferred
  <2> QED BY <1>1, <2>1, <2>2
<1>4. CASE ~Dry(c)
  <2>1. Quote(c, ch, in, out, given, rd) = QuoteWithFallbacks(state, in, out, given, rd)
    BY <1>4 DEF Quote, state
  <2>2. QuoteWithFallbacks(state, in, out, given, rd).amount = given =>
            QuoteWithFallbacks(state, in, out, given, rd)
                = GetAccuratePartnerQuote(state, in, out, given, rd[1])
    BY DEF QuoteWithFallbacks, NoAnswer
  <2> QED BY <1>2, <2>1, <2>2
<1> QED BY <1>3, <1>4

\* What the engines say of the leg a call is pricing.
LegQuote(c, amount, rd) == Quote(c, Leg(c).chain, Leg(c).in, Leg(c).out, amount, rd)

\* A call relies only on answers for the leg it is pricing, never for nothing.
LEMMA StepRelies == ASSUME CallInv, NEW c \in Calls, Step(c)
                    PROVE  \/ UNCHANGED <<used, cache, moved>>
                           \/ /\ pc[c] \in Quoting
                              /\ \E rd \in Readings(c, Leg(c).chain) : \E given :
                                    /\ given # 0 /\ Reads(c, Leg(c).chain, rd)
                                    /\ Rely(c, Leg(c), given, LegQuote(c, given, rd), rd[2])
<1>1. CASE StartQuote(c) \/ StartPayment(c) \/ ReadSettlement(c) \/ BridgeDirect(c)
  BY <1>1 DEF StartQuote, StartPayment, ReadSettlement, BridgeDirect
<1>2. CASE SourceDirect(c) \/ CheckRoute(c) \/ QuoteStageFails(c)
  BY <1>2 DEF SourceDirect, CheckRoute, QuoteStageFails
<1>3. CASE SaveQuote(c) \/ SessionStage(c)
  BY <1>3 DEF SaveQuote, SessionStage
<1>4. pc[c] \in Quoting => Leg(c).amount # 0
  BY LegFacts
<1>5. CASE Price(c)
  BY <1>4, <1>5 DEF Price, LegQuote, Quoting
<1>6. CASE Anchor(c)
  BY <1>4, <1>6 DEF Anchor, LegQuote, Quoting
<1>7. CASE Search(c)
  <2>1. \A rd : \A a \in Solutions(c, Leg(c), rd) : a # 0
    BY SearchResult
  <2> QED BY <1>7, <2>1 DEF Search, LegQuote, Quoting
<1> QED BY <1>1, <1>2, <1>3, <1>5, <1>6, <1>7 DEF Step

\* The answer that is added to those a call has relied on.
LEMMA RelyAdds == ASSUME TypeOK, NEW c \in Calls, NEW l, NEW given, NEW answer, NEW r,
                         Rely(c, l, given, answer, r)
                  PROVE  used'[c] = used[c] \cup {[leg |-> l, given |-> given, answer |-> answer,
                                                   route |-> r]}
  BY DEF Rely, TypeOK, CallsOK

LEMMA PlaceholderStep == CallInv /\ NoPlaceholderRelied /\ [Next]_vars => NoPlaceholderRelied'
<1> SUFFICES ASSUME CallInv, NoPlaceholderRelied, [Next]_vars PROVE NoPlaceholderRelied'
  OBVIOUS
<1>1. ASSUME UNCHANGED used PROVE NoPlaceholderRelied'
  BY <1>1 DEF NoPlaceholderRelied
<1>2. ASSUME NEW c \in Calls, Step(c) PROVE NoPlaceholderRelied'
  <2>1. CASE UNCHANGED used
    BY <2>1, <1>1
  <2>2. CASE used' # used
    <3>1. PICK rd, given : given # 0 /\ Rely(c, Leg(c), given, LegQuote(c, given, rd), rd[2])
      BY <1>2, <2>2, StepRelies
    <3>2. used'[c] = used[c] \cup {[leg |-> Leg(c), given |-> given,
                                    answer |-> LegQuote(c, given, rd), route |-> rd[2]]}
      BY <3>1, RelyAdds DEF CallInv
    <3>3. Leg(c).in # Leg(c).out /\ LegQuote(c, given, rd).amount = given =>
              LegQuote(c, given, rd).by = "hops"
      BY <3>1, OneToOneIsHops DEF LegQuote
    <3>4. \A d \in Calls \ {c} : used'[d] = used[d]
      BY <1>2, StepLocal DEF OthersStay
    <3> QED BY <3>2, <3>3, <3>4 DEF NoPlaceholderRelied
  <2> QED BY <2>1, <2>2
<1> QED BY <1>1, <1>2, OthersTouchNoCall

\* A 1:1 answer for two different tokens is only ever relied on when the quoter
\* computed it hop by hop, for any tokens, chains, prices and reconfigurations.
THEOREM PlaceholderCorrect == Spec => []NoPlaceholderRelied
<1>1. Init => NoPlaceholderRelied
  BY DEF Init, NoPlaceholderRelied
<1> QED BY <1>1, PlaceholderStep, CallInvariance, PTL DEF Spec

\* The route of an answer that came hop by hop stays in the request cache, and
\* so does its pool configuration, unless it could not be read.
KeptFor(c, u) ==
    /\ u.leg.chain \in Chains
    /\ u.route.path # None
    /\ cache[c][u.leg.chain].path = u.route.path
    /\ IF u.route.pool = None THEN c \in moved ELSE cache[c][u.leg.chain].pool = u.route.pool

RouteKept == \A c \in Calls : \A u \in used[c] : u.answer.by = "hops" => KeptFor(c, u)

\* What the request cache holds stays there, whatever is remembered next.
LEMMA EntryStays ==
    ASSUME TypeOK, NEW c \in Calls, NEW ch \in Chains, NEW other \in Chains,
           NEW r \in Known(c, other)
    PROVE  /\ cache[c][ch].path # None =>
                 Remember(c, other, r)[c][ch].path = cache[c][ch].path
           /\ cache[c][ch].pool # None =>
                 Remember(c, other, r)[c][ch].pool = cache[c][ch].pool
<1> DEFINE e == cache[c][ch]
           e2 == Remember(c, other, r)[c][ch]
<1>1. e \in CacheEntry /\ cache \in [Calls -> [Chains -> CacheEntry]]
  BY DEF TypeOK
<1>2. CASE other # ch
  <2>1. e2 = e
    BY <1>1, <1>2 DEF Remember
  <2> QED BY <2>1
<1>3. CASE other = ch
  <2>1. e2 \in {e, [e EXCEPT !.path = r.path], r}
    BY <1>1, <1>3 DEF Remember
  <2>2. /\ e.path # None => r.path = e.path
        /\ e.pool # None => r.pool = e.pool
    BY <1>3, KnownParts
  <2> HIDE DEF e, e2
  <2>3. [e EXCEPT !.path = r.path].path = r.path /\ [e EXCEPT !.path = r.path].pool = e.pool
    BY <1>1 DEF CacheEntry
  <2>4. (e.path # None => e2.path = e.path) /\ (e.pool # None => e2.pool = e.pool)
    BY <2>1, <2>2, <2>3
  <2> QED BY <2>4 DEF e, e2
<1> QED BY <1>2, <1>3

LEMMA RouteKeptStep == CallInv /\ RouteKept /\ [Next]_vars => RouteKept'
<1> SUFFICES ASSUME CallInv, RouteKept, [Next]_vars PROVE RouteKept'
  OBVIOUS
<1>1. ASSUME UNCHANGED <<used, cache>>, moved \subseteq moved' PROVE RouteKept'
  BY <1>1 DEF RouteKept, KeptFor
<1>2. ASSUME NEW c \in Calls, Step(c), ~UNCHANGED <<used, cache, moved>> PROVE RouteKept'
  <2>1. pc[c] \in Quoting /\ \E rd \in Readings(c, Leg(c).chain) : \E given :
                               /\ given # 0 /\ Reads(c, Leg(c).chain, rd)
                               /\ Rely(c, Leg(c), given, LegQuote(c, given, rd), rd[2])
    BY <1>2, StepRelies
  <2>2. PICK rd \in Readings(c, Leg(c).chain) : \E given :
                               /\ given # 0 /\ Reads(c, Leg(c).chain, rd)
                               /\ Rely(c, Leg(c), given, LegQuote(c, given, rd), rd[2])
    BY <2>1
  <2>3. PICK given : /\ given # 0 /\ Reads(c, Leg(c).chain, rd)
                     /\ Rely(c, Leg(c), given, LegQuote(c, given, rd), rd[2])
    BY <2>2
  <2> DEFINE ch == Leg(c).chain
             answer == LegQuote(c, given, rd)
             rt == rd[2]
  <2>n. PICK new : new = [leg |-> Leg(c), given |-> given, answer |-> answer, route |-> rt]
    OBVIOUS
  <2>4. ch \in Chains /\ rt \in Known(c, ch)
    BY <2>1, LegFacts, ReadingsKnown
  <2>5. used'[c] = used[c] \cup {new}
    BY <2>3, <2>n, RelyAdds DEF CallInv
  <2>6. /\ cache' \in {cache, Remember(c, ch, rt)}
        /\ answer.by = "hops" => cache' = Remember(c, ch, rt)
    BY <2>3 DEF Rely
  <2>7. answer.by = "hops" => rt.path # None /\ onchain[ch].quoter
    BY HopsAlongRoute DEF LegQuote
  <2>8. TypeOK /\ OthersStay(c)
    BY <1>2, StepLocal DEF CallInv
  <2>9. rt.pool = None => c \in moved'
    <3>1. Route(c, ch).pool # None
      BY <2>4, <2>8, PoolConfigured DEF Route
    <3>2. rd = Complete(c, ch) => rt.pool = Route(c, ch).pool
      BY DEF Complete
    <3> QED BY <2>3, <3>1, <3>2 DEF Reads
  <2>10. new.leg.chain = ch /\ new.route = rt /\ new.answer = answer
    BY <2>n
  <2> HIDE DEF ch, answer, rt
  <2>11. ASSUME answer.by = "hops" PROVE cache'[c][ch] = rt
    <3>1. cache' = [cache EXCEPT ![c][ch] = rt]
      BY <2>6, <2>7, <2>11 DEF Remember
    <3> QED BY <3>1, <2>4, <2>8 DEF TypeOK
  <2>12. answer.by = "hops" => KeptFor(c, new)'
    BY <2>4, <2>7, <2>9, <2>10, <2>11 DEF KeptFor
  <2>13. moved \subseteq moved'
    BY <2>8 DEF OthersStay
  <2>14. ASSUME NEW u \in used[c], u.answer.by = "hops" PROVE KeptFor(c, u)'
    <3> DEFINE at == u.leg.chain
    <3>1. KeptFor(c, u)
      BY <2>14 DEF RouteKept
    <3>2. at \in Chains /\ cache[c][at].path = u.route.path /\ u.route.path # None
      BY <3>1 DEF KeptFor
    <3> HIDE DEF at
    <3>3. /\ cache'[c][at].path = cache[c][at].path
          /\ cache[c][at].pool # None => cache'[c][at].pool = cache[c][at].pool
      BY <3>2, <2>4, <2>6, <2>8, EntryStays
    <3> QED BY <3>1, <3>2, <3>3, <2>13 DEF KeptFor, at
  <2>15. ASSUME NEW d \in Calls \ {c}, NEW u \in used[d], KeptFor(d, u) PROVE KeptFor(d, u)'
    BY <2>8, <2>13, <2>15 DEF OthersStay, KeptFor
  <2>16. \A d \in Calls \ {c} : used'[d] = used[d]
    BY <2>8 DEF OthersStay
  <2>17. ASSUME NEW d \in Calls, NEW u \in used'[d], u.answer.by = "hops" PROVE KeptFor(d, u)'
    <3>1. CASE d = c
      BY <3>1, <2>5, <2>10, <2>12, <2>14, <2>17
    <3>2. CASE d # c
      BY <3>2, <2>15, <2>16, <2>17 DEF RouteKept
    <3> QED BY <3>1, <3>2
  <2> QED BY <2>17 DEF RouteKept
<1>3. ASSUME ~ \E c \in Calls : Step(c) PROVE moved \subseteq moved'
  BY <1>3 DEF Next, ChangeChain, UpsertSettlementProfile, MerchantStatusChanges, vars
<1> QED BY <1>1, <1>2, <1>3, OthersTouchNoCall

\* What one call prices hop by hop on a chain, it prices along one route and
\* never with two pool configurations, however often the swapper is reconfigured
\* meanwhile; a probe without a configuration is one whose read of it failed.
THEOREM OneRouteCorrect == Spec => []OneRoutePerCall
<1>1. Init => RouteKept
  BY DEF Init, RouteKept
<1>2. RouteKept => OneRoutePerCall
  <2> SUFFICES ASSUME RouteKept, NEW c \in Calls, NEW u \in used[c], NEW v \in used[c],
                      u.leg = v.leg, u.answer.by = "hops", v.answer.by = "hops"
               PROVE  /\ u.route.path = v.route.path
                      /\ u.route.pool # v.route.pool =>
                            None \in {u.route.pool, v.route.pool} /\ c \in moved
    BY DEF OneRoutePerCall
  <2>1. KeptFor(c, u) /\ KeptFor(c, v)
    BY DEF RouteKept
  <2> QED BY <2>1 DEF KeptFor
<1> QED BY <1>1, <1>2, RouteKeptStep, CallInvariance, PTL DEF Spec

-----------------------------------------------------------------------------
(* The invoice is covered *)

\* What a call has read of the chains is what they still are.
Fresh(c) ==
    \A ch \in Chains : /\ cache[c][ch].path \in {None, onchain[ch].route}
                       /\ cache[c][ch].pool \in {None, PoolOf(onchain[ch])}

\* A payment across chains whose bridge amount is found can pay its invoice
\* from it, and one that has a price can buy the bridge amount.
BridgeBuysInvoice(c) ==
    Buys(c, snap[c].chain, snap[c].bridge, snap[c].token, bridge[c]) >= InvoiceAtomic(c)

PriceBuysBridge(c) ==
    Buys(c, ask[c].chain, ask[c].token, snap[c].bridge, price[c].amount) >= bridge[c]

Priced == {"save", "session", "answered"}

\* A payment across chains that is priced, or being priced, while nothing moves
Across(c) ==
    /\ c \notin moved /\ pc[c] \in Quoting \cup Priced
    /\ Dry(c) /\ ask[c].pricing = "invoice_currency" /\ ~SameChain(c)

CoverAt(c) ==
    /\ pc[c] = "start" => \A ch \in Chains : cache[c][ch].path = None /\ cache[c][ch].pool = None
    /\ pc[c] \in {"start", "merchant"} => bridge[c] = 0
    /\ c \notin moved => Fresh(c)
    /\ Across(c) /\ pc[c] \in Quoting /\ bridge[c] # 0 => BridgeBuysInvoice(c)
    /\ Across(c) /\ pc[c] \in Priced => BridgeBuysInvoice(c) /\ PriceBuysBridge(c)

CoverInv == \A c \in Calls : CoverAt(c)

\* A call that has read what the chains still are quotes along their routes.
LEMMA FreshRoute == ASSUME TypeOK, NEW c \in Calls, NEW ch \in Chains, Fresh(c)
                    PROVE  Route(c, ch) = [path |-> onchain[ch].route,
                                           pool |-> PoolOf(onchain[ch])]
  BY DEF Fresh, Route

LEMMA FreshStays == ASSUME TypeOK, NEW c \in Calls, NEW ch \in Chains, Fresh(c),
                           UNCHANGED onchain, NEW r \in Known(c, ch), cache' = Remember(c, ch, r)
                    PROVE  Fresh(c)'
<1> DEFINE e == cache[c][ch]
<1>1. cache \in [Calls -> [Chains -> CacheEntry]] /\ e \in CacheEntry
  BY DEF TypeOK
<1>2. r.path \in {None, onchain[ch].route} /\ r.pool \in {None, PoolOf(onchain[ch])}
  BY FreshRoute, KnownParts
<1>3. /\ e.path \in {None, onchain[ch].route} /\ e.pool \in {None, PoolOf(onchain[ch])}
  BY DEF Fresh
<1>4. cache'[c][ch] \in {e, [e EXCEPT !.path = r.path], r}
  BY <1>1 DEF Remember
<1>5. \A x \in Chains \ {ch} : cache'[c][x] = cache[c][x]
  BY <1>1 DEF Remember
<1> HIDE DEF e
<1>6. [e EXCEPT !.path = r.path].path = r.path /\ [e EXCEPT !.path = r.path].pool = e.pool
  BY <1>1 DEF CacheEntry
<1>7. /\ cache'[c][ch].path \in {None, onchain[ch].route}
      /\ cache'[c][ch].pool \in {None, PoolOf(onchain[ch])}
  BY <1>2, <1>3, <1>4, <1>6
<1> QED BY <1>5, <1>7 DEF Fresh, PoolOf

\* While the chains stay as they are, so does what an amount buys.
LEMMA BuysStable == ASSUME TypeOK, NEW c \in Calls, NEW ch \in Chains, Fresh(c), Fresh(c)', TypeOK',
                           UNCHANGED <<onchain, ask>>, NEW in, NEW out, NEW amount
                    PROVE  Buys(c, ch, in, out, amount)' = Buys(c, ch, in, out, amount)
<1>1. Route(c, ch) = [path |-> onchain[ch].route, pool |-> PoolOf(onchain[ch])]
  BY FreshRoute
<1>2. Route(c, ch)' = [path |-> onchain[ch].route, pool |-> PoolOf(onchain[ch])]
  BY DEF Fresh, Route, PoolOf
<1>3. Dry(c)' = Dry(c)
  BY DEF Dry
<1> QED BY <1>1, <1>2, <1>3 DEF Buys, Quote, Complete

\* What a payment's amounts buy does not change while the chains do not.
LEMMA CoverSame ==
    ASSUME CallInv, TypeOK', NEW c \in Calls, Fresh(c), Fresh(c)', UNCHANGED <<onchain, ask>>,
           Dry(c), pc[c] \in Quoting \cup Priced, snap'[c] = snap[c]
    PROVE  /\ bridge'[c] = bridge[c] => BridgeBuysInvoice(c)' = BridgeBuysInvoice(c)
           /\ bridge'[c] = bridge[c] /\ price'[c] = price[c] =>
                  PriceBuysBridge(c)' = PriceBuysBridge(c)
<1>1. TypeOK /\ snap[c].chain \in Chains /\ ask[c].chain \in Chains
  BY AsksAssumption, ProfilesAssumption
     DEF CallInv, TypeOK, RowsOK, SnapInv, Quoting, Priced
<1>2. PICK p, a, x, y : p = snap[c] /\ a = ask[c] /\ x = bridge[c] /\ y = price[c].amount
  OBVIOUS
<1>3. /\ Buys(c, p.chain, p.bridge, p.token, x)' = Buys(c, p.chain, p.bridge, p.token, x)
      /\ Buys(c, a.chain, a.token, p.bridge, y)' = Buys(c, a.chain, a.token, p.bridge, y)
  BY <1>1, <1>2, BuysStable
<1>4. InvoiceAtomic(c)' = InvoiceAtomic(c)
  BY DEF InvoiceAtomic
<1>5. /\ BridgeBuysInvoice(c) = (Buys(c, p.chain, p.bridge, p.token, x) >= InvoiceAtomic(c))
      /\ PriceBuysBridge(c) = (Buys(c, a.chain, a.token, p.bridge, y) >= x)
  BY <1>2 DEF BridgeBuysInvoice, PriceBuysBridge
<1>6. bridge'[c] = bridge[c] =>
          BridgeBuysInvoice(c)' = (Buys(c, p.chain, p.bridge, p.token, x)' >= InvoiceAtomic(c)')
  BY <1>2 DEF BridgeBuysInvoice
<1>7. bridge'[c] = bridge[c] /\ price'[c] = price[c] =>
          PriceBuysBridge(c)' = (Buys(c, a.chain, a.token, p.bridge, y)' >= x)
  BY <1>2 DEF PriceBuysBridge
<1> QED BY <1>3, <1>4, <1>5, <1>6, <1>7

\* The amount an anchor or a search finds is enough for the leg it was found for.
LEMMA FoundCovers ==
    ASSUME CallInv, TypeOK', NEW c \in Calls, CoverAt(c), Across(c), pc[c] \in {"anchor", "search"},
           Fresh(c)', UNCHANGED <<onchain, ask>>, snap'[c] = snap[c],
           NEW amount \in Nat, NEW by, Found(c, amount, by),
           LegQuote(c, amount, Complete(c, Leg(c).chain)).amount >= Leg(c).amount
    PROVE  \/ pc'[c] = "route" /\ BridgeBuysInvoice(c)'
           \/ pc'[c] = "save" /\ BridgeBuysInvoice(c)' /\ PriceBuysBridge(c)'
<1>1. /\ Dry(c) /\ Fresh(c) /\ TypeOK /\ pc[c] \in Quoting \cup Priced
      /\ ~SameChain(c) /\ Leg(c).in # Leg(c).out
  BY DEF CallInv, CoverAt, Across, LegInv
<1>2. snap[c].chain \in Chains /\ ask[c].chain \in Chains
  BY <1>1, AsksAssumption, ProfilesAssumption
     DEF CallInv, TypeOK, RowsOK, SnapInv, Quoting, Priced
<1>3. PICK p, a : p = snap[c] /\ a = ask[c]
  OBVIOUS
<1>4. InvoiceAtomic(c)' = InvoiceAtomic(c)
  BY DEF InvoiceAtomic
<1>5. CASE bridge[c] = 0
  <2>1. bridge'[c] = amount /\ pc'[c] = "route"
    BY <1>1, <1>5 DEF Found, Goto, TypeOK, CallsOK
  <2>2. Leg(c) = [chain |-> p.chain, in |-> p.bridge, out |-> p.token,
                  amount |-> InvoiceAtomic(c)]
    BY <1>1, <1>3, <1>5 DEF Leg
  <2>3. Buys(c, p.chain, p.bridge, p.token, amount) >= InvoiceAtomic(c)
    BY <2>2, <1>1 DEF LegQuote, Buys
  <2>4. Buys(c, p.chain, p.bridge, p.token, amount)' >= InvoiceAtomic(c)
    BY <2>3, <1>1, <1>2, <1>3, BuysStable
  <2> QED BY <2>1, <2>4, <1>3, <1>4 DEF BridgeBuysInvoice
<1>6. CASE bridge[c] # 0
  <2>1. bridge'[c] = bridge[c] /\ price'[c].amount = amount /\ pc'[c] = "save"
    <3>1. /\ price' = [price EXCEPT ![c] = [amount |-> amount, by |-> by]]
          /\ pc' = [pc EXCEPT ![c] = "save"] /\ UNCHANGED bridge
      BY <1>6 DEF Found, Goto
    <3>2. c \in DOMAIN price /\ c \in DOMAIN pc
      BY <1>1 DEF TypeOK, CallsOK
    <3> QED BY <3>1, <3>2
  <2>2. Leg(c) = [chain |-> a.chain, in |-> a.token, out |-> p.bridge, amount |-> bridge[c]]
    BY <1>1, <1>3, <1>6 DEF Leg
  <2>3. Buys(c, a.chain, a.token, p.bridge, amount) >= bridge[c]
    BY <2>2, <1>1 DEF LegQuote, Buys
  <2>4. Buys(c, a.chain, a.token, p.bridge, amount)' >= bridge[c]
    BY <2>3, <1>1, <1>2, <1>3, BuysStable
  <2>5. BridgeBuysInvoice(c)
    BY <1>1, <1>6 DEF CoverAt, Across, Quoting
  <2>6. BridgeBuysInvoice(c)'
    BY <2>1, <2>5, <1>1, CoverSame
  <2> QED BY <2>1, <2>4, <2>6, <1>3 DEF PriceBuysBridge
<1> QED BY <1>5, <1>6

\* What a call has read stays fresh through its own steps.
LEMMA StepFresh == ASSUME CallInv, NEW c \in Calls, Step(c), Fresh(c) PROVE Fresh(c)'
<1>1. UNCHANGED onchain /\ TypeOK
  BY StepLocal DEF OthersStay, CallInv
<1>2. CASE UNCHANGED cache
  BY <1>1, <1>2 DEF Fresh, PoolOf
<1>3. CASE cache' # cache
  <2>1. /\ Leg(c).chain \in Chains
        /\ \E rd \in Readings(c, Leg(c).chain) : cache' = Remember(c, Leg(c).chain, rd[2])
    BY <1>3, StepRelies, LegFacts DEF Rely
  <2>2. PICK ch \in Chains : \E r \in Known(c, ch) : cache' = Remember(c, ch, r)
    BY <2>1, ReadingsKnown
  <2> QED BY <1>1, <2>2, FreshStays
<1> QED BY <1>2, <1>3

LEMMA CoverStep == ASSUME CallInv, NEW c \in Calls, CoverAt(c), Step(c) PROVE CoverAt(c)'
<1>t. TypeOK /\ TypeOK' /\ OthersStay(c) /\ UNCHANGED <<onchain, ask>> /\ moved \subseteq moved'
  BY StepLocal DEF CallInv, OthersStay
<1>p. \A x : Goto(c, x) => pc'[c] = x
  BY <1>t DEF Goto, TypeOK, CallsOK
<1>d. Dry(c)' = Dry(c)
  BY <1>t DEF Dry
<1>f. c \notin moved => Fresh(c) /\ Fresh(c)'
  BY StepFresh DEF CoverAt
<1>g. ASSUME pc'[c] # "start", pc'[c] = "merchant" => bridge'[c] = 0,
             Across(c)' /\ pc'[c] \in Quoting /\ bridge'[c] # 0 => BridgeBuysInvoice(c)',
             Across(c)' /\ pc'[c] \in Priced => BridgeBuysInvoice(c)' /\ PriceBuysBridge(c)'
      PROVE  CoverAt(c)'
  BY <1>g, <1>f, <1>t DEF CoverAt
<1>n. ASSUME pc'[c] = "failed" PROVE CoverAt(c)'
  BY <1>g, <1>n DEF Quoting, Priced
<1>b. ASSUME snap'[c] = snap[c], pc[c] \in Quoting \cup Priced, Across(c)' PROVE Across(c)
  <2>1. SameChain(c)' = SameChain(c)
    BY <1>b, <1>t DEF SameChain, Dry
  <2> QED BY <2>1, <1>b, <1>t, <1>d DEF Across
<1>1. CASE StartQuote(c)
  <2>1. ~Dry(c) /\ pc'[c] \in {"route", "failed"}
    BY <1>1, <1>p DEF StartQuote
  <2> QED BY <2>1, <1>d, <1>g DEF Across
<1>2. CASE StartPayment(c)
  <2>1. pc'[c] \in {"merchant", "failed"} /\ bridge'[c] = 0
    BY <1>2, <1>p DEF StartPayment, CoverAt
  <2> QED BY <2>1, <1>g DEF Quoting, Priced
<1>3. CASE ReadSettlement(c)
  <2>1. pc[c] = "merchant" /\ bridge'[c] = 0
    BY <1>3 DEF ReadSettlement, CoverAt
  <2>2. \/ pc'[c] \in {"route", "failed"}
        \/ pc'[c] = "save" /\ ask[c].pricing # "invoice_currency"
    BY <1>3, <1>p DEF ReadSettlement
  <2> QED BY <2>1, <2>2, <1>g, <1>t DEF Across, Quoting, Priced
<1>4. CASE BridgeDirect(c)
  <2>1. /\ pc[c] = "route" /\ pc'[c] = "route" /\ snap'[c] = snap[c] /\ Dry(c)
        /\ snap[c].token = snap[c].bridge
    BY <1>4 DEF BridgeDirect, SameChain, reads
  <2>2. bridge'[c] = InvoiceAtomic(c)
    BY <1>4, <1>t DEF BridgeDirect, TypeOK, CallsOK
  <2>3. InvoiceAtomic(c) \in Nat /\ InvoiceAtomic(c)' = InvoiceAtomic(c)
    BY <2>1, <1>t DEF InvoiceAtomic, CallInv, AmountInv, Quoting
  <2>4. BridgeBuysInvoice(c)'
    BY <2>1, <2>2, <2>3 DEF BridgeBuysInvoice, Buys
  <2> QED BY <2>1, <2>4, <1>g DEF Quoting, Priced
<1>5. CASE SourceDirect(c)
  <2>1. /\ pc[c] = "route" /\ pc'[c] = "save" /\ snap'[c] = snap[c] /\ bridge'[c] = bridge[c]
        /\ bridge[c] \in Nat /\ bridge[c] # 0 /\ ask[c].token = snap[c].bridge
    BY <1>5, <1>p, <1>t DEF SourceDirect, TypeOK, CallsOK, reads
  <2>2. price'[c].amount = bridge[c]
    BY <1>5, <1>t DEF SourceDirect, TypeOK, CallsOK
  <2>3. PriceBuysBridge(c)'
    BY <2>1, <2>2, <1>t DEF PriceBuysBridge, Buys
  <2>4. Across(c)' => BridgeBuysInvoice(c)'
    <3>1. Across(c)' => Across(c)
      BY <2>1, <1>b DEF Quoting
    <3>2. Across(c) => Dry(c) /\ c \notin moved /\ BridgeBuysInvoice(c)
      BY <2>1 DEF CoverAt, Across, Quoting
    <3> QED BY <3>1, <3>2, <2>1, <1>t, <1>f, CoverSame DEF Quoting
  <2> QED BY <2>1, <2>3, <2>4, <1>g DEF Quoting, Priced
<1>6. CASE CheckRoute(c) \/ SaveQuote(c) \/ SessionStage(c)
  <2>1. /\ snap'[c] = snap[c] /\ bridge'[c] = bridge[c] /\ price'[c] = price[c]
        /\ \/ pc'[c] = "failed"
           \/ pc[c] \in Quoting /\ pc'[c] \in Quoting
           \/ pc[c] \in Priced /\ pc'[c] \in Priced
    BY <1>6, <1>p DEF CheckRoute, SaveQuote, SessionStage, reads, Quoting, Priced
  <2>2. CASE pc'[c] = "failed"
    BY <2>2, <1>n
  <2>3. CASE pc'[c] # "failed"
    <3>1. Across(c)' => Across(c)
      BY <2>1, <2>3, <1>b
    <3>2. Across(c) => /\ Dry(c) /\ c \notin moved
                       /\ pc'[c] \in Quoting /\ bridge'[c] # 0 => BridgeBuysInvoice(c)
                       /\ pc'[c] \in Priced => BridgeBuysInvoice(c) /\ PriceBuysBridge(c)
      BY <2>1, <2>3 DEF CoverAt, Across, Quoting, Priced
    <3>3. Across(c) => /\ BridgeBuysInvoice(c)' = BridgeBuysInvoice(c)
                       /\ PriceBuysBridge(c)' = PriceBuysBridge(c)
      BY <3>2, <2>1, <2>3, <1>t, <1>f, CoverSame
    <3>4. pc'[c] \notin {"start", "merchant"}
      BY <2>1, <2>3 DEF Quoting, Priced
    <3> QED BY <3>1, <3>2, <3>3, <3>4, <1>g
  <2> QED BY <2>2, <2>3
<1>7. CASE Price(c)
  <2>1. pc[c] = "price" /\ pc'[c] \in {"save", "failed"} /\ snap'[c] = snap[c] /\ SameChain(c)
    BY <1>7, <1>p DEF Price, reads, CallInv, LegInv
  <2>2. ~Across(c)'
    BY <2>1, <1>b DEF Across, Quoting
  <2> QED BY <2>1, <2>2, <1>g
<1>8. ASSUME pc[c] \in {"anchor", "search"}, snap'[c] = snap[c],
             NEW amount \in Nat, NEW by, Found(c, amount, by),
             c \notin moved' =>
                 LegQuote(c, amount, Complete(c, Leg(c).chain)).amount >= Leg(c).amount
      PROVE  CoverAt(c)'
  <2>1. pc'[c] \in {"route", "save"}
    BY <1>8, <1>p DEF Found
  <2>2. Across(c)' => Across(c) /\ c \notin moved /\ c \notin moved'
    BY <1>8, <1>b DEF Across, Quoting
  <2>3. Across(c)' => \/ pc'[c] = "route" /\ BridgeBuysInvoice(c)'
                      \/ pc'[c] = "save" /\ BridgeBuysInvoice(c)' /\ PriceBuysBridge(c)'
    BY <2>2, <1>8, <1>t, <1>f, FoundCovers
  <2> QED BY <2>1, <2>3, <1>g DEF Quoting, Priced
<1>r. ASSUME NEW ch, NEW rd, Reads(c, ch, rd), c \notin moved' PROVE rd = Complete(c, ch)
  BY <1>r DEF Reads
<1>9. CASE Anchor(c)
  <2>1. /\ pc[c] = "anchor" /\ snap'[c] = snap[c]
        /\ Leg(c).amount \in Nat
    BY <1>9, LegFacts DEF Anchor, reads, CallInv, LegInv, Quoting
  <2>2. PICK rd : /\ Reads(c, Leg(c).chain, rd)
                  /\ IF LegQuote(c, Leg(c).amount, rd).amount = Leg(c).amount
                     THEN Found(c, Leg(c).amount, LegQuote(c, Leg(c).amount, rd).by)
                     ELSE Goto(c, "search") /\ UNCHANGED <<bridge, price>>
    BY <1>9 DEF Anchor, LegQuote
  <2>3. CASE LegQuote(c, Leg(c).amount, rd).amount = Leg(c).amount
    <3>1. \E by : Found(c, Leg(c).amount, by)
      BY <2>2, <2>3
    <3>2. c \notin moved' =>
              LegQuote(c, Leg(c).amount, Complete(c, Leg(c).chain)).amount >= Leg(c).amount
      BY <2>1, <2>2, <2>3, <1>r
    <3> QED BY <2>1, <3>1, <3>2, <1>8
  <2>4. CASE LegQuote(c, Leg(c).amount, rd).amount # Leg(c).amount
    <3>1. pc'[c] = "search" /\ bridge'[c] = bridge[c]
      BY <2>2, <2>4, <1>p
    <3>2. Across(c)' => Across(c) /\ Dry(c) /\ c \notin moved
      BY <2>1, <1>b DEF Across, Quoting
    <3>3. Across(c) /\ bridge'[c] # 0 => BridgeBuysInvoice(c)
      BY <2>1, <3>1 DEF CoverAt, Quoting
    <3>4. Across(c)' /\ bridge'[c] # 0 => BridgeBuysInvoice(c)'
      BY <2>1, <3>1, <3>2, <3>3, <1>t, <1>f, CoverSame DEF Quoting
    <3> QED BY <3>1, <3>4, <1>g DEF Quoting, Priced
  <2> QED BY <2>3, <2>4
<1>10. CASE Search(c)
  <2>1. pc[c] = "search" /\ snap'[c] = snap[c]
    BY <1>10 DEF Search, reads
  <2>2. CASE Goto(c, "failed")
    BY <2>2, <1>n, <1>p
  <2>3. ASSUME NEW rd, Reads(c, Leg(c).chain, rd), NEW a \in Solutions(c, Leg(c), rd),
               NEW by, Found(c, a, by)
        PROVE  CoverAt(c)'
    <3>1. a \in Nat /\ LegQuote(c, a, rd).amount >= Leg(c).amount
      BY SearchResult DEF LegQuote
    <3>2. c \notin moved' =>
              LegQuote(c, a, Complete(c, Leg(c).chain)).amount >= Leg(c).amount
      BY <2>3, <3>1, <1>r
    <3> QED BY <2>1, <2>3, <3>1, <3>2, <1>8
  <2> QED BY <1>10, <2>2, <2>3 DEF Search
<1>11. CASE QuoteStageFails(c)
  BY <1>11, <1>n, <1>p DEF QuoteStageFails
<1> QED BY <1>1, <1>2, <1>3, <1>4, <1>5, <1>6, <1>7, <1>9, <1>10, <1>11 DEF Step

\* A call at rest keeps its cover, unless a chain moves while it is under way.
LEMMA CoverKept ==
    ASSUME CallInv, CallInv', NEW c \in Calls, CoverAt(c), UNCHANGED ask,
           pc'[c] = pc[c], snap'[c] = snap[c], cache'[c] = cache[c], bridge'[c] = bridge[c],
           price'[c] = price[c], moved \subseteq moved',
           UNCHANGED onchain \/ c \in moved' \/ pc[c] = "start"
    PROVE  CoverAt(c)'
<1>1. CASE pc[c] = "start"
  <2>1. Fresh(c)' /\ pc'[c] \notin Quoting \cup Priced
    BY <1>1 DEF CoverAt, Fresh, Quoting, Priced
  <2> QED BY <1>1, <2>1 DEF CoverAt, Across
<1>2. CASE c \in moved'
  BY <1>2 DEF CoverAt, Across
<1>3. CASE UNCHANGED onchain /\ c \notin moved'
  <2>1. c \notin moved /\ Fresh(c) /\ Fresh(c)'
    BY <1>3 DEF CoverAt, Fresh, PoolOf
  <2>2. Dry(c)' = Dry(c) /\ SameChain(c)' = SameChain(c)
    BY DEF Dry, SameChain
  <2>3. Across(c)' = Across(c)
    BY <1>3, <2>1, <2>2 DEF Across
  <2>4. Across(c) => /\ BridgeBuysInvoice(c)' = BridgeBuysInvoice(c)
                     /\ PriceBuysBridge(c)' = PriceBuysBridge(c)
    BY <1>3, <2>1, CoverSame DEF Across, CallInv
  <2> QED BY <2>1, <2>3, <2>4 DEF CoverAt
<1> QED BY <1>1, <1>2, <1>3

LEMMA CoverNext == CallInv /\ CallInv' /\ CoverInv /\ [Next]_vars => CoverInv'
<1> SUFFICES ASSUME CallInv, CallInv', CoverInv, [Next]_vars PROVE CoverInv'
  OBVIOUS
<1>1. ASSUME NEW c \in Calls, Step(c) PROVE CoverInv'
  <2>1. CoverAt(c)'
    BY <1>1, CoverStep DEF CoverInv
  <2>2. ASSUME NEW d \in Calls \ {c} PROVE CoverAt(d)'
    <3>1. OthersStay(c) /\ CoverAt(d)
      BY <1>1, StepLocal DEF CoverInv
    <3>2. /\ UNCHANGED <<ask, onchain>> /\ moved \subseteq moved'
          /\ pc'[d] = pc[d] /\ snap'[d] = snap[d] /\ cache'[d] = cache[d]
          /\ bridge'[d] = bridge[d] /\ price'[d] = price[d]
      BY <3>1 DEF OthersStay
    <3> QED BY <3>1, <3>2, CoverKept
  <2> QED BY <2>1, <2>2 DEF CoverInv
<1>2. CASE ~ \E c \in Calls : Step(c)
  <2>1. UNCHANGED <<ask, pc, snap, cache, bridge, price>>
    BY <1>2, OthersTouchNoCall
  <2>2. /\ moved \subseteq moved'
        /\ \A c \in Calls : UNCHANGED onchain \/ c \in moved' \/ pc[c] = "start"
    BY <1>2 DEF Next, ChangeChain, UpsertSettlementProfile, MerchantStatusChanges, vars
  <2>3. ASSUME NEW c \in Calls PROVE CoverAt(c)'
    <3>1. CoverAt(c)
      BY DEF CoverInv
    <3> QED BY <2>1, <2>2, <3>1, CoverKept
  <2> QED BY <2>3 DEF CoverInv
<1> QED BY <1>1, <1>2

\* An invoice quoted across chains while no swapper moved and every read was
\* answered is paid in full: the quoted amount buys the bridge amount, which buys
\* the invoice.
THEOREM InvoiceCorrect == Spec => []InvoiceCovered
<1>1. Init => CoverInv
  BY DEF Init, CoverInv, CoverAt, Fresh, Across, Quoting, Priced, Unread
<1>2. CoverInv => InvoiceCovered
  BY DEF CoverInv, CoverAt, InvoiceCovered, Across, Priced, BridgeBuysInvoice, PriceBuysBridge
<1> QED BY <1>1, <1>2, CoverNext, CallInvariance, PTL DEF Spec

=============================================================================
