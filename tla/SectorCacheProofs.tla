------------------------- MODULE SectorCacheProofs -------------------------
(***************************************************************************)
(* Proofs about SectorCache.tla for every number of deadlines and length   *)
(* of a challenge window, every sector layout, any thresholds of the       *)
(* policy and any failed queries.                                          *)
(*                                                                         *)
(* The argument: an epoch has one place in the chain, a proving period, a  *)
(* deadline and an epoch of its window; the look-ahead counts deadlines    *)
(* from the present place and comes out at the place Lotus will report, so *)
(* the keys it marks and looks up are those of the chain.                  *)
(***************************************************************************)
EXTENDS SectorCache, WellFoundedInduction, TLAPS

\* A deadline of some proving period, as seen from some epoch.
Window(info) ==
    \E now, k \in Nat : \E m \in Deadlines :
        info = DeadlineInfo(now, k * WPoStProvingPeriod, m,
                            k * WPoStProvingPeriod + m * WPoStChallengeWindow)

Windows ==
    /\ evaluated = NONE \/ Window(evaluated)
    /\ monitor = NONE \/ Window(monitor)

KeyOpen(key) == key.period + key.deadline * WPoStChallengeWindow

\* The windows proved are those with a key.
Keyed ==
    /\ \A o \in provedOpens : \E key \in completedProofs : o = KeyOpen(key)
    /\ \A key \in completedProofs :
         /\ KeyOpen(key) \in provedOpens
         /\ \E k \in Nat : key.period = k * WPoStProvingPeriod

\* A look-ahead passes over deadlines without sectors only.
EmptyUntilOpen ==
    evaluated # NONE /\ okAt = evaluated.currentEpoch =>
        \A e \in evaluated.currentEpoch .. evaluated.open - 1 :
            LET d == ProvingDeadline(e).index
            IN  d \in DOMAIN sectorCache /\ sectorCache[d] = 0

\* After epoch t the window of another deadline opens, with sectors after none.
ComesNext(t) ==
    LET info == ProvingDeadline(t)
        following == ProvingDeadline(t + 1)
    IN  /\ t + 1 = following.open
        /\ sectorCache[info.index] = 0
        /\ following.index \in DOMAIN sectorCache
        /\ sectorCache[following.index] > 0

\* What a poll without failures has left for the epoch after it.
YieldedForNext ==
    okAt # NONE =>
        /\ okAt \in 0..epoch
        /\ ProvingDeadline(okAt).index \in DOMAIN sectorCache
        /\ HardStopThresholdSec >= EpochDuration /\ ComesNext(okAt) =>
             \/ okAt + 1 \in provedOpens
             \/ gpu = "WINDOW_POST" /\ (monitor = NONE \/ monitor.open = okAt + 1)

IInv ==
    /\ TypeOK
    /\ Windows
    /\ Keyed
    /\ ProvedWindowNotYielded
    /\ EmptyUntilOpen
    /\ YieldedForNext
-----------------------------------------------------------------------------
(* Epochs and their places in the chain.                                   *)

\* Division takes a number apart in one way only.
LEMMA Division ==
    ASSUME NEW w \in Nat \ {0}
    PROVE  /\ \A k \in Nat, r \in 0 .. w - 1 : (k * w + r) \div w = k
           /\ \A n \in Nat : n \div w \in Nat /\ n - (n \div w) * w \in 0 .. w - 1
           /\ \A k, m \in Nat, r, q \in 0 .. w - 1 : k * w + r = m * w + q => k = m /\ r = q
OBVIOUS

\* A longer factor gives a longer product.
LEMMA Monotone ==
    ASSUME NEW a \in Nat, NEW b \in Nat, NEW w \in Nat, a <= b
    PROVE  a * w <= b * w /\ a * w \in Nat
OBVIOUS

\* The numbers of the chain, and an epoch of a deadline's window in its period.
LEMMA Chain ==
    /\ WPoStPeriodDeadlines \in Nat \ {0} /\ WPoStChallengeWindow \in Nat \ {0}
    /\ WPoStProvingPeriod \in Nat \ {0}
    /\ WPoStProvingPeriod = WPoStPeriodDeadlines * WPoStChallengeWindow
    /\ Deadlines \subseteq Nat
    /\ \A m \in Deadlines, r \in 0 .. WPoStChallengeWindow - 1 :
         m * WPoStChallengeWindow + r \in 0 .. WPoStProvingPeriod - 1
<1>1. /\ WPoStPeriodDeadlines \in Nat \ {0} /\ WPoStChallengeWindow \in Nat \ {0}
      /\ WPoStProvingPeriod = WPoStPeriodDeadlines * WPoStChallengeWindow
      /\ Deadlines \subseteq Nat
  BY ChainAssumption DEF WPoStProvingPeriod, Deadlines
<1>2. WPoStProvingPeriod \in Nat \ {0}
  BY <1>1
<1>3. ASSUME NEW m \in Deadlines, NEW r \in 0 .. WPoStChallengeWindow - 1
      PROVE  m * WPoStChallengeWindow + r \in 0 .. WPoStProvingPeriod - 1
  <2>1. m + 1 <= WPoStPeriodDeadlines /\ m \in Nat
    BY <1>1 DEF Deadlines
  <2>2. (m + 1) * WPoStChallengeWindow <= WPoStProvingPeriod
    BY <1>1, <2>1, Monotone
  <2>3. (m + 1) * WPoStChallengeWindow = m * WPoStChallengeWindow + WPoStChallengeWindow
        /\ m * WPoStChallengeWindow \in Nat
    BY <1>1, <2>1
  <2> QED
    BY <1>1, <1>2, <2>2, <2>3
<1> QED
  BY <1>1, <1>2, <1>3

\* What Lotus reports for an epoch of the m-th deadline of the k-th period.
LEMMA Position ==
    ASSUME NEW k \in Nat, NEW m \in Deadlines, NEW r \in 0 .. WPoStChallengeWindow - 1,
           NEW e, e = k * WPoStProvingPeriod + m * WPoStChallengeWindow + r
    PROVE  ProvingDeadline(e) =
             DeadlineInfo(e, k * WPoStProvingPeriod, m,
                          k * WPoStProvingPeriod + m * WPoStChallengeWindow)
<1> DEFINE x == m * WPoStChallengeWindow + r
<1>1. x \in 0 .. WPoStProvingPeriod - 1 /\ m \in Nat
  BY Chain
<1>2. e = k * WPoStProvingPeriod + x /\ k * WPoStProvingPeriod \in Nat
      /\ m * WPoStChallengeWindow \in Nat /\ e \in Nat
  BY Chain, <1>1
<1> HIDE DEF x
<1>3. e \div WPoStProvingPeriod = k
  <2>1. (k * WPoStProvingPeriod + x) \div WPoStProvingPeriod = k
    BY <1>1, Chain, Division
  <2> QED
    BY <1>2, <2>1
<1>4. e - k * WPoStProvingPeriod = x
  BY <1>1, <1>2
<1>5. x \div WPoStChallengeWindow = m
  BY <1>1, Chain, Division DEF x
<1> QED
  BY <1>3, <1>4, <1>5 DEF ProvingDeadline

\* Every epoch has a place.
LEMMA Place ==
    ASSUME NEW e \in Nat
    PROVE  \E k \in Nat, m \in Deadlines, r \in 0 .. WPoStChallengeWindow - 1 :
             e = k * WPoStProvingPeriod + m * WPoStChallengeWindow + r
<1> DEFINE k == e \div WPoStProvingPeriod
           x == e - k * WPoStProvingPeriod
           m == x \div WPoStChallengeWindow
           r == x - m * WPoStChallengeWindow
<1>1. k \in Nat /\ x \in 0 .. WPoStProvingPeriod - 1
  BY Chain, Division
<1>2. x \in Nat
  BY <1>1, Chain
<1> HIDE DEF x
<1>3. m \in Nat /\ r \in 0 .. WPoStChallengeWindow - 1
  BY <1>2, Chain, Division
<1>4. m < WPoStPeriodDeadlines
  <2>1. ASSUME WPoStPeriodDeadlines <= m PROVE FALSE
    <3> HIDE DEF m
    <3>1. WPoStProvingPeriod <= m * WPoStChallengeWindow /\ m * WPoStChallengeWindow \in Nat
      BY <1>3, <2>1, Chain, Monotone
    <3> QED
      BY <1>1, <1>3, <3>1, Chain
  <2> HIDE DEF m
  <2> QED
    BY <1>3, <2>1, Chain
<1>5. m \in Deadlines
  <2> HIDE DEF m
  <2> QED
    BY <1>3, <1>4, Chain DEF Deadlines
<1>6. e = k * WPoStProvingPeriod + x /\ x = m * WPoStChallengeWindow + r
  <2>1. k * WPoStProvingPeriod \in Nat
    BY <1>1, Chain
  <2>2. m * WPoStChallengeWindow \in Nat
    BY <1>3, Chain
  <2> HIDE DEF k, m
  <2> QED
    BY <1>2, <2>1, <2>2 DEF x
<1>7. e = k * WPoStProvingPeriod + m * WPoStChallengeWindow + r
  <2>1. k * WPoStProvingPeriod \in Nat /\ m * WPoStChallengeWindow \in Nat
    BY <1>1, <1>3, Chain
  <2> HIDE DEF k, m, r
  <2> QED
    BY <1>3, <1>6, <2>1
<1> HIDE DEF k, m, r
<1> QED
  BY <1>1, <1>3, <1>5, <1>7

\* The n-th deadline from the start of a period, counted on into the next one.
LEMMA Wrapped ==
    ASSUME NEW k \in Nat, NEW n \in 0 .. 2 * WPoStPeriodDeadlines - 1,
           NEW r \in 0 .. WPoStChallengeWindow - 1,
           NEW e, e = k * WPoStProvingPeriod + n * WPoStChallengeWindow + r
    PROVE  /\ n % WPoStPeriodDeadlines \in Deadlines
           /\ n % WPoStPeriodDeadlines
                = IF n < WPoStPeriodDeadlines THEN n ELSE n - WPoStPeriodDeadlines
           /\ ProvingDeadline(e).index = n % WPoStPeriodDeadlines
           /\ ProvingDeadline(e).open = k * WPoStProvingPeriod + n * WPoStChallengeWindow
           /\ ProvingDeadline(e) =
                DeadlineInfo(e,
                  IF n < WPoStPeriodDeadlines THEN k * WPoStProvingPeriod
                                              ELSE k * WPoStProvingPeriod + WPoStProvingPeriod,
                  n % WPoStPeriodDeadlines,
                  k * WPoStProvingPeriod + n * WPoStChallengeWindow)
<1>0. n \in Nat /\ WPoStPeriodDeadlines \in Nat \ {0}
  BY Chain
<1>1. CASE n < WPoStPeriodDeadlines
  <2>1. n \in Deadlines /\ n % WPoStPeriodDeadlines = n
    BY <1>0, <1>1 DEF Deadlines
  <2>2. ProvingDeadline(e) = DeadlineInfo(e, k * WPoStProvingPeriod, n,
                               k * WPoStProvingPeriod + n * WPoStChallengeWindow)
    BY <2>1, Position
  <2> QED
    BY <1>1, <2>1, <2>2 DEF DeadlineInfo
<1>2. CASE ~(n < WPoStPeriodDeadlines)
  <2> DEFINE m == n - WPoStPeriodDeadlines
  <2>1. m \in Deadlines /\ n % WPoStPeriodDeadlines = m /\ m \in Nat
        /\ n = m + WPoStPeriodDeadlines
    BY <1>0, <1>2 DEF Deadlines
  <2> HIDE DEF m
  <2>2. (m + WPoStPeriodDeadlines) * WPoStChallengeWindow
          = m * WPoStChallengeWindow + WPoStProvingPeriod
    BY <2>1, Chain
  <2>3. /\ (k + 1) * WPoStProvingPeriod = k * WPoStProvingPeriod + WPoStProvingPeriod
        /\ k * WPoStProvingPeriod \in Nat /\ m * WPoStChallengeWindow \in Nat
    BY <2>1, Chain
  <2>4. /\ e = (k + 1) * WPoStProvingPeriod + m * WPoStChallengeWindow + r
        /\ k * WPoStProvingPeriod + n * WPoStChallengeWindow
             = (k + 1) * WPoStProvingPeriod + m * WPoStChallengeWindow
    BY <2>1, <2>2, <2>3, Chain
  <2>5. k + 1 \in Nat
    OBVIOUS
  <2>6. ProvingDeadline(e) = DeadlineInfo(e, (k + 1) * WPoStProvingPeriod, m,
                               (k + 1) * WPoStProvingPeriod + m * WPoStChallengeWindow)
    BY <2>1, <2>4, <2>5, Position
  <2>7. n % WPoStPeriodDeadlines = n - WPoStPeriodDeadlines
    BY <2>1, Chain
  <2> QED
    BY <1>2, <2>1, <2>3, <2>4, <2>6, <2>7 DEF DeadlineInfo
<1> QED
  BY <1>1, <1>2

\* The deadline of an epoch has its window open, and is one of the chain's.
LEMMA PresentWindow ==
    ASSUME NEW now \in Nat
    PROVE  /\ Window(ProvingDeadline(now))
           /\ ProvingDeadline(now).index \in Deadlines
           /\ ProvingDeadline(now).currentEpoch = now
           /\ ProvingDeadline(now).open \in Nat /\ ProvingDeadline(now).open <= now
           /\ \E k \in Nat, m \in Deadlines, r \in 0 .. WPoStChallengeWindow - 1 :
                /\ now = k * WPoStProvingPeriod + m * WPoStChallengeWindow + r
                /\ ProvingDeadline(now) =
                     DeadlineInfo(now, k * WPoStProvingPeriod, m,
                                  k * WPoStProvingPeriod + m * WPoStChallengeWindow)
<1>1. PICK k \in Nat, m \in Deadlines, r \in 0 .. WPoStChallengeWindow - 1 :
        now = k * WPoStProvingPeriod + m * WPoStChallengeWindow + r
  BY Place
<1>2. ProvingDeadline(now) = DeadlineInfo(now, k * WPoStProvingPeriod, m,
                               k * WPoStProvingPeriod + m * WPoStChallengeWindow)
  BY <1>1, Position
<1>3. k * WPoStProvingPeriod \in Nat /\ m * WPoStChallengeWindow \in Nat /\ r \in Nat
  BY Chain
<1>4. k * WPoStProvingPeriod + m * WPoStChallengeWindow \in Nat
      /\ k * WPoStProvingPeriod + m * WPoStChallengeWindow <= now
  BY <1>1, <1>3
<1> QED
  BY <1>1, <1>2, <1>4 DEF Window, DeadlineInfo

\* A window's record, and what Lotus reports of it when it opens.
LEMMA WindowFacts ==
    ASSUME NEW info, Window(info)
    PROVE  /\ info \in Info
           /\ info.open = KeyOpen(ProofKey(info))
           /\ \E k \in Nat : info.periodStart = k * WPoStProvingPeriod
           /\ info.close = info.open + WPoStChallengeWindow
           /\ [info EXCEPT !.currentEpoch = info.open] = ProvingDeadline(info.open)
<1>1. PICK now \in Nat, k \in Nat, m \in Deadlines :
        info = DeadlineInfo(now, k * WPoStProvingPeriod, m,
                            k * WPoStProvingPeriod + m * WPoStChallengeWindow)
  BY DEF Window
<1>2. /\ k * WPoStProvingPeriod \in Nat
      /\ k * WPoStProvingPeriod + m * WPoStChallengeWindow \in Nat
      /\ k * WPoStProvingPeriod + m * WPoStChallengeWindow + WPoStChallengeWindow \in Nat
  BY Chain
<1>3. info \in Info
  BY <1>1, <1>2 DEF Info, DeadlineInfo
<1>4. /\ info.open = k * WPoStProvingPeriod + m * WPoStChallengeWindow
      /\ info.periodStart = k * WPoStProvingPeriod /\ info.index = m
      /\ info.close = info.open + WPoStChallengeWindow
  BY <1>1 DEF DeadlineInfo
<1>5. ProvingDeadline(info.open) =
        DeadlineInfo(info.open, k * WPoStProvingPeriod, m,
                     k * WPoStProvingPeriod + m * WPoStChallengeWindow)
  <2>1. 0 \in 0 .. WPoStChallengeWindow - 1
    BY Chain
  <2>2. info.open = k * WPoStProvingPeriod + m * WPoStChallengeWindow + 0
    BY <1>2, <1>4
  <2> QED
    BY <2>1, <2>2, Position
<1>6. [info EXCEPT !.currentEpoch = info.open] = ProvingDeadline(info.open)
  BY <1>1, <1>4, <1>5 DEF DeadlineInfo
<1> QED
  BY <1>3, <1>4, <1>6 DEF KeyOpen, ProofKey

\* A window has one key: its opening tells its period and deadline.
LEMMA KeyUnique ==
    ASSUME NEW k \in Nat, NEW d \in Deadlines, NEW j \in Nat, NEW m \in Deadlines,
           k * WPoStProvingPeriod + d * WPoStChallengeWindow
             = j * WPoStProvingPeriod + m * WPoStChallengeWindow
    PROVE  k = j /\ d = m
<1>1. 0 \in 0 .. WPoStChallengeWindow - 1 /\ d \in Nat /\ m \in Nat
  BY Chain
<1>2. /\ d * WPoStChallengeWindow + 0 \in 0 .. WPoStProvingPeriod - 1
      /\ m * WPoStChallengeWindow + 0 \in 0 .. WPoStProvingPeriod - 1
  BY <1>1, Chain
<1>3. d * WPoStChallengeWindow \in Nat /\ m * WPoStChallengeWindow \in Nat
  BY <1>1, Chain
<1>4. k = j /\ d * WPoStChallengeWindow = m * WPoStChallengeWindow
  <2> DEFINE x == d * WPoStChallengeWindow
             y == m * WPoStChallengeWindow
  <2>1. x \in 0 .. WPoStProvingPeriod - 1 /\ y \in 0 .. WPoStProvingPeriod - 1
    BY <1>2, <1>3
  <2>2. k * WPoStProvingPeriod + x = j * WPoStProvingPeriod + y
    OBVIOUS
  <2> HIDE DEF x, y
  <2>3. k = j /\ x = y
    <3>1. \A i, l \in Nat, r, q \in 0 .. WPoStProvingPeriod - 1 :
            i * WPoStProvingPeriod + r = l * WPoStProvingPeriod + q => i = l /\ r = q
      BY Chain, Division
    <3> QED
      BY <2>1, <2>2, <3>1
  <2> QED
    BY <2>3 DEF x, y
<1>5. d * WPoStChallengeWindow + 0 = m * WPoStChallengeWindow + 0
  BY <1>3, <1>4
<1>6. d = m
  BY <1>1, <1>5, Chain, Division
<1> QED
  BY <1>4, <1>6

-----------------------------------------------------------------------------
(* The look-ahead.                                                         *)

\* A nonempty set of natural numbers has a least one, and Min is it.
LEMMA LeastNatural ==
    ASSUME NEW S \in SUBSET Nat, S # {}
    PROVE  Min(S) \in S /\ \A y \in S : Min(S) <= y
<1> DEFINE R == OpToRel(<, Nat)
<1>1. IsWellFoundedOn(R, Nat)
  BY NatLessThanWellFounded
<1>2. \A x, y \in Nat : x < y => <<x, y>> \in R
  BY DEF OpToRel
<1> HIDE DEF R
<1>3. PICK x \in S : \A y \in S : ~ (<<y, x>> \in R)
  BY <1>1, WFMin
<1>4. ASSUME NEW y \in S PROVE x <= y
  <2>1. ~(y < x)
    BY <1>2, <1>3
  <2> QED
    BY <2>1
<1> QED
  BY <1>4 DEF Min

\* The deadline that findNextSectorDeadline finds, n deadlines from the start of the
\* present period.
LEMMA NextFound ==
    ASSUME NEW now \in Nat, NEW cache, Candidates(ProvingDeadline(now), cache) # {}
    PROVE  LET info == ProvingDeadline(now)
               n == Min(Candidates(info, cache))
           IN  /\ n \in SearchOrder(info.index) /\ info.index \in Deadlines
               /\ FindNextSectorDeadline(info, cache) = n % WPoStPeriodDeadlines
               /\ cache[n % WPoStPeriodDeadlines] > 0
               /\ \A j \in info.index + 1 .. n - 1 :
                    ~(/\ j % WPoStPeriodDeadlines \in DOMAIN cache
                      /\ cache[j % WPoStPeriodDeadlines] > 0)
<1> DEFINE info == ProvingDeadline(now)
           C == Candidates(info, cache)
<1>1. info.index \in Deadlines /\ info.index \in Nat /\ WPoStPeriodDeadlines \in Nat \ {0}
  BY PresentWindow, Chain
<1> HIDE DEF info
<1>2. SearchOrder(info.index) \subseteq Nat
  BY <1>1 DEF SearchOrder
<1>3. C \subseteq SearchOrder(info.index) /\ C # {}
  BY DEF Candidates, info
<1>4. Min(C) \in C /\ \A y \in C : Min(C) <= y
  <2>1. C \in SUBSET Nat /\ C # {}
    BY <1>2, <1>3
  <2> HIDE DEF C
  <2> QED
    BY <2>1, LeastNatural
<1>5. Min(C) \in SearchOrder(info.index) /\ Min(C) \in Nat
  BY <1>2, <1>3, <1>4
<1>6. ASSUME NEW j \in info.index + 1 .. Min(C) - 1,
             j % WPoStPeriodDeadlines \in DOMAIN cache, cache[j % WPoStPeriodDeadlines] > 0
      PROVE  FALSE
  <2>1. j \in SearchOrder(info.index) /\ j < Min(C) /\ j \in Nat
    BY <1>1, <1>5 DEF SearchOrder
  <2>2. j \in C
    BY <1>6, <2>1 DEF Candidates
  <2> QED
    BY <1>4, <1>5, <2>1, <2>2
<1>7. cache[Min(C) % WPoStPeriodDeadlines] > 0
  BY <1>4 DEF Candidates
<1> QED
  BY <1>1, <1>5, <1>6, <1>7 DEF FindNextSectorDeadline, info

\* The virtual DeadlineInfo is that of the chain: the window of the n-th deadline
\* from the start of the present period, within it or in the next one, and all
\* epochs before it belong to deadlines in between.
LEMMA VirtualIsChain ==
    ASSUME NEW now \in Nat, NEW n \in SearchOrder(ProvingDeadline(now).index)
    PROVE  LET info == ProvingDeadline(now)
               virtual == VirtualInfo(info, n % WPoStPeriodDeadlines)
           IN  /\ Window(virtual) /\ virtual.currentEpoch = now
               /\ virtual.open \in Nat /\ now < virtual.open
               /\ \A e \in now .. virtual.open - 1 :
                    \E j \in info.index .. n - 1 :
                      ProvingDeadline(e).index = j % WPoStPeriodDeadlines
               /\ ProvingDeadline(virtual.open).index = n % WPoStPeriodDeadlines
               /\ info.index % WPoStPeriodDeadlines = info.index
<1>1. PICK k \in Nat, i \in Deadlines, r \in 0 .. WPoStChallengeWindow - 1 :
        /\ now = k * WPoStProvingPeriod + i * WPoStChallengeWindow + r
        /\ ProvingDeadline(now) =
             DeadlineInfo(now, k * WPoStProvingPeriod, i,
                          k * WPoStProvingPeriod + i * WPoStChallengeWindow)
  BY PresentWindow
<1> DEFINE info == ProvingDeadline(now)
           d == n % WPoStPeriodDeadlines
           start == k * WPoStProvingPeriod
           open == start + n * WPoStChallengeWindow
<1>2. info.index = i /\ info.periodStart = start /\ info.currentEpoch = now
  BY <1>1 DEF DeadlineInfo
<1>3. /\ i \in Nat /\ i < WPoStPeriodDeadlines /\ WPoStPeriodDeadlines \in Nat \ {0}
      /\ WPoStChallengeWindow \in Nat \ {0} /\ WPoStProvingPeriod \in Nat \ {0}
  BY Chain DEF Deadlines
<1>4. n \in i + 1 .. i + WPoStPeriodDeadlines - 1
  BY <1>2 DEF SearchOrder
<1>5. n \in Nat /\ i < n /\ n < i + WPoStPeriodDeadlines /\ n \in 0 .. 2 * WPoStPeriodDeadlines - 1
  BY <1>3, <1>4
<1>6. /\ start \in Nat /\ open \in Nat /\ i * WPoStChallengeWindow \in Nat
      /\ n * WPoStChallengeWindow \in Nat
      /\ (i + 1) * WPoStChallengeWindow <= n * WPoStChallengeWindow
      /\ (i + 1) * WPoStChallengeWindow = i * WPoStChallengeWindow + WPoStChallengeWindow
  BY <1>3, <1>5, Monotone
<1>7. now < open
  BY <1>1, <1>3, <1>6
<1>8. /\ d \in Deadlines /\ d = (IF n < WPoStPeriodDeadlines THEN n ELSE n - WPoStPeriodDeadlines)
      /\ ProvingDeadline(open).index = d
      /\ ProvingDeadline(open) =
           DeadlineInfo(open,
                  IF n < WPoStPeriodDeadlines THEN start ELSE start + WPoStProvingPeriod,
                  d, open)
  <2>1. 0 \in 0 .. WPoStChallengeWindow - 1
    BY <1>3
  <2>2. open = k * WPoStProvingPeriod + n * WPoStChallengeWindow + 0
    BY <1>6
  <2> QED
    BY <1>5, <2>1, <2>2, Wrapped
<1>9. i % WPoStPeriodDeadlines = i
  BY <1>3
<1>10. VirtualInfo(info, d) =
         DeadlineInfo(now,
                  IF n < WPoStPeriodDeadlines THEN start ELSE start + WPoStProvingPeriod,
                  d, open)
  <2>1. CASE n < WPoStPeriodDeadlines
    <3>1. d = n /\ d > i /\ ~(d <= i)
      BY <1>3, <1>5, <1>8, <2>1
    <3> HIDE DEF info, d, start
    <3> QED
      BY <1>2, <2>1, <3>1 DEF VirtualInfo, TargetPeriodStart, NextDeadlineOpenEpoch
  <2>2. CASE ~(n < WPoStPeriodDeadlines)
    <3>1. d = n - WPoStPeriodDeadlines /\ d <= i /\ ~(d > i) /\ d \in Nat
      BY <1>3, <1>5, <1>8, <2>2
    <3>2. start + WPoStProvingPeriod + d * WPoStChallengeWindow = open
      <4>1. n = d + WPoStPeriodDeadlines
        BY <1>3, <1>5, <3>1
      <4> HIDE DEF d
      <4>2. (d + WPoStPeriodDeadlines) * WPoStChallengeWindow
              = d * WPoStChallengeWindow + WPoStProvingPeriod
            /\ d * WPoStChallengeWindow \in Nat
        BY <1>3, <3>1, Chain
      <4> QED
        BY <1>3, <1>6, <4>1, <4>2
    <3> HIDE DEF info, d, start, open
    <3> QED
      BY <1>2, <2>2, <3>1, <3>2 DEF VirtualInfo, TargetPeriodStart, NextDeadlineOpenEpoch
  <2> QED
    BY <2>1, <2>2
<1>11. Window(VirtualInfo(info, d))
  <2>1. CASE n < WPoStPeriodDeadlines
    <3>1. d = n
      BY <1>8, <2>1
    <3> QED
      BY <1>8, <1>10, <2>1, <3>1 DEF Window
  <2>2. CASE ~(n < WPoStPeriodDeadlines)
    <3>1. d = n - WPoStPeriodDeadlines /\ d \in Nat
      BY <1>3, <1>5, <1>8, <2>2
    <3>2. /\ (k + 1) * WPoStProvingPeriod = start + WPoStProvingPeriod /\ k + 1 \in Nat
          /\ (k + 1) * WPoStProvingPeriod + d * WPoStChallengeWindow = open
      <4>1. n = d + WPoStPeriodDeadlines
        BY <1>3, <1>5, <3>1
      <4> HIDE DEF d
      <4>2. (d + WPoStPeriodDeadlines) * WPoStChallengeWindow
              = d * WPoStChallengeWindow + WPoStProvingPeriod
            /\ d * WPoStChallengeWindow \in Nat
        BY <1>3, <3>1, Chain
      <4>3. (k + 1) * WPoStProvingPeriod = start + WPoStProvingPeriod
        BY <1>3
      <4> QED
        BY <1>3, <1>6, <4>1, <4>2, <4>3
    <3>3. VirtualInfo(info, d) =
            DeadlineInfo(now, (k + 1) * WPoStProvingPeriod, d,
                         (k + 1) * WPoStProvingPeriod + d * WPoStChallengeWindow)
      BY <1>10, <2>2, <3>2
    <3> QED
      BY <1>8, <3>2, <3>3 DEF Window
  <2> QED
    BY <2>1, <2>2
<1>12. VirtualInfo(info, d).open = open /\ VirtualInfo(info, d).currentEpoch = now
  BY <1>10 DEF DeadlineInfo
<1>13. ASSUME NEW e \in now .. open - 1
       PROVE  \E j \in i .. n - 1 : ProvingDeadline(e).index = j % WPoStPeriodDeadlines
  <2> DEFINE x == e - start
             j == x \div WPoStChallengeWindow
             q == x - j * WPoStChallengeWindow
  <2>1. e \in Nat /\ x \in Nat /\ i * WPoStChallengeWindow <= x
        /\ x < n * WPoStChallengeWindow
    BY <1>1, <1>6
  <2>2. j \in Nat /\ q \in 0 .. WPoStChallengeWindow - 1
    <3> HIDE DEF x
    <3> QED
      BY <2>1, <1>3, Division
  <2>3. x = j * WPoStChallengeWindow + q /\ j * WPoStChallengeWindow \in Nat
    <3>1. j * WPoStChallengeWindow \in Nat
      BY <1>3, <2>2
    <3> HIDE DEF x, j
    <3> QED
      BY <2>1, <3>1
  <2> HIDE DEF x, j, q
  <2>4. j < n
    <3>1. n <= j => n * WPoStChallengeWindow <= j * WPoStChallengeWindow
      BY <1>3, <1>5, <2>2, Monotone
    <3> QED
      BY <1>3, <1>5, <1>6, <2>1, <2>2, <2>3, <3>1
  <2>5. i <= j
    <3>1. j + 1 <= i => (j + 1) * WPoStChallengeWindow <= i * WPoStChallengeWindow
      BY <1>3, <2>2, Monotone
    <3>2. (j + 1) * WPoStChallengeWindow = j * WPoStChallengeWindow + WPoStChallengeWindow
      BY <1>3, <2>2
    <3> QED
      BY <1>3, <1>6, <2>1, <2>2, <2>3, <3>1, <3>2
  <2>6. j \in i .. n - 1 /\ j \in 0 .. 2 * WPoStPeriodDeadlines - 1
    BY <1>3, <1>5, <2>2, <2>4, <2>5
  <2>7. e = k * WPoStProvingPeriod + j * WPoStChallengeWindow + q
    <3>1. e = start + x
      BY <1>6, <2>1 DEF x
    <3> HIDE DEF start
    <3>2. e = start + j * WPoStChallengeWindow + q
      BY <1>6, <2>2, <2>3, <3>1
    <3> QED
      BY <3>2 DEF start
  <2>8. ProvingDeadline(e).index = j % WPoStPeriodDeadlines
    BY <2>2, <2>6, <2>7, Wrapped
  <2> QED
    BY <2>6, <2>8
<1> QED
  BY <1>2, <1>6, <1>7, <1>8, <1>9, <1>11, <1>12, <1>13

\* When the window of another deadline opens after epoch t, that is the deadline
\* the look-ahead comes to first.
LEMMA FollowingIsNext ==
    ASSUME NEW t \in Nat, ProvingDeadline(t + 1).open = t + 1
    PROVE  ProvingDeadline(t + 1).index
             = (ProvingDeadline(t).index + 1) % WPoStPeriodDeadlines
<1>1. PICK k \in Nat, i \in Deadlines, r \in 0 .. WPoStChallengeWindow - 1 :
        /\ t = k * WPoStProvingPeriod + i * WPoStChallengeWindow + r
        /\ ProvingDeadline(t) =
             DeadlineInfo(t, k * WPoStProvingPeriod, i,
                          k * WPoStProvingPeriod + i * WPoStChallengeWindow)
  BY PresentWindow
<1>2. ProvingDeadline(t).index = i
  BY <1>1 DEF DeadlineInfo
<1>3. /\ i \in Nat /\ i < WPoStPeriodDeadlines /\ WPoStPeriodDeadlines \in Nat \ {0}
      /\ WPoStChallengeWindow \in Nat \ {0} /\ WPoStProvingPeriod \in Nat \ {0}
  BY Chain DEF Deadlines
<1>4. k * WPoStProvingPeriod \in Nat /\ i * WPoStChallengeWindow \in Nat
      /\ (i + 1) * WPoStChallengeWindow = i * WPoStChallengeWindow + WPoStChallengeWindow
  BY <1>3
<1>5. r = WPoStChallengeWindow - 1
  <2>1. ASSUME r + 1 \in 0 .. WPoStChallengeWindow - 1 PROVE FALSE
    <3>1. t + 1 = k * WPoStProvingPeriod + i * WPoStChallengeWindow + (r + 1)
      BY <1>1, <1>4
    <3>2. ProvingDeadline(t + 1) =
            DeadlineInfo(t + 1, k * WPoStProvingPeriod, i,
                         k * WPoStProvingPeriod + i * WPoStChallengeWindow)
      BY <2>1, <3>1, Position
    <3>3. ProvingDeadline(t + 1).open
            = k * WPoStProvingPeriod + i * WPoStChallengeWindow
      BY <3>2 DEF DeadlineInfo
    <3> QED
      BY <1>1, <1>4, <3>3
  <2> QED
    BY <1>3, <2>1
<1>6. t + 1 = k * WPoStProvingPeriod + (i + 1) * WPoStChallengeWindow + 0
  BY <1>1, <1>3, <1>4, <1>5
<1>7. i + 1 \in 0 .. 2 * WPoStPeriodDeadlines - 1 /\ 0 \in 0 .. WPoStChallengeWindow - 1
  BY <1>3
<1> QED
  BY <1>2, <1>6, <1>7, Wrapped

-----------------------------------------------------------------------------
(* The policy.                                                             *)

\* What EvaluateWindowPost decides, in terms of the distance to the window.
LEMMA Policy ==
    ASSUME NEW info \in Info
    PROVE  LET d == EvaluateWindowPost(info)
               s == SecondsUntilOpen(info)
           IN  /\ IsOpen(info) \/ s <= HardStopThresholdSec => d.state = "WINDOW_POST"
               /\ ~IsOpen(info) /\ ~(s <= HardStopThresholdSec) /\ s <= GracefulYieldThresholdSec
                    => d = Decide("YIELDING", s - HardStopThresholdSec)
               /\ ~IsOpen(info) /\ ~(s <= HardStopThresholdSec) /\ ~(s <= GracefulYieldThresholdSec)
                    => d = Decide("AVAILABLE", s - GracefulYieldThresholdSec)
<1> DEFINE d == EvaluateWindowPost(info)
           s == SecondsUntilOpen(info)
<1>0. s > HardStopThresholdSec <=> ~(s <= HardStopThresholdSec)
  BY ThresholdAssumption DEF Info, SecondsUntilOpen, SecondsUntil, EpochDuration
<1>1. CASE IsOpen(info)
  BY <1>1 DEF EvaluateWindowPost, Decide
<1>2. CASE ~IsOpen(info) /\ s <= HardStopThresholdSec
  <2>1. d = Decide("WINDOW_POST", s)
    BY <1>0, <1>2 DEF EvaluateWindowPost
  <2>2. d.state = "WINDOW_POST"
    BY <2>1 DEF Decide
  <2> QED
    BY <1>2, <2>2
<1>3. CASE ~IsOpen(info) /\ ~(s <= HardStopThresholdSec) /\ s <= GracefulYieldThresholdSec
  BY <1>0, <1>3 DEF EvaluateWindowPost
<1>4. CASE ~IsOpen(info) /\ ~(s <= HardStopThresholdSec) /\ ~(s <= GracefulYieldThresholdSec)
  BY <1>0, <1>4 DEF EvaluateWindowPost, AvailableDecision
<1> QED
  BY <1>1, <1>2, <1>3, <1>4

\* The same for the records of windows, whose distances are numbers.
LEMMA WindowPolicy ==
    ASSUME NEW info \in Info
    PROVE  LET d == EvaluateWindowPost(info)
               s == SecondsUntilOpen(info)
           IN  /\ s \in Nat
               /\ d.state \in {"AVAILABLE", "YIELDING", "WINDOW_POST"}
               /\ d.state = "WINDOW_POST" <=> IsOpen(info) \/ s <= HardStopThresholdSec
               /\ d.state = "YIELDING" <=>
                    ~IsOpen(info) /\ s > HardStopThresholdSec /\ s <= GracefulYieldThresholdSec
               /\ d.state = "YIELDING" => d.until = s - HardStopThresholdSec
               /\ d.state = "AVAILABLE" <=>
                    ~IsOpen(info) /\ s > HardStopThresholdSec /\ s > GracefulYieldThresholdSec
               /\ d.state = "AVAILABLE" => d.until = s - GracefulYieldThresholdSec
<1> DEFINE d == EvaluateWindowPost(info)
           s == SecondsUntilOpen(info)
<1>1. s \in Nat /\ HardStopThresholdSec \in Nat /\ GracefulYieldThresholdSec \in Nat
  BY ThresholdAssumption DEF Info, SecondsUntilOpen, SecondsUntil, EpochDuration
<1>2. /\ s > HardStopThresholdSec <=> ~(s <= HardStopThresholdSec)
      /\ s > GracefulYieldThresholdSec <=> ~(s <= GracefulYieldThresholdSec)
  BY <1>1
<1> HIDE DEF s
<1>3. CASE IsOpen(info) \/ s <= HardStopThresholdSec
  <2>1. d.state = "WINDOW_POST"
    BY <1>3, Policy DEF s
  <2> HIDE DEF d
  <2> QED
    BY <1>1, <1>2, <1>3, <2>1 DEF d, s
<1>4. CASE ~IsOpen(info) /\ ~(s <= HardStopThresholdSec) /\ s <= GracefulYieldThresholdSec
  <2>1. d = Decide("YIELDING", s - HardStopThresholdSec)
    BY <1>2, <1>4, Policy DEF s
  <2>2. d.state = "YIELDING" /\ d.until = s - HardStopThresholdSec
    BY <2>1 DEF Decide
  <2> HIDE DEF d
  <2> QED
    BY <1>1, <1>2, <1>4, <2>2 DEF d, s
<1>5. CASE ~IsOpen(info) /\ ~(s <= HardStopThresholdSec) /\ ~(s <= GracefulYieldThresholdSec)
  <2>1. d = Decide("AVAILABLE", s - GracefulYieldThresholdSec)
    BY <1>2, <1>5, Policy DEF s
  <2>2. d.state = "AVAILABLE" /\ d.until = s - GracefulYieldThresholdSec
    BY <2>1 DEF Decide
  <2> HIDE DEF d
  <2> QED
    BY <1>1, <1>2, <1>5, <2>2 DEF d, s
<1> QED
  BY <1>3, <1>4, <1>5

-----------------------------------------------------------------------------
(* A poll.                                                                 *)

\* What a query adds to a cache.
LEMMA QueriedFacts ==
    ASSUME NEW cache, NEW ds
    PROVE  /\ DOMAIN Queried(cache, ds) = DOMAIN cache \cup ds
           /\ \A d \in DOMAIN cache \cup ds :
                Queried(cache, ds)[d] = IF d \in ds THEN sectors[d] ELSE cache[d]
BY DEF Queried

CacheFits(cache) ==
    /\ DOMAIN cache \subseteq Deadlines
    /\ \A d \in DOMAIN cache : cache[d] \in {0, 1}

\* Deadlines that were queried join the cache with what the chain says of them.
LEMMA QueriedFits ==
    ASSUME NEW cache, CacheFits(cache), NEW ds \in SUBSET Deadlines,
           sectors \in [Deadlines -> {0, 1}]
    PROVE  CacheFits(Queried(cache, ds))
<1> DEFINE q == Queried(cache, ds)
<1>1. /\ DOMAIN q = DOMAIN cache \cup ds
      /\ \A d \in DOMAIN cache \cup ds : q[d] = IF d \in ds THEN sectors[d] ELSE cache[d]
  BY QueriedFacts
<1> HIDE DEF q
<1>2. \A d \in ds : sectors[d] \in {0, 1}
  OBVIOUS
<1>3. \A d \in DOMAIN q : q[d] \in {0, 1}
  BY <1>1, <1>2 DEF CacheFits
<1>4. DOMAIN q \subseteq Deadlines
  BY <1>1 DEF CacheFits
<1> QED
  BY <1>3, <1>4 DEF CacheFits, q

\* After deadlineHasNoSectors the cache is fresh, and the present deadline is in it:
\* refreshFullSectorCache completes it, and leaves that entry alone.
LEMMA CurrentIsFresh ==
    ASSUME TypeOK, NEW failed \in SUBSET Deadlines,
           DeadlineHasNoSectors(ProvingDeadline(epoch), failed)
    PROVE  LET info == ProvingDeadline(epoch)
               current == CurrentQuery(info, failed)
               cache1 == Queried(sectorCache, current)
               epoch1 == IF current # {} THEN epoch ELSE sectorCacheEpoch
           IN  /\ FullQuery(epoch, cache1, epoch1) = Deadlines \ DOMAIN cache1
               /\ info.index \in DOMAIN cache1 /\ cache1[info.index] = 0
<1> DEFINE info == ProvingDeadline(epoch)
           current == CurrentQuery(info, failed)
           cache1 == Queried(sectorCache, current)
           epoch1 == IF current # {} THEN epoch ELSE sectorCacheEpoch
<1>1. epoch \in Nat /\ sectorCacheEpoch \in Nat /\ SectorCacheRefreshEpochs \in Nat \ {0}
      /\ info.index \in Deadlines /\ info.currentEpoch = epoch
  BY ChainAssumption, PresentWindow DEF TypeOK
<1>2. cache1[info.index] = 0
  BY DEF DeadlineHasNoSectors
<1>3. CASE NeedsRefresh(info)
  <2>1. current = {info.index}
    BY <1>1, <1>3 DEF DeadlineHasNoSectors, CurrentQuery
  <2>2. ~Stale(epoch, epoch1)
    BY <1>1, <2>1 DEF Stale
  <2>3. info.index \in DOMAIN cache1
    <3>1. DOMAIN cache1 = DOMAIN sectorCache \cup current
      BY QueriedFacts
    <3> QED
      BY <2>1, <3>1
  <2> QED
    BY <1>2, <2>2, <2>3 DEF FullQuery, MissingEntries
<1>4. CASE ~NeedsRefresh(info)
  <2>1. current = {} /\ info.index \in DOMAIN sectorCache /\ ~Stale(epoch, sectorCacheEpoch)
    BY <1>1, <1>4 DEF NeedsRefresh, CurrentQuery
  <2>2. info.index \in DOMAIN cache1
    <3>1. DOMAIN cache1 = DOMAIN sectorCache \cup current
      BY QueriedFacts
    <3> QED
      BY <2>1, <3>1
  <2> QED
    BY <1>2, <2>1, <2>2 DEF FullQuery, MissingEntries
<1> QED
  BY <1>3, <1>4

\* How evaluateAndApply leaves the decision and the monitor.
LEMMA EvaluateFacts ==
    ASSUME NEW info \in Info, EvaluateAndApply(info)
    PROVE  /\ gpu' \in {"AVAILABLE", "YIELDING", "WINDOW_POST"}
           /\ latestDecision'.state = gpu'
           /\ monitor' = monitor \/ monitor' = info
           /\ evaluated' = info
           /\ ProofKey(info) \in completedProofs => gpu' = "AVAILABLE"
           /\ ProofKey(info) \notin completedProofs
                => gpu' = EvaluateWindowPost(info).state
<1> DEFINE d == EvaluateWindowPost(info)
           done == d.state # "AVAILABLE" /\ ProofKey(info) \in completedProofs
<1>1. /\ gpu' = (IF done THEN Resume ELSE d).state
      /\ latestDecision' = IF done THEN Resume ELSE d
      /\ monitor' = monitor \/ monitor' = info
      /\ evaluated' = info
  BY DEF EvaluateAndApply, ApplyDecision
<1>2. Resume.state = "AVAILABLE"
  BY DEF Resume, Decide
<1>3. d.state \in {"AVAILABLE", "YIELDING", "WINDOW_POST"}
  BY WindowPolicy
<1> HIDE DEF d
<1>4. CASE done
  BY <1>1, <1>2, <1>4
<1>5. CASE ~done
  BY <1>1, <1>3, <1>5 DEF d
<1> QED
  BY <1>4, <1>5

\* A poll leaves a cache that fits, with more entries than before, and keeps the
\* history of its being full.
CacheKept ==
    /\ CacheFits(sectorCache')
    /\ DOMAIN sectorCache \subseteq DOMAIN sectorCache'
    /\ sectorCacheEpoch' \in 0 .. epoch
    /\ fullAt' = NONE <=> DOMAIN sectorCache' # Deadlines

\* Whatever was asked for, the cache only grows, and fullAt says since when it is full.
LEMMA HistoryKept ==
    ASSUME TypeOK, NEW asked, NEW cache, FillHistory(asked, cache), asked \subseteq DOMAIN cache,
           sectorCache' = cache, CacheFits(cache), DOMAIN sectorCache \subseteq DOMAIN cache,
           sectorCacheEpoch' \in 0 .. epoch
    PROVE  CacheKept
<1>1. epoch # NONE
  BY NoneAssumption DEF TypeOK
<1>2. DOMAIN cache \subseteq Deadlines
  BY DEF CacheFits
<1>3. CASE asked = Deadlines \/ (DOMAIN cache = Deadlines /\ DOMAIN sectorCache # Deadlines)
  BY <1>1, <1>2, <1>3 DEF FillHistory, CacheKept
<1>4. CASE ~(asked = Deadlines \/ (DOMAIN cache = Deadlines /\ DOMAIN sectorCache # Deadlines))
  <2>1. fullAt' = fullAt
    BY <1>4 DEF FillHistory
  <2>2. DOMAIN cache = Deadlines <=> DOMAIN sectorCache = Deadlines
    BY <1>2, <1>4
  <2> QED
    BY <2>1, <2>2 DEF CacheKept, TypeOK
<1> QED
  BY <1>3, <1>4

\* What a poll does, by what it finds: sectors at the present deadline, or that a
\* query failed; no sectors at all; or sectors n deadlines from the period's start.
Present == ProvingDeadline(epoch)

FoundHere(failed) ==
    /\ EvaluateAndApply(Present)
    /\ failed = {} =>
         Present.index \in DOMAIN sectorCache' /\ sectorCache'[Present.index] # 0

FoundNone(failed) ==
    /\ ApplyDecision(Resume) /\ evaluated' = NONE /\ monitor' = monitor
    /\ failed = {} =>
         Present.index \in DOMAIN sectorCache' /\ Candidates(Present, sectorCache') = {}

FoundAhead(failed) ==
    \E n \in SearchOrder(Present.index) :
        /\ EvaluateAndApply(VirtualInfo(Present, n % WPoStPeriodDeadlines))
        /\ failed = {} =>
             /\ DOMAIN sectorCache' = Deadlines
             /\ sectorCache'[Present.index] = 0
             /\ \A j \in Present.index + 1 .. n - 1 :
                  ~(/\ j % WPoStPeriodDeadlines \in DOMAIN sectorCache'
                    /\ sectorCache'[j % WPoStPeriodDeadlines] > 0)

\* What a poll leaves behind, and which of its three outcomes it had.
LEMMA PollFacts ==
    ASSUME TypeOK, NEW failed \in SUBSET Deadlines, Poll(failed)
    PROVE  /\ CacheKept
           /\ FoundHere(failed) \/ FoundNone(failed) \/ FoundAhead(failed)
           /\ monitor = NONE
           /\ okAt' = IF failed = {} THEN epoch ELSE NONE
           /\ UNCHANGED <<epoch, sectors, completedProofs, provedOpens>>
<1> DEFINE info == ProvingDeadline(epoch)
           current == CurrentQuery(info, failed)
           cache1 == Queried(sectorCache, current)
           epoch1 == IF current # {} THEN epoch ELSE sectorCacheEpoch
           full == FullQuery(epoch, cache1, epoch1)
           cache2 == Queried(cache1, full \ failed)
<1>1. /\ epoch \in Nat /\ sectorCacheEpoch \in 0 .. epoch /\ epoch1 \in 0 .. epoch
      /\ info.index \in Deadlines /\ CacheFits(sectorCache)
      /\ sectors \in [Deadlines -> {0, 1}]
  BY PresentWindow DEF TypeOK, CacheFits
<1>2. /\ current \in SUBSET Deadlines /\ CacheFits(cache1)
      /\ DOMAIN cache1 = DOMAIN sectorCache \cup current
  <2>1. current \in SUBSET Deadlines
    BY <1>1 DEF CurrentQuery
  <2>2. CacheFits(cache1)
    BY <1>1, <2>1, QueriedFits
  <2> QED
    BY <2>1, <2>2, QueriedFacts
<1>3. /\ monitor = NONE
      /\ okAt' = IF failed = {} THEN epoch ELSE NONE
      /\ UNCHANGED <<epoch, sectors, completedProofs, provedOpens>>
  BY DEF Poll
<1>4. CASE ~DeadlineHasNoSectors(info, failed)
  <2>1. /\ sectorCache' = cache1 /\ sectorCacheEpoch' = epoch1
        /\ FillHistory(current, cache1) /\ EvaluateAndApply(info)
    BY <1>4 DEF Poll
  <2>2. CacheKept
    BY <1>1, <1>2, <2>1, HistoryKept
  <2>3. ASSUME failed = {}
        PROVE  info.index \in DOMAIN cache1 /\ cache1[info.index] # 0
    <3>1. info.index \notin failed
      BY <2>3
    <3>2. cache1[info.index] # 0
      BY <1>4, <3>1 DEF DeadlineHasNoSectors
    <3>3. info.index \in DOMAIN cache1
      BY <1>2, <2>3 DEF CurrentQuery, NeedsRefresh
    <3> QED
      BY <3>2, <3>3
  <2>4. FoundHere(failed)
    BY <2>1, <2>3 DEF FoundHere, Present
  <2> QED
    BY <1>3, <2>2, <2>4
<1>5. CASE DeadlineHasNoSectors(info, failed)
  <2>1. /\ sectorCache' = cache2
        /\ sectorCacheEpoch' = IF full # {} THEN epoch ELSE epoch1
        /\ FillHistory(current \cup (full \ failed), cache2)
        /\ (IF Candidates(info, cache2) = {}
              THEN ApplyDecision(Resume) /\ evaluated' = NONE /\ UNCHANGED monitor
              ELSE EvaluateAndApply(VirtualInfo(info, FindNextSectorDeadline(info, cache2))))
    BY <1>5 DEF Poll
  <2>2. full = Deadlines \ DOMAIN cache1 /\ info.index \in DOMAIN cache1
        /\ cache1[info.index] = 0
    BY <1>5, CurrentIsFresh
  <2> HIDE DEF cache1, epoch1, full, current
  <2>3. /\ CacheFits(cache2) /\ DOMAIN cache2 = DOMAIN cache1 \cup (full \ failed)
        /\ \A d \in DOMAIN cache2 :
             cache2[d] = IF d \in full \ failed THEN sectors[d] ELSE cache1[d]
    <3>1. full \ failed \in SUBSET Deadlines
      BY <2>2
    <3>2. CacheFits(cache2)
      BY <1>1, <1>2, <3>1, QueriedFits
    <3>3. /\ DOMAIN cache2 = DOMAIN cache1 \cup (full \ failed)
          /\ \A d \in DOMAIN cache1 \cup (full \ failed) :
               cache2[d] = IF d \in full \ failed THEN sectors[d] ELSE cache1[d]
      BY QueriedFacts
    <3> HIDE DEF cache2
    <3> QED
      BY <3>2, <3>3
  <2>4. cache2[info.index] = 0 /\ info.index \in DOMAIN cache2
    BY <2>2, <2>3
  <2>5. failed = {} => DOMAIN cache2 = Deadlines
    BY <1>2, <2>2, <2>3 DEF CacheFits
  <2>6. CacheKept
    <3>1. sectorCacheEpoch' \in 0 .. epoch
      BY <1>1, <2>1
    <3>2. current \cup (full \ failed) \subseteq DOMAIN cache2
          /\ DOMAIN sectorCache \subseteq DOMAIN cache2
      BY <1>2, <2>3
    <3> HIDE DEF cache2
    <3> QED
      BY <2>1, <2>3, <3>1, <3>2, HistoryKept
  <2> HIDE DEF cache2
  <2>7. CASE Candidates(info, cache2) = {}
    BY <1>3, <2>1, <2>4, <2>6, <2>7 DEF FoundNone, Present
  <2>8. CASE Candidates(info, cache2) # {}
    <3> DEFINE n == Min(Candidates(info, cache2))
    <3>1. /\ n \in SearchOrder(info.index)
          /\ FindNextSectorDeadline(info, cache2) = n % WPoStPeriodDeadlines
          /\ \A j \in info.index + 1 .. n - 1 :
               ~(/\ j % WPoStPeriodDeadlines \in DOMAIN cache2
                 /\ cache2[j % WPoStPeriodDeadlines] > 0)
      BY <1>1, <2>8, NextFound
    <3>2. EvaluateAndApply(VirtualInfo(info, n % WPoStPeriodDeadlines))
      BY <2>1, <2>8, <3>1
    <3> HIDE DEF n
    <3>3. FoundAhead(failed)
      BY <2>1, <2>4, <2>5, <3>1, <3>2 DEF FoundAhead, Present
    <3> QED
      BY <1>3, <2>6, <3>3
  <2> QED
    BY <2>7, <2>8
<1> QED
  BY <1>4, <1>5

-----------------------------------------------------------------------------
(* The invariant.                                                          *)

\* A decision that is made for a window of the chain keeps what concerns keys.
LEMMA EvaluateKeys ==
    ASSUME IInv, NEW info, Window(info), EvaluateAndApply(info), monitor = NONE,
           UNCHANGED <<completedProofs, provedOpens>>
    PROVE  Windows' /\ Keyed' /\ ProvedWindowNotYielded'
<1>1. info \in Info /\ info.open = KeyOpen(ProofKey(info))
  BY WindowFacts
<1>2. evaluated' = info /\ (monitor' = NONE \/ monitor' = info)
      /\ (ProofKey(info) \in completedProofs => gpu' = "AVAILABLE")
  BY <1>1, EvaluateFacts
<1>3. Windows'
  BY <1>2 DEF Windows
<1>4. Keyed'
  BY DEF IInv, Keyed
<1>5. ASSUME info.open \in provedOpens PROVE ProofKey(info) \in completedProofs
  <2>1. PICK key \in completedProofs : info.open = KeyOpen(key)
    BY <1>5 DEF IInv, Keyed
  <2>2. PICK k \in Nat : key.period = k * WPoStProvingPeriod
    BY DEF IInv, Keyed
  <2>3. key \in [period : Nat, deadline : Deadlines]
    BY DEF IInv, TypeOK
  <2>4. PICK j \in Nat : info.periodStart = j * WPoStProvingPeriod
    BY WindowFacts
  <2>5. info.index \in Deadlines
    BY <1>1 DEF Info
  <2>6. j * WPoStProvingPeriod + info.index * WPoStChallengeWindow
          = k * WPoStProvingPeriod + key.deadline * WPoStChallengeWindow
    BY <1>1, <2>1, <2>2, <2>4 DEF KeyOpen, ProofKey
  <2>7. j = k /\ info.index = key.deadline
    BY <2>3, <2>5, <2>6, KeyUnique
  <2>8. ProofKey(info) = key
    BY <2>2, <2>3, <2>4, <2>7 DEF ProofKey
  <2> QED
    BY <2>8
<1>6. ProvedWindowNotYielded'
  BY <1>2, <1>5 DEF ProvedWindowNotYielded
<1> QED
  BY <1>3, <1>4, <1>6

\* What of the types a decision concerns.
LEMMA PollTypes ==
    ASSUME TypeOK, CacheKept, gpu' \in {"AVAILABLE", "YIELDING", "WINDOW_POST"},
           latestDecision'.state = gpu', monitor' \in Info \cup {NONE},
           evaluated' \in Info \cup {NONE}, UNCHANGED <<epoch, sectors, completedProofs>>
    PROVE  TypeOK'
BY DEF TypeOK, CacheKept, CacheFits

\* Lotus answers that sectors are due here, or that none are known.
LEMMA FoundHereKeeps ==
    ASSUME IInv, NEW failed \in SUBSET Deadlines, Poll(failed), FoundHere(failed)
    PROVE  IInv'
<1>1. /\ CacheKept /\ monitor = NONE
      /\ okAt' = IF failed = {} THEN epoch ELSE NONE
      /\ UNCHANGED <<epoch, sectors, completedProofs, provedOpens>>
      /\ epoch \in Nat
  BY PollFacts DEF IInv, TypeOK
<1>2. /\ Window(Present) /\ Present \in Info /\ Present.currentEpoch = epoch
      /\ Present.open \in Nat /\ Present.open <= epoch
  BY <1>1, PresentWindow, WindowFacts DEF Present
<1>3. EvaluateAndApply(Present)
  BY DEF FoundHere
<1>4. Windows' /\ Keyed' /\ ProvedWindowNotYielded'
  BY <1>1, <1>2, <1>3, EvaluateKeys
<1>5. /\ gpu' \in {"AVAILABLE", "YIELDING", "WINDOW_POST"} /\ latestDecision'.state = gpu'
      /\ monitor' = monitor \/ monitor' = Present
      /\ evaluated' = Present
  BY <1>2, <1>3, EvaluateFacts
<1>6. TypeOK'
  BY <1>1, <1>2, <1>5, PollTypes DEF IInv
<1>7. EmptyUntilOpen'
  <2>1. evaluated'.currentEpoch .. evaluated'.open - 1 = {}
    BY <1>1, <1>2, <1>5
  <2> QED
    BY <2>1 DEF EmptyUntilOpen
<1>8. YieldedForNext'
  <2> SUFFICES ASSUME okAt' # NONE
               PROVE  /\ okAt' \in 0..epoch'
                      /\ ProvingDeadline(okAt').index \in DOMAIN sectorCache'
                      /\ ~ComesNext(okAt)'
    BY DEF YieldedForNext
  <2>1. failed = {} /\ okAt' = epoch
    BY <1>1
  <2>2. Present.index \in DOMAIN sectorCache' /\ sectorCache'[Present.index] # 0
    BY <2>1 DEF FoundHere
  <2>3. ProvingDeadline(okAt') = Present
    BY <2>1 DEF Present
  <2> QED
    BY <1>1, <2>1, <2>2, <2>3 DEF ComesNext
<1> QED
  BY <1>4, <1>6, <1>7, <1>8 DEF IInv

\* No deadline has sectors.
LEMMA FoundNoneKeeps ==
    ASSUME IInv, NEW failed \in SUBSET Deadlines, Poll(failed), FoundNone(failed)
    PROVE  IInv'
<1>1. /\ CacheKept /\ monitor = NONE
      /\ okAt' = IF failed = {} THEN epoch ELSE NONE
      /\ UNCHANGED <<epoch, sectors, completedProofs, provedOpens>>
      /\ epoch \in Nat
  BY PollFacts DEF IInv, TypeOK
<1>2. /\ gpu' = "AVAILABLE" /\ latestDecision'.state = gpu' /\ evaluated' = NONE
      /\ monitor' = NONE
  BY <1>1 DEF FoundNone, ApplyDecision, Resume, Decide
<1>3. TypeOK'
  BY <1>1, <1>2, PollTypes DEF IInv
<1>4. Windows' /\ Keyed' /\ ProvedWindowNotYielded' /\ EmptyUntilOpen'
  BY <1>1, <1>2 DEF IInv, Windows, Keyed, ProvedWindowNotYielded, EmptyUntilOpen
<1>5. YieldedForNext'
  <2> SUFFICES ASSUME okAt' # NONE
               PROVE  /\ okAt' \in 0..epoch'
                      /\ ProvingDeadline(okAt').index \in DOMAIN sectorCache'
                      /\ ~ComesNext(okAt)'
    BY DEF YieldedForNext
  <2>1. failed = {} /\ okAt' = epoch
    BY <1>1
  <2>2. Present.index \in DOMAIN sectorCache' /\ Candidates(Present, sectorCache') = {}
    BY <2>1 DEF FoundNone
  <2>3. ProvingDeadline(okAt') = Present /\ Present.index \in Deadlines
    BY <1>1, <2>1, PresentWindow DEF Present
  <2>4. ASSUME ComesNext(okAt)' PROVE FALSE
    <3> DEFINE following == ProvingDeadline(epoch + 1)
    <3>1. /\ epoch + 1 = following.open /\ sectorCache'[Present.index] = 0
          /\ following.index \in DOMAIN sectorCache' /\ sectorCache'[following.index] > 0
      BY <2>1, <2>3, <2>4 DEF ComesNext
    <3>2. following.index = (Present.index + 1) % WPoStPeriodDeadlines
      BY <1>1, <3>1, FollowingIsNext DEF Present
    <3> HIDE DEF following
    <3>3. following.index # Present.index
      BY <3>1
    <3>4. Present.index + 1 \in SearchOrder(Present.index)
      <4>1. Present.index \in Nat /\ WPoStPeriodDeadlines \in Nat \ {0}
            /\ Present.index < WPoStPeriodDeadlines
        BY <2>3, Chain DEF Deadlines
      <4>2. WPoStPeriodDeadlines # 1
        BY <3>2, <3>3, <4>1
      <4> QED
        BY <4>1, <4>2 DEF SearchOrder
    <3> QED
      BY <2>2, <3>1, <3>2, <3>4 DEF Candidates
  <2> QED
    BY <1>1, <2>1, <2>2, <2>3, <2>4
<1> QED
  BY <1>3, <1>4, <1>5 DEF IInv

\* The look-ahead finds a deadline with sectors.
LEMMA FoundAheadKeeps ==
    ASSUME IInv, NEW failed \in SUBSET Deadlines, Poll(failed), FoundAhead(failed)
    PROVE  IInv'
<1>1. /\ CacheKept /\ monitor = NONE
      /\ okAt' = IF failed = {} THEN epoch ELSE NONE
      /\ UNCHANGED <<epoch, sectors, completedProofs, provedOpens>>
      /\ epoch \in Nat
  BY PollFacts DEF IInv, TypeOK
<1>2. PICK n \in SearchOrder(Present.index) :
        /\ EvaluateAndApply(VirtualInfo(Present, n % WPoStPeriodDeadlines))
        /\ failed = {} =>
             /\ DOMAIN sectorCache' = Deadlines
             /\ sectorCache'[Present.index] = 0
             /\ \A j \in Present.index + 1 .. n - 1 :
                  ~(/\ j % WPoStPeriodDeadlines \in DOMAIN sectorCache'
                    /\ sectorCache'[j % WPoStPeriodDeadlines] > 0)
  BY DEF FoundAhead
<1> DEFINE virtual == VirtualInfo(Present, n % WPoStPeriodDeadlines)
<1>3. /\ Window(virtual) /\ virtual.currentEpoch = epoch
      /\ virtual.open \in Nat /\ epoch < virtual.open
      /\ \A e \in epoch .. virtual.open - 1 :
           \E j \in Present.index .. n - 1 :
             ProvingDeadline(e).index = j % WPoStPeriodDeadlines
      /\ Present.index % WPoStPeriodDeadlines = Present.index
      /\ Present.index \in Deadlines
  BY <1>1, VirtualIsChain, PresentWindow DEF Present
<1> HIDE DEF virtual
<1>4. EvaluateAndApply(virtual) /\ virtual \in Info /\ virtual.open = KeyOpen(ProofKey(virtual))
  BY <1>2, <1>3, WindowFacts DEF virtual
<1>5. Windows' /\ Keyed' /\ ProvedWindowNotYielded'
  BY <1>1, <1>3, <1>4, EvaluateKeys
<1>6. /\ gpu' \in {"AVAILABLE", "YIELDING", "WINDOW_POST"} /\ latestDecision'.state = gpu'
      /\ monitor' = monitor \/ monitor' = virtual
      /\ evaluated' = virtual
      /\ ProofKey(virtual) \notin completedProofs => gpu' = EvaluateWindowPost(virtual).state
  BY <1>4, EvaluateFacts
<1>7. TypeOK'
  BY <1>1, <1>4, <1>6, PollTypes DEF IInv
<1>8. /\ Present.index \in Nat /\ WPoStPeriodDeadlines \in Nat \ {0} /\ n \in Nat
      /\ Present.index < WPoStPeriodDeadlines /\ Present.index < n
  BY <1>3, Chain DEF Deadlines, SearchOrder
<1>9. ASSUME failed = {}, NEW e \in epoch .. virtual.open - 1
      PROVE  /\ ProvingDeadline(e).index \in DOMAIN sectorCache'
             /\ sectorCache'[ProvingDeadline(e).index] = 0
  <2>1. PICK j \in Present.index .. n - 1 :
          ProvingDeadline(e).index = j % WPoStPeriodDeadlines
    BY <1>3
  <2>2. ProvingDeadline(e).index \in Deadlines
    <3>1. e \in Nat
      BY <1>1, <1>3
    <3> QED
      BY <3>1, PresentWindow
  <2>3. CASE j = Present.index
    BY <1>2, <1>3, <1>9, <2>1, <2>2, <2>3
  <2>4. CASE j # Present.index
    <3>1. j \in Present.index + 1 .. n - 1
      BY <1>8, <2>4
    <3>2. ~(sectorCache'[j % WPoStPeriodDeadlines] > 0) /\ DOMAIN sectorCache' = Deadlines
      BY <1>2, <1>9, <2>1, <2>2, <3>1
    <3>3. sectorCache'[ProvingDeadline(e).index] \in {0, 1}
      BY <1>1, <2>2, <3>2 DEF CacheKept, CacheFits
    <3> QED
      BY <2>1, <2>2, <3>2, <3>3
  <2> QED
    BY <2>3, <2>4
<1>10. EmptyUntilOpen'
  <2> SUFFICES ASSUME okAt' = epoch
               PROVE  \A e \in epoch .. virtual.open - 1 :
                        LET d == ProvingDeadline(e).index
                        IN  d \in DOMAIN sectorCache' /\ sectorCache'[d] = 0
    BY <1>3, <1>6 DEF EmptyUntilOpen
  <2>1. failed = {}
    BY <1>1, NoneAssumption
  <2> QED
    BY <1>9, <2>1
<1>11. YieldedForNext'
  <2> SUFFICES ASSUME okAt' # NONE
               PROVE  /\ okAt' \in 0..epoch'
                      /\ ProvingDeadline(okAt').index \in DOMAIN sectorCache'
                      /\ HardStopThresholdSec >= EpochDuration /\ ComesNext(okAt)' =>
                           \/ okAt' + 1 \in provedOpens'
                           \/ /\ gpu' = "WINDOW_POST"
                              /\ monitor' = NONE \/ monitor'.open = okAt' + 1
    BY DEF YieldedForNext
  <2>1. failed = {} /\ okAt' = epoch /\ epoch' = epoch
    BY <1>1
  <2>2. ProvingDeadline(okAt') = Present /\ DOMAIN sectorCache' = Deadlines
    BY <1>2, <2>1 DEF Present
  <2>3. ASSUME HardStopThresholdSec >= EpochDuration, ComesNext(okAt)',
               epoch + 1 \notin provedOpens
        PROVE  gpu' = "WINDOW_POST" /\ (monitor' = NONE \/ monitor'.open = epoch + 1)
    <3>1. /\ sectorCache'[Present.index] = 0
          /\ sectorCache'[ProvingDeadline(epoch + 1).index] > 0
      BY <2>1, <2>2, <2>3 DEF ComesNext
    <3>2. virtual.open = epoch + 1
      <4>1. ASSUME epoch + 1 < virtual.open PROVE FALSE
        <5>1. epoch + 1 \in epoch .. virtual.open - 1
          BY <1>1, <1>3, <4>1
        <5>2. sectorCache'[ProvingDeadline(epoch + 1).index] = 0
          BY <1>9, <2>1, <5>1
        <5> QED
          BY <3>1, <5>2
      <4> QED
        BY <1>1, <1>3, <4>1
    <3>3. ProofKey(virtual) \notin completedProofs
      BY <1>4, <2>3, <3>2 DEF IInv, Keyed
    <3>4. SecondsUntilOpen(virtual) <= HardStopThresholdSec
      <4>1. virtual.open - virtual.currentEpoch = 1
        BY <1>1, <1>3, <3>2
      <4>2. SecondsUntilOpen(virtual) = EpochDuration
        BY <4>1 DEF SecondsUntilOpen, SecondsUntil, EpochDuration
      <4> QED
        BY <2>3, <4>2, ThresholdAssumption DEF EpochDuration
    <3>5. gpu' = "WINDOW_POST"
      BY <1>4, <1>6, <3>3, <3>4, WindowPolicy
    <3> QED
      BY <1>1, <1>6, <3>2, <3>5
  <2> QED
    BY <1>1, <1>3, <2>1, <2>2, <2>3
<1> QED
  BY <1>5, <1>7, <1>10, <1>11 DEF IInv

\* pollDeadline keeps the invariant, whichever deadlines it failed to query.
LEMMA PollKeeps ==
    ASSUME IInv, NEW failed \in SUBSET Deadlines, Poll(failed)
    PROVE  IInv'
<1>1. FoundHere(failed) \/ FoundNone(failed) \/ FoundAhead(failed)
  BY PollFacts DEF IInv
<1> QED
  BY <1>1, FoundHereKeeps, FoundNoneKeeps, FoundAheadKeeps

\* The fail-safe yields, and forgets nothing of the chain.
LEMMA PollDisconnectedKeeps == IInv /\ PollDisconnected => IInv'
<1> SUFFICES ASSUME IInv, PollDisconnected PROVE IInv'
  OBVIOUS
<1>1. /\ monitor = NONE /\ gpu' = "WINDOW_POST" /\ latestDecision'.state = gpu'
      /\ evaluated' = NONE
      /\ UNCHANGED <<epoch, sectors, sectorCache, sectorCacheEpoch, monitor,
                     completedProofs, okAt, fullAt, provedOpens>>
  BY DEF PollDisconnected, ApplyDecision, Decide
<1>2. TypeOK'
  BY <1>1 DEF IInv, TypeOK
<1>3. Windows' /\ Keyed' /\ ProvedWindowNotYielded' /\ EmptyUntilOpen'
  BY <1>1 DEF IInv, Windows, Keyed, ProvedWindowNotYielded, EmptyUntilOpen
<1>4. YieldedForNext'
  BY <1>1 DEF IInv, YieldedForNext, ComesNext
<1> QED
  BY <1>2, <1>3, <1>4 DEF IInv

\* The proof of the awaited window, or its timeout, marks its key.
LEMMA ProofDoneKeeps == IInv /\ ProofDone => IInv'
<1> SUFFICES ASSUME IInv, ProofDone PROVE IInv'
  OBVIOUS
<1>1. /\ monitor # NONE /\ completedProofs' = completedProofs \cup {ProofKey(monitor)}
      /\ provedOpens' = provedOpens \cup {monitor.open}
      /\ gpu' = "AVAILABLE" /\ latestDecision'.state = gpu'
      /\ monitor' = NONE /\ evaluated' = NONE
      /\ UNCHANGED <<epoch, sectors, sectorCache, sectorCacheEpoch, okAt, fullAt>>
  BY DEF ProofDone, ApplyDecision, Resume, Decide, MarkedKey
<1>2. Window(monitor)
  BY <1>1 DEF IInv, Windows
<1>3. /\ monitor \in Info /\ monitor.open = KeyOpen(ProofKey(monitor))
      /\ \E k \in Nat : ProofKey(monitor).period = k * WPoStProvingPeriod
  BY <1>2, WindowFacts DEF ProofKey
<1>4. ProofKey(monitor) \in [period : Nat, deadline : Deadlines]
  BY <1>3 DEF Info, ProofKey
<1>5. TypeOK'
  BY <1>1, <1>4 DEF IInv, TypeOK
<1>6. Keyed'
  BY <1>1, <1>3 DEF IInv, Keyed
<1>7. Windows' /\ ProvedWindowNotYielded' /\ EmptyUntilOpen'
  BY <1>1 DEF Windows, ProvedWindowNotYielded, EmptyUntilOpen
<1>8. YieldedForNext'
  BY <1>1 DEF IInv, YieldedForNext, ComesNext
<1> QED
  BY <1>5, <1>6, <1>7, <1>8 DEF IInv

\* The chain goes on.
LEMMA NextEpochKeeps == IInv /\ NextEpoch => IInv'
<1> SUFFICES ASSUME IInv, NextEpoch PROVE IInv'
  OBVIOUS
<1>1. /\ epoch' = epoch + 1 /\ epoch \in Nat
      /\ UNCHANGED <<sectors, sectorCache, sectorCacheEpoch, gpu, latestDecision,
                     monitor, completedProofs, evaluated, okAt, fullAt, provedOpens>>
  BY DEF IInv, TypeOK, NextEpoch
<1>2. TypeOK'
  BY <1>1 DEF IInv, TypeOK
<1>3. Windows' /\ Keyed' /\ ProvedWindowNotYielded' /\ EmptyUntilOpen'
  BY <1>1 DEF IInv, Windows, Keyed, ProvedWindowNotYielded, EmptyUntilOpen
<1>4. YieldedForNext'
  BY <1>1 DEF IInv, YieldedForNext, ComesNext
<1> QED
  BY <1>2, <1>3, <1>4 DEF IInv

\* Sectors sealed at a deadline are news to the scheduler: none of its state changes.
LEMMA SealKeeps ==
    ASSUME IInv, NEW d \in Sealing, Seal(d)
    PROVE  IInv'
<1>1. /\ sectors' = [sectors EXCEPT ![d] = 1] /\ d \in Deadlines
      /\ UNCHANGED <<epoch, sectorCache, sectorCacheEpoch, gpu, latestDecision,
                     monitor, completedProofs, evaluated, okAt, fullAt, provedOpens>>
  BY LayoutAssumption DEF Seal
<1>2. TypeOK'
  BY <1>1 DEF IInv, TypeOK
<1>3. Windows' /\ Keyed' /\ ProvedWindowNotYielded' /\ EmptyUntilOpen'
  BY <1>1 DEF IInv, Windows, Keyed, ProvedWindowNotYielded, EmptyUntilOpen
<1>4. YieldedForNext'
  BY <1>1 DEF IInv, YieldedForNext, ComesNext
<1> QED
  BY <1>2, <1>3, <1>4 DEF IInv

\* The scheduler starts with an empty cache and no yield behind it.
LEMMA InitIInv == Init => IInv
<1> SUFFICES ASSUME Init PROVE IInv
  OBVIOUS
<1>1. /\ epoch \in Nat /\ sectors \in [Deadlines -> {0, 1}]
      /\ DOMAIN sectorCache = {} /\ sectorCacheEpoch = 0 /\ gpu = "UNKNOWN"
      /\ latestDecision = NONE /\ monitor = NONE /\ completedProofs = {}
      /\ evaluated = NONE /\ okAt = NONE /\ fullAt = NONE /\ provedOpens = {}
  BY ChainAssumption, LayoutAssumption DEF Init
<1>2. Deadlines # {}
  BY ChainAssumption DEF Deadlines
<1>3. TypeOK
  BY <1>1, <1>2 DEF TypeOK
<1> QED
  BY <1>1, <1>3 DEF IInv, Windows, Keyed, ProvedWindowNotYielded, EmptyUntilOpen, YieldedForNext

\* Every step keeps the invariant.
LEMMA NextIInv == IInv /\ [Next]_vars => IInv'
<1> SUFFICES ASSUME IInv, [Next]_vars PROVE IInv'
  OBVIOUS
<1>1. CASE UNCHANGED vars
  <2>1. TypeOK'
    BY <1>1 DEF IInv, TypeOK, vars
  <2>2. Windows' /\ Keyed' /\ ProvedWindowNotYielded' /\ EmptyUntilOpen'
    BY <1>1 DEF IInv, Windows, Keyed, ProvedWindowNotYielded, EmptyUntilOpen, vars
  <2>3. YieldedForNext'
    BY <1>1 DEF IInv, YieldedForNext, ComesNext, vars
  <2> QED
    BY <2>1, <2>2, <2>3 DEF IInv
<1> QED
  BY <1>1, PollKeeps, PollDisconnectedKeeps, ProofDoneKeeps, NextEpochKeeps, SealKeeps DEF Next

\* The invariant holds in every reachable state.
LEMMA SpecIInv == Spec => []IInv
BY InitIInv, NextIInv, PTL DEF Spec

-----------------------------------------------------------------------------
(* The theorems.                                                           *)

\* The state keeps its types, and latestDecision follows the state machine.
THEOREM TypeCorrect == Spec => []TypeOK
<1>1. IInv => TypeOK
  BY DEF IInv
<1> QED
  BY <1>1, SpecIInv, PTL

\* A window that was proved, in the look-ahead or when it was open, is not yielded for
\* again: its opening has one key, whichever poll computes it.
THEOREM ProvedNotYieldedAgain == Spec => []ProvedWindowNotYielded
<1>1. IInv => ProvedWindowNotYielded
  BY DEF IInv
<1> QED
  BY <1>1, SpecIInv, PTL

\* The deadline that findNextSectorDeadline and nextDeadlineOpenEpoch come to is the one
\* Lotus will report, across the end of a proving period too, and all windows before
\* it are known to be empty when all queries were answered.
THEOREM LookAheadIsTrue == Spec => []LookAheadMatchesChain
<1>1. IInv => LookAheadMatchesChain
  <2> SUFFICES ASSUME IInv, LookedAhead PROVE LookAheadMatchesChain
    BY DEF LookAheadMatchesChain
  <2>1. evaluated # NONE /\ Window(evaluated)
    BY DEF LookedAhead, IInv, Windows
  <2>2. [evaluated EXCEPT !.currentEpoch = evaluated.open] = ProvingDeadline(evaluated.open)
    BY <2>1, WindowFacts
  <2> QED
    BY <2>1, <2>2 DEF LookAheadMatchesChain, IInv, EmptyUntilOpen
<1> QED
  BY <1>1, SpecIInv, PTL

\* With a hard stop of one epoch at least, a window with sectors that follows a
\* deadline without finds the GPU yielded, if the polls of the epoch before it got
\* their answers.
THEOREM YieldsBeforeOpening ==
    ASSUME HardStopThresholdSec >= EpochDuration
    PROVE  Spec => []YieldedBeforeOpen
<1>1. IInv => YieldedBeforeOpen
  <2> SUFFICES ASSUME IInv, epoch = ProvingDeadline(epoch).open, okAt = epoch - 1,
                      sectorCache[ProvingDeadline(epoch - 1).index] = 0,
                      ProvingDeadline(epoch).index \in DOMAIN sectorCache,
                      sectorCache[ProvingDeadline(epoch).index] > 0
               PROVE  gpu = "WINDOW_POST" \/ ProvingDeadline(epoch).open \in provedOpens
    BY DEF YieldedBeforeOpen
  <2>1. epoch \in Nat /\ okAt # NONE
    BY NoneAssumption DEF IInv, TypeOK
  <2>2. okAt + 1 = epoch
    BY <2>1
  <2>3. ComesNext(okAt)
    BY <2>2 DEF ComesNext
  <2> QED
    BY <2>1, <2>2, <2>3 DEF IInv, YieldedForNext
<1> QED
  BY <1>1, SpecIInv, PTL

\* For thresholds in their order (a hard stop no earlier than the graceful yield), the
\* countdown of AVAILABLE and of YIELDING ends in the epoch in which the policy
\* decides something else.
THEOREM CountdownIsExact ==
    ASSUME HardStopThresholdSec <= GracefulYieldThresholdSec
    PROVE  Spec => []CountdownExact
<1>1. IInv => CountdownExact
  <2> DEFINE d == EvaluateWindowPost(evaluated)
             s == SecondsUntilOpen(evaluated)
  <2> SUFFICES ASSUME IInv, evaluated # NONE, d.state # "WINDOW_POST",
                      NEW n \in 0 .. WPoStProvingPeriod
               PROVE  EvaluateWindowPost([evaluated EXCEPT !.currentEpoch = @ + n]).state
                        = d.state <=> n * EpochDuration < d.until
    BY DEF CountdownExact
  <2> DEFINE later == [evaluated EXCEPT !.currentEpoch = @ + n]
             sl == SecondsUntilOpen(later)
  <2>1. /\ evaluated \in Info /\ n \in Nat
        /\ HardStopThresholdSec \in Nat /\ GracefulYieldThresholdSec \in Nat
    BY Chain, ThresholdAssumption DEF IInv, TypeOK
  <2>2. /\ later \in Info /\ later.open = evaluated.open
        /\ later.currentEpoch = evaluated.currentEpoch + n
        /\ evaluated.open \in Nat /\ evaluated.currentEpoch \in Nat
    BY <2>1 DEF Info
  <2> HIDE DEF later
  <2>3. /\ s \in Nat /\ s > HardStopThresholdSec
        /\ \/ d.state = "YIELDING" /\ s <= GracefulYieldThresholdSec
              /\ d.until = s - HardStopThresholdSec
           \/ d.state = "AVAILABLE" /\ s > GracefulYieldThresholdSec
              /\ d.until = s - GracefulYieldThresholdSec
    BY <2>1, WindowPolicy
  <2>4. s = (evaluated.open - evaluated.currentEpoch) * 30
        /\ evaluated.open > evaluated.currentEpoch
    BY <2>1, <2>2, <2>3 DEF SecondsUntilOpen, SecondsUntil, EpochDuration
  <2>5. CASE evaluated.currentEpoch + n < evaluated.open
    <3>1. sl = s - n * 30 /\ ~IsOpen(later)
      BY <2>2, <2>4, <2>5 DEF SecondsUntilOpen, SecondsUntil, EpochDuration, IsOpen
    <3>2. /\ EvaluateWindowPost(later).state = "YIELDING"
               <=> sl > HardStopThresholdSec /\ sl <= GracefulYieldThresholdSec
          /\ EvaluateWindowPost(later).state = "AVAILABLE"
               <=> sl > HardStopThresholdSec /\ sl > GracefulYieldThresholdSec
      BY <2>2, <3>1, WindowPolicy
    <3> HIDE DEF s, sl, d
    <3> QED
      BY <2>1, <2>3, <3>1, <3>2 DEF EpochDuration, later
  <2>6. CASE ~(evaluated.currentEpoch + n < evaluated.open)
    <3>1. sl = 0
      BY <2>2, <2>6 DEF SecondsUntilOpen, SecondsUntil, EpochDuration
    <3>2. EvaluateWindowPost(later).state = "WINDOW_POST"
      BY <2>1, <2>2, <3>1, WindowPolicy
    <3>3. ~(n * 30 < s)
      BY <2>1, <2>2, <2>4, <2>6
    <3>4. ~(n * 30 < d.until)
      <4> HIDE DEF s, d
      <4> QED
        BY <2>1, <2>3, <3>3
    <3> QED
      BY <3>2, <3>4 DEF EpochDuration, later
  <2> QED
    BY <2>5, <2>6
<1> QED
  BY <1>1, SpecIInv, PTL
=============================================================================
