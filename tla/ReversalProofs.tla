--------------------------- MODULE ReversalProofs ---------------------------
(***************************************************************************)
(* Proofs about ReversalForward, for any coins, prices, limits and bars    *)
(* and any number of runs that overlap, fail or die.                       *)
(***************************************************************************)
EXTENDS ReversalForward, FiniteSetTheorems, TLAPS

-----------------------------------------------------------------------------
(* Extremes of sets of bars *)

\* A set of naturals has a least element.
LEMMA MinIsLeast ==
    ASSUME NEW S \in SUBSET Nat, S # {}
    PROVE  Min(S) \in S /\ \A y \in S : Min(S) <= y
<1> DEFINE R == OpToRel(<, Nat)
<1>1. PICK x \in S : \A y \in S : ~ (<<y, x>> \in R)
  <2> HIDE DEF R
  <2>1. IsWellFoundedOn(R, Nat)
    BY NatLessThanWellFounded DEF R
  <2> QED
    BY <2>1, WFMin
<1>2. \A y \in S : ~ (y < x)
  BY <1>1 DEF OpToRel
<1>3. \A y \in S : x <= y
  BY <1>2
<1> QED
  BY <1>3 DEF Min

\* A bounded one has a greatest.
LEMMA MaxIsGreatest ==
    ASSUME NEW n \in Nat, NEW S \in SUBSET (0..n), S # {}
    PROVE  Max(S) \in S /\ \A y \in S : y <= Max(S)
<1> DEFINE T == {k \in 0..n : n - k \in S}
<1>1. T \in SUBSET Nat /\ T # {}
  <2>1. PICK y \in S : TRUE
    OBVIOUS
  <2>2. PICK k \in 0..n : n - k = y
    BY <2>1
  <2>3. n - k \in S
    BY <2>1, <2>2
  <2>4. k \in T
    BY <2>3
  <2>5. \A z \in T : z \in Nat
    OBVIOUS
  <2> HIDE DEF T
  <2> QED
    BY <2>4, <2>5
<1>2. Min(T) \in T /\ \A z \in T : Min(T) <= z
  BY <1>1, MinIsLeast
<1> DEFINE x == n - Min(T)
<1>3. x \in S /\ Min(T) = n - x
  BY <1>2
<1>4. \A y \in S : n - y \in T
  OBVIOUS
<1>5. \A y \in S : x >= y
  BY <1>2, <1>3, <1>4
<1> HIDE DEF x
<1> QED
  BY <1>3, <1>5 DEF Max

-----------------------------------------------------------------------------
(* Bars and what they make of a trade *)

Series == Seq(Prices \cup {NoPrice})

BarsOf(s, after, upto) == {b \in after + 1..upto : b <= Len(s) /\ s[b] # NoPrice}

Ends(s, trade, b) == Reason(Gain(trade, s[b]), Cardinality(BarsOf(s, trade.entry, b)))

\* What ExitIsFirst says of a trade, over the closes of its coin.
RowOK(s, trade) ==
    /\ trade.entry <= trade.evaluated /\ trade.evaluated <= Len(s)
    /\ trade.held = Cardinality(BarsOf(s, trade.entry, trade.evaluated))
    /\ Active(trade) =>
          \A b \in BarsOf(s, trade.entry, trade.evaluated) : Ends(s, trade, b) = "none"
    /\ ~Active(trade) =>
          /\ trade.evaluated = trade.exit
          /\ trade.exit \in BarsOf(s, trade.entry, trade.exit)
          /\ trade.exitPrice = s[trade.exit]
          /\ trade.reason = Ends(s, trade, trade.exit) /\ trade.reason # "none"
          /\ \A b \in BarsOf(s, trade.entry, trade.exit) : Ends(s, trade, b) # "none" => b = trade.exit

LEMMA BarsFinite ==
    ASSUME NEW s \in Series, NEW a \in Nat, NEW b \in Nat
    PROVE  /\ BarsOf(s, a, b) \in SUBSET (0..b)
           /\ IsFiniteSet(BarsOf(s, a, b))
           /\ Cardinality(BarsOf(s, a, b)) \in Nat
<1>1. BarsOf(s, a, b) \in SUBSET (a + 1..b) /\ BarsOf(s, a, b) \in SUBSET (0..b)
  BY DEF BarsOf
<1>2. IsFiniteSet(a + 1..b)
  BY FS_Interval
<1>3. IsFiniteSet(BarsOf(s, a, b))
  BY <1>1, <1>2, FS_Subset
<1> QED
  BY <1>1, <1>3, FS_CardinalityType

\* Counting goes on where it stopped.
LEMMA BarsSplit ==
    ASSUME NEW s \in Series, NEW a \in Nat, NEW c \in Nat, NEW b \in Nat, a <= c, c <= b
    PROVE  /\ BarsOf(s, a, b) = BarsOf(s, a, c) \cup BarsOf(s, c, b)
           /\ Cardinality(BarsOf(s, a, b))
                = Cardinality(BarsOf(s, a, c)) + Cardinality(BarsOf(s, c, b))
<1> DEFINE X == BarsOf(s, a, c)
           Y == BarsOf(s, c, b)
<1>1. BarsOf(s, a, b) = X \cup Y /\ X \cap Y = {}
  BY DEF BarsOf
<1>2. IsFiniteSet(X) /\ IsFiniteSet(Y) /\ Cardinality(X) \in Nat /\ Cardinality(Y) \in Nat
  BY BarsFinite
<1>3. Cardinality(X \cup Y) = Cardinality(X) + Cardinality(Y) - Cardinality(X \cap Y)
  BY <1>2, FS_Union
<1>4. Cardinality(X \cap Y) = 0
  BY <1>1, FS_EmptySet
<1> QED
  BY <1>1, <1>2, <1>3, <1>4

\* New candles change nothing up to a bar that was there.
LEMMA BarsAppend ==
    ASSUME NEW s \in Series, NEW e \in Prices \cup {NoPrice}, NEW a \in Nat, NEW b \in Nat,
           b <= Len(s)
    PROVE  BarsOf(Append(s, e), a, b) = BarsOf(s, a, b)
BY DEF BarsOf, Series

LEMMA RowKept ==
    ASSUME NEW s \in Series, NEW e \in Prices \cup {NoPrice}, NEW trade \in Trade,
           RowOK(s, trade)
    PROVE  RowOK(Append(s, e), trade)
<1> DEFINE z == Append(s, e)
<1>1. /\ trade.entry \in Nat /\ trade.evaluated \in Nat /\ trade.evaluated <= Len(s)
      /\ Len(z) = Len(s) + 1 /\ Len(s) \in Nat
  BY DEF RowOK, Trade, Bars, Series
<1>2. \A b \in Nat : b <= Len(s) => BarsOf(z, trade.entry, b) = BarsOf(s, trade.entry, b)
  BY <1>1, BarsAppend
<1>3. \A b \in Nat \ {0} : b <= Len(s) => z[b] = s[b]
  BY DEF Series
<1>4. \A b \in Nat \ {0} : b <= Len(s) => Ends(z, trade, b) = Ends(s, trade, b)
  BY <1>2, <1>3 DEF Ends
<1>5. \A b \in BarsOf(s, trade.entry, trade.evaluated) : b \in Nat \ {0} /\ b <= Len(s)
  BY <1>1 DEF BarsOf
<1>6. /\ BarsOf(z, trade.entry, trade.evaluated) = BarsOf(s, trade.entry, trade.evaluated)
      /\ trade.evaluated <= Len(z)
      /\ trade.held = Cardinality(BarsOf(z, trade.entry, trade.evaluated))
  BY <1>1, <1>2 DEF RowOK
<1> SUFFICES RowOK(z, trade)
  OBVIOUS
<1> HIDE DEF z
<1>7. CASE Active(trade)
  BY <1>4, <1>5, <1>6, <1>7 DEF RowOK, Active
<1>8. CASE ~Active(trade)
  <2>1. trade.exit = trade.evaluated /\ trade.exit \in Nat \ {0} /\ trade.exit <= Len(s)
    BY <1>5, <1>8 DEF RowOK
  <2>2. z[trade.exit] = s[trade.exit] /\ Ends(z, trade, trade.exit) = Ends(s, trade, trade.exit)
    BY <1>3, <1>4, <2>1
  <2> QED
    BY <1>4, <1>5, <1>6, <1>8, <2>1, <2>2 DEF RowOK, Active
<1> QED
  BY <1>7, <1>8

\* If no bar before the last has used up the hold, the last does not exceed it.
LEMMA HeldBound ==
    ASSUME NEW s \in Series, NEW a \in Nat, NEW b \in Nat, b \in BarsOf(s, a, b),
           \A x \in BarsOf(s, a, b) : x # b => Cardinality(BarsOf(s, a, x)) < MaxHoldBars
    PROVE  Cardinality(BarsOf(s, a, b)) \in 1..MaxHoldBars
<1> DEFINE B == BarsOf(s, a, b)
           U == B \ {b}
<1>1. MaxHoldBars \in Nat \ {0}
  BY ReversalAssumption
<1>2. B \in SUBSET (0..b) /\ IsFiniteSet(B) /\ Cardinality(B) \in Nat
  BY BarsFinite
<1>3. IsFiniteSet(U) /\ Cardinality(U) = Cardinality(B) - 1
  BY <1>2, FS_RemoveElement
<1>4. Cardinality(U) \in Nat
  BY <1>3, FS_CardinalityType
<1>5. CASE U = {}
  <2>1. Cardinality(U) = 0
    BY <1>5, FS_EmptySet
  <2> QED
    BY <1>1, <1>2, <1>3, <2>1
<1>6. CASE U # {}
  <2> DEFINE x == Max(U)
  <2>1. x \in U /\ \A y \in U : y <= x
    BY <1>2, <1>6, MaxIsGreatest
  <2> HIDE DEF x
  <2>2. BarsOf(s, a, x) = U
    BY <2>1, <1>2 DEF BarsOf
  <2>3. Cardinality(U) < MaxHoldBars
    BY <2>1, <2>2
  <2> QED
    BY <1>1, <1>2, <1>3, <1>4, <2>3
<1> QED
  BY <1>5, <1>6

-----------------------------------------------------------------------------
(* A pass over a trade *)

\* Two rows of one trade.
SameTrade(a, b) ==
    /\ a.ticker = b.ticker /\ a.direction = b.direction
    /\ a.shock = b.shock /\ a.entry = b.entry /\ a.price = b.price

CandlesOK == candles \in [Tickers -> Series]

\* What a pass counts is what its whole history gives.
LEMMA HeldIsWhole ==
    ASSUME CandlesOK, NEW read \in Trade, RowOK(candles[read.ticker], read),
           NEW b \in Nat, read.evaluated <= b
    PROVE  /\ HeldAt(read, b) = Cardinality(BarsOf(candles[read.ticker], read.entry, b))
           /\ ReasonAt(read, b) = Ends(candles[read.ticker], read, b)
<1> DEFINE s == candles[read.ticker]
<1>1. s \in Series /\ read.entry \in Nat /\ read.evaluated \in Nat /\ read.entry <= read.evaluated
  BY DEF CandlesOK, Trade, Bars, RowOK
<1>2. Cardinality(BarsOf(s, read.entry, b))
        = Cardinality(BarsOf(s, read.entry, read.evaluated))
            + Cardinality(BarsOf(s, read.evaluated, b))
  BY <1>1, BarsSplit
<1>3. Stored(read.ticker, read.evaluated, b) = BarsOf(s, read.evaluated, b)
  BY DEF Stored, BarsOf
<1>4. HeldAt(read, b) = Cardinality(BarsOf(s, read.entry, b))
  BY <1>2, <1>3 DEF HeldAt, RowOK
<1> QED
  BY <1>4 DEF ReasonAt, Ends

LEMMA EvaluatedFields ==
    ASSUME NEW read \in Trade, NEW b
    PROVE  LET new == EvaluatedTo(read, b) IN
           /\ SameTrade(new, read)
           /\ new.status = read.status /\ new.evaluated = b /\ new.held = HeldAt(read, b)
           /\ b \in Bars /\ HeldAt(read, b) \in 0..MaxHoldBars => new \in Trade
BY DEF EvaluatedTo, SameTrade, Trade

LEMMA ClosedFields ==
    ASSUME NEW read \in Trade, NEW b
    PROVE  LET new == ClosedAt(read, b) IN
           /\ SameTrade(new, read)
           /\ new.status = "closed" /\ new.evaluated = b /\ new.held = HeldAt(read, b)
           /\ new.exit = b /\ new.exitPrice = candles[read.ticker][b]
           /\ new.reason = ReasonAt(read, b)
           /\ /\ b \in Bars /\ HeldAt(read, b) \in 0..MaxHoldBars
              /\ candles[read.ticker][b] \in Prices \cup {NoPrice}
              /\ ReasonAt(read, b) \in {"none", "target", "stop", "time"}
              => new \in Trade
BY DEF ClosedAt, EvaluatedTo, SameTrade, Trade

\* Rows of the same trade with the same numbers have ended at the same bars.
LEMMA SameEnds ==
    ASSUME NEW a, NEW c, SameTrade(a, c), NEW s, NEW b
    PROVE  Ends(s, a, b) = Ends(s, c, b)
BY DEF Ends, Gain, SameTrade

LEMMA ReasonValues ==
    ASSUME NEW gain, NEW held
    PROVE  Reason(gain, held) \in {"none", "target", "stop", "time"}
BY DEF Reason

\* No reason: the hold is not used up.
LEMMA NotHeldOut ==
    ASSUME NEW gain, NEW held \in Nat, Reason(gain, held) = "none"
    PROVE  held < MaxHoldBars
BY ReversalAssumption DEF Reason

\* What Advanced makes of a row: the row as it is, the row as it was read closed at the first
\* bar that ends it, or carried on to the last.
LEMMA AdvancedSound ==
    ASSUME CandlesOK, NEW row \in Trade, NEW read \in Trade, NEW latest \in Bars,
           RowOK(candles[row.ticker], row), RowOK(candles[read.ticker], read),
           SameTrade(read, row), Active(read)
    PROVE  LET new == Advanced(row, read, latest)
               exits == Exits(read, latest)
           IN
           /\ new \in Trade /\ RowOK(candles[new.ticker], new)
           /\ SameTrade(new, row)
           /\ ~Active(row) => new = row
           /\ exits # {} => ~Active(new)
           /\ Active(row) /\ ~Active(new) => new.exit <= latest /\ exits # {}
<1> DEFINE s == candles[read.ticker]
           bars == Stored(read.ticker, read.evaluated, latest)
           exits == Exits(read, latest)
           new == Advanced(row, read, latest)
<1>1. /\ s \in Series /\ read.entry \in Nat /\ read.evaluated \in Nat /\ latest \in Nat
      /\ read.entry <= read.evaluated /\ latest \in Bars /\ Bars \subseteq Nat
  BY ReversalAssumption DEF CandlesOK, Trade, Bars, RowOK
<1>2. /\ bars = BarsOf(s, read.evaluated, latest) /\ bars \in SUBSET (0..latest)
      /\ exits \in SUBSET bars
  BY <1>1, BarsFinite DEF Stored, BarsOf, Exits
<1>3. \A b \in bars : /\ b \in Nat /\ b \in Bars /\ read.evaluated < b /\ b <= latest
                      /\ b <= Len(s) /\ s[b] # NoPrice /\ s[b] \in Prices
                      /\ b \in BarsOf(s, read.entry, b)
                      /\ HeldAt(read, b) = Cardinality(BarsOf(s, read.entry, b))
                      /\ ReasonAt(read, b) = Ends(s, read, b)
  <2> TAKE b \in bars
  <2>1. b \in Nat /\ read.evaluated < b /\ b <= latest /\ b <= Len(s) /\ s[b] # NoPrice
    BY <1>1, <1>2 DEF BarsOf
  <2>2. b \in Bars
    BY <1>1, <2>1, ReversalAssumption DEF Bars
  <2>3. s[b] \in Prices
    BY <1>1, <2>1 DEF Series
  <2>4. b \in BarsOf(s, read.entry, b)
    BY <1>1, <2>1 DEF BarsOf
  <2>5. read.evaluated <= b
    BY <1>1, <2>1
  <2>6. /\ HeldAt(read, b) = Cardinality(BarsOf(s, read.entry, b))
        /\ ReasonAt(read, b) = Ends(s, read, b)
    BY <2>1, <2>5, HeldIsWhole
  <2> QED
    BY <2>1, <2>2, <2>3, <2>4, <2>6
<1>4. \A b \in bars : BarsOf(s, read.entry, b)
                        = BarsOf(s, read.entry, read.evaluated) \cup BarsOf(s, read.evaluated, b)
  BY <1>1, <1>3, BarsSplit
<1>5. \A x \in BarsOf(s, read.entry, read.evaluated) :
          /\ Ends(s, read, x) = "none" /\ Cardinality(BarsOf(s, read.entry, x)) < MaxHoldBars
  <2> TAKE x \in BarsOf(s, read.entry, read.evaluated)
  <2>1. Ends(s, read, x) = "none"
    BY DEF RowOK
  <2>2. x \in Nat
    BY <1>1 DEF BarsOf
  <2> QED
    BY <1>1, <2>1, <2>2, BarsFinite, NotHeldOut DEF Ends
<1>6. \A b \in bars \ exits :
          /\ Ends(s, read, b) = "none" /\ Cardinality(BarsOf(s, read.entry, b)) < MaxHoldBars
  <2> TAKE b \in bars \ exits
  <2>1. Ends(s, read, b) = "none"
    BY <1>3 DEF Exits
  <2> QED
    BY <1>1, <1>3, <2>1, BarsFinite, NotHeldOut DEF Ends
<1>7. CASE ~Active(row) \/ bars = {}
  <2>1. new = row
    BY <1>7 DEF Advanced
  <2>2. SameTrade(row, row)
    BY DEF SameTrade
  <2> QED
    BY <1>2, <1>7, <2>1, <2>2
<1>8. CASE Active(row) /\ exits # {}
  <2> DEFINE b == Min(exits)
  <2>1. exits \in SUBSET Nat
    BY <1>1, <1>2, <1>3
  <2>2. b \in exits /\ \A y \in exits : b <= y
    BY <1>8, <2>1, MinIsLeast
  <2>3. new = ClosedAt(read, b)
    BY <1>2, <1>8 DEF Advanced
  <2> HIDE DEF b
  <2>4. b \in bars /\ Ends(s, read, b) # "none"
    BY <1>2, <1>3, <2>2 DEF Exits
  <2>5. \A x \in BarsOf(s, read.entry, b) : x # b =>
            x \in BarsOf(s, read.entry, read.evaluated) \/ x \in bars \ exits
    <3> SUFFICES ASSUME NEW x \in BarsOf(s, read.entry, b), x # b,
                        x \notin BarsOf(s, read.entry, read.evaluated)
                 PROVE  x \in bars \ exits
      OBVIOUS
    <3>1. x \in BarsOf(s, read.evaluated, b)
      BY <1>4, <2>4
    <3>2. x \in bars /\ x < b
      BY <1>1, <1>2, <1>3, <2>4, <3>1 DEF BarsOf
    <3> QED
      BY <1>3, <2>2, <2>4, <3>2
  <2>6. HeldAt(read, b) \in 0..MaxHoldBars
    <3>1. Cardinality(BarsOf(s, read.entry, b)) \in 1..MaxHoldBars
      BY <1>1, <1>3, <1>5, <1>6, <2>4, <2>5, HeldBound
    <3> QED
      BY <1>3, <2>4, <3>1, ReversalAssumption
  <2>7. /\ new \in Trade /\ SameTrade(new, read) /\ new.status = "closed"
        /\ new.evaluated = b /\ new.held = HeldAt(read, b) /\ new.exit = b
        /\ new.exitPrice = s[b] /\ new.reason = Ends(s, read, b)
    BY <1>3, <2>3, <2>4, <2>6, ClosedFields, ReasonValues DEF ReasonAt
  <2> HIDE DEF new
  <2>8. RowOK(s, new)
    <3>1. new.entry = read.entry /\ \A x : Ends(s, new, x) = Ends(s, read, x)
      BY <2>7, SameEnds DEF SameTrade
    <3>2. \A x \in BarsOf(s, new.entry, b) : Ends(s, new, x) # "none" => x = b
      BY <1>5, <1>6, <2>5, <3>1
    <3>3. new.entry <= b /\ b <= Len(s) /\ b \in BarsOf(s, new.entry, b)
          /\ new.held = Cardinality(BarsOf(s, new.entry, b))
      BY <1>1, <1>3, <2>4, <2>7, <3>1
    <3>4. ~Active(new)
      BY <2>7 DEF Active
    <3> QED
      BY <2>4, <2>7, <3>1, <3>2, <3>3, <3>4 DEF RowOK
  <2>9. new.ticker = read.ticker /\ SameTrade(new, row)
    BY <2>7 DEF SameTrade
  <2> QED
    BY <1>3, <1>8, <2>4, <2>7, <2>8, <2>9 DEF Active, new
<1>9. CASE Active(row) /\ bars # {} /\ exits = {}
  <2> DEFINE b == Max(bars)
  <2>1. b \in bars /\ \A y \in bars : y <= b
    BY <1>1, <1>2, <1>9, MaxIsGreatest
  <2>2. new = EvaluatedTo(read, b)
    BY <1>9 DEF Advanced
  <2> HIDE DEF b
  <2>3. HeldAt(read, b) \in 0..MaxHoldBars
    <3>1. HeldAt(read, b) = Cardinality(BarsOf(s, read.entry, b))
      BY <1>3, <2>1
    <3>2. Cardinality(BarsOf(s, read.entry, b)) < MaxHoldBars
      BY <1>6, <1>9, <2>1
    <3>3. Cardinality(BarsOf(s, read.entry, b)) \in Nat
      BY <1>1, <1>3, <2>1, BarsFinite
    <3> QED
      BY <3>1, <3>2, <3>3, ReversalAssumption
  <2>4. /\ new \in Trade /\ SameTrade(new, read) /\ new.status = read.status
        /\ new.evaluated = b /\ new.held = HeldAt(read, b)
    BY <1>3, <2>1, <2>2, <2>3, EvaluatedFields
  <2> HIDE DEF new
  <2>5. Active(new)
    BY <2>4 DEF Active
  <2>6. RowOK(s, new)
    <3>1. new.entry = read.entry /\ \A x : Ends(s, new, x) = Ends(s, read, x)
      BY <2>4, SameEnds DEF SameTrade
    <3>2. \A x \in BarsOf(s, read.entry, b) :
              x \in BarsOf(s, read.entry, read.evaluated) \/ x \in bars
      <4> TAKE x \in BarsOf(s, read.entry, b)
      <4>1. x \in BarsOf(s, read.entry, read.evaluated) \/ x \in BarsOf(s, read.evaluated, b)
        BY <1>4, <2>1
      <4> QED
        BY <1>1, <1>2, <1>3, <2>1, <4>1 DEF BarsOf
    <3>3. \A x \in BarsOf(s, new.entry, b) : Ends(s, new, x) = "none"
      BY <1>5, <1>6, <1>9, <3>1, <3>2
    <3>4. new.entry <= b /\ b <= Len(s) /\ new.held = Cardinality(BarsOf(s, new.entry, b))
      BY <1>1, <1>3, <2>1, <2>4, <3>1
    <3> QED
      BY <2>4, <2>5, <3>3, <3>4 DEF RowOK
  <2>7. new.ticker = read.ticker /\ SameTrade(new, row)
    BY <2>4 DEF SameTrade
  <2> QED
    BY <1>9, <2>4, <2>5, <2>6, <2>7 DEF new
<1> QED
  BY <1>7, <1>8, <1>9

-----------------------------------------------------------------------------
(* Signals *)

LEMMA NewTradeSound ==
    ASSUME CandlesOK, NEW t \in Tickers, NEW latest \in Bars, t \in Signalled(latest)
    PROVE  LET new == NewTrade(t, latest) IN
           /\ new \in Trade /\ new.ticker = t /\ new.entry = latest /\ Active(new)
           /\ RowOK(candles[t], new)
<1> DEFINE s == candles[t]
           before == Stored(t, 0, latest - 1)
           new == NewTrade(t, latest)
           shock == Max(before)
<1>1. s \in Series /\ latest \in Nat /\ latest \in 1..MaxBar /\ latest - 1 \in Nat /\ MaxBar \in Nat
  BY ReversalAssumption DEF CandlesOK, Bars
<1>2. latest <= Len(s) /\ s[latest] # NoPrice /\ s[latest] \in Prices
  BY <1>1 DEF Signalled, Stored, Series
<1>3. before \in SUBSET (0..(latest - 1)) /\ before # {} /\ \A b \in before : b \in 1..(latest - 1)
  BY <1>1 DEF Signalled, Stored
<1>4. shock \in before
  BY <1>1, <1>3, MaxIsGreatest
<1> HIDE DEF shock, before
<1>5. shock \in Bars
  BY <1>1, <1>3, <1>4 DEF Bars
<1>6. /\ new.ticker = t /\ new.entry = latest /\ new.status = "active" /\ new.evaluated = latest
      /\ new.held = 0
  BY DEF NewTrade
<1>7. new \in Trade
  BY <1>2, <1>5, ReversalAssumption DEF NewTrade, Trade, shock, before
<1> HIDE DEF new
<1>8. BarsOf(s, latest, latest) = {}
  BY <1>1 DEF BarsOf
<1>9. Cardinality(BarsOf(s, latest, latest)) = 0
  BY <1>8, FS_EmptySet
<1>10. RowOK(s, new)
  BY <1>1, <1>2, <1>6, <1>8, <1>9 DEF RowOK, Active
<1> QED
  BY <1>6, <1>7, <1>10 DEF Active, new

LEMMA NewTradesFinite ==
    ASSUME NEW S \in SUBSET Tickers, NEW latest
    PROVE  IsFiniteSet({NewTrade(t, latest) : t \in S})
<1> DEFINE T == {NewTrade(t, latest) : t \in S}
           f == [t \in S |-> NewTrade(t, latest)]
<1>1. IsFiniteSet(S)
  BY FS_Subset, ReversalAssumption
<1>2. f \in Surjection(S, T)
  BY DEF Surjection
<1> QED
  BY <1>1, <1>2, FS_Surjection

LEMMA EventsFinite ==
    ASSUME NEW S, IsFiniteSet(S), NEW kind
    PROVE  IsFiniteSet({[trade |-> i, kind |-> kind] : i \in S})
<1> DEFINE T == {[trade |-> i, kind |-> kind] : i \in S}
           f == [i \in S |-> [trade |-> i, kind |-> kind]]
<1>1. f \in Surjection(S, T)
  BY DEF Surjection
<1> QED
  BY <1>1, FS_Surjection

LEMMA EnumerationsSound ==
    ASSUME NEW S, IsFiniteSet(S), NEW f \in Enumerations(S)
    PROVE  /\ f \in Seq(S) /\ DOMAIN f = 1..Len(f)
           /\ \A a, b \in DOMAIN f : f[a] = f[b] => a = b
<1>1. Cardinality(S) \in Nat
  BY FS_CardinalityType
<1>2. f \in [1..Cardinality(S) -> S]
  BY DEF Enumerations
<1>3. f \in Seq(S)
  BY <1>1, <1>2
<1> QED
  BY <1>3 DEF Enumerations, IsInjective

-----------------------------------------------------------------------------
(* The outbox grows by events it did not hold *)

Joins(S, a, b, c) ==
    /\ c \in Seq(S) /\ Len(c) = Len(a) + Len(b)
    /\ \A n \in 1..Len(a) : c[n] = a[n]
    /\ \A n \in Len(a) + 1..Len(c) : n - Len(a) \in 1..Len(b) /\ c[n] = b[n - Len(a)]

LEMMA Joined ==
    ASSUME NEW S, NEW a \in Seq(S), NEW b \in Seq(S)
    PROVE  Joins(S, a, b, a \o b)
<1>1. a \o b \in Seq(S) /\ Len(a \o b) = Len(a) + Len(b)
  OBVIOUS
<1>2. \A n \in 1..Len(a) : (a \o b)[n] = a[n]
  OBVIOUS
<1>3. \A n \in Len(a) + 1..Len(a) + Len(b) : n - Len(a) \in 1..Len(b)
  OBVIOUS
<1>4. \A n \in Len(a) + 1..Len(a) + Len(b) : (a \o b)[n] = b[n - Len(a)]
  OBVIOUS
<1> QED
  BY <1>1, <1>2, <1>3, <1>4 DEF Joins

Grown(old, new, events) ==
    /\ new \in Seq(Note)
    /\ \A n \in DOMAIN old : n \in DOMAIN new /\ new[n] = old[n]
    /\ \A n \in DOMAIN new \ DOMAIN old :
          /\ new[n].event \in events /\ new[n].status = "pending"
          /\ \A k \in DOMAIN old : old[k].event # new[n].event
          /\ \A k \in DOMAIN new \ DOMAIN old : new[k].event = new[n].event => k = n

LEMMA QueuedGrown ==
    ASSUME outbox \in Seq(Note), NEW events \in SUBSET Event, IsFiniteSet(events), Queued(events)
    PROVE  Grown(outbox, outbox', events)
<1> DEFINE S == {e \in events : \A n \in DOMAIN outbox : outbox[n].event # e}
           notes(order) == [n \in DOMAIN order |->
                               [event |-> order[n], status |-> "pending", attempts |-> 0]]
<1>1. PICK order \in Enumerations(S) : outbox' = outbox \o notes(order)
  BY DEF Queued
<1>2. IsFiniteSet(S)
  BY FS_Subset
<1> HIDE DEF S
<1>3. /\ order \in Seq(S) /\ DOMAIN order = 1..Len(order)
      /\ \A a, b \in DOMAIN order : order[a] = order[b] => a = b
  BY <1>2, EnumerationsSound
<1>4. \A e \in S : e \in events /\ e \in Event /\ \A n \in DOMAIN outbox : outbox[n].event # e
  BY DEF S
<1> DEFINE add == notes(order)
<1>5. /\ add \in Seq(Note) /\ Len(add) = Len(order)
      /\ \A k \in 1..Len(order) : add[k].event = order[k] /\ add[k].status = "pending"
  <2>1. \A k \in 1..Len(order) : order[k] \in S
    BY <1>3
  <2>2. \A k \in 1..Len(order) : add[k] \in Note
    BY <1>3, <1>4, <2>1 DEF Note
  <2> QED
    BY <1>3, <2>2
<1> HIDE DEF add
<1>6. outbox' = outbox \o add
  BY <1>1 DEF add
<1>7. /\ outbox' \in Seq(Note) /\ Len(outbox') = Len(outbox) + Len(add)
      /\ \A n \in 1..Len(outbox) : outbox'[n] = outbox[n]
      /\ \A n \in Len(outbox) + 1..Len(outbox') :
            n - Len(outbox) \in 1..Len(order) /\ outbox'[n] = add[n - Len(outbox)]
  <2>1. Joins(Note, outbox, add, outbox')
    BY <1>5, <1>6, Joined
  <2> QED
    BY <1>5, <2>1 DEF Joins
<1>8. \A n \in Len(outbox) + 1..Len(outbox') :
          /\ n - Len(outbox) \in 1..Len(order)
          /\ outbox'[n].event = order[n - Len(outbox)] /\ order[n - Len(outbox)] \in S
          /\ outbox'[n].status = "pending"
  <2> TAKE n \in Len(outbox) + 1..Len(outbox')
  <2>1. n - Len(outbox) \in 1..Len(order) /\ outbox'[n] = add[n - Len(outbox)]
    BY <1>7
  <2> DEFINE k == n - Len(outbox)
  <2>2. add[k].event = order[k] /\ add[k].status = "pending" /\ order[k] \in S
    BY <1>3, <1>5, <2>1
  <2> QED
    BY <2>1, <2>2
<1>9. \A n, k \in Len(outbox) + 1..Len(outbox') :
          outbox'[n].event = outbox'[k].event => n = k
  <2> TAKE n, k \in Len(outbox) + 1..Len(outbox')
  <2>1. outbox'[n].event = outbox'[k].event => n - Len(outbox) = k - Len(outbox)
    BY <1>3, <1>8
  <2> QED
    BY <1>7, <2>1
<1>10. DOMAIN outbox = 1..Len(outbox) /\ DOMAIN outbox' = 1..Len(outbox')
       /\ Len(outbox) \in Nat /\ Len(outbox') \in Nat
  BY <1>7
<1>11. \A n \in DOMAIN outbox' \ DOMAIN outbox : n \in Len(outbox) + 1..Len(outbox')
  BY <1>10
<1>12. \A n \in DOMAIN outbox : n \in DOMAIN outbox' /\ outbox'[n] = outbox[n]
  BY <1>5, <1>7, <1>10
<1> QED
  BY <1>4, <1>7, <1>8, <1>9, <1>11, <1>12 DEF Grown

-----------------------------------------------------------------------------
(* What a run writes into the journal *)

RowsOK == \A i \in DOMAIN trades : RowOK(candles[trades[i].ticker], trades[i])

\* Where a run works on what it has read.
Reading == {"state", "trades", "write"}

\* What a run has read are earlier states of the trades that are there.
SeenOK ==
    \A w \in Workers :
        /\ proc[w].at \in Reading => proc[w].latest \in Bars
        /\ \A i \in DOMAIN proc[w].seen :
              /\ i \in DOMAIN trades
              /\ RowOK(candles[proc[w].seen[i].ticker], proc[w].seen[i])
              /\ SameTrade(proc[w].seen[i], trades[i])

Open(w) == {i \in DOMAIN proc[w].seen : Active(proc[w].seen[i])}

Closing(w) == {i \in Open(w) : Exits(proc[w].seen[i], proc[w].latest) # {}}

\* A trade of before, after the pass.
Carried(w, i, new) ==
    /\ new \in Trade /\ RowOK(candles[new.ticker], new) /\ SameTrade(new, trades[i])
    /\ ~Active(trades[i]) => new = trades[i]
    /\ i \in Closing(w) => ~Active(new)
    /\ Active(trades[i]) /\ ~Active(new) => new.exit <= proc[w].latest /\ i \in Closing(w)

\* A trade that the pass opens.
Opens(w, new) ==
    /\ new \in Trade /\ RowOK(candles[new.ticker], new) /\ Active(new)
    /\ new.entry = proc[w].latest /\ proc[w].latest > proc[w].mark

\* The journal after the pass.
Passed(w, new) ==
    /\ new \in Seq(Trade) /\ Len(new) >= Len(trades)
    /\ \A i \in DOMAIN trades : Carried(w, i, new[i])
    /\ \A i \in Len(trades) + 1..Len(new) :
          /\ Opens(w, new[i])
          /\ \A j \in DOMAIN trades : new[j].ticker = new[i].ticker =>
                ~Active(new[j]) /\ j \notin Closing(w)
          /\ \A j \in Len(trades) + 1..Len(new) : new[j].ticker = new[i].ticker => j = i

Happens(w, new) ==
    {[trade |-> i, kind |-> "closed"] : i \in Closing(w)}
    \cup {[trade |-> i, kind |-> "opened"] : i \in Len(trades) + 1..Len(new)}

LEMMA CarriedSound ==
    ASSUME TypeOK, CandlesOK, RowsOK, SeenOK, NEW w \in Workers, proc[w].at = "write",
           NEW i \in DOMAIN trades
    PROVE  Carried(w, i, IF i \in Open(w) THEN Advanced(trades[i], proc[w].seen[i], proc[w].latest)
                         ELSE trades[i])
<1> DEFINE latest == proc[w].latest
           read == proc[w].seen[i]
<1>1. trades[i] \in Trade /\ RowOK(candles[trades[i].ticker], trades[i]) /\ latest \in Bars
  BY DEF TypeOK, RowsOK, SeenOK, Reading
<1>2. CASE i \notin Open(w)
  <2>1. SameTrade(trades[i], trades[i])
    BY DEF SameTrade
  <2> QED
    BY <1>1, <1>2, <2>1 DEF Carried, Closing
<1>3. CASE i \in Open(w)
  <2>1. /\ i \in DOMAIN proc[w].seen /\ Active(read)
        /\ RowOK(candles[read.ticker], read) /\ SameTrade(read, trades[i])
    BY <1>3 DEF Open, SeenOK
  <2>2. read \in Trade
    <3>1. proc[w].seen \in Seq(Trade)
      BY DEF TypeOK, Proc
    <3> QED
      BY <2>1, <3>1
  <2> DEFINE new == Advanced(trades[i], read, latest)
             exits == Exits(read, latest)
  <2>3. /\ new \in Trade /\ RowOK(candles[new.ticker], new) /\ SameTrade(new, trades[i])
        /\ ~Active(trades[i]) => new = trades[i]
        /\ exits # {} => ~Active(new)
        /\ Active(trades[i]) /\ ~Active(new) => new.exit <= latest /\ exits # {}
    BY <1>1, <2>1, <2>2, AdvancedSound
  <2> HIDE DEF new
  <2>4. i \in Closing(w) <=> exits # {}
    BY <1>3 DEF Closing
  <2>5. Carried(w, i, new)
    BY <2>3, <2>4 DEF Carried
  <2> QED
    BY <1>3, <2>5 DEF new
<1> QED
  BY <1>2, <1>3

LEMMA Passes ==
    ASSUME TypeOK, CandlesOK, RowsOK, SeenOK, NEW w \in Workers, Advance(w)
    PROVE  /\ Passed(w, trades')
           /\ Grown(outbox, outbox', Happens(w, trades'))
           /\ watermark' = IF proc[w].latest > proc[w].mark THEN proc[w].latest ELSE watermark
           /\ overtaken' = (overtaken \/ proc[w].seen # trades \/ proc[w].mark # watermark)
           /\ GoTo(w, "select") /\ proc[w].at = "write"
           /\ UNCHANGED <<btc, candles, channel, troubles, doubted>>
<1> DEFINE latest == proc[w].latest
           seen == proc[w].seen
           fresh == latest > proc[w].mark
           rows == [i \in DOMAIN trades |->
                       IF i \in Open(w) THEN Advanced(trades[i], seen[i], latest) ELSE trades[i]]
           opened(signals) == {s \in signals : Openable(rows, Closing(w), s, latest)}
           news(signals) == {NewTrade(t, latest) : t \in opened(signals)}
<1>1. /\ proc[w].at = "write"
      /\ overtaken' = (overtaken \/ proc[w].seen # trades \/ proc[w].mark # watermark)
      /\ GoTo(w, "select") /\ UNCHANGED <<btc, candles, channel, troubles, doubted>>
  BY DEF Advance, At, market
<1>2. PICK signals \in SUBSET (IF fresh THEN Signalled(latest) ELSE {}) :
          \E new \in Enumerations(news(signals)) :
             /\ trades' = rows \o new
             /\ Queued({[trade |-> i, kind |-> "closed"] : i \in Closing(w)}
                       \cup {[trade |-> i, kind |-> "opened"] :
                                i \in Len(rows) + 1..Len(rows) + Len(new)})
             /\ watermark' = IF fresh THEN latest ELSE watermark
  BY Zenon DEF Advance, Open, Closing
<1>3. /\ opened(signals) \in SUBSET Tickers
      /\ \A t \in opened(signals) : fresh /\ t \in Signalled(latest) /\ Openable(rows, Closing(w), t, latest)
  BY DEF Signalled
<1>4. IsFiniteSet(news(signals))
  BY <1>3, NewTradesFinite
<1>5. latest \in Bars
  BY <1>1 DEF SeenOK, Reading
<1>6. \A x \in news(signals) :
          \E t \in opened(signals) :
             /\ x = NewTrade(t, latest) /\ x \in Trade /\ x.ticker = t /\ x.entry = latest
             /\ Active(x) /\ RowOK(candles[t], x)
  <2> TAKE x \in news(signals)
  <2>1. PICK t \in opened(signals) : x = NewTrade(t, latest)
    OBVIOUS
  <2>2. t \in Tickers /\ t \in Signalled(latest)
    BY <1>3
  <2> QED
    BY <1>5, <2>1, <2>2, NewTradeSound
<1>7. PICK new \in Enumerations(news(signals)) :
          /\ trades' = rows \o new
          /\ Queued({[trade |-> i, kind |-> "closed"] : i \in Closing(w)}
                    \cup {[trade |-> i, kind |-> "opened"] :
                             i \in Len(rows) + 1..Len(rows) + Len(new)})
          /\ watermark' = IF fresh THEN latest ELSE watermark
  BY <1>2
<1>8. /\ new \in Seq(news(signals)) /\ DOMAIN new = 1..Len(new)
      /\ \A a, b \in DOMAIN new : new[a] = new[b] => a = b
  BY <1>4, EnumerationsSound
<1> HIDE DEF news, opened
<1>9. /\ new \in Seq(Trade)
      /\ \A k \in 1..Len(new) :
            \E t \in opened(signals) :
               /\ new[k] = NewTrade(t, latest) /\ new[k].ticker = t /\ new[k].entry = latest
               /\ Active(new[k]) /\ RowOK(candles[t], new[k])
  BY <1>6, <1>8
<1>10. /\ trades \in Seq(Trade) /\ DOMAIN trades = 1..Len(trades) /\ Len(trades) \in Nat
       /\ \A i \in 1..Len(trades) : rows[i] \in Trade /\ Carried(w, i, rows[i])
  <2>1. trades \in Seq(Trade) /\ DOMAIN trades = 1..Len(trades) /\ Len(trades) \in Nat
    BY DEF TypeOK
  <2>2. \A i \in 1..Len(trades) : Carried(w, i, rows[i])
    BY <1>1, <2>1, CarriedSound
  <2> QED
    BY <2>1, <2>2 DEF Carried
<1>11. rows \in Seq(Trade) /\ Len(rows) = Len(trades)
  BY <1>10
<1>12. \A j \in DOMAIN rows : \A t \in opened(signals) :
          rows[j].ticker = t => ~Active(rows[j]) /\ j \notin Closing(w)
  BY <1>3 DEF Openable
<1> HIDE DEF rows
<1>13. /\ trades' \in Seq(Trade) /\ Len(trades') = Len(trades) + Len(new)
       /\ \A i \in 1..Len(trades) : trades'[i] = rows[i]
       /\ \A i \in Len(trades) + 1..Len(trades') :
             i - Len(trades) \in 1..Len(new) /\ trades'[i] = new[i - Len(trades)]
  <2>1. Joins(Trade, rows, new, trades')
    BY <1>7, <1>9, <1>11, Joined
  <2> QED
    BY <1>11, <2>1 DEF Joins
<1>14. \A i \in Len(trades) + 1..Len(trades') :
          \E t \in opened(signals) :
             /\ trades'[i] = NewTrade(t, latest) /\ trades'[i].ticker = t
             /\ trades'[i].entry = latest /\ Active(trades'[i]) /\ RowOK(candles[t], trades'[i])
             /\ trades'[i] \in Trade
  BY <1>9, <1>13
<1>15. Len(new) \in Nat
  BY <1>8
<1>16. Passed(w, trades')
  <2>1. Len(trades') >= Len(trades)
    BY <1>10, <1>13, <1>15
  <2>2. \A i \in DOMAIN trades : Carried(w, i, trades'[i])
    BY <1>10, <1>13
  <2>3. \A i \in Len(trades) + 1..Len(trades') : Opens(w, trades'[i])
    BY <1>3, <1>14 DEF Opens
  <2>4. \A i \in Len(trades) + 1..Len(trades') : \A j \in DOMAIN trades :
            trades'[j].ticker = trades'[i].ticker => ~Active(trades'[j]) /\ j \notin Closing(w)
    BY <1>10, <1>11, <1>12, <1>13, <1>14
  <2>5. \A i, j \in Len(trades) + 1..Len(trades') :
            trades'[j].ticker = trades'[i].ticker => j = i
    <3> SUFFICES ASSUME NEW i \in Len(trades) + 1..Len(trades'),
                        NEW j \in Len(trades) + 1..Len(trades'),
                        trades'[j].ticker = trades'[i].ticker
                 PROVE  j = i
      OBVIOUS
    <3>1. trades'[i] = trades'[j]
      BY <1>14
    <3>2. new[i - Len(trades)] = new[j - Len(trades)]
      BY <1>13, <3>1
    <3>3. i - Len(trades) = j - Len(trades)
      BY <1>8, <1>13, <3>2
    <3> QED
      BY <1>10, <1>13, <1>15, <3>3
  <2> QED
    BY <1>13, <2>1, <2>2, <2>3, <2>4, <2>5 DEF Passed
<1>17. Grown(outbox, outbox', Happens(w, trades'))
  <2>1. Happens(w, trades') =
            {[trade |-> i, kind |-> "closed"] : i \in Closing(w)}
            \cup {[trade |-> i, kind |-> "opened"] : i \in Len(rows) + 1..Len(rows) + Len(new)}
    BY <1>11, <1>13 DEF Happens
  <2>2. IsFiniteSet(Closing(w)) /\ Closing(w) \in SUBSET Nat
    <3>1. Closing(w) \in SUBSET DOMAIN trades
      BY DEF Closing, Open, SeenOK
    <3>2. IsFiniteSet(DOMAIN trades) /\ DOMAIN trades \in SUBSET Nat
      <4>1. DOMAIN trades = 1..Len(trades) /\ Len(trades) \in Int /\ 1 \in Int
        BY <1>10
      <4>2. IsFiniteSet(1..Len(trades))
        BY <4>1, FS_Interval
      <4> QED
        BY <4>1, <4>2
    <3> QED
      BY <3>1, <3>2, FS_Subset
  <2>3. IsFiniteSet(Len(trades) + 1..Len(trades'))
    <3>1. Len(trades) + 1 \in Int /\ Len(trades') \in Int
      BY <1>10, <1>13, <1>15
    <3> QED
      BY <3>1, FS_Interval
  <2>4. IsFiniteSet(Happens(w, trades'))
    <3> DEFINE X == {[trade |-> i, kind |-> "closed"] : i \in Closing(w)}
               Y == {[trade |-> i, kind |-> "opened"] : i \in Len(trades) + 1..Len(trades')}
    <3>1. IsFiniteSet(X) /\ IsFiniteSet(Y)
      BY <2>2, <2>3, EventsFinite
    <3>2. Happens(w, trades') = X \cup Y
      BY DEF Happens
    <3> HIDE DEF X, Y
    <3> QED
      BY <3>1, <3>2, FS_Union
  <2>5. Happens(w, trades') \in SUBSET Event
    BY <1>10, <1>13, <2>2 DEF Happens, Event
  <2>6. outbox \in Seq(Note)
    BY DEF TypeOK
  <2> QED
    BY <1>7, <2>1, <2>4, <2>5, <2>6, QueuedGrown
<1> QED
  BY <1>1, <1>7, <1>16, <1>17

-----------------------------------------------------------------------------
(* The invariant *)

\* An event is of a trade that is there, a closing of a closed one, and queued once.
NotesOK ==
    \A n \in DOMAIN outbox :
        /\ outbox[n].event.trade \in DOMAIN trades
        /\ outbox[n].event.kind = "closed" => ~Active(trades[outbox[n].event.trade])
        /\ \A k \in DOMAIN outbox : outbox[k].event = outbox[n].event => k = n

ToldIn(log, event) == {n \in DOMAIN log : log[n].event = event}

\* What a run has in hand are rows of the outbox as they would be read now.
HandsOK ==
    \A w \in Workers :
        /\ proc[w].at \notin {"send", "record"} => proc[w].batch = {}
        /\ proc[w].at = "record" => proc[w].outcome \in {"sent", "failed"}
        /\ \A m \in proc[w].batch : m.id \in DOMAIN outbox /\ m.message = MessageOf(m.id)
        /\ proc[w].at = "record" /\ proc[w].outcome = "sent" =>
              \A m \in proc[w].batch : First(w, m) => ToldIn(channel, outbox[m.id].event) # {}

\* A message says what the journal says.
Says(message) ==
    /\ message.event.trade \in DOMAIN trades
    /\ IF message.event.kind = "opened" THEN message.price = trades[message.event.trade].price
       ELSE /\ ~Active(trades[message.event.trade])
            /\ message.price = trades[message.event.trade].exitPrice

ChannelOK ==
    \A n \in DOMAIN channel :
        Says(channel[n]) /\ \E k \in DOMAIN outbox : outbox[k].event = channel[n].event

Holds(w, n) == \E m \in proc[w].batch : m.id = n

Shown(w, n) ==
    /\ proc[w].at = "record" /\ proc[w].outcome = "sent"
    /\ \E m \in proc[w].batch : First(w, m) /\ m.id = n

\* An event that is not in doubt is in one hand, and told only by what has marked it as sent
\* or is about to.
SureOK(n) ==
    /\ \A a, b \in ToldIn(channel, outbox[n].event) : a = b
    /\ ToldIn(channel, outbox[n].event) # {} => outbox[n].status = "sent" \/ \E w \in Workers : Shown(w, n)
    /\ \A v, w \in Workers : Holds(v, n) /\ Holds(w, n) => v = w
    /\ \A w \in Workers : Holds(w, n) => outbox[n].status # "sent"

TellingOK ==
    \A n \in DOMAIN outbox :
        /\ outbox[n].status = "sent" => ToldIn(channel, outbox[n].event) # {}
        /\ outbox[n].event \notin doubted => SureOK(n)

\* What has closed lies before the watermark, unless a run was overtaken.
OrderOK ==
    ~overtaken => \A i \in DOMAIN trades : ~Active(trades[i]) => trades[i].exit <= watermark

Inv == TypeOK /\ RowsOK /\ SeenOK /\ NotesOK /\ HandsOK /\ ChannelOK /\ TellingOK
       /\ OrderOK /\ PositionsApart

-----------------------------------------------------------------------------
(* Where a step leaves its run *)

Moved(w, place, batch) ==
    /\ proc' \in [Workers -> Proc]
    /\ \A v \in Workers \ {w} : proc'[v] = proc[v]
    /\ proc'[w].at = place /\ proc'[w].batch = batch /\ proc'[w].seen = <<>>

LEMMA Put ==
    ASSUME TypeOK, NEW w \in Workers, NEW p \in Proc, proc' = [proc EXCEPT ![w] = p]
    PROVE  /\ proc' \in [Workers -> Proc]
           /\ \A v \in Workers \ {w} : proc'[v] = proc[v]
           /\ proc'[w] = p
BY DEF TypeOK

LEMMA IdleIsProc ==
    /\ Idle \in Proc
    /\ Idle.batch = {} /\ Idle.seen = <<>>
<1>1. <<>> \in Seq(Trade) /\ 0 \in 0..MaxBar /\ {} \in SUBSET [id: Nat, message: Message]
  BY ReversalAssumption
<1> QED
  BY <1>1 DEF Idle, Proc

LEMMA GoToMoves ==
    ASSUME TypeOK, NEW w \in Workers, NEW place \in {"idle", "select"},
           GoTo(w, place)
    PROVE  Moved(w, place, {})
<1> DEFINE p == [Idle EXCEPT !.at = place]
<1>1. p \in Proc /\ p.at = place /\ p.batch = {} /\ p.seen = <<>>
  BY IdleIsProc DEF Proc
<1>2. proc' = [proc EXCEPT ![w] = p]
  BY DEF GoTo
<1> HIDE DEF p
<1> QED
  BY <1>1, <1>2, Put DEF Moved

LEMMA ContinueMoves ==
    ASSUME TypeOK, NEW w \in Workers, NEW batch \in SUBSET [id: Nat, message: Message],
           Continue(w, batch)
    PROVE  Moved(w, IF batch = {} THEN "idle" ELSE "send", batch)
<1> DEFINE p == IF batch = {} THEN Idle ELSE [Idle EXCEPT !.at = "send", !.batch = batch]
<1>1. /\ p \in Proc /\ p.at = IF batch = {} THEN "idle" ELSE "send"
      /\ p.batch = batch /\ p.seen = <<>>
  <2>1. Idle.at = "idle"
    BY DEF Idle
  <2> QED
    BY <2>1, IdleIsProc DEF Proc
<1>2. proc' = [proc EXCEPT ![w] = p]
  BY DEF Continue
<1> HIDE DEF p
<1> QED
  BY <1>1, <1>2, Put DEF Moved

\* After a call: the message is the first in hand still.
Called(w, outcome) ==
    /\ proc' \in [Workers -> Proc]
    /\ \A v \in Workers \ {w} : proc'[v] = proc[v]
    /\ proc'[w].at = "record" /\ proc'[w].outcome = outcome
    /\ proc'[w].batch = proc[w].batch /\ proc'[w].seen = proc[w].seen

LEMMA SendCalls ==
    ASSUME TypeOK, NEW w \in Workers, NEW outcome \in {"sent", "failed"},
           proc' = [proc EXCEPT ![w].at = "record", ![w].outcome = outcome]
    PROVE  Called(w, outcome)
<1> DEFINE p == [proc[w] EXCEPT !.at = "record", !.outcome = outcome]
<1>1. proc[w] \in Proc
  BY DEF TypeOK
<1>2. /\ p \in Proc /\ p.at = "record" /\ p.outcome = outcome
      /\ p.batch = proc[w].batch /\ p.seen = proc[w].seen
  BY <1>1 DEF Proc
<1>3. proc' = [proc EXCEPT ![w] = p]
  BY DEF TypeOK
<1> HIDE DEF p
<1> QED
  BY <1>2, <1>3, Put DEF Called

LEMMA ReadMoves ==
    ASSUME TypeOK, SeenOK, NEW w \in Workers, Read(w) \/ ReadState(w) \/ ReadTrades(w)
    PROVE  /\ proc[w].at \in {"idle", "state", "trades"}
           /\ proc' \in [Workers -> Proc]
           /\ \A v \in Workers \ {w} : proc'[v] = proc[v]
           /\ proc'[w].at \in Reading /\ proc'[w].latest \in Bars
           /\ proc'[w].batch = proc[w].batch \/ proc'[w].batch = {}
           /\ proc'[w].seen \in {<<>>, proc[w].seen, trades}
<1>1. CASE Read(w)
  <2> DEFINE p == [Idle EXCEPT !.at = "state", !.latest = btc]
  <2>1. p \in Proc /\ p.at = "state" /\ p.batch = {} /\ p.seen = <<>> /\ p.latest = btc
    BY IdleIsProc DEF Proc, TypeOK
  <2>2. proc' = [proc EXCEPT ![w] = p] /\ btc > 0 /\ proc[w].at = "idle"
    BY <1>1 DEF Read, Starts, At
  <2>3. btc \in Bars
    BY <2>2, ReversalAssumption DEF TypeOK, Bars
  <2> HIDE DEF p
  <2> QED
    BY <2>1, <2>2, <2>3, Put DEF Reading
<1>2. CASE ReadState(w)
  <2> DEFINE p == [proc[w] EXCEPT !.at = "trades", !.mark = watermark]
  <2>1. proc[w] \in Proc /\ watermark \in 0..MaxBar
    BY DEF TypeOK
  <2>2. /\ p \in Proc /\ p.at = "trades" /\ p.batch = proc[w].batch
        /\ p.seen = proc[w].seen /\ p.latest = proc[w].latest
    BY <2>1 DEF Proc
  <2>3. proc' = [proc EXCEPT ![w] = p] /\ proc[w].at = "state"
    BY <1>2 DEF ReadState, At, TypeOK
  <2>4. proc[w].latest \in Bars
    BY <2>3 DEF SeenOK, Reading
  <2> HIDE DEF p
  <2> QED
    BY <2>2, <2>3, <2>4, Put DEF Reading
<1>3. CASE ReadTrades(w)
  <2> DEFINE p == [proc[w] EXCEPT !.at = "write", !.seen = trades]
  <2>1. proc[w] \in Proc /\ trades \in Seq(Trade)
    BY DEF TypeOK
  <2>2. /\ p \in Proc /\ p.at = "write" /\ p.batch = proc[w].batch
        /\ p.seen = trades /\ p.latest = proc[w].latest
    BY <2>1 DEF Proc
  <2>3. proc' = [proc EXCEPT ![w] = p] /\ proc[w].at = "trades"
    BY <1>3 DEF ReadTrades, At, TypeOK
  <2>4. proc[w].latest \in Bars
    BY <2>3 DEF SeenOK, Reading
  <2> HIDE DEF p
  <2> QED
    BY <2>2, <2>3, <2>4, Put DEF Reading
<1> QED
  BY <1>1, <1>2, <1>3

\* How the call of a message may come out.
LEMMA Sends ==
    ASSUME TypeOK, NEW w \in Workers, Send(w)
    PROVE  \E m \in proc[w].batch : First(w, m) /\
              \/ /\ channel' = Append(channel, m.message) /\ Called(w, "sent")
                 /\ UNCHANGED <<troubles, doubted>>
              \/ /\ channel' = channel /\ Called(w, "failed") /\ Trouble /\ UNCHANGED doubted
              \/ /\ channel' = Append(channel, m.message) /\ Called(w, "failed") /\ Trouble
                 /\ doubted' = doubted \cup {m.message.event}
<1>1. PICK m \in proc[w].batch : First(w, m) /\
          \/ /\ channel' = Append(channel, m.message)
             /\ proc' = [proc EXCEPT ![w].at = "record", ![w].outcome = "sent"]
             /\ UNCHANGED <<troubles, doubted>>
          \/ /\ Trouble
             /\ proc' = [proc EXCEPT ![w].at = "record", ![w].outcome = "failed"]
             /\ \/ UNCHANGED <<channel, doubted>>
                \/ /\ channel' = Append(channel, m.message)
                   /\ doubted' = doubted \cup {m.message.event}
  BY DEF Send
<1> QED
  BY <1>1, SendCalls

-----------------------------------------------------------------------------
(* What a step leaves alone stays true *)

LEMMA CandlesTyped == ASSUME TypeOK PROVE CandlesOK
BY DEF TypeOK, CandlesOK, Series

LEMMA TroubleTyped ==
    ASSUME TypeOK, UNCHANGED troubles \/ Trouble
    PROVE  troubles' \in 0..MaxTroubles
BY ReversalAssumption DEF TypeOK, Trouble

\* A row of the outbox is told as the journal has it.
LEMMA MessageSound ==
    ASSUME Inv, NEW n \in DOMAIN outbox
    PROVE  /\ MessageOf(n) \in Message /\ Says(MessageOf(n))
           /\ MessageOf(n).event = outbox[n].event /\ outbox[n].event \in Event
<1> DEFINE event == outbox[n].event
           trade == trades[event.trade]
<1>1. outbox[n] \in Note
  BY DEF Inv, TypeOK
<1>2. event \in Event
  BY <1>1 DEF Note
<1>3. event.trade \in DOMAIN trades /\ trade \in Trade
  BY DEF Inv, TypeOK, NotesOK
<1>4. trade.price \in Prices
  BY <1>3 DEF Trade
<1>5. CASE event.kind = "opened"
  BY <1>2, <1>3, <1>4, <1>5 DEF MessageOf, Message, Says
<1>6. CASE event.kind # "opened"
  <2>1. event.kind = "closed" /\ ~Active(trade)
    BY <1>2, <1>6 DEF Event, Inv, NotesOK
  <2>2. trade.exitPrice \in Prices
    <3> DEFINE s == candles[trade.ticker]
    <3>1. s \in Series /\ RowOK(s, trade)
      BY <1>3, CandlesTyped DEF Inv, RowsOK, CandlesOK, Trade
    <3>2. /\ trade.entry \in Nat /\ trade.exit = trade.evaluated /\ trade.evaluated \in Nat
          /\ trade.exit \in BarsOf(s, trade.entry, trade.exit) /\ trade.exitPrice = s[trade.exit]
      BY <1>3, <2>1, <3>1 DEF RowOK, Trade, Bars
    <3>3. trade.exit \in DOMAIN s /\ s[trade.exit] # NoPrice
      BY <3>1, <3>2 DEF BarsOf, Series
    <3> QED
      BY <3>1, <3>2, <3>3 DEF Series
  <2> QED
    BY <1>2, <1>3, <1>6, <2>1, <2>2 DEF MessageOf, Message, Says
<1> QED
  BY <1>5, <1>6

LEMMA OthersSame ==
    ASSUME NEW w \in Workers, NEW v \in Workers, proc'[v] = proc[v]
    PROVE  /\ \A n : (Holds(v, n)' <=> Holds(v, n)) /\ (Shown(v, n)' <=> Shown(v, n))
           /\ \A m : First(v, m)' <=> First(v, m)
BY DEF Holds, Shown, First

LEMMA JournalKept ==
    ASSUME Inv, UNCHANGED <<candles, trades, watermark, overtaken>>
    PROVE  RowsOK' /\ OrderOK' /\ PositionsApart'
BY DEF Inv, RowsOK, OrderOK, PositionsApart, RowOK

LEMMA NotesKept ==
    ASSUME Inv, UNCHANGED <<trades, outbox>>
    PROVE  NotesOK' /\ \A n : MessageOf(n)' = MessageOf(n)
BY DEF Inv, NotesOK, MessageOf

LEMMA ChannelKept ==
    ASSUME Inv, UNCHANGED <<trades, outbox, channel>>
    PROVE  ChannelOK' /\ \A e : ToldIn(channel', e) = ToldIn(channel, e)
BY DEF Inv, ChannelOK, Says, ToldIn

LEMMA SeenMoved ==
    ASSUME Inv, NEW w \in Workers, NEW place \in {"idle", "select", "send"}, NEW batch,
           Moved(w, place, batch), UNCHANGED <<candles, trades>>
    PROVE  SeenOK'
<1> SUFFICES ASSUME NEW v \in Workers
             PROVE  /\ proc'[v].at \in Reading => proc'[v].latest \in Bars
                    /\ \A i \in DOMAIN proc'[v].seen :
                          /\ i \in DOMAIN trades
                          /\ RowOK(candles[proc'[v].seen[i].ticker], proc'[v].seen[i])
                          /\ SameTrade(proc'[v].seen[i], trades[i])
  BY DEF SeenOK
<1>1. CASE v = w
  BY <1>1 DEF Moved, Reading
<1>2. CASE v # w
  <2>1. proc'[v] = proc[v]
    BY <1>2 DEF Moved
  <2> QED
    BY <2>1 DEF Inv, SeenOK
<1> QED
  BY <1>1, <1>2

LEMMA HandsDropped ==
    ASSUME Inv, NEW w \in Workers, NEW place \in {"idle", "select"},
           Moved(w, place, {}), UNCHANGED <<trades, outbox, channel>>
    PROVE  HandsOK'
<1>1. /\ \A n : MessageOf(n)' = MessageOf(n)
      /\ \A e : ToldIn(channel', e) = ToldIn(channel, e)
  BY NotesKept, ChannelKept
<1> SUFFICES ASSUME NEW v \in Workers
             PROVE  /\ proc'[v].at \notin {"send", "record"} => proc'[v].batch = {}
                    /\ proc'[v].at = "record" => proc'[v].outcome \in {"sent", "failed"}
                    /\ \A m \in proc'[v].batch : m.id \in DOMAIN outbox /\ m.message = MessageOf(m.id)
                    /\ proc'[v].at = "record" /\ proc'[v].outcome = "sent" =>
                          \A m \in proc'[v].batch : First(v, m)' => ToldIn(channel, outbox[m.id].event) # {}
  BY <1>1 DEF HandsOK
<1>2. CASE v = w
  BY <1>2 DEF Moved
<1>3. CASE v # w
  <2>1. proc'[v] = proc[v]
    BY <1>3 DEF Moved
  <2>2. \A m : First(v, m)' <=> First(v, m)
    BY <2>1, OthersSame
  <2> QED
    BY <2>1, <2>2 DEF Inv, HandsOK
<1> QED
  BY <1>2, <1>3

\* A run puts down what it has in hand: what it alone knows to be told is now in doubt.
LEMMA TellingDropped ==
    ASSUME Inv, NEW w \in Workers, NEW place \in {"idle", "select"},
           Moved(w, place, {}), UNCHANGED <<trades, outbox, channel>>,
           doubted \subseteq doubted',
           \A n \in DOMAIN outbox : Shown(w, n) => outbox[n].event \in doubted'
    PROVE  TellingOK'
<1>1. \A e : ToldIn(channel', e) = ToldIn(channel, e)
  BY ChannelKept
<1> SUFFICES ASSUME NEW n \in DOMAIN outbox
             PROVE  /\ outbox[n].status = "sent" => ToldIn(channel, outbox[n].event) # {}
                    /\ outbox[n].event \notin doubted' => SureOK(n)'
  BY <1>1 DEF TellingOK
<1>2. outbox[n].status = "sent" => ToldIn(channel, outbox[n].event) # {}
  BY DEF Inv, TellingOK
<1>3. ASSUME outbox[n].event \notin doubted'
      PROVE  SureOK(n)'
  <2>1. SureOK(n) /\ ~Shown(w, n)
    BY <1>3 DEF Inv, TellingOK
  <2>2. ~(Holds(w, n)')
    BY DEF Holds, Moved
  <2>3. \A v \in Workers \ {w} : (Holds(v, n)' <=> Holds(v, n)) /\ (Shown(v, n)' <=> Shown(v, n))
    BY OthersSame DEF Moved
  <2>4. \A v \in Workers : Holds(v, n)' => Holds(v, n)
    BY <2>2, <2>3
  <2>5. \A v \in Workers : Shown(v, n) => Shown(v, n)'
    BY <2>1, <2>3
  <2> QED
    BY <1>1, <2>1, <2>4, <2>5 DEF SureOK
<1> QED
  BY <1>2, <1>3

LEMMA HandsKept ==
    ASSUME Inv, UNCHANGED <<trades, outbox, channel>>, proc' = proc, doubted' = doubted
    PROVE  HandsOK' /\ TellingOK'
<1>1. \A w \in Workers :
          /\ \A n : (Holds(w, n)' <=> Holds(w, n)) /\ (Shown(w, n)' <=> Shown(w, n))
          /\ \A m : First(w, m)' <=> First(w, m)
  BY OthersSame
<1>2. /\ \A n : MessageOf(n)' = MessageOf(n)
      /\ \A e : ToldIn(channel', e) = ToldIn(channel, e)
  BY NotesKept, ChannelKept
<1>3. HandsOK'
  BY <1>1, <1>2 DEF Inv, HandsOK
<1>4. TellingOK'
  BY <1>1, <1>2 DEF Inv, TellingOK, SureOK
<1> QED
  BY <1>3, <1>4

-----------------------------------------------------------------------------
(* The steps *)

LEMMA Stutter ==
    ASSUME Inv, UNCHANGED vars
    PROVE  Inv'
<1>1. /\ UNCHANGED <<candles, trades, watermark, overtaken>> /\ UNCHANGED <<trades, outbox>>
      /\ UNCHANGED <<trades, outbox, channel>> /\ proc' = proc /\ doubted' = doubted
  BY DEF vars
<1>2. TypeOK'
  BY DEF vars, Inv, TypeOK
<1>3. SeenOK'
  BY <1>1 DEF Inv, SeenOK
<1>4. HandsOK' /\ TellingOK'
  BY <1>1, HandsKept
<1> QED
  BY <1>1, <1>2, <1>3, <1>4, JournalKept, NotesKept, ChannelKept DEF Inv

\* The invariant does not speak of the newest BTC candle but for its type.
LEMMA CollectBtcStep ==
    ASSUME Inv, CollectBtc
    PROVE  Inv'
<1>1. /\ UNCHANGED <<candles, trades, watermark, overtaken>> /\ UNCHANGED <<trades, outbox>>
      /\ UNCHANGED <<trades, outbox, channel>> /\ proc' = proc /\ doubted' = doubted
  BY DEF CollectBtc
<1>2. TypeOK'
  BY ReversalAssumption DEF CollectBtc, Inv, TypeOK
<1>3. SeenOK'
  BY <1>1 DEF Inv, SeenOK
<1>4. HandsOK' /\ TellingOK'
  BY <1>1, HandsKept
<1> QED
  BY <1>1, <1>2, <1>3, <1>4, JournalKept, NotesKept, ChannelKept DEF Inv

\* A new candle lies behind everything a trade has passed.
LEMMA CollectStep ==
    ASSUME Inv, NEW t \in Tickers, Collect(t)
    PROVE  Inv'
<1>1. /\ UNCHANGED <<trades, outbox>> /\ UNCHANGED <<trades, outbox, channel>>
      /\ UNCHANGED <<watermark, overtaken>> /\ proc' = proc /\ doubted' = doubted
  BY DEF Collect
<1>2. PICK close \in Prices \cup {NoPrice} :
          candles' = [candles EXCEPT ![t] = Append(@, close)] /\ Len(candles[t]) < MaxBar
  BY DEF Collect
<1>3. candles \in [Tickers -> Series]
  BY CandlesTyped DEF Inv, CandlesOK
<1>4. \A trade \in Trade : RowOK(candles[trade.ticker], trade) => RowOK(candles'[trade.ticker], trade)
  <2> SUFFICES ASSUME NEW trade \in Trade, RowOK(candles[trade.ticker], trade)
               PROVE  RowOK(candles'[trade.ticker], trade)
    OBVIOUS
  <2>1. trade.ticker \in Tickers
    BY DEF Trade
  <2>2. CASE trade.ticker = t
    <3>1. candles'[t] = Append(candles[t], close) /\ candles[t] \in Series
      BY <1>2, <1>3
    <3>2. RowOK(Append(candles[t], close), trade)
      BY <2>2, <3>1, RowKept
    <3> QED
      BY <2>2, <3>1, <3>2
  <2>3. CASE trade.ticker # t
    BY <1>2, <1>3, <2>1, <2>3
  <2> QED
    BY <2>2, <2>3
<1>5. TypeOK'
  <2>1. candles' \in [Tickers -> Series]
    BY <1>2, <1>3 DEF Series
  <2>2. \A u \in Tickers : Len(candles'[u]) <= MaxBar
    <3> SUFFICES ASSUME NEW u \in Tickers
                 PROVE  Len(candles'[u]) <= MaxBar
      OBVIOUS
    <3>1. CASE u = t
      <4>1. candles'[t] = Append(candles[t], close) /\ candles[t] \in Series
        BY <1>2, <1>3
      <4>2. Len(candles'[t]) = Len(candles[t]) + 1 /\ Len(candles[t]) \in Nat
        BY <4>1 DEF Series
      <4> QED
        BY <1>2, <3>1, <4>2, ReversalAssumption
    <3>2. CASE u # t
      BY <1>2, <1>3, <3>2 DEF Inv, TypeOK
    <3> QED
      BY <3>1, <3>2
  <2> QED
    BY <2>1, <2>2 DEF Collect, Inv, TypeOK, Series
<1>6. RowsOK'
  BY <1>1, <1>4 DEF Inv, TypeOK, RowsOK
<1>7. SeenOK'
  <2>1. \A w \in Workers : proc[w].seen \in Seq(Trade)
    BY DEF Inv, TypeOK, Proc
  <2> QED
    BY <1>1, <1>4, <2>1 DEF Inv, SeenOK
<1>8. OrderOK' /\ PositionsApart'
  BY <1>1 DEF Inv, OrderOK, PositionsApart
<1>9. HandsOK' /\ TellingOK'
  BY <1>1, HandsKept
<1> QED
  BY <1>1, <1>5, <1>6, <1>7, <1>8, <1>9, NotesKept, ChannelKept DEF Inv

LEMMA SkipStep ==
    ASSUME Inv, NEW w \in Workers, Skip(w)
    PROVE  Inv'
<1>1. /\ proc[w].at = "idle" /\ (UNCHANGED troubles \/ Trouble)
      /\ UNCHANGED <<btc, candles, watermark, trades, outbox, channel, doubted, overtaken>>
  BY DEF Skip, Starts, At, market
<1>2. Moved(w, "select", {})
  BY GoToMoves DEF Skip, Inv
<1>3. TypeOK'
  BY <1>1, <1>2, TroubleTyped DEF Moved, Inv, TypeOK
<1>4. SeenOK' /\ HandsOK' /\ TellingOK'
  BY <1>1, <1>2, SeenMoved, HandsDropped, TellingDropped DEF Shown
<1> QED
  BY <1>1, <1>3, <1>4, JournalKept, NotesKept, ChannelKept DEF Inv

LEMMA InitializeStep ==
    ASSUME Inv, NEW w \in Workers, Initialize(w)
    PROVE  Inv'
<1>1. /\ proc[w].at = "trades"
      /\ watermark' = IF watermark = 0 THEN proc[w].latest ELSE watermark
      /\ UNCHANGED <<btc, candles, trades, outbox, channel, troubles, doubted, overtaken>>
  BY DEF Initialize, At, market
<1>2. Moved(w, "select", {})
  BY GoToMoves DEF Initialize, Inv
<1>3. proc[w].latest \in Nat /\ proc[w].latest \in 0..MaxBar /\ watermark \in Nat
  BY ReversalAssumption DEF Inv, TypeOK, Proc
<1>4. TypeOK'
  BY <1>1, <1>2, <1>3 DEF Moved, Inv, TypeOK
<1>5. SeenOK' /\ HandsOK' /\ TellingOK'
  BY <1>1, <1>2, SeenMoved, HandsDropped, TellingDropped DEF Shown
<1>6. RowsOK' /\ PositionsApart'
  BY <1>1 DEF Inv, RowsOK, PositionsApart
<1>7. OrderOK'
  <2>1. \A i \in DOMAIN trades : trades[i].exit \in Nat
    <3>1. \A i \in DOMAIN trades : trades[i] \in Trade
      BY DEF Inv, TypeOK
    <3> QED
      BY <3>1, ReversalAssumption DEF Trade, Bars
  <2> QED
    BY <1>1, <1>3, <2>1 DEF Inv, OrderOK
<1> QED
  BY <1>1, <1>4, <1>5, <1>6, <1>7, NotesKept, ChannelKept DEF Inv

LEMMA ReadStep ==
    ASSUME Inv, NEW w \in Workers, Read(w) \/ ReadState(w) \/ ReadTrades(w)
    PROVE  Inv'
<1>1. /\ UNCHANGED troubles \/ Trouble
      /\ UNCHANGED <<btc, candles, watermark, trades, outbox, channel, doubted, overtaken>>
  BY DEF Read, ReadState, ReadTrades, Starts, market
<1>2. /\ proc[w].at \in {"idle", "state", "trades"}
      /\ proc' \in [Workers -> Proc]
      /\ \A v \in Workers \ {w} : proc'[v] = proc[v]
      /\ proc'[w].at \in Reading /\ proc'[w].latest \in Bars
      /\ proc'[w].batch = proc[w].batch \/ proc'[w].batch = {}
      /\ proc'[w].seen \in {<<>>, proc[w].seen, trades}
  BY ReadMoves DEF Inv
<1>3. TypeOK'
  BY <1>1, <1>2, TroubleTyped DEF Inv, TypeOK
<1>4. /\ proc[w].batch = {}
      /\ \A v \in Workers :
            /\ proc'[v].at = proc[v].at \/ v = w
            /\ proc'[v].batch = proc[v].batch
            /\ v # w => proc'[v] = proc[v]
  BY <1>1, <1>2 DEF Inv, HandsOK
<1>5. SeenOK'
  <2>1. \A i \in DOMAIN trades : SameTrade(trades[i], trades[i])
    BY DEF SameTrade
  <2> SUFFICES ASSUME NEW v \in Workers
               PROVE  /\ proc'[v].at \in Reading => proc'[v].latest \in Bars
                      /\ \A i \in DOMAIN proc'[v].seen :
                            /\ i \in DOMAIN trades
                            /\ RowOK(candles[proc'[v].seen[i].ticker], proc'[v].seen[i])
                            /\ SameTrade(proc'[v].seen[i], trades[i])
    BY <1>1 DEF SeenOK
  <2>2. CASE v = w
    <3>1. CASE proc'[w].seen = <<>>
      BY <1>2, <2>2, <3>1
    <3>2. CASE proc'[w].seen = proc[w].seen
      BY <1>2, <2>2, <3>2 DEF Inv, SeenOK
    <3>3. CASE proc'[w].seen = trades
      BY <1>2, <2>1, <2>2, <3>3 DEF Inv, RowsOK
    <3> QED
      BY <1>2, <3>1, <3>2, <3>3
  <2>3. CASE v # w
    BY <1>4, <2>3 DEF Inv, SeenOK
  <2> QED
    BY <2>2, <2>3
<1>6. \A v \in Workers :
          /\ \A n : (Holds(v, n)' <=> Holds(v, n)) /\ (Shown(v, n)' <=> Shown(v, n))
          /\ \A m : First(v, m)' <=> First(v, m)
  <2>1. proc[w].at # "record" /\ proc'[w].at # "record"
    BY <1>2 DEF Reading
  <2> QED
    BY <1>1, <1>2, <1>4, <2>1 DEF Holds, Shown, First
<1>7. HandsOK'
  <2>1. \A v \in Workers : v = w => proc'[v].at \in Reading /\ proc'[v].batch = {}
    BY <1>2, <1>4
  <2> QED
    BY <1>1, <1>4, <1>6, <2>1, NotesKept, ChannelKept DEF Inv, HandsOK, Reading
<1>8. TellingOK'
  BY <1>1, <1>6, ChannelKept DEF Inv, TellingOK, SureOK
<1> QED
  BY <1>1, <1>3, <1>5, <1>7, <1>8, JournalKept, NotesKept, ChannelKept DEF Inv

LEMMA CrashStep ==
    ASSUME Inv, NEW w \in Workers, Crash(w)
    PROVE  Inv'
<1>1. /\ Trouble
      /\ UNCHANGED <<btc, candles, watermark, trades, outbox, channel, overtaken>>
      /\ doubted' = doubted \cup (IF proc[w].at = "record"
                                  THEN {m.message.event : m \in {b \in proc[w].batch : First(w, b)}}
                                  ELSE {})
  BY DEF Crash, At, market
<1>2. Moved(w, "idle", {})
  BY GoToMoves DEF Crash, Inv
<1>3. \A m \in proc[w].batch :
          m.id \in DOMAIN outbox /\ m.message.event = outbox[m.id].event /\ m.message.event \in Event
  BY MessageSound DEF Inv, HandsOK
<1>4. \A n \in DOMAIN outbox : Shown(w, n) => outbox[n].event \in doubted'
  BY <1>1, <1>3 DEF Shown
<1>5. TypeOK'
  <2>1. doubted' \subseteq Event
    BY <1>1, <1>3 DEF Inv, TypeOK
  <2> QED
    BY <1>1, <1>2, <2>1, TroubleTyped DEF Moved, Inv, TypeOK
<1>6. doubted \subseteq doubted'
  BY <1>1
<1>7. SeenOK' /\ HandsOK' /\ TellingOK'
  BY <1>1, <1>2, <1>4, <1>6, SeenMoved, HandsDropped, TellingDropped
<1> QED
  BY <1>1, <1>5, <1>7, JournalKept, NotesKept, ChannelKept DEF Inv

\* A row is taken in hand: if another run has it already, its event is in doubt.
LEMMA SelectStep ==
    ASSUME Inv, NEW w \in Workers, Select(w)
    PROVE  Inv'
<1> DEFINE batch == {[id |-> n, message |-> MessageOf(n)] : n \in Batch}
           place == IF batch = {} THEN "idle" ELSE "send"
<1>1. /\ proc[w].at = "select" /\ Continue(w, batch)
      /\ doubted' = doubted \cup {m.message.event : m \in
            batch \cap UNION {proc[v].batch : v \in Workers \ {w}}}
      /\ UNCHANGED <<btc, candles, watermark, trades, outbox, channel, troubles, overtaken>>
  BY DEF Select, At, market
<1>2. \A n \in Batch : n \in DOMAIN outbox /\ outbox[n].status # "sent"
  BY DEF Batch, Waiting
<1>3. \A n \in Batch : /\ n \in Nat /\ MessageOf(n) \in Message
                       /\ MessageOf(n).event = outbox[n].event /\ MessageOf(n).event \in Event
  <2>1. DOMAIN outbox \in SUBSET Nat
    BY DEF Inv, TypeOK
  <2> QED
    BY <1>2, <2>1, MessageSound
<1>4. batch \in SUBSET [id: Nat, message: Message]
  BY <1>3
<1>5. \A m \in batch : /\ m.id \in Batch /\ m.id \in DOMAIN outbox /\ m.message = MessageOf(m.id)
                       /\ m.message.event = outbox[m.id].event /\ m.message.event \in Event
  BY <1>2, <1>3
<1>6. Moved(w, place, batch) /\ place \in {"idle", "select", "send"}
  BY <1>1, <1>4, ContinueMoves DEF Inv
<1>7. TypeOK'
  <2>1. doubted' \subseteq Event
    BY <1>1, <1>5 DEF Inv, TypeOK
  <2> QED
    BY <1>1, <1>6, <2>1 DEF Moved, Inv, TypeOK
<1>8. SeenOK'
  BY <1>1, <1>6, SeenMoved
<1>9. \A v \in Workers \ {w} :
          /\ proc'[v] = proc[v]
          /\ \A n : (Holds(v, n)' <=> Holds(v, n)) /\ (Shown(v, n)' <=> Shown(v, n))
          /\ \A m : First(v, m)' <=> First(v, m)
  BY <1>6, OthersSame DEF Moved
<1>10. proc'[w].at = place /\ proc'[w].batch = batch
  BY <1>6 DEF Moved
<1>11. /\ \A n : MessageOf(n)' = MessageOf(n)
       /\ \A e : ToldIn(channel', e) = ToldIn(channel, e)
  BY <1>1, NotesKept, ChannelKept
<1>12. HandsOK'
  <2> SUFFICES ASSUME NEW v \in Workers
               PROVE  /\ proc'[v].at \notin {"send", "record"} => proc'[v].batch = {}
                      /\ proc'[v].at = "record" => proc'[v].outcome \in {"sent", "failed"}
                      /\ \A m \in proc'[v].batch : m.id \in DOMAIN outbox /\ m.message = MessageOf(m.id)
                      /\ proc'[v].at = "record" /\ proc'[v].outcome = "sent" =>
                            \A m \in proc'[v].batch : First(v, m)' => ToldIn(channel, outbox[m.id].event) # {}
    BY <1>1, <1>11 DEF HandsOK
  <2>1. CASE v = w
    BY <1>5, <1>10, <2>1
  <2>2. CASE v # w
    BY <1>9, <2>2 DEF Inv, HandsOK
  <2> QED
    BY <2>1, <2>2
<1>13. TellingOK'
  <2> SUFFICES ASSUME NEW n \in DOMAIN outbox, outbox[n].event \notin doubted'
               PROVE  SureOK(n)'
    BY <1>1, <1>11 DEF Inv, TellingOK
  <2>1. SureOK(n)
    BY <1>1 DEF Inv, TellingOK
  <2>2. ~Shown(w, n)
    BY <1>1 DEF Shown
  <2>3. Holds(w, n)' => n \in Batch
    BY <1>5, <1>10 DEF Holds
  <2>4. ASSUME NEW v \in Workers \ {w}, Holds(v, n), Holds(w, n)'
        PROVE  FALSE
    <3>1. PICK m \in proc[v].batch : m.id = n
      BY <2>4 DEF Holds
    <3>2. m \in [id: Nat, message: Message] /\ m.message = MessageOf(n)
      BY <3>1 DEF Inv, HandsOK, TypeOK, Proc
    <3>3. m = [id |-> n, message |-> MessageOf(n)]
      BY <3>1, <3>2
    <3>4. m \in batch
      BY <2>3, <2>4, <3>3
    <3> HIDE DEF batch
    <3>5. m.message.event \in doubted'
      BY <1>1, <3>1, <3>4
    <3>6. m.message.event = outbox[n].event
      BY <1>5, <3>1, <3>4
    <3> QED
      BY <3>5, <3>6
  <2>5. \A v, u \in Workers : Holds(v, n)' /\ Holds(u, n)' => v = u
    BY <1>9, <2>1, <2>4 DEF SureOK
  <2>6. \A v \in Workers : Holds(v, n)' => outbox[n].status # "sent"
    BY <1>2, <1>9, <2>1, <2>3 DEF SureOK
  <2>7. \A v \in Workers : Shown(v, n) => Shown(v, n)'
    BY <1>9, <2>2
  <2> QED
    BY <1>1, <1>11, <2>1, <2>5, <2>6, <2>7 DEF SureOK
<1> QED
  BY <1>1, <1>7, <1>8, <1>12, <1>13, JournalKept, NotesKept, ChannelKept DEF Inv

\* A message that nobody else has in hand is told for the first time.
LEMMA SendStep ==
    ASSUME Inv, NEW w \in Workers, Send(w)
    PROVE  Inv'
<1>1. /\ proc[w].at = "send"
      /\ UNCHANGED <<btc, candles, watermark, trades, outbox, overtaken>>
  BY DEF Send, At, market
<1>2. PICK m \in proc[w].batch : First(w, m) /\
          \/ /\ channel' = Append(channel, m.message) /\ Called(w, "sent")
             /\ UNCHANGED <<troubles, doubted>>
          \/ /\ channel' = channel /\ Called(w, "failed") /\ Trouble /\ UNCHANGED doubted
          \/ /\ channel' = Append(channel, m.message) /\ Called(w, "failed") /\ Trouble
             /\ doubted' = doubted \cup {m.message.event}
  BY Sends DEF Inv
<1> DEFINE e == outbox[m.id].event
<1>3. /\ m.id \in DOMAIN outbox /\ m.message = MessageOf(m.id)
      /\ m.message \in Message /\ Says(m.message) /\ m.message.event = e /\ e \in Event
  <2>1. m.id \in DOMAIN outbox /\ m.message = MessageOf(m.id)
    BY DEF Inv, HandsOK
  <2> QED
    BY <2>1, MessageSound
<1>4. PICK outcome \in {"sent", "failed"} : Called(w, outcome)
  BY <1>2
<1>5. channel \in Seq(Message) /\ (channel' = channel \/ channel' = Append(channel, m.message))
  BY <1>2 DEF Inv, TypeOK
<1>6. /\ \A k \in DOMAIN channel : k \in DOMAIN channel' /\ channel'[k] = channel[k]
      /\ \A k \in DOMAIN channel' \ DOMAIN channel : k = Len(channel) + 1 /\ channel'[k] = m.message
      /\ channel' = Append(channel, m.message) =>
            Len(channel) + 1 \in DOMAIN channel' /\ channel'[Len(channel) + 1] = m.message
  BY <1>3, <1>5
<1>7. /\ \A x : \A k \in ToldIn(channel, x) : k \in ToldIn(channel', x)
      /\ \A x : x # e => \A k \in ToldIn(channel', x) : k \in ToldIn(channel, x)
      /\ \A k \in ToldIn(channel', e) : k \in ToldIn(channel, e) \/ k = Len(channel) + 1
      /\ channel' = channel => \A x : ToldIn(channel', x) = ToldIn(channel, x)
      /\ channel' = Append(channel, m.message) => ToldIn(channel', e) # {}
  <2>1. \A x : \A k \in ToldIn(channel, x) : k \in ToldIn(channel', x)
    <3> SUFFICES ASSUME NEW x, NEW k \in ToldIn(channel, x)
                 PROVE  k \in ToldIn(channel', x)
      OBVIOUS
    <3>1. k \in DOMAIN channel /\ channel[k].event = x
      BY DEF ToldIn
    <3> QED
      BY <1>6, <3>1 DEF ToldIn
  <2>2. \A x : \A k \in ToldIn(channel', x) : k \in ToldIn(channel, x) \/ (k = Len(channel) + 1 /\ x = e)
    <3> SUFFICES ASSUME NEW x, NEW k \in ToldIn(channel', x)
                 PROVE  k \in ToldIn(channel, x) \/ (k = Len(channel) + 1 /\ x = e)
      OBVIOUS
    <3>1. k \in DOMAIN channel' /\ channel'[k].event = x
      BY DEF ToldIn
    <3>2. CASE k \in DOMAIN channel
      BY <1>6, <3>1, <3>2 DEF ToldIn
    <3>3. CASE k \notin DOMAIN channel
      BY <1>3, <1>6, <3>1, <3>3
    <3> QED
      BY <3>2, <3>3
  <2>3. channel' = channel => \A x : ToldIn(channel', x) = ToldIn(channel, x)
    BY DEF ToldIn
  <2>4. channel' = Append(channel, m.message) => Len(channel) + 1 \in ToldIn(channel', e)
    BY <1>1, <1>3, <1>6 DEF ToldIn
  <2> QED
    BY <2>1, <2>2, <2>3, <2>4
<1>8. TypeOK'
  <2>1. channel' \in Seq(Message)
    BY <1>3, <1>5
  <2>2. doubted' \subseteq Event /\ (UNCHANGED troubles \/ Trouble)
    BY <1>2, <1>3 DEF Inv, TypeOK
  <2> QED
    BY <1>1, <1>4, <2>1, <2>2, TroubleTyped DEF Called, Inv, TypeOK
<1>9. SeenOK'
  <2>1. \A v \in Workers :
            /\ proc'[v].seen = proc[v].seen
            /\ proc'[v].at \in Reading => proc'[v] = proc[v]
    BY <1>4 DEF Called, Reading
  <2> QED
    BY <1>1, <2>1 DEF Inv, SeenOK
<1>10. ChannelOK'
  <2>1. \A x : Says(x)' <=> Says(x)
    BY <1>1 DEF Says
  <2> QED
    BY <1>1, <1>3, <1>6, <2>1 DEF Inv, ChannelOK
<1>11. \A v \in Workers \ {w} :
          /\ proc'[v] = proc[v]
          /\ \A n : (Holds(v, n)' <=> Holds(v, n)) /\ (Shown(v, n)' <=> Shown(v, n))
          /\ \A x : First(v, x)' <=> First(v, x)
  BY <1>4, OthersSame DEF Called
<1>12. /\ proc'[w].at = "record" /\ proc'[w].outcome = outcome /\ proc'[w].batch = proc[w].batch
       /\ \A n : Holds(w, n)' <=> Holds(w, n)
       /\ \A x : First(w, x)' <=> First(w, x)
  BY <1>4 DEF Called, Holds, First
<1>13. outcome = "sent" => channel' = Append(channel, m.message)
  <2>1. Called(w, "failed") => outcome = "failed"
    BY <1>12 DEF Called
  <2> QED
    BY <1>2, <2>1
<1>14. \A x \in proc[w].batch : First(w, x) => x.id = m.id
  <2>1. \A x \in proc[w].batch : x.id \in Nat
    BY DEF Inv, TypeOK, Proc
  <2> QED
    BY <1>2, <2>1 DEF First
<1>15. HandsOK'
  <2>1. \A n : MessageOf(n)' = MessageOf(n)
    BY <1>1, NotesKept
  <2> SUFFICES ASSUME NEW v \in Workers
               PROVE  /\ proc'[v].at \notin {"send", "record"} => proc'[v].batch = {}
                      /\ proc'[v].at = "record" => proc'[v].outcome \in {"sent", "failed"}
                      /\ \A x \in proc'[v].batch : x.id \in DOMAIN outbox /\ x.message = MessageOf(x.id)
                      /\ proc'[v].at = "record" /\ proc'[v].outcome = "sent" =>
                            \A x \in proc'[v].batch : First(v, x)' => ToldIn(channel', outbox[x.id].event) # {}
    BY <1>1, <2>1 DEF HandsOK
  <2>2. CASE v = w
    BY <1>7, <1>12, <1>13, <1>14, <2>2 DEF Inv, HandsOK
  <2>3. CASE v # w
    <3>1. proc'[v] = proc[v] /\ \A x : First(v, x)' <=> First(v, x)
      BY <1>11, <2>3
    <3>2. /\ proc[v].at \notin {"send", "record"} => proc[v].batch = {}
          /\ proc[v].at = "record" => proc[v].outcome \in {"sent", "failed"}
          /\ \A x \in proc[v].batch : x.id \in DOMAIN outbox /\ x.message = MessageOf(x.id)
          /\ proc[v].at = "record" /\ proc[v].outcome = "sent" =>
                \A x \in proc[v].batch : First(v, x) => ToldIn(channel, outbox[x.id].event) # {}
      BY DEF Inv, HandsOK
    <3>3. \A x : ToldIn(channel, x) # {} => ToldIn(channel', x) # {}
      BY <1>7
    <3> QED
      BY <3>1, <3>2, <3>3
  <2> QED
    BY <2>2, <2>3
<1>16. TellingOK'
  <2> SUFFICES ASSUME NEW n \in DOMAIN outbox
               PROVE  /\ outbox[n].status = "sent" => ToldIn(channel', outbox[n].event) # {}
                      /\ outbox[n].event \notin doubted' => SureOK(n)'
    BY <1>1 DEF TellingOK
  <2>1. outbox[n].status = "sent" => ToldIn(channel', outbox[n].event) # {}
    <3>1. outbox[n].status = "sent" => ToldIn(channel, outbox[n].event) # {}
      BY DEF Inv, TellingOK
    <3> QED
      BY <1>7, <3>1
  <2>2. ASSUME outbox[n].event \notin doubted'
        PROVE  SureOK(n)'
    <3>1. SureOK(n) /\ ~Shown(w, n)
      BY <1>1, <1>2, <2>2 DEF Inv, TellingOK, Shown
    <3>2. \A v \in Workers : Holds(v, n)' <=> Holds(v, n)
      BY <1>11, <1>12
    <3>3. \A v \in Workers : Shown(v, n) => Shown(v, n)'
      BY <1>11, <3>1
    <3>4. CASE outbox[n].event # e
      <4>1. ToldIn(channel', outbox[n].event) = ToldIn(channel, outbox[n].event)
        <5>1. \A k \in ToldIn(channel, outbox[n].event) : k \in ToldIn(channel', outbox[n].event)
          BY <1>7
        <5>2. \A k \in ToldIn(channel', outbox[n].event) : k \in ToldIn(channel, outbox[n].event)
          BY <1>7, <3>4
        <5> QED
          BY <5>1, <5>2
      <4> QED
        BY <1>1, <3>1, <3>2, <3>3, <4>1 DEF SureOK
    <3>5. CASE outbox[n].event = e /\ channel' = channel
      BY <1>1, <1>7, <3>1, <3>2, <3>3, <3>5 DEF SureOK
    <3>6. CASE outbox[n].event = e /\ channel' = Append(channel, m.message)
      <4>1. n = m.id
        BY <1>3, <3>6 DEF Inv, NotesOK
      <4>2. Holds(w, n)
        BY <4>1 DEF Holds
      <4>3. \A v \in Workers : ~Shown(v, n)
        <5>1. \A v \in Workers : Shown(v, n) => Holds(v, n)
          BY DEF Shown, Holds
        <5> QED
          BY <3>1, <4>2, <5>1 DEF SureOK
      <4>4. ToldIn(channel, outbox[n].event) = {}
        BY <3>1, <4>2, <4>3 DEF SureOK
      <4>5. \A a, b \in ToldIn(channel', outbox[n].event) : a = b
        <5>1. \A k \in ToldIn(channel', outbox[n].event) : k = Len(channel) + 1
          BY <1>7, <3>6, <4>4
        <5> QED
          BY <5>1
      <4>6. outcome = "sent"
        <5>1. channel' # channel
          BY <1>5, <3>6
        <5>2. Called(w, "sent")
          BY <1>2, <1>3, <2>2, <3>6, <5>1
        <5> QED
          BY <1>12, <5>2 DEF Called
      <4>7. Shown(w, n)'
        BY <1>2, <1>12, <4>1, <4>6 DEF Shown
      <4> QED
        BY <1>1, <3>1, <3>2, <4>5, <4>7 DEF SureOK
    <3> QED
      BY <1>5, <3>4, <3>5, <3>6
  <2> QED
    BY <2>1, <2>2
<1> QED
  BY <1>1, <1>8, <1>9, <1>10, <1>15, <1>16, JournalKept, NotesKept DEF Inv

LEMMA RecordedFields ==
    ASSUME NEW note \in Note, NEW outcome \in {"sent", "failed"}
    PROVE  LET new == Recorded(note, outcome) IN
           /\ new \in Note /\ new.event = note.event
           /\ new.status = IF note.status = "sent" THEN "sent" ELSE outcome
<1>1. CASE note.status = "sent"
  BY <1>1 DEF Recorded
<1>2. CASE note.status # "sent"
  <2> DEFINE new == [note EXCEPT !.status = outcome, !.attempts = @ + 1]
  <2>1. Recorded(note, outcome) = new
    BY <1>2 DEF Recorded
  <2>2. note.attempts + 1 \in Nat
    BY DEF Note
  <2>3. new \in Note
    BY <2>2 DEF Note
  <2>4. new.event = note.event /\ new.status = outcome
    BY DEF Note
  <2> HIDE DEF new
  <2> QED
    BY <1>2, <2>1, <2>3, <2>4
<1> QED
  BY <1>1, <1>2

\* What was told is marked as sent, and the message is put down.
LEMMA RecordStep ==
    ASSUME Inv, NEW w \in Workers, Record(w)
    PROVE  Inv'
<1>1. /\ proc[w].at = "record"
      /\ UNCHANGED <<btc, candles, watermark, trades, channel, troubles, doubted, overtaken>>
  BY DEF Record, At, market
<1>2. PICK m \in proc[w].batch :
          /\ First(w, m)
          /\ outbox' = [outbox EXCEPT ![m.id] = Recorded(outbox[m.id], proc[w].outcome)]
          /\ Continue(w, proc[w].batch \ {m})
  BY DEF Record
<1> DEFINE rest == proc[w].batch \ {m}
           place == IF rest = {} THEN "idle" ELSE "send"
           outcome == proc[w].outcome
<1>3. /\ proc[w].batch \in SUBSET [id: Nat, message: Message]
      /\ outcome \in {"sent", "failed"}
      /\ \A x \in proc[w].batch : x.id \in DOMAIN outbox /\ x.message = MessageOf(x.id)
  BY <1>1 DEF Inv, HandsOK, TypeOK, Proc
<1>4. \A x \in rest : x.id # m.id
  <2> SUFFICES ASSUME NEW x \in proc[w].batch, x.id = m.id
               PROVE  x = m
    OBVIOUS
  <2>1. x.message = m.message
    BY <1>3
  <2> QED
    BY <1>3, <2>1
<1>5. \A x \in proc[w].batch : First(w, x) => x.id = m.id
  BY <1>2, <1>3 DEF First
<1>6. Moved(w, place, rest) /\ place \in {"idle", "select", "send"}
  BY <1>2, <1>3, ContinueMoves DEF Inv
<1> DEFINE note == Recorded(outbox[m.id], outcome)
<1>7. /\ note \in Note /\ note.event = outbox[m.id].event
      /\ note.status = IF outbox[m.id].status = "sent" THEN "sent" ELSE outcome
  <2>1. outbox[m.id] \in Note
    BY <1>3 DEF Inv, TypeOK
  <2> QED
    BY <1>3, <2>1, RecordedFields
<1>8. /\ outbox' \in Seq(Note) /\ DOMAIN outbox' = DOMAIN outbox
      /\ outbox'[m.id] = note
      /\ \A n \in DOMAIN outbox \ {m.id} : outbox'[n] = outbox[n]
  <2> HIDE DEF note
  <2>1. outbox' = [outbox EXCEPT ![m.id] = note] /\ outbox \in Seq(Note)
    BY <1>2 DEF note, Inv, TypeOK
  <2> QED
    BY <1>3, <1>7, <2>1
<1>9. \A n \in DOMAIN outbox :
          /\ outbox'[n].event = outbox[n].event
          /\ n # m.id => outbox'[n].status = outbox[n].status
          /\ outbox[n].status = "sent" => outbox'[n].status = "sent"
  BY <1>7, <1>8
<1> HIDE DEF note, place
<1>10. TypeOK'
  BY <1>1, <1>6, <1>8 DEF Moved, Inv, TypeOK
<1>11. SeenOK'
  BY <1>1, <1>6, SeenMoved
<1>12. NotesOK' /\ ChannelOK'
  <2>1. \A x : Says(x)' <=> Says(x)
    BY <1>1 DEF Says
  <2>2. NotesOK'
    BY <1>1, <1>8, <1>9 DEF Inv, NotesOK
  <2> QED
    BY <1>1, <1>8, <1>9, <2>1, <2>2 DEF Inv, ChannelOK
<1>13. \A n \in DOMAIN outbox : MessageOf(n)' = MessageOf(n)
  BY <1>1, <1>9 DEF MessageOf
<1>14. \A v \in Workers \ {w} :
          /\ proc'[v] = proc[v]
          /\ \A n : (Holds(v, n)' <=> Holds(v, n)) /\ (Shown(v, n)' <=> Shown(v, n))
          /\ \A x : First(v, x)' <=> First(v, x)
  BY <1>6, OthersSame DEF Moved
<1>15. proc'[w].at = place /\ proc'[w].batch = rest /\ place # "record"
       /\ (place \notin {"send", "record"} => rest = {})
  BY <1>6 DEF Moved, place
<1>16. HandsOK'
  <2> SUFFICES ASSUME NEW v \in Workers
               PROVE  /\ proc'[v].at \notin {"send", "record"} => proc'[v].batch = {}
                      /\ proc'[v].at = "record" => proc'[v].outcome \in {"sent", "failed"}
                      /\ \A x \in proc'[v].batch : x.id \in DOMAIN outbox' /\ x.message = MessageOf(x.id)
                      /\ proc'[v].at = "record" /\ proc'[v].outcome = "sent" =>
                            \A x \in proc'[v].batch : First(v, x)' => ToldIn(channel', outbox'[x.id].event) # {}
    BY <1>8, <1>13 DEF HandsOK
  <2>1. CASE v = w
    <3>1. proc'[v].at # "record" /\ proc'[v].batch = rest /\ (proc'[v].at \notin {"send", "record"} => rest = {})
      BY <1>15, <2>1
    <3>2. \A x \in rest : x.id \in DOMAIN outbox' /\ x.message = MessageOf(x.id)
      BY <1>3, <1>8
    <3> QED
      BY <3>1, <3>2
  <2>2. CASE v # w
    <3>1. proc'[v] = proc[v] /\ \A x : First(v, x)' <=> First(v, x)
      BY <1>14, <2>2
    <3>2. /\ proc[v].at \notin {"send", "record"} => proc[v].batch = {}
          /\ proc[v].at = "record" => proc[v].outcome \in {"sent", "failed"}
          /\ \A x \in proc[v].batch : x.id \in DOMAIN outbox /\ x.message = MessageOf(x.id)
          /\ proc[v].at = "record" /\ proc[v].outcome = "sent" =>
                \A x \in proc[v].batch : First(v, x) => ToldIn(channel, outbox[x.id].event) # {}
      BY DEF Inv, HandsOK
    <3> QED
      BY <1>1, <1>8, <1>9, <1>13, <3>1, <3>2
  <2> QED
    BY <2>1, <2>2
<1>17. TellingOK'
  <2> SUFFICES ASSUME NEW n \in DOMAIN outbox
               PROVE  /\ outbox'[n].status = "sent" => ToldIn(channel, outbox[n].event) # {}
                      /\ outbox[n].event \notin doubted => SureOK(n)'
    BY <1>1, <1>8, <1>9 DEF TellingOK
  <2>1. outbox'[n].status = "sent" => ToldIn(channel, outbox[n].event) # {}
    <3>1. outbox[n].status = "sent" => ToldIn(channel, outbox[n].event) # {}
      BY DEF Inv, TellingOK
    <3>2. outcome = "sent" => ToldIn(channel, outbox[m.id].event) # {}
      BY <1>1, <1>2 DEF Inv, HandsOK
    <3>3. n = m.id /\ outbox'[n].status = "sent" => outbox[n].status = "sent" \/ outcome = "sent"
      BY <1>7, <1>8
    <3> QED
      BY <1>9, <3>1, <3>2, <3>3
  <2>2. ASSUME outbox[n].event \notin doubted
        PROVE  SureOK(n)'
    <3>1. SureOK(n)
      BY <2>2 DEF Inv, TellingOK
    <3>2. \A v \in Workers : Holds(v, n)' => Holds(v, n)
      <4>1. Holds(w, n)' => Holds(w, n)
        BY <1>15 DEF Holds
      <4> QED
        BY <1>14, <4>1
    <3>3. \A v \in Workers : Shown(v, n) => Shown(v, n)' \/ outbox'[n].status = "sent"
      <4>1. Shown(w, n) => outbox'[n].status = "sent"
        BY <1>5, <1>7, <1>8 DEF Shown
      <4> QED
        BY <1>14, <4>1
    <3>4. \A v \in Workers : Holds(v, n)' => outbox'[n].status # "sent"
      <4>1. CASE n # m.id
        BY <1>9, <3>1, <3>2, <4>1 DEF SureOK
      <4>2. CASE n = m.id
        <5>1. Holds(w, n)
          BY <1>2, <4>2 DEF Holds
        <5>2. ~(Holds(w, n)')
          BY <1>4, <1>15, <4>2 DEF Holds
        <5> QED
          BY <3>1, <3>2, <5>1, <5>2 DEF SureOK
      <4> QED
        BY <4>1, <4>2
    <3>5. /\ \A a, b \in ToldIn(channel, outbox[n].event) : a = b
          /\ ToldIn(channel, outbox[n].event) # {} =>
                outbox[n].status = "sent" \/ \E v \in Workers : Shown(v, n)
          /\ \A v, u \in Workers : Holds(v, n) /\ Holds(u, n) => v = u
      BY <3>1 DEF SureOK
    <3>6. ToldIn(channel, outbox[n].event) # {} =>
              outbox'[n].status = "sent" \/ \E v \in Workers : Shown(v, n)'
      BY <1>9, <3>3, <3>5
    <3>7. ToldIn(channel', outbox'[n].event) = ToldIn(channel, outbox[n].event)
      BY <1>1, <1>9
    <3> QED
      BY <3>2, <3>4, <3>5, <3>6, <3>7 DEF SureOK
  <2> QED
    BY <2>1, <2>2
<1> QED
  BY <1>1, <1>10, <1>11, <1>12, <1>16, <1>17, JournalKept DEF Inv

\* What a pass keeps of the rows it finds.
LEMMA PassKeeps ==
    ASSUME Inv, NEW w \in Workers, Advance(w)
    PROVE  /\ trades \in Seq(Trade) /\ trades' \in Seq(Trade)
           /\ \A i \in DOMAIN trades :
                 /\ i \in DOMAIN trades' /\ i \in Nat /\ Carried(w, i, trades'[i])
                 /\ trades[i] \in Trade /\ trades'[i] \in Trade
                 /\ SameTrade(trades'[i], trades[i])
                 /\ ~Active(trades[i]) => trades'[i] = trades[i]
           /\ \A i \in DOMAIN trades' \ DOMAIN trades :
                 i \in Len(trades) + 1..Len(trades') /\ Opens(w, trades'[i]) /\ i \in Nat
<1>1. Passed(w, trades') /\ trades \in Seq(Trade)
  BY Passes, CandlesTyped DEF Inv, TypeOK
<1>2. trades' \in Seq(Trade) /\ Len(trades') >= Len(trades) /\ Len(trades) \in Nat /\ Len(trades') \in Nat
  BY <1>1 DEF Passed
<1>3. DOMAIN trades = 1..Len(trades) /\ DOMAIN trades' = 1..Len(trades')
  BY <1>1, <1>2
<1>4. \A i \in DOMAIN trades :
          /\ i \in DOMAIN trades' /\ i \in Nat /\ Carried(w, i, trades'[i])
          /\ trades[i] \in Trade /\ trades'[i] \in Trade
  BY <1>1, <1>2, <1>3 DEF Passed
<1>5. \A i \in DOMAIN trades :
          SameTrade(trades'[i], trades[i]) /\ (~Active(trades[i]) => trades'[i] = trades[i])
  BY <1>4 DEF Carried
<1>6. \A i \in DOMAIN trades' \ DOMAIN trades : i \in Len(trades) + 1..Len(trades') /\ i \in Nat
  BY <1>2, <1>3
<1>7. \A i \in DOMAIN trades' \ DOMAIN trades : Opens(w, trades'[i])
  BY <1>1, <1>6 DEF Passed
<1> QED
  BY <1>1, <1>2, <1>4, <1>5, <1>6, <1>7

\* The journal of a pass: what is stale about it is what the run had read.
LEMMA AdvanceJournal ==
    ASSUME Inv, NEW w \in Workers, Advance(w)
    PROVE  RowsOK' /\ OrderOK' /\ PositionsApart'
<1>1. /\ Passed(w, trades') /\ proc[w].at = "write" /\ UNCHANGED candles
      /\ watermark' = IF proc[w].latest > proc[w].mark THEN proc[w].latest ELSE watermark
      /\ overtaken' = (overtaken \/ proc[w].seen # trades \/ proc[w].mark # watermark)
  BY Passes, CandlesTyped DEF Inv
<1>2. /\ \A i \in DOMAIN trades :
            /\ i \in DOMAIN trades' /\ i \in Nat /\ Carried(w, i, trades'[i])
            /\ trades[i] \in Trade /\ trades'[i] \in Trade
            /\ SameTrade(trades'[i], trades[i])
            /\ ~Active(trades[i]) => trades'[i] = trades[i]
      /\ \A i \in DOMAIN trades' \ DOMAIN trades :
            i \in Len(trades) + 1..Len(trades') /\ Opens(w, trades'[i]) /\ i \in Nat
      /\ trades' \in Seq(Trade) /\ trades \in Seq(Trade)
  BY PassKeeps
<1>3. RowsOK'
  <2> SUFFICES ASSUME NEW i \in DOMAIN trades'
               PROVE  RowOK(candles[trades'[i].ticker], trades'[i])
    BY <1>1 DEF RowsOK, RowOK
  <2>1. CASE i \in DOMAIN trades
    BY <1>2, <2>1 DEF Carried
  <2>2. CASE i \notin DOMAIN trades
    BY <1>2, <2>2 DEF Opens
  <2> QED
    BY <2>1, <2>2
<1>4. proc[w].latest \in Nat /\ proc[w].mark \in Nat /\ watermark \in Nat
  BY ReversalAssumption DEF Inv, TypeOK, Proc
<1>5. \A trade \in Trade : trade.exit \in Nat /\ trade.entry \in Nat
  BY ReversalAssumption DEF Trade, Bars
<1>6. ASSUME ~overtaken'
      PROVE  /\ proc[w].mark = watermark /\ watermark <= watermark' /\ proc[w].latest <= watermark'
             /\ \A i \in DOMAIN trades : ~Active(trades[i]) => trades[i].exit <= watermark
             /\ watermark' \in Nat
  <2>1. ~overtaken /\ proc[w].mark = watermark
    BY <1>1, <1>6, Zenon
  <2>2. \A i \in DOMAIN trades : ~Active(trades[i]) => trades[i].exit <= watermark
    BY <2>1 DEF Inv, OrderOK
  <2>3. watermark <= watermark' /\ proc[w].latest <= watermark' /\ watermark' \in Nat
    BY <1>1, <1>4, <2>1
  <2> QED
    BY <2>1, <2>2, <2>3
<1>7. OrderOK'
  <2> SUFFICES ASSUME ~overtaken', NEW i \in DOMAIN trades', ~Active(trades'[i])
               PROVE  trades'[i].exit <= watermark'
    BY DEF OrderOK, Active
  <2>1. i \in DOMAIN trades
    BY <1>2 DEF Opens
  <2>2. CASE Active(trades[i])
    <3>1. trades'[i].exit <= proc[w].latest
      BY <1>2, <2>1, <2>2 DEF Carried
    <3> QED
      BY <1>2, <1>4, <1>5, <1>6, <2>1, <3>1
  <2>3. CASE ~Active(trades[i])
    BY <1>2, <1>4, <1>5, <1>6, <2>1, <2>3
  <2> QED
    BY <2>2, <2>3
<1>8. PositionsApart'
  <2> SUFFICES ASSUME ~overtaken', NEW j \in DOMAIN trades', NEW i \in 1..j - 1,
                      trades'[i].ticker = trades'[j].ticker
               PROVE  ~Active(trades'[i]) /\ trades'[i].exit < trades'[j].entry
    BY DEF PositionsApart, Active
  <2>1. j \in Nat /\ i \in Nat /\ i < j /\ i \in DOMAIN trades'
    BY <1>2
  <2>2. CASE j \in DOMAIN trades
    <3>1. i \in DOMAIN trades
      BY <1>2, <2>1, <2>2
    <3>2. trades[i].ticker = trades[j].ticker /\ trades'[j].entry = trades[j].entry
      BY <1>2, <2>2, <3>1 DEF SameTrade
    <3>3. ~overtaken
      BY <1>1, Zenon
    <3>4. ~Active(trades[i]) /\ trades[i].exit < trades[j].entry
      BY <2>2, <3>2, <3>3 DEF Inv, PositionsApart
    <3> QED
      BY <1>2, <3>1, <3>2, <3>4
  <2>3. CASE j \notin DOMAIN trades
    <3>1. trades'[j].entry = proc[w].latest /\ proc[w].latest > proc[w].mark
      BY <1>2, <2>3 DEF Opens
    <3>2. j \in Len(trades) + 1..Len(trades')
      BY <1>2, <2>3
    <3>3. i \in DOMAIN trades
      <4>1. CASE i \notin DOMAIN trades
        <5>1. i \in Len(trades) + 1..Len(trades')
          BY <1>2, <2>1, <4>1
        <5>2. i = j
          BY <1>1, <3>2, <5>1 DEF Passed
        <5> QED
          BY <2>1, <5>2
      <4> QED
        BY <4>1
    <3>4. ~Active(trades'[i]) /\ i \notin Closing(w)
      BY <1>1, <3>2, <3>3 DEF Passed
    <3>5. ~Active(trades[i])
      BY <1>2, <3>3, <3>4 DEF Carried
    <3>6. trades'[i] = trades[i] /\ trades[i].exit <= watermark
      BY <1>2, <1>6, <3>3, <3>5
    <3> QED
      BY <1>2, <1>4, <1>5, <1>6, <3>1, <3>3, <3>4, <3>6
  <2> QED
    BY <2>2, <2>3
<1> QED
  BY <1>3, <1>7, <1>8


\* What the rows of the outbox tell does not change, and the new ones nobody has told.
LEMMA AdvanceNotes ==
    ASSUME Inv, NEW w \in Workers, Advance(w)
    PROVE  /\ NotesOK' /\ ChannelOK'
           /\ \A n \in DOMAIN outbox :
                 n \in DOMAIN outbox' /\ outbox'[n] = outbox[n] /\ MessageOf(n)' = MessageOf(n)
           /\ \A n \in DOMAIN outbox' \ DOMAIN outbox :
                 outbox'[n].status = "pending" /\ ToldIn(channel, outbox'[n].event) = {}
<1>1. /\ Grown(outbox, outbox', Happens(w, trades')) /\ UNCHANGED channel
      /\ proc[w].at = "write"
  BY Passes, CandlesTyped DEF Inv
<1>2. /\ \A i \in DOMAIN trades :
            /\ i \in DOMAIN trades' /\ i \in Nat /\ Carried(w, i, trades'[i])
            /\ trades[i] \in Trade /\ trades'[i] \in Trade
            /\ SameTrade(trades'[i], trades[i])
            /\ ~Active(trades[i]) => trades'[i] = trades[i]
      /\ trades' \in Seq(Trade) /\ trades \in Seq(Trade)
  BY PassKeeps
<1>3. Len(trades') >= Len(trades) /\ Len(trades) \in Nat /\ Len(trades') \in Nat
  BY Passes, CandlesTyped, <1>2 DEF Inv, Passed
<1>4. \A i \in Len(trades) + 1..Len(trades') : i \in DOMAIN trades'
  BY <1>2, <1>3
<1>5. /\ \A n \in DOMAIN outbox : n \in DOMAIN outbox' /\ outbox'[n] = outbox[n]
      /\ \A n \in DOMAIN outbox' \ DOMAIN outbox :
            /\ outbox'[n].event \in Happens(w, trades') /\ outbox'[n].status = "pending"
            /\ \A k \in DOMAIN outbox : outbox[k].event # outbox'[n].event
            /\ \A k \in DOMAIN outbox' \ DOMAIN outbox : outbox'[k].event = outbox'[n].event => k = n
  BY <1>1 DEF Grown
<1>6. \A e \in Happens(w, trades') :
          e.trade \in DOMAIN trades' /\ (e.kind = "closed" => ~Active(trades'[e.trade]))
  <2> SUFFICES ASSUME NEW e \in Happens(w, trades')
               PROVE  e.trade \in DOMAIN trades' /\ (e.kind = "closed" => ~Active(trades'[e.trade]))
    OBVIOUS
  <2>1. CASE \E i \in Closing(w) : e = [trade |-> i, kind |-> "closed"]
    <3>1. PICK i \in Closing(w) : e = [trade |-> i, kind |-> "closed"]
      BY <2>1
    <3>2. i \in DOMAIN trades
      BY DEF Closing, Open, Inv, SeenOK
    <3>3. ~Active(trades'[i])
      BY <1>2, <3>2 DEF Carried
    <3> QED
      BY <1>2, <3>1, <3>2, <3>3
  <2>2. CASE \E i \in Len(trades) + 1..Len(trades') : e = [trade |-> i, kind |-> "opened"]
    BY <1>4, <2>2
  <2> QED
    BY <2>1, <2>2 DEF Happens
<1>7. NotesOK'
  <2> SUFFICES ASSUME NEW n \in DOMAIN outbox'
               PROVE  /\ outbox'[n].event.trade \in DOMAIN trades'
                      /\ outbox'[n].event.kind = "closed" => ~Active(trades'[outbox'[n].event.trade])
                      /\ \A k \in DOMAIN outbox' : outbox'[k].event = outbox'[n].event => k = n
    BY DEF NotesOK, Active
  <2>1. CASE n \in DOMAIN outbox
    <3>1. /\ outbox[n].event.trade \in DOMAIN trades
          /\ outbox[n].event.kind = "closed" => ~Active(trades[outbox[n].event.trade])
          /\ \A k \in DOMAIN outbox : outbox[k].event = outbox[n].event => k = n
      BY <2>1 DEF Inv, NotesOK
    <3>2. \A k \in DOMAIN outbox' : outbox'[k].event = outbox'[n].event => k = n
      BY <1>5, <2>1, <3>1
    <3>3. outbox'[n] = outbox[n]
      BY <1>5, <2>1
    <3>4. outbox[n].event.kind = "closed" => ~Active(trades'[outbox[n].event.trade])
      BY <1>2, <3>1
    <3> QED
      BY <1>2, <3>1, <3>2, <3>3, <3>4
  <2>2. CASE n \notin DOMAIN outbox
    <3>1. \A k \in DOMAIN outbox' : outbox'[k].event = outbox'[n].event => k = n
      BY <1>5, <2>2
    <3> QED
      BY <1>5, <1>6, <2>2, <3>1
  <2> QED
    BY <2>1, <2>2
<1>8. \A i \in DOMAIN trades :
          /\ i \in DOMAIN trades' /\ trades'[i].price = trades[i].price
          /\ ~Active(trades[i]) => trades'[i] = trades[i]
  BY <1>2 DEF SameTrade
<1>9. ChannelOK'
  <2> SUFFICES ASSUME NEW n \in DOMAIN channel
               PROVE  Says(channel[n])' /\ \E k \in DOMAIN outbox' : outbox'[k].event = channel[n].event
    BY <1>1 DEF ChannelOK, Says
  <2>1. Says(channel[n]) /\ \E k \in DOMAIN outbox : outbox[k].event = channel[n].event
    BY DEF Inv, ChannelOK
  <2>2. Says(channel[n])'
    BY <1>1, <1>8, <2>1 DEF Says, Active
  <2> QED
    BY <1>5, <2>1, <2>2
<1>10. \A n \in DOMAIN outbox : MessageOf(n)' = MessageOf(n)
  <2> SUFFICES ASSUME NEW n \in DOMAIN outbox
               PROVE  MessageOf(n)' = MessageOf(n)
    OBVIOUS
  <2>1. /\ outbox[n].event.trade \in DOMAIN trades /\ outbox'[n] = outbox[n]
        /\ outbox[n].event.kind # "opened" => ~Active(trades[outbox[n].event.trade])
    <3>1. outbox[n].event \in Event
      BY MessageSound
    <3>2. outbox[n].event.kind \in {"opened", "closed"}
      BY <3>1 DEF Event
    <3> QED
      BY <1>5, <3>2 DEF Inv, NotesOK
  <2> QED
    BY <1>8, <2>1 DEF MessageOf
<1>11. \A n \in DOMAIN outbox' \ DOMAIN outbox : ToldIn(channel, outbox'[n].event) = {}
  <2> SUFFICES ASSUME NEW n \in DOMAIN outbox' \ DOMAIN outbox, NEW k \in ToldIn(channel, outbox'[n].event)
               PROVE  FALSE
    OBVIOUS
  <2>1. k \in DOMAIN channel /\ channel[k].event = outbox'[n].event
    BY DEF ToldIn
  <2> QED
    BY <1>5, <2>1 DEF Inv, ChannelOK
<1> QED
  BY <1>5, <1>7, <1>9, <1>10, <1>11

LEMMA AdvanceStep ==
    ASSUME Inv, NEW w \in Workers, Advance(w)
    PROVE  Inv'
<1>1. /\ proc[w].at = "write" /\ GoTo(w, "select")
      /\ UNCHANGED <<btc, candles, channel, troubles, doubted>>
      /\ watermark' = IF proc[w].latest > proc[w].mark THEN proc[w].latest ELSE watermark
      /\ overtaken' = (overtaken \/ proc[w].seen # trades \/ proc[w].mark # watermark)
      /\ outbox' \in Seq(Note)
  BY Passes, CandlesTyped DEF Inv, Grown
<1>2. /\ \A i \in DOMAIN trades : i \in DOMAIN trades' /\ SameTrade(trades'[i], trades[i])
      /\ trades' \in Seq(Trade)
  BY PassKeeps
<1>3. /\ NotesOK' /\ ChannelOK'
      /\ \A n \in DOMAIN outbox :
            n \in DOMAIN outbox' /\ outbox'[n] = outbox[n] /\ MessageOf(n)' = MessageOf(n)
      /\ \A n \in DOMAIN outbox' \ DOMAIN outbox :
            outbox'[n].status = "pending" /\ ToldIn(channel, outbox'[n].event) = {}
  BY AdvanceNotes
<1>4. Moved(w, "select", {})
  BY <1>1, GoToMoves DEF Inv
<1>5. TypeOK'
  <2>1. watermark' \in 0..MaxBar
    BY <1>1 DEF Inv, TypeOK, Proc
  <2>2. overtaken' \in BOOLEAN
    BY <1>1, Zenon
  <2> QED
    BY <1>1, <1>2, <1>4, <2>1, <2>2 DEF Moved, Inv, TypeOK
<1>6. SeenOK'
  <2> SUFFICES ASSUME NEW v \in Workers
               PROVE  /\ proc'[v].at \in Reading => proc'[v].latest \in Bars
                      /\ \A i \in DOMAIN proc'[v].seen :
                            /\ i \in DOMAIN trades'
                            /\ RowOK(candles[proc'[v].seen[i].ticker], proc'[v].seen[i])
                            /\ SameTrade(proc'[v].seen[i], trades'[i])
    BY <1>1 DEF SeenOK
  <2>1. CASE v = w
    BY <1>4, <2>1 DEF Moved, Reading
  <2>2. CASE v # w
    <3>1. proc'[v] = proc[v]
      BY <1>4, <2>2 DEF Moved
    <3>2. /\ proc[v].at \in Reading => proc[v].latest \in Bars
          /\ \A i \in DOMAIN proc[v].seen :
                /\ i \in DOMAIN trades
                /\ RowOK(candles[proc[v].seen[i].ticker], proc[v].seen[i])
                /\ SameTrade(proc[v].seen[i], trades[i])
      BY DEF Inv, SeenOK
    <3>3. \A i \in DOMAIN proc[v].seen : SameTrade(proc[v].seen[i], trades'[i])
      BY <1>2, <3>2 DEF SameTrade
    <3> QED
      BY <1>2, <3>1, <3>2, <3>3
  <2> QED
    BY <2>1, <2>2
<1>7. \A v \in Workers \ {w} :
          /\ proc'[v] = proc[v]
          /\ \A n : (Holds(v, n)' <=> Holds(v, n)) /\ (Shown(v, n)' <=> Shown(v, n))
          /\ \A x : First(v, x)' <=> First(v, x)
  BY <1>4, OthersSame DEF Moved
<1>8. /\ proc'[w].at = "select" /\ proc'[w].batch = {} /\ proc[w].batch = {}
      /\ \A n : ~Holds(w, n) /\ ~Shown(w, n) /\ ~(Holds(w, n)')
  <2>1. proc'[w].at = "select" /\ proc'[w].batch = {} /\ proc[w].batch = {}
    BY <1>1, <1>4 DEF Moved, Inv, HandsOK
  <2> QED
    BY <2>1 DEF Holds, Shown
<1>9. HandsOK'
  <2> SUFFICES ASSUME NEW v \in Workers
               PROVE  /\ proc'[v].at \notin {"send", "record"} => proc'[v].batch = {}
                      /\ proc'[v].at = "record" => proc'[v].outcome \in {"sent", "failed"}
                      /\ \A x \in proc'[v].batch : x.id \in DOMAIN outbox /\ x.message = MessageOf(x.id)
                      /\ proc'[v].at = "record" /\ proc'[v].outcome = "sent" =>
                            \A x \in proc'[v].batch : First(v, x)' => ToldIn(channel, outbox[x.id].event) # {}
    BY <1>1, <1>3 DEF HandsOK
  <2>1. CASE v = w
    BY <1>8, <2>1
  <2>2. CASE v # w
    BY <1>7, <2>2 DEF Inv, HandsOK
  <2> QED
    BY <2>1, <2>2
<1>10. TellingOK'
  <2> SUFFICES ASSUME NEW n \in DOMAIN outbox'
               PROVE  /\ outbox'[n].status = "sent" => ToldIn(channel, outbox'[n].event) # {}
                      /\ outbox'[n].event \notin doubted => SureOK(n)'
    BY <1>1 DEF TellingOK
  <2>1. CASE n \in DOMAIN outbox
    <3>1. outbox'[n] = outbox[n]
      BY <1>3, <2>1
    <3>2. /\ outbox[n].status = "sent" => ToldIn(channel, outbox[n].event) # {}
          /\ outbox[n].event \notin doubted => SureOK(n)
      BY <2>1 DEF Inv, TellingOK
    <3>3. \A v \in Workers : Holds(v, n)' => Holds(v, n)
      BY <1>7, <1>8
    <3>4. \A v \in Workers : Shown(v, n) => Shown(v, n)'
      BY <1>7, <1>8
    <3>5. ToldIn(channel', outbox'[n].event) = ToldIn(channel, outbox[n].event)
      BY <1>1, <3>1
    <3>6. SureOK(n) => SureOK(n)'
      BY <3>1, <3>3, <3>4, <3>5 DEF SureOK
    <3> QED
      BY <3>1, <3>2, <3>6
  <2>2. CASE n \notin DOMAIN outbox
    <3>1. outbox'[n].status = "pending" /\ ToldIn(channel, outbox'[n].event) = {}
      BY <1>3, <2>2
    <3>2. \A v \in Workers : ~(Holds(v, n)')
      <4>1. \A v \in Workers : ~Holds(v, n)
        BY <2>2 DEF Holds, Inv, HandsOK
      <4> QED
        BY <1>7, <1>8, <4>1
    <3>3. ToldIn(channel', outbox'[n].event) = {}
      BY <1>1, <3>1
    <3> QED
      BY <3>1, <3>2, <3>3 DEF SureOK
  <2> QED
    BY <2>1, <2>2
<1> QED
  BY <1>3, <1>5, <1>6, <1>9, <1>10, AdvanceJournal DEF Inv


-----------------------------------------------------------------------------
(* The invariant holds *)

LEMMA InitInv == Init => Inv
<1> SUFFICES ASSUME Init
             PROVE  Inv
  OBVIOUS
<1>1. /\ btc = 0 /\ watermark = 0 /\ trades = <<>> /\ outbox = <<>> /\ channel = <<>>
      /\ candles = [t \in Tickers |-> <<>>] /\ proc = [w \in Workers |-> Idle]
      /\ troubles = 0 /\ doubted = {} /\ overtaken = FALSE
  BY DEF Init
<1>2. \A S : <<>> \in Seq(S) /\ Len(<<>>) = 0
  OBVIOUS
<1>3. Idle.at = "idle" /\ Idle.batch = {} /\ Idle.seen = <<>> /\ Idle \in Proc
  BY IdleIsProc DEF Idle
<1>4. TypeOK
  <2>1. candles \in [Tickers -> Seq(Prices \cup {NoPrice})] /\ \A t \in Tickers : Len(candles[t]) = 0
    BY <1>1, <1>2
  <2>2. proc \in [Workers -> Proc]
    BY <1>1, <1>3
  <2>3. overtaken \in BOOLEAN
    BY <1>1
  <2> QED
    BY <1>1, <1>2, <2>1, <2>2, <2>3, ReversalAssumption DEF TypeOK
<1>5. DOMAIN trades = {} /\ DOMAIN outbox = {} /\ DOMAIN channel = {}
  BY <1>1
<1>6. \A w \in Workers :
          proc[w].at = "idle" /\ proc[w].batch = {} /\ DOMAIN proc[w].seen = {}
  BY <1>1, <1>3
<1>7. RowsOK /\ NotesOK /\ ChannelOK /\ OrderOK /\ PositionsApart /\ TellingOK
  BY <1>5 DEF RowsOK, NotesOK, ChannelOK, OrderOK, PositionsApart, TellingOK
<1>8. SeenOK /\ HandsOK
  BY <1>6 DEF SeenOK, HandsOK, Reading
<1> QED
  BY <1>4, <1>7, <1>8 DEF Inv

\* Every reachable state of the forward test keeps what its steps rely on: rows that a run has
\* read are earlier states of the rows it writes, messages in hand are rows of the outbox, and
\* what is told without being marked is about to be marked by the one run that told it.
THEOREM InvHolds == Spec => []Inv
<1>1. Inv /\ [Next]_vars => Inv'
  <2> SUFFICES ASSUME Inv, [Next]_vars
               PROVE  Inv'
    OBVIOUS
  <2>1. CASE CollectBtc
    BY <2>1, CollectBtcStep
  <2>2. ASSUME NEW t \in Tickers, Collect(t)
        PROVE  Inv'
    BY <2>2, CollectStep
  <2>3. ASSUME NEW w \in Workers, Skip(w)
        PROVE  Inv'
    BY <2>3, SkipStep
  <2>4. ASSUME NEW w \in Workers, Read(w) \/ ReadState(w) \/ ReadTrades(w)
        PROVE  Inv'
    BY <2>4, ReadStep
  <2>5. ASSUME NEW w \in Workers, Initialize(w)
        PROVE  Inv'
    BY <2>5, InitializeStep
  <2>6. ASSUME NEW w \in Workers, Advance(w)
        PROVE  Inv'
    BY <2>6, AdvanceStep
  <2>7. ASSUME NEW w \in Workers, Select(w)
        PROVE  Inv'
    BY <2>7, SelectStep
  <2>8. ASSUME NEW w \in Workers, Send(w)
        PROVE  Inv'
    BY <2>8, SendStep
  <2>9. ASSUME NEW w \in Workers, Record(w)
        PROVE  Inv'
    BY <2>9, RecordStep
  <2>10. ASSUME NEW w \in Workers, Crash(w)
         PROVE  Inv'
    BY <2>10, CrashStep
  <2>11. CASE UNCHANGED vars
    BY <2>11, Stutter
  <2> QED
    BY <2>1, <2>2, <2>3, <2>4, <2>5, <2>6, <2>7, <2>8, <2>9, <2>10, <2>11 DEF Next, Step
<1> QED
  BY <1>1, InitInv, PTL DEF Spec

\* The tables of the forward test and what its runs hold have their types.
THEOREM TypeCorrect == Spec => []TypeOK
<1>1. Inv => TypeOK
  BY DEF Inv
<1> QED
  BY <1>1, InvHolds, PTL

\* Trades are closed at the first bar that ends them, however many runs of
\* process_reversal_forward overlap and wherever their passes cut the candles: a row that
\* another run has advanced is written again from an older state of it, and comes out as if
\* one pass had seen all of its bars.
THEOREM ExitsFirst == Spec => []ExitIsFirst
<1>1. ASSUME Inv
      PROVE  ExitIsFirst
  <2> SUFFICES ASSUME NEW i \in DOMAIN trades
               PROVE  LET trade == trades[i]
                          ended == {b \in Stored(trade.ticker, trade.entry, trade.evaluated) :
                                       Outcome(trade, b) # "none"}
                      IN /\ trade.held = Cardinality(Stored(trade.ticker, trade.entry, trade.evaluated))
                         /\ IF Active(trade) THEN ended = {}
                            ELSE /\ ended = {trade.exit} /\ trade.evaluated = trade.exit
                                 /\ trade.exitPrice = candles[trade.ticker][trade.exit]
                                 /\ trade.reason = Outcome(trade, trade.exit)
    BY DEF ExitIsFirst
  <2> DEFINE trade == trades[i]
             s == candles[trade.ticker]
             ended == {b \in Stored(trade.ticker, trade.entry, trade.evaluated) :
                          Outcome(trade, b) # "none"}
  <2>1. RowOK(s, trade)
    BY <1>1 DEF Inv, RowsOK
  <2>2. \A a, b : Stored(trade.ticker, a, b) = BarsOf(s, a, b)
    BY DEF Stored, BarsOf
  <2>3. \A b : Outcome(trade, b) = Ends(s, trade, b)
    BY <2>2 DEF Outcome, Ends
  <2>4. trade.held = Cardinality(Stored(trade.ticker, trade.entry, trade.evaluated))
    BY <2>1, <2>2 DEF RowOK
  <2>5. CASE Active(trade)
    <3>1. ended = {}
      BY <2>1, <2>2, <2>3, <2>5 DEF RowOK
    <3> QED
      BY <2>4, <2>5, <3>1
  <2>6. CASE ~Active(trade)
    <3>1. /\ trade.evaluated = trade.exit /\ trade.exit \in BarsOf(s, trade.entry, trade.exit)
          /\ trade.exitPrice = s[trade.exit]
          /\ trade.reason = Ends(s, trade, trade.exit) /\ trade.reason # "none"
          /\ \A b \in BarsOf(s, trade.entry, trade.exit) : Ends(s, trade, b) # "none" => b = trade.exit
      BY <2>1, <2>6 DEF RowOK
    <3>2. ended = {trade.exit}
      BY <2>2, <2>3, <3>1
    <3> QED
      BY <2>3, <2>4, <2>6, <3>1, <3>2
  <2> QED
    BY <2>5, <2>6
<1> QED
  BY <1>1, InvHolds, PTL

\* The positions of a coin follow one another as long as no run writes from an older state:
\* the UNIQUE key and the check for an active trade are enough for any number of coins.
THEOREM PositionsAlwaysApart == Spec => []PositionsApart
<1>1. Inv => PositionsApart
  BY DEF Inv
<1> QED
  BY <1>1, InvHolds, PTL

\* What dispatch_reversal_notifications marks as sent was told, twice only if it is in doubt,
\* and the channel was told what the journal says: for any number of dispatchers, of calls
\* that fail and of runs that die.
THEOREM AlwaysToldOnce == Spec => []ToldOnce
<1>1. ASSUME Inv
      PROVE  ToldOnce
  <2>1. ASSUME NEW n \in DOMAIN outbox
        PROVE  /\ outbox[n].status = "sent" => Told(outbox[n].event) # {}
               /\ Cardinality(Told(outbox[n].event)) > 1 => outbox[n].event \in doubted
    <3> DEFINE T == Told(outbox[n].event)
    <3>1. T = ToldIn(channel, outbox[n].event)
      BY DEF Told, ToldIn
    <3>2. outbox[n].status = "sent" => T # {}
      BY <1>1, <3>1 DEF Inv, TellingOK
    <3>3. ASSUME outbox[n].event \notin doubted
          PROVE  ~(Cardinality(T) > 1)
      <4>1. \A a, b \in T : a = b
        BY <1>1, <3>1, <3>3 DEF Inv, TellingOK, SureOK
      <4> HIDE DEF T
      <4>2. CASE T = {}
        BY <4>2, FS_EmptySet
      <4>3. CASE T # {}
        <5>1. PICK x \in T : T = {x}
          BY <4>1, <4>3
        <5> QED
          BY <5>1, FS_Singleton
      <4> QED
        BY <4>2, <4>3
    <3> QED
      BY <3>2, <3>3
  <2>2. ASSUME NEW n \in DOMAIN channel
        PROVE  LET trade == trades[channel[n].event.trade]
               IN IF channel[n].event.kind = "opened" THEN channel[n].price = trade.price
                  ELSE ~Active(trade) /\ channel[n].price = trade.exitPrice
    BY <1>1 DEF Inv, ChannelOK, Says
  <2> QED
    BY <2>1, <2>2 DEF ToldOnce
<1> QED
  BY <1>1, InvHolds, PTL
=============================================================================
