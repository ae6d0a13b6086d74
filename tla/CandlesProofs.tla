--------------------------- MODULE CandlesProofs ---------------------------
(***************************************************************************)
(* What holds of the candles of Candles.tla for any chain of intervals     *)
(* that ChainAssumption allows, and any events, failures, clean-ups and    *)
(* restarts.  Only the types are stated of the week too: the buckets of    *)
(* sql2_week are shifted, and its candles are not made of their interval.  *)
(***************************************************************************)
EXTENDS Candles, Functions, TLAPS, FiniteSetTheorems, WellFoundedInduction

\* The intervals whose buckets are aligned: all but the week.
Plain == Levels \ {WeekLevel}

\* The candle of interval l that minute m belongs to is made of it.
Has(l, m) == m \in MinutesOf(row[l][Floor(l, m)])

Clock ==
  /\ latest <= now /\ now <= passed + MaxLag
  /\ passed <= now
  /\ began # Broken => passed <= began /\ began <= now

\* Minutes are in the candle of their bucket, and none of them is to come.
Placed ==
  \A l \in Plain : \A s \in Starts : \A m \in MinutesOf(row[l][s]) :
    Floor(l, m) = s /\ m <= latest

\* Events on their way are of minutes not before those saved, and those in the
\* channel not before those in the batch.
Late(m) ==
  /\ m <= latest /\ passed - 1 <= m /\ began - 1 <= m
  /\ \A l \in Plain : \A s \in Starts : \A n \in MinutesOf(row[l][s]) : n <= m
Batch == {item_datas[i][1] : i \in 1..Len(item_datas)}
Waiting == {klineDataChan[i][1] : i \in 1..Len(klineDataChan)}
InOrder ==
  /\ \A m \in Batch \cup Waiting : Late(m)
  /\ \A m \in Batch, n \in Waiting : m <= n
  /\ \A i \in 1..Len(klineDataChan) : \A j \in 1..i : klineDataChan[j][1] <= klineDataChan[i][1]

\* In the window of a statement, the longer interval has no minute that the
\* shorter does not have, and those it has are the first ones.
Inherit(l) == \A m \in Minutes : Has(l, m) /\ m >= Since(l) => Has(l - 1, m)
FirstOnes(l) ==
  \A x, y \in Minutes :
    Has(l, x) /\ Has(l - 1, y) /\ y < x /\ y >= Since(l) => Has(l, y)

\* The candle of l has the last state of minute m, or newer ones have pushed it out.
HasLast(l, m) ==
  \/ row[1][m].data \subseteq row[l][Floor(l, m)].data
  \/ Floor(l, m) \notin Present(l) /\ Cardinality(Newer(l, Floor(l, m))) >= Kept
\* So it is of the minutes that were over when a pass began, for the intervals
\* this pass, or the last whole one, has computed.
UpTo(l, b) == \A m \in Present(1) : m < b - 1 => HasLast(l, m)

KInv ==
  /\ TypeOK /\ Clock /\ Placed /\ InOrder
  /\ \A l \in Plain : Opens(l)
  /\ \A l \in Plain \ {1} : Inherit(l) /\ FirstOnes(l)
  /\ \A l \in Plain :
       /\ UpTo(l, passed)
       /\ began # Broken /\ l < level => UpTo(l, began)
-----------------------------------------------------------------------------
\* A finite set of integers has a least and a greatest member: of two sets of what
\* is below a member, the smaller one is strictly inside.
LEMMA HasMin ==
  ASSUME NEW S \in SUBSET Int, IsFiniteSet(S), S # {}
  PROVE  \E x \in S : \A y \in S : x <= y
<1> DEFINE Below(x) == {y \in S : y < x}
           T == {Below(x) : x \in S}
<1>1. IsWellFoundedOn(StrictSubsetOrdering(S), FiniteSubsetsOf(S))
  BY FS_StrictSubsetOrderingWellFounded
<1>2. \A x \in S : Below(x) \subseteq S /\ IsFiniteSet(Below(x))
  BY FS_Subset
<1>3. T \subseteq FiniteSubsetsOf(S) /\ T # {}
  BY <1>2 DEF FiniteSubsetsOf
<1>4. \E u \in T : \A v \in T : <<v, u>> \notin StrictSubsetOrdering(S)
  <2> DEFINE O == StrictSubsetOrdering(S)
             F == FiniteSubsetsOf(S)
  <2>1. IsWellFoundedOn(O, F) /\ T \subseteq F /\ T # {}
    BY <1>1, <1>3
  <2> HIDE DEF O, F, T
  <2>2. \E u \in T : \A v \in T : ~ (<<v, u>> \in O)
    BY <2>1, WFMin
  <2> QED
    BY <2>2 DEF O
<1>5. PICK x \in S : \A v \in T : <<v, Below(x)>> \notin StrictSubsetOrdering(S)
  BY <1>4
<1>6. ASSUME NEW y \in S, y < x PROVE FALSE
  <2>1. ASSUME NEW z \in S, z < y PROVE z < x
    BY <1>6, <2>1
  <2>2. y \in Below(x) /\ y \notin Below(y)
    BY <1>6
  <2>4. Below(y) \subseteq Below(x)
    BY <2>1
  <2>3. <<Below(y), Below(x)>> \in StrictSubsetOrdering(S)
    BY <1>2, <2>4, <2>2 DEF StrictSubsetOrdering
  <2> QED
    BY <1>5, <2>3
<1>7. \A y \in S : x <= y
  BY <1>6
<1> QED
  BY <1>7

LEMMA HasMax ==
  ASSUME NEW S \in SUBSET Int, IsFiniteSet(S), S # {}
  PROVE  \E x \in S : \A y \in S : y <= x
<1> DEFINE Above(x) == {y \in S : y > x}
           T == {Above(x) : x \in S}
<1>1. IsWellFoundedOn(StrictSubsetOrdering(S), FiniteSubsetsOf(S))
  BY FS_StrictSubsetOrderingWellFounded
<1>2. \A x \in S : Above(x) \subseteq S /\ IsFiniteSet(Above(x))
  BY FS_Subset
<1>3. T \subseteq FiniteSubsetsOf(S) /\ T # {}
  BY <1>2 DEF FiniteSubsetsOf
<1>4. \E u \in T : \A v \in T : <<v, u>> \notin StrictSubsetOrdering(S)
  <2> DEFINE O == StrictSubsetOrdering(S)
             F == FiniteSubsetsOf(S)
  <2>1. IsWellFoundedOn(O, F) /\ T \subseteq F /\ T # {}
    BY <1>1, <1>3
  <2> HIDE DEF O, F, T
  <2>2. \E u \in T : \A v \in T : ~ (<<v, u>> \in O)
    BY <2>1, WFMin
  <2> QED
    BY <2>2 DEF O
<1>5. PICK x \in S : \A v \in T : <<v, Above(x)>> \notin StrictSubsetOrdering(S)
  BY <1>4
<1>6. ASSUME NEW y \in S, y > x PROVE FALSE
  <2>1. ASSUME NEW z \in S, z > y PROVE z > x
    BY <1>6, <2>1
  <2>2. y \in Above(x) /\ y \notin Above(y)
    BY <1>6
  <2>4. Above(y) \subseteq Above(x)
    BY <2>1
  <2>3. <<Above(y), Above(x)>> \in StrictSubsetOrdering(S)
    BY <1>2, <2>4, <2>2 DEF StrictSubsetOrdering
  <2> QED
    BY <1>5, <2>3
<1>7. \A y \in S : y <= x
  BY <1>6
<1> QED
  BY <1>7

\* Integer division, and the multiples of a number.
LEMMA Division ==
  ASSUME NEW V \in Nat \ {0}, NEW t \in Int
  PROVE  /\ t \div V \in Int
         /\ (t \div V) * V \in Int
         /\ (t \div V) * V <= t
         /\ t < (t \div V) * V + V
  BY SMT

LEMMA Between ==
  ASSUME NEW V \in Nat \ {0}, NEW i \in Int, NEW k \in Int
  PROVE  /\ i < k => i * V + V <= k * V
         /\ i <= k => i * V <= k * V
  OBVIOUS

\* Of a finite set, the members that fewer than K others exceed are K at least.
LEMMA NewestRemain ==
  ASSUME NEW T \in SUBSET Int, IsFiniteSet(T), NEW K \in Nat, Cardinality(T) >= K
  PROVE  Cardinality({n \in T : Cardinality({m \in T : m > n}) < K}) >= K
<1> DEFINE Above(n) == {m \in T : m > n}
           A == {n \in T : Cardinality(Above(n)) < K}
<1>1. IsFiniteSet(A) /\ \A n \in T : IsFiniteSet(Above(n)) /\ Cardinality(Above(n)) \in Nat
  BY FS_Subset, FS_CardinalityType
<1>2. CASE A = T
  BY <1>2
<1>3. CASE A # T
  <2>1. T \ A \in SUBSET Int /\ IsFiniteSet(T \ A) /\ T \ A # {}
    BY <1>3, FS_Subset
  <2>2. PICK x \in T \ A : \A y \in T \ A : y <= x
    <3> HIDE DEF A
    <3> QED BY <2>1, HasMax
  <2>3. Above(x) \in SUBSET A
    <3>1. ASSUME NEW m \in T, m > x, m \notin A PROVE FALSE
      <4> HIDE DEF A
      <4> QED BY <2>2, <3>1
    <3>2. \A m \in Above(x) : m \in A
      <4> HIDE DEF A
      <4> QED BY <3>1
    <3> HIDE DEF A, Above
    <3> QED BY <3>2
  <2>4. Cardinality(Above(x)) <= Cardinality(A)
    <3> HIDE DEF A, Above
    <3> QED BY <1>1, <2>3, FS_Subset
  <2>5. Cardinality(Above(x)) >= K
    BY <1>1, <2>2
  <2>6. Cardinality(A) \in Nat
    BY <1>1, FS_CardinalityType
  <2> HIDE DEF A, Above
  <2>7. Cardinality(A) >= K
    BY <1>1, <2>2, <2>4, <2>5, <2>6
  <2> QED
    BY <2>7 DEF A, Above
<1> QED
  BY <1>2, <1>3

\* Fewer than K multiples of V lie strictly inside K times V.
LEMMA FewMultiples ==
  ASSUME NEW V \in Nat \ {0}, NEW i \in Int, NEW K \in Nat \ {0}, NEW T \in SUBSET Int,
         \A n \in T : i * V < n /\ n < i * V + K * V /\ n = (n \div V) * V
  PROVE  IsFiniteSet(T) /\ Cardinality(T) < K
<1> DEFINE f == [n \in T |-> n \div V]
           U == (i + 1)..(i + K - 1)
<1>1. ASSUME NEW n \in T PROVE n \div V \in U
  <2>1. n \div V \in Int
    BY Division
  <2> DEFINE k == n \div V
  <2>2. i * V < k * V /\ k * V < i * V + K * V /\ k \in Int
    BY <2>1
  <2> HIDE DEF k
  <2>3. i < k
    BY <2>2, Between
  <2>4. k * V < (i + K) * V
    BY <2>2
  <2>5. k < i + K
    BY <2>2, <2>4, Between
  <2> QED
    BY <2>2, <2>3, <2>5 DEF k
<1>2. f \in Injection(T, U)
  <2>1. f \in [T -> U]
    BY <1>1
  <2>2. \A n, m \in T : f[n] = f[m] => n = m
    <3> SUFFICES ASSUME NEW n \in T, NEW m \in T, f[n] = f[m] PROVE n = m
      OBVIOUS
    <3>1. n \div V = m \div V
      OBVIOUS
    <3> QED
      BY <3>1
  <2> HIDE DEF f, U
  <2> QED
    BY <2>1, <2>2 DEF Injection, IsInjective
<1>3. IsFiniteSet(U) /\ Cardinality(U) = K - 1
  BY FS_Interval
<1>4. IsFiniteSet(T) /\ Cardinality(T) <= Cardinality(U)
  <2> HIDE DEF f, U
  <2> QED BY <1>2, <1>3, FS_Injection
<1>5. Cardinality(T) \in Nat
  BY <1>4, FS_CardinalityType
<1> QED
  BY <1>3, <1>4, <1>5
-----------------------------------------------------------------------------
\* What the chain of intervals is like: lengths, and the interval before one.
LEMMA Chain ==
  ASSUME NEW l \in Plain
  PROVE  /\ l \in Levels /\ l \in Nat \ {0} /\ Values[l] \in Nat \ {0} /\ Shift(l) = 0
         /\ \A t : Bucket(l, t) = Floor(l, t) - 0
         /\ l # 1 => /\ l - 1 \in Plain /\ Values[l - 1] \in Nat \ {0}
                     /\ \E q \in Nat \ {0} : Values[l] = q * Values[l - 1]
                     /\ 2 * Values[l] <= Kept * Values[l - 1] /\ MaxLag < Values[l]
                     /\ Kept \in Nat \ {0} /\ Values[l - 1] <= Values[l]
<1>1. /\ l \in Levels /\ l \in Nat \ {0} /\ Values[l] \in Nat \ {0} /\ l # WeekLevel
  BY CandlesAssumption DEF Plain, Levels
<1>2. Shift(l) = 0 /\ \A t : Bucket(l, t) = Floor(l, t) - 0
  BY <1>1 DEF Shift, Bucket
<1>3. ASSUME l # 1
      PROVE /\ l - 1 \in Plain /\ Values[l - 1] \in Nat \ {0}
            /\ \E q \in Nat \ {0} : Values[l] = q * Values[l - 1]
            /\ 2 * Values[l] <= Kept * Values[l - 1] /\ MaxLag < Values[l]
            /\ Kept \in Nat \ {0} /\ Values[l - 1] <= Values[l]
  <2>1. l - 1 \in Levels /\ Values[l - 1] \in Nat \ {0} /\ l \in 2..Len(Values)
    BY <1>1, <1>3, CandlesAssumption DEF Levels
  <2>2. l - 1 # WeekLevel
    BY <1>1, <1>3, <2>1, CandlesAssumption, ChainAssumption DEF Levels
  <2>3. /\ \E q \in 1..Values[l] : Values[l] = q * Values[l - 1]
        /\ 2 * Values[l] <= Kept * Values[l - 1] /\ MaxLag < Values[l]
    BY <1>1, <1>3, ChainAssumption
  <2>4. PICK q \in 1..Values[l] : Values[l] = q * Values[l - 1]
    BY <2>3
  <2>5. q \in Nat \ {0}
    BY <1>1
  <2> DEFINE V == Values[l - 1]
             W == Values[l]
  <2>6. V \in Nat \ {0} /\ W \in Nat \ {0} /\ W = q * V /\ 2 * W <= Kept * V /\ Kept \in Nat
    BY <1>1, <2>1, <2>3, <2>4, CandlesAssumption
  <2> HIDE DEF V, W
  <2>7. V <= W
    BY <2>5, <2>6
  <2>8. Kept # 0
    BY <2>6
  <2> QED
    BY <2>1, <2>2, <2>3, <2>5, <2>6, <2>7, <2>8 DEF V, W, Plain
<1> QED
  BY <1>1, <1>2, <1>3

\* The bucket of a time begins before it, and a time inside a bucket is of that bucket.
LEMMA FloorProps ==
  ASSUME NEW l \in Plain, NEW t \in Int, NEW u \in Int
  PROVE  /\ Floor(l, t) \in Int /\ Floor(l, t) <= t /\ t < Floor(l, t) + Values[l]
         /\ t >= 0 => Floor(l, t) >= 0
         /\ Floor(l, t) <= u /\ u < Floor(l, t) + Values[l] => Floor(l, u) = Floor(l, t)
         /\ t <= u => Floor(l, t) <= Floor(l, u)
         /\ Floor(l, t) < Floor(l, u) => Floor(l, t) + Values[l] <= Floor(l, u)
<1> DEFINE V == Values[l]
           i == t \div V
           k == u \div V
<1>1. V \in Nat \ {0}
  BY Chain
<1>2. /\ i \in Int /\ i * V \in Int /\ i * V <= t /\ t < i * V + V
      /\ k \in Int /\ k * V \in Int /\ k * V <= u /\ u < k * V + V
  <2> HIDE DEF V
  <2> QED BY <1>1, Division
<1>3. Floor(l, t) = i * V /\ Floor(l, u) = k * V
  BY DEF Floor
<1> HIDE DEF V, i, k
<1>4. /\ i < k => i * V + V <= k * V
      /\ k < i => k * V + V <= i * V
      /\ i = k => i * V = k * V
  BY <1>1, <1>2, Between
<1>5. t >= 0 => i * V >= 0
  <2> SUFFICES ASSUME t >= 0, i < 0 PROVE FALSE
    BY <1>1, <1>2
  <2>1. i * V + V <= 0 * V
    BY <1>1, <1>2, Between
  <2> QED
    BY <1>1, <1>2, <2>1
<1> QED
  BY <1>1, <1>2, <1>3, <1>4, <1>5 DEF V

\* A bucket is made of whole buckets of the interval before.
LEMMA FloorChain ==
  ASSUME NEW l \in Plain \ {1}, NEW t \in Int
  PROVE  Floor(l, t) <= Floor(l - 1, t) /\ Floor(l, Floor(l - 1, t)) = Floor(l, t)
<1> DEFINE V == Values[l - 1]
           W == Values[l]
           i == t \div W
           k == t \div V
<1>1. V \in Nat \ {0} /\ W \in Nat \ {0} /\ l - 1 \in Plain
  BY Chain
<1>2. PICK q \in Nat \ {0} : W = q * V
  BY Chain
<1>3. /\ i \in Int /\ i * W \in Int /\ i * W <= t /\ t < i * W + W
      /\ k \in Int /\ k * V \in Int /\ k * V <= t /\ t < k * V + V
  <2> HIDE DEF V, W
  <2> QED BY <1>1, Division
<1>4. Floor(l, t) = i * W /\ Floor(l - 1, t) = k * V
  BY DEF Floor
<1> HIDE DEF V, W, i, k
<1>5. i * W = (i * q) * V /\ i * q \in Int
  BY <1>1, <1>2, <1>3
<1>6. (i * q) * V <= k * V
  <2> DEFINE j == i * q
  <2>1. j \in Int /\ j * V = i * W
    BY <1>5
  <2> HIDE DEF j
  <2>2. k < j => k * V + V <= j * V
    BY <1>1, <1>3, <2>1, Between
  <2>3. j <= k => j * V <= k * V
    BY <1>1, <1>3, <2>1, Between
  <2> QED
    BY <1>1, <1>3, <2>1, <2>2, <2>3 DEF j
<1>7. Floor(l, t) <= Floor(l - 1, t) /\ Floor(l - 1, t) < Floor(l, t) + W /\ Floor(l - 1, t) \in Int
  BY <1>1, <1>3, <1>4, <1>5, <1>6
<1> QED
  BY <1>7, FloorProps DEF W

\* The window of a statement begins with a bucket of its interval.
LEMMA Window ==
  ASSUME NEW l \in Plain, NEW m \in Int, now \in Nat
  PROVE  /\ Since(l) \in Int /\ Since(l) + Values[l] <= now /\ now < Since(l) + 2 * Values[l]
         /\ m >= Since(l) <=> Floor(l, m) >= Since(l)
         /\ l # 1 => (m >= Since(l) <=> Floor(l - 1, m) >= Since(l))
<1> DEFINE V == Values[l]
<1>1. V \in Nat \ {0} /\ Since(l) = Floor(l, now) - V
  BY Chain, CandlesAssumption DEF Since, Floor
<1>2. /\ Floor(l, now) \in Int /\ Floor(l, now) <= now /\ now < Floor(l, now) + V
      /\ Floor(l, m) \in Int /\ Floor(l, m) <= m /\ m < Floor(l, m) + V
  BY FloorProps, now \in Int
<1>3. Floor(l, m) < Floor(l, now) => Floor(l, m) + V <= Floor(l, now)
  BY FloorProps, now \in Int
<1>4. m >= Since(l) => Floor(l, m) >= Since(l)
  <2> DEFINE z == Since(l)
  <2>1. z \in Int /\ Floor(l, z) = z
    <3>1. z = (now \div V - 1) * V /\ now \div V \in Int
      <4>1. now \div V \in Int
        <5> HIDE DEF V
        <5> QED BY <1>1, Division, now \in Int
      <4>2. Floor(l, now) = (now \div V) * V
        BY DEF Floor
      <4> DEFINE k == now \div V
      <4>3. z = k * V - V /\ k \in Int
        BY <1>1, <4>1, <4>2
      <4> HIDE DEF k, z, V
      <4>4. z = (k - 1) * V
        BY <1>1, <4>3
      <4> QED
        BY <4>1, <4>4 DEF k
    <3> DEFINE j == now \div V - 1
    <3>2. z = j * V /\ j \in Int
      BY <3>1
    <3>3. Floor(l, z) = (z \div V) * V
      BY DEF Floor
    <3> HIDE DEF j, z, V
    <3>4. z \in Int
      BY <1>1, <3>2
    <3>5. (z \div V) * V = z
      BY <1>1, <3>2
    <3> QED
      BY <3>3, <3>4, <3>5
  <2>2. z <= m => Floor(l, z) <= Floor(l, m)
    BY <2>1, FloorProps
  <2> QED
    BY <2>1, <2>2
<1>5. l # 1 => Floor(l, m) <= Floor(l - 1, m) /\ Floor(l - 1, m) <= m /\ Floor(l - 1, m) \in Int
  BY FloorChain, FloorProps, Chain
<1> QED
  BY <1>1, <1>2, <1>4, <1>5
-----------------------------------------------------------------------------
\* The first of the rows a candle is made of, and the last event of a minute.
LEMMA FirstIsLeast ==
  ASSUME NEW rs \in SUBSET Starts, rs # {}
  PROVE  First(rs) \in rs /\ \A q \in rs : First(rs) <= q
<1>1. rs \in SUBSET Int /\ IsFiniteSet(rs)
  <2>1. -Offset \in Int /\ MaxNow \in Int
    BY CandlesAssumption
  <2>2. IsFiniteSet(Starts) /\ Starts \subseteq Int
    BY <2>1, FS_Interval DEF Starts
  <2> QED
    BY <2>2, FS_Subset
<1>2. \E r \in rs : \A q \in rs : r <= q
  BY <1>1, HasMin
<1> QED
  BY <1>2 DEF First

LEMMA SavedIs ==
  ASSUME TypeOK, NEW m \in Minutes
  PROVE  \/ Saved(m) = row[1][m] /\ \A i \in 1..Len(item_datas) : item_datas[i][1] # m
         \/ \E i \in 1..Len(item_datas) :
              item_datas[i][1] = m /\ Saved(m) = [open |-> m, data |-> {item_datas[i]}]
<1> DEFINE of == {i \in DOMAIN item_datas : item_datas[i][1] = m}
<1>1. DOMAIN item_datas = 1..Len(item_datas) /\ Len(item_datas) \in Nat
  BY DEF TypeOK
<1>2. CASE of = {}
  BY <1>1, <1>2 DEF Saved
<1>3. CASE of # {}
  <2>1. of \in SUBSET Int /\ IsFiniteSet(of)
    <3>1. IsFiniteSet(1..Len(item_datas))
      BY <1>1, FS_Interval
    <3> QED
      BY <1>1, <3>1, FS_Subset
  <2>2. \E i \in of : \A j \in of : j <= i
    <3> HIDE DEF of
    <3> QED BY <1>3, <2>1, HasMax
  <2> DEFINE i == CHOOSE i \in of : \A j \in of : j <= i
  <2>3. i \in of
    <3> HIDE DEF of
    <3> QED BY <2>2
  <2>4. Saved(m) = [open |-> m, data |-> {item_datas[i]}]
    BY <1>3 DEF Saved
  <2> QED
    BY <1>1, <2>3, <2>4
<1> QED
  BY <1>2, <1>3

LEMMA Ranges ==
  /\ Minutes \subseteq Starts /\ Minutes \subseteq Nat /\ Starts \subseteq Int /\ 1 \in Levels
  /\ Missing \in Candle /\ 0 \in Minutes /\ Broken \notin Minutes
  BY CandlesAssumption DEF Minutes, Starts, Levels, Missing, Candle, Broken

LEMMA InitTypeOK == Init => TypeOK
<1> SUFFICES ASSUME Init PROVE TypeOK
  OBVIOUS
<1>1. <<>> \in Seq(Events) /\ Len(<<>>) = 0
  OBVIOUS
<1>2. row \in [Levels -> [Starts -> Candle]]
  BY Ranges DEF Init
<1> QED
  BY <1>1, <1>2, Ranges, CandlesAssumption DEF Init, TypeOK

LEMMA StepTypeOK == TypeOK /\ [Next]_vars => TypeOK'
<1> SUFFICES ASSUME TypeOK, [Next]_vars PROVE TypeOK'
  OBVIOUS
<1> USE Ranges
<1>1. CASE Tick
  <2>1. now' \in Minutes
    BY <1>1, CandlesAssumption DEF TypeOK, Tick, Minutes
  <2> QED
    BY <1>1, <2>1 DEF TypeOK, Tick
<1>2. CASE Receive
  <2>1. Head(klineDataChan) \in Events /\ Tail(klineDataChan) \in Seq(Events)
        /\ Len(Tail(klineDataChan)) <= Len(klineDataChan)
    BY <1>2 DEF TypeOK, Receive
  <2>2. item_datas' \in Seq(Events)
    BY <1>2, <2>1 DEF TypeOK, Receive
  <2>3. Len(klineDataChan') <= ChanSize
    BY <1>2, <2>1, CandlesAssumption DEF TypeOK, Receive
  <2> QED
    BY <1>2, <2>1, <2>2, <2>3 DEF TypeOK, Receive
<1>3. CASE Clean
  <2>1. row' \in [Levels -> [Starts -> Candle]]
    BY <1>3 DEF TypeOK, Clean
  <2> QED
    BY <1>3, <2>1 DEF TypeOK, Clean
<1>4. CASE Crash
  <2>1. <<>> \in Seq(Events) /\ Len(<<>>) = 0
    OBVIOUS
  <2> QED
    BY <1>4, <2>1, CandlesAssumption DEF TypeOK, Crash
<1>5. ASSUME NEW m \in Minutes, dataHandler(m) PROVE TypeOK'
  <2>0. sent' \in 0..MaxEvents /\ sent' \in 1..MaxEvents
    BY <1>5, CandlesAssumption DEF TypeOK, dataHandler
  <2>1. <<m, sent'>> \in Events
    BY <2>0 DEF Events
  <2>2. klineDataChan' \in Seq(Events) /\ Len(klineDataChan') = Len(klineDataChan) + 1
    BY <1>5, <2>1 DEF TypeOK, dataHandler
  <2>3. Len(klineDataChan') <= ChanSize
    BY <1>5, <2>2, CandlesAssumption DEF TypeOK, dataHandler
  <2> QED
    BY <1>5, <2>0, <2>1, <2>2, <2>3 DEF TypeOK, dataHandler
<1>6. ASSUME NEW ok \in BOOLEAN, Save(ok) PROVE TypeOK'
  <2>1. ASSUME NEW m \in Minutes PROVE Saved(m) \in Candle
    <3>1. item_datas \in Seq(Events) /\ row[1][m] \in Candle
      BY DEF TypeOK
    <3>2. \A i \in 1..Len(item_datas) : item_datas[i] \in Events
      BY <3>1
    <3> QED
      BY <3>1, <3>2, SavedIs DEF Candle
  <2>2. [s \in Starts |-> IF s \in Minutes THEN Saved(s) ELSE row[1][s]] \in [Starts -> Candle]
    BY <2>1 DEF TypeOK
  <2>3. row' \in [Levels -> [Starts -> Candle]]
    BY <1>6, <2>2 DEF TypeOK, Save
  <2>4. level' \in Levels /\ began' \in Minutes \cup {Broken} /\ <<>> \in Seq(Events)
    BY <1>6, CandlesAssumption DEF TypeOK, Save, Levels
  <2> QED
    BY <1>6, <2>3, <2>4 DEF TypeOK, Save
<1>7. ASSUME NEW ok \in BOOLEAN, Compute(ok) PROVE TypeOK'
  <2>1. level \in Levels /\ level - 1 \in Levels /\ level > 1
    BY <1>7, CandlesAssumption DEF TypeOK, Compute, Levels
  <2>2. ASSUME NEW s \in Starts PROVE Computed(level, s) \in Candle
    <3> DEFINE rs == Sources(level, s)
    <3>1. rs \in SUBSET Starts
      BY DEF Sources, Present
    <3>2. row[level][s] \in Candle /\ \A r \in Starts : row[level - 1][r] \in Candle
      BY <2>1 DEF TypeOK
    <3>3. CASE rs = {}
      BY <3>2, <3>3 DEF Computed
    <3>4. CASE rs # {}
      <4>1. First(rs) \in Starts
        <5> HIDE DEF rs
        <5> QED BY <3>1, <3>4, FirstIsLeast
      <4>2. (IF s \in Present(level) THEN row[level][s].open
             ELSE row[level - 1][First(rs)].open) \in Starts
        BY <3>2, <4>1 DEF Candle
      <4>3. UNION {row[level - 1][r].data : r \in rs} \in SUBSET Events
        BY <3>1, <3>2 DEF Candle
      <4> QED
        BY <3>4, <4>2, <4>3 DEF Computed, Candle
    <3> QED
      BY <3>3, <3>4
  <2>3. [s \in Starts |-> Computed(level, s)] \in [Starts -> Candle]
    BY <2>2
  <2>4. row' \in [Levels -> [Starts -> Candle]]
    BY <1>7, <2>3 DEF TypeOK, Compute
  <2>5. level' \in Levels /\ began' \in Minutes \cup {Broken} /\ passed' \in Minutes
    <3>0. level' = 1 \/ (level # Len(Values) /\ level' = level + 1)
      BY <1>7 DEF Compute
    <3>1. level' \in Levels
      BY <2>1, <3>0, CandlesAssumption DEF Levels
    <3>4. began' = began \/ began' = Broken
      BY <1>7 DEF Compute
    <3>2. began' # Broken => began' = began
      BY <1>7 DEF Compute
    <3>3. passed' = passed \/ (began' # Broken /\ passed' = began)
      BY <1>7 DEF Compute
    <3> QED
      BY <3>1, <3>2, <3>3, <3>4 DEF TypeOK
  <2> QED
    BY <1>7, <2>4, <2>5 DEF TypeOK, Compute
<1>8. CASE UNCHANGED vars
  BY <1>8 DEF TypeOK, vars
<1> QED
  BY <1>1, <1>2, <1>3, <1>4, <1>5, <1>6, <1>7, <1>8 DEF Next

\* The events, the batch, the candles and the clock keep their types, and the channel
\* its room, for any chain of intervals, the week's included.
THEOREM CandlesTypeOK == Spec => []TypeOK
  BY InitTypeOK, StepTypeOK, PTL DEF Spec
-----------------------------------------------------------------------------
\* Where minutes and candles are.
LEMMA Buckets ==
  ASSUME NEW l \in Plain, NEW m \in Minutes
  PROVE  Floor(l, m) \in Starts /\ (l = 1 => Floor(l, m) = m)
<1>1. m \in Int /\ m >= 0 /\ m <= MaxNow /\ 0 - Offset <= 0 /\ MaxNow \in Int /\ Offset \in Nat
  BY CandlesAssumption DEF Minutes
<1>2. Floor(l, m) \in Int /\ Floor(l, m) >= 0 /\ Floor(l, m) <= m
  BY <1>1, FloorProps
<1>3. Floor(l, m) \in Starts
  BY <1>1, <1>2 DEF Starts
<1>4. ASSUME l = 1 PROVE Floor(l, m) = m
  <2>1. Values[l] = 1
    BY <1>4, CandlesAssumption
  <2> QED
    BY <1>1, <2>1, FloorProps
<1> QED
  BY <1>3, <1>4

LEMMA RowMinutes ==
  ASSUME TypeOK, NEW l \in Levels, NEW s \in Starts
  PROVE  /\ row[l][s] \in Candle /\ MinutesOf(row[l][s]) \subseteq Minutes
         /\ MinutesOf(row[l][s]) # {} => s \in Present(l)
<1>1. row[l][s] \in Candle
  BY DEF TypeOK
<1>2. MinutesOf(row[l][s]) \subseteq Minutes
  BY <1>1 DEF Candle, Events, MinutesOf
<1>3. MinutesOf(Missing) = {}
  BY DEF MinutesOf, Missing
<1> QED
  BY <1>1, <1>2, <1>3 DEF Present

\* What a statement computes for a start: nothing before its window; otherwise the
\* union of the rows that belong there.
LEMMA SourcesAre ==
  ASSUME TypeOK, NEW l \in Plain \ {1}, NEW s \in Starts, NEW r \in Sources(l, s)
  PROVE  /\ r \in Starts /\ r \in Present(l - 1) /\ r >= Since(l) /\ Floor(l, r) = s
         /\ s >= Since(l)
<1>1. r \in Starts /\ r \in Present(l - 1) /\ r >= Since(l) /\ Floor(l, r) = s
  <2>1. r \in Starts /\ r \in Present(l - 1) /\ r >= Since(l) /\ Bucket(l, r) = s
    BY DEF Sources, Present
  <2>2. r \in Int
    BY <2>1, Ranges
  <2>3. Floor(l, r) \in Int /\ Bucket(l, r) = Floor(l, r) - 0
    BY <2>2, FloorProps, Chain
  <2> QED
    BY <2>1, <2>3
<1>2. now \in Nat /\ r \in Int
  BY <1>1, Ranges DEF TypeOK
<1> QED
  BY <1>1, <1>2, Window

LEMMA ComputedIs ==
  ASSUME TypeOK, NEW l \in Plain \ {1}, NEW s \in Starts
  PROVE  /\ Sources(l, s) = {} => Computed(l, s) = row[l][s]
         /\ Sources(l, s) # {} =>
              /\ Computed(l, s).data = UNION {row[l - 1][r].data : r \in Sources(l, s)}
              /\ \A m : m \in MinutesOf(Computed(l, s)) <=>
                          \E r \in Sources(l, s) : m \in MinutesOf(row[l - 1][r])
  BY DEF Computed, MinutesOf

LEMMA HasIsSource ==
  ASSUME TypeOK, NEW l \in Plain \ {1}, NEW m \in Minutes, m >= Since(l),
         Floor(l - 1, m) \in Present(l - 1)
  PROVE  Floor(l - 1, m) \in Sources(l, Floor(l, m))
<1>1. now \in Nat /\ m \in Int /\ l - 1 \in Plain
  BY Ranges, Chain DEF TypeOK
<1>2. Floor(l - 1, m) >= Since(l) /\ Floor(l, Floor(l - 1, m)) = Floor(l, m)
  BY <1>1, Window, FloorChain
<1>3. Floor(l, m) \in Int /\ Bucket(l, Floor(l - 1, m)) = Floor(l, Floor(l - 1, m)) - 0
  BY <1>1, FloorProps, Chain
<1> QED
  BY <1>2, <1>3 DEF Sources

\* In its window a statement makes the interval have what the one before has.
LEMMA HasAfterCompute ==
  ASSUME TypeOK, Placed, NEW l \in Plain \ {1}, Inherit(l), NEW m \in Minutes
  PROVE  m \in MinutesOf(Computed(l, Floor(l, m))) <=>
           IF m >= Since(l) THEN Has(l - 1, m) ELSE Has(l, m)
<1> DEFINE s == Floor(l, m)
<1>1. /\ s \in Starts /\ Floor(l - 1, m) \in Starts /\ l - 1 \in Plain /\ l \in Plain
      /\ now \in Nat /\ m \in Int /\ l - 1 \in Levels /\ Since(l) \in Int
  BY Buckets, Chain, Ranges, Window DEF TypeOK
<1>2. CASE m >= Since(l)
  <2>1. ASSUME Has(l - 1, m) PROVE m \in MinutesOf(Computed(l, s))
    <3>1. Floor(l - 1, m) \in Present(l - 1)
      BY <1>1, <2>1, RowMinutes DEF Has
    <3>2. Floor(l - 1, m) \in Sources(l, s)
      BY <1>2, <3>1, HasIsSource
    <3> QED
      BY <1>1, <2>1, <3>2, ComputedIs DEF Has
  <2>2. ASSUME m \in MinutesOf(Computed(l, s)) PROVE Has(l - 1, m)
    <3>1. CASE Sources(l, s) = {}
      <4>1. Has(l, m)
        BY <1>1, <2>2, <3>1, ComputedIs DEF Has
      <4> QED
        BY <1>2, <4>1 DEF Inherit
    <3>2. CASE Sources(l, s) # {}
      <4>1. PICK r \in Sources(l, s) : m \in MinutesOf(row[l - 1][r])
        BY <1>1, <2>2, <3>2, ComputedIs
      <4>2. r \in Starts
        BY <1>1, SourcesAre
      <4>3. Floor(l - 1, m) = r
        BY <1>1, <4>1, <4>2 DEF Placed
      <4> QED
        BY <4>1, <4>3 DEF Has
    <3> QED
      BY <3>1, <3>2
  <2> QED
    BY <1>2, <2>1, <2>2
<1>3. CASE ~(m >= Since(l))
  <2>1. Sources(l, s) = {}
    <3> SUFFICES ASSUME NEW r \in Sources(l, s) PROVE FALSE
      OBVIOUS
    <3>1. s >= Since(l)
      BY <1>1, SourcesAre
    <3> QED
      BY <1>1, <1>3, <3>1, Window
  <2> QED
    BY <1>1, <1>3, <2>1, ComputedIs DEF Has
<1> QED
  BY <1>2, <1>3
-----------------------------------------------------------------------------
\* What KInv says of the candles themselves.
Rows ==
  /\ Placed
  /\ \A l \in Plain : Opens(l)
  /\ \A l \in Plain \ {1} : Inherit(l) /\ FirstOnes(l)
Computing ==
  \A l \in Plain :
    /\ UpTo(l, passed)
    /\ began # Broken /\ l < level => UpTo(l, began)

\* The first interval is its own, so it always has the last state of its minutes.
LEMMA FirstLevel ==
  ASSUME NEW b
  PROVE  UpTo(1, b) /\ UpTo(1, b)'
<1>1. 1 \in Plain
  BY Ranges, CandlesAssumption DEF Plain
<1>2. ASSUME NEW m \in Starts PROVE Floor(1, m) = m
  <2>1. m \in Int
    BY Ranges
  <2>2. Values[1] = 1
    BY CandlesAssumption
  <2> QED
    BY <1>1, <2>1, <2>2, FloorProps
<1>3. \A m \in Present(1) : HasLast(1, m)
  BY <1>2 DEF HasLast, Present
<1>4. \A m \in Present(1)' : HasLast(1, m)'
  BY <1>2 DEF HasLast, Present, Floor
<1> QED
  BY <1>3, <1>4 DEF UpTo

\* A statement's window only moves forward.
LEMMA WindowMoves ==
  ASSUME TypeOK, TypeOK', now <= now', NEW l \in Plain
  PROVE  Since(l) <= Since(l)' /\ Since(l) \in Int /\ Since(l)' \in Int
<1>1. now \in Int /\ now' \in Int
  BY Ranges DEF TypeOK
<1>2. Floor(l, now) <= Floor(l, now') /\ Floor(l, now) \in Int /\ Floor(l, now') \in Int
  BY <1>1, FloorProps
<1>3. Values[l] \in Nat /\ Shift(l) = 0
  BY Chain
<1>4. Since(l) = Floor(l, now) - Shift(l) - Values[l] /\ Since(l)' = Floor(l, now') - Shift(l) - Values[l]
  BY DEF Since, Floor, Shift
<1> QED
  BY <1>2, <1>3, <1>4

LEMMA SameRows ==
  ASSUME TypeOK, TypeOK', Rows, row' = row, now <= now', latest <= latest'
  PROVE  Rows'
<1>1. Placed'
  <2> SUFFICES ASSUME NEW l \in Plain, NEW s \in Starts, NEW m \in MinutesOf(row[l][s])
               PROVE  Floor(l, m) = s /\ m <= latest'
    BY DEF Placed, MinutesOf, Floor
  <2>1. Floor(l, m) = s /\ m <= latest
    BY DEF Rows, Placed
  <2>2. l \in Levels
    BY DEF Plain
  <2>3. m \in Minutes
    BY <2>2, RowMinutes
  <2> QED
    BY <2>1, <2>3, Ranges DEF TypeOK
<1>2. (\A l \in Plain : Opens(l))'
  BY DEF Rows, Opens, Present, MinutesOf
<1>3. ASSUME NEW l \in Plain \ {1} PROVE (Inherit(l) /\ FirstOnes(l))'
  <2>1. Since(l) <= Since(l)' /\ Since(l) \in Int /\ Since(l)' \in Int
    BY <1>3, WindowMoves
  <2>2. \A m : Has(l, m)' <=> Has(l, m)
    BY DEF Has, MinutesOf, Floor
  <2>3. \A m : Has(l - 1, m)' <=> Has(l - 1, m)
    BY DEF Has, MinutesOf, Floor
  <2>4. Inherit(l) /\ FirstOnes(l)
    BY DEF Rows
  <2>5. \A m \in Minutes : m >= Since(l)' => m >= Since(l)
    BY <2>1, Ranges
  <2> QED
    BY <2>2, <2>3, <2>4, <2>5 DEF Inherit, FirstOnes
<1> QED
  BY <1>1, <1>2, <1>3 DEF Rows

LEMMA SameUpTo ==
  ASSUME row' = row, NEW l, NEW b, UpTo(l, b)
  PROVE  UpTo(l, b)'
  BY DEF UpTo, HasLast, Present, Newer, Floor

LEMMA Numbers ==
  ASSUME TypeOK
  PROVE  /\ now \in Nat /\ latest \in Nat /\ passed \in Nat /\ began \in Int /\ level \in Nat
         /\ MaxLag \in Nat /\ Kept \in Nat /\ MaxNow \in Nat /\ Len(Values) \in Nat
         /\ Broken \in Int /\ Broken = 0 - 1 /\ (began # Broken => began \in Nat)
<1>1. MaxLag \in Nat /\ Kept \in Nat /\ MaxNow \in Nat /\ Len(Values) \in Nat
  BY CandlesAssumption
<1>2. Broken \in Int /\ Broken = 0 - 1
  BY DEF Broken
<1>3. now \in Nat /\ latest \in Nat /\ passed \in Nat /\ level \in Nat
  BY Ranges DEF TypeOK, Levels
<1>4. began \in Int /\ (began # Broken => began \in Nat)
  BY <1>2, Ranges DEF TypeOK
<1> QED
  BY <1>1, <1>2, <1>3, <1>4

LEMMA SameLate ==
  ASSUME TypeOK, TypeOK', row' = row, latest <= latest', passed' = passed, began' = began \/ began' = Broken,
         NEW m \in Minutes, Late(m)
  PROVE  Late(m)'
<1>0. m \in Nat /\ latest \in Int /\ latest' \in Int /\ Broken = 0 - 1
  BY Ranges, Numbers DEF TypeOK
<1>1. m <= latest' /\ began' - 1 <= m
  BY <1>0 DEF Late
<1>2. (\A l \in Plain : \A s \in Starts : \A n \in MinutesOf(row[l][s]) : n <= m)'
  BY DEF Late, MinutesOf
<1> QED
  BY <1>1, <1>2 DEF Late

LEMMA EventMinutes ==
  ASSUME TypeOK
  PROVE  Batch \subseteq Minutes /\ Waiting \subseteq Minutes
<1>1. /\ \A i \in 1..Len(item_datas) : item_datas[i] \in Events
      /\ \A i \in 1..Len(klineDataChan) : klineDataChan[i] \in Events
  BY DEF TypeOK
<1> QED
  BY <1>1 DEF Events, Batch, Waiting

LEMMA KInvParts == KInv <=> TypeOK /\ Clock /\ InOrder /\ Rows /\ Computing
  BY DEF KInv, Rows, Computing

LEMMA TickKept ==
  ASSUME KInv, TypeOK', Tick
  PROVE  KInv'
<1>1. TypeOK /\ Clock /\ InOrder /\ Rows /\ Computing
  BY KInvParts
<1>2. /\ row' = row /\ latest' = latest /\ passed' = passed /\ began' = began
      /\ item_datas' = item_datas /\ klineDataChan' = klineDataChan /\ level' = level
      /\ now' = now + 1 /\ now < passed + MaxLag
  BY DEF Tick
<1>3. now \in Int /\ latest \in Int /\ passed \in Int /\ MaxLag \in Int /\ began \in Int
  BY <1>1, Numbers
<1>4. Clock'
  BY <1>1, <1>2, <1>3 DEF Clock
<1>5. Rows'
  BY <1>1, <1>2, <1>3, SameRows
<1>6. InOrder'
  <2>1. Batch' = Batch /\ Waiting' = Waiting
    BY <1>2 DEF Batch, Waiting
  <2>2. \A m : Late(m) => Late(m)'
    BY <1>2 DEF Late, MinutesOf
  <2> QED
    BY <1>1, <1>2, <2>1, <2>2 DEF InOrder
<1>7. Computing'
  BY <1>1, <1>2, SameUpTo DEF Computing
<1> QED
  BY <1>4, <1>5, <1>6, <1>7, KInvParts DEF KInv, Rows, Computing

LEMMA ReceiveKept ==
  ASSUME KInv, TypeOK', Receive
  PROVE  KInv'
<1>1. TypeOK /\ Clock /\ InOrder /\ Rows /\ Computing
  BY KInvParts
<1>2. /\ row' = row /\ latest' = latest /\ passed' = passed /\ began' = began
      /\ level' = level /\ now' = now /\ klineDataChan # <<>>
      /\ item_datas' = Append(item_datas, Head(klineDataChan))
      /\ klineDataChan' = Tail(klineDataChan)
  BY DEF Receive
<1>3. now \in Int /\ latest \in Int
  BY <1>1, Numbers
<1>4. Clock' /\ Rows' /\ Computing'
  <2>1. Clock'
    BY <1>1, <1>2 DEF Clock
  <2>2. Rows'
    BY <1>1, <1>2, <1>3, SameRows
  <2>3. Computing'
    BY <1>1, <1>2, SameUpTo DEF Computing
  <2> QED
    BY <2>1, <2>2, <2>3
<1>5. /\ \A i \in 1..Len(item_datas') :
           \/ item_datas'[i] = klineDataChan[1]
           \/ i \in 1..Len(item_datas) /\ item_datas'[i] = item_datas[i]
      /\ \A i \in 1..Len(klineDataChan') :
           i + 1 \in 1..Len(klineDataChan) /\ klineDataChan'[i] = klineDataChan[i + 1]
      /\ 1 \in 1..Len(klineDataChan) /\ Len(klineDataChan) \in Nat /\ Len(klineDataChan') \in Nat
  <2>1. item_datas \in Seq(Events) /\ klineDataChan \in Seq(Events)
    BY <1>1 DEF TypeOK
  <2>2. Len(klineDataChan) \in Nat /\ 1 \in 1..Len(klineDataChan) /\ Head(klineDataChan) = klineDataChan[1]
    BY <1>2, <2>1
  <2>3. \A i \in 1..Len(item_datas') :
           \/ item_datas'[i] = klineDataChan[1]
           \/ i \in 1..Len(item_datas) /\ item_datas'[i] = item_datas[i]
    BY <1>2, <2>1, <2>2
  <2>4. Len(klineDataChan') = Len(klineDataChan) - 1
    BY <1>2, <2>1
  <2>5. \A i \in 1..Len(klineDataChan') :
           i + 1 \in 1..Len(klineDataChan) /\ klineDataChan'[i] = klineDataChan[i + 1]
    BY <1>2, <2>1, <2>4
  <2> QED
    BY <2>2, <2>3, <2>4, <2>5
<1>6. \A m : Late(m)' <=> Late(m)
  BY <1>2 DEF Late, MinutesOf
<1>7. Batch' \subseteq Batch \cup {klineDataChan[1][1]} /\ Waiting' \subseteq Waiting
      /\ klineDataChan[1][1] \in Waiting
  <2>1. Batch' = {item_datas'[i][1] : i \in 1..Len(item_datas')}
    BY DEF Batch
  <2>2. Waiting' = {klineDataChan'[i][1] : i \in 1..Len(klineDataChan')}
    BY DEF Waiting
  <2>3. ASSUME NEW i \in 1..Len(item_datas')
        PROVE  item_datas'[i][1] \in Batch \cup {klineDataChan[1][1]}
    <3>1. CASE item_datas'[i] = klineDataChan[1]
      BY <3>1
    <3>2. CASE i \in 1..Len(item_datas) /\ item_datas'[i] = item_datas[i]
      BY <3>2 DEF Batch
    <3> QED
      BY <1>5, <3>1, <3>2
  <2>4. Waiting' \subseteq Waiting
    BY <1>5, <2>2 DEF Waiting
  <2> QED
    BY <1>5, <2>1, <2>3, <2>4 DEF Waiting
<1>8. /\ \A m \in Waiting : klineDataChan[1][1] <= m
      /\ \A i \in 1..Len(klineDataChan') : \A j \in 1..i :
           klineDataChan'[j][1] <= klineDataChan'[i][1]
  <2>1. \A i \in 1..Len(klineDataChan) : \A j \in 1..i :
          klineDataChan[j][1] <= klineDataChan[i][1]
    BY <1>1 DEF InOrder
  <2>2. ASSUME NEW i \in 1..Len(klineDataChan) PROVE klineDataChan[1][1] <= klineDataChan[i][1]
    BY <2>1, <1>5
  <2>3. ASSUME NEW i \in 1..Len(klineDataChan'), NEW j \in 1..i
        PROVE  klineDataChan'[j][1] <= klineDataChan'[i][1]
    <3>1. i + 1 \in 1..Len(klineDataChan) /\ j \in 1..Len(klineDataChan') /\ j + 1 \in 1..(i + 1)
      BY <1>5
    <3> QED
      BY <1>5, <2>1, <3>1
  <2> QED
    BY <2>2, <2>3 DEF Waiting
<1>9. InOrder'
  <2>1. \A m \in (Batch \cup Waiting)' : Late(m)'
    BY <1>1, <1>6, <1>7 DEF InOrder
  <2>2. \A m \in Batch', n \in Waiting' : m <= n
    BY <1>1, <1>7, <1>8 DEF InOrder
  <2> QED
    BY <1>8, <2>1, <2>2 DEF InOrder
<1> QED
  BY <1>4, <1>9 DEF KInv, Rows, Computing

LEMMA CrashKept ==
  ASSUME KInv, TypeOK', Crash
  PROVE  KInv'
<1>1. TypeOK /\ Clock /\ InOrder /\ Rows /\ Computing
  BY KInvParts
<1>2. /\ row' = row /\ latest' = latest /\ passed' = passed /\ began' = Broken
      /\ now' = now /\ item_datas' = <<>> /\ klineDataChan' = <<>>
  BY DEF Crash
<1>3. now \in Int /\ latest \in Int
  BY <1>1, Numbers
<1>4. Clock'
  BY <1>1, <1>2 DEF Clock
<1>5. Rows'
  BY <1>1, <1>2, <1>3, SameRows
<1>6. Computing'
  <2>1. \A l \in Plain : UpTo(l, passed)'
    BY <1>1, <1>2, SameUpTo DEF Computing
  <2> QED
    BY <1>2, <2>1 DEF Computing
<1>7. InOrder'
  BY <1>2, Len(<<>>) = 0 DEF InOrder, Batch, Waiting
<1> QED
  BY <1>4, <1>5, <1>6, <1>7 DEF KInv, Rows, Computing

\* An event is of a minute not before those that came before it.
LEMMA EventKept ==
  ASSUME KInv, TypeOK', NEW m \in Minutes, dataHandler(m)
  PROVE  KInv'
<1>1. TypeOK /\ Clock /\ InOrder /\ Rows /\ Computing
  BY KInvParts
<1>2. /\ row' = row /\ latest' = m /\ passed' = passed /\ began' = began
      /\ level' = level /\ now' = now /\ item_datas' = item_datas
      /\ m \in {now - 1, now} /\ m >= latest
      /\ klineDataChan' = Append(klineDataChan, <<m, sent'>>)
  BY DEF dataHandler
<1>3. /\ now \in Nat /\ latest \in Nat /\ m \in Nat /\ passed \in Nat /\ began \in Int
      /\ Broken = 0 - 1 /\ (began # Broken => began \in Nat)
  BY <1>1, Numbers, Ranges
<1>4. Clock'
  BY <1>1, <1>2, <1>3 DEF Clock
<1>5. Rows'
  BY <1>1, <1>2, <1>3, SameRows
<1>6. Computing'
  BY <1>1, <1>2, SameUpTo DEF Computing
<1>7. /\ Len(klineDataChan) \in Nat /\ Len(klineDataChan') = Len(klineDataChan) + 1
      /\ \A i \in 1..Len(klineDataChan) : klineDataChan'[i] = klineDataChan[i]
      /\ klineDataChan'[Len(klineDataChan) + 1] = <<m, sent'>>
  <2>1. klineDataChan \in Seq(Events) /\ klineDataChan' \in Seq(Events)
    BY <1>1 DEF TypeOK
  <2> QED
    BY <1>2, <2>1
<1>8. ASSUME NEW n \in Minutes, Late(n) PROVE Late(n)' /\ n <= m
  <2>1. Late(n)'
    BY <1>1, <1>2, <1>3, <1>8, SameLate
  <2>2. n <= latest
    BY <1>8 DEF Late
  <2>3. n \in Nat
    BY Ranges
  <2> QED
    BY <1>2, <1>3, <2>1, <2>2, <2>3
<1>9. Late(m)'
  <2>1. m <= latest' /\ passed' - 1 <= m /\ began' - 1 <= m
    BY <1>1, <1>2, <1>3 DEF Clock
  <2>2. ASSUME NEW l \in Plain, NEW s \in Starts, NEW n \in MinutesOf(row[l][s]) PROVE n <= m
    <3>1. n <= latest
      BY <1>1 DEF Rows, Placed
    <3>2. l \in Levels
      BY DEF Plain
    <3>3. n \in Nat
      BY <1>1, <3>2, RowMinutes, Ranges
    <3> QED
      BY <1>2, <1>3, <3>1, <3>3
  <2> QED
    BY <1>2, <2>1, <2>2 DEF Late, MinutesOf
<1>10. Batch' = Batch /\ Waiting' = Waiting \cup {m}
  <2>1. Waiting' = {klineDataChan'[i][1] : i \in 1..(Len(klineDataChan) + 1)}
    BY <1>7 DEF Waiting
  <2>2. /\ \A i \in 1..(Len(klineDataChan) + 1) :
             i \in 1..Len(klineDataChan) \/ i = Len(klineDataChan) + 1
        /\ \A i \in 1..Len(klineDataChan) : i \in 1..(Len(klineDataChan) + 1)
        /\ Len(klineDataChan) + 1 \in 1..(Len(klineDataChan) + 1)
    BY <1>7
  <2>3. klineDataChan'[Len(klineDataChan) + 1][1] = m
    BY <1>7
  <2>4. Waiting' = Waiting \cup {m}
    BY <1>7, <2>1, <2>2, <2>3 DEF Waiting
  <2> QED
    BY <1>2, <2>4 DEF Batch
<1>11. \A i \in 1..Len(klineDataChan') : \A j \in 1..i :
         klineDataChan'[j][1] <= klineDataChan'[i][1]
  <2> SUFFICES ASSUME NEW i \in 1..Len(klineDataChan'), NEW j \in 1..i
               PROVE  klineDataChan'[j][1] <= klineDataChan'[i][1]
    OBVIOUS
  <2>1. CASE i \in 1..Len(klineDataChan)
    <3>1. klineDataChan'[i] = klineDataChan[i] /\ klineDataChan'[j] = klineDataChan[j]
      BY <1>7, <2>1
    <3> QED
      BY <1>1, <2>1, <3>1 DEF InOrder
  <2>2. CASE i = Len(klineDataChan) + 1
    <3>1. klineDataChan'[i][1] = m
      BY <1>7, <2>2
    <3>2. CASE j = i
      BY <1>3, <3>1, <3>2
    <3>3. CASE j \in 1..Len(klineDataChan)
      <4>1. klineDataChan'[j] = klineDataChan[j] /\ klineDataChan[j][1] \in Waiting
        BY <1>7, <3>3 DEF Waiting
      <4>2. klineDataChan[j][1] <= m
        BY <1>1, <1>8, <4>1, EventMinutes DEF InOrder
      <4> QED
        BY <3>1, <4>1, <4>2
    <3> QED
      BY <1>7, <2>2, <3>2, <3>3
  <2> QED
    BY <1>7, <2>1, <2>2
<1>12. InOrder'
  <2>1. \A n \in Batch \cup Waiting : Late(n)' /\ n <= m
    BY <1>1, <1>8, EventMinutes DEF InOrder
  <2>2. \A n \in (Batch \cup Waiting)' : Late(n)'
    BY <1>9, <1>10, <2>1
  <2>3. \A k \in Batch', n \in Waiting' : k <= n
    BY <1>1, <1>10, <2>1 DEF InOrder
  <2> QED
    BY <1>11, <2>2, <2>3 DEF InOrder
<1> QED
  BY <1>4, <1>5, <1>6, <1>12 DEF KInv, Rows, Computing

\* The rows that saving the batch leaves, and the minutes they are made of.
LEMMA SavedRows ==
  ASSUME TypeOK, Save(TRUE)
  PROVE  /\ \A k \in Levels \ {1} : row'[k] = row[k]
         /\ \A s \in Starts :
              \/ s \notin Batch /\ row'[1][s] = row[1][s]
              \/ s \in Batch /\ row'[1][s].open = s /\ MinutesOf(row'[1][s]) = {s}
         /\ \A m \in Minutes : Has(1, m)' <=> (Has(1, m) \/ m \in Batch)
<1>1. row' = [row EXCEPT ![1] = [s \in Starts |-> IF s \in Minutes THEN Saved(s) ELSE row[1][s]]]
  BY DEF Save
<1>2. row \in [Levels -> [Starts -> Candle]] /\ 1 \in Levels
  BY Ranges DEF TypeOK
<1>3. \A k \in Levels \ {1} : row'[k] = row[k]
  BY <1>1, <1>2
<1>4. \A s \in Starts : row'[1][s] = IF s \in Minutes THEN Saved(s) ELSE row[1][s]
  BY <1>1, <1>2
<1>5. ASSUME NEW s \in Starts
      PROVE  \/ s \notin Batch /\ row'[1][s] = row[1][s]
             \/ s \in Batch /\ row'[1][s].open = s /\ MinutesOf(row'[1][s]) = {s}
  <2>1. CASE s \notin Minutes
    BY <1>4, <2>1, EventMinutes
  <2>2. CASE s \in Minutes
    <3>1. CASE Saved(s) = row[1][s] /\ \A i \in 1..Len(item_datas) : item_datas[i][1] # s
      BY <1>4, <2>2, <3>1 DEF Batch
    <3>2. CASE \E i \in 1..Len(item_datas) :
                 item_datas[i][1] = s /\ Saved(s) = [open |-> s, data |-> {item_datas[i]}]
      <4>1. PICK i \in 1..Len(item_datas) :
                 item_datas[i][1] = s /\ Saved(s) = [open |-> s, data |-> {item_datas[i]}]
        BY <3>2
      <4>2. s \in Batch
        BY <4>1 DEF Batch
      <4>3. row'[1][s] = [open |-> s, data |-> {item_datas[i]}]
        BY <1>4, <2>2, <4>1
      <4>4. MinutesOf(row'[1][s]) = {item_datas[i][1]}
        BY <4>3 DEF MinutesOf
      <4>5. row'[1][s].open = s
        BY <4>3
      <4>6. MinutesOf(row'[1][s]) = {s}
        BY <4>1, <4>4
      <4> QED
        BY <4>2, <4>5, <4>6
    <3> QED
      BY <2>2, <3>1, <3>2, SavedIs
  <2> QED
    BY <2>1, <2>2
<1>6. ASSUME NEW m \in Minutes PROVE Has(1, m)' <=> (Has(1, m) \/ m \in Batch)
  <2>1. 1 \in Plain
    BY Ranges, CandlesAssumption DEF Plain
  <2>2. Floor(1, m) = m /\ m \in Starts
    BY <2>1, Buckets
  <2>3. Has(1, m)' <=> m \in MinutesOf(row'[1][m])
    BY <2>2 DEF Has, MinutesOf, Floor
  <2>4. Has(1, m) <=> m \in MinutesOf(row[1][m])
    BY <2>2 DEF Has
  <2> QED
    BY <1>5, <2>2, <2>3, <2>4
<1> QED
  BY <1>3, <1>5, <1>6

LEMMA SaveKept ==
  ASSUME KInv, TypeOK', NEW ok \in BOOLEAN, Save(ok)
  PROVE  KInv'
<1>1. TypeOK /\ Clock /\ InOrder /\ Rows /\ Computing
  BY KInvParts
<1>2. /\ latest' = latest /\ passed' = passed /\ level' = 2 /\ now' = now
      /\ item_datas' = <<>> /\ klineDataChan' = klineDataChan
      /\ began' = IF ok /\ klineDataChan = <<>> THEN now ELSE Broken
      /\ (ok = FALSE => row' = row)
  BY DEF Save
<1>3. /\ now \in Nat /\ latest \in Nat /\ passed \in Nat /\ Broken = 0 - 1 /\ 1 \in Plain
  BY <1>1, Numbers, Ranges, CandlesAssumption DEF Plain
<1>4. Clock'
  BY <1>1, <1>2, <1>3 DEF Clock
<1>5. Batch' = {} /\ Waiting' = Waiting /\ (began' # Broken => Waiting = {})
  BY <1>2, Len(<<>>) = 0 DEF Batch, Waiting
<1>6. ASSUME NEW n, n \in Batch \cup Waiting
      PROVE  n \in Nat /\ n <= latest /\ passed - 1 <= n
  BY <1>1, <1>6, EventMinutes, Ranges DEF InOrder, Late
<1>7. CASE ok = FALSE
  <2>1. Rows'
    BY <1>1, <1>2, <1>3, <1>7, SameRows
  <2>2. ASSUME NEW m \in Waiting PROVE Late(m)'
    <3>1. Late(m) /\ m \in Minutes
      BY <1>1, EventMinutes DEF InOrder
    <3>2. began' = Broken
      BY <1>2, <1>7
    <3> QED
      BY <1>1, <1>2, <1>3, <1>7, <3>1, <3>2, SameLate
  <2>3. InOrder'
    BY <1>1, <1>2, <1>5, <2>2 DEF InOrder
  <2>4. Computing'
    <3>1. \A l \in Plain : UpTo(l, passed)'
      BY <1>1, <1>2, <1>7, SameUpTo DEF Computing
    <3> QED
      BY <1>2, <1>7, <3>1 DEF Computing
  <2> QED
    BY <1>4, <2>1, <2>3, <2>4 DEF KInv, Rows, Computing
<1>8. CASE ok = TRUE
  <2>1. /\ \A k \in Levels \ {1} : row'[k] = row[k]
        /\ \A s \in Starts :
             \/ s \notin Batch /\ row'[1][s] = row[1][s]
             \/ s \in Batch /\ row'[1][s].open = s /\ MinutesOf(row'[1][s]) = {s}
        /\ \A m \in Minutes : Has(1, m)' <=> (Has(1, m) \/ m \in Batch)
    BY <1>1, <1>8, SavedRows
  <2>2. ASSUME NEW l \in Plain, NEW s \in Starts, NEW m \in MinutesOf(row'[l][s])
        PROVE  m \in MinutesOf(row[l][s]) \/ (l = 1 /\ m = s /\ m \in Batch)
    <3>1. l \in Levels
      BY DEF Plain
    <3> QED
      BY <2>1, <3>1
  <2>3. Placed'
    <3> SUFFICES ASSUME NEW l \in Plain, NEW s \in Starts, NEW m \in MinutesOf(row'[l][s])
                 PROVE  Floor(l, m) = s /\ m <= latest'
      BY DEF Placed, MinutesOf, Floor
    <3>1. CASE m \in MinutesOf(row[l][s])
      BY <1>1, <1>2, <3>1 DEF Rows, Placed
    <3>2. CASE l = 1 /\ m = s /\ m \in Batch
      <4>1. m \in Minutes
        BY <1>1, <3>2, EventMinutes
      <4> QED
        BY <1>2, <1>6, <3>2, <4>1, Buckets
    <3> QED
      BY <2>2, <3>1, <3>2
  <2>4. (\A l \in Plain : Opens(l))'
    <3> SUFFICES ASSUME NEW l \in Plain, NEW s \in Starts, row'[l][s] # Missing
                 PROVE  /\ row'[l][s].open \in MinutesOf(row'[l][s])
                        /\ \A m \in MinutesOf(row'[l][s]) : row'[l][s].open <= m
      BY DEF Opens, Present, MinutesOf, Missing
    <3>1. CASE row'[l][s] = row[l][s]
      BY <1>1, <3>1 DEF Rows, Opens, Present
    <3>2. CASE l = 1 /\ s \in Batch /\ row'[1][s].open = s /\ MinutesOf(row'[1][s]) = {s}
      BY <1>6, <3>2
    <3>3. l \in Levels
      BY DEF Plain
    <3> QED
      BY <2>1, <3>1, <3>2, <3>3
  <2>5. ASSUME NEW l \in Plain \ {1} PROVE (Inherit(l) /\ FirstOnes(l))'
    <3>1. l \in Plain /\ l - 1 \in Plain /\ l \in Levels \ {1} /\ l - 1 \in Levels
      BY Chain DEF Plain
    <3>2. Since(l)' = Since(l)
      BY <1>2 DEF Since, Floor, Shift
    <3>3. \A m \in Minutes : Has(l, m)' <=> Has(l, m)
      BY <2>1, <3>1 DEF Has, MinutesOf, Floor
    <3>4. \A m \in Minutes : Has(l - 1, m)' <=> (Has(l - 1, m) \/ (l = 2 /\ m \in Batch))
      <4>1. CASE l = 2
        BY <2>1, <4>1
      <4>2. CASE l # 2
        <5>1. l - 1 \in Levels \ {1}
          BY <3>1, <4>2 DEF Levels
        <5> QED
          BY <2>1, <4>2, <5>1 DEF Has, MinutesOf, Floor
      <4> QED
        BY <4>1, <4>2
    <3>5. Inherit(l) /\ FirstOnes(l)
      BY <1>1 DEF Rows
    <3>6. ASSUME NEW x \in Minutes, NEW y \in Minutes, Has(l, x), y \in Batch, y < x PROVE FALSE
      <4>1. Late(y)
        BY <1>1, <3>6 DEF InOrder
      <4>2. Floor(l, x) \in Starts /\ x \in MinutesOf(row[l][Floor(l, x)])
        BY <3>1, <3>6, Buckets DEF Has
      <4>3. x <= y
        BY <3>1, <4>1, <4>2 DEF Late
      <4> QED
        BY <3>6, <4>3, Ranges
    <3>7. Inherit(l)'
      BY <3>2, <3>3, <3>4, <3>5 DEF Inherit
    <3>8. FirstOnes(l)'
      BY <3>2, <3>3, <3>4, <3>5, <3>6 DEF FirstOnes
    <3> QED
      BY <3>7, <3>8
  <2>6. Rows'
    BY <2>3, <2>4, <2>5 DEF Rows
  <2>7. ASSUME NEW m \in Waiting PROVE Late(m)'
    <3>1. Late(m) /\ m \in Nat /\ \A n \in Batch : n <= m
      BY <1>1, EventMinutes, Ranges DEF InOrder
    <3>2. m <= latest' /\ passed' - 1 <= m /\ began' - 1 <= m
      BY <1>2, <1>3, <1>5, <3>1 DEF Late
    <3>3. \A l \in Plain : \A s \in Starts : \A n \in MinutesOf(row'[l][s]) : n <= m
      BY <2>2, <3>1 DEF Late
    <3> QED
      BY <3>2, <3>3 DEF Late, MinutesOf
  <2>8. InOrder'
    BY <1>1, <1>2, <1>5, <2>7 DEF InOrder
  <2>9. ASSUME NEW l \in Plain PROVE UpTo(l, passed)'
    <3>1. CASE l = 1
      BY <3>1, FirstLevel DEF UpTo, HasLast, Present
    <3>2. CASE l # 1
      <4>1. l \in Levels \ {1} /\ UpTo(l, passed)
        BY <1>1, <3>2 DEF Computing, Plain
      <4>2. ASSUME NEW m \in Present(1)', m < passed - 1 PROVE HasLast(l, m)'
        <5>1. m \in Starts /\ m \in Int /\ row'[1][m] # Missing
          BY <4>2, Ranges DEF Present, Missing
        <5>2. m \notin Batch
          BY <1>3, <1>6, <4>2
        <5>3. row'[1][m] = row[1][m]
          BY <2>1, <5>1, <5>2
        <5>4. HasLast(l, m)
          BY <4>1, <4>2, <5>1, <5>3 DEF UpTo, Present
        <5>5. row'[l] = row[l]
          BY <2>1, <4>1
        <5>6. Present(l)' = Present(l)
          BY <5>5 DEF Present, Missing
        <5>7. Newer(l, Floor(l, m))' = Newer(l, Floor(l, m))
          BY <5>6 DEF Newer, Floor
        <5> QED
          BY <5>3, <5>4, <5>5, <5>6, <5>7 DEF HasLast, Floor
      <4> QED
        BY <1>2, <4>2 DEF UpTo
    <3> QED
      BY <3>1, <3>2
  <2>10. ASSUME NEW l \in Plain, l < level' PROVE UpTo(l, began)'
    <3>1. l = 1
      BY <1>2, <2>10 DEF Plain, Levels
    <3> QED
      BY <3>1, FirstLevel DEF UpTo, HasLast, Present
  <2>11. Computing'
    BY <2>9, <2>10 DEF Computing
  <2> QED
    BY <1>4, <2>6, <2>8, <2>11 DEF KInv, Rows, Computing
<1> QED
  BY <1>7, <1>8

\* No candle in a statement's window is ever pushed out: there is no room for Kept
\* newer ones until now.
LEMMA FewNewer ==
  ASSUME TypeOK, Clock, Rows, NEW l \in Plain, NEW r \in Int, Kept # 0,
         Floor(l, r) = r, now < r + Kept * Values[l]
  PROVE  Cardinality(Newer(l, r)) < Kept
<1> DEFINE V == Values[l]
           i == r \div V
           T == Newer(l, r)
<1>1. V \in Nat \ {0} /\ Kept \in Nat \ {0} /\ now \in Nat /\ latest \in Nat /\ l \in Levels
  BY Chain, Numbers
<1>2. i \in Int /\ r = i * V
  <2>1. i \in Int
    <3> HIDE DEF V
    <3> QED BY <1>1, Division
  <2> QED
    BY <2>1 DEF Floor
<1>3. ASSUME NEW n \in T PROVE n \in Int /\ r < n /\ n <= now /\ n = (n \div V) * V
  <2>1. n \in Starts /\ n \in Present(l) /\ n > r
    BY DEF Newer, Present
  <2>2. n \in Int
    BY <2>1, Ranges
  <2>3. PICK m \in MinutesOf(row[l][n]) : TRUE
    BY <2>1 DEF Rows, Opens
  <2>4. m \in Int /\ Floor(l, m) = n /\ m <= latest
    BY <1>1, <2>1, <2>3, RowMinutes, Ranges DEF Rows, Placed
  <2>5. n <= m /\ Floor(l, n) = n
    BY <1>1, <2>2, <2>4, FloorProps
  <2>6. n = (n \div V) * V
    BY <2>5 DEF Floor
  <2>7. n <= now
    BY <1>1, <2>2, <2>4, <2>5 DEF Clock
  <2> QED
    BY <2>1, <2>2, <2>6, <2>7
<1>4. now < i * V + Kept * V
  BY <1>2
<1> HIDE DEF V, i
<1>5. i * V \in Int /\ Kept * V \in Int
  BY <1>1, <1>2
<1>6. T \in SUBSET Int
  BY <1>3
<1>7. \A n \in T : i * V < n /\ n < i * V + Kept * V /\ n = (n \div V) * V
  <2> SUFFICES ASSUME NEW n \in T
               PROVE  i * V < n /\ n < i * V + Kept * V /\ n = (n \div V) * V
    OBVIOUS
  <2>1. n \in Int /\ r < n /\ n <= now /\ n = (n \div V) * V
    BY <1>3 DEF V
  <2> QED
    BY <1>1, <1>2, <1>4, <1>5, <2>1
<1> HIDE DEF T
<1>8. Cardinality(T) < Kept
  BY <1>1, <1>2, <1>6, <1>7, FewMultiples
<1> QED
  BY <1>8 DEF T

LEMMA WindowIsKept ==
  ASSUME TypeOK, Clock, Rows, NEW l \in Plain \ {1}, NEW m \in Int, m >= Since(l)
  PROVE  /\ Cardinality(Newer(l - 1, Floor(l - 1, m))) < Kept
         /\ Cardinality(Newer(l, Floor(l, m))) < Kept
<1>1. /\ now \in Nat /\ l - 1 \in Plain /\ l \in Plain /\ l # 1
      /\ Values[l] \in Nat \ {0} /\ Values[l - 1] \in Nat \ {0} /\ Kept \in Nat \ {0}
      /\ 2 * Values[l] <= Kept * Values[l - 1] /\ Values[l - 1] <= Values[l]
  BY Chain, Numbers
<1>2. /\ Floor(l, m) \in Int /\ Floor(l - 1, m) \in Int
      /\ Floor(l, Floor(l, m)) = Floor(l, m) /\ Floor(l - 1, Floor(l - 1, m)) = Floor(l - 1, m)
  <2>1. \A k \in Plain : Floor(k, m) \in Int /\ Floor(k, m) <= m /\ m < Floor(k, m) + Values[k]
                         /\ Values[k] \in Nat \ {0}
    BY FloorProps, Chain
  <2>2. \A k \in Plain : \A u \in Int :
          Floor(k, m) <= u /\ u < Floor(k, m) + Values[k] => Floor(k, u) = Floor(k, m)
    BY FloorProps
  <2>3. \A k \in Plain : Floor(k, Floor(k, m)) = Floor(k, m)
    <3> SUFFICES ASSUME NEW k \in Plain PROVE Floor(k, Floor(k, m)) = Floor(k, m)
      OBVIOUS
    <3> DEFINE g == Floor(k, m)
    <3>1. g \in Int /\ Values[k] \in Nat \ {0}
      BY <2>1
    <3>2. g <= g /\ g < g + Values[k]
      <4> HIDE DEF g
      <4> QED BY <3>1
    <3> QED
      BY <2>2, <3>1, <3>2
  <2> QED
    BY <1>1, <2>1, <2>3
<1>3. /\ Since(l) \in Int /\ now < Since(l) + 2 * Values[l]
      /\ Floor(l, m) >= Since(l) /\ Floor(l - 1, m) >= Since(l)
  BY <1>1, Window
<1>4. Kept * Values[l - 1] <= Kept * Values[l]
  <2> DEFINE V == Values[l - 1]
             W == Values[l]
  <2>1. V \in Nat /\ W \in Nat /\ V <= W /\ Kept \in Nat
    BY <1>1
  <2> HIDE DEF V, W
  <2>2. (W - V) * Kept >= 0
    BY <2>1
  <2>3. Kept * V <= Kept * W
    BY <2>1, <2>2
  <2> QED
    BY <2>3 DEF V, W
<1>5. now < Floor(l, m) + Kept * Values[l] /\ now < Floor(l - 1, m) + Kept * Values[l - 1]
  <2> DEFINE a == Kept * Values[l]
             c == Kept * Values[l - 1]
  <2>1. a \in Int /\ c \in Int /\ c <= a /\ 2 * Values[l] <= c
    BY <1>1, <1>4
  <2> HIDE DEF a, c
  <2>2. now < Floor(l, m) + a /\ now < Floor(l - 1, m) + c
    BY <1>1, <1>2, <1>3, <2>1
  <2> QED
    BY <2>2 DEF a, c
<1> QED
  BY <1>1, <1>2, <1>5, FewNewer

\* A statement puts minutes where they belong, and no others than there were.
LEMMA ComputedMinutes ==
  ASSUME TypeOK, Rows, NEW l \in Plain \ {1}, NEW s \in Starts,
         NEW m \in MinutesOf(Computed(l, s))
  PROVE  /\ Floor(l, m) = s /\ m \in Minutes
         /\ \E k \in Plain, r \in Starts : m \in MinutesOf(row[k][r])
<1>1. l \in Levels /\ l - 1 \in Plain /\ l - 1 \in Levels /\ l \in Plain
  BY Chain DEF Plain
<1>2. CASE Sources(l, s) = {}
  <2>1. m \in MinutesOf(row[l][s])
    BY <1>2, ComputedIs
  <2> QED
    BY <1>1, <2>1, RowMinutes DEF Rows, Placed
<1>3. CASE Sources(l, s) # {}
  <2>1. PICK r \in Sources(l, s) : m \in MinutesOf(row[l - 1][r])
    BY <1>3, ComputedIs
  <2>2. r \in Starts /\ Floor(l, r) = s
    BY <1>1, SourcesAre
  <2>3. Floor(l - 1, m) = r /\ m \in Minutes
    BY <1>1, <2>1, <2>2, RowMinutes DEF Rows, Placed
  <2>4. Floor(l, m) = s
    BY <1>1, <2>2, <2>3, FloorChain, Ranges
  <2> QED
    BY <1>1, <2>1, <2>2, <2>3, <2>4
<1> QED
  BY <1>2, <1>3

\* And a candle that is there stays there.
LEMMA ComputedThere ==
  ASSUME TypeOK, Rows, NEW l \in Plain \ {1}, NEW s \in Starts
  PROVE  /\ Sources(l, s) # {} => MinutesOf(Computed(l, s)) # {} /\ Computed(l, s) # Missing
         /\ s \in Present(l) => Computed(l, s) # Missing
<1>1. l - 1 \in Plain
  BY Chain
<1>2. ASSUME NEW r \in Sources(l, s) PROVE MinutesOf(Computed(l, s)) # {}
  <2>1. r \in Present(l - 1) /\ r \in Starts
    BY SourcesAre
  <2>2. row[l - 1][r].open \in MinutesOf(row[l - 1][r])
    BY <1>1, <2>1 DEF Rows, Opens
  <2> QED
    BY <1>2, <2>2, ComputedIs
<1>3. MinutesOf(Missing) = {}
  BY DEF MinutesOf, Missing
<1>4. Sources(l, s) = {} => Computed(l, s) = row[l][s]
  BY ComputedIs
<1> QED
  BY <1>2, <1>3, <1>4 DEF Present

\* The opening price is written once, and stays that of the first minute.
LEMMA ComputedOpens ==
  ASSUME TypeOK, Rows, NEW l \in Plain \ {1}, NEW s \in Starts,
         Computed(l, s) # Missing
  PROVE  /\ Computed(l, s).open \in MinutesOf(Computed(l, s))
         /\ \A m \in MinutesOf(Computed(l, s)) : Computed(l, s).open <= m
<1> DEFINE rs == Sources(l, s)
           c == Computed(l, s)
<1>1. /\ l \in Plain /\ l - 1 \in Plain /\ l \in Levels /\ l - 1 \in Levels /\ now \in Nat
      /\ Placed /\ Opens(l) /\ Opens(l - 1) /\ Inherit(l) /\ FirstOnes(l)
  BY Chain, Numbers DEF Plain, Rows
<1>2. CASE rs = {}
  <2>1. c = row[l][s]
    BY <1>2, ComputedIs
  <2> QED
    BY <1>1, <2>1 DEF Opens, Present
<1>3. CASE rs # {} /\ s \in Present(l)
  <2>1. c.open = row[l][s].open
    BY <1>3 DEF Computed
  <2> DEFINE o == row[l][s].open
  <2>2. o \in MinutesOf(row[l][s]) /\ \A m \in MinutesOf(row[l][s]) : o <= m
    BY <1>1, <1>3 DEF Opens
  <2>3. o \in Minutes /\ Floor(l, o) = s /\ Has(l, o)
    BY <1>1, <2>2, RowMinutes DEF Placed, Has
  <2>4. s >= Since(l) /\ s \in Int
    <3>1. PICK r \in rs : TRUE
      BY <1>3
    <3> QED
      BY <3>1, SourcesAre, Ranges
  <2>5. \A m \in Minutes : Floor(l, m) = s => m >= Since(l)
    BY <1>1, <2>4, Window, Ranges
  <2> HIDE DEF o
  <2>6. Has(l - 1, o)
    BY <1>1, <2>3, <2>5 DEF Inherit
  <2>7. o \in MinutesOf(c)
    BY <1>1, <2>3, <2>5, <2>6, HasAfterCompute
  <2>8. ASSUME NEW m \in MinutesOf(c) PROVE o <= m
    <3>1. Floor(l, m) = s /\ m \in Minutes
      BY ComputedMinutes
    <3>2. Has(l - 1, m)
      BY <1>1, <2>5, <2>8, <3>1, HasAfterCompute
    <3>3. m < o => Has(l, m)
      BY <1>1, <2>3, <2>5, <3>1, <3>2 DEF FirstOnes
    <3>4. Has(l, m) => o <= m
      BY <2>2, <3>1 DEF Has
    <3> QED
      BY <2>3, <3>1, <3>3, <3>4, Ranges
  <2> QED
    BY <2>1, <2>7, <2>8 DEF o
<1>4. CASE rs # {} /\ s \notin Present(l)
  <2> DEFINE f == First(rs)
  <2>1. f \in rs /\ \A q \in rs : f <= q
    <3>1. rs \in SUBSET Starts
      BY DEF Sources, Present
    <3> HIDE DEF rs
    <3> QED
      BY <1>4, <3>1, FirstIsLeast
  <2>2. c.open = row[l - 1][f].open
    BY <1>4 DEF Computed
  <2> HIDE DEF f
  <2> DEFINE o == row[l - 1][f].open
  <2>3. f \in Starts /\ f \in Present(l - 1)
    BY <2>1, SourcesAre
  <2>4. o \in MinutesOf(row[l - 1][f]) /\ \A m \in MinutesOf(row[l - 1][f]) : o <= m
    BY <1>1, <2>3 DEF Opens
  <2>5. o \in Minutes /\ Floor(l - 1, o) = f
    BY <1>1, <2>3, <2>4, RowMinutes DEF Placed
  <2> HIDE DEF o
  <2>6. o \in MinutesOf(c)
    BY <1>4, <2>1, <2>4, ComputedIs
  <2>7. ASSUME NEW m \in MinutesOf(c) PROVE o <= m
    <3>1. PICK r \in rs : m \in MinutesOf(row[l - 1][r])
      BY <1>4, <2>7, ComputedIs
    <3>2. r \in Starts
      BY SourcesAre
    <3>3. Floor(l - 1, m) = r /\ m \in Minutes
      BY <1>1, <3>1, <3>2, RowMinutes DEF Placed
    <3>4. CASE r = f
      BY <2>4, <3>1, <3>4
    <3>5. CASE r # f
      <4>1. f < r
        BY <2>1, <2>3, <3>1, <3>2, <3>5, Ranges
      <4>2. f + Values[l - 1] <= r
        BY <1>1, <2>5, <3>3, <4>1, FloorProps, Ranges
      <4>3. o < f + Values[l - 1] /\ r <= m
        BY <1>1, <2>5, <3>3, FloorProps, Ranges
      <4> QED
        BY <1>1, <2>3, <2>5, <3>2, <3>3, <4>2, <4>3, Ranges, Chain
    <3> QED
      BY <3>4, <3>5
  <2> QED
    BY <2>2, <2>6, <2>7 DEF o
<1> QED
  BY <1>2, <1>3, <1>4

\* A row in the window of a statement hands its data on.
LEMMA HandsOn ==
  ASSUME TypeOK, Clock, Rows, NEW l \in Plain \ {1}, NEW m \in Present(1),
         m >= Since(l), HasLast(l - 1, m)
  PROVE  row[1][m].data \subseteq Computed(l, Floor(l, m)).data
<1> DEFINE r == Floor(l - 1, m)
           s == Floor(l, m)
<1>1. /\ l - 1 \in Plain /\ l \in Plain /\ 1 \in Plain /\ 1 \in Levels /\ l - 1 \in Levels
      /\ Kept \in Nat /\ m \in Starts /\ m \in Int
  BY Chain, Numbers, Ranges, CandlesAssumption DEF Plain, Present
<1>2. row[1][m].open \in MinutesOf(row[1][m])
  BY <1>1 DEF Rows, Opens
<1>3. m \in Minutes
  <2>1. PICK n \in MinutesOf(row[1][m]) : TRUE
    BY <1>2
  <2>2. n \in Minutes /\ Floor(1, n) = m
    BY <1>1, <2>1, RowMinutes DEF Rows, Placed
  <2> QED
    BY <1>1, <2>2, Buckets
<1>4. row[1][m].data \subseteq row[l - 1][r].data
  <2>1. Cardinality(Newer(l - 1, r)) < Kept
    BY <1>1, WindowIsKept
  <2>2. Cardinality(Newer(l - 1, r)) \in Nat
    <3>1. IsFiniteSet(Starts)
      BY CandlesAssumption, FS_Interval DEF Starts
    <3>2. Newer(l - 1, r) \in SUBSET Starts
      BY DEF Newer, Present
    <3> QED
      BY <3>1, <3>2, FS_Subset, FS_CardinalityType
  <2>3. ~(Cardinality(Newer(l - 1, r)) >= Kept)
    BY <1>1, <2>1, <2>2
  <2> QED
    BY <2>3 DEF HasLast
<1>5. r \in Present(l - 1)
  <2>1. MinutesOf(row[l - 1][r]) # {}
    BY <1>2, <1>4 DEF MinutesOf
  <2>2. r \in Starts
    BY <1>1, <1>3, Buckets
  <2> QED
    BY <1>1, <2>1, <2>2, RowMinutes
<1>6. r \in Sources(l, s)
  BY <1>3, <1>5, HasIsSource
<1>7. s \in Starts
  BY <1>1, <1>3, Buckets
<1>8. Computed(l, s).data = UNION {row[l - 1][q].data : q \in Sources(l, s)}
  BY <1>6, <1>7, ComputedIs
<1> QED
  BY <1>4, <1>6, <1>8

\* What the whole pass before had already closed is not computed again.
LEMMA BeforeWindow ==
  ASSUME TypeOK, Clock, NEW l \in Plain \ {1}, NEW m \in Int, ~(m >= Since(l))
  PROVE  m < passed - 1 /\ Sources(l, Floor(l, m)) = {}
<1>1. /\ now \in Nat /\ passed \in Nat /\ MaxLag \in Nat /\ l \in Plain
      /\ MaxLag < Values[l] /\ Values[l] \in Nat
  BY Chain, Numbers
<1>2. Since(l) \in Int /\ Since(l) + Values[l] <= now
  BY <1>1, Window
<1>3. m < passed - 1
  BY <1>1, <1>2 DEF Clock
<1>4. Floor(l, m) <= m /\ Floor(l, m) \in Int
  BY <1>1, FloorProps
<1>5. ASSUME NEW r \in Sources(l, Floor(l, m)) PROVE FALSE
  <2>1. r >= Since(l) /\ r \in Starts /\ Bucket(l, r) = Floor(l, m)
    BY DEF Sources, Present
  <2>2. r \in Int
    BY <2>1, Ranges
  <2>3. Bucket(l, r) = Floor(l, r) - 0 /\ Floor(l, r) \in Int
    BY <1>1, <2>2, Chain, FloorProps
  <2>4. Floor(l, r) >= Since(l)
    BY <1>1, <2>1, <2>2, Window
  <2> QED
    BY <1>2, <1>4, <2>1, <2>3, <2>4
<1> QED
  BY <1>3, <1>5

LEMMA RowsComputed ==
  ASSUME TypeOK, Compute(TRUE)
  PROVE  /\ level \in Levels \ {1}
         /\ \A k \in Levels \ {level} : row'[k] = row[k]
         /\ \A s \in Starts : row'[level][s] = Computed(level, s)
<1>1. level \in Levels \ {1}
  BY DEF TypeOK, Compute
<1>2. row' = [row EXCEPT ![level] = [s \in Starts |-> Computed(level, s)]]
  BY DEF Compute
<1>3. row \in [Levels -> [Starts -> Candle]]
  BY DEF TypeOK
<1> QED
  BY <1>1, <1>2, <1>3

\* Completeness goes on from an interval to the next.
LEMMA ComputedUpTo ==
  ASSUME TypeOK, Clock, Rows, Compute(TRUE), NEW l \in Plain, l = level,
         NEW b, UpTo(l - 1, b), UpTo(l, passed)
  PROVE  UpTo(l, b)'
<1>1. l \in Plain \ {1} /\ l \in Levels \ {1} /\ 1 \in Levels \ {l}
  BY RowsComputed, Ranges
<1>2. row'[1] = row[1] /\ \A s \in Starts : row'[l][s] = Computed(l, s)
  BY <1>1, RowsComputed
<1>3. ASSUME NEW m \in Present(1), m < b - 1
      PROVE  \/ row'[1][m].data \subseteq row'[l][Floor(l, m)].data
             \/ /\ ~(Floor(l, m) \in Starts /\ row'[l][Floor(l, m)] # Missing)
                /\ Cardinality({n \in Starts : row'[l][n] # Missing /\ n > Floor(l, m)}) >= Kept
  <2> DEFINE s == Floor(l, m)
  <2>1. m \in Starts /\ m \in Int
    BY Ranges DEF Present
  <2>2. s \in Starts
    <3>1. row[1][m].open \in MinutesOf(row[1][m]) /\ 1 \in Plain
      BY CandlesAssumption, Ranges DEF Rows, Opens, Plain
    <3>2. PICK n \in MinutesOf(row[1][m]) : TRUE
      BY <3>1
    <3>3. n \in Minutes /\ Floor(1, n) = m
      BY <2>1, <3>1, <3>2, RowMinutes, Ranges DEF Rows, Placed
    <3>4. m \in Minutes
      BY <3>1, <3>3, Buckets
    <3> QED
      BY <1>1, <3>4, Buckets
  <2>3. CASE m >= Since(l)
    <3>1. HasLast(l - 1, m)
      BY <1>3 DEF UpTo
    <3>2. row[1][m].data \subseteq Computed(l, s).data
      BY <1>1, <2>3, <3>1, HandsOn
    <3> QED
      BY <1>2, <2>2, <3>2
  <2>4. CASE ~(m >= Since(l))
    <3>1. m < passed - 1 /\ Sources(l, s) = {}
      BY <1>1, <2>1, <2>4, BeforeWindow
    <3>2. HasLast(l, m)
      BY <1>3, <3>1 DEF UpTo
    <3>3. row'[l][s] = row[l][s]
      BY <1>1, <1>2, <2>2, <3>1, ComputedIs
    <3>4. CASE row[1][m].data \subseteq row[l][s].data
      BY <1>2, <3>3, <3>4
    <3>5. CASE s \notin Present(l) /\ Cardinality(Newer(l, s)) >= Kept
      <4> DEFINE N == Newer(l, s)
                 M == {n \in Starts : row'[l][n] # Missing /\ n > s}
      <4>1. row'[l][s] = Missing
        BY <2>2, <3>3, <3>5 DEF Present
      <4>2. N \in SUBSET M
        BY <1>1, <1>2, ComputedThere DEF Newer, Present
      <4>3. IsFiniteSet(M)
        <5>1. IsFiniteSet(Starts)
          BY CandlesAssumption, FS_Interval DEF Starts
        <5> QED
          BY <5>1, FS_Subset
      <4> HIDE DEF N, M
      <4>4. Cardinality(N) <= Cardinality(M) /\ Cardinality(N) \in Nat /\ Cardinality(M) \in Nat
        BY <4>2, <4>3, FS_Subset, FS_CardinalityType
      <4>5. Kept \in Nat /\ Cardinality(N) >= Kept
        BY <3>5, Numbers DEF N
      <4>6. Cardinality(M) >= Kept
        BY <4>4, <4>5
      <4> QED
        BY <4>1, <4>6 DEF M
    <3> QED
      BY <3>2, <3>4, <3>5 DEF HasLast
  <2> QED
    BY <2>3, <2>4
<1>4. Present(1)' = Present(1)
  BY <1>2 DEF Present, Missing
<1>5. ASSUME NEW m \in Present(1)', m < b - 1 PROVE HasLast(l, m)'
  <2>1. \/ row'[1][m].data \subseteq row'[l][Floor(l, m)].data
        \/ /\ ~(Floor(l, m) \in Starts /\ row'[l][Floor(l, m)] # Missing)
           /\ Cardinality({n \in Starts : row'[l][n] # Missing /\ n > Floor(l, m)}) >= Kept
    BY <1>3, <1>4, <1>5
  <2>2. Present(l)' = {n \in Starts : row'[l][n] # Missing}
    BY DEF Present, Missing
  <2>3. Newer(l, Floor(l, m))' = {n \in Starts : row'[l][n] # Missing /\ n > Floor(l, m)}
    BY <2>2 DEF Newer, Floor
  <2> QED
    BY <2>1, <2>2, <2>3 DEF HasLast, Floor
<1> QED
  BY <1>5 DEF UpTo

LEMMA OthersUpTo ==
  ASSUME NEW k, NEW b, row'[1] = row[1], row'[k] = row[k], UpTo(k, b)
  PROVE  UpTo(k, b)'
<1>1. Present(1)' = Present(1) /\ Present(k)' = Present(k)
  BY DEF Present, Missing
<1>2. ASSUME NEW m \in Present(1)', m < b - 1 PROVE HasLast(k, m)'
  <2>1. HasLast(k, m)
    BY <1>1, <1>2 DEF UpTo
  <2>2. Newer(k, Floor(k, m))' = Newer(k, Floor(k, m))
    BY <1>1 DEF Newer, Floor
  <2> QED
    BY <1>1, <2>1, <2>2 DEF HasLast, Floor
<1> QED
  BY <1>2 DEF UpTo

LEMMA FailedKept ==
  ASSUME KInv, TypeOK', Compute(FALSE)
  PROVE  KInv'
<1>1. TypeOK /\ Clock /\ InOrder /\ Rows /\ Computing
  BY KInvParts
<1>2. /\ row' = row /\ latest' = latest /\ passed' = passed /\ began' = Broken
      /\ now' = now /\ item_datas' = item_datas /\ klineDataChan' = klineDataChan
  BY DEF Compute
<1>3. now \in Int /\ latest \in Int
  BY <1>1, Numbers
<1>4. Clock'
  BY <1>1, <1>2 DEF Clock
<1>5. Rows'
  BY <1>1, <1>2, <1>3, SameRows
<1>6. Computing'
  <2>1. \A l \in Plain : UpTo(l, passed)'
    BY <1>1, <1>2, SameUpTo DEF Computing
  <2> QED
    BY <1>2, <2>1 DEF Computing
<1>7. Batch' = Batch /\ Waiting' = Waiting
  BY <1>2 DEF Batch, Waiting
<1>8. \A m \in Batch \cup Waiting : Late(m)'
  BY <1>1, <1>2, <1>3, SameLate, EventMinutes DEF InOrder
<1>9. InOrder'
  BY <1>1, <1>2, <1>7, <1>8 DEF InOrder
<1> QED
  BY <1>4, <1>5, <1>6, <1>9 DEF KInv, Rows, Computing

LEMMA ComputeKept ==
  ASSUME KInv, TypeOK', Compute(TRUE)
  PROVE  KInv'
<1>1. TypeOK /\ Clock /\ InOrder /\ Rows /\ Computing
  BY KInvParts
<1>2. /\ latest' = latest /\ began' = began /\ now' = now
      /\ item_datas' = item_datas /\ klineDataChan' = klineDataChan
      /\ level' = IF level = Len(Values) THEN 1 ELSE level + 1
      /\ passed' = passed \/ (level = Len(Values) /\ began # Broken /\ passed' = began)
  BY DEF Compute
<1>3. /\ now \in Nat /\ latest \in Nat /\ passed \in Nat /\ began \in Int /\ level \in Nat
      /\ Broken = 0 - 1 /\ 1 \in Plain /\ (began # Broken => began \in Nat) /\ MaxLag \in Nat
  BY <1>1, Numbers, Ranges, CandlesAssumption DEF Plain
<1>4. /\ level \in Levels \ {1}
      /\ \A k \in Plain \ {level} : row'[k] = row[k]
      /\ \A s \in Starts : row'[level][s] = Computed(level, s)
      /\ row'[1] = row[1]
  BY <1>1, <1>3, RowsComputed DEF Plain
<1>5. Clock'
  <2>1. passed <= passed' /\ passed' <= now /\ (began # Broken => passed' <= began)
    BY <1>1, <1>2, <1>3 DEF Clock
  <2>2. passed' \in Nat
    BY <1>2, <1>3
  <2>3. now <= passed + MaxLag /\ latest <= now /\ (began # Broken => began <= now)
    BY <1>1 DEF Clock
  <2>4. now <= passed' + MaxLag
    <3> DEFINE p == passed'
    <3>1. now \in Nat /\ passed \in Nat /\ MaxLag \in Nat /\ p \in Nat
      BY <1>3, <2>2
    <3>2. passed <= p /\ now <= passed + MaxLag
      BY <2>1, <2>3
    <3> HIDE DEF p
    <3>3. now <= p + MaxLag
      BY <3>1, <3>2
    <3> QED
      BY <3>3 DEF p
  <2>5. now' = now /\ latest' = latest /\ began' = began /\ Broken' = Broken
    BY <1>2 DEF Broken
  <2> QED
    BY <2>1, <2>3, <2>4, <2>5 DEF Clock
<1>6. ASSUME NEW k \in Plain, NEW s \in Starts, NEW m \in MinutesOf(row'[k][s])
      PROVE  Floor(k, m) = s /\ m \in Minutes /\ \E j \in Plain, r \in Starts : m \in MinutesOf(row[j][r])
  <2>1. CASE k = level
    BY <1>1, <1>4, <2>1, ComputedMinutes
  <2>2. CASE k # level
    BY <1>1, <1>4, <2>2, RowMinutes DEF Rows, Placed, Plain
  <2> QED
    BY <2>1, <2>2
<1>7. Placed'
  <2>1. ASSUME NEW k \in Plain, NEW s \in Starts, NEW m \in MinutesOf(row'[k][s])
        PROVE  Floor(k, m) = s /\ m <= latest'
    BY <1>1, <1>2, <1>6 DEF Rows, Placed
  <2> QED
    BY <2>1 DEF Placed, MinutesOf, Floor
<1>8. (\A k \in Plain : Opens(k))'
  <2> SUFFICES ASSUME NEW k \in Plain, NEW s \in Starts, row'[k][s] # Missing
               PROVE  /\ row'[k][s].open \in MinutesOf(row'[k][s])
                      /\ \A m \in MinutesOf(row'[k][s]) : row'[k][s].open <= m
    BY DEF Opens, Present, MinutesOf, Missing
  <2>1. CASE k = level
    BY <1>1, <1>4, <2>1, ComputedOpens
  <2>2. CASE k # level
    BY <1>1, <1>4, <2>2 DEF Rows, Opens, Present
  <2> QED
    BY <2>1, <2>2
<1>9. ASSUME NEW k \in Plain \ {1} PROVE (Inherit(k) /\ FirstOnes(k))'
  <2>1. k \in Plain /\ k - 1 \in Plain /\ k \in Nat /\ k - 1 # k
    BY Chain
  <2>2. Since(k)' = Since(k)
    BY <1>2 DEF Since, Floor, Shift
  <2>3. ASSUME NEW j \in Plain, j # level, NEW m \in Minutes PROVE Has(j, m)' <=> Has(j, m)
    BY <1>4, <2>3 DEF Has, MinutesOf, Floor
  <2>4. ASSUME level \in Plain, NEW m \in Minutes
        PROVE  LET l == level IN
               m \in MinutesOf(row'[l][Floor(l, m)]) <=> IF m >= Since(l) THEN Has(l - 1, m) ELSE Has(l, m)
    <3>1. Floor(level, m) \in Starts
      BY <2>4, Buckets
    <3>2. level \in Plain \ {1} /\ Inherit(level) /\ Placed
      BY <1>1, <1>4, <2>4 DEF Rows
    <3> QED
      BY <1>1, <1>4, <3>1, <3>2, HasAfterCompute
  <2>5. Inherit(k) /\ FirstOnes(k)
    BY <1>1 DEF Rows
  <2>6. CASE k = level
    <3>1. \A m \in Minutes : Has(k, m)' <=> IF m >= Since(k) THEN Has(k - 1, m) ELSE Has(k, m)
      BY <2>1, <2>4, <2>6 DEF Has, MinutesOf, Floor
    <3>2. \A m \in Minutes : Has(k - 1, m)' <=> Has(k - 1, m)
      BY <2>1, <2>3, <2>6
    <3> QED
      BY <2>2, <3>1, <3>2 DEF Inherit, FirstOnes
  <2>7. CASE k - 1 = level
    <3>1. k - 1 \in Plain \ {1} /\ Inherit(k - 1) /\ FirstOnes(k - 1)
      BY <1>1, <1>4, <2>1, <2>7 DEF Rows
    <3>2. \A m \in Minutes : Has(k - 1, m)' <=>
            IF m >= Since(k - 1) THEN Has(k - 1 - 1, m) ELSE Has(k - 1, m)
      BY <2>1, <2>4, <2>7 DEF Has, MinutesOf, Floor
    <3>3. \A m \in Minutes : Has(k, m)' <=> Has(k, m)
      BY <2>1, <2>3, <2>7
    <3>4. Inherit(k)'
      BY <2>2, <2>5, <3>1, <3>2, <3>3 DEF Inherit
    <3>5. ASSUME NEW x \in Minutes, NEW y \in Minutes,
                 Has(k, x), Has(k - 1, y)', y < x, y >= Since(k)
          PROVE  Has(k, y)
      <4>1. CASE y >= Since(k - 1)
        <5>1. Has(k - 1 - 1, y)
          BY <3>2, <3>5, <4>1
        <5>2. Since(k) \in Int /\ now \in Nat
          BY <1>3, <2>1, Window
        <5>3. x >= Since(k)
          BY <3>5, <5>2, Ranges
        <5>4. Has(k - 1, x)
          BY <2>5, <3>5, <5>3 DEF Inherit
        <5>5. Has(k - 1, y)
          BY <3>1, <3>5, <4>1, <5>1, <5>4 DEF FirstOnes
        <5> QED
          BY <2>5, <3>5, <5>5 DEF FirstOnes
      <4>2. CASE ~(y >= Since(k - 1))
        BY <2>5, <3>2, <3>5, <4>2 DEF FirstOnes
      <4> QED
        BY <4>1, <4>2
    <3>6. FirstOnes(k)'
      BY <2>2, <3>3, <3>5 DEF FirstOnes
    <3> QED
      BY <3>4, <3>6
  <2>8. CASE k # level /\ k - 1 # level
    <3>1. \A m \in Minutes : Has(k, m)' <=> Has(k, m)
      BY <2>1, <2>3, <2>8
    <3>2. \A m \in Minutes : Has(k - 1, m)' <=> Has(k - 1, m)
      BY <2>1, <2>3, <2>8
    <3> QED
      BY <2>2, <2>5, <3>1, <3>2 DEF Inherit, FirstOnes
  <2> QED
    BY <2>6, <2>7, <2>8
<1>10. Rows'
  BY <1>7, <1>8, <1>9 DEF Rows
<1>11. ASSUME NEW m \in Batch \cup Waiting PROVE Late(m)'
  <2>1. Late(m) /\ m \in Nat
    BY <1>1, EventMinutes, Ranges DEF InOrder
  <2>2. m <= latest' /\ passed' - 1 <= m /\ began' - 1 <= m
    BY <1>2, <1>3, <2>1 DEF Late
  <2>3. \A k \in Plain : \A s \in Starts : \A n \in MinutesOf(row'[k][s]) : n <= m
    BY <1>6, <2>1 DEF Late
  <2> QED
    BY <2>2, <2>3 DEF Late, MinutesOf
<1>12. InOrder'
  <2>1. Batch' = Batch /\ Waiting' = Waiting
    BY <1>2 DEF Batch, Waiting
  <2> QED
    BY <1>1, <1>2, <1>11, <2>1 DEF InOrder
<1>13. ASSUME NEW k \in Plain, NEW b, b = passed \/ (b = began /\ began # Broken /\ k <= level)
       PROVE  UpTo(k, b)'
  <2>1. k \in Nat /\ UpTo(k, passed)
    BY <1>1, Chain DEF Computing
  <2>2. CASE k # level
    <3>1. UpTo(k, b)
      BY <1>1, <1>3, <1>13, <2>1, <2>2 DEF Computing
    <3> QED
      BY <1>4, <2>2, <3>1, OthersUpTo
  <2>3. CASE k = level
    <3>1. k \in Plain \ {1} /\ k - 1 \in Plain /\ k - 1 < level
      BY <1>3, <1>4, <2>3, Chain
    <3>2. UpTo(k - 1, b)
      BY <1>1, <1>13, <3>1 DEF Computing
    <3> QED
      BY <1>1, <2>1, <2>3, <3>2, ComputedUpTo
  <2> QED
    BY <2>2, <2>3
<1>14. Computing'
  <2>1. ASSUME NEW k \in Plain PROVE UpTo(k, passed)'
    <3>1. k <= Len(Values)
      BY DEF Plain, Levels
    <3>2. CASE passed' = passed
      BY <1>13, <3>2 DEF UpTo
    <3>3. CASE level = Len(Values) /\ began # Broken /\ passed' = began
      BY <1>13, <3>1, <3>3 DEF UpTo
    <3> QED
      BY <1>2, <3>2, <3>3
  <2>2. ASSUME NEW k \in Plain, began' # Broken, k < level' PROVE UpTo(k, began)'
    <3>1. k \in Nat \ {0}
      BY Chain
    <3>2. k <= level
      BY <1>2, <1>3, <2>2, <3>1
    <3> QED
      BY <1>2, <1>13, <2>2, <3>2 DEF UpTo
  <2> QED
    BY <2>1, <2>2 DEF Computing
<1> QED
  BY <1>5, <1>10, <1>12, <1>14 DEF KInv, Rows, Computing

\* A candle that is still wanted is never among the oldest: what Clean deletes has
\* Kept newer ones, and the newest of those stay.
LEMMA CleanedRows ==
  ASSUME TypeOK, Clean
  PROVE  /\ \A l \in Levels, s \in Starts :
              row'[l][s] = IF Cardinality(Newer(l, s)) >= Kept THEN Missing ELSE row[l][s]
         /\ \A l \in Levels, s \in Starts :
              Cardinality(Newer(l, s)) >= Kept =>
                Cardinality({n \in Starts : row'[l][n] # Missing /\ n > s}) >= Kept
<1>1. \A l \in Levels, s \in Starts :
        row'[l][s] = IF Cardinality(Newer(l, s)) >= Kept THEN Missing ELSE row[l][s]
  BY DEF Clean
<1>2. ASSUME NEW l \in Levels, NEW s \in Starts, Cardinality(Newer(l, s)) >= Kept
      PROVE  Cardinality({n \in Starts : row'[l][n] # Missing /\ n > s}) >= Kept
  <2> DEFINE T == Newer(l, s)
             A == {n \in T : Cardinality({m \in T : m > n}) < Kept}
             M == {n \in Starts : row'[l][n] # Missing /\ n > s}
  <2>1. IsFiniteSet(Starts) /\ Starts \subseteq Int /\ Kept \in Nat
    BY CandlesAssumption, FS_Interval, Ranges DEF Starts
  <2>2. T \in SUBSET Starts /\ T \in SUBSET Int /\ M \in SUBSET Starts
    BY <2>1 DEF Newer, Present
  <2>3. IsFiniteSet(T) /\ IsFiniteSet(M)
    <3> HIDE DEF T, M
    <3> QED BY <2>1, <2>2, FS_Subset
  <2>4. Cardinality(A) >= Kept
    <3> HIDE DEF T
    <3>1. Cardinality(T) >= Kept
      BY <1>2 DEF T
    <3> QED
      BY <2>1, <2>2, <2>3, <3>1, NewestRemain
  <2>5. A \in SUBSET M
    <3> SUFFICES ASSUME NEW n \in A PROVE n \in M
      OBVIOUS
    <3>1. n \in T /\ Cardinality({m \in T : m > n}) < Kept
      OBVIOUS
    <3>2. n \in Starts /\ n > s /\ row[l][n] # Missing
      BY <3>1 DEF Newer, Present
    <3>3. {m \in T : m > n} = Newer(l, n)
      <4>1. \A m \in Starts : m > n => m > s
        BY <3>2, <2>1
      <4> QED
        BY <4>1 DEF Newer, Present
    <3>4. ~(Cardinality(Newer(l, n)) >= Kept)
      <4>1. Newer(l, n) \in SUBSET Starts
        BY DEF Newer, Present
      <4>2. Cardinality(Newer(l, n)) \in Nat
        BY <2>1, <4>1, FS_Subset, FS_CardinalityType
      <4> QED
        BY <2>1, <3>1, <3>3, <4>2
    <3> QED
      BY <1>1, <3>2, <3>4
  <2> HIDE DEF T, A, M
  <2>6. Cardinality(A) <= Cardinality(M) /\ Cardinality(A) \in Nat /\ Cardinality(M) \in Nat
    BY <2>3, <2>5, FS_Subset, FS_CardinalityType
  <2>7. Cardinality(M) >= Kept
    BY <2>1, <2>4, <2>6
  <2> QED
    BY <2>7 DEF M
<1> QED
  BY <1>1, <1>2

LEMMA CleanKept ==
  ASSUME KInv, TypeOK', Clean
  PROVE  KInv'
<1>1. TypeOK /\ Clock /\ InOrder /\ Rows /\ Computing
  BY KInvParts
<1>2. /\ latest' = latest /\ began' = began /\ now' = now /\ passed' = passed /\ level' = level
      /\ item_datas' = item_datas /\ klineDataChan' = klineDataChan
  BY DEF Clean
<1>3. /\ \A l \in Levels, s \in Starts :
           row'[l][s] = IF Cardinality(Newer(l, s)) >= Kept THEN Missing ELSE row[l][s]
      /\ \A l \in Levels, s \in Starts :
           Cardinality(Newer(l, s)) >= Kept =>
             Cardinality({n \in Starts : row'[l][n] # Missing /\ n > s}) >= Kept
  BY <1>1, CleanedRows
<1>4. /\ now \in Nat /\ Kept \in Nat /\ 1 \in Plain /\ MinutesOf(Missing) = {} /\ Missing.data = {}
      /\ \A k \in Plain : k \in Levels
  BY <1>1, Numbers, Ranges, CandlesAssumption DEF Plain, MinutesOf, Missing
<1>5. Clock'
  BY <1>1, <1>2 DEF Clock
<1>6. ASSUME NEW k \in Plain, NEW s \in Starts
      PROVE  row'[k][s] = Missing \/ row'[k][s] = row[k][s]
  BY <1>3, <1>4
<1>7. ASSUME NEW k \in Plain, NEW s \in Starts, NEW m \in MinutesOf(row'[k][s])
      PROVE  m \in MinutesOf(row[k][s])
  BY <1>4, <1>6
<1>8. Placed'
  <2>1. ASSUME NEW k \in Plain, NEW s \in Starts, NEW m \in MinutesOf(row'[k][s])
        PROVE  Floor(k, m) = s /\ m <= latest'
    BY <1>1, <1>2, <1>7 DEF Rows, Placed
  <2> QED
    BY <2>1 DEF Placed, MinutesOf, Floor
<1>9. (\A k \in Plain : Opens(k))'
  <2> SUFFICES ASSUME NEW k \in Plain, NEW s \in Starts, row'[k][s] # Missing
               PROVE  /\ row'[k][s].open \in MinutesOf(row'[k][s])
                      /\ \A m \in MinutesOf(row'[k][s]) : row'[k][s].open <= m
    BY DEF Opens, Present, MinutesOf, Missing
  <2> QED
    BY <1>1, <1>6 DEF Rows, Opens, Present
<1>10. ASSUME NEW k \in Plain \ {1} PROVE (Inherit(k) /\ FirstOnes(k))'
  <2>1. k \in Plain /\ k - 1 \in Plain /\ k \in Levels /\ k - 1 \in Levels
    BY <1>4, Chain
  <2>2. Since(k)' = Since(k)
    BY <1>2 DEF Since, Floor, Shift
  <2>3. ASSUME NEW j \in Plain, NEW m \in Minutes
        PROVE  /\ Floor(j, m) \in Starts /\ (Has(j, m)' <=> m \in MinutesOf(row'[j][Floor(j, m)]))
               /\ (Has(j, m)' => Has(j, m))
    <3>1. Floor(j, m) \in Starts
      BY Buckets
    <3>2. Has(j, m)' <=> m \in MinutesOf(row'[j][Floor(j, m)])
      BY DEF Has, MinutesOf, Floor
    <3> QED
      BY <1>7, <3>1, <3>2 DEF Has
  <2>4. ASSUME NEW m \in Minutes, m >= Since(k)
        PROVE  /\ Has(k, m) => Has(k, m)'
               /\ Has(k - 1, m) => Has(k - 1, m)'
    <3>1. /\ Cardinality(Newer(k - 1, Floor(k - 1, m))) < Kept
          /\ Cardinality(Newer(k, Floor(k, m))) < Kept
      BY <1>1, <2>4, WindowIsKept, Ranges
    <3>2. \A j \in Plain : Cardinality(Newer(j, Floor(j, m))) \in Nat
      <4>1. IsFiniteSet(Starts)
        BY CandlesAssumption, FS_Interval DEF Starts
      <4>2. \A j \in Plain : Newer(j, Floor(j, m)) \in SUBSET Starts
        BY DEF Newer, Present
      <4> QED
        BY <4>1, <4>2, FS_Subset, FS_CardinalityType
    <3>3. /\ ~(Cardinality(Newer(k - 1, Floor(k - 1, m))) >= Kept)
          /\ ~(Cardinality(Newer(k, Floor(k, m))) >= Kept)
      BY <1>4, <2>1, <3>1, <3>2
    <3>4. row'[k][Floor(k, m)] = row[k][Floor(k, m)] /\ row'[k - 1][Floor(k - 1, m)] = row[k - 1][Floor(k - 1, m)]
      BY <1>3, <2>1, <2>3, <3>3
    <3> QED
      BY <2>1, <2>3, <3>4 DEF Has
  <2>5. Inherit(k) /\ FirstOnes(k)
    BY <1>1 DEF Rows
  <2>6. Inherit(k)'
    BY <2>1, <2>2, <2>3, <2>4, <2>5 DEF Inherit
  <2>7. FirstOnes(k)'
    BY <2>1, <2>2, <2>3, <2>4, <2>5 DEF FirstOnes
  <2> QED
    BY <2>6, <2>7
<1>11. Rows'
  BY <1>8, <1>9, <1>10 DEF Rows
<1>12. ASSUME NEW m \in Batch \cup Waiting PROVE Late(m)'
  <2>1. Late(m)
    BY <1>1 DEF InOrder
  <2>2. \A k \in Plain : \A s \in Starts : \A n \in MinutesOf(row'[k][s]) : n <= m
    BY <1>7, <2>1 DEF Late
  <2> QED
    BY <1>2, <2>1, <2>2 DEF Late, MinutesOf
<1>13. InOrder'
  <2>1. Batch' = Batch /\ Waiting' = Waiting
    BY <1>2 DEF Batch, Waiting
  <2> QED
    BY <1>1, <1>2, <1>12, <2>1 DEF InOrder
<1>14. ASSUME NEW k \in Plain, NEW b, UpTo(k, b) PROVE UpTo(k, b)'
  <2>1. ASSUME NEW m \in Starts, row'[1][m] # Missing, m < b - 1 PROVE HasLast(k, m)'
    <3> DEFINE s == Floor(k, m)
    <3>1. row'[1][m] = row[1][m] /\ m \in Present(1)
      BY <1>4, <1>6, <2>1 DEF Present
    <3>2. s \in Starts
      <4>1. row[1][m].open \in MinutesOf(row[1][m])
        BY <1>1, <1>4, <3>1 DEF Rows, Opens
      <4>2. PICK n \in MinutesOf(row[1][m]) : TRUE
        BY <4>1
      <4>3. n \in Minutes /\ Floor(1, n) = m
        BY <1>1, <1>4, <2>1, <4>2, RowMinutes DEF Rows, Placed
      <4>4. m \in Minutes
        BY <1>4, <4>3, Buckets
      <4> QED
        BY <4>4, Buckets
    <3>3. HasLast(k, m)
      BY <1>14, <2>1, <3>1 DEF UpTo
    <3>4. Newer(k, s)' = {n \in Starts : row'[k][n] # Missing /\ n > s}
      BY DEF Newer, Present, Missing, Floor
    <3>5. Cardinality(Newer(k, s)) >= Kept => row'[k][s] = Missing /\ Cardinality(Newer(k, s)') >= Kept
      BY <1>3, <1>4, <3>2, <3>4
    <3>6. ~(Cardinality(Newer(k, s)) >= Kept) => row'[k][s] = row[k][s]
      BY <1>3, <1>4, <3>2
    <3>7. s \notin Present(k)' <=> row'[k][s] = Missing
      BY <3>2 DEF Present, Missing, Floor
    <3>8. \/ row'[1][m].data \subseteq row'[k][s].data
          \/ row'[k][s] = Missing /\ Cardinality(Newer(k, s)') >= Kept
      <4>1. CASE Cardinality(Newer(k, s)) >= Kept
        BY <3>5, <4>1
      <4>2. CASE ~(Cardinality(Newer(k, s)) >= Kept)
        BY <3>1, <3>3, <3>6, <4>2 DEF HasLast
      <4> QED
        BY <4>1, <4>2
    <3> QED
      BY <3>7, <3>8 DEF HasLast, Floor
  <2> QED
    BY <2>1 DEF UpTo, Present, Missing
<1>15. Computing'
  BY <1>1, <1>2, <1>14 DEF Computing
<1> QED
  BY <1>5, <1>11, <1>13, <1>15 DEF KInv, Rows, Computing

LEMMA InitKInv ==
  ASSUME Init
  PROVE  KInv
<1>1. TypeOK
  BY InitTypeOK
<1>2. /\ now = 0 /\ latest = 0 /\ passed = 0 /\ began = Broken
      /\ item_datas = <<>> /\ klineDataChan = <<>> /\ Len(<<>>) = 0
  BY DEF Init
<1>3. \A l \in Plain, s \in Starts : row[l][s] = Missing
  BY DEF Init, Plain
<1>4. MinutesOf(Missing) = {} /\ \A l \in Plain : Present(l) = {}
  BY <1>3 DEF MinutesOf, Missing, Present
<1>5. Clock
  BY <1>1, <1>2, Numbers DEF Clock
<1>6. Placed /\ \A l \in Plain : Opens(l)
  BY <1>3, <1>4 DEF Placed, Opens
<1>7. ASSUME NEW l \in Plain \ {1} PROVE Inherit(l) /\ FirstOnes(l)
  <2>1. \A m \in Minutes : ~Has(l, m)
    BY <1>3, <1>4, Buckets DEF Has
  <2> QED
    BY <2>1 DEF Inherit, FirstOnes
<1>8. InOrder
  BY <1>2 DEF InOrder, Batch, Waiting
<1>9. ASSUME NEW l \in Plain PROVE UpTo(l, passed)
  <2>1. 1 \in Plain
    BY Ranges, CandlesAssumption DEF Plain
  <2> QED
    BY <1>4, <2>1 DEF UpTo
<1> QED
  BY <1>1, <1>2, <1>5, <1>6, <1>7, <1>8, <1>9 DEF KInv

LEMMA StepKInv == KInv /\ [Next]_vars => KInv'
<1> SUFFICES ASSUME KInv, [Next]_vars PROVE KInv'
  OBVIOUS
<1>1. TypeOK /\ TypeOK'
  BY StepTypeOK DEF KInv
<1>2. CASE UNCHANGED vars
  <2>1. /\ row' = row /\ latest' = latest /\ passed' = passed /\ began' = began /\ now' = now
        /\ item_datas' = item_datas /\ klineDataChan' = klineDataChan /\ level' = level
    BY <1>2 DEF vars
  <2>2. TypeOK /\ Clock /\ InOrder /\ Rows /\ Computing
    BY KInvParts
  <2>3. now \in Nat /\ latest \in Nat
    BY <1>1, Numbers
  <2>4. Clock'
    BY <2>1, <2>2 DEF Clock
  <2>5. Rows'
    BY <1>1, <2>1, <2>2, <2>3, SameRows
  <2>6. InOrder'
    <3>1. Batch' = Batch /\ Waiting' = Waiting
      BY <2>1 DEF Batch, Waiting
    <3>2. \A m : Late(m) => Late(m)'
      BY <2>1 DEF Late, MinutesOf
    <3> QED
      BY <2>1, <2>2, <3>1, <3>2 DEF InOrder
  <2>7. Computing'
    BY <2>1, <2>2, SameUpTo DEF Computing
  <2> QED
    BY <1>1, <2>4, <2>5, <2>6, <2>7 DEF KInv, Rows, Computing
<1>3. ASSUME NEW ok \in BOOLEAN, Compute(ok) PROVE KInv'
  <2>1. ok = TRUE \/ ok = FALSE
    OBVIOUS
  <2> QED
    BY <1>1, <1>3, <2>1, ComputeKept, FailedKept
<1> QED
  BY <1>1, <1>2, <1>3, TickKept, ReceiveKept, CleanKept, CrashKept, EventKept, SaveKept DEF Next
-----------------------------------------------------------------------------
\* The whole chain without the week.
LEMMA AllPlain == ASSUME WeekLevel \notin Levels PROVE Plain = Levels
  BY DEF Plain

LEMMA CoversFollows ==
  ASSUME KInv, NEW l \in Plain
  PROVE  Covers(l)
<1>1. TypeOK /\ Placed /\ l \in Levels
  BY DEF KInv, Plain
<1>2. ASSUME NEW s \in Present(l), NEW m \in MinutesOf(row[l][s]) PROVE m \in s..(s + Values[l] - 1)
  <2>1. s \in Starts /\ s \in Int
    BY Ranges DEF Present
  <2>2. Floor(l, m) = s /\ m \in Int /\ Values[l] \in Nat
    BY <1>1, <2>1, RowMinutes, Ranges, Chain DEF Placed
  <2>3. s <= m /\ m < s + Values[l]
    BY <2>2, FloorProps
  <2> QED
    BY <2>1, <2>2, <2>3
<1> QED
  BY <1>2 DEF Covers

LEMMA CompleteFollows ==
  ASSUME KInv, NEW l \in Plain \ {1}
  PROVE  Complete(l)
<1>1. TypeOK /\ Clock /\ l \in Plain /\ UpTo(l, passed)
  BY DEF KInv
<1>2. /\ now \in Nat /\ passed \in Nat /\ MaxLag \in Nat /\ Values[l] \in Nat /\ MaxLag < Values[l]
      /\ Kept \in Nat
  BY <1>1, Numbers, Chain
<1>3. ASSUME NEW m \in Present(1), Closed(l, Bucket(l, m)) PROVE m < passed - 1
  <2>1. m \in Int
    BY Ranges DEF Present
  <2>2. Bucket(l, m) = Floor(l, m) - 0 /\ Floor(l, m) \in Int /\ m < Floor(l, m) + Values[l]
    BY <1>1, <2>1, Chain, FloorProps
  <2>3. Floor(l, now) \in Int /\ Floor(l, now) <= now
    BY <1>1, <1>2, FloorProps
  <2>4. Floor(l, m) + Values[l] <= Floor(l, now) - Values[l]
    BY <1>3, <2>2 DEF Closed
  <2> QED
    BY <1>1, <1>2, <2>1, <2>2, <2>3, <2>4 DEF Clock
<1>4. ASSUME NEW m \in Present(1), Closed(l, Bucket(l, m))
      PROVE  LET s == Bucket(l, m) IN
             \/ s \in Present(l) /\ row[1][m].data \subseteq row[l][s].data
             \/ s \notin Present(l) /\ Cardinality(Newer(l, s)) >= Kept
  <2> DEFINE s == Floor(l, m)
  <2>1. Bucket(l, m) = s
    <3>1. m \in Int
      BY Ranges DEF Present
    <3>2. s \in Int /\ Bucket(l, m) = s - 0
      BY <1>1, <3>1, FloorProps, Chain
    <3> HIDE DEF s
    <3> QED BY <3>2
  <2>2. HasLast(l, m)
    BY <1>1, <1>3, <1>4 DEF UpTo
  <2>3. CASE row[1][m].data \subseteq row[l][s].data
    <3>1. 1 \in Plain /\ m \in Starts /\ 1 \in Levels /\ l \in Levels
      BY <1>1, Ranges, CandlesAssumption DEF Plain, Present
    <3>2. row[1][m].open \in MinutesOf(row[1][m])
      BY <3>1 DEF KInv, Opens
    <3>3. PICK n \in MinutesOf(row[1][m]) : TRUE
      BY <3>2
    <3>4. n \in Minutes /\ Floor(1, n) = m
      BY <1>1, <3>1, <3>3, RowMinutes DEF KInv, Placed
    <3>5. s \in Starts
      BY <1>1, <3>1, <3>4, Buckets
    <3>6. MinutesOf(row[l][s]) # {}
      BY <2>3, <3>2 DEF MinutesOf
    <3>7. s \in Present(l)
      BY <1>1, <3>1, <3>5, <3>6, RowMinutes
    <3> QED
      BY <2>1, <2>3, <3>7
  <2> QED
    BY <2>1, <2>2, <2>3 DEF HasLast
<1> QED
  BY <1>4 DEF Complete

\* A candle is made of the minutes of its interval and of no others: of every
\* interval but the week, whatever fails, is lost, repeated or cleaned up.
THEOREM CandlesCoversItsInterval ==
  /\ Spec => [](\A l \in Plain : Covers(l))
  /\ WeekLevel \notin Levels => (Spec => []CoversItsInterval)
<1>1. Init => KInv
  BY InitKInv
<1>2. KInv /\ [Next]_vars => KInv'
  BY StepKInv
<1>3. KInv => \A l \in Plain : Covers(l)
  BY CoversFollows
<1>4. Spec => [](\A l \in Plain : Covers(l))
  BY <1>1, <1>2, <1>3, PTL DEF Spec
<1>5. ASSUME WeekLevel \notin Levels PROVE Spec => []CoversItsInterval
  <2>1. KInv => CoversItsInterval
    BY <1>3, <1>5, AllPlain DEF CoversItsInterval
  <2> QED
    BY <1>1, <1>2, <2>1, PTL DEF Spec
<1> QED
  BY <1>4, <1>5

\* It opens with its first minute, though its opening price is written only once,
\* when it may have been made of some of its minutes.
THEOREM CandlesOpensWithItsFirst ==
  /\ Spec => [](\A l \in Plain : Opens(l))
  /\ WeekLevel \notin Levels => (Spec => []OpensWithItsFirst)
<1>1. Init => KInv
  BY InitKInv
<1>2. KInv /\ [Next]_vars => KInv'
  BY StepKInv
<1>3. KInv => \A l \in Plain : Opens(l)
  BY DEF KInv
<1>4. Spec => [](\A l \in Plain : Opens(l))
  BY <1>1, <1>2, <1>3, PTL DEF Spec
<1>5. ASSUME WeekLevel \notin Levels PROVE Spec => []OpensWithItsFirst
  <2>1. KInv => OpensWithItsFirst
    BY <1>3, <1>5, AllPlain DEF OpensWithItsFirst
  <2> QED
    BY <1>1, <1>2, <2>1, PTL DEF Spec
<1> QED
  BY <1>4, <1>5

\* A closed candle has the last state of every minute of it, or newer ones have
\* pushed it out, if whole passes are less than an interval apart: lost batches,
\* failed statements and restarts in between are made up for.
THEOREM CandlesClosedIsComplete ==
  /\ Spec => [](\A l \in Plain \ {1} : Complete(l))
  /\ WeekLevel \notin Levels => (Spec => []ClosedIsComplete)
<1>1. Init => KInv
  BY InitKInv
<1>2. KInv /\ [Next]_vars => KInv'
  BY StepKInv
<1>3. KInv => \A l \in Plain \ {1} : Complete(l)
  BY CompleteFollows
<1>4. Spec => [](\A l \in Plain \ {1} : Complete(l))
  BY <1>1, <1>2, <1>3, PTL DEF Spec
<1>5. ASSUME WeekLevel \notin Levels PROVE Spec => []ClosedIsComplete
  <2>1. KInv => ClosedIsComplete
    BY <1>3, <1>5, AllPlain DEF ClosedIsComplete
  <2> QED
    BY <1>1, <1>2, <2>1, PTL DEF Spec
<1> QED
  BY <1>4, <1>5

LEMMA StepKeeps ==
  ASSUME KInv, [Next]_vars, NEW l \in Plain
  PROVE  Keeps(l)
<1>1. TypeOK /\ Rows /\ Placed /\ l \in Levels /\ 1 \in Levels /\ MinutesOf(Missing) = {}
  BY KInvParts, Ranges DEF Plain, Rows, MinutesOf, Missing
<1>2. CASE row' = row
  BY <1>2 DEF Keeps
<1>3. CASE Save(TRUE)
  <2>1. ASSUME NEW s \in Starts, NEW m \in MinutesOf(row[l][s]) PROVE m \in MinutesOf(row'[l][s])
    <3>1. CASE row'[l][s] = row[l][s]
      BY <2>1, <3>1
    <3>2. CASE l = 1 /\ MinutesOf(row'[1][s]) = {s}
      <4>1. m \in Minutes /\ Floor(1, m) = s
        BY <1>1, <2>1, <3>2, RowMinutes DEF Placed
      <4>2. m = s
        BY <3>2, <4>1, Buckets
      <4> QED
        BY <3>2, <4>2
    <3> QED
      BY <1>1, <1>3, <3>1, <3>2, SavedRows
  <2> QED
    BY <2>1 DEF Keeps, Present
<1>4. CASE Compute(TRUE)
  <2>1. /\ level \in Levels \ {1}
        /\ \A k \in Levels \ {level} : row'[k] = row[k]
        /\ \A s \in Starts : row'[level][s] = Computed(level, s)
    BY <1>1, <1>4, RowsComputed
  <2>2. CASE l # level
    BY <1>1, <2>1, <2>2 DEF Keeps
  <2>3. CASE l = level
    <3>1. l \in Plain \ {1} /\ Inherit(l)
      BY <1>1, <2>1, <2>3 DEF Rows
    <3>2. ASSUME NEW s \in Starts, NEW m \in MinutesOf(row[l][s]) PROVE m \in MinutesOf(row'[l][s])
      <4>1. m \in Minutes /\ Floor(l, m) = s
        BY <1>1, <3>2, RowMinutes DEF Placed
      <4>2. Has(l, m)
        BY <3>2, <4>1 DEF Has
      <4>3. m \in MinutesOf(Computed(l, s))
        BY <1>1, <3>1, <4>1, <4>2, HasAfterCompute DEF Inherit
      <4> QED
        BY <2>1, <2>3, <4>3
    <3> QED
      BY <3>2 DEF Keeps, Present
  <2> QED
    BY <2>2, <2>3
<1>5. CASE Clean
  <2>1. \A s \in Starts : row'[l][s] = Missing \/ row'[l][s] = row[l][s]
    BY <1>1, <1>5, CleanedRows
  <2> QED
    BY <2>1 DEF Keeps, Present
<1>6. ASSUME NEW ok \in BOOLEAN, Save(ok) \/ Compute(ok) PROVE Keeps(l)
  <2>1. CASE ok = TRUE
    BY <1>3, <1>4, <1>6, <2>1
  <2>2. CASE ok = FALSE
    <3>1. row' = row
      BY <1>6, <2>2 DEF Save, Compute
    <3> QED
      BY <1>2, <3>1
  <2> QED
    BY <2>1, <2>2
<1>7. Tick \/ Receive \/ Crash \/ (\E m \in Minutes : dataHandler(m)) \/ UNCHANGED vars => row' = row
  BY DEF Tick, Receive, Crash, dataHandler, vars
<1> QED
  BY <1>2, <1>5, <1>6, <1>7 DEF Next

\* No step takes from a candle a minute it was made of: a statement that computes a
\* bucket again finds all of its rows, since tableClean keeps more of them than the
\* two lengths of the longer interval hold.
THEOREM CandlesNeverLosesData ==
  /\ Spec => [][\A l \in Plain : Keeps(l)]_vars
  /\ WeekLevel \notin Levels => (Spec => NeverLosesData)
<1>1. Init => KInv
  BY InitKInv
<1>2. KInv /\ [Next]_vars => KInv'
  BY StepKInv
<1>3. KInv /\ [Next]_vars => \A l \in Plain : Keeps(l)
  BY StepKeeps
<1>4. Spec => [][\A l \in Plain : Keeps(l)]_vars
  BY <1>1, <1>2, <1>3, PTL DEF Spec
<1>5. ASSUME WeekLevel \notin Levels PROVE Spec => NeverLosesData
  <2>1. KInv /\ [Next]_vars => \A l \in Levels : Keeps(l)
    BY <1>3, <1>5, AllPlain
  <2> QED
    BY <1>1, <1>2, <2>1, PTL DEF Spec, NeverLosesData
<1> QED
  BY <1>4, <1>5
=============================================================================
