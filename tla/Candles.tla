------------------------------ MODULE Candles ------------------------------
(***************************************************************************)
(* The candles of one symbol that src/cmds/bndata keeps: the exchange      *)
(* sends the candle of the current minute again and again while it grows;  *)
(* batchWrite collects these events, saves them every second and then      *)
(* computes from the rows of each interval those of the next longer one,   *)
(* with one SQL statement each, for the current bucket of time and the one *)
(* before; tableClean keeps the newest rows of each interval.              *)
(*                                                                         *)
(* A candle is the events it has been made of, <<minute, number>>, and the *)
(* minute whose opening price it shows.  Prices, high, low, close and      *)
(* volume are functions of these.                                          *)
(***************************************************************************)
EXTENDS Integers, Sequences, FiniteSets

CONSTANTS Values,   \* lengths of the intervals, from the minute up (params_sql2)
          WeekLevel, Offset, \* the interval sql2_week computes, and its 3 days; 0, 0 for none
          Kept,     \* rows tableClean keeps of each interval
          ChanSize, \* room in klineDataChan
          MaxEvents, MaxNow, \* bounds: events, the clock
          MaxLag    \* bound: minutes from a whole pass of batchWrite to the next

Levels == 1..Len(Values)
Starts == (-Offset)..MaxNow
Minutes == 0..MaxNow

ASSUME CandlesAssumption ==
  /\ Values \in Seq(Nat \ {0}) /\ Len(Values) > 1 /\ Values[1] = 1
  /\ WeekLevel \in Nat /\ WeekLevel # 1
  /\ {Offset, Kept, MaxEvents, MaxNow, MaxLag} \subseteq Nat /\ ChanSize \in Nat \ {0}

\* params_sql2 and tableClean: 1, 5, 15, 30, 60, 240 and 1440 minutes, each a multiple
\* of the one before, the week last; 500 rows; and whole passes, started every second,
\* are less than an interval apart.
ASSUME ChainAssumption ==
  /\ WeekLevel \notin 2..(Len(Values) - 1)
  /\ \A l \in Levels \ {1, WeekLevel} :
       /\ \E q \in 1..Values[l] : Values[l] = q * Values[l - 1]
       /\ 2 * Values[l] <= Kept * Values[l - 1]
       /\ MaxLag < Values[l]

VARIABLES
  now,
  sent, latest, \* number of events the exchange has sent, and the minute of the last
  klineDataChan, item_datas, \* events on their way, oldest first
  row,       \* ba_kline_data: the candle of each interval and start
  level,     \* the interval batchWrite computes next; 1: it waits
  began,     \* when its pass began, or Broken: the pass has not all that was sent
  passed     \* when the last whole pass began

vars == <<now, sent, latest, klineDataChan, item_datas, row, level, began, passed>>

Broken == -1

Missing == [open |-> 0, data |-> {}]
Present(l) == {s \in Starts : row[l][s] # Missing}

Init ==
  /\ now = 0 /\ sent = 0 /\ latest = 0
  /\ klineDataChan = <<>> /\ item_datas = <<>>
  /\ row = [l \in Levels |-> [s \in Starts |-> Missing]]
  /\ level = 1 /\ began = Broken /\ passed = 0
-----------------------------------------------------------------------------
Tick ==
  /\ now < MaxNow /\ now < passed + MaxLag
  /\ now' = now + 1
  /\ UNCHANGED <<sent, latest, klineDataChan, item_datas, row, level, began, passed>>

\* Faulty variant: the channel takes any number of events.
dataHandlerUnbounded(m) ==
  /\ m \in {now - 1, now} /\ m >= latest /\ sent < MaxEvents
  /\ sent' = sent + 1 /\ latest' = m
  /\ klineDataChan' = Append(klineDataChan, <<m, sent'>>)
  /\ UNCHANGED <<now, item_datas, row, level, began, passed>>
\* An event of the current minute, or the last one of the minute before; dataHandler
\* waits for room in the channel.
dataHandler(m) ==
  /\ m \in {now - 1, now} /\ m >= latest /\ sent < MaxEvents
  /\ Len(klineDataChan) < ChanSize
  /\ sent' = sent + 1 /\ latest' = m
  /\ klineDataChan' = Append(klineDataChan, <<m, sent'>>)
  /\ UNCHANGED <<now, item_datas, row, level, began, passed>>

Receive ==
  /\ level = 1 /\ klineDataChan # <<>>
  /\ item_datas' = Append(item_datas, Head(klineDataChan))
  /\ klineDataChan' = Tail(klineDataChan)
  /\ UNCHANGED <<now, sent, latest, row, level, began, passed>>

\* The last event of a minute in the batch; a row is unique, a later event replaces it.
Saved(m) ==
  LET of == {i \in DOMAIN item_datas : item_datas[i][1] = m} IN
  IF of = {} THEN row[1][m]
  ELSE [open |-> m, data |-> {item_datas[CHOOSE i \in of : \A j \in of : j <= i]}]

\* Every second the batch is saved, or lost if the database fails.
Save(ok) ==
  /\ level = 1
  /\ row' = IF ok THEN [row EXCEPT ![1] = [s \in Starts |-> IF s \in Minutes THEN Saved(s) ELSE @[s]]]
            ELSE row
  /\ item_datas' = <<>>
  /\ level' = 2
  /\ began' = IF ok /\ klineDataChan = <<>> THEN now ELSE Broken
  /\ UNCHANGED <<now, sent, latest, klineDataChan, passed>>
-----------------------------------------------------------------------------
Shift(l) == IF l = WeekLevel THEN Offset ELSE 0
Floor(l, t) == (t \div Values[l]) * Values[l]
\* Faulty variant: the nearest start instead of the one before.
BucketRounded(l, t) == Floor(l, t + Values[l] \div 2) - Shift(l)
\* The bucket sql2 and sql2_week give a row to.
Bucket(l, t) == Floor(l, t) - Shift(l)

\* Faulty variant: the last two lengths of the interval, whatever its buckets.
SinceUnaligned(l) == now - 2 * Values[l]
\* "where start_time >= ...": from the bucket before the current one on.
Since(l) == Floor(l, now) - Shift(l) - Values[l]

\* The rows of the shorter interval that make the candle of l that starts at s.
Sources(l, s) == {r \in Present(l - 1) : r >= Since(l) /\ Bucket(l, r) = s}
\* Faulty variant: rows in no particular order.
FirstUnordered(rs) == CHOOSE r \in rs : \A q \in rs : q <= r
First(rs) == CHOOSE r \in rs : \A q \in rs : r <= q

\* Faulty variant: "on duplicate key" replaces nothing.
ComputedOnce(l, s) ==
  LET rs == Sources(l, s) IN
  IF rs = {} \/ s \in Present(l) THEN row[l][s]
  ELSE [open |-> row[l - 1][First(rs)].open, data |-> UNION {row[l - 1][r].data : r \in rs}]
\* Insert, or on duplicate key update all but the opening price.
Computed(l, s) ==
  LET rs == Sources(l, s) IN
  IF rs = {} THEN row[l][s]
  ELSE [open |-> IF s \in Present(l) THEN row[l][s].open ELSE row[l - 1][First(rs)].open,
        data |-> UNION {row[l - 1][r].data : r \in rs}]

\* batchWrite1 goes on with the next interval when a statement fails.
Compute(ok) ==
  /\ level > 1
  /\ row' = IF ok THEN [row EXCEPT ![level] = [s \in Starts |-> Computed(level, s)]] ELSE row
  /\ level' = IF level = Len(Values) THEN 1 ELSE level + 1
  /\ began' = IF ok THEN began ELSE Broken
  /\ passed' = IF level = Len(Values) /\ began' # Broken THEN began ELSE passed
  /\ UNCHANGED <<now, sent, latest, klineDataChan, item_datas>>

\* tableClean deletes what is older than the newest rows of its interval.
Newer(l, s) == {n \in Present(l) : n > s}
Clean ==
  /\ row' = [l \in Levels |-> [s \in Starts |->
               IF Cardinality(Newer(l, s)) >= Kept THEN Missing ELSE row[l][s]]]
  /\ row' # row
  /\ UNCHANGED <<now, sent, latest, klineDataChan, item_datas, level, began, passed>>

\* The process is lost, and what it has not saved.
Crash ==
  /\ klineDataChan' = <<>> /\ item_datas' = <<>> /\ level' = 1 /\ began' = Broken
  /\ <<klineDataChan, item_datas, level>>' # <<klineDataChan, item_datas, level>>
  /\ UNCHANGED <<now, sent, latest, row, passed>>

Next ==
  \/ Tick \/ Receive \/ Clean \/ Crash
  \/ \E m \in Minutes : dataHandler(m)
  \/ \E ok \in BOOLEAN : Save(ok) \/ Compute(ok)

Spec == Init /\ [][Next]_vars
-----------------------------------------------------------------------------
Events == Minutes \X (1..MaxEvents)
Candle == [open : Starts, data : SUBSET Events]

TypeOK ==
  /\ now \in Minutes /\ sent \in 0..MaxEvents /\ latest \in Minutes
  /\ klineDataChan \in Seq(Events) /\ Len(klineDataChan) <= ChanSize
  /\ item_datas \in Seq(Events)
  /\ row \in [Levels -> [Starts -> Candle]]
  /\ level \in Levels /\ began \in Minutes \cup {Broken} /\ passed \in Minutes

MinutesOf(c) == {e[1] : e \in c.data}

\* "unix timestamp ; Interval startDate": a candle is made of its interval.
Covers(l) == \A s \in Present(l) : MinutesOf(row[l][s]) \subseteq s..(s + Values[l] - 1)
CoversItsInterval == \A l \in Levels : Covers(l)

\* Once a bucket will not be computed again its candle is there, unless newer ones
\* have pushed it out, and it is made of the last state of every row of its minutes,
\* whatever statements failed, batches were lost and restarts came before: a whole
\* pass every MaxLag minutes makes up for all of them.
Closed(l, s) == s + Values[l] <= Floor(l, now) - Values[l]
Complete(l) ==
  \A m \in Present(1) :
    LET s == Bucket(l, m) IN
    Closed(l, s) =>
      \/ s \in Present(l) /\ row[1][m].data \subseteq row[l][s].data
      \/ s \notin Present(l) /\ Cardinality(Newer(l, s)) >= Kept
ClosedIsComplete == \A l \in Levels \ {1} : Complete(l)

\* A candle shows the opening price of the first minute it is made of, though the
\* price is written once, when the candle has only some of its minutes.
Opens(l) ==
  \A s \in Present(l) :
    row[l][s].open \in MinutesOf(row[l][s]) /\ \A m \in MinutesOf(row[l][s]) : row[l][s].open <= m
OpensWithItsFirst == \A l \in Levels : Opens(l)

\* A candle does not lose a minute it was made of, as long as it is kept: buckets
\* are computed as a whole or not at all.
Keeps(l) ==
  \A s \in Present(l) :
    row'[l][s] # Missing => MinutesOf(row[l][s]) \subseteq MinutesOf(row'[l][s])
NeverLosesData == [][\A l \in Levels : Keeps(l)]_vars
=============================================================================
