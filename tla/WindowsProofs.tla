---------------------------- MODULE WindowsProofs ----------------------------
(***************************************************************************)
(* For every message, sampling rate and window size: guessr sees readings  *)
(* in their second, its windows are whole, the positions it predicts for   *)
(* were measured by every series, and the points keep their seconds.       *)
(*                                                                         *)
(* The invariant says what each stage has computed: the readings are the   *)
(* conversions of the measured times, an entry is Entry of its index and   *)
(* fits, and the points have the times of the entries.                     *)
(***************************************************************************)
EXTENDS Windows, TLAPS

PhoneNanos == 0..((Thousand - 1) * Thousand)   \* nanos in a message of the phone
PhoneStamps == [seconds : Nat, nanos : PhoneNanos]

(* Arithmetic, for any base.                                               *)
LEMMA DivOfSum ==
  ASSUME NEW S \in Nat, S > 0, NEW s \in Int, NEW n \in 0..(S - 1)
  PROVE  (s * S + n) \div S = s
  <1> DEFINE q == (s * S + n) \div S
             r == (s * S + n) % S
  <1>1. q \in Int /\ r \in 0..(S - 1) /\ s * S + n = S * q + r
    BY SMT
  <1> HIDE DEF q, r
  <1>2. (s - q) * S = r - n /\ (q - s) * S = n - r
    BY <1>1, SMT
  <1>3. CASE s - q >= 1
    <2>1. (s - q) * S >= S
      BY <1>1, <1>3, SMT
    <2> QED BY <1>1, <1>2, <2>1, SMT
  <1>4. CASE s - q <= -1
    <2>1. q - s >= 1 /\ q - s \in Int
      BY <1>1, <1>4, SMT
    <2>2. (q - s) * S >= S
      BY <2>1, SMT
    <2> QED BY <1>1, <1>2, <2>2, SMT
  <1> QED BY <1>1, <1>3, <1>4, SMT DEF q

LEMMA DivTwice ==
  ASSUME NEW K \in Nat, K > 0, NEW t \in Nat
  PROVE  /\ t \div K \in Nat /\ t % K \in 0..(K - 1)
         /\ \A S : S = K * K => (t \div K) \div K = t \div S
         /\ t = (t \div K) * K + (t % K)
  BY SMT

LEMMA RemainderTimes ==
  ASSUME NEW K \in Nat, K > 1, NEW t \in Nat
  PROVE  ((t % K) % (K * K)) * K \in 0..((K - 1) * K)
  <1>1. t % K \in 0..(K - 1) /\ K <= K * K
    BY SMT
  <1>2. (t % K) % (K * K) = t % K
    BY <1>1, SMT
  <1> QED BY <1>1, <1>2, SMT

LEMMA SecondIsSquare ==
  /\ Thousand \in Nat /\ Thousand > 1
  /\ Second = Thousand * Thousand /\ Second \in Nat /\ Second > 0
  /\ PhoneNanos \subseteq 0..(Second - 1)
  <1>1. Thousand \in Nat /\ Thousand > 1
    BY SMT DEF Thousand
  <1>2. Second = Thousand * Thousand
    BY DEF Second
  <1>3. Second \in Nat /\ Second > 0 /\ (Thousand - 1) * Thousand < Second
    BY <1>1, <1>2, SMT
  <1>4. (Thousand - 1) * Thousand \in Nat
    BY <1>1, SMT
  <1> QED BY <1>1, <1>2, <1>3, <1>4, SMT DEF PhoneNanos

(* What _dateTimeToTimestamp makes of a time.                              *)
LEMMA ToTimestampProperties ==
  ASSUME NEW t \in Nat
  PROVE  /\ ToTimestamp(t) \in PhoneStamps
         /\ ToTimestamp(t).seconds = t \div Second
  <1>1. t \div Thousand \in Nat
    BY SecondIsSquare, DivTwice
  <1>2. (t \div Thousand) \div Thousand \in Nat
    BY <1>1, SecondIsSquare, DivTwice
  <1>3. (t \div Thousand) \div Thousand = t \div Second
    <2>1. Thousand \in Nat /\ Thousand > 0 /\ Second = Thousand * Thousand
      BY SecondIsSquare, SMT
    <2> QED BY <2>1, DivTwice
  <1>4. ((t % Thousand) % Second) * Thousand \in PhoneNanos
    BY SecondIsSquare, RemainderTimes DEF PhoneNanos
  <1> QED
    BY <1>2, <1>3, <1>4 DEF ToTimestamp, PhoneStamps, Microsecond, MillisecondsSinceEpoch

(* What guessr reads from a Timestamp of the phone.                        *)
LEMMA FromTimestampProperties ==
  ASSUME NEW stamp \in PhoneStamps
  PROVE  /\ FromTimestamp(stamp) \in Nat
         /\ FromTimestamp(stamp) \div Second = stamp.seconds
  <1> DEFINE s == stamp.seconds
             n == stamp.nanos
  <1>1. s \in Nat /\ n \in 0..(Second - 1) /\ Second \in Nat /\ Second > 0
    BY SecondIsSquare DEF PhoneStamps
  <1> HIDE DEF s, n
  <1>2. s * Second + n \in Nat
    BY <1>1, SMT
  <1>3. (s * Second + n) \div Second = s
    BY <1>1, DivOfSum, SMT
  <1> QED BY <1>2, <1>3 DEF FromTimestamp, s, n

(* The time of a point, and what guessr would read from it.                *)
LEMMA ToPointTimeProperties ==
  ASSUME NEW t \in Nat
  PROVE  /\ ToPointTime(t) \in Stamps
         /\ ToPointTime(t).nanos < Second
         /\ ToPointTime(t).seconds = t \div Second
         /\ FromTimestamp(ToPointTime(t)) = t
  <1>1. t \div Second \in Nat /\ t % Second \in 0..(Second - 1)
    BY SecondIsSquare, DivTwice
  <1>2. (t \div Second) * Second + (t % Second) = t
    BY SecondIsSquare, DivTwice
  <1>3. 0..(Second - 1) \subseteq Nat /\ \A n \in 0..(Second - 1) : n < Second
    BY SecondIsSquare, SMT
  <1> QED BY <1>1, <1>2, <1>3 DEF ToPointTime, FromTimestamp, Stamps

(* A time keeps its second from the phone to guessr.                       *)
LEMMA ReceivedKeepsSecond ==
  ASSUME NEW t \in Nat
  PROVE  Received(t) \in Nat /\ Received(t) \div Second = t \div Second
  BY ToTimestampProperties, FromTimestampProperties DEF Received

(* numpy.arange: its length, and its elements are below the end.           *)
LEMMA ArangeProperties ==
  ASSUME NEW from \in Nat, NEW to \in Nat, NEW step \in Nat, step > 0
  PROVE  /\ ArangeLength(from, to, step) \in Nat
         /\ \A k \in Nat : k < ArangeLength(from, to, step) => from + k * step < to
  <1>1. CASE to <= from
    BY <1>1, SMT DEF ArangeLength
  <1>2. CASE ~(to <= from)
    <2> DEFINE d == to - from
               a == (d + step - 1) \div step
    <2>1. d \in Nat /\ d > 0 /\ to = from + d
      BY <1>2, SMT
    <2>2. ArangeLength(from, to, step) = a
      BY <1>2 DEF ArangeLength
    <2> HIDE DEF d
    <2>3. a \in Nat /\ a * step <= d + step - 1
      BY <2>1, SMT
    <2> HIDE DEF a
    <2>4. ASSUME NEW k \in Nat, k < a
          PROVE  k * step < d
      <3>1. (k + 1) * step <= a * step
        BY <2>3, <2>4, SMT
      <3>2. (k + 1) * step = k * step + step
        BY SMT
      <3>3. k * step \in Int /\ a * step \in Int
        BY <2>3, SMT
      <3> QED BY <2>1, <2>3, <3>1, <3>2, <3>3, SMT
    <2>5. \A k \in Nat : k * step \in Int
      BY SMT
    <2> QED BY <2>1, <2>2, <2>3, <2>4, <2>5, SMT
  <1> QED BY <1>1, <1>2

(* An interval longer than a step has two elements.                        *)
LEMMA ArangeOfTwo ==
  ASSUME NEW from \in Nat, NEW to \in Nat, NEW step \in Nat, step > 0,
         from + step < to
  PROVE  ArangeLength(from, to, step) > 1
  <1> DEFINE a == (to - from + step - 1) \div step
  <1>1. ArangeLength(from, to, step) = a
    BY SMT DEF ArangeLength
  <1>2. a \in Nat /\ to - from + step - 1 < a * step + step
    BY SMT
  <1> HIDE DEF a
  <1>3. CASE a <= 1
    <2>1. a * step <= step
      BY <1>2, <1>3, SMT
    <2>2. a * step \in Nat
      BY <1>2, SMT
    <2> QED BY <1>2, <2>1, <2>2, SMT
  <1> QED BY <1>1, <1>2, <1>3, SMT

(* The largest and the smallest of the times of the three series.          *)
LEMMA MaxOfSeries ==
  ASSUME NEW f \in [Series -> Nat]
  PROVE  /\ Max({f[s] : s \in Series}) \in Nat
         /\ \A s \in Series : f[s] <= Max({f[t] : t \in Series})
  <1> DEFINE S == {f[s] : s \in Series}
  <1>1. \E x \in S : \A y \in S : x >= y
    <2>1. f["accelerometer"] \in Nat /\ f["gyroscope"] \in Nat /\ f["gps"] \in Nat
      BY DEF Series
    <2>2. S = {f["accelerometer"], f["gyroscope"], f["gps"]}
      BY DEF Series
    <2> HIDE DEF S
    <2> QED BY <2>1, <2>2, SMT
  <1>2. Max(S) \in S /\ \A y \in S : Max(S) >= y
    BY <1>1 DEF Max
  <1>3. S \subseteq Nat
    OBVIOUS
  <1>4. \A s \in Series : f[s] \in S
    OBVIOUS
  <1>5. Max(S) \in Nat
    BY <1>2, <1>3
  <1>6. ASSUME NEW s \in Series PROVE f[s] <= Max(S)
    <2>1. f[s] \in Nat /\ Max(S) >= f[s]
      BY <1>2, <1>4
    <2> DEFINE m == Max(S)
    <2> HIDE DEF m
    <2> QED BY <2>1, <1>5, SMT DEF m
  <1> QED BY <1>5, <1>6

LEMMA MinOfSeries ==
  ASSUME NEW f \in [Series -> Nat]
  PROVE  /\ Min({f[s] : s \in Series}) \in Nat
         /\ \A s \in Series : Min({f[t] : t \in Series}) <= f[s]
  <1> DEFINE S == {f[s] : s \in Series}
  <1>1. \E x \in S : \A y \in S : x <= y
    <2>1. f["accelerometer"] \in Nat /\ f["gyroscope"] \in Nat /\ f["gps"] \in Nat
      BY DEF Series
    <2>2. S = {f["accelerometer"], f["gyroscope"], f["gps"]}
      BY DEF Series
    <2> HIDE DEF S
    <2> QED BY <2>1, <2>2, SMT
  <1>2. Min(S) \in S /\ \A y \in S : Min(S) <= y
    BY <1>1 DEF Min
  <1>3. S \subseteq Nat
    OBVIOUS
  <1>4. \A s \in Series : f[s] \in S
    OBVIOUS
  <1>5. Min(S) \in Nat
    BY <1>2, <1>3
  <1>6. ASSUME NEW s \in Series PROVE Min(S) <= f[s]
    <2>1. f[s] \in Nat /\ Min(S) <= f[s]
      BY <1>2, <1>4
    <2> DEFINE m == Min(S)
    <2> HIDE DEF m
    <2> QED BY <2>1, <1>5, SMT DEF m
  <1> QED BY <1>5, <1>6

(* The sizes: a window is two slides.                                      *)
LEMMA Sizes ==
  /\ Tick \in Nat /\ Tick > 0 /\ Window \in Nat /\ Slide \in Nat /\ Slide > 0
  /\ Window = 2 * Slide
  /\ GpsPeriod = Tick * Slide /\ GpsPeriod \in Nat /\ GpsPeriod > 0
  /\ GpsOffset \in Nat /\ GpsOffset <= GpsPeriod
  <1>1. Tick \in Nat /\ Tick > 0 /\ Window \in Nat /\ Window > 0 /\ Window % 2 = 0
    BY TickAssumption, WindowAssumption
  <1>2. Slide \in Nat /\ Slide > 0 /\ Window = 2 * Slide
    BY <1>1, SMT DEF Slide
  <1>3. GpsPeriod = Tick * Slide
    BY DEF GpsPeriod
  <1>4. GpsPeriod \in Nat /\ GpsPeriod > 0
    BY <1>1, <1>2, <1>3, SMT
  <1>5. GpsOffset \in Nat /\ GpsOffset <= GpsPeriod
    BY <1>4, SMT DEF GpsOffset
  <1> QED BY <1>1, <1>2, <1>3, <1>4, <1>5

WindowEntries == [start : Nat, end : Nat, time : Nat]

(* The entry of a position: a whole window, its position inside it.        *)
LEMMA EntryProperties ==
  ASSUME NEW i \in Nat, minTime \in Nat
  PROVE  /\ Entry(i) \in WindowEntries
         /\ Entry(i).end - Entry(i).start = Window /\ Entry(i).end > 0
         /\ minTime <= Entry(i).time
         /\ SampleTime(Entry(i).start) <= Entry(i).time
         /\ Entry(i).time <= SampleTime(Entry(i).end - 1)
  <1> DEFINE a == i * Slide
             b == i * GpsPeriod
  <1>1. a \in Nat /\ b \in Nat
    BY Sizes, SMT
  <1>2. b = a * Tick
    BY Sizes, SMT
  <1>3. Entry(i) = [start |-> a, end |-> a + Window, time |-> minTime + GpsOffset + b]
    BY DEF Entry
  <1>4. SampleTime(a) = minTime + b
    BY <1>2 DEF SampleTime
  <1>5. SampleTime(a + Window - 1) = minTime + (a + Window - 1) * Tick
    BY DEF SampleTime
  <1> HIDE DEF a, b
  <1>6. (a + Window - 1) * Tick = b + (Window - 1) * Tick
    BY <1>1, <1>2, Sizes, SMT
  <1>7. GpsPeriod <= (Window - 1) * Tick /\ (Window - 1) * Tick \in Nat
    <2> DEFINE v == Window - 1
    <2>1. v \in Nat /\ Slide <= v
      BY Sizes, SMT
    <2> HIDE DEF v
    <2>2. Tick * Slide <= v * Tick /\ v * Tick \in Nat
      BY <2>1, Sizes, SMT
    <2> QED BY <2>2, Sizes DEF v
  <1>8. a + Window \in Nat /\ minTime + GpsOffset + b \in Nat
    BY <1>1, Sizes, SMT
  <1>9. minTime + b <= minTime + GpsOffset + b /\ minTime <= minTime + GpsOffset + b
    BY <1>1, Sizes, SMT
  <1>10. minTime + GpsOffset + b <= minTime + (a + Window - 1) * Tick
    BY <1>1, <1>6, <1>7, Sizes, SMT
  <1>11. (a + Window) - a = Window /\ a + Window > 0
    BY <1>1, Sizes, SMT
  <1> QED
    BY <1>1, <1>3, <1>4, <1>5, <1>8, <1>9, <1>10, <1>11 DEF WindowEntries

-----------------------------------------------------------------------------
(* The inductive invariant.                                                *)

Types ==
  /\ measured \in [Series -> Spans(Starts, Ends) \cup {None}]
  /\ readings \in [Series -> [first : Nat, last : Nat] \cup {None}]
  /\ pc \in {"sent", "parsed", "failed", "cutting", "predicted"}
  /\ minTime \in Nat /\ maxTime \in Nat /\ total \in Nat /\ gpsTotal \in Nat
  /\ entries \in Seq(WindowEntries) /\ points \in Seq(Stamps)
  /\ Len(entries) <= gpsTotal

ReadingsOK ==
  \A s \in Series : readings[s] # None =>
    /\ measured[s] # None
    /\ readings[s] = [first |-> Received(measured[s].first),
                      last |-> Received(measured[s].last)]

TableOK == pc \in {"cutting", "predicted"} =>
  /\ \A s \in Series : readings[s] # None /\ readings[s].first <= minTime
                                          /\ maxTime <= readings[s].last
  /\ \A k \in Nat : k < total => minTime + k * Tick < maxTime
  /\ Window < total => gpsTotal > 1

EntriesOK ==
  /\ entries # <<>> => pc \in {"cutting", "predicted"}
  /\ \A i \in DOMAIN entries : entries[i] = Entry(i - 1) /\ Fits(entries[i])

PointsOK ==
  \/ points = <<>>
  \/ /\ pc = "predicted" /\ Len(points) = Len(entries)
     /\ \A i \in DOMAIN entries : points[i] = ToPointTime(entries[i].time)

IInv == Types /\ ReadingsOK /\ TableOK /\ EntriesOK /\ PointsOK

LEMMA InitInvariant == Init => IInv
  <1> SUFFICES ASSUME Init PROVE IInv
    OBVIOUS
  <1>1. readings \in [Series -> [first : Nat, last : Nat] \cup {None}]
    BY DEF Init, NoReadings
  <1>2. entries \in Seq(WindowEntries) /\ points \in Seq(Stamps) /\ Len(entries) = 0
    BY DEF Init
  <1>3. Types
    BY <1>1, <1>2 DEF Init, Types
  <1>4. ReadingsOK /\ TableOK /\ EntriesOK /\ PointsOK
    BY DEF Init, NoReadings, ReadingsOK, TableOK, EntriesOK, PointsOK
  <1> QED BY <1>3, <1>4 DEF IInv

(* What a step that keeps the windows has to show.                         *)
LEMMA SameEntries ==
  ASSUME EntriesOK, UNCHANGED <<minTime, total, entries>>,
         entries = <<>> \/ pc' \in {"cutting", "predicted"}
  PROVE  EntriesOK'
  BY DEF EntriesOK, Entry, Fits

LEMMA ParseStep == IInv /\ Parse => IInv'
  <1> SUFFICES ASSUME IInv, Parse PROVE IInv'
    OBVIOUS
  <1> USE DEF IInv
  <1>1. entries = <<>> /\ points = <<>>
    BY DEF Parse, EntriesOK, PointsOK
  <1>2. ASSUME NEW s \in Series, measured[s] # None
        PROVE  Received(measured[s].first) \in Nat /\ Received(measured[s].last) \in Nat
    <2>1. measured[s].first \in Nat /\ measured[s].last \in Nat
      BY <1>2, TimesAssumption DEF Types, Spans
    <2> QED BY <2>1, ReceivedKeepsSecond
  <1>3. readings' \in [Series -> [first : Nat, last : Nat] \cup {None}]
    BY <1>2 DEF Parse
  <1>4. Types'
    BY <1>3 DEF Types, Parse, tableVars
  <1>5. ReadingsOK'
    BY DEF Parse, ReadingsOK, Received
  <1>6. TableOK' /\ PointsOK'
    BY <1>1 DEF Parse, TableOK, PointsOK
  <1>7. EntriesOK'
    BY <1>1, SameEntries DEF Parse, tableVars
  <1> QED BY <1>4, <1>5, <1>6, <1>7

LEMMA EmptyStep == IInv /\ SeriesIsEmpty => IInv'
  <1> SUFFICES ASSUME IInv, SeriesIsEmpty PROVE IInv'
    OBVIOUS
  <1> USE DEF IInv
  <1>1. entries = <<>> /\ points = <<>>
    BY DEF SeriesIsEmpty, EntriesOK, PointsOK
  <1>2. Types'
    BY DEF Types, SeriesIsEmpty, tableVars
  <1>3. ReadingsOK'
    BY DEF SeriesIsEmpty, ReadingsOK
  <1>4. TableOK' /\ PointsOK'
    BY <1>1 DEF SeriesIsEmpty, TableOK, PointsOK
  <1>5. EntriesOK'
    BY <1>1, SameEntries DEF SeriesIsEmpty, tableVars
  <1> QED BY <1>2, <1>3, <1>4, <1>5

LEMMA InterpolateStep == IInv /\ Interpolate => IInv'
  <1> SUFFICES ASSUME IInv, Interpolate PROVE IInv'
    OBVIOUS
  <1> USE DEF IInv
  <1>1. entries = <<>> /\ points = <<>>
    BY DEF Interpolate, EntriesOK, PointsOK
  <1> DEFINE firsts == [s \in Series |-> readings[s].first]
             lasts == [s \in Series |-> readings[s].last]
  <1>2. firsts \in [Series -> Nat] /\ lasts \in [Series -> Nat]
    BY DEF Types, Interpolate
  <1>3. minTime' = Max({firsts[s] : s \in Series}) /\ maxTime' = Min({lasts[s] : s \in Series})
    BY DEF Interpolate
  <1>4. minTime' \in Nat /\ maxTime' \in Nat
    BY <1>2, <1>3, MaxOfSeries, MinOfSeries
  <1>5. \A s \in Series : readings[s].first <= minTime' /\ maxTime' <= readings[s].last
    BY <1>2, <1>3, MaxOfSeries, MinOfSeries
  <1>6. total' = ArangeLength(minTime', maxTime', Tick)
    BY DEF Interpolate
  <1>7. total' \in Nat /\ \A k \in Nat : k < total' => minTime' + k * Tick < maxTime'
    BY <1>4, <1>6, Sizes, ArangeProperties
  <1>8. gpsTotal' \in Nat
    <2>1. \A t \in Nat : t + GpsOffset \in Nat
      BY Sizes, SMT
    <2>2. gpsTotal' = ArangeLength(minTime' + GpsOffset, maxTime' + GpsOffset, GpsPeriod)
      BY DEF Interpolate
    <2> QED BY <1>4, <2>1, <2>2, Sizes, ArangeProperties
  <1>9. Types'
    <2>1. Len(entries) <= gpsTotal'
      BY <1>1, <1>8
    <2> QED BY <1>4, <1>7, <1>8, <2>1 DEF Types, Interpolate
  <1>10. ReadingsOK'
    BY DEF Interpolate, ReadingsOK
  <1>11. Window < total' => gpsTotal' > 1
    <2> SUFFICES ASSUME Window < total' PROVE gpsTotal' > 1
      OBVIOUS
    <2>1. minTime' + Window * Tick < maxTime'
      BY <1>7, Sizes
    <2>2. Window * Tick = 2 * GpsPeriod
      BY Sizes, SMT
    <2> DEFINE from == minTime' + GpsOffset
               to == maxTime' + GpsOffset
               first == minTime'
               last == maxTime'
    <2>3. from = first + GpsOffset /\ to = last + GpsOffset
          /\ first \in Nat /\ last \in Nat /\ first + 2 * GpsPeriod < last
      BY <1>4, <2>1, <2>2
    <2>4. gpsTotal' = ArangeLength(from, to, GpsPeriod)
      BY DEF Interpolate
    <2> HIDE DEF from, to, first, last
    <2>5. from \in Nat /\ to \in Nat /\ from + GpsPeriod < to
      BY <2>3, Sizes, SMT
    <2> QED BY <2>4, <2>5, Sizes, ArangeOfTwo
  <1>12. TableOK'
    BY <1>5, <1>7, <1>11 DEF Interpolate, TableOK
  <1>13. EntriesOK' /\ PointsOK'
    BY <1>1 DEF Interpolate, EntriesOK, PointsOK
  <1> QED BY <1>9, <1>10, <1>12, <1>13

LEMMA CutStep == IInv /\ Cut => IInv'
  <1> SUFFICES ASSUME IInv, Cut PROVE IInv'
    OBVIOUS
  <1> USE DEF IInv
  <1> DEFINE n == Len(entries)
  <1>1. n \in Nat /\ n < gpsTotal /\ pc = "cutting" /\ Fits(Entry(n))
        /\ entries' = Append(entries, Entry(n)) /\ points = <<>>
    BY DEF Cut, Types, PointsOK
  <1>2. Entry(n) \in WindowEntries
    BY <1>1, EntryProperties DEF Types
  <1>3. entries' \in Seq(WindowEntries) /\ Len(entries') = n + 1
        /\ \A i \in 1..n : entries'[i] = entries[i]
        /\ entries'[n + 1] = Entry(n)
    BY <1>1, <1>2 DEF Types
  <1>4. Types'
    <2>1. Len(entries') <= gpsTotal
      BY <1>1, <1>3, SMT DEF Types
    <2> QED BY <1>3, <2>1 DEF Types, Cut, tableVars
  <1>5. ReadingsOK' /\ TableOK' /\ PointsOK'
    BY <1>1 DEF Cut, tableVars, ReadingsOK, TableOK, PointsOK
  <1>6. ASSUME NEW i \in DOMAIN entries'
        PROVE  entries'[i] = Entry(i - 1) /\ Fits(entries'[i])
    <2>1. i \in 1..(n + 1) /\ DOMAIN entries = 1..n
      BY <1>3 DEF Types
    <2>2. CASE i \in 1..n
      BY <1>3, <2>1, <2>2 DEF EntriesOK
    <2>3. CASE i = n + 1
      <3>1. i - 1 = n
        BY <1>1, <2>3, SMT
      <3> QED BY <1>1, <1>3, <2>3, <3>1
    <2>4. i \in 1..n \/ i = n + 1
      BY <1>1, <2>1, SMT
    <2> QED BY <2>2, <2>3, <2>4
  <1>7. EntriesOK'
    <2>1. UNCHANGED <<minTime, total, pc>>
      BY DEF Cut, tableVars
    <2> QED BY <1>1, <1>6, <2>1 DEF EntriesOK, Entry, Fits
  <1> QED BY <1>4, <1>5, <1>7

LEMMA PredictStep == IInv /\ Predict => IInv'
  <1> SUFFICES ASSUME IInv, Predict PROVE IInv'
    OBVIOUS
  <1> USE DEF IInv
  <1>1. points' = [i \in 1..Len(entries) |-> ToPointTime(entries[i].time)]
    BY DEF Predict, Types
  <1>2. \A i \in 1..Len(entries) : ToPointTime(entries[i].time) \in Stamps
    <2> TAKE i \in 1..Len(entries)
    <2>1. entries[i] \in WindowEntries
      BY DEF Types
    <2>2. entries[i].time \in Nat
      BY <2>1 DEF WindowEntries
    <2> QED BY <2>2, ToPointTimeProperties
  <1>3. points' \in Seq(Stamps) /\ Len(points') = Len(entries)
    BY <1>1, <1>2 DEF Types
  <1>4. Types'
    BY <1>3 DEF Types, Predict, tableVars
  <1>5. ReadingsOK' /\ TableOK'
    BY DEF Predict, tableVars, ReadingsOK, TableOK
  <1>6. EntriesOK'
    BY SameEntries DEF Predict, tableVars
  <1>7. PointsOK'
    BY <1>1, <1>3 DEF Predict, PointsOK, Types
  <1> QED BY <1>4, <1>5, <1>6, <1>7

LEMMA StepInvariant == IInv /\ [Next]_vars => IInv'
  <1>1. IInv /\ UNCHANGED vars => IInv'
    BY DEF vars, tableVars, IInv, Types, ReadingsOK, TableOK, EntriesOK, PointsOK, Entry, Fits
  <1> QED
    BY <1>1, ParseStep, EmptyStep, InterpolateStep, CutStep, PredictStep DEF Next

-----------------------------------------------------------------------------
(* What the invariant says of the properties.                              *)

LEMMA EntryOf ==
  ASSUME IInv, NEW i \in DOMAIN entries
  PROVE  /\ i - 1 \in Nat /\ entries[i] = Entry(i - 1) /\ entries[i] \in WindowEntries
         /\ entries[i].end < total /\ pc \in {"cutting", "predicted"}
  <1>1. i \in 1..Len(entries) /\ Len(entries) \in Nat
    BY DEF IInv, Types
  <1>2. i - 1 \in Nat
    BY <1>1, SMT
  <1>3. entries[i] \in WindowEntries /\ entries # <<>>
    BY <1>1 DEF IInv, Types
  <1> QED BY <1>2, <1>3 DEF IInv, EntriesOK, Fits

LEMMA PointOf ==
  ASSUME IInv, NEW i \in DOMAIN points
  PROVE  i \in DOMAIN entries /\ points[i] = ToPointTime(entries[i].time)
  BY DEF IInv, Types, PointsOK

LEMMA InvariantTypes == IInv => TypeOK
  <1> SUFFICES ASSUME IInv PROVE TypeOK
    OBVIOUS
  <1>1. ASSUME NEW i \in DOMAIN entries
        PROVE  /\ {entries[i].start, entries[i].end, entries[i].time} \subseteq Nat
               /\ entries[i].end - entries[i].start = Window /\ entries[i].end <= total
    <2>1. /\ i - 1 \in Nat /\ entries[i] = Entry(i - 1)
          /\ entries[i] \in WindowEntries /\ entries[i].end < total
      BY <1>1, EntryOf
    <2>2. entries[i].end - entries[i].start = Window
      BY <2>1, EntryProperties DEF IInv, Types
    <2>3. entries[i].start \in Nat /\ entries[i].end \in Nat /\ entries[i].time \in Nat
      BY <2>1 DEF WindowEntries
    <2>4. entries[i].end <= total
      BY <2>1, <2>3, SMT DEF IInv, Types
    <2> QED BY <2>2, <2>3, <2>4
  <1>2. ASSUME NEW i \in DOMAIN points
        PROVE  points[i] \in Stamps /\ points[i].nanos < Second
    <2>1. points[i] = ToPointTime(entries[i].time) /\ entries[i] \in WindowEntries
      BY <1>2, PointOf, EntryOf
    <2> QED BY <2>1, ToPointTimeProperties DEF WindowEntries
  <1> QED BY <1>1, <1>2 DEF IInv, Types, TypeOK

LEMMA InvariantSeconds == IInv => SecondsKept
  <1> SUFFICES ASSUME IInv, NEW s \in Series, readings[s] # None
               PROVE  /\ readings[s].first \div Second = measured[s].first \div Second
                      /\ readings[s].last \div Second = measured[s].last \div Second
    BY DEF SecondsKept
  <1>1. measured[s].first \in Nat /\ measured[s].last \in Nat
    BY TimesAssumption DEF IInv, Types, ReadingsOK, Spans
  <1>2. readings[s] = [first |-> Received(measured[s].first),
                       last |-> Received(measured[s].last)]
    BY DEF IInv, ReadingsOK
  <1>3. readings[s].first = Received(measured[s].first)
        /\ readings[s].last = Received(measured[s].last)
    BY <1>2
  <1> QED BY <1>1, <1>3, ReceivedKeepsSecond

LEMMA InvariantReadBack == IInv => PointTimesReadBack
  <1> SUFFICES ASSUME IInv, NEW i \in DOMAIN points
               PROVE  FromTimestamp(points[i]) = entries[i].time
    BY DEF PointTimesReadBack
  <1>1. points[i] = ToPointTime(entries[i].time) /\ entries[i] \in WindowEntries
    BY PointOf, EntryOf
  <1>2. entries[i].time \in Nat
    BY <1>1 DEF WindowEntries
  <1> QED BY <1>1, <1>2, ToPointTimeProperties

(* An entry lies between the common times of all series.                   *)
LEMMA InvariantPositions == IInv => PositionsMeasured
  <1> SUFFICES ASSUME IInv, NEW i \in DOMAIN entries
               PROVE  /\ SampleTime(entries[i].start) <= entries[i].time
                      /\ entries[i].time <= SampleTime(entries[i].end - 1)
                      /\ \A s \in Series : /\ readings[s].first <= entries[i].time
                                           /\ entries[i].time <= readings[s].last
    BY DEF PositionsMeasured
  <1> DEFINE e == entries[i]
  <1>1. /\ i - 1 \in Nat /\ e = Entry(i - 1) /\ e \in WindowEntries
        /\ e.end < total /\ pc \in {"cutting", "predicted"}
    BY EntryOf
  <1>2. /\ minTime \in Nat /\ maxTime \in Nat /\ total \in Nat
    BY DEF IInv, Types
  <1>3. /\ e.end > 0 /\ minTime <= e.time
        /\ SampleTime(e.start) <= e.time /\ e.time <= SampleTime(e.end - 1)
    BY <1>1, <1>2, EntryProperties
  <1>4. e.time \in Nat /\ e.end \in Nat
    BY <1>1 DEF WindowEntries
  <1>5. e.end - 1 \in Nat /\ e.end - 1 < total
    <2> HIDE DEF e
    <2> QED BY <1>1, <1>2, <1>3, <1>4, SMT
  <1>6. SampleTime(e.end - 1) < maxTime /\ SampleTime(e.end - 1) \in Int
    <2> DEFINE k == e.end - 1
    <2>1. minTime + k * Tick < maxTime
      BY <1>1, <1>5 DEF IInv, TableOK
    <2>2. k \in Nat
      BY <1>5
    <2> HIDE DEF k
    <2>3. minTime + k * Tick \in Int
      BY <1>2, <2>2, Sizes, SMT
    <2> QED BY <2>1, <2>3 DEF SampleTime, k
  <1>7. e.time < maxTime
    <2> DEFINE t == SampleTime(e.end - 1)
               u == e.time
    <2>1. u <= t /\ t < maxTime /\ u \in Nat /\ t \in Int
      BY <1>3, <1>4, <1>6
    <2> HIDE DEF t, u
    <2>2. u < maxTime
      BY <2>1, <1>2, SMT
    <2> QED BY <2>2 DEF u
  <1>8. ASSUME NEW s \in Series
        PROVE  readings[s].first <= e.time /\ e.time <= readings[s].last
    <2> DEFINE a == readings[s].first
               b == readings[s].last
               u == e.time
    <2>1. a <= minTime /\ maxTime <= b /\ a \in Nat /\ b \in Nat
      BY <1>1 DEF IInv, Types, TableOK
    <2>2. u \in Nat /\ minTime <= u /\ u < maxTime
      BY <1>3, <1>4, <1>7
    <2> HIDE DEF a, b, u
    <2>3. a <= u /\ u <= b
      BY <1>2, <2>1, <2>2, SMT
    <2> QED BY <2>3 DEF a, b, u
  <1> QED BY <1>3, <1>8

(* The positions of a speed lie between the common times of all series:    *)
(* that of its entry, as for PositionsMeasured, and for the first entry    *)
(* the second position, before the end of its window.                      *)
LEMMA InvariantSpeeds == IInv => SpeedMeasured
  <1> SUFFICES ASSUME IInv, NEW i \in DOMAIN entries
               PROVE  LET span == SpeedSpan(i - 1)
                      IN /\ span # <<>> /\ span[2] = span[1] + 1
                         /\ i - 1 \in {span[1], span[2]}
                         /\ \A s \in Series :
                              /\ readings[s].first <= PositionTime(span[1])
                              /\ PositionTime(span[2]) <= readings[s].last
    BY DEF SpeedMeasured
  <1> DEFINE n == i - 1
  <1>1. /\ n \in Nat /\ entries[i] = Entry(n) /\ entries[i] \in WindowEntries
        /\ entries[i].end < total /\ pc \in {"cutting", "predicted"}
    BY EntryOf
  <1> HIDE DEF n
  <1>2. minTime \in Nat /\ maxTime \in Nat /\ total \in Nat /\ gpsTotal \in Nat
    BY DEF IInv, Types
  <1>3. \A s \in Series : /\ readings[s].first \in Nat /\ readings[s].last \in Nat
                         /\ readings[s].first <= minTime /\ maxTime <= readings[s].last
    BY <1>1 DEF IInv, Types, TableOK
  <1>4. Window < total
    <2> DEFINE a == n * Slide
    <2>1. a \in Nat /\ entries[i].end = a + Window
      BY <1>1, Sizes, SMT DEF Entry
    <2> HIDE DEF a
    <2> QED BY <1>1, <1>2, <2>1, Sizes, SMT
  <1>5. gpsTotal > 1 /\ minTime + Window * Tick < maxTime
    BY <1>1, <1>4, Sizes DEF IInv, TableOK
  <1>6. \A p \in Nat : PositionTime(p) \in Nat /\ minTime <= PositionTime(p)
    <2> TAKE p \in Nat
    <2>1. p * GpsPeriod \in Nat
      BY Sizes, SMT
    <2> QED BY <1>2, <2>1, Sizes, SMT DEF PositionTime
  <1>7. ASSUME NEW p \in Nat, NEW s \in Series
        PROVE  readings[s].first <= PositionTime(p)
    BY <1>2, <1>3, <1>6, SMT
  <1>8. CASE n = 0
    <2>1. SpeedSpan(n) = <<0, 1>>
      BY <1>5, <1>8 DEF SpeedSpan
    <2>2. PositionTime(1) < maxTime
      <3>1. PositionTime(1) = minTime + GpsOffset + GpsPeriod
        BY Sizes, SMT DEF PositionTime
      <3>2. Window * Tick = 2 * GpsPeriod
        BY Sizes, SMT
      <3> QED BY <1>2, <1>5, <3>1, <3>2, Sizes, SMT
    <2>3. \A s \in Series : PositionTime(1) <= readings[s].last
      BY <1>2, <1>3, <1>6, <2>2, SMT
    <2> QED BY <1>7, <1>8, <2>1, <2>3 DEF n
  <1>9. CASE n > 0
    <2>1. SpeedSpan(n) = <<n - 1, n>>
      BY <1>9 DEF SpeedSpan
    <2>2. n - 1 \in Nat /\ n = (n - 1) + 1
      BY <1>1, <1>9, SMT
    <2>3. PositionTime(n) = entries[i].time
      BY <1>1 DEF Entry, PositionTime
    <2>4. \A s \in Series : PositionTime(n) <= readings[s].last
      BY <2>3, InvariantPositions DEF PositionsMeasured
    <2> QED BY <1>7, <2>1, <2>2, <2>4 DEF n
  <1> QED BY <1>1, <1>8, <1>9, SMT

(* A label takes the first half of its window.                             *)
LEMMA InvariantLabels == IInv => LabelsInWindow
  <1> SUFFICES ASSUME IInv, NEW i \in DOMAIN entries
               PROVE  /\ SampleTime(entries[i].start) <= LabelSpan(i - 1).from
                      /\ LabelSpan(i - 1).to <= SampleTime(entries[i].end - 1)
                      /\ \A j \in DOMAIN entries :
                           i < j => LabelSpan(i - 1).to <= LabelSpan(j - 1).from
    BY DEF LabelsInWindow
  <1>1. minTime \in Nat /\ Len(entries) \in Nat /\ DOMAIN entries = 1..Len(entries)
    BY DEF IInv, Types
  <1>2. 2 * GpsOffset <= GpsPeriod
    BY Sizes, SMT DEF GpsOffset
  <1>3. ASSUME NEW n \in Nat
        PROVE  /\ n * GpsPeriod \in Nat
               /\ LabelSpan(n).from = minTime + n * GpsPeriod
               /\ LabelSpan(n).to = minTime + n * GpsPeriod + 2 * GpsOffset
    <2> DEFINE b == n * GpsPeriod
    <2>1. b \in Nat
      BY Sizes, SMT
    <2>2. LabelSpan(n).from = (minTime + GpsOffset + b) - GpsOffset
          /\ LabelSpan(n).to = (minTime + GpsOffset + b) + GpsOffset
      BY DEF LabelSpan, Entry
    <2> HIDE DEF b
    <2>3. LabelSpan(n).from = minTime + b /\ LabelSpan(n).to = minTime + b + 2 * GpsOffset
      BY <1>1, <2>1, <2>2, Sizes, SMT
    <2> QED BY <2>1, <2>3 DEF b
  <1> DEFINE n == i - 1
             b == n * GpsPeriod
  <1>4. n \in Nat /\ entries[i] = Entry(n)
    BY EntryOf
  <1>5. b \in Nat /\ LabelSpan(n).from = minTime + b
        /\ LabelSpan(n).to = minTime + b + 2 * GpsOffset
    BY <1>3, <1>4
  <1>6. SampleTime(entries[i].start) = minTime + b
    <2>1. entries[i].start = n * Slide
      BY <1>4 DEF Entry
    <2>2. (n * Slide) * Tick = n * GpsPeriod
      <3> HIDE DEF n
      <3> QED BY <1>4, Sizes, SMT
    <2> QED BY <2>1, <2>2 DEF SampleTime
  <1>7. minTime + b + GpsPeriod <= SampleTime(entries[i].end - 1)
    <2> DEFINE v == Window - 1
    <2>1. v \in Nat /\ Slide <= v
      BY Sizes, SMT
    <2>2. entries[i].end - 1 = n * Slide + v
      <3> DEFINE a == n * Slide
      <3>1. a \in Nat /\ entries[i].end = a + Window
        BY <1>4, Sizes, SMT DEF Entry
      <3> HIDE DEF a
      <3>2. (a + Window) - 1 = a + (Window - 1)
        BY <3>1, Sizes, SMT
      <3> QED BY <3>1, <3>2 DEF a
    <2> HIDE DEF n, v
    <2>3. (n * Slide + v) * Tick = n * GpsPeriod + v * Tick
      BY <1>4, <2>1, Sizes, SMT
    <2>4. GpsPeriod <= v * Tick /\ v * Tick \in Nat
      BY <2>1, Sizes, SMT
    <2>5. SampleTime(entries[i].end - 1) = minTime + (b + v * Tick)
      BY <2>2, <2>3 DEF SampleTime
    <2> HIDE DEF b
    <2> QED BY <1>1, <1>5, <2>4, <2>5, Sizes, SMT
  <1>8. ASSUME NEW j \in DOMAIN entries, i < j
        PROVE  b + GpsPeriod <= (j - 1) * GpsPeriod /\ j - 1 \in Nat
    <2> DEFINE m == j - 1
    <2>1. m \in Nat /\ n + 1 <= m
      BY <1>1, <1>4, <1>8, SMT
    <2> HIDE DEF m, n
    <2>2. (n + 1) * GpsPeriod <= m * GpsPeriod /\ (n + 1) * GpsPeriod = n * GpsPeriod + GpsPeriod
      BY <1>4, <2>1, Sizes, SMT
    <2> QED BY <2>1, <2>2 DEF m
  <1> HIDE DEF b, n
  <1>9. LabelSpan(n).to <= SampleTime(entries[i].end - 1)
    <2> DEFINE t == SampleTime(entries[i].end - 1)
    <2>1. t \in Int
      <3>1. entries[i] \in WindowEntries
        BY EntryOf
      <3>2. entries[i].end - 1 \in Int
        BY <3>1, SMT DEF WindowEntries
      <3> QED BY <1>1, <3>2, Sizes, SMT DEF SampleTime
    <2>2. minTime + b + GpsPeriod <= t
      BY <1>7
    <2> HIDE DEF t
    <2>3. minTime + b + 2 * GpsOffset <= t
      BY <1>1, <1>2, <1>5, <2>1, <2>2, Sizes, SMT
    <2> QED BY <1>5, <2>3 DEF t
  <1>10. ASSUME NEW j \in DOMAIN entries, i < j
         PROVE  LabelSpan(n).to <= LabelSpan(j - 1).from
    <2> DEFINE c == (j - 1) * GpsPeriod
    <2>1. LabelSpan(j - 1).from = minTime + c /\ c \in Nat /\ b + GpsPeriod <= c
      BY <1>3, <1>8, <1>10
    <2> HIDE DEF c
    <2> QED BY <1>1, <1>2, <1>5, <2>1, Sizes, SMT
  <1>11. SampleTime(entries[i].start) <= LabelSpan(n).from
    BY <1>1, <1>5, <1>6, SMT
  <1> QED BY <1>9, <1>10, <1>11 DEF n

LEMMA DivMonotone ==
  ASSUME NEW a \in Nat, NEW b \in Nat, a <= b, NEW S \in Nat, S > 0
  PROVE  a \div S <= b \div S
  <1> DEFINE p == a \div S
             q == b \div S
  <1>1. p \in Nat /\ q \in Nat /\ p * S <= a /\ b < q * S + S
    BY SMT
  <1> HIDE DEF p, q
  <1>2. CASE p > q
    <2>1. p >= q + 1
      BY <1>1, <1>2, SMT
    <2>2. p * S >= (q + 1) * S
      BY <1>1, <2>1, SMT
    <2>3. (q + 1) * S = q * S + S
      BY <1>1, SMT
    <2>4. p * S \in Int /\ q * S \in Int
      BY <1>1, SMT
    <2> QED BY <1>1, <2>2, <2>3, <2>4, SMT
  <1> QED BY <1>1, <1>2, SMT DEF p, q

LEMMA InvariantPointSeconds == IInv => PointSecondsMeasured
  <1> SUFFICES ASSUME IInv, NEW i \in DOMAIN points, NEW s \in Series
               PROVE  /\ measured[s].first \div Second <= points[i].seconds
                      /\ points[i].seconds <= measured[s].last \div Second
    BY DEF PointSecondsMeasured
  <1> DEFINE t == entries[i].time
  <1>1. i \in DOMAIN entries /\ points[i] = ToPointTime(t)
    BY PointOf
  <1>2. entries[i] \in WindowEntries /\ pc \in {"cutting", "predicted"}
    BY <1>1, EntryOf
  <1>3. t \in Nat /\ points[i].seconds = t \div Second
    BY <1>1, <1>2, ToPointTimeProperties DEF WindowEntries
  <1>4. readings[s] # None /\ readings[s].first \in Nat /\ readings[s].last \in Nat
    BY <1>2 DEF IInv, Types, TableOK
  <1>5. readings[s].first <= t /\ t <= readings[s].last
    BY <1>1, InvariantPositions DEF PositionsMeasured
  <1>6. /\ readings[s].first \div Second <= t \div Second
        /\ t \div Second <= readings[s].last \div Second
    BY <1>3, <1>4, <1>5, SecondIsSquare, DivMonotone
  <1>7. /\ readings[s].first \div Second = measured[s].first \div Second
        /\ readings[s].last \div Second = measured[s].last \div Second
    BY <1>4, InvariantSeconds DEF SecondsKept
  <1> QED BY <1>3, <1>6, <1>7

(* The window that starts last at or before sample k, or entry i itself.   *)
LEMMA InvariantBoundaries == IInv => BoundariesCovered
  <1> SUFFICES ASSUME IInv, NEW i \in DOMAIN entries,
                      NEW k \in 0..(entries[i].end - Slide)
               PROVE  \E j \in DOMAIN entries :
                        entries[j].start <= k /\ k + Slide <= entries[j].end
    BY DEF BoundariesCovered
  <1> DEFINE a == (i - 1) * Slide
             q == k \div Slide
             b == q * Slide
  <1>1. DOMAIN entries = 1..Len(entries) /\ Len(entries) \in Nat
    BY DEF IInv, Types
  <1>2. i - 1 \in Nat /\ i \in 1..Len(entries) /\ entries[i].start = a /\ entries[i].end = a + Window
    BY <1>1, EntryOf DEF Entry
  <1>3. a \in Nat
    <2>1. \A x \in Nat, y \in Nat : x * y \in Nat
      BY SMT
    <2> QED BY <1>2, <2>1, Sizes
  <1>4. k \in Nat /\ k + Slide <= a + Window
    <2> DEFINE end == entries[i].end
    <2>1. k \in 0..(end - Slide) /\ end = a + Window
      BY <1>2
    <2> HIDE DEF a, end
    <2> QED BY <2>1, <1>3, Sizes, SMT
  <1>5. q \in Nat /\ b \in Nat /\ b <= k /\ k < b + Slide
    BY <1>4, Sizes, SMT
  <1>6. CASE a <= k
    BY <1>2, <1>4, <1>6
  <1>7. CASE k < a
    <2>1. q < i - 1
      <3> DEFINE n == i - 1
      <3>1. n \in Nat /\ b < n * Slide
        <4> HIDE DEF b, q
        <4> QED BY <1>2, <1>3, <1>5, <1>7, <1>4, SMT
      <3> HIDE DEF n, q
      <3>2. CASE q >= n
        <4>1. q * Slide >= n * Slide
          BY <1>5, <3>1, <3>2, Sizes, SMT
        <4>2. q * Slide \in Int /\ n * Slide \in Int
          BY <1>5, <3>1, Sizes, SMT
        <4> QED BY <3>1, <4>1, <4>2, SMT
      <3> QED BY <1>5, <3>1, <3>2, SMT DEF n
    <2> DEFINE j == q + 1
    <2>2. j \in 1..Len(entries) /\ j - 1 = q
      <3> HIDE DEF q
      <3> QED BY <1>1, <1>2, <1>5, <2>1, SMT
    <2>3. entries[j].start = b /\ entries[j].end = b + Window
      <3>1. entries[j] = Entry(q)
        BY <1>1, <2>2, EntryOf
      <3> QED BY <3>1 DEF Entry
    <2>4. k + Slide <= b + Window
      <3> HIDE DEF b, q
      <3> QED BY <1>4, <1>5, Sizes, SMT
    <2> QED BY <1>1, <1>5, <2>2, <2>3, <2>4
  <1>8. a <= k \/ k < a
    <2> HIDE DEF a
    <2> QED BY <1>3, <1>4, SMT
  <1> QED BY <1>6, <1>7, <1>8

-----------------------------------------------------------------------------
(* The invariant holds in every state of consumer_func.                    *)
THEOREM Invariance == Spec => []IInv
  <1>1. Init => IInv
    BY InitInvariant
  <1>2. IInv /\ [Next]_vars => IInv'
    BY StepInvariant
  <1> QED BY <1>1, <1>2, PTL DEF Spec

(* Whatever the message, windows are whole, they end within the samples,   *)
(* and the nanos of a point are below a second.                            *)
THEOREM TypeCorrect == Spec => []TypeOK
  BY Invariance, InvariantTypes, PTL

(* For every time, _dateTimeToTimestamp and proto_to_timestamp_int keep    *)
(* the second of a reading.                                                *)
THEOREM SecondsSurvive == Spec => []SecondsKept
  BY Invariance, InvariantSeconds, PTL

(* For every time, proto_to_timestamp_int inverts point_result_to_record.  *)
THEOREM PointTimesSurvive == Spec => []PointTimesReadBack
  BY Invariance, InvariantReadBack, PTL

(* interpolate and get_point_raw_inputs extrapolate no position.           *)
THEOREM PositionsCorrect == Spec => []PositionsMeasured
  BY Invariance, InvariantPositions, PTL

(* The second stored for a point is one in which every series measured.    *)
THEOREM PointSecondsCorrect == Spec => []PointSecondsMeasured
  BY Invariance, InvariantPointSeconds, PTL

(* The overlap of get_point_raw_inputs leaves no boundary uncovered.       *)
THEOREM BoundariesCorrect == Spec => []BoundariesCovered
  BY Invariance, InvariantBoundaries, PTL

(* calculate_speed never leaves the initial 0 in an entry, nor takes a     *)
(* speed from a position that was not measured.                            *)
THEOREM SpeedsCorrect == Spec => []SpeedMeasured
  BY Invariance, InvariantSpeeds, PTL

(* harmonise_prediction labels an entry with the road of its own window.   *)
THEOREM LabelsCorrect == Spec => []LabelsInWindow
  BY Invariance, InvariantLabels, PTL
=============================================================================
