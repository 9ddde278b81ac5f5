------------------------------- MODULE Windows -------------------------------
(***************************************************************************)
(* One message in guessr: the times of its readings, as the phone measured *)
(* them and as guessr reads them, are resampled at a fixed rate and cut    *)
(* into overlapping windows, each with the position a prediction is for    *)
(* (consumer_func of guessr/src/main.py, with guessr/src/interpolation.py).*)
(*                                                                         *)
(* A series of readings is the time of its first and of its last reading;  *)
(* values and predictions are left out.  slide is one half.                *)
(***************************************************************************)
EXTENDS Timestamps, FiniteSetsExt, Sequences

CONSTANTS
  Tick,     \* time between two samples
  Window,   \* samples of a window
  Starts,   \* times of first readings
  Ends,     \* times of last readings
  None

ASSUME TickAssumption == Tick \in Nat \ {0}
ASSUME WindowAssumption == Window \in Nat \ {0} /\ Window % 2 = 0
ASSUME TimesAssumption == Starts \subseteq Nat /\ Ends \subseteq Nat

Series == {"accelerometer", "gyroscope", "gps"}
Slide == Window \div 2            \* int(window * slide)
GpsPeriod == Tick * Slide         \* int(tick * window * slide)
GpsOffset == GpsPeriod \div 2     \* int(tick * window * slide / 2)

VARIABLES
  measured,  \* for a series, its first and last time on the phone, or None
  readings,  \* the same in guessr
  pc,        \* where consumer_func is
  minTime, maxTime,
  total,     \* number of samples
  gpsTotal,  \* number of interpolated positions
  entries,   \* the windows: first sample, sample after the last, time of the
             \*   position
  points     \* the Timestamps of the points predicted

tableVars == <<minTime, maxTime, total, gpsTotal>>
vars == <<measured, readings, pc, tableVars, entries, points>>

Spans(F, L) == {m \in [first : F, last : L] : m.first <= m.last}
NoReadings == [s \in Series |-> None]

Init ==
  /\ measured \in [Series -> Spans(Starts, Ends) \cup {None}]
  /\ readings = NoReadings
  /\ pc = "sent"
  /\ minTime = 0 /\ maxTime = 0 /\ total = 0 /\ gpsTotal = 0
  /\ entries = <<>> /\ points = <<>>

-----------------------------------------------------------------------------
(* The time of a reading as guessr reads it from the message of the phone. *)
Received(t) == FromTimestamp(ToTimestamp(t))

(* get_raw_filtered_inputs.                                                *)
Parse ==
  /\ pc = "sent" /\ pc' = "parsed"
  /\ readings' = [s \in Series |->
       IF measured[s] = None THEN None
       ELSE [first |-> Received(measured[s].first), last |-> Received(measured[s].last)]]
  /\ UNCHANGED <<measured, tableVars, entries, points>>

(* Length of np.arange(from, to, step).                                    *)
ArangeLength(from, to, step) ==
  IF to <= from THEN 0 ELSE (to - from + step - 1) \div step

(* iloc[0] of an empty series raises, and consumer_func returns False.     *)
SeriesIsEmpty ==
  /\ pc = "parsed" /\ \E s \in Series : readings[s] = None
  /\ pc' = "failed"
  /\ UNCHANGED <<measured, readings, tableVars, entries, points>>

Interpolate ==
  /\ pc = "parsed" /\ \A s \in Series : readings[s] # None
  /\ pc' = "cutting"
  /\ minTime' = Max({readings[s].first : s \in Series})
  /\ maxTime' = Min({readings[s].last : s \in Series})
  /\ total' = ArangeLength(minTime', maxTime', Tick)
  /\ gpsTotal' = ArangeLength(minTime' + GpsOffset, maxTime' + GpsOffset, GpsPeriod)
  /\ UNCHANGED <<measured, readings, entries, points>>

(* The entry that get_point_raw_inputs makes of position i, from 0.        *)
EntryRelative(i) ==             \* a bug: the time starts at the message
  [start |-> i * Slide, end |-> i * Slide + Window,
   time |-> GpsOffset + i * GpsPeriod]

Entry(i) ==
  [start |-> i * Slide, end |-> i * Slide + Window,
   time |-> minTime + GpsOffset + i * GpsPeriod]

(* The windows become entries while they end before the last sample.       *)
FitsLoosely(e) == e.start < total   \* a bug: a window may be cut short

Fits(e) == e.end < total

Cut ==
  /\ pc = "cutting" /\ Len(entries) < gpsTotal /\ Fits(Entry(Len(entries)))
  /\ entries' = Append(entries, Entry(Len(entries)))
  /\ UNCHANGED <<measured, readings, pc, tableVars, points>>

(* The break, or the end of the loop: the windows are predicted, and each  *)
(* point has the time of its position.                                     *)
Predict ==
  /\ pc = "cutting"
  /\ Len(entries) = gpsTotal \/ ~Fits(Entry(Len(entries)))
  /\ pc' = "predicted"
  /\ points' = [i \in DOMAIN entries |-> ToPointTime(entries[i].time)]
  /\ UNCHANGED <<measured, readings, tableVars, entries>>

(* calculate_speed: the positions that the speed of an entry is taken      *)
(* between, which for the first are those of the second; a speed without   *)
(* positions is the initial 0.                                             *)
SpeedSpanUnfilled(i) ==         \* a bug: the first keeps its initial 0
  IF i = 0 THEN <<>> ELSE <<i - 1, i>>

SpeedSpan(i) ==
  IF i > 0 THEN <<i - 1, i>> ELSE IF gpsTotal > 1 THEN <<0, 1>> ELSE <<>>

(* harmonise_prediction of pvs_points.ipynb, which cuts a drive of the     *)
(* dataset as guessr cuts a message: the time whose road the label of an   *)
(* entry averages.                                                         *)
LabelSpanOfSlides(i) ==         \* a bug: whole slides about the position
  [from |-> Entry(i).time - GpsPeriod, to |-> Entry(i).time + GpsPeriod]

LabelSpan(i) ==
  [from |-> Entry(i).time - GpsOffset, to |-> Entry(i).time + GpsOffset]

Next == Parse \/ SeriesIsEmpty \/ Interpolate \/ Cut \/ Predict

Spec == Init /\ [][Next]_vars

-----------------------------------------------------------------------------
Stamps == [seconds : Nat, nanos : Nat]

(* Every variable keeps its type, a point's nanos (of microseconds) are    *)
(* below a second, and every window is whole: the features have a fixed    *)
(* size.                                                                   *)
TypeOK ==
  /\ measured \in [Series -> Spans(Starts, Ends) \cup {None}]
  /\ readings \in [Series -> [first : Nat, last : Nat] \cup {None}]
  /\ pc \in {"sent", "parsed", "failed", "cutting", "predicted"}
  /\ {minTime, maxTime, total, gpsTotal} \subseteq Nat
  /\ Len(entries) <= gpsTotal
  /\ \A i \in DOMAIN entries :
       /\ {entries[i].start, entries[i].end, entries[i].time} \subseteq Nat
       /\ entries[i].end - entries[i].start = Window /\ entries[i].end <= total
  /\ \A i \in DOMAIN points : points[i] \in Stamps /\ points[i].nanos < Second

(* guessr sees each reading in the second in which it was taken, though it *)
(* takes nanoseconds for microseconds.                                     *)
SecondsKept ==
  \A s \in Series : readings[s] # None =>
    /\ readings[s].first \div Second = measured[s].first \div Second
    /\ readings[s].last \div Second = measured[s].last \div Second

(* What guessr gives a point it would read back as the time of its         *)
(* position, so that the mistaken unit is the same on both of its sides.   *)
PointTimesReadBack ==
  \A i \in DOMAIN points : FromTimestamp(points[i]) = entries[i].time

(* The second stored for a point is one in which all series were measured. *)
PointSecondsMeasured ==
  \A i \in DOMAIN points, s \in Series :
    /\ measured[s].first \div Second <= points[i].seconds
    /\ points[i].seconds <= measured[s].last \div Second

SampleTime(k) == minTime + k * Tick

(* A prediction is for a position between the first and the last sample of *)
(* its window, and one that all series of the message had measured: no     *)
(* position is extrapolated.                                               *)
PositionsMeasured ==
  \A i \in DOMAIN entries :
    LET e == entries[i]
    IN /\ SampleTime(e.start) <= e.time /\ e.time <= SampleTime(e.end - 1)
       /\ \A s \in Series : readings[s].first <= e.time /\ e.time <= readings[s].last

PositionTime(p) == minTime + GpsOffset + p * GpsPeriod

(* The speed of an entry, a feature of its prediction, is never the        *)
(* initial 0: it is taken between two successive positions that all series *)
(* of the message had measured, of which its own is one.                   *)
SpeedMeasured ==
  \A i \in DOMAIN entries :
    LET span == SpeedSpan(i - 1)
    IN /\ span # <<>> /\ span[2] = span[1] + 1 /\ i - 1 \in {span[1], span[2]}
       /\ \A s \in Series : /\ readings[s].first <= PositionTime(span[1])
                           /\ PositionTime(span[2]) <= readings[s].last

(* An entry that a model is trained on is labelled with the road of its    *)
(* own window, and no road counts in two labels but at their border.       *)
LabelsInWindow ==
  \A i \in DOMAIN entries :
    LET span == LabelSpan(i - 1)
    IN /\ SampleTime(entries[i].start) <= span.from
       /\ span.to <= SampleTime(entries[i].end - 1)
       /\ \A j \in DOMAIN entries : i < j => span.to <= LabelSpan(j - 1).from

(* Half a window of samples, wherever it lies before the end of the last   *)
(* window, is inside a window: no defect is missed at a boundary.          *)
BoundariesCovered ==
  \A i \in DOMAIN entries : \A k \in 0..(entries[i].end - Slide) :
    \E j \in DOMAIN entries : entries[j].start <= k /\ k + Slide <= entries[j].end
=============================================================================
