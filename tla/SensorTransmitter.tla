-------------------------- MODULE SensorTransmitter --------------------------
(***************************************************************************)
(* mobile/lib/state/sensor_transmitter.dart, driven by the providers of    *)
(* app/app.dart: sensors notify when they have a new reading, the next     *)
(* frame hands the newest reading of every sensor to the transmitter, and  *)
(* a GPS reading decides when the buffered readings are transmitted.       *)
(*                                                                         *)
(* A reading is the time at which it was taken, time counts the readings   *)
(* of all sensors, and 0 stands for no reading and no time (null).         *)
(***************************************************************************)
EXTENDS Naturals, Sequences, SequencesExt

CONSTANTS
  Durations,    \* values of networkBufferTimeSeconds
  MaxReadings   \* bound on the readings of all sensors together

ASSUME DurationsAssumption == Durations # {} /\ Durations \subseteq Nat
ASSUME ReadingsAssumption == MaxReadings \in Nat

Sensors == {"accelerometer", "gyroscope", "gps"}
Readings == 1..MaxReadings

VARIABLES
  clock,       \* time, the number of readings taken so far
  record,      \* for a sensor, its newest reading
  setting,     \* networkBufferTimeSeconds of the configuration
  dirty,       \* a provider has notified since the last frame
  duration,    \* _duration
  buffer,      \* for a sensor, the readings buffered
  lastUpdate,  \* _lastUpdate
  pages,       \* history: buffers reset, and whether they were transmitted
  seen         \* history: readings that a frame handed over

vars == <<clock, record, setting, dirty, duration, buffer, lastUpdate, pages, seen>>

Empty == [s \in Sensors |-> <<>>]

Init ==
  /\ clock = 0 /\ record = [s \in Sensors |-> 0]
  /\ setting \in Durations /\ duration \in Durations
  /\ dirty = FALSE
  /\ buffer = Empty /\ lastUpdate = 0
  /\ pages = <<>> /\ seen = {}

-----------------------------------------------------------------------------
(* The listeners of the sensor streams.                                    *)
TakeReading(s) ==
  /\ clock < MaxReadings /\ clock' = clock + 1
  /\ record' = [record EXCEPT ![s] = clock']
  /\ dirty' = TRUE
  /\ UNCHANGED <<setting, duration, buffer, lastUpdate, pages, seen>>

SetBufferTime(d) ==
  /\ d # setting /\ setting' = d
  /\ dirty' = TRUE
  /\ UNCHANGED <<clock, record, duration, buffer, lastUpdate, pages, seen>>

IsNewOnce(s) ==                 \* a bug: an old reading never opens a buffer
  record[s] # 0 /\ record[s] \notin seen

(* A sensor without a reading, and one whose newest reading is the last of *)
(* its buffer, add nothing.                                                *)
IsNew(s) == record[s] # 0 /\ (buffer[s] # <<>> => record[s] # Last(buffer[s]))

(* The buffer after appendAccelerometer, appendGyroscope and the first     *)
(* part of appendGps.                                                      *)
Appended ==
  [s \in Sensors |-> IF IsNew(s) THEN Append(buffer[s], record[s]) ELSE buffer[s]]

IsDue ==
  IsNew("gps") /\ (lastUpdate = 0 \/ record["gps"] - lastUpdate > duration')

(* updateConfiguration, and what every frame does.                         *)
Frame ==
  /\ dirty /\ dirty' = FALSE
  /\ duration' = setting
  /\ seen' = seen \cup ({record[s] : s \in Sensors} \ {0})
  /\ UNCHANGED <<clock, record, setting>>

SentIfWhole(readings) ==
  [readings |-> readings, sent |-> \A s \in Sensors : readings[s] # <<>>]

FlushKeepsBuffer ==             \* a bug: the buffers are not reset
  /\ pages' = Append(pages, SentIfWhole(Appended))
  /\ buffer' = Appended /\ lastUpdate' = record["gps"]

FlushBeforeAppending ==         \* a bug: this frame's readings miss the buffer
  /\ pages' = Append(pages, SentIfWhole(buffer))
  /\ buffer' = [Empty EXCEPT !["gps"] = <<record["gps"]>>]
  /\ lastUpdate' = record["gps"]

(* Lines 74-82: a buffer with readings of every sensor is transmitted, any *)
(* other is dropped, and a new one starts with the newest GPS reading.     *)
(* transmitSensorRecords then sends or stores what it is given.            *)
Flush ==
  /\ pages' = Append(pages, SentIfWhole(Appended))
  /\ buffer' = [Empty EXCEPT !["gps"] = <<record["gps"]>>]
  /\ lastUpdate' = record["gps"]

FrameBuffers ==
  /\ Frame /\ ~IsDue
  /\ buffer' = Appended
  /\ UNCHANGED <<lastUpdate, pages>>

FrameFlushes == Frame /\ IsDue /\ Flush

Next ==
  \/ \E s \in Sensors : TakeReading(s)
  \/ \E d \in Durations : SetBufferTime(d)
  \/ FrameBuffers \/ FrameFlushes

Spec == Init /\ [][Next]_vars

-----------------------------------------------------------------------------
(* Every variable keeps its type, and the buffer starts with the GPS       *)
(* reading of the last update.                                             *)
TypeOK ==
  /\ clock \in 0..MaxReadings
  /\ record \in [Sensors -> 0..clock]
  /\ setting \in Durations /\ duration \in Durations /\ dirty \in BOOLEAN
  /\ buffer \in [Sensors -> Seq(Readings)]
  /\ IF buffer["gps"] = <<>> THEN lastUpdate = 0 ELSE lastUpdate = Head(buffer["gps"])
  /\ \A i \in DOMAIN pages : pages[i].readings \in [Sensors -> Seq(Readings)]
  /\ seen \subseteq Readings

(* The buffers of a sensor, oldest first, the present one included.        *)
Buffers(s) ==
  Append([i \in DOMAIN pages |-> pages[i].readings[s]], buffer[s])

(* Readings stay in order across buffers, and one is in two buffers only   *)
(* as the last of the one and the first of the next.                       *)
SharedAtEdges ==
  \A s \in Sensors :
    LET bs == Buffers(s)
    IN \A i, j \in DOMAIN bs : \A m \in DOMAIN bs[i], n \in DOMAIN bs[j] :
         /\ i = j /\ m < n => bs[i][m] < bs[j][n]
         /\ i < j => \/ bs[i][m] < bs[j][n]
                     \/ bs[i][m] = bs[j][n] /\ m = Len(bs[i]) /\ n = 1

(* No reading that a frame handed over is lost between the buffers.        *)
SeenIsBuffered ==
  seen = UNION {ToSet(Buffers(s)[i]) : s \in Sensors, i \in 1..(Len(pages) + 1)}

(* Once every sensor has given a reading no buffer is thrown away: the     *)
(* newest reading of a silent sensor is handed over again by every frame.  *)
DropsOnlyBeforeSending ==
  \A i, j \in DOMAIN pages : i < j /\ pages[i].sent => pages[j].sent
=============================================================================
