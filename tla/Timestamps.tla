----------------------------- MODULE Timestamps -----------------------------
(***************************************************************************)
(* The conversions of time on its way from the phone to the table.  Times  *)
(* are microseconds since the epoch, the resolution of the phone's clock;  *)
(* a Timestamp has seconds and nanos.                                      *)
(***************************************************************************)
EXTENDS Integers

Thousand == 1000
Second == Thousand * Thousand   \* in microseconds

MillisecondsSinceEpoch(t) == t \div Thousand
Microsecond(t) == t % Thousand      \* of a DateTime: the part below a millisecond

(* _dateTimeToTimestamp of sensors_network_impl.dart.                      *)
ToTimestampRounded(t) ==        \* a bug: rounds to the nearest second
  [seconds |-> (MillisecondsSinceEpoch(t) + 500) \div Thousand,
   nanos |-> (Microsecond(t) % Second) * Thousand]

ToTimestamp(t) ==
  [seconds |-> MillisecondsSinceEpoch(t) \div Thousand,
   nanos |-> (Microsecond(t) % Second) * Thousand]

(* proto_to_timestamp_int of guessr.                                       *)
FromTimestamp(stamp) == stamp.seconds * Second + stamp.nanos

(* point_result_to_record of guessr.                                       *)
ToPointTime(t) == [seconds |-> t \div Second, nanos |-> t % Second]
=============================================================================
