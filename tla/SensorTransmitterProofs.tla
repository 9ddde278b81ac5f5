------------------------ MODULE SensorTransmitterProofs ------------------------
(***************************************************************************)
(* For any number of readings and any buffer times: the buffers of a       *)
(* sensor share readings only at their edges, no reading a frame handed    *)
(* over is lost between them, and no buffer is dropped once one was sent.  *)
(*                                                                         *)
(* None of these is inductive: that a new reading goes behind those of the *)
(* buffer holds because no buffer is ahead of the sensor, and that every   *)
(* buffer after one that was sent is whole, because a sensor that has      *)
(* given a reading goes on handing over its newest one.                    *)
(***************************************************************************)
EXTENDS SensorTransmitter, TLAPS

Page == [readings : [Sensors -> Seq(Readings)], sent : BOOLEAN]

BuffersOf(ps, b, s) == Append([i \in DOMAIN ps |-> ps[i].readings[s]], b)

(* What SharedAtEdges says of one sensor. *)
Ordered(bs) ==
  \A i, j \in DOMAIN bs : \A m \in DOMAIN bs[i], n \in DOMAIN bs[j] :
    /\ i = j /\ m < n => bs[i][m] < bs[j][n]
    /\ i < j => \/ bs[i][m] < bs[j][n]
                \/ bs[i][m] = bs[j][n] /\ m = Len(bs[i]) /\ n = 1

UpTo(bs, r) == \A i \in DOMAIN bs : \A m \in DOMAIN bs[i] : bs[i][m] <= r

Held(ps, bf) ==
  {x \in Readings : \E s \in Sensors :
     \/ \E i \in DOMAIN ps : \E m \in DOMAIN ps[i].readings[s] : x = ps[i].readings[s][m]
     \/ \E m \in DOMAIN bf[s] : x = bf[s][m]}

Types ==
  /\ clock \in 0..MaxReadings /\ record \in [Sensors -> 0..MaxReadings]
  /\ \A s \in Sensors : record[s] <= clock
  /\ buffer \in [Sensors -> Seq(Readings)] /\ pages \in Seq(Page)

Behind == \A s \in Sensors : Ordered(Buffers(s)) /\ UpTo(Buffers(s), record[s])

SentHasRecords ==
  \A i \in DOMAIN pages : pages[i].sent => \A s \in Sensors : record[s] # 0

IInv ==
  /\ Types /\ Behind /\ seen = Held(pages, buffer)
  /\ SentHasRecords /\ DropsOnlyBeforeSending

USE ReadingsAssumption, DurationsAssumption

-----------------------------------------------------------------------------
(* The buffers of a sensor: those of the pages, and the present one.       *)
LEMMA BuffersShape ==
  ASSUME NEW ps \in Seq(Page), NEW b \in Seq(Readings), NEW s \in Sensors
  PROVE  /\ BuffersOf(ps, b, s) \in Seq(Seq(Readings))
         /\ DOMAIN BuffersOf(ps, b, s) = 1..(Len(ps) + 1)
         /\ \A i \in 1..Len(ps) :
              /\ BuffersOf(ps, b, s)[i] = ps[i].readings[s]
              /\ ps[i].readings[s] \in Seq(Readings)
         /\ BuffersOf(ps, b, s)[Len(ps) + 1] = b
  <1> DEFINE f == [i \in DOMAIN ps |-> ps[i].readings[s]]
  <1>1. \A i \in DOMAIN ps : ps[i].readings[s] \in Seq(Readings)
    <2> TAKE i \in DOMAIN ps
    <2>1. ps[i] \in Page
      OBVIOUS
    <2>2. ps[i].readings \in [Sensors -> Seq(Readings)]
      BY <2>1 DEF Page
    <2> QED BY <2>2
  <1>2. f \in Seq(Seq(Readings)) /\ Len(f) = Len(ps) /\ DOMAIN ps = 1..Len(ps)
    BY <1>1
  <1>3. \A i \in 1..Len(ps) : f[i] = ps[i].readings[s]
    BY <1>2
  <1> HIDE DEF f
  <1>4. /\ Append(f, b) \in Seq(Seq(Readings))
        /\ DOMAIN Append(f, b) = 1..(Len(ps) + 1)
        /\ \A i \in 1..Len(ps) : Append(f, b)[i] = f[i]
        /\ Append(f, b)[Len(ps) + 1] = b
    BY <1>2
  <1> QED BY <1>1, <1>2, <1>3, <1>4 DEF BuffersOf, f

(* A reading that is newer than the last one of the buffer goes behind it. *)
Grows(k, old, new, r) ==
  /\ k \in Nat \ {0} /\ r \in Nat
  /\ old \in [1..k -> Seq(Nat)] /\ new \in [1..k -> Seq(Nat)]
  /\ \A i \in 1..k : i # k => new[i] = old[i]
  /\ new[k] = Append(old[k], r)
  /\ old[k] # <<>> => r # old[k][Len(old[k])]

LEMMA GrowsOrdered ==
  ASSUME NEW k, NEW old, NEW new, NEW r, Grows(k, old, new, r), Ordered(old), UpTo(old, r)
  PROVE  Ordered(new) /\ UpTo(new, r)
  <1> DEFINE l == Len(old[k]) + 1
  <1>0. /\ DOMAIN old = 1..k /\ DOMAIN new = 1..k /\ k \in Nat /\ r \in Nat
        /\ \A i \in 1..k : i # k => new[i] = old[i]
    BY DEF Grows
  <1>1. /\ l \in Nat /\ l # 0 /\ k \in 1..k
        /\ \A i \in 1..k : Len(old[i]) \in Nat /\ DOMAIN old[i] = 1..Len(old[i])
        /\ \A i \in 1..k : \A m \in 1..Len(old[i]) : old[i][m] \in Nat
    <2>1. ASSUME NEW i \in 1..k
          PROVE  /\ Len(old[i]) \in Nat /\ DOMAIN old[i] = 1..Len(old[i])
                 /\ \A m \in 1..Len(old[i]) : old[i][m] \in Nat
      <3>1. old[i] \in Seq(Nat)
        BY DEF Grows
      <3> QED BY <3>1
    <2>2. k \in Nat \ {0}
      BY DEF Grows
    <2> QED BY <2>1, <2>2
  <1>2. \A i \in 1..k : \A m \in 1..Len(old[i]) : old[i][m] <= r
    BY <1>0, <1>1 DEF UpTo
  <1>3. /\ DOMAIN old[k] = 1..(l - 1) /\ DOMAIN new[k] = 1..l /\ new[k][l] = r
        /\ \A m \in 1..(l - 1) : new[k][m] = old[k][m]
        /\ l # 1 => r # old[k][l - 1]
        /\ l - 1 = Len(old[k])
    BY DEF Grows
  <1>4. \A i \in 1..k : \A m, n \in 1..Len(old[i]) : m < n => old[i][m] < old[i][n]
    BY <1>0, <1>1 DEF Ordered
  <1>5. \A i, j \in 1..k : \A m \in 1..Len(old[i]), n \in 1..Len(old[j]) :
          i < j => \/ old[i][m] < old[j][n]
                   \/ old[i][m] = old[j][n] /\ m = Len(old[i]) /\ n = 1
    BY <1>0, <1>1 DEF Ordered
  <1> HIDE DEF l
  <1>6. \A m \in 1..(l - 1) : old[k][m] < r
    <2> TAKE m \in 1..(l - 1)
    <2>1. l - 1 = Len(old[k]) /\ l - 1 \in 1..Len(old[k]) /\ m \in 1..Len(old[k]) /\ l # 1
      BY <1>1, <1>3
    <2>2. m < l - 1 => old[k][m] < old[k][l - 1]
      BY <1>0, <1>1, <1>4, <2>1
    <2>3. old[k][l - 1] <= r /\ old[k][l - 1] \in Nat
      BY <1>0, <1>1, <1>2, <2>1
    <2>4. old[k][l - 1] # r
      BY <1>3, <1>1, <2>1
    <2>5. m = l - 1 \/ m < l - 1
      BY <1>0, <1>1
    <2> QED BY <2>2, <2>3, <2>4, <2>5, <1>0, <1>1, <2>1
  <1>7. ASSUME NEW i \in 1..k, i # k, NEW m \in 1..Len(old[i])
        PROVE  old[i][m] < r \/ (old[i][m] = r /\ m = Len(old[i]) /\ l = 1)
    <2>1. old[i][m] \in Nat /\ old[i][m] <= r /\ i < k
      BY <1>0, <1>1, <1>2, <1>7
    <2>2. CASE l # 1
      <3>1. 1 \in 1..(l - 1) /\ 1 \in 1..Len(old[k]) /\ old[k][1] < r /\ old[k][1] \in Nat
        <4>1. 1 \in 1..(l - 1) /\ 1 \in 1..Len(old[k])
          BY <1>1, <1>3, <2>2
        <4> QED BY <1>1, <1>6, <4>1
      <3>2. old[i][m] <= old[k][1]
        BY <1>0, <1>1, <1>5, <2>1, <3>1
      <3> QED BY <1>0, <2>1, <3>1, <3>2
    <2>3. CASE l = 1
      <3>1. Len(old[i]) \in 1..Len(old[i]) /\ m \in 1..Len(old[i]) /\ Len(old[i]) \in Nat
        BY <1>0, <1>1, <1>7
      <3>2. m < Len(old[i]) => old[i][m] < old[i][Len(old[i])]
        BY <1>0, <1>4, <3>1
      <3>3. old[i][Len(old[i])] <= r /\ old[i][Len(old[i])] \in Nat
        BY <1>0, <1>1, <1>2, <3>1
      <3> QED BY <1>0, <2>1, <2>3, <3>1, <3>2, <3>3
    <2> QED BY <2>2, <2>3
  <1>8. UpTo(new, r)
    <2> SUFFICES ASSUME NEW i \in 1..k, NEW m \in DOMAIN new[i] PROVE new[i][m] <= r
      BY <1>0 DEF UpTo
    <2>1. CASE i = k
      BY <1>0, <1>1, <1>3, <1>6, <2>1
    <2>2. CASE i # k
      BY <1>0, <1>1, <1>2, <2>2
    <2> QED BY <2>1, <2>2
  <1>9. Ordered(new)
    <2> SUFFICES ASSUME NEW i \in 1..k, NEW j \in 1..k, NEW m \in DOMAIN new[i],
                        NEW n \in DOMAIN new[j]
                 PROVE  /\ i = j /\ m < n => new[i][m] < new[j][n]
                        /\ i < j => \/ new[i][m] < new[j][n]
                                    \/ new[i][m] = new[j][n] /\ m = Len(new[i]) /\ n = 1
      BY <1>0 DEF Ordered
    <2>1. CASE i # k /\ j # k
      <3>1. /\ new[i] = old[i] /\ new[j] = old[j]
            /\ m \in 1..Len(old[i]) /\ n \in 1..Len(old[j])
        BY <1>0, <1>1, <2>1
      <3>2. i = j /\ m < n => old[i][m] < old[j][n]
        BY <1>4, <3>1
      <3> QED BY <1>5, <3>1, <3>2
    <2>2. CASE i = k /\ j # k
      BY <1>0, <1>1, <2>2
    <2>3. CASE j = k /\ i # k /\ n = l
      BY <1>0, <1>1, <1>3, <1>7, <2>3
    <2>4. CASE j = k /\ i # k /\ n # l
      <3>1. n \in 1..(l - 1) /\ new[j][n] = old[j][n] /\ new[i] = old[i]
        BY <1>0, <1>1, <1>3, <2>4
      <3>2. m \in 1..Len(old[i]) /\ n \in 1..Len(old[k])
        BY <1>1, <1>3, <3>1
      <3>3. i < k => \/ old[i][m] < old[k][n]
                     \/ old[i][m] = old[k][n] /\ m = Len(old[i]) /\ n = 1
        BY <1>1, <1>5, <3>2
      <3> QED BY <2>4, <3>1, <3>3
    <2>5. CASE j = k /\ i = k
      <3>1. m \in 1..l /\ n \in 1..l
        BY <1>0, <1>1, <1>3, <2>5
      <3>2. CASE n = l
        BY <1>0, <1>1, <1>3, <1>6, <2>5, <3>1, <3>2
      <3>3. CASE n # l
        <4>1. n \in 1..(l - 1) /\ (m < n => m \in 1..(l - 1))
          BY <1>0, <1>1, <3>1, <3>3
        <4> QED BY <1>0, <1>1, <1>3, <1>4, <1>3, <2>5, <4>1
      <3> QED BY <3>2, <3>3
    <2> QED BY <2>1, <2>2, <2>3, <2>4, <2>5
  <1> QED BY <1>8, <1>9

(* A new buffer is empty, or starts with the newest reading of the old.    *)
Starts(k, old, new, r) ==
  /\ k \in Nat /\ r \in Nat
  /\ old \in [1..k -> Seq(Nat)] /\ new \in [1..(k + 1) -> Seq(Nat)]
  /\ \A i \in 1..k : new[i] = old[i]
  /\ new[k + 1] = <<>> \/ new[k + 1] = <<r>>

LEMMA FlushOrdered ==
  ASSUME NEW k, NEW old, NEW new, NEW r, Starts(k, old, new, r), Ordered(old), UpTo(old, r)
  PROVE  Ordered(new) /\ UpTo(new, r)
  <1>0. /\ DOMAIN old = 1..k /\ DOMAIN new = 1..(k + 1) /\ k \in Nat /\ r \in Nat
        /\ \A i \in 1..k : new[i] = old[i]
    BY DEF Starts
  <1>1. \A i \in 1..k : /\ Len(old[i]) \in Nat /\ DOMAIN old[i] = 1..Len(old[i])
                        /\ \A m \in 1..Len(old[i]) : old[i][m] \in Nat
    <2> TAKE i \in 1..k
    <2>1. old[i] \in Seq(Nat)
      BY DEF Starts
    <2> QED BY <2>1
  <1>2. \A i \in 1..k : \A m \in 1..Len(old[i]) : old[i][m] <= r
    BY <1>0, <1>1 DEF UpTo
  <1>3. \A m \in DOMAIN new[k + 1] : m = 1 /\ new[k + 1][m] = r
    BY DEF Starts
  <1>4. \A i \in 1..k : \A m, n \in 1..Len(old[i]) : m < n => old[i][m] < old[i][n]
    BY <1>0, <1>1 DEF Ordered
  <1>5. \A i, j \in 1..k : \A m \in 1..Len(old[i]), n \in 1..Len(old[j]) :
          i < j => \/ old[i][m] < old[j][n]
                   \/ old[i][m] = old[j][n] /\ m = Len(old[i]) /\ n = 1
    BY <1>0, <1>1 DEF Ordered
  <1>6. \A i \in 1..k : \A m \in 1..Len(old[i]) : old[i][m] < r \/ (old[i][m] = r /\ m = Len(old[i]))
    <2> TAKE i \in 1..k
    <2> TAKE m \in 1..Len(old[i])
    <2>1. Len(old[i]) \in 1..Len(old[i]) /\ Len(old[i]) \in Nat
      BY <1>0, <1>1
    <2>2. m < Len(old[i]) => old[i][m] < old[i][Len(old[i])]
      BY <1>4, <2>1
    <2>3. old[i][Len(old[i])] <= r /\ old[i][Len(old[i])] \in Nat /\ old[i][m] <= r /\ old[i][m] \in Nat
      BY <1>0, <1>1, <1>2, <2>1
    <2> QED BY <1>0, <1>1, <2>1, <2>2, <2>3
  <1>7. UpTo(new, r)
    <2> SUFFICES ASSUME NEW i \in 1..(k + 1), NEW m \in DOMAIN new[i] PROVE new[i][m] <= r
      BY <1>0 DEF UpTo
    <2>1. CASE i = k + 1
      BY <1>0, <1>3, <2>1
    <2>2. CASE i # k + 1
      <3>1. i \in 1..k
        BY <1>0, <2>2
      <3> QED BY <1>0, <1>1, <1>2, <3>1
    <2> QED BY <2>1, <2>2
  <1>8. Ordered(new)
    <2> SUFFICES ASSUME NEW i \in 1..(k + 1), NEW j \in 1..(k + 1), NEW m \in DOMAIN new[i],
                        NEW n \in DOMAIN new[j]
                 PROVE  /\ i = j /\ m < n => new[i][m] < new[j][n]
                        /\ i < j => \/ new[i][m] < new[j][n]
                                    \/ new[i][m] = new[j][n] /\ m = Len(new[i]) /\ n = 1
      BY <1>0 DEF Ordered
    <2>1. CASE i # k + 1 /\ j # k + 1
      <3>1. i \in 1..k /\ j \in 1..k
        BY <1>0, <2>1
      <3>2. /\ new[i] = old[i] /\ new[j] = old[j]
            /\ m \in 1..Len(old[i]) /\ n \in 1..Len(old[j])
        BY <1>0, <1>1, <3>1
      <3>3. i = j /\ m < n => old[i][m] < old[j][n]
        BY <1>4, <3>1, <3>2
      <3> QED BY <1>5, <3>1, <3>2, <3>3
    <2>2. CASE j = k + 1 /\ i # k + 1
      <3>1. i \in 1..k /\ n = 1 /\ new[j][n] = r
        BY <1>0, <1>3, <2>2
      <3> QED BY <1>0, <1>1, <1>6, <2>2, <3>1
    <2>3. CASE i = k + 1
      BY <1>0, <1>3, <2>3
    <2> QED BY <2>1, <2>2, <2>3
  <1> QED BY <1>7, <1>8

-----------------------------------------------------------------------------
LEMMA SharedIsOrdered == SharedAtEdges <=> \A s \in Sensors : Ordered(Buffers(s))
  BY DEF SharedAtEdges, Ordered

LEMMA BuffersFunction ==
  ASSUME NEW ps \in Seq(Page), NEW b \in Seq(Readings), NEW s \in Sensors
  PROVE  BuffersOf(ps, b, s) \in [1..(Len(ps) + 1) -> Seq(Nat)]
  <1> DEFINE bs == BuffersOf(ps, b, s)
  <1>1. bs \in Seq(Seq(Readings)) /\ DOMAIN bs = 1..(Len(ps) + 1)
    BY BuffersShape
  <1> HIDE DEF bs
  <1>2. bs \in [1..(Len(ps) + 1) -> Seq(Readings)]
    BY <1>1
  <1>3. \A q \in Seq(Readings) : q \in Seq(Nat)
    BY DEF Readings
  <1> QED BY <1>2, <1>3 DEF bs

(* A frame adds the newest reading of a sensor unless it has it.           *)
LEMMA AppendedOrdered ==
  ASSUME Types, NEW s \in Sensors, Ordered(Buffers(s)), UpTo(Buffers(s), record[s])
  PROVE  /\ Appended[s] \in Seq(Readings)
         /\ Ordered(BuffersOf(pages, Appended[s], s))
         /\ UpTo(BuffersOf(pages, Appended[s], s), record[s])
  <1>1. pages \in Seq(Page) /\ buffer[s] \in Seq(Readings) /\ record[s] \in 0..MaxReadings
    BY DEF Types
  <1>2. Buffers(s) = BuffersOf(pages, buffer[s], s)
    BY DEF Buffers, BuffersOf
  <1>3. CASE ~IsNew(s)
    <2>1. Appended[s] = buffer[s]
      BY <1>3 DEF Appended
    <2> QED BY <1>1, <1>2, <2>1
  <1>4. CASE IsNew(s)
    <2>1. record[s] \in Readings
      BY <1>1, <1>4 DEF IsNew, Readings
    <2>2. Appended[s] = Append(buffer[s], record[s]) /\ Appended[s] \in Seq(Readings)
      BY <1>1, <1>4, <2>1 DEF Appended
    <2> DEFINE k == Len(pages) + 1
               old == BuffersOf(pages, buffer[s], s)
               new == BuffersOf(pages, Appended[s], s)
    <2>3. /\ k \in Nat \ {0} /\ old[k] = buffer[s] /\ new[k] = Appended[s]
          /\ \A i \in 1..k : i # k => new[i] = old[i]
      <3>1. Len(pages) \in Nat
        BY <1>1
      <3>2. /\ old[k] = buffer[s] /\ new[k] = Appended[s]
            /\ \A i \in 1..Len(pages) : new[i] = old[i]
        <4>1. old[k] = buffer[s] /\ \A i \in 1..Len(pages) : old[i] = pages[i].readings[s]
          BY <1>1, BuffersShape
        <4>2. /\ new[k] = Appended[s]
              /\ \A i \in 1..Len(pages) : new[i] = pages[i].readings[s]
          BY <1>1, <2>2, BuffersShape
        <4> HIDE DEF old, new, k
        <4>3. \A i \in 1..Len(pages) : new[i] = old[i]
          BY <4>1, <4>2
        <4> QED BY <4>1, <4>2, <4>3
      <3> HIDE DEF old, new
      <3> QED BY <3>1, <3>2
    <2>4. old \in [1..k -> Seq(Nat)] /\ new \in [1..k -> Seq(Nat)]
      BY <1>1, <2>2, BuffersFunction
    <2>5. old[k] # <<>> => record[s] # old[k][Len(old[k])]
      <3>1. buffer[s] # <<>> => record[s] # buffer[s][Len(buffer[s])]
        BY <1>4 DEF IsNew, Last
      <3> QED BY <2>3, <3>1
    <2>6. Ordered(old) /\ UpTo(old, record[s])
      BY <1>2
    <2> HIDE DEF k, old, new
    <2>7. Grows(k, old, new, record[s])
      BY <2>1, <2>2, <2>3, <2>4, <2>5 DEF Grows, Readings
    <2>8. Ordered(new) /\ UpTo(new, record[s])
      BY <2>6, <2>7, GrowsOrdered
    <2> QED BY <2>2, <2>8 DEF new
  <1> QED BY <1>3, <1>4

(* A flush makes a page of what is buffered and starts a new buffer.       *)
LEMMA FlushedOrdered ==
  ASSUME Types, NEW s \in Sensors, NEW p \in Page, NEW b \in Seq(Readings),
         b = <<>> \/ b = <<record[s]>>,
         Ordered(BuffersOf(pages, p.readings[s], s)),
         UpTo(BuffersOf(pages, p.readings[s], s), record[s])
  PROVE  /\ Ordered(BuffersOf(Append(pages, p), b, s))
         /\ UpTo(BuffersOf(Append(pages, p), b, s), record[s])
  <1> DEFINE k == Len(pages) + 1
             old == BuffersOf(pages, p.readings[s], s)
             new == BuffersOf(Append(pages, p), b, s)
  <1>1. /\ pages \in Seq(Page) /\ p.readings[s] \in Seq(Readings) /\ record[s] \in Nat
        /\ Append(pages, p) \in Seq(Page) /\ Len(Append(pages, p)) = k /\ k \in Nat
        /\ Append(pages, p)[k] = p /\ Len(pages) \in Nat
        /\ \A i \in 1..Len(pages) : Append(pages, p)[i] = pages[i]
    <2>1. p.readings \in [Sensors -> Seq(Readings)]
      BY DEF Page
    <2>2. pages \in Seq(Page) /\ record[s] \in Nat
      BY DEF Types
    <2> QED BY <2>1, <2>2
  <1>2. old \in [1..k -> Seq(Nat)] /\ new \in [1..(k + 1) -> Seq(Nat)]
    BY <1>1, BuffersFunction
  <1>3. /\ old[k] = p.readings[s] /\ new[k + 1] = b
        /\ \A i \in 1..Len(pages) : old[i] = pages[i].readings[s]
        /\ \A i \in 1..k : new[i] = Append(pages, p)[i].readings[s]
    <2>1. old[k] = p.readings[s] /\ \A i \in 1..Len(pages) : old[i] = pages[i].readings[s]
      <3> DEFINE q == p.readings[s]
      <3>1. q \in Seq(Readings)
        BY <1>1
      <3> HIDE DEF q
      <3>2. /\ BuffersOf(pages, q, s)[k] = q
            /\ \A i \in 1..Len(pages) : BuffersOf(pages, q, s)[i] = pages[i].readings[s]
        BY <1>1, <3>1, BuffersShape
      <3> QED BY <3>2 DEF q
    <2>2. new[k + 1] = b /\ \A i \in 1..k : new[i] = Append(pages, p)[i].readings[s]
      <3> DEFINE ps == Append(pages, p)
      <3>1. ps \in Seq(Page) /\ Len(ps) = k
        BY <1>1
      <3> HIDE DEF ps
      <3>2. /\ BuffersOf(ps, b, s)[Len(ps) + 1] = b
            /\ \A i \in 1..Len(ps) : BuffersOf(ps, b, s)[i] = ps[i].readings[s]
        BY <3>1, BuffersShape
      <3> QED BY <3>1, <3>2 DEF ps
    <2> QED BY <2>1, <2>2
  <1>4. \A i \in 1..k : new[i] = old[i]
    <2> TAKE i \in 1..k
    <2> HIDE DEF old, new
    <2>1. CASE i = k
      BY <1>1, <1>3, <2>1
    <2>2. CASE i # k
      <3>1. i \in 1..Len(pages)
        BY <1>1, <2>2
      <3> QED BY <1>1, <1>3, <3>1
    <2> QED BY <2>1, <2>2
  <1>5. Ordered(old) /\ UpTo(old, record[s])
    OBVIOUS
  <1> HIDE DEF k, old, new
  <1>6. Starts(k, old, new, record[s])
    BY <1>1, <1>2, <1>3, <1>4 DEF Starts
  <1> QED BY <1>5, <1>6, FlushOrdered DEF new

-----------------------------------------------------------------------------
LEMMA InitInvariant == Init => IInv
  <1> SUFFICES ASSUME Init PROVE IInv
    OBVIOUS
  <1>1. pages = <<>> /\ buffer = Empty /\ clock = 0 /\ record = [s \in Sensors |-> 0] /\ seen = {}
    BY DEF Init
  <1>2. Types
    BY <1>1 DEF Types, Empty
  <1>3. ASSUME NEW s \in Sensors PROVE Ordered(Buffers(s)) /\ UpTo(Buffers(s), record[s])
    <2>1. Buffers(s) = << <<>> >>
      <3>1. [i \in DOMAIN pages |-> pages[i].readings[s]] = <<>>
        BY <1>1
      <3>2. buffer[s] = <<>>
        BY <1>1 DEF Empty
      <3> QED BY <3>1, <3>2 DEF Buffers
    <2>2. \A i \in DOMAIN Buffers(s) : DOMAIN Buffers(s)[i] = {}
      BY <2>1
    <2> QED BY <2>2 DEF Ordered, UpTo
  <1>4. seen = Held(pages, buffer)
    <2>1. \A s \in Sensors : DOMAIN buffer[s] = {}
      BY <1>1 DEF Empty
    <2>2. DOMAIN pages = {}
      BY <1>1
    <2> QED BY <1>1, <2>1, <2>2 DEF Held
  <1>5. SentHasRecords /\ DropsOnlyBeforeSending
    <2>1. DOMAIN pages = {}
      BY <1>1
    <2> QED BY <2>1 DEF SentHasRecords, DropsOnlyBeforeSending
  <1> QED BY <1>2, <1>3, <1>4, <1>5 DEF IInv, Behind

(* A reading leaves the buffers alone, and is newer than all of them.      *)
LEMMA ReadingKeeps ==
  ASSUME IInv, NEW s \in Sensors, TakeReading(s)
  PROVE  IInv'
  <1>1. /\ clock \in 0..MaxReadings /\ clock < MaxReadings /\ clock' = clock + 1
        /\ record \in [Sensors -> 0..MaxReadings] /\ \A z \in Sensors : record[z] <= clock
        /\ record' = [record EXCEPT ![s] = clock + 1]
        /\ buffer' = buffer /\ pages' = pages /\ seen' = seen
    BY DEF IInv, Types, TakeReading
  <1>2. /\ record' \in [Sensors -> 0..MaxReadings]
        /\ \A z \in Sensors : record'[z] <= clock' /\ record[z] <= record'[z] /\ record[z] \in Nat
                                /\ record'[z] \in Nat
    BY <1>1
  <1>3. Types'
    BY <1>1, <1>2 DEF IInv, Types
  <1>4. ASSUME NEW z \in Sensors PROVE Ordered(Buffers(z)') /\ UpTo(Buffers(z)', record'[z])
    <2>1. Buffers(z)' = Buffers(z)
      BY <1>1 DEF Buffers
    <2>2. Ordered(Buffers(z)) /\ UpTo(Buffers(z), record[z])
      BY DEF IInv, Behind
    <2>3. Buffers(z) \in [1..(Len(pages) + 1) -> Seq(Nat)]
      BY BuffersFunction DEF IInv, Types, Buffers, BuffersOf
    <2>4. \A i \in DOMAIN Buffers(z) : \A m \in DOMAIN Buffers(z)[i] : Buffers(z)[i][m] \in Nat
      BY <2>3
    <2>5. UpTo(Buffers(z), record'[z])
      BY <1>2, <2>2, <2>4 DEF UpTo
    <2> QED BY <2>1, <2>2, <2>5
  <1>5. SentHasRecords' /\ DropsOnlyBeforeSending' /\ seen' = Held(pages', buffer')
    <2>1. SentHasRecords'
      <3> SUFFICES ASSUME NEW i \in DOMAIN pages', pages'[i].sent, NEW z \in Sensors
                   PROVE  record'[z] # 0
        BY DEF SentHasRecords
      <3>1. record[z] # 0
        BY <1>1 DEF IInv, SentHasRecords
      <3> QED BY <1>2, <3>1
    <2> QED BY <1>1, <2>1 DEF IInv, DropsOnlyBeforeSending
  <1> QED BY <1>3, <1>4, <1>5 DEF IInv, Behind

(* What a frame appends. *)
LEMMA AppendedHolds ==
  ASSUME Types
  PROVE  /\ Appended \in [Sensors -> Seq(Readings)]
         /\ Held(pages, Appended) = Held(pages, buffer) \cup ({record[s] : s \in Sensors} \ {0})
         /\ \A s \in Sensors : record[s] # 0 => Appended[s] # <<>>
         /\ \A s \in Sensors : IsNew(s) => \E m \in DOMAIN Appended[s] : Appended[s][m] = record[s]
  <1>1. ASSUME NEW s \in Sensors
        PROVE  /\ buffer[s] \in Seq(Readings) /\ Appended[s] \in Seq(Readings)
               /\ record[s] # 0 => record[s] \in Readings
               /\ \A x : (\E m \in DOMAIN Appended[s] : x = Appended[s][m]) <=>
                           \/ \E m \in DOMAIN buffer[s] : x = buffer[s][m]
                           \/ x = record[s] /\ record[s] # 0
    <2>1. buffer[s] \in Seq(Readings) /\ record[s] \in 0..MaxReadings
      BY DEF Types
    <2>2. CASE IsNew(s)
      <3>1. record[s] \in Readings /\ Appended[s] = Append(buffer[s], record[s]) /\ record[s] # 0
        BY <2>1, <2>2 DEF IsNew, Appended, Readings
      <3>2. /\ DOMAIN Append(buffer[s], record[s]) = 1..(Len(buffer[s]) + 1)
            /\ DOMAIN buffer[s] = 1..Len(buffer[s]) /\ Len(buffer[s]) \in Nat
            /\ \A m \in 1..Len(buffer[s]) : Append(buffer[s], record[s])[m] = buffer[s][m]
            /\ Append(buffer[s], record[s])[Len(buffer[s]) + 1] = record[s]
        BY <2>1, <3>1
      <3>3. \A x : (\E m \in DOMAIN Appended[s] : x = Appended[s][m]) <=>
                     \/ \E m \in DOMAIN buffer[s] : x = buffer[s][m]
                     \/ x = record[s]
        <4> DEFINE b == buffer[s]
                   a == Append(buffer[s], record[s])
                   l == Len(buffer[s])
        <4>1. /\ l \in Nat /\ DOMAIN b = 1..l /\ DOMAIN a = 1..(l + 1) /\ a[l + 1] = record[s]
              /\ \A m \in 1..l : a[m] = b[m]
          BY <3>2
        <4> HIDE DEF a, b, l
        <4>2. \A m \in DOMAIN a : m \in DOMAIN b \/ m = l + 1
          BY <4>1
        <4>3. DOMAIN b \subseteq DOMAIN a /\ l + 1 \in DOMAIN a
          BY <4>1
        <4>4. \A x : (\E m \in DOMAIN a : x = a[m]) <=>
                       (\E m \in DOMAIN b : x = b[m]) \/ x = record[s]
          BY <4>1, <4>2, <4>3
        <4>5. a = Appended[s] /\ b = buffer[s]
          BY <3>1 DEF a, b
        <4> QED BY <4>4, <4>5
      <3>4. Appended[s] \in Seq(Readings)
        BY <2>1, <3>1
      <3>5. \A x : (\E m \in DOMAIN Appended[s] : x = Appended[s][m]) <=>
                     \/ \E m \in DOMAIN buffer[s] : x = buffer[s][m]
                     \/ x = record[s] /\ record[s] # 0
        BY <3>1, <3>3, Zenon
      <3> QED BY <2>1, <3>1, <3>4, <3>5, Zenon
    <2>3. CASE ~IsNew(s)
      <3>1. Appended[s] = buffer[s]
        BY <2>3 DEF Appended
      <3>2. record[s] # 0 => buffer[s] # <<>> /\ buffer[s][Len(buffer[s])] = record[s]
        BY <2>1, <2>3 DEF IsNew, Last
      <3>3. record[s] # 0 => Len(buffer[s]) \in DOMAIN buffer[s]
        BY <2>1, <3>2
      <3> QED BY <2>1, <3>1, <3>2, <3>3 DEF Readings
    <2> QED BY <2>2, <2>3
  <1>2. Appended \in [Sensors -> Seq(Readings)]
    BY <1>1 DEF Appended
  <1>3. Held(pages, Appended) = Held(pages, buffer) \cup ({record[s] : s \in Sensors} \ {0})
    <2> DEFINE inPages(x) == \E s \in Sensors : \E i \in DOMAIN pages :
                               \E m \in DOMAIN pages[i].readings[s] : x = pages[i].readings[s][m]
               inBuffers(x, bf) == \E s \in Sensors : \E m \in DOMAIN bf[s] : x = bf[s][m]
               newest == {record[s] : s \in Sensors} \ {0}
    <2>1. /\ Held(pages, Appended) = {x \in Readings : inPages(x) \/ inBuffers(x, Appended)}
          /\ Held(pages, buffer) = {x \in Readings : inPages(x) \/ inBuffers(x, buffer)}
      BY DEF Held
    <2>2. newest \subseteq Readings
      BY <1>1
    <2>3. \A x : inBuffers(x, Appended) <=> inBuffers(x, buffer) \/ x \in newest
      <3> TAKE x
      <3> DEFINE in(s, bf) == \E m \in DOMAIN bf[s] : x = bf[s][m]
      <3>1. \A s \in Sensors : in(s, Appended) <=> in(s, buffer) \/ (x = record[s] /\ record[s] # 0)
        BY <1>1
      <3>2. x \in newest <=> \E s \in Sensors : x = record[s] /\ record[s] # 0
        OBVIOUS
      <3> HIDE DEF in, newest
      <3>3. (\E s \in Sensors : in(s, Appended))
              <=> (\E s \in Sensors : in(s, buffer)) \/ x \in newest
        BY <3>1, <3>2
      <3> QED BY <3>3 DEF in
    <2> HIDE DEF inPages, inBuffers, newest
    <2>4. Held(pages, Appended) = Held(pages, buffer) \cup newest
      BY <2>1, <2>2, <2>3
    <2> QED BY <2>4 DEF newest
  <1>4. \A s \in Sensors : record[s] # 0 => Appended[s] # <<>>
    <2> SUFFICES ASSUME NEW s \in Sensors, record[s] # 0 PROVE Appended[s] # <<>>
      OBVIOUS
    <2>1. \E m \in DOMAIN Appended[s] : record[s] = Appended[s][m]
      BY <1>1
    <2> QED BY <2>1
  <1>5. \A s \in Sensors : IsNew(s) => \E m \in DOMAIN Appended[s] : Appended[s][m] = record[s]
    BY <1>1 DEF IsNew
  <1> QED BY <1>2, <1>3, <1>4, <1>5

(* A frame that only buffers. *)
LEMMA BufferingKeeps ==
  ASSUME IInv, FrameBuffers
  PROVE  IInv'
  <1>1. /\ Types /\ buffer' = Appended /\ pages' = pages /\ record' = record /\ clock' = clock
        /\ seen' = seen \cup ({record[s] : s \in Sensors} \ {0})
    BY DEF IInv, FrameBuffers, Frame
  <1>2. Types'
    BY <1>1, AppendedHolds DEF Types
  <1>3. seen' = Held(pages', buffer')
    BY <1>1, AppendedHolds DEF IInv
  <1>4. ASSUME NEW s \in Sensors PROVE Ordered(Buffers(s)') /\ UpTo(Buffers(s)', record'[s])
    <2>1. Buffers(s)' = BuffersOf(pages, Appended[s], s)
      BY <1>1 DEF Buffers, BuffersOf
    <2>2. Ordered(Buffers(s)) /\ UpTo(Buffers(s), record[s])
      BY DEF IInv, Behind
    <2> QED BY <1>1, <2>1, <2>2, AppendedOrdered
  <1>5. SentHasRecords' /\ DropsOnlyBeforeSending'
    BY <1>1 DEF IInv, SentHasRecords, DropsOnlyBeforeSending
  <1> QED BY <1>2, <1>3, <1>4, <1>5 DEF IInv, Behind

(* A frame that ends the buffer: it becomes a page, which is sent if every *)
(* sensor has given a reading.                                             *)
LEMMA FlushingKeeps ==
  ASSUME IInv, FrameFlushes
  PROVE  IInv'
  <1> DEFINE p == SentIfWhole(Appended)
             k == Len(pages) + 1
  <1>1. /\ Types /\ pages' = Append(pages, p) /\ record' = record /\ clock' = clock
        /\ buffer' = [Empty EXCEPT !["gps"] = <<record["gps"]>>]
        /\ seen' = seen \cup ({record[s] : s \in Sensors} \ {0}) /\ IsNew("gps")
    BY DEF IInv, FrameFlushes, Frame, Flush, IsDue
  <1>2. p \in Page /\ p.readings = Appended /\ (p.sent <=> \A s \in Sensors : Appended[s] # <<>>)
    BY <1>1, AppendedHolds DEF SentIfWhole, Page
  <1>3. pages \in Seq(Page) /\ record["gps"] \in Readings
    BY <1>1 DEF Types, IsNew, Readings, Sensors
  <1> HIDE DEF p
  <1>4. \A s \in Sensors : /\ buffer'[s] \in Seq(Readings)
                           /\ buffer'[s] = <<>> \/ (s = "gps" /\ buffer'[s] = <<record[s]>>)
    <2>1. <<record["gps"]>> \in Seq(Readings) /\ <<>> \in Seq(Readings)
      BY <1>3
    <2>2. \A s \in Sensors : buffer'[s] = IF s = "gps" THEN <<record["gps"]>> ELSE <<>>
      BY <1>1 DEF Empty
    <2> QED BY <2>1, <2>2
  <1>5. buffer' \in [Sensors -> Seq(Readings)]
    <2>1. buffer' = [s \in Sensors |-> buffer'[s]]
      BY <1>1 DEF Empty
    <2> QED BY <1>4, <2>1
  <1>6. /\ pages' \in Seq(Page) /\ DOMAIN pages = 1..Len(pages) /\ DOMAIN pages' = 1..k
        /\ Len(pages) \in Nat /\ pages'[k] = p
        /\ \A i \in DOMAIN pages : pages'[i] = pages[i]
    BY <1>1, <1>2, <1>3
  <1>7. Types'
    BY <1>1, <1>5, <1>6 DEF Types
  <1>8. ASSUME NEW s \in Sensors PROVE Ordered(Buffers(s)') /\ UpTo(Buffers(s)', record'[s])
    <2>1. Ordered(Buffers(s)) /\ UpTo(Buffers(s), record[s])
      BY DEF IInv, Behind
    <2>2. /\ Ordered(BuffersOf(pages, p.readings[s], s))
          /\ UpTo(BuffersOf(pages, p.readings[s], s), record[s])
      BY <1>1, <1>2, <2>1, AppendedOrdered
    <2> DEFINE b == buffer'[s]
    <2>3. b \in Seq(Readings) /\ (b = <<>> \/ b = <<record[s]>>)
      BY <1>4
    <2>4. Buffers(s)' = BuffersOf(Append(pages, p), b, s)
      BY <1>1 DEF Buffers, BuffersOf
    <2> HIDE DEF b
    <2>5. /\ Ordered(BuffersOf(Append(pages, p), b, s))
          /\ UpTo(BuffersOf(Append(pages, p), b, s), record[s])
      BY <1>1, <1>2, <2>2, <2>3, FlushedOrdered
    <2> QED BY <1>1, <2>4, <2>5
  <1>9. seen' = Held(pages', buffer')
    <2>1. seen' = Held(pages, Appended)
      BY <1>1, AppendedHolds DEF IInv
    <2>2. \E m \in DOMAIN Appended["gps"] : Appended["gps"][m] = record["gps"]
      BY <1>1, AppendedHolds DEF Sensors
    <2>3. \A s \in Sensors : \A m \in DOMAIN buffer'[s] : s = "gps" /\ buffer'[s][m] = record["gps"]
      BY <1>4
    <2>4. Held(pages', buffer') \subseteq Held(pages, Appended)
      <3> SUFFICES ASSUME NEW x \in Held(pages', buffer') PROVE x \in Held(pages, Appended)
        OBVIOUS
      <3>1. PICK s \in Sensors :
              \/ \E i \in DOMAIN pages' : \E m \in DOMAIN pages'[i].readings[s] :
                   x = pages'[i].readings[s][m]
              \/ \E m \in DOMAIN buffer'[s] : x = buffer'[s][m]
        BY DEF Held
      <3>2. CASE \E m \in DOMAIN buffer'[s] : x = buffer'[s][m]
        BY <2>2, <2>3, <3>2 DEF Held, Sensors
      <3>3. ASSUME NEW i \in DOMAIN pages', NEW m \in DOMAIN pages'[i].readings[s],
                   x = pages'[i].readings[s][m]
            PROVE  x \in Held(pages, Appended)
        <4>1. CASE i = k
          BY <1>2, <1>6, <3>3, <4>1 DEF Held
        <4>2. CASE i # k
          <5>1. i \in DOMAIN pages /\ pages'[i] = pages[i]
            BY <1>6, <4>2
          <5> QED BY <3>3, <5>1 DEF Held
        <4> QED BY <4>1, <4>2
      <3> QED BY <3>1, <3>2, <3>3
    <2>5. Held(pages, Appended) \subseteq Held(pages', buffer')
      <3> SUFFICES ASSUME NEW x \in Held(pages, Appended) PROVE x \in Held(pages', buffer')
        OBVIOUS
      <3>1. PICK s \in Sensors :
              \/ \E i \in DOMAIN pages : \E m \in DOMAIN pages[i].readings[s] :
                   x = pages[i].readings[s][m]
              \/ \E m \in DOMAIN Appended[s] : x = Appended[s][m]
        BY DEF Held
      <3>2. k \in DOMAIN pages' /\ pages'[k].readings = Appended
        BY <1>2, <1>6
      <3>3. CASE \E m \in DOMAIN Appended[s] : x = Appended[s][m]
        BY <3>2, <3>3 DEF Held
      <3>4. ASSUME NEW i \in DOMAIN pages, NEW m \in DOMAIN pages[i].readings[s],
                   x = pages[i].readings[s][m]
            PROVE  x \in Held(pages', buffer')
        <4>1. i \in DOMAIN pages' /\ pages'[i] = pages[i]
          BY <1>6
        <4> QED BY <3>4, <4>1 DEF Held
      <3> QED BY <3>1, <3>3, <3>4
    <2> QED BY <2>1, <2>4, <2>5
  <1>10. SentHasRecords'
    <2> SUFFICES ASSUME NEW i \in DOMAIN pages', pages'[i].sent, NEW s \in Sensors
                 PROVE  record[s] # 0
      BY <1>1 DEF SentHasRecords
    <2>1. CASE i \in DOMAIN pages
      BY <1>6, <2>1 DEF IInv, SentHasRecords
    <2>2. CASE i \notin DOMAIN pages
      <3>1. Appended[s] # <<>> /\ Appended[s] \in Seq(Readings)
        BY <1>1, <1>2, <1>6, <2>2, AppendedHolds
      <3>2. 1 \in DOMAIN Appended[s] /\ Appended[s][1] \in Readings
        BY <3>1
      <3>3. UpTo(BuffersOf(pages, Appended[s], s), record[s])
        BY <1>1, AppendedOrdered DEF IInv, Behind
      <3>4. k \in DOMAIN BuffersOf(pages, Appended[s], s) /\ BuffersOf(pages, Appended[s], s)[k] = Appended[s]
        <4> DEFINE a == Appended[s]
        <4>1. a \in Seq(Readings)
          BY <3>1
        <4> HIDE DEF a
        <4>2. DOMAIN BuffersOf(pages, a, s) = 1..k /\ BuffersOf(pages, a, s)[k] = a
          BY <1>3, <4>1, BuffersShape
        <4>3. k \in 1..k
          BY <1>6
        <4> QED BY <4>2, <4>3 DEF a
      <3>5. Appended[s][1] <= record[s]
        BY <3>2, <3>3, <3>4 DEF UpTo
      <3> QED BY <1>1, <3>2, <3>5 DEF Readings, Types
    <2> QED BY <2>1, <2>2
  <1>11. DropsOnlyBeforeSending'
    <2> SUFFICES ASSUME NEW i \in DOMAIN pages', NEW j \in DOMAIN pages', i < j, pages'[i].sent
                 PROVE  pages'[j].sent
      BY DEF DropsOnlyBeforeSending
    <2>1. i \in DOMAIN pages
      BY <1>6
    <2>2. CASE j \in DOMAIN pages
      BY <1>6, <2>1, <2>2 DEF IInv, DropsOnlyBeforeSending
    <2>3. CASE j \notin DOMAIN pages
      <3>1. \A s \in Sensors : record[s] # 0
        BY <1>6, <2>1 DEF IInv, SentHasRecords
      <3>2. p.sent
        BY <1>1, <1>2, <3>1, AppendedHolds
      <3> QED BY <1>6, <2>3, <3>2
    <2> QED BY <2>2, <2>3
  <1> QED BY <1>7, <1>8, <1>9, <1>10, <1>11 DEF IInv, Behind

LEMMA StepInvariant == IInv /\ [Next]_vars => IInv'
  <1> SUFFICES ASSUME IInv, [Next]_vars PROVE IInv'
    OBVIOUS
  <1>1. CASE \E s \in Sensors : TakeReading(s)
    BY <1>1, ReadingKeeps
  <1>2. CASE FrameBuffers
    BY <1>2, BufferingKeeps
  <1>3. CASE FrameFlushes
    BY <1>3, FlushingKeeps
  <1>4. CASE UNCHANGED vars \/ \E d \in Durations : SetBufferTime(d)
    <2>1. UNCHANGED <<clock, record, buffer, pages, seen>>
      BY <1>4 DEF vars, SetBufferTime
    <2> QED BY <2>1 DEF IInv, Types, Behind, Buffers, SentHasRecords, DropsOnlyBeforeSending
  <1> QED BY <1>1, <1>2, <1>3, <1>4 DEF Next

-----------------------------------------------------------------------------
(* The invariant holds for any number of readings and any buffer times.    *)
THEOREM Invariance == Spec => []IInv
  <1>1. Init => IInv
    BY InitInvariant
  <1>2. IInv /\ [Next]_vars => IInv'
    BY StepInvariant
  <1> QED BY <1>1, <1>2, PTL DEF Spec

(* Readings stay in order across buffers, and one is in two buffers of a   *)
(* sensor only at their common edge (appendGps starts the new buffer with  *)
(* the reading that ended the old one).                                    *)
THEOREM ReadingsShared == Spec => []SharedAtEdges
  <1>1. IInv => SharedAtEdges
    BY SharedIsOrdered DEF IInv, Behind
  <1> QED BY Invariance, <1>1, PTL

(* Every reading a frame handed to the transmitter is in a buffer, and the *)
(* buffers hold nothing else.                                              *)
THEOREM ReadingsBuffered == Spec => []SeenIsBuffered
  <1>1. IInv => SeenIsBuffered
    <2> SUFFICES ASSUME IInv PROVE SeenIsBuffered
      OBVIOUS
    <2>1. pages \in Seq(Page) /\ buffer \in [Sensors -> Seq(Readings)]
      BY DEF IInv, Types
    <2>2. ASSUME NEW s \in Sensors
          PROVE  /\ \A i \in 1..Len(pages) : Buffers(s)[i] = pages[i].readings[s]
                                               /\ pages[i].readings[s] \in Seq(Readings)
                 /\ Buffers(s)[Len(pages) + 1] = buffer[s] /\ buffer[s] \in Seq(Readings)
      BY <2>1, BuffersShape DEF Buffers, BuffersOf
    <2>3. DOMAIN pages = 1..Len(pages) /\ Len(pages) \in Nat
      BY <2>1
    <2>4. ASSUME NEW x
          PROVE  x \in Held(pages, buffer) <=>
                   \E s \in Sensors, i \in 1..(Len(pages) + 1) : x \in ToSet(Buffers(s)[i])
      <3>1. ASSUME NEW s \in Sensors, NEW i \in 1..(Len(pages) + 1), x \in ToSet(Buffers(s)[i])
            PROVE  x \in Held(pages, buffer)
        <4>1. PICK m \in DOMAIN Buffers(s)[i] : x = Buffers(s)[i][m]
          BY <3>1 DEF ToSet
        <4>2. CASE i = Len(pages) + 1
          BY <2>2, <4>1, <4>2 DEF Held
        <4>3. CASE i # Len(pages) + 1
          <5>1. i \in DOMAIN pages
            BY <2>3, <4>3
          <5> QED BY <2>2, <2>3, <4>1, <5>1 DEF Held
        <4> QED BY <4>2, <4>3
      <3>2. ASSUME x \in Held(pages, buffer)
            PROVE  \E s \in Sensors, i \in 1..(Len(pages) + 1) : x \in ToSet(Buffers(s)[i])
        <4>1. PICK s \in Sensors :
                \/ \E i \in DOMAIN pages : \E m \in DOMAIN pages[i].readings[s] :
                     x = pages[i].readings[s][m]
                \/ \E m \in DOMAIN buffer[s] : x = buffer[s][m]
          BY <3>2 DEF Held
        <4>2. CASE \E m \in DOMAIN buffer[s] : x = buffer[s][m]
          <5>1. Len(pages) + 1 \in 1..(Len(pages) + 1) /\ x \in ToSet(Buffers(s)[Len(pages) + 1])
            BY <2>2, <2>3, <4>2 DEF ToSet
          <5> QED BY <5>1
        <4>3. ASSUME NEW i \in DOMAIN pages,
                     \E m \in DOMAIN pages[i].readings[s] : x = pages[i].readings[s][m]
              PROVE  \E z \in Sensors, j \in 1..(Len(pages) + 1) : x \in ToSet(Buffers(z)[j])
          <5>1. i \in 1..(Len(pages) + 1) /\ x \in ToSet(Buffers(s)[i])
            BY <2>2, <2>3, <4>3 DEF ToSet
          <5> QED BY <5>1
        <4> QED BY <4>1, <4>2, <4>3
      <3> QED BY <3>1, <3>2
    <2> QED BY <2>4 DEF IInv, SeenIsBuffered
  <1> QED BY Invariance, <1>1, PTL

(* Once a buffer was transmitted no later one is thrown away for want of   *)
(* readings of some sensor.                                                *)
THEOREM NothingDropped == Spec => []DropsOnlyBeforeSending
  <1>1. IInv => DropsOnlyBeforeSending
    BY DEF IInv
  <1> QED BY Invariance, <1>1, PTL
=============================================================================
