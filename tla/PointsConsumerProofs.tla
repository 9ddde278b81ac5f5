------------------------ MODULE PointsConsumerProofs ------------------------
(***************************************************************************)
(* The points consumer stores each point at most once and in order and     *)
(* loses none without a fault, for every channel, threshold and topic.     *)
(***************************************************************************)
EXTENDS PointsConsumer, SequenceTheorems, TLAPS

(* Every point of A precedes every point of B.                             *)
Before(A, B) == \A a \in A, b \in B : a < b

(* The table, the batch, the channel and the reader's hand are segments of *)
(* the topic, in this order.                                               *)
OrderOK ==
  /\ Increasing(table) /\ Increasing(batch) /\ Increasing(pointsC)
  /\ Before(Elements(table), Elements(batch))
  /\ Before(Elements(table), Elements(pointsC))
  /\ Before(Elements(batch), Elements(pointsC))
  /\ \A x \in Elements(table) \cup Elements(batch) \cup Elements(pointsC) : x < next

Conserved ==
  1..committed = Elements(table) \cup undecoded \cup InHands \cup dropped

ControlOK ==
  /\ reader = "send" <=> next <= committed
  /\ reader = "down" => inserter = "down"
  /\ reader = "returned" => cancelled
  /\ cancelled => faults > 0
  /\ isDone => cancelled
  /\ inserter \in {"prepare", "down"} => batch = <<>>
  /\ inserter = "select" => Len(batch) < TriggerThreshold
  /\ faults = 0 => dropped = {}

IInv == TypeOK /\ OrderOK /\ Conserved /\ ControlOK

-----------------------------------------------------------------------------
(* What the operators on sequences do to an increasing sequence.           *)

LEMMA AppendPoint ==
  ASSUME NEW s \in Seq(Points), NEW p \in Points,
         Increasing(s), \A x \in Elements(s) : x < p
  PROVE  /\ Append(s, p) \in Seq(Points) /\ Len(Append(s, p)) = Len(s) + 1
         /\ Elements(Append(s, p)) = Elements(s) \cup {p}
         /\ Increasing(Append(s, p))
<1> DEFINE t == Append(s, p)
<1>1. /\ t \in Seq(Points) /\ Len(t) = Len(s) + 1
      /\ \A i \in 1..Len(s) : t[i] = s[i]
      /\ t[Len(s) + 1] = p
  BY AppendProperties
<1>2. Len(s) \in Nat /\ DOMAIN s = 1..Len(s) /\ DOMAIN t = 1..(Len(s) + 1)
  BY <1>1, LenProperties
<1> HIDE DEF t
<1>3. Elements(t) = Elements(s) \cup {p}
  BY <1>1, <1>2 DEF Elements
<1>4. \A i \in 1..Len(s) : s[i] < p
  BY <1>2 DEF Elements
<1>5. Increasing(t)
  BY <1>1, <1>2, <1>4 DEF Increasing, Points
<1> QED
  BY <1>1, <1>3, <1>5 DEF t

LEMMA TakeHead ==
  ASSUME NEW s \in Seq(Points), s # <<>>, Increasing(s)
  PROVE  /\ Head(s) \in Points /\ Tail(s) \in Seq(Points)
         /\ Len(Tail(s)) = Len(s) - 1
         /\ Elements(s) = {Head(s)} \cup Elements(Tail(s))
         /\ \A x \in Elements(Tail(s)) : Head(s) < x
         /\ Increasing(Tail(s))
<1> DEFINE t == Tail(s)
<1>1. /\ Head(s) \in Points /\ t \in Seq(Points) /\ Len(t) = Len(s) - 1
      /\ \A i \in 1..Len(t) : t[i] = s[i + 1]
  BY HeadTailProperties
<1>2. /\ Len(s) \in Nat \ {0} /\ DOMAIN s = 1..Len(s) /\ DOMAIN t = 1..(Len(s) - 1)
  BY <1>1, LenProperties, EmptySeq
<1>3. Head(s) = s[1]
  OBVIOUS
<1> HIDE DEF t
<1>4. Elements(s) = {Head(s)} \cup Elements(t)
  <2>1. ASSUME NEW x \in Elements(s), x # s[1] PROVE x \in Elements(t)
    <3>1. PICK i \in 1..Len(s) : x = s[i]
      BY <2>1, <1>2 DEF Elements
    <3>2. i - 1 \in 1..Len(t) /\ t[i - 1] = s[i]
      BY <3>1, <2>1, <1>1, <1>2
    <3> QED
      BY <3>1, <3>2, <1>1, <1>2 DEF Elements
  <2>2. s[1] \in Elements(s) /\ Elements(t) \subseteq Elements(s)
    <3>1. \A i \in 1..Len(t) : i + 1 \in 1..Len(s)
      BY <1>1, <1>2
    <3> QED
      BY SMTT(20), <3>1, <1>1, <1>2 DEF Elements
  <2> QED
    BY <2>1, <2>2, <1>3
<1>5. \A x \in Elements(t) : Head(s) < x
  <2>1. \A i \in 1..Len(t) : 1 < i + 1 /\ i + 1 \in DOMAIN s /\ 1 \in DOMAIN s
    BY <1>1, <1>2
  <2> QED
    BY <2>1, <1>1, <1>2, <1>3 DEF Elements, Increasing
<1>6. Increasing(t)
  <2> SUFFICES ASSUME NEW i \in DOMAIN t, NEW j \in DOMAIN t, i < j
               PROVE  t[i] < t[j]
    BY DEF Increasing
  <2>1. i + 1 \in DOMAIN s /\ j + 1 \in DOMAIN s /\ i + 1 < j + 1
    BY <1>1, <1>2, SMT
  <2>2. s[i + 1] < s[j + 1]
    BY <2>1 DEF Increasing
  <2> QED
    BY <2>2, <1>1, <1>2
<1> QED
  BY <1>1, <1>4, <1>5, <1>6 DEF t

LEMMA ConcatPoints ==
  ASSUME NEW s \in Seq(Points), NEW t \in Seq(Points),
         Increasing(s), Increasing(t), Before(Elements(s), Elements(t))
  PROVE  /\ s \o t \in Seq(Points)
         /\ Elements(s \o t) = Elements(s) \cup Elements(t)
         /\ Increasing(s \o t)
<1> DEFINE u == s \o t
<1>1. /\ u \in Seq(Points) /\ Len(u) = Len(s) + Len(t)
      /\ \A i \in 1..(Len(s) + Len(t)) :
           u[i] = IF i <= Len(s) THEN s[i] ELSE t[i - Len(s)]
  BY ConcatProperties
<1>2. /\ Len(s) \in Nat /\ Len(t) \in Nat
      /\ DOMAIN s = 1..Len(s) /\ DOMAIN t = 1..Len(t)
      /\ DOMAIN u = 1..(Len(s) + Len(t))
  BY <1>1, LenProperties
<1> HIDE DEF u
<1>3. Elements(u) = Elements(s) \cup Elements(t)
  <2>1. Elements(u) \subseteq Elements(s) \cup Elements(t)
    <3>1. \A i \in 1..(Len(s) + Len(t)) :
            \/ i <= Len(s) /\ i \in DOMAIN s
            \/ ~(i <= Len(s)) /\ i - Len(s) \in DOMAIN t
      BY <1>2
    <3> QED
      BY <3>1, <1>1, <1>2 DEF Elements
  <2>2. Elements(s) \subseteq Elements(u)
    BY SMTT(20), <1>1, <1>2 DEF Elements
  <2>3. ASSUME NEW x \in Elements(t) PROVE x \in Elements(u)
    <3>1. PICK j \in 1..Len(t) : x = t[j]
      BY <2>3, <1>2 DEF Elements
    <3>2. /\ j + Len(s) \in 1..(Len(s) + Len(t)) /\ ~(j + Len(s) <= Len(s))
          /\ (j + Len(s)) - Len(s) = j
      BY <1>2
    <3>3. u[j + Len(s)] = x
      BY <3>1, <3>2, <1>1
    <3> QED
      BY <3>2, <3>3, <1>2 DEF Elements
  <2> QED
    BY <2>1, <2>2, <2>3
<1>4. ASSUME NEW i \in DOMAIN u, NEW j \in DOMAIN u, i < j PROVE u[i] < u[j]
  <2>1. CASE j <= Len(s)
    BY <2>1, <1>1, <1>2, <1>4 DEF Increasing
  <2>2. CASE i <= Len(s) /\ ~(j <= Len(s))
    <3>1. u[i] \in Elements(s) /\ u[j] \in Elements(t)
      <4>1. i \in DOMAIN s /\ j - Len(s) \in DOMAIN t
        BY <2>2, <1>2
      <4> QED
        BY <4>1, <2>2, <1>1, <1>2 DEF Elements
    <3> QED
      BY <3>1 DEF Before
  <2>3. CASE ~(i <= Len(s))
    <3>1. /\ i - Len(s) \in DOMAIN t /\ j - Len(s) \in DOMAIN t
          /\ i - Len(s) < j - Len(s) /\ ~(j <= Len(s))
      BY <2>3, <1>2, <1>4
    <3> QED
      BY <3>1, <2>3, <1>1, <1>2 DEF Increasing
  <2> QED
    BY <2>1, <2>2, <2>3
<1> QED
  BY <1>1, <1>3, <1>4 DEF u, Increasing

LEMMA ElementsArePoints ==
  ASSUME NEW s \in Seq(Points)
  PROVE  Elements(s) \subseteq Points
BY LenProperties, ElementOfSeq DEF Elements

LEMMA NoElements == Elements(<<>>) = {} /\ Increasing(<<>>)
BY DEF Elements, Increasing

-----------------------------------------------------------------------------
(* The inductive invariant.                                                *)

dataVars == <<committed, next, undecoded, pointsC, batch, table, dropped>>

LEMMA DataFrame ==
  ASSUME OrderOK, Conserved, UNCHANGED dataVars
  PROVE  OrderOK' /\ Conserved'
BY DEF OrderOK, Conserved, dataVars, InHands, Increasing, Before, Elements

LEMMA InitIInv == Init => IInv
<1> SUFFICES ASSUME Init PROVE IInv
  OBVIOUS
<1> USE DEF Init
<1>1. <<>> \in Seq(Points) /\ Len(<<>>) = 0
  BY EmptySeq
<1>2. TypeOK
  <2>1. Len(pointsC) <= BufferSize /\ Len(batch) <= TriggerThreshold
    BY <1>1, BufferAssumption, ThresholdAssumption
  <2>2. committed \in 0..MaxPoints /\ next \in 1..(committed + 1) /\ faults \in 0..MaxFaults
    BY PointsAssumption, FaultsAssumption
  <2> QED
    BY <1>1, <2>1, <2>2 DEF TypeOK, Reader, Inserter
<1>3. OrderOK
  BY NoElements DEF OrderOK, Before
<1>4. Conserved
  BY NoElements DEF Conserved, InHands
<1>5. ControlOK
  BY DEF ControlOK
<1> QED
  BY <1>2, <1>3, <1>4, <1>5 DEF IInv

(* Steps that move no point.                                               *)
LEMMA ControlSteps ==
  ASSUME IInv,
         \/ CheckContext \/ ReadFails \/ PrepareBatch \/ PrepareFails
         \/ SelectDone \/ SelectTimer \/ Interrupt \/ Restart
         \/ BatchSendFails /\ UNCHANGED <<batch, table>>
         \/ UNCHANGED vars
  PROVE  IInv'
<1> USE DEF IInv
<1>1. UNCHANGED dataVars
  BY DEF dataVars, CheckContext, ReadFails, ReadEnds, PrepareBatch, PrepareFails,
     InsertFails, SelectDone, SelectTimer, Interrupt, Restart, BatchSendFails, vars,
     readVars, insertVars
<1>2. OrderOK' /\ Conserved'
  BY <1>1, DataFrame
<1>3. TypeOK' /\ ControlOK'
  <2> USE DEF TypeOK, ControlOK, Reader, Inserter, Fault, ReadEnds, InsertFails,
          readVars, insertVars
  <2>1. CASE CheckContext
    BY <2>1 DEF CheckContext
  <2>2. CASE ReadFails
    BY <2>2, FaultsAssumption DEF ReadFails
  <2>3. CASE PrepareBatch
    BY <2>3, EmptySeq, ThresholdAssumption DEF PrepareBatch
  <2>4. CASE PrepareFails
    BY <2>4, FaultsAssumption DEF PrepareFails
  <2>5. CASE SelectDone
    BY <2>5 DEF SelectDone
  <2>6. CASE SelectTimer
    BY <2>6 DEF SelectTimer
  <2>7. CASE Interrupt
    BY <2>7, FaultsAssumption DEF Interrupt, Up
  <2>8. CASE Restart
    BY <2>8 DEF Restart, Up
  <2>9. CASE BatchSendFails /\ UNCHANGED <<batch, table>>
    BY <2>9, FaultsAssumption DEF BatchSendFails
  <2>10. CASE UNCHANGED vars
    BY <2>10 DEF vars
  <2> QED
    BY <2>1, <2>2, <2>3, <2>4, <2>5, <2>6, <2>7, <2>8, <2>9, <2>10
<1> QED
  BY <1>2, <1>3

(* The reader takes a message.                                             *)
LEMMA ReceiveSteps ==
  ASSUME IInv, NEW n \in 1..MaxMessagePoints,
         ReadMessage(n) \/ ReadUndecodable(n) \/ ReadFailsCommitted(n)
  PROVE  IInv'
<1> USE DEF IInv
<1>1. /\ n \in Nat \ {0} /\ committed \in Nat /\ next = committed + 1
      /\ committed' = committed + n /\ committed' \in 0..MaxPoints
      /\ reader = "read" /\ MaxPoints \in Nat
      /\ UNCHANGED <<pointsC, batch, table>>
  BY PointsAssumption DEF ReadMessage, ReadUndecodable, ReadFailsCommitted, Receive,
     ReadEnds, insertVars, TypeOK, ControlOK
<1>2. next' \in {committed + 1, committed + n + 1}
  BY DEF ReadMessage, ReadUndecodable, ReadFailsCommitted
<1>3. next' \in 1..(committed' + 1) /\ next <= next'
  BY <1>1, <1>2
<1>4. TypeOK'
  <2>1. /\ reader' \in Reader /\ cancelled' \in BOOLEAN
        /\ UNCHANGED <<pointsC, insertVars>>
    BY DEF TypeOK, ReadMessage, ReadUndecodable, ReadFailsCommitted, ReadEnds, Reader
  <2>2. faults' \in 0..MaxFaults
    BY FaultsAssumption DEF TypeOK, ReadMessage, ReadUndecodable, ReadFailsCommitted,
       ReadEnds, Fault
  <2>3. (committed + 1)..(committed + n) \subseteq Points
    BY <1>1 DEF Points
  <2>4. undecoded' \subseteq Points /\ dropped' \subseteq Points
    BY <2>3 DEF TypeOK, ReadMessage, ReadUndecodable, ReadFailsCommitted, ReadEnds
  <2> QED
    BY <1>1, <1>3, <2>1, <2>2, <2>4 DEF TypeOK, insertVars
<1>5. OrderOK'
  <2>1. \A x \in Elements(table) \cup Elements(batch) \cup Elements(pointsC) :
          x \in Int /\ x < next
    BY ElementsArePoints DEF OrderOK, TypeOK, Points
  <2>2. next \in Int /\ next' \in Int
    BY <1>1, <1>3
  <2>3. \A x \in Elements(table) \cup Elements(batch) \cup Elements(pointsC) :
          x < next'
    BY <2>1, <2>2, <1>3
  <2> QED
    BY <1>1, <2>3 DEF OrderOK, Before, Elements, Increasing
<1>6. Conserved'
  <2>1. next..committed = {} /\ 1..committed' = 1..committed \cup (committed + 1)..(committed + n)
    BY <1>1
  <2>2. 1..committed = Elements(table) \cup undecoded \cup Elements(batch)
                         \cup Elements(pointsC) \cup dropped
    BY <2>1 DEF Conserved, InHands
  <2> DEFINE held == Elements(table) \cup Elements(batch) \cup Elements(pointsC)
  <2>3. held' = held
    BY <1>1 DEF Elements
  <2>4. Conserved' = (1..committed' = held' \cup undecoded' \cup next'..committed' \cup dropped')
    BY DEF Conserved, InHands
  <2>5. 1..committed = held \cup undecoded \cup dropped
    BY <2>2
  <2> HIDE DEF held
  <2>6. CASE ReadMessage(n)
    <3>1. next'..committed' = (committed + 1)..(committed + n) /\ UNCHANGED <<undecoded, dropped>>
      BY <2>6, <1>1 DEF ReadMessage
    <3> QED
      BY <3>1, <2>1, <2>3, <2>4, <2>5
  <2>7. CASE ReadUndecodable(n)
    <3>1. /\ next'..committed' = {} /\ UNCHANGED dropped
          /\ undecoded' = undecoded \cup (committed + 1)..(committed + n)
      BY <2>7, <1>1 DEF ReadUndecodable
    <3> QED
      BY <3>1, <2>1, <2>3, <2>4, <2>5
  <2>8. CASE ReadFailsCommitted(n)
    <3>1. /\ next'..committed' = {} /\ UNCHANGED undecoded
          /\ dropped' = dropped \cup (committed + 1)..(committed + n)
      BY <2>8, <1>1 DEF ReadFailsCommitted, ReadEnds
    <3> QED
      BY <3>1, <2>1, <2>3, <2>4, <2>5
  <2> QED
    BY <2>6, <2>7, <2>8
<1>7. ControlOK'
  <2>1. CASE ReadMessage(n)
    BY <2>1, <1>1 DEF ReadMessage, ControlOK, insertVars
  <2>2. CASE ReadUndecodable(n)
    BY <2>2, <1>1 DEF ReadUndecodable, ControlOK, insertVars
  <2>3. CASE ReadFailsCommitted(n)
    BY <2>3, <1>1, FaultsAssumption
       DEF ReadFailsCommitted, ReadEnds, Fault, ControlOK, TypeOK, insertVars
  <2> QED
    BY <2>1, <2>2, <2>3
<1> QED
  BY <1>4, <1>5, <1>6, <1>7

(* A point moves from the reader's hand to the channel.                    *)
LEMMA SendPointStep ==
  ASSUME IInv, SendPoint
  PROVE  IInv'
<1> USE DEF IInv
<1>1. /\ reader = "send" /\ next <= committed /\ committed \in 0..MaxPoints
      /\ Len(pointsC) < BufferSize /\ MaxPoints \in Nat /\ next \in Nat \ {0}
      /\ pointsC' = Append(pointsC, next) /\ next' = next + 1
      /\ reader' = IF next = committed THEN "loop" ELSE "send"
      /\ UNCHANGED <<committed, undecoded, inserter, batch, isDone, table, cancelled,
                     dropped, faults>>
  BY PointsAssumption DEF SendPoint, ControlOK, TypeOK, insertVars
<1>2. next \in Points
  BY <1>1 DEF Points
<1>3. /\ pointsC' \in Seq(Points) /\ Len(pointsC') = Len(pointsC) + 1
      /\ Elements(pointsC') = Elements(pointsC) \cup {next}
      /\ Increasing(pointsC')
  BY <1>1, <1>2, AppendPoint DEF OrderOK, TypeOK
<1>4. TypeOK'
  <2>1. Len(pointsC') <= BufferSize
    BY <1>1, <1>3, BufferAssumption, LenProperties DEF TypeOK
  <2> QED
    BY <1>1, <1>3, <2>1 DEF TypeOK, Reader
<1>5. OrderOK'
  <2>1. Elements(table)' = Elements(table) /\ Elements(batch)' = Elements(batch)
    BY <1>1 DEF Elements
  <2>2. \A x \in Elements(table) \cup Elements(batch) \cup Elements(pointsC) :
          x \in Nat /\ x < next
    BY ElementsArePoints DEF OrderOK, TypeOK, Points
  <2>3. \A x \in Elements(table) \cup Elements(batch) \cup Elements(pointsC') : x < next + 1
    BY <2>2, <1>1, <1>3
  <2>4. /\ Before(Elements(table), Elements(pointsC'))
        /\ Before(Elements(batch), Elements(pointsC'))
    BY <2>2, <1>3 DEF OrderOK, Before
  <2> QED
    BY <1>1, <1>3, <2>1, <2>3, <2>4 DEF OrderOK, Increasing
<1>6. Conserved'
  <2>1. next..committed = {next} \cup (next + 1)..committed
    BY <1>1
  <2>2. InHands' = Elements(batch) \cup Elements(pointsC') \cup (next + 1)..committed
    BY <1>1 DEF InHands, Elements
  <2>3. InHands' = InHands
    BY <2>1, <2>2, <1>3 DEF InHands
  <2>4. Elements(table)' = Elements(table)
    BY <1>1 DEF Elements
  <2> QED
    BY <2>3, <2>4, <1>1 DEF Conserved
<1>7. ControlOK'
  BY <1>1 DEF ControlOK
<1> QED
  BY <1>4, <1>5, <1>6, <1>7

(* A point moves from the channel to the batch.                            *)
LEMMA SelectPointStep ==
  ASSUME IInv, SelectPoint
  PROVE  IInv' /\ InHands' = InHands
<1> USE DEF IInv
<1>1. /\ inserter = "select" /\ Len(batch) < TriggerThreshold /\ pointsC # <<>>
      /\ batch' = Append(batch, Head(pointsC)) /\ pointsC' = Tail(pointsC)
      /\ inserter' = IF Len(batch') >= TriggerThreshold THEN "flush" ELSE "select"
      /\ UNCHANGED <<committed, next, reader, undecoded, isDone, table, cancelled,
                     dropped, faults>>
  BY DEF SelectPoint, ControlOK, readVars
<1>2. /\ Head(pointsC) \in Points /\ pointsC' \in Seq(Points)
      /\ Len(pointsC') = Len(pointsC) - 1
      /\ Elements(pointsC) = {Head(pointsC)} \cup Elements(pointsC')
      /\ \A x \in Elements(pointsC') : Head(pointsC) < x
      /\ Increasing(pointsC')
  BY <1>1, TakeHead DEF OrderOK, TypeOK
<1>3. \A x \in Elements(batch) : x < Head(pointsC)
  BY <1>2 DEF OrderOK, Before
<1>4. /\ batch' \in Seq(Points) /\ Len(batch') = Len(batch) + 1
      /\ Elements(batch') = Elements(batch) \cup {Head(pointsC)}
      /\ Increasing(batch')
  BY <1>1, <1>2, <1>3, AppendPoint DEF OrderOK, TypeOK
<1>5. Len(batch) \in Nat /\ Len(pointsC) \in Nat
  BY LenProperties DEF TypeOK
<1>6. TypeOK'
  <2>1. Len(batch') <= TriggerThreshold /\ Len(pointsC') <= BufferSize
    BY <1>1, <1>2, <1>4, <1>5, BufferAssumption, ThresholdAssumption DEF TypeOK
  <2> QED
    BY <1>1, <1>2, <1>4, <2>1 DEF TypeOK, Inserter
<1>7. Elements(table)' = Elements(table)
  BY <1>1 DEF Elements
<1>8. OrderOK'
  <2>1. /\ Before(Elements(table), Elements(batch'))
        /\ Before(Elements(table), Elements(pointsC'))
    BY <1>2, <1>4 DEF OrderOK, Before
  <2>2. Before(Elements(batch'), Elements(pointsC'))
    BY <1>2, <1>4 DEF OrderOK, Before
  <2>3. \A x \in Elements(table) \cup Elements(batch') \cup Elements(pointsC') : x < next
    BY <1>2, <1>4 DEF OrderOK
  <2> QED
    BY <1>1, <1>2, <1>4, <1>7, <2>1, <2>2, <2>3 DEF OrderOK, Increasing
<1>9. InHands' = InHands
  <2>1. InHands' = Elements(batch') \cup Elements(pointsC') \cup next..committed
    BY <1>1 DEF InHands, Elements
  <2> QED
    BY <2>1, <1>2, <1>4 DEF InHands
<1>10. Conserved'
  BY <1>1, <1>7, <1>9 DEF Conserved
<1>11. ControlOK'
  BY <1>1, <1>4, <1>5, ThresholdAssumption DEF ControlOK
<1> QED
  BY <1>6, <1>8, <1>9, <1>10, <1>11

(* A point leaves the channel, and the batch refuses it.                   *)
LEMMA AppendFailsStep ==
  ASSUME IInv, AppendFails
  PROVE  /\ IInv' /\ Head(pointsC) \in InHands
         /\ InHands' = InHands \ {Head(pointsC)}
<1> USE DEF IInv
<1>1. /\ inserter = "select" /\ pointsC # <<>> /\ pointsC' = Tail(pointsC)
      /\ dropped' = dropped \cup {Head(pointsC)}
      /\ inserter' = "returned" /\ cancelled' = TRUE
      /\ UNCHANGED <<committed, next, reader, undecoded, isDone, batch, table>>
  BY DEF AppendFails, InsertFails, readVars
<1>2. /\ Head(pointsC) \in Points /\ pointsC' \in Seq(Points)
      /\ Len(pointsC') = Len(pointsC) - 1
      /\ Elements(pointsC) = {Head(pointsC)} \cup Elements(pointsC')
      /\ \A x \in Elements(pointsC') : Head(pointsC) < x
      /\ Increasing(pointsC')
  BY <1>1, TakeHead DEF OrderOK, TypeOK
<1>3. faults' \in 0..MaxFaults /\ faults' > 0
  <2>1. CASE cancelled /\ UNCHANGED faults
    BY <2>1, FaultsAssumption DEF TypeOK, ControlOK
  <2>2. CASE Fault
    BY <2>2, FaultsAssumption DEF Fault, TypeOK
  <2> QED
    BY <2>1, <2>2 DEF AppendFails, InsertFails
<1>4. TypeOK'
  <2>1. Len(pointsC') <= BufferSize
    <3>1. Len(pointsC) \in Nat /\ Len(pointsC) <= BufferSize
      BY LenProperties DEF TypeOK
    <3>2. Len(pointsC') \in Nat /\ Len(pointsC') = Len(pointsC) - 1
      BY <1>2, LenProperties
    <3> QED
      BY <3>1, <3>2, BufferAssumption
  <2> QED
    BY <1>1, <1>2, <1>3, <2>1 DEF TypeOK, Inserter
<1>5. Elements(table)' = Elements(table) /\ Elements(batch)' = Elements(batch)
  BY <1>1 DEF Elements
<1>6. OrderOK'
  <2>1. /\ Before(Elements(table), Elements(pointsC'))
        /\ Before(Elements(batch), Elements(pointsC'))
        /\ \A x \in Elements(pointsC') : x < next
    BY <1>2 DEF OrderOK, Before
  <2> QED
    BY <1>1, <1>2, <1>5, <2>1 DEF OrderOK, Increasing
<1>7. InHands' = Elements(batch) \cup Elements(pointsC') \cup next..committed
  <2>1. InHands' = Elements(batch)' \cup Elements(pointsC') \cup next'..committed'
    BY DEF InHands, Elements
  <2> QED
    BY <2>1, <1>1, <1>5
<1>8. Head(pointsC) \notin Elements(batch) \cup Elements(pointsC') \cup next..committed
  <2>1. /\ Head(pointsC) \in Nat /\ Head(pointsC) < next
        /\ next \in Nat /\ committed \in Nat
    BY <1>2 DEF OrderOK, TypeOK, Points
  <2>2. Head(pointsC) \notin next..committed
    BY <2>1
  <2>3. Head(pointsC) \notin Elements(pointsC')
    BY <2>1, <1>2
  <2>4. Head(pointsC) \notin Elements(batch)
    <3>1. \A x \in Elements(batch) : x < Head(pointsC)
      BY <1>2 DEF OrderOK, Before
    <3> QED
      BY <3>1, <2>1
  <2> QED
    BY <2>2, <2>3, <2>4
<1>9. Head(pointsC) \in InHands /\ InHands' = InHands \ {Head(pointsC)}
  BY <1>2, <1>7, <1>8 DEF InHands
<1>10. Conserved'
  BY <1>1, <1>5, <1>9 DEF Conserved
<1>11. ControlOK'
  BY <1>1, <1>3 DEF ControlOK
<1> QED
  BY <1>4, <1>6, <1>9, <1>10, <1>11

(* The rows of the batch are stored, whatever Send reports.                *)
LEMMA StoreStep ==
  ASSUME IInv,
         \/ BatchSend
         \/ BatchSendFails /\ table' = table \o batch /\ batch' = <<>>
  PROVE  /\ IInv'
         /\ Elements(table)' = Elements(table) \cup Elements(batch)
         /\ InHands' = InHands \ Elements(batch)
<1> USE DEF IInv
<1>1. /\ inserter = "flush" /\ inserter' \in {"prepare", "returned"}
      /\ table' = table \o batch /\ batch' = <<>>
      /\ UNCHANGED <<committed, next, reader, undecoded, pointsC, isDone, dropped>>
  BY DEF BatchSend, BatchSendFails, InsertFails, readVars
<1>2. /\ faults' \in 0..MaxFaults /\ cancelled' \in BOOLEAN
      /\ cancelled => cancelled'
      /\ cancelled' => faults' > 0
      /\ faults' = 0 => faults = 0
  <2>1. /\ faults \in 0..MaxFaults /\ cancelled \in BOOLEAN /\ MaxFaults \in Nat
        /\ cancelled => faults > 0
    BY FaultsAssumption DEF TypeOK, ControlOK
  <2>2. CASE UNCHANGED <<cancelled, faults>>
    BY <2>1, <2>2
  <2>3. CASE cancelled' = TRUE /\ cancelled /\ UNCHANGED faults
    BY <2>1, <2>3
  <2>4. CASE cancelled' = TRUE /\ Fault
    BY <2>1, <2>4 DEF Fault
  <2> QED
    BY <2>2, <2>3, <2>4 DEF BatchSend, BatchSendFails, InsertFails
<1>3. /\ table' \in Seq(Points) /\ Increasing(table')
      /\ Elements(table') = Elements(table) \cup Elements(batch)
  BY <1>1, ConcatPoints DEF OrderOK, TypeOK
<1>4. /\ batch' \in Seq(Points) /\ Len(batch') = 0
      /\ Elements(batch') = {} /\ Increasing(batch')
  BY <1>1, NoElements, EmptySeq
<1>5. TypeOK'
  <2>1. Len(batch') <= TriggerThreshold
    BY <1>4, ThresholdAssumption
  <2> QED
    BY <1>1, <1>2, <1>3, <1>4, <2>1 DEF TypeOK, Inserter
<1>6. Elements(pointsC)' = Elements(pointsC)
  BY <1>1 DEF Elements
<1>7. OrderOK'
  <2>1. /\ Before(Elements(table'), Elements(batch'))
        /\ Before(Elements(table'), Elements(pointsC))
        /\ Before(Elements(batch'), Elements(pointsC))
    BY <1>3, <1>4 DEF OrderOK, Before
  <2>2. \A x \in Elements(table') \cup Elements(batch') \cup Elements(pointsC) : x < next
    BY <1>3, <1>4 DEF OrderOK
  <2> QED
    BY <1>1, <1>3, <1>4, <1>6, <2>1, <2>2 DEF OrderOK, Increasing
<1>8. InHands' = Elements(pointsC) \cup next..committed
  <2>1. InHands' = Elements(batch') \cup Elements(pointsC)' \cup next'..committed'
    BY DEF InHands
  <2> QED
    BY <2>1, <1>1, <1>4, <1>6
<1>9. Elements(batch) \cap (Elements(pointsC) \cup next..committed) = {}
  <2>1. \A x \in Elements(batch) \cup Elements(pointsC) : x \in Nat
    BY ElementsArePoints DEF TypeOK, Points
  <2>2. next \in Nat /\ committed \in Nat
    BY DEF TypeOK
  <2>3. \A x \in Elements(batch) : x \notin next..committed
    BY <2>1, <2>2 DEF OrderOK
  <2>4. \A x \in Elements(batch) : x \notin Elements(pointsC)
    BY <2>1 DEF OrderOK, Before
  <2> QED
    BY <2>3, <2>4
<1>10. InHands' = InHands \ Elements(batch)
  BY <1>8, <1>9 DEF InHands
<1>11. Conserved'
  BY <1>1, <1>3, <1>8 DEF Conserved, InHands
<1>12. ControlOK'
  BY <1>1, <1>2, <1>4 DEF ControlOK
<1> QED
  BY <1>3, <1>5, <1>7, <1>10, <1>11, <1>12

(* The process ends and takes the points in hands with it.                 *)
LEMMA DownStep ==
  ASSUME IInv, Exit \/ Die
  PROVE  IInv' /\ InHands' = {}
<1> USE DEF IInv
<1>1. /\ reader' = "down" /\ inserter' = "down" /\ pointsC' = <<>> /\ batch' = <<>>
      /\ next' = committed + 1 /\ dropped' = dropped \cup InHands
      /\ UNCHANGED <<committed, undecoded, table, isDone, cancelled>>
  BY DEF Exit, Die, Down
<1>2. faults' \in 0..MaxFaults /\ faults' > 0
  BY FaultsAssumption DEF Exit, Die, Fault, TypeOK, ControlOK
<1>3. /\ <<>> \in Seq(Points) /\ Len(<<>>) = 0
      /\ Elements(<<>>) = {} /\ Increasing(<<>>)
  BY EmptySeq, NoElements
<1>4. /\ committed \in 0..MaxPoints /\ MaxPoints \in Nat /\ next \in Nat \ {0}
      /\ next <= committed + 1
  BY PointsAssumption DEF TypeOK
<1>5. InHands \subseteq Points
  <2>1. next..committed \subseteq Points
    BY <1>4 DEF Points
  <2> QED
    BY <2>1, ElementsArePoints DEF InHands, TypeOK
<1>6. TypeOK'
  <2>1. Len(pointsC') <= BufferSize /\ Len(batch') <= TriggerThreshold
    BY <1>1, <1>3, BufferAssumption, ThresholdAssumption
  <2>2. next' \in 1..(committed' + 1)
    BY <1>1, <1>4
  <2> QED
    BY <1>1, <1>2, <1>3, <1>5, <2>1, <2>2 DEF TypeOK, Reader, Inserter
<1>7. Elements(table)' = Elements(table) /\ Elements(batch)' = {} /\ Elements(pointsC)' = {}
  BY <1>1, <1>3 DEF Elements
<1>8. OrderOK'
  <2>1. \A x \in Elements(table) : x \in Nat /\ x < next
    BY ElementsArePoints DEF OrderOK, TypeOK, Points
  <2>2. \A x \in Elements(table) : x < committed + 1
    BY <2>1, <1>4
  <2> QED
    BY <1>1, <1>3, <1>7, <2>2 DEF OrderOK, Before, Increasing
<1>9. InHands' = {}
  <2>1. InHands' = Elements(batch)' \cup Elements(pointsC)' \cup next'..committed'
    BY DEF InHands
  <2>2. next'..committed' = {}
    BY <1>1, <1>4
  <2> QED
    BY <2>1, <2>2, <1>7
<1>10. Conserved'
  BY <1>1, <1>7, <1>9 DEF Conserved
<1>11. ControlOK'
  <2>1. ~(next' <= committed')
    BY <1>1, <1>4
  <2> QED
    BY <1>1, <1>2, <2>1 DEF ControlOK
<1> QED
  BY <1>6, <1>8, <1>9, <1>10, <1>11

-----------------------------------------------------------------------------
(* Every step preserves the invariant, and is a step of AtMostOnce or      *)
(* leaves its variables alone.                                             *)

abstractVars == <<committed, InHands, Elements(table), undecoded \cup dropped>>

LEMMA DataStutter ==
  ASSUME UNCHANGED dataVars
  PROVE  UNCHANGED abstractVars
BY DEF dataVars, abstractVars, InHands, Elements

LEMMA NextStep ==
  ASSUME IInv, [Next]_vars
  PROVE  IInv' /\ [sink!Next]_(sink!atMostOnceVars)
<1> USE DEF IInv
<1> DEFINE stutter == sink!atMostOnceVars' = sink!atMostOnceVars
<1>1. UNCHANGED abstractVars => stutter
  BY DEF abstractVars, sink!atMostOnceVars
<1> HIDE DEF stutter
<1>2. ASSUME \/ CheckContext \/ ReadFails \/ PrepareBatch \/ PrepareFails
             \/ SelectDone \/ SelectTimer \/ Interrupt \/ Restart
             \/ BatchSendFails /\ UNCHANGED <<batch, table>>
             \/ UNCHANGED vars
      PROVE  IInv' /\ stutter
  <2>1. UNCHANGED dataVars
    BY <1>2 DEF dataVars, CheckContext, ReadFails, ReadEnds, PrepareBatch, PrepareFails,
       InsertFails, SelectDone, SelectTimer, Interrupt, Restart, BatchSendFails, vars,
       readVars, insertVars
  <2> QED
    BY <2>1, <1>1, <1>2, ControlSteps, DataStutter
<1>3. ASSUME NEW n \in 1..MaxMessagePoints,
             ReadMessage(n) \/ ReadUndecodable(n) \/ ReadFailsCommitted(n)
      PROVE  IInv' /\ sink!Next
  <2>1. IInv'
    BY <1>3, ReceiveSteps
  <2>2. /\ committed' = committed + n /\ next = committed + 1
        /\ n \in 1..(MaxPoints - committed) /\ committed \in Nat
        /\ UNCHANGED <<pointsC, batch, table>>
    BY <1>3, PointsAssumption DEF ReadMessage, ReadUndecodable, ReadFailsCommitted,
       Receive, ReadEnds, insertVars, TypeOK, ControlOK
  <2> DEFINE held == Elements(batch) \cup Elements(pointsC)
             arrived == (committed + 1)..(committed + n)
  <2>3. held' = held /\ Elements(table)' = Elements(table)
    BY <2>2 DEF Elements
  <2>4. InHands = held /\ InHands' = held' \cup next'..committed'
    <3>1. next..committed = {}
      BY <2>2
    <3> QED
      BY <3>1 DEF InHands
  <2> HIDE DEF held
  <2>5. CASE ReadMessage(n)
    <3>1. next' = committed + 1 /\ UNCHANGED <<undecoded, dropped>>
      BY <2>5 DEF ReadMessage
    <3>2. InHands' = InHands \cup arrived
      BY <2>2, <2>3, <2>4, <3>1
    <3>3. sink!Take(n)
      BY <2>2, <2>3, <3>1, <3>2 DEF sink!Take
    <3> QED
      BY <2>1, <2>2, <3>3 DEF sink!Next
  <2>6. CASE ReadUndecodable(n) \/ ReadFailsCommitted(n)
    <3>1. /\ next' = committed + n + 1
          /\ undecoded' \cup dropped' = undecoded \cup dropped \cup arrived
      BY <2>6 DEF ReadUndecodable, ReadFailsCommitted, ReadEnds
    <3>2. InHands' = InHands
      <4>1. next'..committed' = {}
        BY <2>2, <3>1
      <4> QED
        BY <4>1, <2>3, <2>4
    <3>3. sink!TakeAndLose(n)
      BY <2>2, <2>3, <3>1, <3>2 DEF sink!TakeAndLose
    <3> QED
      BY <2>1, <2>2, <3>3 DEF sink!Next
  <2> QED
    BY <1>3, <2>5, <2>6
<1>4. ASSUME SendPoint PROVE IInv' /\ stutter
  <2>1. next \in Nat /\ committed \in Nat /\ next <= committed
        /\ next' = next + 1 /\ pointsC' = Append(pointsC, next)
        /\ UNCHANGED <<committed, undecoded, batch, table, dropped>>
    BY <1>4 DEF SendPoint, TypeOK, ControlOK, insertVars
  <2>2. Elements(pointsC') = Elements(pointsC) \cup {next}
    <3>1. next \in Points
      BY <2>1, PointsAssumption DEF TypeOK, Points
    <3> QED
      BY <2>1, <3>1, AppendPoint DEF TypeOK, OrderOK
  <2>3. InHands' = InHands
    <3>1. next..committed = {next} \cup (next + 1)..committed
      BY <2>1
    <3>2. InHands' = Elements(batch) \cup Elements(pointsC') \cup (next + 1)..committed
      BY <2>1 DEF InHands, Elements
    <3> QED
      BY <2>2, <3>1, <3>2 DEF InHands
  <2>4. UNCHANGED abstractVars
    BY <2>1, <2>3 DEF abstractVars, Elements
  <2> QED
    BY <1>1, <1>4, <2>4, SendPointStep
<1>5. ASSUME SelectPoint PROVE IInv' /\ stutter
  <2>1. IInv' /\ InHands' = InHands
    BY <1>5, SelectPointStep
  <2>2. UNCHANGED <<committed, undecoded, table, dropped>>
    BY <1>5 DEF SelectPoint, readVars
  <2>3. UNCHANGED abstractVars
    BY <2>1, <2>2 DEF abstractVars, Elements
  <2> QED
    BY <1>1, <2>1, <2>3
<1>6. ASSUME \/ BatchSend
             \/ BatchSendFails /\ table' = table \o batch /\ batch' = <<>>
      PROVE  IInv' /\ sink!Next
  <2>1. /\ IInv' /\ InHands' = InHands \ Elements(batch)
        /\ Elements(table)' = Elements(table) \cup Elements(batch)
    BY <1>6, StoreStep
  <2>2. UNCHANGED <<committed, undecoded, dropped>>
    BY <1>6 DEF BatchSend, BatchSendFails, InsertFails, readVars
  <2>3. Elements(batch) \in SUBSET InHands
    BY DEF InHands
  <2>4. sink!Deliver(Elements(batch))
    BY <2>1, <2>2, <2>3 DEF sink!Deliver
  <2> QED
    BY <2>1, <2>3, <2>4 DEF sink!Next
<1>7. ASSUME Exit \/ Die PROVE IInv' /\ sink!Next
  <2>1. IInv' /\ InHands' = {}
    BY <1>7, DownStep
  <2>2. /\ UNCHANGED <<committed, undecoded, table>>
        /\ dropped' = dropped \cup InHands
    BY <1>7 DEF Exit, Die, Down
  <2>3. Elements(table)' = Elements(table)
    BY <2>2 DEF Elements
  <2>4. sink!Lose(InHands)
    BY <2>1, <2>2, <2>3 DEF sink!Lose
  <2> QED
    BY <2>1, <2>4 DEF sink!Next
<1>8. CASE BatchSendFails
  BY <1>2, <1>6, <1>8 DEF BatchSendFails, stutter
<1>9. ASSUME AppendFails PROVE IInv' /\ sink!Next
  <2>1. /\ IInv' /\ Head(pointsC) \in InHands
        /\ InHands' = InHands \ {Head(pointsC)}
    BY <1>9, AppendFailsStep
  <2>2. /\ UNCHANGED <<committed, undecoded, table>>
        /\ dropped' = dropped \cup {Head(pointsC)}
    BY <1>9 DEF AppendFails, InsertFails, readVars
  <2>3. Elements(table)' = Elements(table) /\ {Head(pointsC)} \in SUBSET InHands
    BY <2>1, <2>2 DEF Elements
  <2>4. sink!Lose({Head(pointsC)})
    BY <2>1, <2>2, <2>3 DEF sink!Lose
  <2> QED
    BY <2>1, <2>3, <2>4 DEF sink!Next
<1> QED
  BY <1>2, <1>3, <1>4, <1>5, <1>6, <1>7, <1>8, <1>9
     DEF Next, ReadStep, InsertStep, stutter

-----------------------------------------------------------------------------
(* The theorems.                                                           *)

(* The inductive invariant holds in every reachable state.                 *)
THEOREM Invariance == Spec => []IInv
<1>1. Init => IInv
  BY InitIInv
<1>2. IInv /\ [Next]_vars => IInv'
  BY NextStep
<1> QED
  BY <1>1, <1>2, PTL DEF Spec

(* Every variable keeps its type; the channel never holds more than        *)
(* BufferSize points and a batch never more than TriggerThreshold rows.    *)
THEOREM TypeCorrect == Spec => []TypeOK
<1>1. IInv => TypeOK
  BY DEF IInv
<1> QED
  BY <1>1, Invariance, PTL

(* The rows of the table are in the order of the topic, each point at most *)
(* once, whatever fails and however often the process restarts.            *)
THEOREM Ordered == Spec => []StoredInOrder
<1>1. IInv => StoredInOrder
  BY DEF IInv, OrderOK, StoredInOrder
<1> QED
  BY <1>1, Invariance, PTL

(* No point of a committed message disappears, and without a fault none is *)
(* dropped.                                                                *)
THEOREM Accounted == Spec => []PointsAccounted
<1>1. IInv => PointsAccounted
  BY DEF IInv, Conserved, ControlOK, PointsAccounted
<1> QED
  BY <1>1, Invariance, PTL

(* The two goroutines, with their channel, batch, failures and restarts,   *)
(* implement at-most-once delivery.                                        *)
THEOREM Refinement == Spec => DeliversAtMostOnce
<1>1. Init => sink!Init
  <2>1. ASSUME Init PROVE InHands = {} /\ Elements(table) = {}
    BY <2>1, NoElements DEF Init, InHands
  <2> QED
    BY <2>1 DEF Init, sink!Init
<1>2. IInv /\ [Next]_vars => [sink!Next]_(sink!atMostOnceVars)
  BY NextStep
<1> QED
  BY <1>1, <1>2, Invariance, PTL DEF Spec, DeliversAtMostOnce, sink!Spec
=============================================================================
