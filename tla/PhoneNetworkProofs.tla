------------------------- MODULE PhoneNetworkProofs -------------------------
(***************************************************************************)
(* The two ends of the phone's network: the MQTT connection over which it  *)
(* sends (SensorsNetwork), and the predictions that the map asks the api   *)
(* for (MapPoints).  They share no variable; each has its own theorems.    *)
(***************************************************************************)
EXTENDS SensorsNetwork, MapPoints, FiniteSetTheorems, SequenceTheorems,
        WellFoundedInduction, TLAPS

-----------------------------------------------------------------------------
(* Type correctness and the single connection of SensorsNetwork, for any   *)
(* number of senders, addresses, accounts and faults.  The conjunction of  *)
(* the two is inductive: a send overwrites the client it built before, and *)
(* only the single connection says that this client is closed by then.     *)

IInv == TypeOK /\ OneConnection

Open(c) == c.state \in {"connecting", "connected"}

LEMMA ClosedType == Closed \in Clients
  BY AccountsAssumption DEF Closed, Clients

(* Disconnecting the shared client keeps the type and closes the last open *)
(* connection.                                                             *)
LEMMA DisconnectedCloses ==
  ASSUME NEW cs \in [Senders -> Clients], client \in Senders \cup {None},
         \A s \in Senders : Open(cs[s]) => client = s
  PROVE  /\ Disconnected(cs) \in [Senders -> Clients]
         /\ \A s \in Senders : ~Open(Disconnected(cs)[s])
  <1>1. CASE client = None
    BY <1>1, NoneAssumption DEF Disconnected, Open
  <1>2. CASE client \in Senders
    <2> DEFINE ds == [cs EXCEPT ![client].state = "disconnected"]
    <2>1. Disconnected(cs) = ds
      BY <1>2, NoneAssumption DEF Disconnected
    <2>2. ds \in [Senders -> Clients]
      BY <1>2 DEF Clients
    <2>3. \A s \in Senders : ~Open(ds[s])
      BY <1>2 DEF Clients, Open
    <2> QED BY <2>1, <2>2, <2>3
  <1> QED BY <1>1, <1>2

(* However a send ends with clients cs of which only the shared one may be *)
(* open, the invariant holds after it.                                     *)
LEMMA SendEndsKeepInvariant ==
  ASSUME IInv, NEW s \in Senders, NEW cs \in [Senders -> Clients],
         \A r \in Senders : Open(cs[r]) => client = r,
         faults' \in 0..MaxFaults,
         \/ GiveUp(s, cs)
         \/ Raise(s, cs)
         \/ client # None /\ Publish(s, cs)
  PROVE  IInv'
  <1> USE DEF IInv, TypeOK, OneConnection, Return
  <1>1. CASE GiveUp(s, cs)
    <2>1. Disconnected(cs) \in [Senders -> Clients]
          /\ \A r \in Senders : ~Open(Disconnected(cs)[r])
      BY DisconnectedCloses
    <2> QED BY <1>1, <2>1 DEF GiveUp, Open
  <1>2. CASE Raise(s, cs)
    BY <1>2 DEF Raise, Open
  <1>3. CASE client # None /\ Publish(s, cs)
    <2>1. cs[client].up \in BOOLEAN
      BY <1>3 DEF Clients
    <2> QED BY <1>3, <2>1 DEF Publish, Open
  <1> QED BY <1>1, <1>2, <1>3

(* The end of connect leaves a client open only if it is the shared one.   *)
LEMMA EndedOpensShared ==
  ASSUME IInv, NEW s \in Senders,
         NEW state \in {"disconnected", "faulted", "connected"},
         state = "connected" => clients[s].state = "connecting"
  PROVE  /\ Ended(s, state) \in [Senders -> Clients]
         /\ \A r \in Senders : Open(Ended(s, state)[r]) => client = r
  <1> DEFINE new == [account |-> clients[s].account, up |-> (state = "connected"),
                     state |-> state]
  <1>1. clients \in [Senders -> Clients] /\ clients[s] \in Clients
    BY DEF IInv, TypeOK
  <1>2. (state = "connected") \in BOOLEAN
    OBVIOUS
  <1>3. new \in Clients
    BY <1>1, <1>2 DEF Clients
  <1>4. Ended(s, state) = [clients EXCEPT ![s] = new]
    BY DEF Ended
  <1>5. Ended(s, state) \in [Senders -> Clients]
    BY <1>1, <1>3, <1>4
  <1>6. ASSUME NEW r \in Senders, Open(Ended(s, state)[r]) PROVE client = r
    <2>1. CASE r = s
      <3>1. Ended(s, state)[r].state = state
        BY <1>1, <1>4, <2>1
      <3>2. state = "connected"
        BY <1>6, <3>1 DEF Open
      <3> QED BY <2>1, <3>2 DEF IInv, OneConnection
    <2>2. CASE r # s
      BY <1>1, <1>4, <1>6, <2>2 DEF Open, IInv, OneConnection
    <2> QED BY <2>1, <2>2
  <1> QED BY <1>5, <1>6

(* A failing connect stays within the bound on faults.                     *)
LEMMA ConnectFailsFaults ==
  ASSUME IInv, NEW s \in Senders, ConnectFails(s)
  PROVE  faults' \in 0..MaxFaults
  BY FaultsAssumption DEF IInv, TypeOK, ConnectFails, Fault

LEMMA InitInvariant == Init => IInv
  <1> SUFFICES ASSUME Init PROVE IInv
    OBVIOUS
  <1>1. clients \in [Senders -> Clients]
    BY ClosedType DEF Init
  <1>2. OneConnection
    BY DEF Init, OneConnection, Closed
  <1>3. faults \in 0..MaxFaults
    BY FaultsAssumption DEF Init
  <1> QED BY <1>1, <1>2, <1>3 DEF Init, IInv, TypeOK

(* The steps of send, up to its await or its end.                          *)
LEMMA SendInvariant ==
  ASSUME IInv, NEW s \in Senders, Send(s)
  PROVE  IInv'
  <1> PICK url \in Urls, account \in Accounts :
        \/ SendShared(s, url, account)
        \/ SendConnects(s, url, account)
        \/ SendUnparsable(s, url, account)
    BY DEF Send
  <1>0. \A r \in Senders : Open(clients[r]) => client = r
    BY DEF IInv, OneConnection, Open
  <1>1. Disconnected(clients) \in [Senders -> Clients]
        /\ \A r \in Senders : ~Open(Disconnected(clients)[r])
    BY <1>0, DisconnectedCloses DEF IInv, TypeOK
  <1>2. CASE SendShared(s, url, account)
    BY <1>0, <1>2, SendEndsKeepInvariant
    DEF SendShared, UseClient, IInv, TypeOK
  <1>3. CASE SendConnects(s, url, account)
    <2> DEFINE new == [account |-> account, up |-> FALSE, state |-> "connecting"]
    <2>1. new \in Clients
      BY DEF Clients
    <2>2. clients' = [Disconnected(clients) EXCEPT ![s] = new]
      BY <1>3 DEF SendConnects
    <2>3. TypeOK'
      BY <1>1, <1>3, <2>1, <2>2, NoneAssumption DEF SendConnects, IInv, TypeOK
    <2>4. OneConnection'
      BY <1>1, <1>3, <2>2 DEF SendConnects, OneConnection, Open
    <2> QED BY <2>3, <2>4 DEF IInv
  <1>4. CASE SendUnparsable(s, url, account)
    BY <1>1, <1>4
    DEF SendUnparsable, Return, IInv, TypeOK, OneConnection, Open
  <1> QED BY <1>2, <1>3, <1>4

(* The end of connect, whichever client is shared by then.                 *)
LEMMA ConnectInvariant ==
  ASSUME IInv, NEW s \in Senders, ConnectEnds(s) \/ ConnectRaises(s)
  PROVE  IInv'
  <1>1. CASE Connected(s)
    <2>1. /\ Ended(s, "connected") \in [Senders -> Clients]
          /\ \A r \in Senders : Open(Ended(s, "connected")[r]) => client = r
      BY <1>1, EndedOpensShared DEF Connected
    <2>2. faults' \in 0..MaxFaults
      BY <1>1 DEF Connected, IInv, TypeOK
    <2> QED BY <1>1, <2>1, <2>2, SendEndsKeepInvariant
            DEF Connected, Resume, UseClient
  <1>2. /\ Ended(s, "disconnected") \in [Senders -> Clients]
        /\ \A r \in Senders : Open(Ended(s, "disconnected")[r]) => client = r
    BY EndedOpensShared
  <1>3. CASE NotConnected(s)
    BY <1>2, <1>3, ConnectFailsFaults, SendEndsKeepInvariant
    DEF NotConnected, Resume, UseClient
  <1>4. CASE ConnectRefused(s)
    BY <1>2, <1>4, ConnectFailsFaults, SendEndsKeepInvariant
    DEF ConnectRefused
  <1>5. CASE ConnectRaises(s)
    <2>1. /\ Ended(s, "faulted") \in [Senders -> Clients]
          /\ \A r \in Senders : Open(Ended(s, "faulted")[r]) => client = r
      BY EndedOpensShared
    <2>2. faults' \in 0..MaxFaults
      BY <1>5, FaultsAssumption DEF ConnectRaises, Fault, IInv, TypeOK
    <2> QED BY <1>5, <2>1, <2>2, SendEndsKeepInvariant DEF ConnectRaises
  <1> QED BY <1>1, <1>3, <1>4, <1>5 DEF ConnectEnds

LEMMA StepInvariant == IInv /\ [Next]_vars => IInv'
  <1> SUFFICES ASSUME IInv, [Next]_vars PROVE IInv'
    OBVIOUS
  <1>1. CASE UNCHANGED vars
    BY <1>1 DEF vars, IInv, TypeOK, OneConnection
  <1>2. ASSUME NEW s \in Senders, Send(s) PROVE IInv'
    BY <1>2, SendInvariant
  <1>3. ASSUME NEW s \in Senders, ConnectEnds(s) \/ ConnectRaises(s) PROVE IInv'
    BY <1>3, ConnectInvariant
  <1>4. ASSUME NEW s \in Senders, LinkBreaks(s) PROVE IInv'
    <2>1. faults' \in 0..MaxFaults
      BY <1>4, FaultsAssumption DEF LinkBreaks, Fault, IInv, TypeOK
    <2>2. clients' \in [Senders -> Clients]
      <3>1. clients \in [Senders -> Clients] /\ clients[s] \in Clients
        BY DEF IInv, TypeOK
      <3>2. [clients[s] EXCEPT !.up = FALSE] \in Clients
        BY <3>1 DEF Clients
      <3>3. clients' = [clients EXCEPT ![s] = [clients[s] EXCEPT !.up = FALSE]]
        BY <1>4 DEF LinkBreaks
      <3> QED BY <3>1, <3>2, <3>3
    <2>3. OneConnection'
      BY <1>4 DEF LinkBreaks, IInv, TypeOK, OneConnection, Clients
    <2> QED BY <1>4, <2>1, <2>2, <2>3 DEF LinkBreaks, IInv, TypeOK
  <1>5. ASSUME NEW s \in Senders, LinkDetected(s) PROVE IInv'
    BY <1>5 DEF LinkDetected, IInv, TypeOK, OneConnection, Clients
  <1> QED BY <1>1, <1>2, <1>3, <1>4, <1>5 DEF Next

THEOREM Invariance == Spec => []IInv
  BY InitInvariant, StepInvariant, PTL DEF Spec

(* Every variable of the shared connection keeps its type.                 *)
THEOREM TypeCorrect == Spec => []TypeOK
  <1>1. IInv => TypeOK BY DEF IInv
  <1> QED BY <1>1, Invariance, PTL

(* Whatever sends overlap, fail or change the address, no connection is    *)
(* open beside the shared one of sensors_network_impl.dart.                *)
THEOREM NoLeakedConnection == Spec => []OneConnection
  <1>1. IInv => OneConnection BY DEF IInv
  <1> QED BY <1>1, Invariance, PTL

-----------------------------------------------------------------------------
(* The map, for any views, filters, points, zooms and numbers of moves,    *)
(* changes and errors.  LayerOK, with what a load has inserted so far,     *)
(* makes VisibleIsCache and ShownOnce inductive; FilterFresh needs that a  *)
(* load whose answer will be cached asks for what the filter says.         *)

TilesAt(z) == [x : Int, y : Int, z : {z}]

(* What is cached for a tile lies inside the tile.                         *)
AnswersOK(z, answers) ==
  \A t \in DOMAIN answers :
    t \in TilesAt(z) /\ answers[t].points \subseteq {p \in Points : Inside(p, t)}

CacheOK(cache) ==
  \A z \in DOMAIN cache : z \in Zooms /\ AnswersOK(z, cache[z])

(* What the layer shows during a load, up to what the load has inserted.   *)
LoadOK ==
  load # NoLoad =>
    /\ loading /\ load.view \in Views
    /\ load.todo \in Seq(TilesAt(load.view.zoom)) /\ load.tile \in TilesAt(load.view.zoom)
    /\ load.view.zoom \in DOMAIN cachedPoints =>
         LET answers == cachedPoints[load.view.zoom]
         IN /\ load.tile \notin DOMAIN answers
            /\ load.inserted \subseteq DOMAIN answers
            /\ previousZoom = load.view.zoom =>
                 visible = MarkersOf(DOMAIN answers \ load.inserted, answers)

EmptyOK == previousZoom \notin DOMAIN cachedPoints => visible = EmptyBag

LayerOK ==
  /\ CacheOK(cachedPoints) /\ LoadOK /\ EmptyOK
  /\ VisibleIsCache /\ ShownOnce /\ loading \in BOOLEAN

(* The inner sides of two tiles of a zoom do not meet.                     *)
LEMMA FartherTile ==
  ASSUME NEW S \in Nat, NEW a \in Int, NEW b \in Int, a < b
  PROVE  (a + 1) * S <= b * S
  <1>1. b - (a + 1) \in Nat
    BY SMT
  <1>2. (b - (a + 1)) * S >= 0
    BY <1>1, SMT
  <1> QED BY <1>2, SMT

LEMMA TilesApart ==
  ASSUME NEW z \in Zooms, NEW s \in TilesAt(z), NEW t \in TilesAt(z),
         NEW p \in Points, Inside(p, s), Inside(p, t)
  PROVE  s = t
  <1>1. PICK S \in Nat : S = Side(z)
    BY SidesAssumption DEF Zooms
  <1>2. p.x \in Int /\ p.y \in Int
    BY PointsAssumption DEF Points
  <1>3. s.x \in Int /\ s.y \in Int /\ s.z = z /\ t.x \in Int /\ t.y \in Int /\ t.z = z
    BY DEF TilesAt
  <1>4. \A u \in {s, t} :
          /\ u.x * S < p.x /\ p.x < (u.x + 1) * S
          /\ u.y * S < p.y /\ p.y < (u.y + 1) * S
    <2>1. \A u \in {s, t} : Inside(p, u) /\ u.z = z
      BY <1>3
    <2> QED BY <2>1, <1>1, Zenon DEF Inside, FromPointTile
  <1>5. \A a, b, q \in Int : a * S < q /\ q < (a + 1) * S /\ b * S < q /\ q < (b + 1) * S => a = b
    <2> SUFFICES ASSUME NEW a \in Int, NEW b \in Int, NEW q \in Int,
                        a * S < q, q < (a + 1) * S, b * S < q, q < (b + 1) * S
                 PROVE  a = b
      OBVIOUS
    <2>1. CASE a < b
      <3>1. (a + 1) * S <= b * S
        BY <2>1, FartherTile
      <3> QED BY <3>1, SMT
    <2>2. CASE b < a
      <3>1. (b + 1) * S <= a * S
        BY <2>2, FartherTile
      <3> QED BY <3>1, SMT
    <2> QED BY <2>1, <2>2, SMT
  <1>6. s.x = t.x
    BY <1>2, <1>3, <1>4, <1>5, Zenon
  <1>7. s.y = t.y
    BY <1>2, <1>3, <1>4, <1>5, Zenon
  <1> QED BY <1>3, <1>6, <1>7 DEF TilesAt

LEMMA MarkersOnce ==
  ASSUME NEW z \in Zooms, NEW answers, AnswersOK(z, answers), NEW T \in SUBSET DOMAIN answers
  PROVE  MarkersOf(T, answers) = [p \in UNION {answers[t].points : t \in T} |-> 1]
  <1>1. \A p \in UNION {answers[t].points : t \in T} :
          Cardinality({t \in T : p \in answers[t].points}) = 1
    <2> SUFFICES ASSUME NEW s \in T, NEW p \in answers[s].points
                 PROVE  Cardinality({t \in T : p \in answers[t].points}) = 1
      OBVIOUS
    <2>1. \A t \in T : p \in answers[t].points => t = s
      <3> SUFFICES ASSUME NEW t \in T, p \in answers[t].points
                   PROVE  t = s
        OBVIOUS
      <3>1. s \in TilesAt(z) /\ t \in TilesAt(z) /\ p \in Points /\ Inside(p, s) /\ Inside(p, t)
        BY DEF AnswersOK
      <3> QED BY <3>1, TilesApart
    <2>2. {t \in T : p \in answers[t].points} = {s}
      BY <2>1
    <2> QED BY <2>2, FS_Singleton
  <1> QED BY <1>1 DEF MarkersOf

(* Adding the markers of tiles to those of the others gives all markers.   *)
LEMMA MarkersAdd ==
  ASSUME NEW z \in Zooms, NEW answers, AnswersOK(z, answers), NEW T \in SUBSET DOMAIN answers
  PROVE  MarkersOf(DOMAIN answers \ T, answers) (+) MarkersOf(T, answers)
           = MarkersOf(DOMAIN answers, answers)
  <1> DEFINE D == DOMAIN answers
             U(X) == UNION {answers[t].points : t \in X}
  <1>1. /\ MarkersOf(D \ T, answers) = [p \in U(D \ T) |-> 1]
        /\ MarkersOf(T, answers) = [p \in U(T) |-> 1]
        /\ MarkersOf(D, answers) = [p \in U(D) |-> 1]
    <2>1. D \ T \in SUBSET D /\ D \in SUBSET D
      OBVIOUS
    <2> QED BY <2>1, MarkersOnce
  <1>2. U(D \ T) \cup U(T) = U(D)
    OBVIOUS
  <1>3. \A p \in U(D \ T) : p \notin U(T)
    <2> SUFFICES ASSUME NEW s \in D \ T, NEW t \in T, NEW p \in answers[s].points,
                        p \in answers[t].points
                 PROVE  FALSE
      OBVIOUS
    <2>1. s \in TilesAt(z) /\ t \in TilesAt(z) /\ p \in Points /\ Inside(p, s) /\ Inside(p, t)
      BY DEF AnswersOK
    <2>2. s = t
      BY <2>1, TilesApart
    <2> QED BY <2>2
  <1> HIDE DEF U
  <1>4. [p \in U(D \ T) |-> 1] (+) [p \in U(T) |-> 1] = [p \in U(D) |-> 1]
    BY <1>2, <1>3 DEF (+)
  <1> QED BY <1>1, <1>4

-----------------------------------------------------------------------------
(* The tiles of a view.                                                    *)
LEMMA FloorCeiling ==
  ASSUME NEW S \in Nat \ {0}, NEW a \in Int, NEW b \in Int, a <= b
  PROVE  a \div S \in Int /\ -((-b) \div S) \in Int /\ a \div S <= -((-b) \div S)
  <1> DEFINE q == a \div S
             r == a % S
             u == (-b) \div S
             w == (-b) % S
  <1>1. q \in Int /\ r \in 0..(S - 1) /\ a = S * q + r
    BY SMT
  <1>2. u \in Int /\ w \in 0..(S - 1) /\ -b = S * u + w
    BY SMT
  <1> HIDE DEF q, r, u, w
  <1>3. CASE q + u >= 1
    <2>1. (q + u) * S >= S
      BY <1>1, <1>2, <1>3, SMT
    <2>2. (q + u) * S = a - b - r - w
      BY <1>1, <1>2, SMT
    <2> QED BY <1>1, <1>2, <2>1, <2>2, SMT
  <1>4. q + u <= 0 => q <= -u
    BY <1>1, <1>2, SMT
  <1>5. q \in Int /\ -u \in Int /\ q <= -u
    BY <1>1, <1>2, <1>3, <1>4, SMT
  <1> QED BY <1>5 DEF q, u

LEMMA ViewTiles ==
  ASSUME NEW v \in Views
  PROVE  TilesOf[v] \in Seq(TilesAt(v.zoom))
  <1>1. /\ v.zoom \in Nat /\ v.west \in Int /\ v.east \in Int
        /\ v.north \in Int /\ v.south \in Int
        /\ v.west <= v.east /\ v.north <= v.south
    BY ViewsAssumption
  <1>2. Side(v.zoom) \in Nat \ {0}
    BY SidesAssumption
  <1> DEFINE w == Width(v)
             h == Height(v)
  <1>3. /\ v.west \div Side(v.zoom) \in Int
        /\ -((-v.east) \div Side(v.zoom)) \in Int
        /\ v.west \div Side(v.zoom) <= -((-v.east) \div Side(v.zoom))
    BY <1>1, <1>2, FloorCeiling
  <1>4. /\ v.north \div Side(v.zoom) \in Int
        /\ -((-v.south) \div Side(v.zoom)) \in Int
        /\ v.north \div Side(v.zoom) <= -((-v.south) \div Side(v.zoom))
    BY <1>1, <1>2, FloorCeiling
  <1>5. Column(v) \in Int /\ w \in Nat \ {0}
    <2>1. \A a, b \in Int : a <= b => b - a + 1 \in Nat \ {0}
      BY SMT
    <2> QED BY <1>3, <2>1 DEF Column, Width
  <1>6. Row(v) \in Int /\ h \in Nat \ {0}
    <2>1. \A a, b \in Int : a <= b => b - a + 1 \in Nat \ {0}
      BY SMT
    <2> QED BY <1>4, <2>1 DEF Row, Height
  <1> HIDE DEF w, h
  <1>7. w * h \in Nat
    BY <1>5, <1>6, SMT
  <1>8. \A i \in 1..(w * h) :
          /\ Column(v) + ((i - 1) \div h) \in Int
          /\ Row(v) + ((i - 1) % h) \in Int
    BY <1>5, <1>6, <1>7, SMT
  <1>9. TilesOf[v] = [i \in 1..(w * h) |->
          [x |-> Column(v) + ((i - 1) \div h), y |-> Row(v) + ((i - 1) % h), z |-> v.zoom]]
    BY DEF TilesOf, w, h
  <1>10. \A i \in 1..(w * h) :
           [x |-> Column(v) + ((i - 1) \div h), y |-> Row(v) + ((i - 1) % h), z |-> v.zoom]
             \in TilesAt(v.zoom)
    BY <1>8, Zenon DEF TilesAt
  <1> QED BY <1>7, <1>9, <1>10

-----------------------------------------------------------------------------
(* The loop keeps the invariant of the layer from any point of a load on.  *)

(* The cache, the tiles inserted and the markers shown at that point.      *)
Midway(view, cache, inserted, shown) ==
  LET answers == cache[view.zoom]
  IN /\ CacheOK(cache) /\ view.zoom \in DOMAIN cache
     /\ inserted \subseteq DOMAIN answers
     /\ previousZoom = view.zoom =>
          shown = MarkersOf(DOMAIN answers \ inserted, answers)
     /\ previousZoom \notin DOMAIN cache => shown = EmptyBag
     /\ \A p \in DOMAIN shown : shown[p] = 1

LEMMA FinishKeepsLayer ==
  ASSUME NEW view \in Views, NEW cache, NEW inserted, NEW shown,
         Midway(view, cache, inserted, shown), cachedPoints' = cache,
         Finish(view, cache[view.zoom], inserted, shown)
  PROVE  LayerOK'
  <1> DEFINE answers == cache[view.zoom]
             D == DOMAIN answers
  <1>1. view.zoom \in Zooms /\ AnswersOK(view.zoom, answers) /\ view.zoom \in DOMAIN cache
    BY DEF Midway, CacheOK
  <1>2. visible' = MarkersOf(D, answers)
    <2>1. CASE previousZoom # view.zoom
      BY <2>1 DEF Finish
    <2>2. CASE previousZoom = view.zoom
      <3>1. shown = MarkersOf(D \ inserted, answers) /\ inserted \in SUBSET D
        BY <2>2 DEF Midway
      <3>2. visible' = shown (+) MarkersOf(inserted, answers)
        BY <2>2 DEF Finish
      <3> QED BY <1>1, <3>1, <3>2, MarkersAdd
    <2> QED BY <2>1, <2>2
  <1>3. previousZoom' = view.zoom /\ loading' = FALSE /\ load' = NoLoad
    BY DEF Finish
  <1>4. CacheOK(cachedPoints)'
    BY DEF Midway, CacheOK, AnswersOK
  <1>5. LoadOK'
    BY <1>3 DEF LoadOK
  <1>6. EmptyOK'
    BY <1>1, <1>3 DEF EmptyOK
  <1>7. VisibleIsCache'
    BY <1>2, <1>3 DEF VisibleIsCache, MarkersOf
  <1>8. ShownOnce'
    <2>1. visible' = [p \in UNION {answers[t].points : t \in D} |-> 1]
      <3>1. D \in SUBSET D
        OBVIOUS
      <3> QED BY <1>1, <1>2, <3>1, MarkersOnce
    <2> QED BY <2>1 DEF ShownOnce, BagToSet
  <1> QED BY <1>3, <1>4, <1>5, <1>6, <1>7, <1>8 DEF LayerOK

LEMMA ContinueKeepsLayer ==
  ASSUME NEW view \in Views, NEW todo \in Seq(TilesAt(view.zoom)), NEW cache,
         NEW inserted, NEW shown, Midway(view, cache, inserted, shown),
         Continue(view, todo, cache, inserted, shown)
  PROVE  LayerOK'
  <1> DEFINE answers == cache[view.zoom]
             missing == {i \in DOMAIN todo : todo[i] \notin DOMAIN answers}
  <1>1. cachedPoints' = cache
    BY DEF Continue
  <1>2. CASE missing = {}
    <2>1. Finish(view, answers, inserted, shown)
      BY <1>2 DEF Continue
    <2> QED BY <1>1, <2>1, FinishKeepsLayer
  <1>3. CASE missing # {}
    <2> DEFINE i == CHOOSE j \in missing : \A k \in missing : j <= k
    <2>1. /\ load' = [view |-> view, todo |-> SubSeq(todo, i + 1, Len(todo)),
                      tile |-> todo[i], source |-> function',
                      begin |-> filter.begin, end |-> filter.end,
                      inserted |-> inserted]
          /\ loading' = TRUE /\ visible' = shown /\ previousZoom' = previousZoom
      BY <1>3 DEF Continue
    <2>2. \E j \in missing : \A k \in missing : j <= k
      <3>1. DOMAIN todo = 1..Len(todo) /\ Len(todo) \in Nat
        OBVIOUS
      <3>2. missing \subseteq Nat
        BY <3>1
      <3> HIDE DEF missing
      <3>3. PICK j \in missing : \A k \in missing : ~(<<k, j>> \in OpToRel(<, Nat))
        BY <1>3, <3>2, NatLessThanWellFounded, WFMin
      <3>4. \A k \in missing : ~(k < j)
        BY <3>2, <3>3 DEF OpToRel
      <3>5. \A k \in missing : j <= k
        BY <3>2, <3>4
      <3> QED BY <3>5
    <2>3. i \in missing
      BY <2>2
    <2> HIDE DEF i
    <2>4. /\ i \in 1..Len(todo) /\ todo[i] \in TilesAt(view.zoom)
          /\ todo[i] \notin DOMAIN answers
          /\ SubSeq(todo, i + 1, Len(todo)) \in Seq(TilesAt(view.zoom))
      <3>1. i \in 1..Len(todo) /\ todo[i] \notin DOMAIN answers
        BY <2>3
      <3>2. todo[i] \in TilesAt(view.zoom)
        BY <3>1
      <3>3. \A m \in Int : \A n \in Int : m \in 1..n => m + 1 >= 1 /\ m + 1 \in 1..(n + 1)
        BY SMT
      <3>4. SubSeq(todo, i + 1, Len(todo)) \in Seq(TilesAt(view.zoom))
        BY <3>1, <3>3, SubSeqProperties
      <3> QED BY <3>1, <3>2, <3>4
    <2> HIDE DEF missing
    <2>5. CacheOK(cachedPoints)'
      BY <1>1 DEF Midway, CacheOK, AnswersOK
    <2>6. LoadOK'
      <3>1. load'.view = view /\ load'.tile = todo[i] /\ load'.inserted = inserted
            /\ load'.todo = SubSeq(todo, i + 1, Len(todo))
        BY <2>1
      <3>2. inserted \subseteq DOMAIN answers
        BY DEF Midway
      <3>3. previousZoom = view.zoom => shown = MarkersOf(DOMAIN answers \ inserted, answers)
        BY DEF Midway
      <3> HIDE DEF answers
      <3> QED BY <1>1, <2>1, <2>4, <3>1, <3>2, <3>3 DEF LoadOK, MarkersOf, answers
    <2>7. EmptyOK' /\ VisibleIsCache' /\ ShownOnce'
      BY <1>1, <2>1 DEF Midway, EmptyOK, VisibleIsCache, ShownOnce, BagToSet
    <2> QED BY <2>1, <2>5, <2>6, <2>7 DEF LayerOK
  <1> QED BY <1>2, <1>3

(* A load starts, or nothing happens as one is on its way; after a rebuild *)
(* with nothing cached and nothing shown.                                  *)
LEMMA StartKeepsLayer ==
  ASSUME LayerOK, NEW view \in Views, NEW cache, NEW shown,
         \/ cache = cachedPoints /\ shown = visible
         \/ cache = <<>> /\ shown = EmptyBag,
         LoadVisibleMarkers(view, cache, shown)
  PROVE  LayerOK'
  <1>1. DOMAIN <<>> = {} /\ DOMAIN EmptyBag = {}
    BY DEF EmptyBag, SetToBag
  <1>2. /\ CacheOK(cache)
        /\ previousZoom \notin DOMAIN cache => shown = EmptyBag
        /\ \A p \in DOMAIN shown : shown[p] = 1
    <2>1. CASE cache = cachedPoints /\ shown = visible
      BY <2>1 DEF LayerOK, EmptyOK, ShownOnce, BagToSet
    <2>2. CASE cache = <<>> /\ shown = EmptyBag
      BY <1>1, <2>2 DEF CacheOK
    <2> QED BY <2>1, <2>2
  <1>3. CASE loading
    <2>1. /\ cachedPoints' = cache /\ visible' = shown
          /\ previousZoom' = previousZoom /\ loading' = loading /\ load' = load
      BY <1>3 DEF LoadVisibleMarkers
    <2>2. CacheOK(cachedPoints)'
      BY <1>2, <2>1 DEF CacheOK, AnswersOK
    <2>3. LoadOK'
      <3>1. CASE cache = cachedPoints /\ shown = visible
        BY <2>1, <3>1 DEF LayerOK, LoadOK, MarkersOf
      <3>2. CASE cache = <<>> /\ shown = EmptyBag
        BY <1>1, <2>1, <3>2 DEF LayerOK, LoadOK
      <3> QED BY <3>1, <3>2
    <2>4. EmptyOK' /\ VisibleIsCache' /\ ShownOnce' /\ loading' \in BOOLEAN
      BY <1>2, <1>3, <2>1 DEF LayerOK, EmptyOK, VisibleIsCache, ShownOnce, BagToSet
    <2> QED BY <2>2, <2>3, <2>4 DEF LayerOK
  <1>4. CASE ~loading
    <2> DEFINE c == PutIfAbsent(cache, view.zoom, <<>>)
    <2>1. Continue(view, TilesOf[view], c, {}, shown)
      BY <1>4 DEF LoadVisibleMarkers
    <2>2. /\ DOMAIN c = DOMAIN cache \cup {view.zoom}
          /\ \A z \in DOMAIN cache : c[z] = cache[z]
          /\ view.zoom \notin DOMAIN cache => c[view.zoom] = <<>>
      BY DEF PutIfAbsent
    <2> HIDE DEF c
    <2>3. CacheOK(c)
      <3>1. view.zoom \in Zooms
        BY DEF Zooms
      <3> QED BY <1>1, <1>2, <2>2, <3>1 DEF CacheOK, AnswersOK
    <2>4. previousZoom = view.zoom =>
            shown = MarkersOf(DOMAIN c[view.zoom] \ {}, c[view.zoom])
      <3> SUFFICES ASSUME previousZoom = view.zoom
                   PROVE  shown = MarkersOf(DOMAIN c[view.zoom], c[view.zoom])
        <4>1. DOMAIN c[view.zoom] \ {} = DOMAIN c[view.zoom]
          OBVIOUS
        <4> QED BY <4>1
      <3>1. CASE view.zoom \notin DOMAIN cache
        <4>1. MarkersOf({}, <<>>) = EmptyBag
          BY DEF MarkersOf, EmptyBag, SetToBag
        <4> QED BY <1>1, <1>2, <2>2, <3>1, <4>1
      <3>2. CASE view.zoom \in DOMAIN cache
        <4>1. cache = cachedPoints /\ shown = visible
          BY <1>1, <3>2
        <4> QED BY <1>4, <2>2, <3>2, <4>1 DEF LayerOK, VisibleIsCache
      <3> QED BY <3>1, <3>2
    <2>5. Midway(view, c, {}, shown)
      BY <1>2, <2>2, <2>3, <2>4 DEF Midway
    <2> QED BY <2>1, <2>5, ViewTiles, ContinueKeepsLayer
  <1> QED BY <1>3, <1>4

(* An answer that lies inside the tile asked for is inserted.              *)
LEMMA InsertKeepsLayer ==
  ASSUME LayerOK, load # NoLoad, NEW points, NEW whole,
         points \subseteq {p \in Points : Inside(p, load.tile)},
         Insert(points, whole)
  PROVE  LayerOK'
  <1> DEFINE z == load.view.zoom
             t == load.tile
             found == [points |-> InPredictionRange(points, filter), whole |-> whole]
             c == [cachedPoints EXCEPT ![z] = PutIfAbsent(@, t, found)]
             a == cachedPoints[z]
  <1>1. z \in DOMAIN cachedPoints
        /\ Continue(load.view, load.todo, c, load.inserted \cup {t}, visible)
    BY DEF Insert
  <1>2. /\ load.view \in Views /\ load.todo \in Seq(TilesAt(z)) /\ t \in TilesAt(z)
        /\ t \notin DOMAIN a /\ load.inserted \subseteq DOMAIN a
        /\ previousZoom = z => visible = MarkersOf(DOMAIN a \ load.inserted, a)
    BY <1>1 DEF LayerOK, LoadOK
  <1>3. /\ DOMAIN c = DOMAIN cachedPoints
        /\ \A y \in DOMAIN cachedPoints : y # z => c[y] = cachedPoints[y]
        /\ DOMAIN c[z] = DOMAIN a \cup {t}
        /\ \A s \in DOMAIN a : c[z][s] = a[s]
        /\ c[z][t] = found
    BY <1>1, <1>2 DEF PutIfAbsent
  <1>4. found.points \subseteq {p \in Points : Inside(p, t)}
    BY DEF InPredictionRange
  <1> HIDE DEF c, found
  <1>5. CacheOK(c)
    <2>1. CacheOK(cachedPoints)
      BY DEF LayerOK
    <2>2. AnswersOK(z, c[z])
      <3>1. AnswersOK(z, a)
        BY <1>1, <2>1 DEF CacheOK
      <3> QED BY <1>2, <1>3, <1>4, <3>1 DEF AnswersOK
    <2> QED BY <1>3, <2>1, <2>2 DEF CacheOK
  <1>6. previousZoom = z =>
          visible = MarkersOf(DOMAIN c[z] \ (load.inserted \cup {t}), c[z])
    <2>1. DOMAIN c[z] \ (load.inserted \cup {t}) = DOMAIN a \ load.inserted
      BY <1>2, <1>3
    <2>2. MarkersOf(DOMAIN a \ load.inserted, c[z]) = MarkersOf(DOMAIN a \ load.inserted, a)
      <3> DEFINE D == DOMAIN a \ load.inserted
      <3>1. \A s \in D : c[z][s] = a[s]
        BY <1>3
      <3> HIDE DEF D, a
      <3>2. UNION {c[z][s].points : s \in D} = UNION {a[s].points : s \in D}
        BY <3>1
      <3>3. \A p : {s \in D : p \in c[z][s].points} = {s \in D : p \in a[s].points}
        BY <3>1
      <3>4. MarkersOf(D, c[z]) = MarkersOf(D, a)
        BY <3>2, <3>3 DEF MarkersOf
      <3> QED BY <3>4 DEF D
    <2> QED BY <1>2, <2>1, <2>2
  <1>7. Midway(load.view, c, load.inserted \cup {t}, visible)
    <2>1. z \in DOMAIN c /\ load.inserted \cup {t} \subseteq DOMAIN c[z]
      BY <1>1, <1>2, <1>3
    <2>2. previousZoom \notin DOMAIN c => visible = EmptyBag
      BY <1>3 DEF LayerOK, EmptyOK
    <2>3. \A p \in DOMAIN visible : visible[p] = 1
      BY DEF LayerOK, ShownOnce, BagToSet
    <2> QED BY <1>5, <1>6, <2>1, <2>2, <2>3 DEF Midway
  <1> QED BY <1>1, <1>2, <1>7, ContinueKeepsLayer

LEMMA RaisingKeepsLayer ==
  ASSUME LayerOK, LoadRaises
  PROVE  LayerOK'
  <1>1. load' = NoLoad /\ UNCHANGED <<cachedPoints, visible, previousZoom, loading>>
    BY DEF LoadRaises
  <1>2. CacheOK(cachedPoints)'
    BY <1>1 DEF LayerOK, CacheOK, AnswersOK
  <1>3. LoadOK' /\ EmptyOK'
    BY <1>1 DEF LayerOK, LoadOK, EmptyOK
  <1>4. VisibleIsCache' /\ ShownOnce' /\ loading' \in BOOLEAN
    BY <1>1 DEF LayerOK, VisibleIsCache, ShownOnce, MarkersOf, BagToSet
  <1> QED BY <1>2, <1>3, <1>4 DEF LayerOK

LEMMA SameLayer ==
  ASSUME LayerOK, UNCHANGED layerVars
  PROVE  LayerOK'
  <1>1. UNCHANGED <<load, cachedPoints, visible, previousZoom, loading>>
    BY DEF layerVars
  <1>2. CacheOK(cachedPoints)'
    BY <1>1 DEF LayerOK, CacheOK, AnswersOK
  <1>3. LoadOK' /\ EmptyOK'
    BY <1>1 DEF LayerOK, LoadOK, EmptyOK, MarkersOf
  <1>4. VisibleIsCache' /\ ShownOnce' /\ loading' \in BOOLEAN
    BY <1>1 DEF LayerOK, VisibleIsCache, ShownOnce, MarkersOf, BagToSet
  <1> QED BY <1>2, <1>3, <1>4 DEF LayerOK

LEMMA FreshLayerOK ==
  /\ FreshLayer => LayerOK
  /\ Reopen => LayerOK'
  <1>1. DOMAIN <<>> = {} /\ DOMAIN EmptyBag = {}
    BY DEF EmptyBag, SetToBag
  <1>2. FreshLayer => LayerOK
    BY <1>1 DEF FreshLayer, LayerOK, CacheOK, LoadOK, EmptyOK, VisibleIsCache, ShownOnce, BagToSet
  <1>3. Reopen => LayerOK'
    BY <1>1 DEF Reopen, LayerOK, CacheOK, LoadOK, EmptyOK, VisibleIsCache, ShownOnce, BagToSet
  <1> QED BY <1>2, <1>3

-----------------------------------------------------------------------------
(* What is cached is what the filter asks for.                             *)

(* Unless a frame is due, a load whose answer will be cached asks for what *)
(* the filter says.                                                        *)
LoadMatches ==
  ~dirty =>
    /\ function = filter.source
    /\ load # NoLoad /\ load.view.zoom \in DOMAIN cachedPoints =>
         /\ load.source = filter.source
         /\ load.begin = filter.begin /\ load.end = filter.end

MapTypes ==
  /\ camera \in Views /\ dirty \in BOOLEAN
  /\ FirstPoints \subseteq table /\ table \subseteq Points

MapInv == MapTypes /\ LayerOK /\ LoadMatches /\ FilterFresh

(* More points in the table, more points are wanted.                       *)
LEMMA WantedGrows ==
  ASSUME NEW P, NEW Q, P \subseteq Q, NEW t, NEW f
  PROVE  Wanted(P, t, f) \subseteq Wanted(Q, t, f)
  BY DEF Wanted, InPredictionRange, QueryPoints, QueryPointsDefault, QueryPointsBeginEnd

(* The loop asks for what the filter says.                                 *)
LEMMA ContinueMatches ==
  ASSUME NEW view, NEW todo, NEW cache, NEW inserted, NEW shown,
         Continue(view, todo, cache, inserted, shown),
         filter' = filter, ~dirty' => function' = filter.source
  PROVE  LoadMatches'
  <1> DEFINE missing == {i \in DOMAIN todo : todo[i] \notin DOMAIN cache[view.zoom]}
             i == CHOOSE j \in missing : \A k \in missing : j <= k
  <1>1. CASE missing = {}
    <2>1. load' = NoLoad
      BY <1>1 DEF Continue, Finish
    <2> QED BY <2>1 DEF LoadMatches
  <1>2. CASE missing # {}
    <2>1. load' = [view |-> view, todo |-> SubSeq(todo, i + 1, Len(todo)),
                   tile |-> todo[i], source |-> function',
                   begin |-> filter.begin, end |-> filter.end,
                   inserted |-> inserted]
      BY <1>2 DEF Continue
    <2> HIDE DEF i
    <2>2. load'.source = function' /\ load'.begin = filter.begin /\ load'.end = filter.end
      BY <2>1
    <2> QED BY <2>2 DEF LoadMatches
  <1> QED BY <1>1, <1>2

(* Nothing new is cached.                                                  *)
LEMMA SameAnswersFresh ==
  ASSUME FilterFresh, filter' = filter, table \subseteq table', dirty' = dirty,
         \A z \in DOMAIN cachedPoints' : \A t \in DOMAIN cachedPoints'[z] :
           /\ z \in DOMAIN cachedPoints /\ t \in DOMAIN cachedPoints[z]
           /\ cachedPoints'[z][t] = cachedPoints[z][t]
  PROVE  FilterFresh'
  <1> SUFFICES ASSUME ~dirty', NEW z \in DOMAIN cachedPoints', NEW t \in DOMAIN cachedPoints'[z]
               PROVE  LET found == cachedPoints'[z][t]
                      IN /\ found.points \subseteq Wanted(table', t, filter')
                         /\ found.whole => Wanted(FirstPoints, t, filter') \subseteq found.points
    BY DEF FilterFresh, Wanted, InPredictionRange, QueryPoints, QueryPointsDefault, QueryPointsBeginEnd
  <1> DEFINE found == cachedPoints[z][t]
  <1>1. /\ found.points \subseteq Wanted(table, t, filter)
        /\ found.whole => Wanted(FirstPoints, t, filter) \subseteq found.points
    BY DEF FilterFresh
  <1>2. Wanted(table, t, filter) \subseteq Wanted(table', t, filter)
    BY WantedGrows
  <1> QED BY <1>1, <1>2

(* A load starts as the camera moves, the configuration notifies or the    *)
(* layer opens.                                                            *)
LEMMA StartKeepsFresh ==
  ASSUME MapInv, NEW view \in Views, UNCHANGED <<filter, function, dirty, table>>,
         LoadVisibleMarkers(view, cachedPoints, visible)
  PROVE  LoadMatches' /\ FilterFresh'
  <1>1. CASE loading
    <2>1. cachedPoints' = cachedPoints /\ load' = load
      BY <1>1 DEF LoadVisibleMarkers
    <2>2. LoadMatches'
      BY <2>1 DEF MapInv, LoadMatches
    <2> QED BY <2>1, <2>2, SameAnswersFresh DEF MapInv
  <1>2. CASE ~loading
    <2> DEFINE c == PutIfAbsent(cachedPoints, view.zoom, <<>>)
    <2>1. Continue(view, TilesOf[view], c, {}, visible)
      BY <1>2 DEF LoadVisibleMarkers
    <2>2. LoadMatches'
      BY <2>1, ContinueMatches DEF MapInv, LoadMatches
    <2>3. cachedPoints' = c
      BY <2>1 DEF Continue
    <2>4. \A z \in DOMAIN c : \A t \in DOMAIN c[z] :
            z \in DOMAIN cachedPoints /\ t \in DOMAIN cachedPoints[z] /\ c[z][t] = cachedPoints[z][t]
      BY DEF PutIfAbsent
    <2> QED BY <2>2, <2>3, <2>4, SameAnswersFresh DEF MapInv
  <1> QED BY <1>1, <1>2

LEMMA RebuildKeepsFresh ==
  ASSUME MapInv, Rebuild
  PROVE  LoadMatches' /\ FilterFresh'
  <1>1. DOMAIN <<>> = {}
    OBVIOUS
  <1>2. /\ function' = filter.source /\ filter' = filter
        /\ LoadVisibleMarkers(camera, <<>>, EmptyBag)
    BY DEF Rebuild
  <1>3. CASE loading
    <2>1. cachedPoints' = <<>>
      BY <1>2, <1>3 DEF LoadVisibleMarkers
    <2> QED BY <1>1, <1>2, <2>1 DEF LoadMatches, FilterFresh
  <1>4. CASE ~loading
    <2> DEFINE c == PutIfAbsent(<<>>, camera.zoom, <<>>)
    <2>1. Continue(camera, TilesOf[camera], c, {}, EmptyBag)
      BY <1>2, <1>4 DEF LoadVisibleMarkers
    <2>2. LoadMatches'
      BY <1>2, <2>1, ContinueMatches
    <2>3. cachedPoints' = c
      BY <2>1 DEF Continue
    <2>4. \A z \in DOMAIN c : DOMAIN c[z] = {}
      BY <1>1 DEF PutIfAbsent
    <2> QED BY <2>2, <2>3, <2>4 DEF FilterFresh
  <1> QED BY <1>3, <1>4

(* An answer that is what the filter asks for, if it was asked for by it.  *)
LEMMA InsertKeepsFresh ==
  ASSUME MapInv, load # NoLoad, NEW points, NEW whole, Insert(points, whole),
         ~dirty /\ load.view.zoom \in DOMAIN cachedPoints =>
           /\ InPredictionRange(points, filter) \subseteq Wanted(table, load.tile, filter)
           /\ whole => Wanted(table, load.tile, filter) \subseteq InPredictionRange(points, filter)
  PROVE  LoadMatches' /\ FilterFresh'
  <1> DEFINE z == load.view.zoom
             s == load.tile
             new == [points |-> InPredictionRange(points, filter), whole |-> whole]
             c == [cachedPoints EXCEPT ![z] = PutIfAbsent(@, s, new)]
  <1>1. /\ z \in DOMAIN cachedPoints
        /\ Continue(load.view, load.todo, c, load.inserted \cup {s}, visible)
        /\ UNCHANGED <<filter, function, dirty, table>>
    BY DEF Insert
  <1>2. LoadMatches'
    BY <1>1, ContinueMatches DEF MapInv, LoadMatches
  <1>3. cachedPoints' = c
    BY <1>1 DEF Continue
  <1>4. \A y \in DOMAIN c : \A t \in DOMAIN c[y] :
          \/ y \in DOMAIN cachedPoints /\ t \in DOMAIN cachedPoints[y] /\ c[y][t] = cachedPoints[y][t]
          \/ t = s /\ c[y][t] = new
    BY <1>1 DEF PutIfAbsent
  <1>5. ~dirty => /\ new.points \subseteq Wanted(table, s, filter)
                  /\ new.whole => Wanted(FirstPoints, s, filter) \subseteq new.points
    <2>1. Wanted(FirstPoints, s, filter) \subseteq Wanted(table, s, filter)
      BY WantedGrows DEF MapInv, MapTypes
    <2> QED BY <1>1, <2>1
  <1> HIDE DEF c, new
  <1>6. ASSUME ~dirty, NEW y \in DOMAIN c, NEW t \in DOMAIN c[y]
        PROVE  /\ c[y][t].points \subseteq Wanted(table, t, filter)
               /\ c[y][t].whole => Wanted(FirstPoints, t, filter) \subseteq c[y][t].points
    <2>1. CASE y \in DOMAIN cachedPoints /\ t \in DOMAIN cachedPoints[y] /\ c[y][t] = cachedPoints[y][t]
      BY <1>6, <2>1 DEF MapInv, FilterFresh
    <2>2. CASE t = s /\ c[y][t] = new
      BY <1>5, <1>6, <2>2
    <2> QED BY <1>4, <2>1, <2>2
  <1>7. FilterFresh'
    BY <1>1, <1>3, <1>6 DEF FilterFresh, Wanted, InPredictionRange, QueryPoints,
       QueryPointsDefault, QueryPointsBeginEnd
  <1> QED BY <1>2, <1>7

-----------------------------------------------------------------------------
LEMMA QueryInside ==
  ASSUME NEW points \in SUBSET Points, NEW t, NEW begin, NEW end
  PROVE  QueryPoints(points, t, begin, end) \subseteq {p \in Points : Inside(p, t)}
  BY DEF QueryPoints, QueryPointsDefault, QueryPointsBeginEnd

LEMMA AnswersKeepMap ==
  ASSUME MapInv, RawAnswers \/ AggregatedAnswers \/ AnswerIsCutShort
  PROVE  MapInv'
  <1> DEFINE rows == QueryPoints(table, load.tile, Format(load.begin), Format(load.end))
  <1>1. load # NoLoad
    BY DEF RawAnswers, AggregatedAnswers, AnswerIsCutShort
  <1>2. rows \subseteq {p \in Points : Inside(p, load.tile)}
    BY QueryInside DEF MapInv, MapTypes
  <1>3. \E points, whole :
          /\ Insert(points, whole)
          /\ points \subseteq {p \in Points : Inside(p, load.tile)}
          /\ \/ load.source = "Raw" /\ points \subseteq rows /\ (whole => points = rows)
             \/ load.source # "Raw" /\ points = {}
    <2>1. CASE RawAnswers
      <3>1. load.source = "Raw" /\ Insert(rows, TRUE)
        BY <2>1 DEF RawAnswers
      <3> HIDE DEF rows
      <3> QED BY <1>2, <3>1
    <2>2. CASE AggregatedAnswers
      BY <2>2 DEF AggregatedAnswers
    <2>3. CASE AnswerIsCutShort
      <3>1. PICK response \in GetPoints(table, load.tile, load.begin, load.end) :
              response.status = 200 /\ Insert(response.points, FALSE)
        BY <2>3 DEF AnswerIsCutShort
      <3>2. response.points \in SUBSET rows
        <4>1. response \in [status : {500}, points : {{}}] \cup [status : {200}, points : SUBSET rows]
          BY <3>1, Zenon DEF GetPoints, HandlePointsGet
        <4> HIDE DEF rows
        <4> QED BY <4>1
      <3>3. load.source = "Raw"
        BY <2>3 DEF AnswerIsCutShort
      <3>4. Insert(response.points, FALSE)
        BY <3>1
      <3> HIDE DEF rows
      <3> WITNESS response.points, FALSE
      <3> QED BY <1>2, <3>2, <3>3, <3>4, Zenon
    <2> QED BY <2>1, <2>2, <2>3
  <1>4. PICK points, whole :
          /\ Insert(points, whole)
          /\ points \subseteq {p \in Points : Inside(p, load.tile)}
          /\ \/ load.source = "Raw" /\ points \subseteq rows /\ (whole => points = rows)
             \/ load.source # "Raw" /\ points = {}
    BY <1>3
  <1>5. LayerOK'
    BY <1>1, <1>4, InsertKeepsLayer DEF MapInv
  <1>6. ~dirty /\ load.view.zoom \in DOMAIN cachedPoints =>
          /\ InPredictionRange(points, filter) \subseteq Wanted(table, load.tile, filter)
          /\ whole => Wanted(table, load.tile, filter) \subseteq InPredictionRange(points, filter)
    <2> SUFFICES ASSUME ~dirty, load.view.zoom \in DOMAIN cachedPoints
                 PROVE  /\ InPredictionRange(points, filter) \subseteq Wanted(table, load.tile, filter)
                        /\ whole => Wanted(table, load.tile, filter) \subseteq InPredictionRange(points, filter)
      OBVIOUS
    <2>1. load.source = filter.source /\ load.begin = filter.begin /\ load.end = filter.end
      BY <1>1 DEF MapInv, LoadMatches
    <2>2. Wanted(table, load.tile, filter) =
            IF load.source = "Raw" THEN InPredictionRange(rows, filter) ELSE {}
      BY <2>1 DEF Wanted
    <2> HIDE DEF rows
    <2> QED BY <1>4, <2>2 DEF InPredictionRange
  <1>7. LoadMatches' /\ FilterFresh'
    BY <1>1, <1>4, <1>6, InsertKeepsFresh
  <1>8. MapTypes'
    BY <1>4 DEF Insert, MapInv, MapTypes
  <1> QED BY <1>5, <1>7, <1>8 DEF MapInv

LEMMA RaisingKeepsMap ==
  ASSUME MapInv, LoadRaises
  PROVE  MapInv'
  <1>1. /\ load' = NoLoad
        /\ UNCHANGED <<camera, filter, function, dirty, cachedPoints, table>>
    BY DEF LoadRaises
  <1>2. LayerOK'
    BY RaisingKeepsLayer DEF MapInv
  <1>3. MapTypes' /\ LoadMatches'
    BY <1>1 DEF MapInv, MapTypes, LoadMatches
  <1>4. FilterFresh'
    BY <1>1, SameAnswersFresh DEF MapInv
  <1> QED BY <1>2, <1>3, <1>4 DEF MapInv

LEMMA MapInitially == MapInit => MapInv
  <1> SUFFICES ASSUME MapInit PROVE MapInv
    OBVIOUS
  <1>1. FreshLayer /\ table = FirstPoints
    BY DEF MapInit
  <1>2. LayerOK
    BY <1>1, FreshLayerOK
  <1>3. MapTypes
    BY <1>1, ViewsAssumption DEF FreshLayer, MapTypes, Points
  <1>4. LoadMatches
    BY <1>1 DEF FreshLayer, LoadMatches
  <1>5. FilterFresh
    <2>1. DOMAIN <<>> = {}
      OBVIOUS
    <2> QED BY <1>1, <2>1 DEF FreshLayer, FilterFresh
  <1> QED BY <1>2, <1>3, <1>4, <1>5 DEF MapInv

LEMMA MapStep == MapInv /\ [MapNext]_mapVars => MapInv'
  <1> SUFFICES ASSUME MapInv, [MapNext]_mapVars PROVE MapInv'
    OBVIOUS
  <1>1. ASSUME NEW view \in Views, camera' = view, LoadVisibleMarkers(view, cachedPoints, visible),
               UNCHANGED <<filter, function, dirty, table>>
        PROVE  MapInv'
    <2>1. LayerOK'
      BY <1>1, StartKeepsLayer DEF MapInv
    <2>2. LoadMatches' /\ FilterFresh'
      BY <1>1, StartKeepsFresh
    <2>3. MapTypes'
      BY <1>1 DEF MapInv, MapTypes
    <2> QED BY <2>1, <2>2, <2>3 DEF MapInv
  <1>2. camera \in Views
    BY DEF MapInv, MapTypes
  <1>3. CASE Opens
    BY <1>1, <1>2, <1>3 DEF Opens
  <1>4. CASE ConfigurationNotifies
    BY <1>1, <1>2, <1>4 DEF ConfigurationNotifies
  <1>5. ASSUME NEW v \in Views, CameraMoves(v)
        PROVE  MapInv'
    BY <1>1, <1>5 DEF CameraMoves
  <1>6. ASSUME NEW f \in Filters, ChangeFilter(f)
        PROVE  MapInv'
    <2>1. LayerOK'
      BY <1>6, SameLayer DEF MapInv, ChangeFilter
    <2>2. MapTypes' /\ LoadMatches' /\ FilterFresh'
      BY <1>6 DEF ChangeFilter, MapInv, MapTypes, LoadMatches, FilterFresh
    <2> QED BY <2>1, <2>2 DEF MapInv
  <1>7. CASE Rebuild
    <2>1. LoadVisibleMarkers(camera, <<>>, EmptyBag)
      BY <1>7 DEF Rebuild
    <2>2. LayerOK'
      BY <1>2, <2>1, StartKeepsLayer DEF MapInv
    <2>3. LoadMatches' /\ FilterFresh'
      BY <1>7, RebuildKeepsFresh
    <2>4. MapTypes'
      BY <1>7 DEF Rebuild, MapInv, MapTypes
    <2> QED BY <2>2, <2>3, <2>4 DEF MapInv
  <1>8. CASE RawAnswers \/ AggregatedAnswers \/ AnswerIsCutShort
    BY <1>8, AnswersKeepMap
  <1>9. CASE AnswerFindsCacheCleared \/ AnswerIsError
    BY <1>9, RaisingKeepsMap DEF AnswerFindsCacheCleared, AnswerIsError
  <1>10. CASE InsertPoint
    <2>1. LayerOK'
      BY <1>10, SameLayer DEF MapInv, InsertPoint
    <2>2. UNCHANGED <<camera, filter, function, dirty, load, cachedPoints>>
      BY <1>10 DEF InsertPoint, layerVars
    <2>3. PICK p \in LaterPoints : table' = table \cup {p}
      BY <1>10 DEF InsertPoint
    <2>4. MapTypes' /\ LoadMatches'
      BY <2>2, <2>3 DEF MapInv, MapTypes, LoadMatches, Points
    <2>5. FilterFresh'
      BY <2>2, <2>3, SameAnswersFresh DEF MapInv
    <2> QED BY <2>1, <2>4, <2>5 DEF MapInv
  <1>11. CASE Reopen
    <2>1. LayerOK'
      BY <1>11, FreshLayerOK
    <2>2. MapTypes' /\ LoadMatches'
      BY <1>11, ViewsAssumption DEF Reopen, MapInv, MapTypes, LoadMatches
    <2>3. FilterFresh'
      <3>1. DOMAIN <<>> = {}
        OBVIOUS
      <3> QED BY <1>11, <3>1 DEF Reopen, FilterFresh
    <2> QED BY <2>1, <2>2, <2>3 DEF MapInv
  <1>12. CASE UNCHANGED mapVars
    <2>1. UNCHANGED <<camera, filter, function, dirty, load, cachedPoints, table, layerVars>>
      BY <1>12 DEF mapVars, layerVars
    <2>2. LayerOK'
      BY <2>1, SameLayer DEF MapInv
    <2>3. MapTypes' /\ LoadMatches'
      BY <2>1 DEF MapInv, MapTypes, LoadMatches
    <2>4. FilterFresh'
      BY <2>1, SameAnswersFresh DEF MapInv
    <2> QED BY <2>2, <2>3, <2>4 DEF MapInv
  <1> QED BY <1>3, <1>4, <1>5, <1>6, <1>7, <1>8, <1>9, <1>10, <1>11, <1>12 DEF MapNext, Answer

LEMMA MapAlways == MapSpec => []MapInv
  BY MapInitially, MapStep, PTL DEF MapSpec

(* However the camera moves, filters change, answers fail or are cut short *)
(* and tabs are left, the layer shows between loads the cached points of   *)
(* one zoom and nothing else.                                              *)
THEOREM CacheIsShown == MapSpec => []VisibleIsCache
  <1>1. MapInv => VisibleIsCache
    BY DEF MapInv, LayerOK
  <1> QED BY <1>1, MapAlways, PTL

(* No point is on the map twice, whatever the views, tiles and points are: *)
(* the query of the api leaves out the border of a tile.                   *)
THEOREM PointsShownOnce == MapSpec => []ShownOnce
  <1>1. MapInv => ShownOnce
    BY DEF MapInv, LayerOK
  <1> QED BY <1>1, MapAlways, PTL

(* When no frame is due, what is cached is what the chosen filter asks for *)
(* and no answer to an older request is among it.                          *)
THEOREM CacheObeysFilter == MapSpec => []FilterFresh
  <1>1. MapInv => FilterFresh
    BY DEF MapInv
  <1> QED BY <1>1, MapAlways, PTL
=============================================================================
