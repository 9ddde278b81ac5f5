--------------------------- MODULE SensorsNetwork ---------------------------
(***************************************************************************)
(* mobile/lib/gateway/sensors_network_impl.dart: the MQTT connection that  *)
(* every send of sensor records shares.  A send gives way only while it    *)
(* awaits the connection of the client it built; other sends run meanwhile *)
(* and use, replace or disconnect that client.                             *)
(*                                                                         *)
(* A sender is one activity that sends, one payload after another: the     *)
(* draining session of the transmission or a direct send.                  *)
(***************************************************************************)
EXTENDS Naturals

CONSTANTS
  Senders,   \* activities that send
  Urls,      \* receiver addresses
  BadUrls,   \* those among them that have no port
  Accounts,  \* account identifiers, the client identifiers of MQTT
  None,
  MaxFaults  \* bound on failed connections and broken links

ASSUME UrlsAssumption == BadUrls \subseteq Urls
ASSUME AccountsAssumption == Accounts # {}
ASSUME NoneAssumption == None \notin Senders \cup Urls
ASSUME FaultsAssumption == MaxFaults \in Nat

VARIABLES
  clients,    \* for a sender, the last client its sends built
  client,     \* _client: the sender that built the shared client, or None
  clientURL,  \* _clientURL
  pc,         \* where the send of a sender is
  answer,     \* what its last send returned
  delivered,  \* the payload of its last send reached the broker
  faults      \* number of faults so far

vars == <<clients, client, clientURL, pc, answer, delivered, faults>>

(* state: MQTT's connection state, "faulted" after an unexpected error;    *)
(* up: the link works.                                                     *)
Clients == [account : Accounts, up : BOOLEAN,
            state : {"disconnected", "connecting", "connected", "faulted"}]
Closed == [account |-> CHOOSE a \in Accounts : TRUE, up |-> FALSE,
           state |-> "disconnected"]

Init ==
  /\ clients = [s \in Senders |-> Closed]
  /\ client = None /\ clientURL = None
  /\ pc = [s \in Senders |-> "idle"]
  /\ answer = [s \in Senders |-> "none"]
  /\ delivered = [s \in Senders |-> FALSE]
  /\ faults = 0

Fault == faults < MaxFaults /\ faults' = faults + 1

-----------------------------------------------------------------------------
(* _disconnect of the shared client, if there is one, among the clients cs. *)
Disconnected(cs) ==
  IF client = None THEN cs ELSE [cs EXCEPT ![client].state = "disconnected"]

Return(s, result, reached) ==
  /\ pc' = [pc EXCEPT ![s] = "idle"]
  /\ answer' = [answer EXCEPT ![s] = result]
  /\ delivered' = [delivered EXCEPT ![s] = reached]

GiveUpForgetful(s, cs) ==        \* a bug: the reference is dropped open
  /\ clients' = cs
  /\ client' = None /\ clientURL' = None
  /\ Return(s, "false", FALSE)

GiveUpSharing(s, cs) ==          \* a bug: the lost client stays shared
  /\ clients' = Disconnected(cs)
  /\ UNCHANGED <<client, clientURL>>
  /\ Return(s, "false", FALSE)

(* The shared client is not connected: disconnect it, the send is false.   *)
GiveUp(s, cs) ==
  /\ clients' = Disconnected(cs)
  /\ client' = None /\ clientURL' = None
  /\ Return(s, "false", FALSE)

(* The send raises and leaves the shared client as it is.                  *)
Raise(s, cs) ==
  /\ clients' = cs /\ UNCHANGED <<client, clientURL>>
  /\ Return(s, "raised", FALSE)

(* subscribe and publishMessage, at most once: the broker gets the payload *)
(* if the link works, the send is true either way.                         *)
Publish(s, cs) ==
  /\ clients' = cs /\ UNCHANGED <<client, clientURL>>
  /\ Return(s, "true", cs[client].up)

(* Lines 94-101 and the rest of send, with the client shared by now.       *)
UseClient(s, cs) ==
  IF cs[client].state = "connected" THEN Publish(s, cs) ELSE GiveUp(s, cs)

-----------------------------------------------------------------------------
(* send, up to its await or its end.                                       *)

Mismatched(url, account) ==
  client # None /\ (clients[client].account # account \/ clientURL # url)

SendShared(s, url, account) ==
  /\ pc[s] = "idle" /\ client # None /\ ~Mismatched(url, account)
  /\ UseClient(s, clients)
  /\ UNCHANGED faults

(* A new client, after the mismatched one is disconnected.                 *)
SendConnects(s, url, account) ==
  /\ pc[s] = "idle" /\ (client = None \/ Mismatched(url, account))
  /\ url \notin BadUrls
  /\ clients' = [Disconnected(clients) EXCEPT ![s] =
       [account |-> account, up |-> FALSE, state |-> "connecting"]]
  /\ client' = s /\ clientURL' = url
  /\ pc' = [pc EXCEPT ![s] = "connecting"]
  /\ UNCHANGED <<answer, delivered, faults>>

(* _buildClient raises when the address has no port.                       *)
SendUnparsable(s, url, account) ==
  /\ pc[s] = "idle" /\ (client = None \/ Mismatched(url, account))
  /\ url \in BadUrls
  /\ clients' = Disconnected(clients)
  /\ client' = None /\ clientURL' = None
  /\ Return(s, "raised", FALSE)
  /\ UNCHANGED faults

-----------------------------------------------------------------------------
(* connect ends and the send goes on with the client shared by then.       *)

(* A null check fails when another send has disconnected meanwhile.        *)
Resume(s, cs) == IF client = None THEN Raise(s, cs) ELSE UseClient(s, cs)

Ended(s, state) ==
  [clients EXCEPT ![s] = [account |-> clients[s].account,
                          up |-> (state = "connected"), state |-> state]]

(* A fault, unless another send has disconnected this client.              *)
ConnectFails(s) ==
  /\ pc[s] = "connecting"
  /\ IF clients[s].state = "disconnected" THEN UNCHANGED faults ELSE Fault

Connected(s) ==
  /\ pc[s] = "connecting" /\ clients[s].state = "connecting"
  /\ Resume(s, Ended(s, "connected"))
  /\ UNCHANGED faults

(* connect returns, but the broker has not accepted the connection.        *)
NotConnected(s) == ConnectFails(s) /\ Resume(s, Ended(s, "disconnected"))

(* NoConnectionException or SocketException: whatever client is shared by  *)
(* now is disconnected.                                                    *)
ConnectRefused(s) == ConnectFails(s) /\ GiveUp(s, Ended(s, "disconnected"))

(* Any other exception: the client stays shared.                           *)
ConnectRaises(s) ==
  /\ pc[s] = "connecting" /\ Fault
  /\ Raise(s, Ended(s, "faulted"))

(* The link of a client stops working, and later the client notices.       *)
LinkBreaks(s) ==
  /\ clients[s].state = "connected" /\ clients[s].up /\ Fault
  /\ clients' = [clients EXCEPT ![s].up = FALSE]
  /\ UNCHANGED <<client, clientURL, pc, answer, delivered>>

LinkDetected(s) ==
  /\ clients[s].state = "connected" /\ ~clients[s].up
  /\ clients' = [clients EXCEPT ![s].state = "disconnected"]
  /\ UNCHANGED <<client, clientURL, pc, answer, delivered, faults>>

Send(s) ==
  \E url \in Urls, account \in Accounts :
    \/ SendShared(s, url, account)
    \/ SendConnects(s, url, account)
    \/ SendUnparsable(s, url, account)

ConnectEnds(s) == Connected(s) \/ NotConnected(s) \/ ConnectRefused(s)

Next ==
  \E s \in Senders :
    \/ Send(s) \/ ConnectEnds(s) \/ ConnectRaises(s)
    \/ LinkBreaks(s) \/ LinkDetected(s)

Spec == Init /\ [][Next]_vars

(* A payload sent with the address and the account of the shared client.   *)
SendAgain(s) ==
  \E url \in Urls, account \in Accounts :
    /\ ~Mismatched(url, account)
    /\ SendShared(s, url, account) \/ SendConnects(s, url, account)

(* Payloads keep coming, although nobody may change the settings; connect  *)
(* has a timeout, broken links are noticed.                                *)
FairSpec ==
  /\ Spec
  /\ \A s \in Senders :
       WF_vars(SendAgain(s)) /\ WF_vars(ConnectEnds(s)) /\ WF_vars(LinkDetected(s))

-----------------------------------------------------------------------------
(* Every variable keeps its type; the address goes with the client.        *)
TypeOK ==
  /\ clients \in [Senders -> Clients]
  /\ client \in Senders \cup {None}
  /\ clientURL \in Urls \cup {None}
  /\ client = None <=> clientURL = None
  /\ pc \in [Senders -> {"idle", "connecting"}]
  /\ answer \in [Senders -> {"none", "true", "false", "raised"}]
  /\ delivered \in [Senders -> BOOLEAN]
  /\ faults \in 0..MaxFaults

(* However sends overlap, change the address or fail, no connection is     *)
(* left open beside the shared one: _disconnect precedes every loss of the *)
(* reference to a client.                                                  *)
OneConnection ==
  \A s \in Senders :
    clients[s].state \in {"connecting", "connected"} => client = s

(* A shared client that has failed or lost its connection does not block   *)
(* the sends for ever: one of them disconnects and removes it.             *)
DeadClientLeaves ==
  \A s \in Senders :
    (client = s /\ clients[s].state \in {"disconnected", "faulted"})
      ~> ~(client = s /\ clients[s].state \in {"disconnected", "faulted"})
=============================================================================
