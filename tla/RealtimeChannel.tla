--------------------------- MODULE RealtimeChannel ---------------------------
(***************************************************************************)
(* The web socket channel of the API process                               *)
(* (services/api/websocket/retrigger_ws.py): the list of connections, and  *)
(* a broadcast, which goes through a copy of it one await at a time and is *)
(* ended by the first socket that cannot be written to.                    *)
(***************************************************************************)
EXTENDS ApiRequests, Sequences, SequencesExt

CONSTANT Sockets    \* every connection ever made; a client reconnects with a new one

ASSUME SocketAssumption == IsFiniteSet(Sockets)

VARIABLES
  socket,  \* "new", "open" or "closed"
  active,  \* active_connections
  missed   \* history: open connections that a finished broadcast left out

channelVars == <<socket, active, missed>>

InitChannel ==
  /\ socket = [s \in Sockets |-> "new"]
  /\ active = <<>>
  /\ missed = {}

Connect(s) ==
  /\ socket[s] = "new"
  /\ socket' = [socket EXCEPT ![s] = "open"]
  /\ active' = Append(active, s)
  /\ UNCHANGED missed

Close(s) ==
  /\ socket[s] = "open"
  /\ socket' = [socket EXCEPT ![s] = "closed"]
  /\ UNCHANGED <<active, missed>>

\* receive_text raises WebSocketDisconnect in the socket's own handler.
Disconnect(s) ==
  /\ socket[s] = "closed"
  /\ \E i \in DOMAIN active : active[i] = s /\ active' = RemoveAt(active, i)
  /\ UNCHANGED <<socket, missed>>

-----------------------------------------------------------------------------

\* Mutant: the loop goes through the live list.
LiveList(h) == active

\* for connection in list(self.active_connections)
Iterated(h) == req[h].copy

Exhausted(h) == req[h].sent >= Len(Iterated(h))
Target(h) == Iterated(h)[req[h].sent + 1]

StartBroadcast(h) ==
  /\ At(h, "announce")
  /\ Goto(h, "send", [copy |-> active, sent |-> 0, served |-> {}])
  /\ UNCHANGED <<requests, faults, channelVars>>

SendNext(h) ==
  /\ At(h, "send") /\ ~ Exhausted(h)
  /\ socket[Target(h)] = "open"
  /\ Goto(h, "send", [copy |-> req[h].copy, sent |-> req[h].sent + 1,
                      served |-> req[h].served \cup {Target(h)}])
  /\ UNCHANGED <<requests, faults, channelVars>>

\* send_json raises, and the request with it, which has committed long ago.
SendRaises(h) ==
  /\ At(h, "send") /\ ~ Exhausted(h)
  /\ socket[Target(h)] = "closed"
  /\ Answer(h)
  /\ UNCHANGED <<requests, faults, channelVars>>

Unserved(r) == {r.copy[i] : i \in DOMAIN r.copy} \ r.served

FinishBroadcast(h) ==
  /\ At(h, "send") /\ Exhausted(h)
  /\ missed' = missed \cup {s \in Unserved(req[h]) : socket[s] = "open"}
  /\ Answer(h)
  /\ UNCHANGED <<requests, faults, socket, active>>

ChannelStep(h) ==
  StartBroadcast(h) \/ SendNext(h) \/ SendRaises(h) \/ FinishBroadcast(h)

SocketStep(s) == Connect(s) \/ Close(s) \/ Disconnect(s)

-----------------------------------------------------------------------------
(* A broadcast that ends without an exception has been sent to every       *)
(* connection that was listed when it began and is still open, whatever    *)
(* connects, closes and is taken off the list between its sends.           *)
NobodyPassedOver == missed = {}
=============================================================================
