--------------------------- MODULE TelemetryServer ---------------------------
(***************************************************************************)
(* server/app.py with server/logger.py: the CAN broadcast loop, the /ws      *)
(* endpoint, the two uplink REST handlers and the lifespan of the process.   *)
(*                                                                          *)
(* One asyncio event loop runs one broadcast task and one handler per        *)
(* WebSocket.  A step of the model is the code between two awaits that can   *)
(* suspend.  clients_lock is not a variable: no critical section under it    *)
(* contains an await, so it is never contended and never suspends.           *)
(*                                                                          *)
(* A socket is one accepted connection: a client that reconnects comes back  *)
(* as another member of Sockets.                                            *)
(***************************************************************************)
EXTENDS Integers, Sequences, FiniteSets, GpsSink

CONSTANTS
  Sockets,        \* connections that may be accepted over all sessions
  NoSocket,       \* "no send in progress"
  SimDropEvery,   \* settings.simulate_drop_every, 0 = off
  SendWindow,     \* frames a peer may leave unread before a send suspends
  MaxSeq,         \* bound: stream_state["seq"] of one session
  MaxRestarts,    \* bound: restarts of the process
  MaxUplink       \* bound: rows of the GPS and of the event file

ASSUME NoSocketAssumption == NoSocket \notin Sockets
ASSUME SimDropAssumption == SimDropEvery \in Nat
ASSUME SendWindowAssumption == SendWindow \in Nat \ {0}
ASSUME BoundsAssumption == /\ MaxSeq \in Nat
                           /\ MaxRestarts \in Nat
                           /\ MaxUplink \in Nat

VARIABLES
  server,     \* the process: serving, closing (uvicorn shuts down), stopped
  restarts,   \* number of restarts so far
  seq, drop,  \* stream_state
  task,       \* broadcast_task: ready (sleeping), sending, failed, cancelled
  cur,        \* socket whose send_json is awaited, NoSocket outside _broadcast
  todo,       \* sockets of the snapshot still to be sent to
  dead,       \* sockets of the snapshot whose send raised
  clients,    \* the module's set of registered sockets
  handler,    \* [Sockets -> new | running | closed], one run of ws_endpoint
  link,       \* [Sockets -> up | lost | down], the transport below a socket
  out,        \* [Sockets -> Seq(Frame)], every frame a send accepted
  taken,      \* [Sockets -> Nat], how many of them the peer has taken
  rows,       \* rows of the CAN file of this session
  gpsRows,    \* rows of the GPS file of this session
  eventRows,  \* rows of the event file of this session
  logOpen,    \* the three files are open
  base        \* history: CAN rows of all earlier sessions

streamVars == <<seq, drop, task, cur, todo, dead>>
socketVars == <<clients, handler, link>>
wireVars == <<out, taken>>
logVars == <<rows, gpsRows, eventRows, logOpen, base>>
vars == <<server, restarts, streamVars, socketVars, wireVars, logVars>>

(* A frame as the properties see it: the status the client reads, and two    *)
(* history fields, the number of its sample over all sessions and the CAN     *)
(* rows of the sessions before its own.                                     *)
Frames == [seq : Nat, drop : Nat, row : Nat, base : Nat]

(* The frame being broadcast.  seq and drop change only after _broadcast      *)
(* has returned, so it needs no variable.  Every sequence number that is not  *)
(* a simulated drop takes one sample.                                       *)
CurrentFrame ==
  [seq |-> seq, drop |-> drop, row |-> base + (seq - drop) + 1, base |-> base]

Init ==
  /\ server = "serving"
  /\ restarts = 0
  /\ seq = 0
  /\ drop = 0
  /\ task = "ready"
  /\ cur = NoSocket
  /\ todo = {}
  /\ dead = {}
  /\ clients = {}
  /\ handler = [ws \in Sockets |-> "new"]
  /\ link = [ws \in Sockets |-> "down"]
  /\ out = [ws \in Sockets |-> << >>]
  /\ taken = [ws \in Sockets |-> 0]
  /\ rows = 0
  /\ gpsRows = 0
  /\ eventRows = 0
  /\ logOpen = TRUE
  /\ base = 0

-----------------------------------------------------------------------------
(* The broadcast loop.                                                      *)

ShouldSimDrop == SimDropEvery > 0 /\ seq > 0 /\ seq % SimDropEvery = 0

LoopWakes == task = "ready" /\ seq < MaxSeq

(* Mutant: a simulated drop continues the loop without the next number.       *)
SimDropKeepsSeq ==
  /\ LoopWakes
  /\ ShouldSimDrop
  /\ drop' = drop + 1
  /\ UNCHANGED <<server, restarts, seq, task, cur, todo, dead, socketVars,
                 wireVars, logVars>>

(* A simulated drop: both counters move, nothing is logged or sent.          *)
SimDrop ==
  /\ LoopWakes
  /\ ShouldSimDrop
  /\ drop' = drop + 1
  /\ seq' = seq + 1
  /\ UNCHANGED <<server, restarts, task, cur, todo, dead, socketVars,
                 wireVars, logVars>>

(* log_can writes the row; with nobody registered _broadcast returns at once *)
(* and the whole iteration is one step.                                     *)
TickAlone ==
  /\ LoopWakes
  /\ ~ShouldSimDrop
  /\ clients = {}
  /\ rows' = rows + 1
  /\ seq' = seq + 1
  /\ UNCHANGED <<server, restarts, drop, task, cur, todo, dead, socketVars,
                 wireVars, gpsRows, eventRows, logOpen, base>>

(* Mutant: log_can is called only after the broadcast, of the next iteration.  *)
TickUnlogged ==
  /\ LoopWakes
  /\ ~ShouldSimDrop
  /\ \E ws \in clients : /\ cur' = ws
                         /\ todo' = clients \ {ws}
  /\ dead' = {}
  /\ task' = "sending"
  /\ UNCHANGED <<server, restarts, seq, drop, socketVars, wireVars, logVars>>

(* log_can, the snapshot of clients, and the first send_json is awaited.     *)
(* list(clients) has the order of a set: any.                               *)
TickBroadcast ==
  /\ LoopWakes
  /\ ~ShouldSimDrop
  /\ rows' = rows + 1
  /\ \E ws \in clients : /\ cur' = ws
                         /\ todo' = clients \ {ws}
  /\ dead' = {}
  /\ task' = "sending"
  /\ UNCHANGED <<server, restarts, seq, drop, socketVars, wireVars, gpsRows,
                 eventRows, logOpen, base>>

(* next_frame, apply or log_can raises: the task ends with the exception,    *)
(* which nobody looks at before the shutdown.  The flush of log_can raises     *)
(* when the row has been written.                                           *)
TickFails ==
  /\ LoopWakes
  /\ ~ShouldSimDrop
  /\ task' = "failed"
  /\ rows' \in {rows, rows + 1}
  /\ UNCHANGED <<server, restarts, seq, drop, cur, todo, dead, socketVars,
                 wireVars, gpsRows, eventRows, logOpen, base>>

(* Mutant: the first send that raises ends the loop over the snapshot.        *)
NextSendBreaks(newDead) ==
  \/ /\ cur \notin newDead
     /\ \E ws \in todo :
          /\ cur' = ws
          /\ todo' = todo \ {ws}
          /\ dead' = newDead
          /\ UNCHANGED <<task, seq, clients>>
  \/ /\ todo = {} \/ cur \in newDead
     /\ cur' = NoSocket
     /\ todo' = {}
     /\ dead' = {}
     /\ clients' = clients \ newDead
     /\ task' = "ready"
     /\ seq' = seq + 1

(* One send of the loop is over, newDead is the dead list after it: await    *)
(* the next send, or discard the dead sockets and complete the iteration.    *)
NextSend(newDead) ==
  \/ \E ws \in todo :
       /\ cur' = ws
       /\ todo' = todo \ {ws}
       /\ dead' = newDead
       /\ UNCHANGED <<task, seq, clients>>
  \/ /\ todo = {}
     /\ cur' = NoSocket
     /\ dead' = {}
     /\ clients' = clients \ newDead
     /\ task' = "ready"
     /\ seq' = seq + 1
     /\ UNCHANGED todo

(* Mutant: a peer that does not read is skipped.                             *)
SendOrSkip ==
  /\ task = "sending"
  /\ link[cur] # "down"
  /\ out' = IF Len(out[cur]) - taken[cur] < SendWindow
            THEN [out EXCEPT ![cur] = Append(@, CurrentFrame)] ELSE out
  /\ NextSend(dead)
  /\ UNCHANGED <<server, restarts, drop, handler, link, taken, logVars>>

(* send_json returns: the peer has room for the frame.  A lost peer is not    *)
(* yet known to be gone, its frames pile up until the window is full.        *)
SendOk ==
  /\ task = "sending"
  /\ link[cur] # "down"
  /\ Len(out[cur]) - taken[cur] < SendWindow
  /\ out' = [out EXCEPT ![cur] = Append(@, CurrentFrame)]
  /\ NextSend(dead)
  /\ UNCHANGED <<server, restarts, drop, handler, link, taken, logVars>>

(* Mutant: a send that raises is tried again.                                *)
SendRetries ==
  /\ task = "sending"
  /\ link[cur] = "down"
  /\ UNCHANGED vars

(* send_json raises on a closed transport, at once or while it is suspended.  *)
SendFails ==
  /\ task = "sending"
  /\ link[cur] = "down"
  /\ NextSend(dead \cup {cur})
  /\ UNCHANGED <<server, restarts, drop, handler, link, wireVars, logVars>>

-----------------------------------------------------------------------------
(* ws_endpoint, one run per socket.                                         *)

Accept(ws) ==
  /\ server = "serving"
  /\ handler[ws] = "new"
  /\ handler' = [handler EXCEPT ![ws] = "running"]
  /\ link' = [link EXCEPT ![ws] = "up"]
  /\ clients' = clients \cup {ws}
  /\ UNCHANGED <<server, restarts, streamVars, wireVars, logVars>>

(* Mutant: ws_endpoint without its finally clause.                           *)
UnregisterForgets(ws) ==
  /\ handler' = [handler EXCEPT ![ws] = "closed"]
  /\ UNCHANGED clients

(* The finally clause.                                                      *)
Unregister(ws) ==
  /\ handler' = [handler EXCEPT ![ws] = "closed"]
  /\ clients' = clients \ {ws}

(* receive_text raises WebSocketDisconnect once the transport is closed.     *)
HandlerExit(ws) ==
  /\ handler[ws] = "running"
  /\ link[ws] = "down"
  /\ Unregister(ws)
  /\ UNCHANGED <<server, restarts, streamVars, link, wireVars, logVars>>

LogGps ==
  /\ gpsRows < MaxUplink
  /\ gpsRows' = gpsRows + 1
  /\ UNCHANGED <<rows, eventRows, logOpen, base>>

LogEvent ==
  /\ eventRows < MaxUplink
  /\ eventRows' = eventRows + 1
  /\ UNCHANGED <<rows, gpsRows, logOpen, base>>

(* One text message.  A message that is ignored, and a ping (its pong is      *)
(* modelled in the client modules), change nothing here.                     *)
Receive(ws) ==
  /\ handler[ws] = "running"
  /\ link[ws] = "up"
  /\ \E text \in WsTexts :
       \/ /\ WsDispatch(text) = "gps"
          /\ LogGps
          /\ UNCHANGED socketVars
       \/ /\ WsDispatch(text) = "event"
          /\ LogEvent
          /\ UNCHANGED socketVars
       \/ /\ WsDispatch(text) = "raise"
          /\ Unregister(ws)
          /\ link' = [link EXCEPT ![ws] = "down"]
          /\ UNCHANGED logVars
  /\ UNCHANGED <<server, restarts, streamVars, wireVars>>

(* POST /api/gps and POST /api/event; a payload that yields no row is        *)
(* answered 400 and changes nothing.                                        *)
ApiGps ==
  /\ server = "serving"
  /\ \E p \in Payloads : IsGpsRow(p) /\ LogGps
  /\ UNCHANGED <<server, restarts, streamVars, socketVars, wireVars>>

ApiEvent ==
  /\ server = "serving"
  /\ \E p \in Payloads : IsEventRow(p) /\ LogEvent
  /\ UNCHANGED <<server, restarts, streamVars, socketVars, wireVars>>

-----------------------------------------------------------------------------
(* The transport below a socket, and the peer (external).                    *)

PeerTakes(ws) ==
  /\ link[ws] # "lost"
  /\ taken[ws] < Len(out[ws])
  /\ taken' = [taken EXCEPT ![ws] = @ + 1]
  /\ UNCHANGED <<server, restarts, streamVars, socketVars, out, logVars>>

SetLink(ws, from, to) ==
  /\ link[ws] = from
  /\ link' = [link EXCEPT ![ws] = to]
  /\ UNCHANGED <<server, restarts, streamVars, clients, handler, wireVars,
                 logVars>>

PeerCloses(ws) == SetLink(ws, "up", "down")
PeerVanishes(ws) == SetLink(ws, "up", "lost")
KeepaliveTimeout(ws) == SetLink(ws, "lost", "down")

-----------------------------------------------------------------------------
(* The process.                                                             *)

(* uvicorn stops accepting and closes every connection.                      *)
BeginShutdown ==
  /\ server = "serving"
  /\ server' = "closing"
  /\ link' = [ws \in Sockets |-> "down"]
  /\ UNCHANGED <<restarts, streamVars, clients, handler, wireVars, logVars>>

LoseTask ==
  /\ cur' = NoSocket
  /\ todo' = {}
  /\ dead' = {}

(* Mutant: the files are closed and the task is not cancelled.                *)
LifespanForgetsTask ==
  /\ server = "closing"
  /\ \A ws \in Sockets : handler[ws] # "running"
  /\ server' = "stopped"
  /\ logOpen' = FALSE
  /\ UNCHANGED <<restarts, streamVars, socketVars, wireVars, rows, gpsRows,
                 eventRows, base>>

(* The finally clause of lifespan, run once every handler has returned.  A    *)
(* task that is alive is cancelled where it waits; awaiting a task that has   *)
(* failed raises its exception again and logger.close is never reached.      *)
LifespanExit ==
  /\ server = "closing"
  /\ \A ws \in Sockets : handler[ws] # "running"
  /\ server' = "stopped"
  /\ task' = IF task = "failed" THEN "failed" ELSE "cancelled"
  /\ logOpen' = (task = "failed")
  /\ LoseTask
  /\ UNCHANGED <<restarts, seq, drop, socketVars, wireVars, rows, gpsRows,
                 eventRows, base>>

(* The process is killed at any point.                                      *)
Kill ==
  /\ server # "stopped"
  /\ server' = "stopped"
  /\ task' = "cancelled"
  /\ LoseTask
  /\ clients' = {}
  /\ handler' = [ws \in Sockets |-> IF handler[ws] = "running" THEN "closed"
                                    ELSE handler[ws]]
  /\ link' = [ws \in Sockets |-> "down"]
  /\ logOpen' = FALSE
  /\ UNCHANGED <<restarts, seq, drop, wireVars, rows, gpsRows, eventRows, base>>

(* A new process: fresh module globals and new CSV files.                    *)
Restart ==
  /\ server = "stopped"
  /\ restarts < MaxRestarts
  /\ restarts' = restarts + 1
  /\ server' = "serving"
  /\ seq' = 0
  /\ drop' = 0
  /\ task' = "ready"
  /\ clients' = {}
  /\ base' = base + rows
  /\ rows' = 0
  /\ gpsRows' = 0
  /\ eventRows' = 0
  /\ logOpen' = TRUE
  /\ LoseTask
  /\ UNCHANGED <<handler, link, wireVars>>

LoopStep == SimDrop \/ TickAlone \/ TickBroadcast
SendStep == SendOk \/ SendFails

(* Every step but the two by which a peer enters and reads.                  *)
ServerStep ==
  \/ LoopStep \/ TickFails \/ SendStep
  \/ ApiGps \/ ApiEvent
  \/ BeginShutdown \/ LifespanExit \/ Kill \/ Restart
  \/ \E ws \in Sockets :
       \/ HandlerExit(ws) \/ Receive(ws)
       \/ PeerCloses(ws) \/ PeerVanishes(ws) \/ KeepaliveTimeout(ws)

Next ==
  \/ ServerStep
  \/ \E ws \in Sockets : Accept(ws) \/ PeerTakes(ws)

Spec == Init /\ [][Next]_vars

(* The event loop runs every ready task, a peer that is there reads, and     *)
(* uvicorn's keepalive ping (20 s, then 20 s for the pong) closes the        *)
(* transport of a peer that is not.  Nothing forces a shutdown, a restart    *)
(* or a message.                                                            *)
Fairness ==
  /\ WF_vars(LoopStep)
  /\ WF_vars(SendStep)
  /\ \A ws \in Sockets : /\ WF_vars(HandlerExit(ws))
                         /\ WF_vars(PeerTakes(ws))
                         /\ WF_vars(KeepaliveTimeout(ws))

FairSpec == Spec /\ Fairness

-----------------------------------------------------------------------------
(* Every variable has its type; in particular the locals of _broadcast are    *)
(* set exactly while the task is inside it.                                  *)
TypeOK ==
  /\ server \in {"serving", "closing", "stopped"}
  /\ restarts \in Nat
  /\ seq \in Nat
  /\ drop \in Nat
  /\ task \in {"ready", "sending", "failed", "cancelled"}
  /\ cur \in Sockets \cup {NoSocket}
  /\ (cur \in Sockets) <=> (task = "sending")
  /\ todo \in SUBSET (Sockets \ {cur})
  /\ dead \in SUBSET Sockets
  /\ clients \in SUBSET Sockets
  /\ handler \in [Sockets -> {"new", "running", "closed"}]
  /\ link \in [Sockets -> {"up", "lost", "down"}]
  /\ out \in [Sockets -> Seq(Frames)]
  /\ taken \in [Sockets -> Nat]
  /\ rows \in Nat
  /\ gpsRows \in Nat
  /\ eventRows \in Nat
  /\ logOpen \in BOOLEAN
  /\ base \in Nat

(* Every sequence number of a session is accounted for exactly once: it has   *)
(* a row in the CAN file or it was counted as a simulated drop, also when     *)
(* the loop was cancelled or failed half way through an iteration.            *)
EverySeqLoggedOrDropped ==
  /\ rows + drop \in {seq, seq + 1}
  /\ task = "sending" => rows + drop = seq + 1
  /\ task = "ready" => rows + drop = seq

(* Write-ahead: a frame a client can see has its row in the CAN file already. *)
SentRowsAreLogged ==
  \A ws \in Sockets : \A i \in 1..Len(out[ws]) : out[ws][i].row <= base + rows

(* What one socket is sent has no hole: successive frames are successive      *)
(* rows, and the gap of their sequence numbers is exactly the number of       *)
(* simulated drops between them.  This is what the dashboard's drop           *)
(* accounting takes for granted.                                            *)
StreamHasNoHole ==
  \A ws \in Sockets : \A i \in 1..(Len(out[ws]) - 1) :
    LET f == out[ws][i]
        g == out[ws][i + 1]
    IN  /\ g.row = f.row + 1
        /\ g.seq - f.seq - 1 = g.drop - f.drop

(* Between two iterations every registered client whose transport is not      *)
(* closed, and that was sent something, has been sent the newest row.         *)
NobodyLeftBehind ==
  task = "ready" =>
    \A ws \in clients : (link[ws] # "down" /\ out[ws] # << >>) =>
                          out[ws][Len(out[ws])].row = base + rows

(* The registry is exact in spite of the two places that remove from it (the  *)
(* handler's finally and the dead list of a broadcast that ran meanwhile): a  *)
(* client with an open transport is never evicted, and none outlives its      *)
(* handler.                                                                 *)
RegistryExact ==
  \A ws \in Sockets :
    /\ ws \in clients => handler[ws] = "running"
    /\ (handler[ws] = "running" /\ link[ws] # "down") => ws \in clients

(* No handler and no loop iteration can still write when the files are        *)
(* closed.                                                                  *)
LogClosedLast ==
  ~logOpen => /\ task \notin {"ready", "sending"}
              /\ \A ws \in Sockets : handler[ws] # "running"

(* A peer that vanished without closing leaves the registry.                  *)
VanishedClientLeaves ==
  \A ws \in Sockets : (link[ws] = "lost") ~> (ws \notin clients)

(* A session's loop never stalls for good: a peer that stops reading suspends *)
(* the broadcast, for every client, only until its keepalive times out, so    *)
(* the loop reaches its bound unless it failed or the process ended.         *)
LoopGoesOn ==
  (server = "serving") ~> (seq = MaxSeq \/ task \in {"failed", "cancelled"})
=============================================================================
