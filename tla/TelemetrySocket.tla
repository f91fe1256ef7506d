---------------------------- MODULE TelemetrySocket ----------------------------
(***************************************************************************)
(* The connection of the web dashboard: the class TelemetrySocket of          *)
(* client/ws.js as client/app.js uses it.  connectSocket makes a new instance  *)
(* for every click of Connect and calls connect once on it, disconnectSocket   *)
(* and the next connectSocket call disconnect; all instances report to the     *)
(* one status handler that drives the panel and the ping timer.              *)
(*                                                                          *)
(* A step is one event of the page.  An instance opens a WebSocket only when   *)
(* it has none (_open is reached from connect, once, and from the timer, which  *)
(* the close event armed after it had cleared this.ws), so a WebSocket is a     *)
(* state of its instance and the identity tests of the listeners always hold.   *)
(* An instance nothing refers to any more can be made anew.                    *)
(***************************************************************************)
EXTENDS Integers

CONSTANTS
  Instances,   \* TelemetrySocket objects
  NoInstance   \* null

ASSUME NoInstanceAssumption == NoInstance \notin Instances

VARIABLES
  socket,       \* app.js socket, the newest instance
  manualClose,  \* [Instances -> BOOLEAN]
  attempt,      \* [Instances -> Nat], reconnectAttempt
  timer,        \* [Instances -> BOOLEAN], reconnectTimer is armed
  phase,        \* [Instances -> none | connecting | open | closing], this.ws
  socketState,  \* app.js socketState
  connectDisabled, disconnectDisabled,  \* the two buttons
  pingTimer,    \* app.js pingTimer runs
  stale         \* history: the last status reported was an old instance's

instanceVars == <<manualClose, attempt, timer, phase>>
panelVars == <<socketState, connectDisabled, disconnectDisabled, pingTimer>>
vars == <<socket, instanceVars, panelVars, stale>>

(* 500 ms * 2 ** 4 is the maximum of 8000 ms: later attempts wait as long.     *)
LastBackoff == 4

(* index.html enables both buttons.                                          *)
Init ==
  /\ socket = NoInstance
  /\ manualClose = [i \in Instances |-> FALSE]
  /\ attempt = [i \in Instances |-> 0]
  /\ timer = [i \in Instances |-> FALSE]
  /\ phase = [i \in Instances |-> "none"]
  /\ socketState = "disconnected"
  /\ connectDisabled = FALSE
  /\ disconnectDisabled = FALSE
  /\ pingTimer = FALSE
  /\ stale = FALSE

(* The status handler of app.js; ping is what becomes of the ping timer over     *)
(* all statuses of the step, of which state is the last.                       *)
OnStatus(state, ping) ==
  /\ socketState' = state
  /\ connectDisabled' = (state = "connected")
  /\ disconnectDisabled' = (state \notin {"connected", "reconnecting"})
  /\ pingTimer' = ping

(* ws.close(): a WebSocket that is connecting or open starts to close.          *)
AfterClose(p) == IF p \in {"connecting", "open"} THEN "closing" ELSE p

(* Mutant: the timer of the instance given up is left armed.                    *)
TimersAfterDisconnectLeft(i) == timer

(* The timers once instance i has been told to disconnect.                     *)
TimersAfterDisconnect(i) == [timer EXCEPT ![i] = FALSE]

(* disconnect(), called by the Disconnect button; without an instance the button   *)
(* does nothing.                                                              *)
ClickDisconnect ==
  /\ ~disconnectDisabled
  /\ socket # NoInstance
  /\ manualClose' = [manualClose EXCEPT ![socket] = TRUE]
  /\ timer' = TimersAfterDisconnect(socket)
  /\ phase' = [phase EXCEPT ![socket] = AfterClose(@)]
  /\ OnStatus("disconnected", FALSE)
  /\ stale' = FALSE
  /\ UNCHANGED <<socket, attempt>>

(* An object the constructor can make: not the newest, and nothing left of it    *)
(* that could still run.                                                      *)
Fresh(i) == i # socket /\ phase[i] = "none" /\ ~timer[i]

(* connectSocket: the instance before is told to disconnect (its status is        *)
(* overwritten in the same step), the new one connects.                         *)
ClickConnect ==
  /\ ~connectDisabled
  /\ \E i \in Instances :
       /\ Fresh(i)
       /\ socket' = i
       /\ attempt' = [attempt EXCEPT ![i] = 0]
       /\ IF socket = NoInstance
          THEN /\ manualClose' = [manualClose EXCEPT ![i] = FALSE]
               /\ phase' = [phase EXCEPT ![i] = "connecting"]
               /\ UNCHANGED timer
          ELSE /\ manualClose' = [manualClose EXCEPT ![socket] = TRUE, ![i] = FALSE]
               /\ phase' = [phase EXCEPT ![socket] = AfterClose(@),
                                         ![i] = "connecting"]
               /\ timer' = TimersAfterDisconnect(socket)
  /\ OnStatus("connecting", FALSE)
  /\ stale' = FALSE

(* The open event.                                                           *)
OpenEvent(i) ==
  /\ phase[i] = "connecting"
  /\ phase' = [phase EXCEPT ![i] = "open"]
  /\ attempt' = [attempt EXCEPT ![i] = 0]
  /\ OnStatus("connected", TRUE)
  /\ stale' = (i # socket)
  /\ UNCHANGED <<socket, manualClose, timer>>

(* Mutant: the close event arms the timer also after a disconnect.               *)
CloseEventRetries(i) ==
  /\ phase[i] # "none"
  /\ phase' = [phase EXCEPT ![i] = "none"]
  /\ timer' = [timer EXCEPT ![i] = TRUE]
  /\ OnStatus("reconnecting", FALSE)
  /\ stale' = (i # socket)
  /\ UNCHANGED <<socket, manualClose, attempt>>

(* Mutant: the status handler stops the pings on a Disconnect only.               *)
CloseEventKeepsPing(i) ==
  /\ phase[i] # "none"
  /\ phase' = [phase EXCEPT ![i] = "none"]
  /\ timer' = [timer EXCEPT ![i] = ~manualClose[i]]
  /\ OnStatus(IF manualClose[i] THEN "disconnected" ELSE "reconnecting", pingTimer)
  /\ stale' = (i # socket)
  /\ UNCHANGED <<socket, manualClose, attempt>>

(* The close event: of an attempt that failed, a connection that was lost, or      *)
(* the end of a closing handshake; unless the user disconnected, the next attempt   *)
(* is scheduled.                                                              *)
CloseEvent(i) ==
  /\ phase[i] # "none"
  /\ phase' = [phase EXCEPT ![i] = "none"]
  /\ IF manualClose[i]
     THEN /\ OnStatus("disconnected", FALSE)
          /\ UNCHANGED <<attempt, timer>>
     ELSE /\ OnStatus("reconnecting", FALSE)
          /\ attempt' = [attempt EXCEPT ![i] = IF @ < LastBackoff THEN @ + 1 ELSE @]
          /\ timer' = [timer EXCEPT ![i] = TRUE]
  /\ stale' = (i # socket)
  /\ UNCHANGED <<socket, manualClose>>

(* The timeout of _scheduleReconnect.                                          *)
TimerFires(i) ==
  /\ timer[i]
  /\ timer' = [timer EXCEPT ![i] = FALSE]
  /\ phase' = [phase EXCEPT ![i] = "connecting"]
  /\ OnStatus("connecting", pingTimer)
  /\ stale' = (i # socket)
  /\ UNCHANGED <<socket, manualClose, attempt>>

(* The server starts the closing handshake (external).                          *)
PeerCloses(i) ==
  /\ phase[i] = "open"
  /\ phase' = [phase EXCEPT ![i] = "closing"]
  /\ UNCHANGED <<socket, manualClose, attempt, timer, panelVars, stale>>

Next ==
  \/ ClickConnect \/ ClickDisconnect
  \/ \E i \in Instances :
       OpenEvent(i) \/ CloseEvent(i) \/ TimerFires(i) \/ PeerCloses(i)

Spec == Init /\ [][Next]_vars

(* The browser runs timers and ends every attempt and every handshake.  The        *)
(* server is there often enough: of infinitely many attempts one succeeds.        *)
Fairness ==
  \A i \in Instances :
    /\ WF_vars(TimerFires(i))
    /\ WF_vars(phase[i] \in {"connecting", "closing"}
                 /\ (OpenEvent(i) \/ CloseEvent(i)))
    /\ SF_vars(i = socket /\ OpenEvent(i))

FairSpec == Spec /\ Fairness

-----------------------------------------------------------------------------
TypeOK ==
  /\ socket \in Instances \cup {NoInstance}
  /\ manualClose \in [Instances -> BOOLEAN]
  /\ attempt \in [Instances -> 0..LastBackoff]
  /\ timer \in [Instances -> BOOLEAN]
  /\ phase \in [Instances -> {"none", "connecting", "open", "closing"}]
  /\ socketState \in {"disconnected", "connecting", "connected", "reconnecting"}
  /\ connectDisabled \in BOOLEAN
  /\ disconnectDisabled \in BOOLEAN
  /\ pingTimer \in BOOLEAN
  /\ stale \in BOOLEAN

Wanted == socket # NoInstance /\ ~manualClose[socket]

LiveTransport ==
  IF socket = NoInstance \/ phase[socket] \notin {"connecting", "open"} THEN "none"
  ELSE IF phase[socket] = "open" THEN "open" ELSE "opening"

Managed == INSTANCE ManagedConnection WITH wanted <- Wanted, live <- LiveTransport

(* The client of ws.js implements the managed connection: the live transport is   *)
(* the newest instance's, attempts go on while the user wants them and stop with   *)
(* the Disconnect button.                                                     *)
ImplementsManaged == Managed!FairSpec

(* One connection, over any clicks, events and retries: an instance given up neither     *)
(* has nor will get a transport, so the server counts one page as one client, and the     *)
(* newest one, while it is wanted, has a WebSocket or an armed timer, never both and        *)
(* never neither: no close event is without a retry and no retry is doubled.              *)
OneConnection ==
  /\ \A i \in Instances \ {socket} : phase[i] \in {"none", "closing"} /\ ~timer[i]
  /\ Wanted => (timer[socket] <=> phase[socket] = "none")

(* What the panel shows is the newest instance's state, except between a status of       *)
(* an old instance and the next one of the newest; and pings run, whoever started them,   *)
(* only over a connection that was open and has not ended.                            *)
PanelFollowsSocket ==
  /\ pingTimer => socket # NoInstance /\ phase[socket] \in {"open", "closing"}
  /\ (socket # NoInstance /\ ~stale) =>
       /\ phase[socket] = "open" => socketState = "connected" /\ pingTimer
       /\ socketState = "connected" => phase[socket] \in {"open", "closing"}
       /\ timer[socket] => socketState = "reconnecting" /\ ~disconnectDisabled
=============================================================================
