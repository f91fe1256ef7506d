--------------------------- MODULE TelemetryWsClient ---------------------------
(***************************************************************************)
(* mobile/src/telemetry/ws-client.js, the WebSocket client of the mobile app,  *)
(* under the two buttons of mobile/src/App.js, which are never disabled, and    *)
(* the unmount of the app, which calls disconnect.                            *)
(*                                                                          *)
(* connect neither closes the WebSocket before nor clears the reconnect timer,  *)
(* and the listeners do not ask whose event they handle: several WebSockets can  *)
(* exist, of which this.ws is at most one.  A step is one event of the app.     *)
(***************************************************************************)
EXTENDS Integers

CONSTANTS
  Transports,   \* WebSocket objects; one that is closed can be made anew
  NoTransport   \* null

ASSUME NoTransportAssumption == NoTransport \notin Transports

VARIABLES
  started,         \* this.url is set
  manualClose,
  ws,              \* this.ws
  phase,           \* [Transports -> none | connecting | open | closing]
  reconnectTimer,  \* the timeout of _scheduleReconnect is armed
  pingTimer,       \* the interval of _startPing runs
  backoff,         \* backoffMs as an index of Delays
  state,           \* the state last reported to the app
  pingPending,     \* lastPingAtMs is set: the next pong reports an RTT
  patient          \* history: Connect was pressed only with nothing left to replace

clientVars == <<started, manualClose, ws, reconnectTimer, pingTimer, backoff, state>>
vars == <<clientVars, phase, pingPending, patient>>

(* 1000 ms doubled up to MAX_BACKOFF_MS, in seconds.                            *)
Delays == << 1, 2, 4, 8, 15 >>
LongestWait == 5

Init ==
  /\ started = FALSE
  /\ manualClose = FALSE
  /\ ws = NoTransport
  /\ phase = [t \in Transports |-> "none"]
  /\ reconnectTimer = FALSE
  /\ pingTimer = FALSE
  /\ backoff = 1
  /\ state = "disconnected"
  /\ pingPending = FALSE
  /\ patient = TRUE

(* _open: a new WebSocket replaces this.ws whatever that was.                    *)
Open ==
  /\ state' = "connecting"
  /\ \E t \in Transports :
       /\ phase[t] = "none"
       /\ t # ws
       /\ ws' = t
       /\ phase' = [phase EXCEPT ![t] = "connecting"]

(* Nothing is left of a connection before.                                      *)
Quiet == ws = NoTransport /\ ~reconnectTimer /\ \A t \in Transports : phase[t] = "none"

(* connect, the Connect button.                                               *)
Connect ==
  /\ started' = TRUE
  /\ patient' = (patient /\ Quiet)
  /\ manualClose' = FALSE
  /\ backoff' = 1
  /\ Open
  /\ UNCHANGED <<reconnectTimer, pingTimer, pingPending>>

(* Mutant: disconnect does not clear the reconnect timer.                        *)
DisconnectLeavesTimer ==
  /\ manualClose' = TRUE
  /\ pingTimer' = FALSE
  /\ ws' = NoTransport
  /\ phase' = [t \in Transports |->
                 IF t = ws /\ phase[t] # "none" THEN "closing" ELSE phase[t]]
  /\ state' = "disconnected"
  /\ UNCHANGED <<started, backoff, reconnectTimer, pingPending, patient>>

(* disconnect, the Disconnect button and the unmount.                           *)
Disconnect ==
  /\ manualClose' = TRUE
  /\ reconnectTimer' = FALSE
  /\ pingTimer' = FALSE
  /\ ws' = NoTransport
  /\ phase' = [t \in Transports |->
                 IF t = ws /\ phase[t] # "none" THEN "closing" ELSE phase[t]]
  /\ state' = "disconnected"
  /\ UNCHANGED <<started, backoff, pingPending, patient>>

(* onopen.                                                                   *)
OnOpen(t) ==
  /\ phase[t] = "connecting"
  /\ phase' = [phase EXCEPT ![t] = "open"]
  /\ backoff' = 1
  /\ state' = "connected"
  /\ pingTimer' = TRUE
  /\ UNCHANGED <<started, manualClose, ws, reconnectTimer, pingPending, patient>>

(* Mutant: onclose schedules the next attempt only once it was connected.         *)
OnCloseGivesUp(t) ==
  /\ phase[t] # "none"
  /\ phase' = [phase EXCEPT ![t] = "none"]
  /\ pingTimer' = FALSE
  /\ ws' = NoTransport
  /\ reconnectTimer' = (reconnectTimer \/ (~manualClose /\ phase[t] = "open"))
  /\ state' = IF manualClose THEN state ELSE "reconnecting"
  /\ UNCHANGED <<started, manualClose, backoff, pingPending, patient>>

(* onclose: this.ws is cleared, also when it is another WebSocket by now, and,     *)
(* unless the user disconnected, the one timer is armed again.                   *)
OnClose(t) ==
  /\ phase[t] # "none"
  /\ phase' = [phase EXCEPT ![t] = "none"]
  /\ pingTimer' = FALSE
  /\ ws' = NoTransport
  /\ IF manualClose
     THEN UNCHANGED <<state, reconnectTimer, backoff>>
     ELSE /\ state' = "reconnecting"
          /\ reconnectTimer' = TRUE
          /\ backoff' = IF backoff < LongestWait THEN backoff + 1 ELSE backoff
  /\ UNCHANGED <<started, manualClose, pingPending, patient>>

(* The timeout of _scheduleReconnect.                                          *)
TimerFires ==
  /\ reconnectTimer
  /\ reconnectTimer' = FALSE
  /\ Open
  /\ UNCHANGED <<started, manualClose, pingTimer, backoff, pingPending, patient>>

IsOpen == ws # NoTransport /\ phase[ws] = "open"

(* The interval of _startPing.                                                *)
PingTick ==
  /\ pingTimer
  /\ IsOpen
  /\ pingPending' = TRUE
  /\ UNCHANGED <<clientVars, phase, patient>>

(* The pong branch of onmessage, on any WebSocket: the age of the last ping is      *)
(* reported, whichever ping the pong answers; a pong after that is ignored.         *)
Pong(t) ==
  /\ phase[t] \in {"open", "closing"}
  /\ pingPending
  /\ pingPending' = FALSE
  /\ UNCHANGED <<clientVars, phase, patient>>

TransportStep == \E t \in Transports : OnOpen(t) \/ OnClose(t) \/ Pong(t)

Next == Connect \/ Disconnect \/ TimerFires \/ PingTick \/ TransportStep

Spec == Init /\ [][Next]_vars

(* Timers run, every attempt and every close() comes to an end, and of infinitely    *)
(* many attempts one succeeds.                                                 *)
Fairness ==
  /\ WF_vars(TimerFires)
  /\ \A t \in Transports :
       WF_vars(phase[t] \in {"connecting", "closing"} /\ (OnOpen(t) \/ OnClose(t)))
  /\ SF_vars(\E t \in Transports : t = ws /\ OnOpen(t))

FairSpec == Spec /\ Fairness

-----------------------------------------------------------------------------
TypeOK ==
  /\ started \in BOOLEAN
  /\ manualClose \in BOOLEAN
  /\ ws \in Transports \cup {NoTransport}
  /\ phase \in [Transports -> {"none", "connecting", "open", "closing"}]
  /\ reconnectTimer \in BOOLEAN
  /\ pingTimer \in BOOLEAN
  /\ backoff \in DOMAIN Delays
  /\ state \in {"disconnected", "connecting", "connected", "reconnecting"}
  /\ pingPending \in BOOLEAN
  /\ patient \in BOOLEAN

Wanted == started /\ ~manualClose

(* Over all WebSockets, also those this.ws has forgotten.                         *)
LiveTransport ==
  IF \E t \in Transports : phase[t] = "open" THEN "open"
  ELSE IF \E t \in Transports : phase[t] = "connecting" THEN "opening"
  ELSE "none"

Managed == INSTANCE ManagedConnection WITH wanted <- Wanted, live <- LiveTransport

(* As long as the user is patient the client is a managed connection, step by step;   *)
(* and for one who always is, it never gives up: of infinitely many attempts one       *)
(* succeeds.                                                                  *)
ImplementsManaged ==
  /\ Managed!Init
  /\ [][patient' => [Managed!Next]_(Managed!managedVars)]_vars
  /\ []patient => Managed!Fairness

(* Whatever the user presses and whoever's close event comes when: a client that is   *)
(* to be connected has a WebSocket of its own under way or a timer armed, so it is    *)
(* never stuck, and one that has been disconnected has neither.  Its pings stop with   *)
(* the connection: what they were started for can be gone, but some WebSocket is open. *)
NeverStuck ==
  /\ Wanted => \/ reconnectTimer
               \/ ws # NoTransport /\ phase[ws] \in {"connecting", "open"}
  /\ ~Wanted => ~reconnectTimer /\ ws = NoTransport
  /\ pingTimer => \E t \in Transports : phase[t] = "open"

(* The retry goes on for good also for an impatient user: one who wants the connection *)
(* in the end gets a socket the app can send on, again and again.                  *)
ComesBack == <>[]Wanted => []<>IsOpen
=============================================================================
