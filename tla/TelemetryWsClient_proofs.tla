------------------------ MODULE TelemetryWsClient_proofs ------------------------
(***************************************************************************)
(* Proofs about TelemetryWsClient for any number of WebSockets: a client that is   *)
(* to be connected is never stuck, whatever the user presses, and for a patient     *)
(* user every step is a step of ManagedConnection or leaves it alone.              *)
(***************************************************************************)
EXTENDS TelemetryWsClient, TLAPS

USE NoTransportAssumption

(* Before the first Connect there is no WebSocket, so no close event that would arm  *)
(* the timer of a client without a URL.                                         *)
StartInv == ~started => \A t \in Transports : phase[t] = "none"

(* What a patient user never sees: a live WebSocket this.ws has forgotten, a close    *)
(* event of an old one beside the new, a timer beside a WebSocket.                  *)
PatientInv ==
  patient =>
    /\ ~manualClose => \A t \in Transports : phase[t] # "none" => t = ws
    /\ manualClose => \A t \in Transports : phase[t] \in {"none", "closing"}
    /\ ~manualClose => \A t \in Transports : phase[t] # "closing"
    /\ reconnectTimer => ws = NoTransport

IInv ==
  /\ TypeOK
  /\ StartInv
  /\ NeverStuck
  /\ PatientInv

-----------------------------------------------------------------------------
LEMMA DelaysDomain == DOMAIN Delays = 1..LongestWait /\ LongestWait = 5
BY DEF Delays, LongestWait

LEMMA InvInit == Init => IInv
<1> SUFFICES ASSUME Init PROVE IInv
  OBVIOUS
<1>1. backoff \in DOMAIN Delays
  BY DelaysDomain DEF Init
<1>2. TypeOK
  BY <1>1 DEF Init, TypeOK
<1>3. StartInv /\ NeverStuck /\ PatientInv
  BY DEF Init, StartInv, NeverStuck, Wanted, PatientInv
<1> QED
  BY <1>2, <1>3 DEF IInv

(* What _open adds: one WebSocket, where there was none.                           *)
LEMMA OpenAdds ==
  ASSUME TypeOK, Open
  PROVE  \E t \in Transports :
           /\ phase[t] = "none"
           /\ ws' = t
           /\ phase' = [phase EXCEPT ![t] = "connecting"]
           /\ phase' \in [Transports -> {"none", "connecting", "open", "closing"}]
           /\ phase'[t] = "connecting"
           /\ \A u \in Transports \ {t} : phase'[u] = phase[u]
BY DEF TypeOK, Open

LEMMA ConnectInv ==
  ASSUME IInv, Connect
  PROVE  IInv'
<1>1. PICK t \in Transports :
        /\ phase[t] = "none"
        /\ ws' = t
        /\ phase' \in [Transports -> {"none", "connecting", "open", "closing"}]
        /\ phase'[t] = "connecting"
        /\ \A u \in Transports \ {t} : phase'[u] = phase[u]
  BY OpenAdds DEF Connect, IInv
<1>2. /\ started' = TRUE /\ manualClose' = FALSE /\ backoff' = 1 /\ state' = "connecting"
      /\ patient' = (patient /\ Quiet)
      /\ UNCHANGED <<reconnectTimer, pingTimer, pingPending>>
  BY DEF Connect, Open
<1>3. TypeOK'
  <2>1. backoff' \in DOMAIN Delays
    BY <1>2, DelaysDomain
  <2>2. patient' \in BOOLEAN
    BY <1>2
  <2> QED
    BY <1>1, <1>2, <2>1, <2>2 DEF IInv, TypeOK
<1>4. StartInv' /\ NeverStuck'
  BY <1>1, <1>2 DEF IInv, StartInv, NeverStuck, Wanted
<1>5. PatientInv'
  BY <1>1, <1>2 DEF Quiet, PatientInv
<1> QED
  BY <1>3, <1>4, <1>5 DEF IInv

LEMMA TimerInv ==
  ASSUME IInv, TimerFires
  PROVE  IInv'
<1>1. PICK t \in Transports :
        /\ phase[t] = "none"
        /\ ws' = t
        /\ phase' \in [Transports -> {"none", "connecting", "open", "closing"}]
        /\ phase'[t] = "connecting"
        /\ \A u \in Transports \ {t} : phase'[u] = phase[u]
  BY OpenAdds DEF TimerFires, IInv
<1>2. /\ reconnectTimer /\ reconnectTimer' = FALSE /\ state' = "connecting"
      /\ UNCHANGED <<started, manualClose, pingTimer, backoff, pingPending, patient>>
  BY DEF TimerFires, Open
<1>3. started /\ ~manualClose
  BY <1>2 DEF IInv, NeverStuck, Wanted
<1>4. TypeOK'
  BY <1>1, <1>2 DEF IInv, TypeOK
<1>5. StartInv' /\ NeverStuck'
  BY <1>1, <1>2, <1>3 DEF IInv, StartInv, NeverStuck, Wanted
<1>6. PatientInv'
  BY <1>1, <1>2, <1>3 DEF IInv, PatientInv
<1> QED
  BY <1>4, <1>5, <1>6 DEF IInv

LEMMA InvNext == IInv /\ [Next]_vars => IInv'
<1> SUFFICES ASSUME IInv, [Next]_vars PROVE IInv'
  OBVIOUS
<1>1. CASE Connect
  BY <1>1, ConnectInv
<1>2. CASE Disconnect
  <2>1. TypeOK'
    BY <1>2 DEF IInv, TypeOK, Disconnect
  <2>2. StartInv' /\ NeverStuck' /\ PatientInv'
    BY <1>2 DEF IInv, TypeOK, StartInv, NeverStuck, Wanted, PatientInv, Disconnect
  <2> QED
    BY <2>1, <2>2 DEF IInv
<1>3. CASE TimerFires
  BY <1>3, TimerInv
<1>4. CASE PingTick
  BY <1>4 DEF PingTick, clientVars, IInv, TypeOK, StartInv, NeverStuck, Wanted, PatientInv
<1>5. ASSUME NEW t \in Transports, OnOpen(t) PROVE IInv'
  <2>1. backoff' \in DOMAIN Delays
    BY <1>5, DelaysDomain DEF OnOpen
  <2>2. TypeOK'
    BY <1>5, <2>1 DEF IInv, TypeOK, OnOpen
  <2>3. StartInv' /\ NeverStuck' /\ PatientInv'
    BY <1>5 DEF IInv, TypeOK, StartInv, NeverStuck, Wanted, PatientInv, OnOpen
  <2> QED
    BY <2>2, <2>3 DEF IInv
<1>6. ASSUME NEW t \in Transports, OnClose(t) PROVE IInv'
  <2>1. /\ phase' = [phase EXCEPT ![t] = "none"] /\ phase[t] # "none"
        /\ ~pingTimer' /\ ws' = NoTransport
        /\ pingTimer' \in BOOLEAN
        /\ UNCHANGED <<started, manualClose, pingPending, patient>>
    BY <1>6 DEF OnClose
  <2>2. \/ manualClose /\ UNCHANGED <<state, reconnectTimer, backoff>>
        \/ /\ ~manualClose /\ state' = "reconnecting" /\ reconnectTimer' = TRUE
           /\ backoff' = IF backoff < LongestWait THEN backoff + 1 ELSE backoff
    BY <1>6 DEF OnClose
  <2>3. backoff' \in DOMAIN Delays
    BY <2>2, DelaysDomain DEF IInv, TypeOK
  <2>4. TypeOK'
    BY <2>1, <2>2, <2>3 DEF IInv, TypeOK
  <2>5. StartInv' /\ NeverStuck' /\ PatientInv'
    BY <2>1, <2>2 DEF IInv, TypeOK, StartInv, NeverStuck, Wanted, PatientInv
  <2> QED
    BY <2>4, <2>5 DEF IInv
<1>7. ASSUME NEW t \in Transports, Pong(t) PROVE IInv'
  BY <1>7 DEF Pong, clientVars, IInv, TypeOK, StartInv, NeverStuck, Wanted, PatientInv
<1>8. CASE UNCHANGED vars
  BY <1>8 DEF vars, clientVars, IInv, TypeOK, StartInv, NeverStuck, Wanted, PatientInv
<1> QED
  BY <1>1, <1>2, <1>3, <1>4, <1>5, <1>6, <1>7, <1>8 DEF Next, TransportStep

LEMMA InvAlways == Spec => []IInv
BY InvInit, InvNext, PTL DEF Spec

(* Every variable of the mobile client keeps its type, the backoff stays in its table.   *)
THEOREM TypeCorrect == Spec => []TypeOK
<1>1. IInv => TypeOK
  BY DEF IInv
<1> QED
  BY <1>1, InvAlways, PTL

(* Over any presses and close events of any number of forgotten WebSockets a client      *)
(* that is to be connected has a socket under way or a timer, and none once it is not.     *)
THEOREM NeverStuckCorrect == Spec => []NeverStuck
<1>1. IInv => NeverStuck
  BY DEF IInv
<1> QED
  BY <1>1, InvAlways, PTL

-----------------------------------------------------------------------------
(* One step of a patient user's client, seen as the managed connection.               *)
LEMMA ManagedStep ==
  IInv /\ [Next]_vars => (patient' => [Managed!Next]_(Managed!managedVars))
<1> SUFFICES ASSUME IInv, [Next]_vars, patient'
             PROVE  Managed!Next \/ (Wanted' = Wanted /\ LiveTransport' = LiveTransport)
  BY DEF Managed!managedVars
<1> USE DEF IInv, TypeOK, StartInv, NeverStuck, PatientInv, Wanted, LiveTransport
<1>1. CASE Connect
  <2>1. PICK t \in Transports :
          /\ phase'[t] = "connecting"
          /\ \A u \in Transports \ {t} : phase'[u] = phase[u]
    BY <1>1, OpenAdds DEF Connect
  <2>2. \A u \in Transports : phase[u] = "none"
    BY <1>1 DEF Connect, Quiet
  <2>3. Managed!Connect
    BY <1>1, <2>1, <2>2 DEF Connect, Managed!Connect
  <2> QED
    BY <2>3 DEF Managed!Next
<1>2. CASE Disconnect
  <2>1. \A u \in Transports : phase'[u] \in {"none", "closing"}
    BY <1>2 DEF Disconnect
  <2>2. Managed!Disconnect
    BY <1>2, <2>1 DEF Disconnect, Managed!Disconnect
  <2> QED
    BY <2>2 DEF Managed!Next
<1>3. CASE TimerFires
  <2>1. PICK t \in Transports :
          /\ phase'[t] = "connecting"
          /\ \A u \in Transports \ {t} : phase'[u] = phase[u]
    BY <1>3, OpenAdds DEF TimerFires
  <2>2. Wanted /\ \A u \in Transports : phase[u] = "none"
    BY <1>3 DEF TimerFires
  <2>3. Managed!Dial
    BY <1>3, <2>1, <2>2 DEF TimerFires, Managed!Dial
  <2> QED
    BY <2>3 DEF Managed!Next
<1>4. CASE PingTick
  BY <1>4 DEF PingTick, clientVars
<1>5. ASSUME NEW t \in Transports, OnOpen(t) PROVE Managed!Next
  <2>1. Wanted /\ \A u \in Transports \ {t} : phase[u] = "none"
    BY <1>5 DEF OnOpen
  <2>2. Managed!Up
    BY <1>5, <2>1 DEF OnOpen, Managed!Up
  <2> QED
    BY <2>2 DEF Managed!Next
<1>6. ASSUME NEW t \in Transports, OnClose(t)
      PROVE  Managed!Next \/ (Wanted' = Wanted /\ LiveTransport' = LiveTransport)
  <2>1. CASE manualClose
    BY <1>6, <2>1 DEF OnClose
  <2>2. CASE ~manualClose
    <3>1. /\ phase[t] \in {"connecting", "open"} /\ started
          /\ \A u \in Transports \ {t} : phase[u] = "none"
      BY <1>6, <2>2 DEF OnClose
    <3>2. Managed!Lost
      BY <1>6, <2>2, <3>1 DEF OnClose, Managed!Lost
    <3> QED
      BY <3>2 DEF Managed!Next
  <2> QED
    BY <2>1, <2>2
<1>7. ASSUME NEW t \in Transports, Pong(t)
      PROVE  Wanted' = Wanted /\ LiveTransport' = LiveTransport
  BY <1>7 DEF Pong, clientVars
<1>8. CASE UNCHANGED vars
  BY <1>8 DEF vars, clientVars
<1> QED
  BY <1>1, <1>2, <1>3, <1>4, <1>5, <1>6, <1>7, <1>8 DEF Next, TransportStep

(* As long as the user presses Connect only with nothing left to replace, the mobile      *)
(* client is a managed connection, step by step, the one the web client always is.        *)
THEOREM PatientRefines ==
  Spec => Managed!Init /\ [][patient' => [Managed!Next]_(Managed!managedVars)]_vars
<1>1. Init => Managed!Init
  BY DEF Init, Managed!Init, Wanted, LiveTransport
<1> QED
  BY <1>1, InvAlways, ManagedStep, PTL DEF Spec
=============================================================================
