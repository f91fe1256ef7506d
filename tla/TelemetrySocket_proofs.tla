------------------------- MODULE TelemetrySocket_proofs -------------------------
(***************************************************************************)
(* Proofs about TelemetrySocket for any number of instances: its invariants,   *)
(* and that every step of the web client is a step of ManagedConnection or       *)
(* leaves it alone.                                                          *)
(***************************************************************************)
EXTENDS TelemetrySocket, TLAPS

USE NoInstanceAssumption DEF instanceVars, panelVars

(* A timer is armed only on the instance the user wants, and an old instance that    *)
(* still has a WebSocket has been told to close it, so its close event arms none.    *)
TimerInv ==
  \A i \in Instances :
    /\ timer[i] => i = socket /\ ~manualClose[i]
    /\ (i # socket /\ phase[i] # "none") => manualClose[i]

IInv ==
  /\ TypeOK
  /\ TimerInv
  /\ OneConnection
  /\ PanelFollowsSocket

LEMMA InvInit == Init => IInv
<1> SUFFICES ASSUME Init PROVE IInv
  OBVIOUS
<1>1. TypeOK
  <2>1. attempt \in [Instances -> 0..LastBackoff]
    BY DEF Init, LastBackoff
  <2> QED
    BY <2>1 DEF Init, TypeOK
<1>2. TimerInv
  BY DEF Init, TimerInv
<1>3. OneConnection /\ PanelFollowsSocket
  BY DEF Init, OneConnection, Wanted, PanelFollowsSocket
<1> QED
  BY <1>1, <1>2, <1>3 DEF IInv

(* The control state: who has a WebSocket and who a timer.                       *)
LEMMA ControlNext ==
  ASSUME IInv, [Next]_vars
  PROVE  TypeOK' /\ TimerInv' /\ OneConnection'
<1> USE DEF IInv, TypeOK, TimerInv, OneConnection, Wanted, OnStatus
<1>1. CASE ClickDisconnect
  BY <1>1 DEF ClickDisconnect, TimersAfterDisconnect, AfterClose
<1>2. CASE ClickConnect
  <2>1. PICK i \in Instances :
          /\ Fresh(i)
          /\ socket' = i
          /\ attempt' = [attempt EXCEPT ![i] = 0]
          /\ IF socket = NoInstance
             THEN /\ manualClose' = [manualClose EXCEPT ![i] = FALSE]
                  /\ phase' = [phase EXCEPT ![i] = "connecting"]
                  /\ UNCHANGED timer
             ELSE /\ manualClose' = [manualClose EXCEPT ![socket] = TRUE, ![i] = FALSE]
                  /\ phase' = [phase EXCEPT ![socket] = AfterClose(@),
                                            ![i] = "connecting"]
                  /\ timer' = TimersAfterDisconnect(socket)
    BY <1>2 DEF ClickConnect
  <2>2. /\ socketState' = "connecting" /\ stale' = FALSE /\ pingTimer' = FALSE
        /\ connectDisabled' = ("connecting" = "connected")
        /\ disconnectDisabled' = ("connecting" \notin {"connected", "reconnecting"})
    BY <1>2 DEF ClickConnect
  <2>3. attempt' \in [Instances -> 0..LastBackoff]
    BY <2>1 DEF LastBackoff
  <2>4. CASE socket = NoInstance
    <3>1. TypeOK'
      BY <2>1, <2>2, <2>3, <2>4
    <3>2. TimerInv' /\ OneConnection'
      BY <2>1, <2>4 DEF Fresh
    <3> QED
      BY <3>1, <3>2
  <2>5. CASE socket # NoInstance
    <3>1. phase' \in [Instances -> {"none", "connecting", "open", "closing"}]
      BY <2>1, <2>5 DEF AfterClose
    <3>2. timer' \in [Instances -> BOOLEAN] /\ manualClose' \in [Instances -> BOOLEAN]
      BY <2>1, <2>5 DEF TimersAfterDisconnect
    <3>3. TypeOK'
      BY <2>1, <2>2, <2>3, <3>1, <3>2
    <3>4. TimerInv' /\ OneConnection'
      BY <2>1, <2>5, <3>1, <3>2 DEF Fresh, AfterClose, TimersAfterDisconnect
    <3> QED
      BY <3>3, <3>4
  <2> QED
    BY <2>4, <2>5
<1>3. ASSUME NEW i \in Instances, OpenEvent(i)
      PROVE  TypeOK' /\ TimerInv' /\ OneConnection'
  BY <1>3 DEF OpenEvent, LastBackoff
<1>4. ASSUME NEW i \in Instances, CloseEvent(i)
      PROVE  TypeOK' /\ TimerInv' /\ OneConnection'
  <2>1. /\ phase' = [phase EXCEPT ![i] = "none"]
        /\ UNCHANGED <<socket, manualClose>>
        /\ stale' \in BOOLEAN
        /\ phase[i] # "none"
    BY <1>4 DEF CloseEvent
  <2>2. CASE manualClose[i]
    <3>1. UNCHANGED <<attempt, timer>> /\ OnStatus("disconnected", FALSE)
      BY <1>4, <2>2 DEF CloseEvent
    <3>2. TypeOK'
      BY <2>1, <3>1
    <3>3. TimerInv'
      BY <2>1, <2>2, <3>1
    <3>4. OneConnection'
      BY <2>1, <2>2, <3>1
    <3> QED
      BY <3>2, <3>3, <3>4
  <2>3. CASE ~manualClose[i]
    <3>1. /\ attempt' = [attempt EXCEPT ![i] = IF @ < LastBackoff THEN @ + 1 ELSE @]
          /\ timer' = [timer EXCEPT ![i] = TRUE]
          /\ OnStatus("reconnecting", FALSE)
      BY <1>4, <2>3 DEF CloseEvent
    <3>2. attempt' \in [Instances -> 0..LastBackoff]
      BY <3>1 DEF LastBackoff
    <3>3. TypeOK'
      BY <2>1, <3>1, <3>2
    <3>4. i = socket
      BY <2>1, <2>3
    <3>5. TimerInv' /\ OneConnection'
      BY <2>1, <2>3, <3>1, <3>4
    <3> QED
      BY <3>3, <3>5
  <2> QED
    BY <2>2, <2>3
<1>5. ASSUME NEW i \in Instances, TimerFires(i)
      PROVE  TypeOK' /\ TimerInv' /\ OneConnection'
  BY <1>5 DEF TimerFires
<1>6. ASSUME NEW i \in Instances, PeerCloses(i)
      PROVE  TypeOK' /\ TimerInv' /\ OneConnection'
  BY <1>6 DEF PeerCloses
<1>7. CASE UNCHANGED vars
  BY <1>7 DEF vars
<1> QED
  BY <1>1, <1>2, <1>3, <1>4, <1>5, <1>6, <1>7 DEF Next

(* What the panel and the ping timer make of it.                                 *)
LEMMA PanelNext ==
  ASSUME IInv, [Next]_vars
  PROVE  PanelFollowsSocket'
<1> USE DEF IInv, TypeOK, TimerInv, OneConnection, Wanted, OnStatus,
            PanelFollowsSocket
<1>1. CASE ClickDisconnect
  BY <1>1 DEF ClickDisconnect, TimersAfterDisconnect, AfterClose
<1>2. CASE ClickConnect
  BY <1>2 DEF ClickConnect, Fresh, TimersAfterDisconnect, AfterClose
<1>3. ASSUME NEW i \in Instances, OpenEvent(i)
      PROVE  PanelFollowsSocket'
  BY <1>3 DEF OpenEvent
<1>4. ASSUME NEW i \in Instances, CloseEvent(i)
      PROVE  PanelFollowsSocket'
  BY <1>4 DEF CloseEvent
<1>5. ASSUME NEW i \in Instances, TimerFires(i)
      PROVE  PanelFollowsSocket'
  BY <1>5 DEF TimerFires
<1>6. ASSUME NEW i \in Instances, PeerCloses(i)
      PROVE  PanelFollowsSocket'
  BY <1>6 DEF PeerCloses
<1>7. CASE UNCHANGED vars
  BY <1>7 DEF vars
<1> QED
  BY <1>1, <1>2, <1>3, <1>4, <1>5, <1>6, <1>7 DEF Next

LEMMA InvNext == IInv /\ [Next]_vars => IInv'
<1> SUFFICES ASSUME IInv, [Next]_vars PROVE IInv'
  OBVIOUS
<1> QED
  BY ControlNext, PanelNext DEF IInv

LEMMA InvAlways == Spec => []IInv
BY InvInit, InvNext, PTL DEF Spec

(* Every variable of the web client keeps its type, the backoff its maximum.         *)
THEOREM TypeCorrect == Spec => []TypeOK
<1>1. IInv => TypeOK
  BY DEF IInv
<1> QED
  BY <1>1, InvAlways, PTL

(* At most one transport per page is being opened or open: an instance given up      *)
(* ends and never comes back, and the retry is neither forgotten nor doubled.        *)
THEOREM ConnectionExact == Spec => []OneConnection
<1>1. IInv => OneConnection
  BY DEF IInv
<1> QED
  BY <1>1, InvAlways, PTL

(* The panel is right whenever the last status came from the newest instance, and     *)
(* no ping timer outlives its connection.                                       *)
THEOREM PanelCorrect == Spec => []PanelFollowsSocket
<1>1. IInv => PanelFollowsSocket
  BY DEF IInv
<1> QED
  BY <1>1, InvAlways, PTL

-----------------------------------------------------------------------------
LEMMA ManagedStep == IInv /\ IInv' /\ [Next]_vars => [Managed!Next]_(Managed!managedVars)
<1> SUFFICES ASSUME IInv, IInv', [Next]_vars
             PROVE  Managed!Next \/ (Wanted' = Wanted /\ LiveTransport' = LiveTransport)
  BY DEF Managed!managedVars
<1> USE DEF IInv, TypeOK, TimerInv, OneConnection, Wanted, LiveTransport
<1>1. CASE ClickDisconnect
  <2>1. Managed!Disconnect
    BY <1>1 DEF ClickDisconnect, AfterClose, Managed!Disconnect
  <2> QED
    BY <2>1 DEF Managed!Next
<1>2. CASE ClickConnect
  <2>1. Managed!Connect
    BY <1>2 DEF ClickConnect, Fresh, AfterClose, Managed!Connect
  <2> QED
    BY <2>1 DEF Managed!Next
<1>3. ASSUME NEW i \in Instances, OpenEvent(i) PROVE Managed!Up
  BY <1>3 DEF OpenEvent, Managed!Up
<1>4. ASSUME NEW i \in Instances, CloseEvent(i) \/ PeerCloses(i)
      PROVE  Managed!Lost \/ (Wanted' = Wanted /\ LiveTransport' = LiveTransport)
  <2>1. UNCHANGED <<socket, manualClose>> /\ phase[i] # "none"
    BY <1>4 DEF CloseEvent, PeerCloses
  <2>2. \/ phase' = [phase EXCEPT ![i] = "none"]
        \/ phase' = [phase EXCEPT ![i] = "closing"] /\ phase[i] = "open"
    BY <1>4 DEF CloseEvent, PeerCloses
  <2>3. CASE i # socket
    BY <2>1, <2>2, <2>3
  <2>4. CASE i = socket
    <3>1. LiveTransport' = "none" /\ Wanted' = Wanted
      BY <2>1, <2>2, <2>4
    <3> QED
      BY <3>1 DEF Managed!Lost
  <2> QED
    BY <2>3, <2>4
<1>5. ASSUME NEW i \in Instances, TimerFires(i) PROVE Managed!Dial
  BY <1>5 DEF TimerFires, Managed!Dial
<1>6. CASE UNCHANGED vars
  BY <1>6 DEF vars
<1> QED
  BY <1>1, <1>2, <1>3, <1>4, <1>5, <1>6 DEF Next, Managed!Next

(* Every behaviour of the web client is one of the managed connection: attempts        *)
(* only while the user wants them, one live transport, none after Disconnect.          *)
THEOREM RefinesManaged == Spec => Managed!Spec
<1>1. Init => Managed!Init
  BY DEF Init, Managed!Init, Wanted, LiveTransport
<1> QED
  BY <1>1, InvAlways, ManagedStep, PTL DEF Spec, Managed!Spec
=============================================================================
