------------------------ MODULE TelemetryServer_proofs ------------------------
(***************************************************************************)
(* Proofs about TelemetryServer, about DashboardStream, which composes it with  *)
(* the page, and about the signals of the frames (ServerSignals): for every set   *)
(* of sockets, drop rate, send window and bound, and every configuration.         *)
(***************************************************************************)
EXTENDS DashboardStream, ServerSignals, SequenceTheorems, TLAPS

(* What the actions are made of.                                            *)
USE DEF streamVars, socketVars, wireVars, logVars

(* The loop and its locals: the snapshot exists only while the task is inside  *)
(* _broadcast, and every number is logged or dropped.                         *)
LoopInv ==
  /\ EverySeqLoggedOrDropped
  /\ task # "sending" => todo = {} /\ dead = {}

(* The life of a socket: a transport is open only while its handler runs, only  *)
(* sockets that have a handler are in a snapshot, and a send raised only where   *)
(* the transport is closed, for good since a socket is used once.              *)
SocketInv ==
  /\ RegistryExact
  /\ \A ws \in Sockets :
       /\ link[ws] # "down" => handler[ws] = "running"
       /\ ws \in todo \cup {cur} => handler[ws] # "new"
       /\ ws \in dead => link[ws] = "down" /\ handler[ws] # "new"

(* A stopped process has neither a handler nor a loop; a process that runs has   *)
(* its files open.                                                           *)
ProcessInv ==
  /\ server = "stopped" => /\ task \in {"failed", "cancelled"}
                           /\ \A ws \in Sockets : handler[ws] # "running"
  /\ server # "stopped" => logOpen

ControlInv == LoopInv /\ SocketInv /\ ProcessInv

-----------------------------------------------------------------------------
LEMMA TypeInit == Init => TypeOK
BY NoSocketAssumption DEF Init, TypeOK

(* A frame has a sample because its sequence number is accounted for already.     *)
LEMMA TypeNext == TypeOK /\ LoopInv /\ [Next]_vars => TypeOK'
<1> SUFFICES ASSUME TypeOK, LoopInv, [Next]_vars PROVE TypeOK'
  OBVIOUS
<1> USE NoSocketAssumption DEF TypeOK
<1>1. CASE SimDrop
  BY <1>1 DEF SimDrop, LoopWakes
<1>2. CASE TickAlone
  BY <1>2 DEF TickAlone, LoopWakes
<1>3. CASE TickBroadcast
  BY <1>3 DEF TickBroadcast, LoopWakes
<1>4. CASE TickFails
  BY <1>4 DEF TickFails, LoopWakes
<1>5. CASE SendOk
  <2>1. cur \in Sockets /\ CurrentFrame \in Frames
    BY <1>5 DEF SendOk, CurrentFrame, Frames, LoopInv, EverySeqLoggedOrDropped
  <2>2. out' \in [Sockets -> Seq(Frames)]
    BY <1>5, <2>1, AppendProperties DEF SendOk
  <2> QED
    BY <1>5, <2>1, <2>2 DEF SendOk, NextSend
<1>6. CASE SendFails
  BY <1>6 DEF SendFails, NextSend
<1>7. CASE ApiGps
  BY <1>7 DEF ApiGps, LogGps
<1>8. CASE ApiEvent
  BY <1>8 DEF ApiEvent, LogEvent
<1>9. CASE BeginShutdown
  BY <1>9 DEF BeginShutdown
<1>10. CASE LifespanExit
  BY <1>10 DEF LifespanExit, LoseTask
<1>11. CASE Kill
  BY <1>11 DEF Kill, LoseTask
<1>12. CASE Restart
  BY <1>12 DEF Restart, LoseTask
<1>13. ASSUME NEW ws \in Sockets, Accept(ws) PROVE TypeOK'
  BY <1>13 DEF Accept
<1>14. ASSUME NEW ws \in Sockets, HandlerExit(ws) PROVE TypeOK'
  BY <1>14 DEF HandlerExit, Unregister
<1>15. ASSUME NEW ws \in Sockets, Receive(ws) PROVE TypeOK'
  <2>1. UNCHANGED <<server, restarts, streamVars, wireVars>>
    BY <1>15 DEF Receive
  <2>2. CASE LogGps /\ UNCHANGED socketVars
    BY <2>1, <2>2 DEF LogGps
  <2>3. CASE LogEvent /\ UNCHANGED socketVars
    BY <2>1, <2>3 DEF LogEvent
  <2>4. CASE /\ Unregister(ws)
             /\ link' = [link EXCEPT ![ws] = "down"]
             /\ UNCHANGED logVars
    BY <2>1, <2>4 DEF Unregister
  <2> QED
    BY <1>15, <2>2, <2>3, <2>4 DEF Receive
<1>16. ASSUME NEW ws \in Sockets, PeerTakes(ws) PROVE TypeOK'
  BY <1>16 DEF PeerTakes
<1>17. ASSUME NEW ws \in Sockets,
              PeerCloses(ws) \/ PeerVanishes(ws) \/ KeepaliveTimeout(ws)
       PROVE TypeOK'
  BY <1>17 DEF PeerCloses, PeerVanishes, KeepaliveTimeout, SetLink
<1>18. CASE UNCHANGED vars
  BY <1>18 DEF vars
<1> QED
  BY <1>1, <1>2, <1>3, <1>4, <1>5, <1>6, <1>7, <1>8, <1>9, <1>10, <1>11,
     <1>12, <1>13, <1>14, <1>15, <1>16, <1>17, <1>18
     DEF Next, ServerStep, LoopStep, SendStep

(* ControlInv is kept by every step: neither of the two removers of the registry *)
(* touches a client whose transport is open.                                 *)
LEMMA ControlNext == TypeOK /\ ControlInv /\ [Next]_vars => ControlInv'
<1> SUFFICES ASSUME TypeOK, ControlInv, [Next]_vars PROVE ControlInv'
  OBVIOUS
<1> USE NoSocketAssumption DEF TypeOK, ControlInv, LoopInv, SocketInv, ProcessInv,
                               EverySeqLoggedOrDropped, RegistryExact
<1>1. CASE SimDrop
  BY <1>1 DEF SimDrop, LoopWakes
<1>2. CASE TickAlone
  BY <1>2 DEF TickAlone, LoopWakes
<1>3. CASE TickBroadcast
  BY <1>3 DEF TickBroadcast, LoopWakes
<1>4. CASE TickFails
  <2>1. rows + drop = seq /\ rows \in Nat /\ drop \in Nat /\ seq \in Nat
    BY <1>4 DEF TickFails, LoopWakes
  <2>2. rows' + drop' \in {seq', seq' + 1} /\ task' = "failed"
    <3>1. drop' = drop /\ seq' = seq /\ task' = "failed" /\ (rows' = rows \/ rows' = rows + 1)
      BY <1>4 DEF TickFails
    <3>2. rows + 1 + drop = seq + 1
      BY <2>1
    <3>3. CASE rows' = rows
      BY <2>1, <3>1, <3>3
    <3>4. CASE rows' = rows + 1
      BY <3>1, <3>2, <3>4
    <3> QED
      BY <3>1, <3>3, <3>4
  <2>3. LoopInv'
    BY <1>4, <2>2 DEF TickFails, LoopWakes
  <2> QED
    BY <1>4, <2>2, <2>3 DEF TickFails
<1>5. CASE SendOk
  BY <1>5 DEF SendOk, NextSend
<1>6. CASE SendFails
  BY <1>6 DEF SendFails, NextSend
<1>7. CASE ApiGps
  BY <1>7 DEF ApiGps, LogGps
<1>8. CASE ApiEvent
  BY <1>8 DEF ApiEvent, LogEvent
<1>9. CASE BeginShutdown
  BY <1>9 DEF BeginShutdown
<1>10. CASE LifespanExit
  BY <1>10 DEF LifespanExit, LoseTask
<1>11. CASE Kill
  BY <1>11 DEF Kill, LoseTask
<1>12. CASE Restart
  BY <1>12 DEF Restart, LoseTask
<1>13. ASSUME NEW ws \in Sockets, Accept(ws) PROVE ControlInv'
  BY <1>13 DEF Accept
<1>14. ASSUME NEW ws \in Sockets, HandlerExit(ws) PROVE ControlInv'
  BY <1>14 DEF HandlerExit, Unregister
<1>15. ASSUME NEW ws \in Sockets, Receive(ws) PROVE ControlInv'
  <2>1. UNCHANGED <<server, restarts, streamVars, wireVars>>
    BY <1>15 DEF Receive
  <2>2. CASE LogGps /\ UNCHANGED socketVars
    BY <2>1, <2>2 DEF LogGps
  <2>3. CASE LogEvent /\ UNCHANGED socketVars
    BY <2>1, <2>3 DEF LogEvent
  <2>4. CASE /\ Unregister(ws)
             /\ link' = [link EXCEPT ![ws] = "down"]
             /\ UNCHANGED logVars
    BY <1>15, <2>1, <2>4 DEF Receive, Unregister
  <2> QED
    BY <1>15, <2>2, <2>3, <2>4 DEF Receive
<1>16. ASSUME NEW ws \in Sockets, PeerTakes(ws) PROVE ControlInv'
  BY <1>16 DEF PeerTakes
<1>17. ASSUME NEW ws \in Sockets,
              PeerCloses(ws) \/ PeerVanishes(ws) \/ KeepaliveTimeout(ws)
       PROVE ControlInv'
  BY <1>17 DEF PeerCloses, PeerVanishes, KeepaliveTimeout, SetLink
<1>18. CASE UNCHANGED vars
  BY <1>18 DEF vars
<1> QED
  BY <1>1, <1>2, <1>3, <1>4, <1>5, <1>6, <1>7, <1>8, <1>9, <1>10, <1>11,
     <1>12, <1>13, <1>14, <1>15, <1>16, <1>17, <1>18
     DEF Next, ServerStep, LoopStep, SendStep

LEMMA ControlInit == Init => ControlInv
BY NoSocketAssumption DEF Init, ControlInv, LoopInv, SocketInv, ProcessInv,
   EverySeqLoggedOrDropped, RegistryExact

LEMMA ControlAlways == Spec => [](TypeOK /\ ControlInv)
<1>1. ControlInv => LoopInv
  BY DEF ControlInv
<1> QED
  BY <1>1, TypeInit, TypeNext, ControlInit, ControlNext, PTL DEF Spec

(* Every variable keeps its type, and the locals of _broadcast are set exactly    *)
(* while the task is inside it.                                               *)
THEOREM TypeCorrect == Spec => []TypeOK
BY ControlAlways, PTL

(* Every sequence number has a row or was counted as dropped.                  *)
THEOREM AccountingCorrect == Spec => []EverySeqLoggedOrDropped
<1>1. ControlInv => EverySeqLoggedOrDropped
  BY DEF ControlInv, LoopInv
<1> QED
  BY <1>1, ControlAlways, PTL

(* No open client is evicted and none outlives its handler.                    *)
THEOREM RegistryCorrect == Spec => []RegistryExact
<1>1. ControlInv => RegistryExact
  BY DEF ControlInv, SocketInv
<1> QED
  BY <1>1, ControlAlways, PTL

(* The log files are closed only after everything that writes to them ended.    *)
THEOREM LogCorrect == Spec => []LogClosedLast
<1>1. ControlInv => LogClosedLast
  BY DEF ControlInv, ProcessInv, LogClosedLast
<1> QED
  BY <1>1, ControlAlways, PTL

-----------------------------------------------------------------------------
(* The number of a frame's row follows from what the client reads in it: every   *)
(* sequence number below seq is a row or a simulated drop.                      *)
FrameLaw ==
  \A ws \in Sockets : \A i \in 1..Len(out[ws]) :
    out[ws][i].row = out[ws][i].base + out[ws][i].seq - out[ws][i].drop + 1

(* A socket lives in one session.                                             *)
OneSession ==
  \A ws \in Sockets :
    /\ handler[ws] = "new" => out[ws] = << >>
    /\ handler[ws] = "running" =>
         \A i \in 1..Len(out[ws]) : out[ws][i].base = base

(* The task failed when it had written a row, which nobody is sent.              *)
RowIsLost == task = "failed" /\ rows + drop = seq + 1

(* Where an open socket is in the stream: at the newest row, or one row behind    *)
(* while the broadcast of that row has not come to it, or will not come at all.    *)
Position ==
  \A ws \in Sockets :
    (link[ws] # "down" /\ out[ws] # << >>) =>
      out[ws][Len(out[ws])].row =
        IF ws \in todo \cup {cur} \/ RowIsLost THEN base + rows - 1 ELSE base + rows

StreamInv == FrameLaw /\ OneSession /\ Position /\ SentRowsAreLogged /\ StreamHasNoHole

(* Every frame sent has numbers in its fields.                                 *)
LEMMA FrameFields ==
  TypeOK => \A ws \in Sockets :
              /\ Len(out[ws]) \in Nat
              /\ \A i \in 1..Len(out[ws]) :
                   /\ out[ws][i] \in Frames
                   /\ out[ws][i].row \in Nat
                   /\ out[ws][i].base \in Nat
                   /\ out[ws][i].seq \in Nat
                   /\ out[ws][i].drop \in Nat
<1> SUFFICES ASSUME TypeOK, NEW ws \in Sockets
             PROVE /\ Len(out[ws]) \in Nat
                   /\ \A i \in 1..Len(out[ws]) :
                        /\ out[ws][i] \in Frames
                        /\ out[ws][i].row \in Nat
                        /\ out[ws][i].base \in Nat
                        /\ out[ws][i].seq \in Nat
                        /\ out[ws][i].drop \in Nat
  OBVIOUS
<1>1. out[ws] \in Seq(Frames)
  BY DEF TypeOK
<1>2. \A i \in 1..Len(out[ws]) : out[ws][i] \in Frames
  BY <1>1, ElementOfSeq
<1>3. \A f \in Frames : f.row \in Nat /\ f.base \in Nat /\ f.seq \in Nat /\ f.drop \in Nat
  BY DEF Frames
<1> QED
  BY <1>1, <1>2, <1>3, LenProperties

(* Appending the frame of the broadcast to the socket whose turn it is.          *)
LEMMA StreamSendOk ==
  ASSUME TypeOK, ControlInv, StreamInv, SendOk
  PROVE  StreamInv'
<1>1. /\ cur \in Sockets
      /\ task = "sending"
      /\ link[cur] # "down"
      /\ handler[cur] = "running"
      /\ rows + drop = seq + 1
      /\ seq \in Nat /\ drop \in Nat /\ rows \in Nat /\ base \in Nat
  BY DEF SendOk, TypeOK, ControlInv, LoopInv, SocketInv, EverySeqLoggedOrDropped
<1>2. /\ CurrentFrame \in Frames
      /\ CurrentFrame.row = base + rows
      /\ CurrentFrame.base = base
      /\ CurrentFrame.seq = seq
      /\ CurrentFrame.drop = drop
  BY <1>1 DEF CurrentFrame, Frames
<1>3. /\ out'[cur] = Append(out[cur], CurrentFrame)
      /\ \A ws \in Sockets \ {cur} : out'[ws] = out[ws]
      /\ UNCHANGED <<drop, handler, link, rows, base>>
  BY <1>1 DEF TypeOK, SendOk
<1>4. /\ Len(out'[cur]) = Len(out[cur]) + 1
      /\ \A i \in 1..Len(out[cur]) : out'[cur][i] = out[cur][i]
      /\ out'[cur][Len(out[cur]) + 1] = CurrentFrame
      /\ out'[cur] # << >>
      /\ Len(out[cur]) \in Nat
  <2>1. out[cur] \in Seq(Frames)
    BY <1>1 DEF TypeOK
  <2>2. Len(out[cur]) \in Nat
    BY <2>1, LenProperties
  <2>3. out'[cur] \in Seq(Frames) /\ Len(out'[cur]) = Len(out[cur]) + 1
    BY <2>1, <1>2, <1>3, AppendProperties
  <2>4. out'[cur] # << >>
    BY <2>2, <2>3, EmptySeq
  <2> QED
    BY <2>1, <2>2, <2>3, <2>4, <1>2, <1>3, AppendProperties
<1>5. ASSUME NEW ws \in Sockets, NEW i \in 1..Len(out'[ws])
      PROVE  \/ i \in 1..Len(out[ws]) /\ out'[ws][i] = out[ws][i]
             \/ ws = cur /\ i = Len(out[cur]) + 1 /\ out'[ws][i] = CurrentFrame
  <2>1. CASE ws = cur
    <3>1. i \in 1..Len(out[cur]) \/ i = Len(out[cur]) + 1
      BY <2>1, <1>4
    <3> QED
      BY <2>1, <3>1, <1>4
  <2>2. CASE ws # cur
    BY <2>2, <1>3
  <2> QED
    BY <2>1, <2>2
<1>6. FrameLaw'
  <2> SUFFICES ASSUME NEW ws \in Sockets, NEW i \in 1..Len(out'[ws])
               PROVE out'[ws][i].row
                       = out'[ws][i].base + out'[ws][i].seq - out'[ws][i].drop + 1
    BY DEF FrameLaw
  <2>1. CASE i \in 1..Len(out[ws]) /\ out'[ws][i] = out[ws][i]
    BY <2>1 DEF StreamInv, FrameLaw
  <2>2. CASE out'[ws][i] = CurrentFrame
    BY <2>2, <1>1, <1>2
  <2> QED
    BY <2>1, <2>2, <1>5
<1>7. OneSession'
  <2>1. ASSUME NEW ws \in Sockets, handler'[ws] = "new" PROVE out'[ws] = << >>
    BY <2>1, <1>1, <1>3 DEF StreamInv, OneSession
  <2>2. ASSUME NEW ws \in Sockets, handler'[ws] = "running",
               NEW i \in 1..Len(out'[ws])
        PROVE  out'[ws][i].base = base'
    <3>1. CASE i \in 1..Len(out[ws]) /\ out'[ws][i] = out[ws][i]
      BY <3>1, <2>2, <1>3 DEF StreamInv, OneSession
    <3>2. CASE out'[ws][i] = CurrentFrame
      BY <3>2, <1>2, <1>3
    <3> QED
      BY <3>1, <3>2, <1>5
  <2> QED
    BY <2>1, <2>2 DEF OneSession
<1>8. Position'
  <2> SUFFICES ASSUME NEW ws \in Sockets, link'[ws] # "down", out'[ws] # << >>
               PROVE  out'[ws][Len(out'[ws])].row =
                        IF ws \in todo' \cup {cur'} THEN base' + rows' - 1
                                                    ELSE base' + rows'
    <3>1. ~RowIsLost'
      BY <1>1 DEF RowIsLost, SendOk, NextSend
    <3> QED
      BY <3>1 DEF Position
  <2>1. CASE ws = cur
    <3>1. cur \notin todo' \cup {cur'}
      BY <1>1, <1>3, NoSocketAssumption DEF TypeOK, SendOk, NextSend
    <3> QED
      BY <2>1, <3>1, <1>2, <1>3, <1>4
  <2>2. CASE ws # cur
    <3>1. ws \in todo' \cup {cur'} <=> ws \in todo \cup {cur}
      BY <2>2, <1>1, NoSocketAssumption DEF TypeOK, SendOk, NextSend
    <3>2. out'[ws] = out[ws] /\ link'[ws] = link[ws] /\ ~RowIsLost
      BY <2>2, <1>1, <1>3 DEF RowIsLost
    <3> QED
      BY <3>1, <3>2, <1>3 DEF StreamInv, Position
  <2> QED
    BY <2>1, <2>2
<1>9. SentRowsAreLogged'
  <2> SUFFICES ASSUME NEW ws \in Sockets, NEW i \in 1..Len(out'[ws])
               PROVE out'[ws][i].row <= base' + rows'
    BY DEF SentRowsAreLogged
  <2>1. CASE i \in 1..Len(out[ws]) /\ out'[ws][i] = out[ws][i]
    BY <2>1, <1>3 DEF StreamInv, SentRowsAreLogged
  <2>2. CASE out'[ws][i] = CurrentFrame
    BY <2>2, <1>1, <1>2, <1>3
  <2> QED
    BY <2>1, <2>2, <1>5
<1>10. StreamHasNoHole'
  <2> SUFFICES ASSUME NEW ws \in Sockets, NEW i \in 1..(Len(out'[ws]) - 1)
               PROVE /\ out'[ws][i + 1].row = out'[ws][i].row + 1
                     /\ out'[ws][i + 1].seq - out'[ws][i].seq - 1
                          = out'[ws][i + 1].drop - out'[ws][i].drop
    BY DEF StreamHasNoHole
  <2>1. CASE ws # cur
    <3>1. out'[ws] = out[ws]
      BY <2>1, <1>3
    <3> QED
      BY <3>1 DEF StreamInv, StreamHasNoHole
  <2>2. CASE ws = cur /\ i < Len(out[cur])
    BY <2>2, <1>3, <1>4 DEF StreamInv, StreamHasNoHole
  <2>3. CASE ws = cur /\ i = Len(out[cur])
    <3> DEFINE f == out[cur][i]
    <3>1. i \in 1..Len(out[cur]) /\ out[cur] # << >>
      BY <2>3, <1>1, <1>4
    <3>2. f.row = base + rows - 1
      BY <2>3, <3>1, <1>1 DEF StreamInv, Position, RowIsLost
    <3>3. f.row = f.base + f.seq - f.drop + 1
      BY <3>1, <1>1 DEF StreamInv, FrameLaw
    <3>4. f.base = base
      BY <3>1, <1>1 DEF StreamInv, OneSession
    <3>5. out'[ws][i] = f /\ out'[ws][i + 1] = CurrentFrame
      BY <2>3, <3>1, <1>4
    <3>6. f.row \in Nat /\ f.seq \in Nat /\ f.drop \in Nat
      BY <3>1, <1>1, FrameFields
    <3>7. base + rows = f.row + 1
      BY <3>2, <3>6, <1>1
    <3>8. seq - f.seq - 1 = drop - f.drop
      <4>1. f.row = base + f.seq - f.drop + 1
        BY <3>3, <3>4
      <4>2. \A r, q, d \in Nat :
              r = base + rows - 1 /\ r = base + q - d + 1 => seq - q - 1 = drop - d
        BY <1>1
      <4> QED
        BY <4>1, <4>2, <3>2, <3>6
    <3> QED
      BY <3>5, <3>7, <3>8, <1>2
  <2> QED
    BY <2>1, <2>2, <2>3, <1>4
<1> QED
  BY <1>6, <1>7, <1>8, <1>9, <1>10 DEF StreamInv

(* No other step sends; a row is added, or the session ends, only when every      *)
(* open socket is where Position says.                                        *)
LEMMA StreamNext == TypeOK /\ ControlInv /\ StreamInv /\ [Next]_vars => StreamInv'
<1> SUFFICES ASSUME TypeOK, ControlInv, StreamInv, [Next]_vars PROVE StreamInv'
  OBVIOUS
<1> USE NoSocketAssumption
<1>1. ASSUME UNCHANGED <<out, base, rows, todo, cur>>,
             RowIsLost' <=> RowIsLost,
             \A ws \in Sockets : /\ handler'[ws] = "new" => handler[ws] = "new"
                                 /\ handler'[ws] = "running" =>
                                      \/ handler[ws] = "running"
                                      \/ handler[ws] = "new"
                                 /\ link'[ws] # "down" =>
                                      \/ link[ws] # "down"
                                      \/ handler[ws] = "new"
      PROVE StreamInv'
  BY <1>1, EmptySeq DEF TypeOK, StreamInv, FrameLaw, OneSession, Position,
     SentRowsAreLogged, StreamHasNoHole
<1>2. CASE SimDrop
  BY <1>2, <1>1 DEF SimDrop, LoopWakes, RowIsLost
<1>3. CASE TickAlone
  <2>1. \A ws \in Sockets : link[ws] = "down"
    BY <1>3 DEF TickAlone, TypeOK, ControlInv, SocketInv, RegistryExact
  <2>2. UNCHANGED <<out, base, handler, link>> /\ rows' = rows + 1
    BY <1>3 DEF TickAlone
  <2>3. SentRowsAreLogged'
    <3>1. base \in Nat /\ rows \in Nat
      BY DEF TypeOK
    <3> QED
      BY <2>2, <3>1, FrameFields DEF StreamInv, SentRowsAreLogged
  <2> QED
    BY <2>1, <2>2, <2>3 DEF StreamInv, FrameLaw, OneSession, Position,
       StreamHasNoHole
<1>4. CASE TickBroadcast
  <2>1. \A ws \in Sockets : link[ws] # "down" => ws \in todo' \cup {cur'}
    BY <1>4 DEF TickBroadcast, TypeOK, ControlInv, SocketInv, RegistryExact
  <2>2. UNCHANGED <<out, base, handler, link>> /\ rows' = rows + 1
    BY <1>4 DEF TickBroadcast
  <2>3. \A ws \in Sockets : ws \notin todo \cup {cur}
    BY <1>4 DEF TickBroadcast, LoopWakes, TypeOK, ControlInv, LoopInv
  <2>4. Position'
    BY <1>4, <2>1, <2>2, <2>3 DEF TickBroadcast, LoopWakes, TypeOK, StreamInv, Position,
                                  RowIsLost
  <2>5. SentRowsAreLogged'
    <3>1. base \in Nat /\ rows \in Nat
      BY DEF TypeOK
    <3> QED
      BY <2>2, <3>1, FrameFields DEF StreamInv, SentRowsAreLogged
  <2> QED
    BY <2>2, <2>4, <2>5 DEF StreamInv, FrameLaw, OneSession, StreamHasNoHole
<1>5. CASE TickFails
  <2>1. UNCHANGED <<out, base, todo, cur, handler, link, drop, seq>>
    BY <1>5 DEF TickFails
  <2>2. base \in Nat /\ rows \in Nat /\ rows' \in {rows, rows + 1}
    BY <1>5 DEF TickFails, TypeOK
  <2>3. /\ \A ws \in Sockets : ws \notin todo \cup {cur}
        /\ ~RowIsLost
        /\ RowIsLost' <=> rows' = rows + 1
    <3>1. task = "ready" /\ task' = "failed" /\ todo = {} /\ cur \notin Sockets
      BY <1>5 DEF TickFails, LoopWakes, TypeOK, ControlInv, LoopInv
    <3>2. rows + drop = seq /\ drop \in Nat /\ seq \in Nat
      BY <3>1 DEF TypeOK, ControlInv, LoopInv, EverySeqLoggedOrDropped
    <3>3. drop' = drop /\ seq' = seq /\ (rows' = rows \/ rows' = rows + 1)
      BY <2>1, <2>2
    <3>4. rows' + drop' = seq' + 1 <=> rows' = rows + 1
      <4>1. rows + 1 + drop = seq + 1 /\ rows + drop # seq + 1 /\ rows # rows + 1
        BY <2>2, <3>2
      <4> QED
        BY <3>3, <4>1
    <3> QED
      BY <3>1, <3>2, <3>4 DEF RowIsLost
  <2>4. Position'
    BY <2>1, <2>2, <2>3 DEF StreamInv, Position
  <2>5. SentRowsAreLogged'
    <3>1. rows' \in Nat /\ rows <= rows'
      BY <2>2
    <3> QED
      BY <2>1, <2>2, <3>1, FrameFields DEF StreamInv, SentRowsAreLogged
  <2> QED
    BY <2>1, <2>4, <2>5, SMTT(30) DEF StreamInv, FrameLaw, OneSession, StreamHasNoHole
<1>6. CASE SendOk
  BY <1>6, StreamSendOk
<1>7. CASE SendFails
  <2>1. /\ link[cur] = "down"
        /\ UNCHANGED <<out, base, rows, handler, link>>
        /\ \A ws \in Sockets \ {cur} :
             ws \in todo' \cup {cur'} <=> ws \in todo \cup {cur}
        /\ ~RowIsLost /\ ~RowIsLost'
    BY <1>7 DEF SendFails, NextSend, TypeOK, RowIsLost
  <2> QED
    BY <2>1 DEF TypeOK, StreamInv, FrameLaw, OneSession, Position,
       SentRowsAreLogged, StreamHasNoHole
<1>8. CASE ApiGps \/ ApiEvent
  BY <1>8, <1>1 DEF ApiGps, ApiEvent, LogGps, LogEvent, RowIsLost
<1>9. CASE BeginShutdown
  BY <1>9, <1>1 DEF BeginShutdown, TypeOK, RowIsLost
<1>10. CASE LifespanExit
  <2>1. \A ws \in Sockets : link[ws] = "down"
    BY <1>10 DEF LifespanExit, TypeOK, ControlInv, SocketInv
  <2>2. UNCHANGED <<out, base, rows, handler, link>>
    BY <1>10 DEF LifespanExit
  <2> QED
    BY <2>1, <2>2 DEF TypeOK, StreamInv, FrameLaw, OneSession, Position,
       SentRowsAreLogged, StreamHasNoHole
<1>11. CASE Kill
  <2>1. /\ \A ws \in Sockets : /\ link'[ws] = "down"
                               /\ handler'[ws] # "running"
                               /\ handler'[ws] = "new" => handler[ws] = "new"
        /\ UNCHANGED <<out, base, rows>>
    BY <1>11 DEF Kill, TypeOK
  <2> QED
    BY <2>1 DEF TypeOK, StreamInv, FrameLaw, OneSession, Position,
       SentRowsAreLogged, StreamHasNoHole
<1>12. CASE Restart
  <2>1. \A ws \in Sockets : handler[ws] # "running" /\ link[ws] = "down"
    BY <1>12 DEF Restart, TypeOK, ControlInv, ProcessInv, SocketInv
  <2>2. UNCHANGED <<out, handler, link>> /\ base' + rows' = base + rows
    BY <1>12 DEF Restart, TypeOK
  <2> QED
    BY <2>1, <2>2 DEF TypeOK, StreamInv, FrameLaw, OneSession, Position,
       SentRowsAreLogged, StreamHasNoHole
<1>13. ASSUME NEW ws \in Sockets, Accept(ws) PROVE StreamInv'
  BY <1>13, <1>1 DEF Accept, TypeOK, RowIsLost
<1>14. ASSUME NEW ws \in Sockets, HandlerExit(ws) PROVE StreamInv'
  BY <1>14, <1>1 DEF HandlerExit, Unregister, TypeOK, RowIsLost
<1>15. ASSUME NEW ws \in Sockets, Receive(ws) PROVE StreamInv'
  <2>1. UNCHANGED <<out, base, rows, todo, cur>> /\ (RowIsLost' <=> RowIsLost)
    BY <1>15 DEF Receive, LogGps, LogEvent, RowIsLost
  <2>2. \/ UNCHANGED socketVars
        \/ Unregister(ws) /\ link' = [link EXCEPT ![ws] = "down"]
    BY <1>15 DEF Receive
  <2> QED
    BY <2>1, <2>2, <1>1 DEF Unregister, TypeOK
<1>16. ASSUME NEW ws \in Sockets, PeerTakes(ws) PROVE StreamInv'
  BY <1>16, <1>1 DEF PeerTakes, RowIsLost
<1>17. ASSUME NEW ws \in Sockets,
              PeerCloses(ws) \/ PeerVanishes(ws) \/ KeepaliveTimeout(ws)
       PROVE StreamInv'
  BY <1>17, <1>1 DEF PeerCloses, PeerVanishes, KeepaliveTimeout, SetLink, TypeOK, RowIsLost
<1>18. CASE UNCHANGED vars
  BY <1>18, <1>1 DEF vars, RowIsLost
<1> QED
  BY <1>2, <1>3, <1>4, <1>5, <1>6, <1>7, <1>8, <1>9, <1>10, <1>11,
     <1>12, <1>13, <1>14, <1>15, <1>16, <1>17, <1>18
     DEF Next, ServerStep, LoopStep, SendStep

LEMMA StreamInit == Init => StreamInv
BY DEF Init, StreamInv, FrameLaw, OneSession, Position, SentRowsAreLogged,
   StreamHasNoHole

LEMMA StreamAlways == Spec => [](TypeOK /\ ControlInv /\ StreamInv)
BY ControlAlways, StreamInit, StreamNext, PTL DEF Spec

(* A frame is logged before any client can see it.                             *)
THEOREM WriteAhead == Spec => []SentRowsAreLogged
<1>1. StreamInv => SentRowsAreLogged
  BY DEF StreamInv
<1> QED
  BY <1>1, StreamAlways, PTL

(* Successive frames of a socket are successive rows, and differ by exactly the  *)
(* simulated drops between them.                                             *)
THEOREM StreamCorrect == Spec => []StreamHasNoHole
<1>1. StreamInv => StreamHasNoHole
  BY DEF StreamInv
<1> QED
  BY <1>1, StreamAlways, PTL

(* Between two iterations nobody registered is behind.                         *)
THEOREM BroadcastCorrect == Spec => []NobodyLeftBehind
<1>1. TypeOK /\ ControlInv /\ StreamInv => NobodyLeftBehind
  BY NoSocketAssumption
     DEF TypeOK, ControlInv, LoopInv, StreamInv, Position, RowIsLost, NobodyLeftBehind
<1> QED
  BY <1>1, StreamAlways, PTL
-----------------------------------------------------------------------------
(* The dashboard: the drop accounting of the page that reads the stream.         *)

(* A page's step is a step of the server or leaves the server alone.            *)
ConnOK == conn \in Sockets \cup {NoSocket}

LEMMA ServerSteps == ConnOK /\ [DashNext]_allVars => ConnOK' /\ [Next]_vars
<1> SUFFICES ASSUME ConnOK, [DashNext]_allVars PROVE ConnOK' /\ [Next]_vars
  OBVIOUS
<1>1. CASE \E ws \in Sockets : Connect(ws)
  BY <1>1 DEF Connect, Next, ConnOK
<1>2. CASE Message
  BY <1>2 DEF Message, Next, ConnOK
<1>3. CASE Disconnected
  BY <1>3 DEF Disconnected, ConnOK
<1>4. CASE OtherClient
  BY <1>4 DEF OtherClient, dashVars, Next, ConnOK
<1>5. CASE ServerStep /\ UNCHANGED dashVars
  BY <1>5 DEF dashVars, Next, ConnOK
<1>6. CASE UNCHANGED allVars
  BY <1>6 DEF allVars, dashVars, ConnOK
<1> QED
  BY <1>1, <1>2, <1>3, <1>4, <1>5, <1>6 DEF DashNext

LEMMA ServerAlways == DashSpec => [](ConnOK /\ TypeOK /\ ControlInv /\ StreamInv)
<1>1. DashInit => Init /\ ConnOK
  BY DEF DashInit, ConnOK
<1>2. ControlInv => LoopInv
  BY DEF ControlInv
<1> QED
  BY <1>1, <1>2, ServerSteps, TypeInit, TypeNext, ControlInit, ControlNext, StreamInit,
     StreamNext, PTL DEF DashSpec

-----------------------------------------------------------------------------
(* What the page's argument needs of the server beyond StreamInv.               *)
FrameOrder(f) ==
  /\ f.drop <= f.seq
  /\ \/ f.base = base /\ f.drop <= drop
     \/ f.row <= base

FeedInv ==
  /\ task = "sending" => rows > 0
  /\ restarts = 0 => base = 0
  /\ \A ws \in Sockets : taken[ws] <= Len(out[ws])
  /\ \A ws \in Sockets : \A i \in 1..Len(out[ws]) : FrameOrder(out[ws][i])
  /\ \A ws \in Sockets : \A i \in 1..(Len(out[ws]) - 1) :
       /\ out[ws][i + 1].base = out[ws][i].base
       /\ out[ws][i].drop <= out[ws][i + 1].drop

LEMMA FeedInit == Init => FeedInv
BY DEF Init, FeedInv

(* A step that sends nothing.                                                  *)
LEMMA FeedQuiet ==
  ASSUME TypeOK, FeedInv, SentRowsAreLogged,
         out' = out, base' \in Nat, rows' \in Nat, drop' \in Nat,
         \/ base' = base /\ rows' >= rows /\ drop' >= drop /\ restarts' = restarts
         \/ base' = base + rows /\ restarts' # 0,
         task' = "sending" => rows' > 0,
         \A ws \in Sockets : taken'[ws] <= Len(out[ws])
  PROVE  FeedInv'
<1>1. base \in Nat /\ rows \in Nat /\ drop \in Nat
  BY DEF TypeOK
<1>2. ASSUME NEW ws \in Sockets, NEW i \in 1..Len(out[ws])
      PROVE FrameOrder(out[ws][i])'
  <2> DEFINE f == out[ws][i]
  <2>1. f.row \in Nat /\ f.drop \in Nat
    BY FrameFields
  <2>2. FrameOrder(f)
    BY DEF FeedInv
  <2>3. f.row <= base + rows
    BY DEF SentRowsAreLogged
  <2>4. f' = f
    OBVIOUS
  <2> HIDE DEF f
  <2> QED
    BY <1>1, <2>1, <2>2, <2>3, <2>4 DEF FrameOrder, f
<1> QED
  BY <1>2 DEF FeedInv

LEMMA FeedNext ==
  ASSUME TypeOK, ControlInv, StreamInv, FeedInv, [Next]_vars
  PROVE  FeedInv'
<1>1. TypeOK'
  BY TypeNext DEF ControlInv
<1>2. SentRowsAreLogged
  BY DEF StreamInv
<1>3. \A ws \in Sockets : taken[ws] <= Len(out[ws])
  BY DEF FeedInv
<1>4. base' \in Nat /\ rows' \in Nat /\ drop' \in Nat
  BY <1>1 DEF TypeOK
<1>5. base \in Nat /\ rows \in Nat /\ drop \in Nat /\ restarts \in Nat
  BY DEF TypeOK
<1> DEFINE Quiet == /\ UNCHANGED <<out, base, restarts>>
                    /\ rows' \in {rows, rows + 1}
                    /\ drop' \in {drop, drop + 1}
                    /\ task' = "sending" => rows' = rows + 1 \/ task = "sending"
                    /\ \A ws \in Sockets : taken'[ws] <= Len(out[ws])
<1>6. ASSUME Quiet PROVE FeedInv'
  <2>1. task = "sending" => rows > 0
    BY DEF FeedInv
  <2> QED
    BY <1>2, <1>4, <1>5, <1>6, <2>1, FeedQuiet
<1>7. CASE LoopStep \/ TickFails
  <2>1. Quiet
    BY <1>3, <1>7 DEF LoopStep, SimDrop, TickAlone, TickBroadcast, LoopWakes, TickFails
  <2> QED
    BY <2>1, <1>6
<1>8. CASE SendFails
  <2>1. Quiet
    BY <1>3, <1>8 DEF SendFails, NextSend
  <2> QED
    BY <2>1, <1>6
<1>9. CASE ApiGps \/ ApiEvent \/ BeginShutdown \/ LifespanExit \/ Kill
  <2>1. Quiet
    BY <1>3, <1>9 DEF ApiGps, ApiEvent, LogGps, LogEvent, BeginShutdown,
                      LifespanExit, Kill
  <2> QED
    BY <2>1, <1>6
<1>10. CASE Restart
  <2>1. /\ UNCHANGED <<out, taken>>
        /\ base' = base + rows
        /\ restarts' = restarts + 1
        /\ task' = "ready"
    BY <1>10 DEF Restart
  <2>2. restarts' # 0
    BY <2>1, <1>5
  <2> QED
    BY <2>1, <2>2, <1>2, <1>3, <1>4, FeedQuiet
<1>11. CASE \E ws \in Sockets : \/ Accept(ws) \/ HandlerExit(ws) \/ Receive(ws)
                                \/ PeerCloses(ws) \/ PeerVanishes(ws)
                                \/ KeepaliveTimeout(ws)
  <2>1. Quiet
    BY <1>3, <1>11 DEF Accept, HandlerExit, Receive, PeerCloses, PeerVanishes,
                       KeepaliveTimeout, SetLink, LogGps, LogEvent
  <2> QED
    BY <2>1, <1>6
<1>12. ASSUME NEW ws \in Sockets, PeerTakes(ws) PROVE FeedInv'
  <2>1. UNCHANGED <<out, base, restarts, rows, drop, task>>
    BY <1>12 DEF PeerTakes
  <2>2. \A v \in Sockets : taken'[v] <= Len(out[v])
    BY <1>3, <1>12, FrameFields DEF PeerTakes, TypeOK
  <2> QED
    BY <2>1, <2>2, <1>6
<1>13. CASE UNCHANGED vars
  BY <1>3, <1>13, <1>6 DEF vars
<1>14. CASE SendOk
  <2>1. /\ cur \in Sockets
        /\ task = "sending"
        /\ link[cur] # "down"
        /\ handler[cur] = "running"
        /\ rows + drop = seq + 1
        /\ rows > 0
        /\ seq \in Nat
    BY <1>14 DEF SendOk, TypeOK, ControlInv, LoopInv, SocketInv,
                 EverySeqLoggedOrDropped, FeedInv
  <2>2. /\ out'[cur] = Append(out[cur], CurrentFrame)
        /\ \A ws \in Sockets \ {cur} : out'[ws] = out[ws]
        /\ UNCHANGED <<base, rows, drop, restarts, taken>>
    BY <1>14, <2>1 DEF SendOk, TypeOK
  <2>3. /\ CurrentFrame \in Frames
        /\ CurrentFrame.base = base
        /\ CurrentFrame.seq = seq
        /\ CurrentFrame.drop = drop
    BY <1>5, <2>1 DEF CurrentFrame, Frames, TypeOK
  <2>4. /\ Len(out[cur]) \in Nat
        /\ Len(out'[cur]) = Len(out[cur]) + 1
        /\ \A i \in 1..Len(out[cur]) : out'[cur][i] = out[cur][i]
        /\ out'[cur][Len(out[cur]) + 1] = CurrentFrame
    BY <2>1, <2>2, <2>3, AppendProperties, LenProperties DEF TypeOK
  <2>5. ASSUME NEW ws \in Sockets, NEW i \in 1..Len(out'[ws])
        PROVE  \/ i \in 1..Len(out[ws]) /\ out'[ws][i] = out[ws][i]
               \/ out'[ws][i] = CurrentFrame
    <3>1. CASE ws = cur
      <4>1. i \in 1..Len(out[cur]) \/ i = Len(out[cur]) + 1
        BY <3>1, <2>4
      <4> QED
        BY <3>1, <4>1, <2>4
    <3>2. CASE ws # cur
      BY <3>2, <2>2
    <3> QED
      BY <3>1, <3>2
  <2>6. ASSUME NEW ws \in Sockets, NEW i \in 1..Len(out'[ws])
        PROVE  FrameOrder(out[ws][i])'
    <3>1. CASE i \in 1..Len(out[ws]) /\ out'[ws][i] = out[ws][i]
      BY <3>1, <2>2 DEF FeedInv, FrameOrder
    <3>2. CASE out'[ws][i] = CurrentFrame
      BY <3>2, <1>5, <2>1, <2>2, <2>3 DEF FrameOrder
    <3> QED
      BY <3>1, <3>2, <2>5
  <2>7. ASSUME NEW ws \in Sockets, NEW i \in 1..(Len(out'[ws]) - 1)
        PROVE  /\ out'[ws][i + 1].base = out'[ws][i].base
               /\ out'[ws][i].drop <= out'[ws][i + 1].drop
    <3>1. CASE ws # cur
      <4>1. out'[ws] = out[ws]
        BY <3>1, <2>2
      <4> QED
        BY <4>1 DEF FeedInv
    <3>2. CASE ws = cur /\ i < Len(out[cur])
      <4>1. i \in 1..(Len(out[cur]) - 1) /\ i \in 1..Len(out[cur]) /\ i + 1 \in 1..Len(out[cur])
        BY <3>2, <2>4
      <4>2. out'[cur][i] = out[cur][i] /\ out'[cur][i + 1] = out[cur][i + 1]
        BY <4>1, <2>4
      <4> QED
        BY <3>2, <4>1, <4>2, <2>1 DEF FeedInv
    <3>3. CASE ws = cur /\ i = Len(out[cur])
      <4> DEFINE f == out[cur][i]
      <4>1. i \in 1..Len(out[cur])
        BY <3>3, <2>4
      <4>2. f.base = base
        BY <4>1, <2>1 DEF StreamInv, OneSession
      <4>3. FrameOrder(f)
        BY <4>1, <2>1 DEF FeedInv
      <4>4. f.row = f.base + f.seq - f.drop + 1
        BY <4>1, <2>1 DEF StreamInv, FrameLaw
      <4>5. f.row \in Nat /\ f.seq \in Nat /\ f.drop \in Nat
        BY <4>1, <2>1, FrameFields
      <4>6. out'[ws][i] = f /\ out'[ws][i + 1] = CurrentFrame
        BY <3>3, <4>1, <2>4
      <4> HIDE DEF f
      <4>7. f.row > base
        BY <4>2, <4>3, <4>4, <4>5, <1>5 DEF FrameOrder
      <4>8. f.drop <= drop
        BY <4>3, <4>5, <4>7, <1>5 DEF FrameOrder
      <4> QED
        BY <4>2, <4>6, <4>8, <2>3
    <3> QED
      BY <3>1, <3>2, <3>3, <2>4
  <2>8. \A ws \in Sockets : taken'[ws] <= Len(out'[ws])
    <3>1. taken[cur] \in Nat
      BY <2>1 DEF TypeOK
    <3> QED
      BY <3>1, <1>3, <2>1, <2>2, <2>4
  <2>9. restarts' = 0 => base' = 0
    BY <2>2 DEF FeedInv
  <2> QED
    BY <2>1, <2>2, <2>6, <2>7, <2>8, <2>9 DEF FeedInv
<1> QED
  BY <1>7, <1>8, <1>9, <1>10, <1>11, <1>12, <1>13, <1>14
     DEF Next, ServerStep, SendStep

-----------------------------------------------------------------------------
(* The last frame handled, kept in lastSeq and lastServerDrop, obeys the law of  *)
(* frames; it is of this session, or all rows up to it are of earlier ones.      *)
LastOK ==
  /\ lastSeq \in Nat
  /\ lastRow = lastBase + lastSeq - lastServerDrop + 1
  /\ lastServerDrop <= lastSeq
  /\ lastRow <= base + rows
  /\ \/ lastBase = base /\ lastServerDrop <= drop
     \/ lastRow <= base

Unread == taken[conn] < Len(out[conn])

(* What the next frame f of the page's socket is with respect to the last one.    *)
Follows(f) ==
  /\ f.row > lastRow
  /\ \/ f.base = lastBase /\ f.drop >= lastServerDrop
     \/ lastRow <= f.base

PageInv ==
  /\ got = 0 => localDropCount = 0 /\ lastSeq = NoSeq
  /\ got > 0 => LastOK
  /\ (got > 0 /\ conn \in Sockets /\ Unread) => Follows(out[conn][taken[conn] + 1])
  /\ (got > 0 /\ conn \in Sockets /\ ~Unread /\ link[conn] # "down"
        /\ conn \in todo \cup {cur}) => lastRow < base + rows
  /\ NeverOvercounts
  /\ ExactWithoutRestart

LEMMA PageTypeNext == DashTypeOK /\ TypeOK' /\ [DashNext]_allVars => DashTypeOK'
<1> SUFFICES ASSUME DashTypeOK, TypeOK', [DashNext]_allVars PROVE DashTypeOK'
  OBVIOUS
<1>1. CASE \E ws \in Sockets : Connect(ws)
  BY <1>1 DEF Connect, DashTypeOK, pageVars, seenVars
<1>2. CASE Message
  <2> DEFINE f == out[conn][taken[conn] + 1]
  <2>1. conn \in Sockets /\ taken[conn] < Len(out[conn]) /\ taken[conn] \in Nat
    BY <1>2 DEF Message, PeerTakes, DashTypeOK, TypeOK
  <2>2. f.row \in Nat /\ f.base \in Nat /\ f.seq \in Nat /\ f.drop \in Nat
    BY <2>1, FrameFields, SMTT(30) DEF DashTypeOK
  <2>3. OnFrame(f) /\ Seen(f) /\ conn' = conn
    BY <1>2 DEF Message
  <2> HIDE DEF f
  <2>4. NetworkGap(f) \in Nat
    BY <2>2 DEF NetworkGap, AtLeastZero, DashTypeOK, NoSeq
  <2> QED
    BY <2>2, <2>3, <2>4 DEF OnFrame, Seen, DashTypeOK
<1>3. CASE Disconnected
  BY <1>3 DEF Disconnected, DashTypeOK, pageVars, seenVars
<1>4. CASE UNCHANGED dashVars
  BY <1>4 DEF dashVars, DashTypeOK, pageVars, seenVars
<1> QED
  BY <1>1, <1>2, <1>3, <1>4 DEF DashNext, OtherClient, allVars, dashVars

(* The page handles the next frame.                                             *)
LEMMA PageMessage ==
  ASSUME DashTypeOK, StreamInv, FeedInv, PageInv, Message
  PROVE  PageInv'
<1> DEFINE f == out[conn][taken[conn] + 1]
<1>1. /\ conn \in Sockets
      /\ taken[conn] < Len(out[conn])
      /\ taken[conn] \in Nat
      /\ Len(out[conn]) \in Nat
      /\ taken' = [taken EXCEPT ![conn] = @ + 1]
      /\ UNCHANGED <<conn, out, base, rows, drop, link, todo, cur, restarts>>
  BY FrameFields DEF Message, PeerTakes, DashTypeOK, TypeOK
<1>2. /\ got' = got + 1
      /\ firstRow' = IF got = 0 THEN f.row ELSE firstRow
      /\ lastRow' = f.row
      /\ lastBase' = f.base
      /\ lastSeq' = f.seq
      /\ lastServerDrop' = f.drop
      /\ localDropCount' = localDropCount + NetworkGap(f)
  BY DEF Message, OnFrame, Seen
<1>3. f.row \in Nat /\ f.base \in Nat /\ f.seq \in Nat /\ f.drop \in Nat
  BY <1>1, FrameFields DEF DashTypeOK
<1>4. /\ f.row = f.base + f.seq - f.drop + 1
      /\ f.row <= base + rows
      /\ FrameOrder(f)
  BY <1>1 DEF StreamInv, FrameLaw, SentRowsAreLogged, FeedInv
<1>5. got \in Nat /\ base \in Nat /\ lastRow \in Nat /\ lastBase \in Nat
      /\ firstRow \in Nat /\ localDropCount \in Nat /\ lastServerDrop \in Nat
  BY DEF DashTypeOK, TypeOK
<1>6. LastOK'
  BY <1>1, <1>2, <1>3, <1>4 DEF LastOK, FrameOrder
<1>7. ASSUME Unread' PROVE Follows(out[conn][taken[conn] + 1])'
  <2>1. taken'[conn'] = taken[conn] + 1 /\ taken[conn] + 2 <= Len(out[conn])
    BY <1>1, <1>7 DEF Unread, DashTypeOK, TypeOK
  <2> DEFINE g == out[conn][taken[conn] + 2]
  <2>2. g.row = f.row + 1 /\ g.base = f.base /\ g.drop >= f.drop
    <3>1. taken[conn] + 1 \in 1..(Len(out[conn]) - 1)
      BY <1>1, <2>1
    <3>2. (taken[conn] + 1) + 1 = taken[conn] + 2
      BY <1>1
    <3>3. g.drop \in Nat
      BY <1>1, <2>1, FrameFields DEF DashTypeOK
    <3>4. f.drop <= g.drop
      BY <1>1, <3>1, <3>2 DEF FeedInv
    <3> QED
      BY <1>1, <3>1, <3>2, <3>3, <3>4, <1>3 DEF StreamInv, StreamHasNoHole, FeedInv
  <2>3. (out[conn][taken[conn] + 1])' = g
    <3>1. (taken[conn] + 1) + 1 = taken[conn] + 2
      BY <1>1
    <3> QED
      BY <1>1, <2>1, <3>1
  <2> HIDE DEF f, g
  <2> QED
    BY <1>2, <1>3, <2>2, <2>3 DEF Follows
<1>8. ASSUME ~Unread', link[conn] # "down", conn \in todo \cup {cur}
      PROVE  lastRow' < base' + rows'
  <2>1. taken[conn] + 1 = Len(out[conn]) /\ out[conn] # << >>
    BY <1>1, <1>8 DEF Unread, DashTypeOK, TypeOK
  <2>2. f.row = base + rows - 1
    BY <1>1, <1>8, <2>1 DEF StreamInv, Position
  <2> QED
    BY <1>1, <1>2, <2>2 DEF DashTypeOK, TypeOK
<1>9. CASE got = 0
  <2>1. localDropCount = 0 /\ NetworkGap(f) = 0
    BY <1>9 DEF PageInv, NetworkGap
  <2>2. localDropCount' = 0 /\ Missed' = 0
    BY <1>2, <1>3, <1>5, <1>9, <2>1 DEF Missed
  <2> QED
    BY <1>1, <1>2, <1>5, <1>6, <1>7, <1>8, <1>9, <2>2
       DEF PageInv, NeverOvercounts, ExactWithoutRestart
<1>10. CASE got > 0
  <2>1. LastOK /\ Follows(f)
    BY <1>1, <1>10 DEF PageInv, Unread
  <2>2. lastSeq # NoSeq
    BY <2>1 DEF LastOK, NoSeq
  <2> HIDE DEF f
  <2>3. NetworkGap(f) <= f.row - lastRow - 1
    <3>1. CASE f.seq > lastSeq + 1
      <4>1. NetworkGap(f) = AtLeastZero((f.seq - lastSeq - 1)
                                          - AtLeastZero(f.drop - lastServerDrop))
        BY <3>1, <2>2 DEF NetworkGap
      <4>2. /\ lastSeq \in Nat
            /\ lastRow = lastBase + lastSeq - lastServerDrop + 1
            /\ lastServerDrop <= lastSeq
            /\ f.drop <= f.seq
            /\ lastRow < f.row
            /\ f.base = lastBase \/ lastRow <= f.base
        BY <1>3, <1>4, <1>5, <2>1 DEF LastOK, Follows, FrameOrder
      <4> QED
        BY <4>1, <4>2, <3>1, <1>3, <1>4, <1>5 DEF AtLeastZero
    <3>2. CASE ~(f.seq > lastSeq + 1)
      BY <3>2, <1>3, <1>5, <2>1 DEF NetworkGap, Follows
    <3> QED
      BY <3>1, <3>2
  <2>4. Missed' = Missed + (f.row - lastRow - 1)
    BY <1>2, <1>3, <1>5, <1>10 DEF Missed
  <2>5. NeverOvercounts'
    <3>1. Missed \in Int /\ NetworkGap(f) \in Int
      BY <1>3, <1>5, <2>1 DEF Missed, NetworkGap, AtLeastZero, LastOK
    <3>2. localDropCount <= Missed
      BY DEF PageInv, NeverOvercounts
    <3>3. localDropCount' = localDropCount + NetworkGap(f)
      BY <1>2
    <3> QED
      BY <3>1, <3>2, <3>3, <2>3, <2>4, <1>3, <1>5 DEF NeverOvercounts
  <2>6. ExactWithoutRestart'
    <3> SUFFICES ASSUME restarts = 0 PROVE localDropCount' = Missed'
      BY <1>1 DEF ExactWithoutRestart
    <3>1. base = 0
      BY DEF FeedInv
    <3>2. f.base = 0 /\ lastBase = 0 /\ f.drop >= lastServerDrop
      BY <3>1, <1>3, <1>4, <1>5, <2>1 DEF LastOK, Follows, FrameOrder
    <3>3. NetworkGap(f) = f.row - lastRow - 1
      <4>1. /\ lastSeq \in Nat
            /\ lastRow = f.base + lastSeq - lastServerDrop + 1
            /\ lastRow < f.row
        BY <3>2, <1>3, <1>5, <2>1 DEF LastOK, Follows
      <4>2. lastServerDrop <= f.drop
        BY <3>2, <1>3, <1>5
      <4>3. CASE f.seq > lastSeq + 1
        <5>1. NetworkGap(f) = AtLeastZero((f.seq - lastSeq - 1)
                                            - AtLeastZero(f.drop - lastServerDrop))
          BY <4>3, <2>2 DEF NetworkGap
        <5> QED
          BY <5>1, <4>1, <4>2, <4>3, <1>3, <1>4, <1>5 DEF AtLeastZero
      <4>4. CASE ~(f.seq > lastSeq + 1)
        <5>1. NetworkGap(f) = 0
          BY <4>4 DEF NetworkGap
        <5> QED
          BY <5>1, <4>1, <4>2, <4>4, <1>3, <1>4, <1>5
      <4> QED
        BY <4>3, <4>4
    <3> QED
      BY <1>2, <2>4, <3>3 DEF PageInv, ExactWithoutRestart
  <2> QED
    BY <1>1, <1>2, <1>5, <1>6, <1>7, <1>8, <1>10, <2>5, <2>6 DEF PageInv, f
<1> QED
  BY <1>5, <1>9, <1>10

(* The two last parts of LastOK, of row l, drop count d and base lb of the last      *)
(* frame, in a stream that grows or in one of the next session.                    *)
LEMMA LastStays ==
  ASSUME NEW b \in Nat, NEW r \in Nat, NEW dr \in Nat,
         NEW b2 \in Nat, NEW r2 \in Nat, NEW dr2 \in Nat,
         NEW l \in Nat, NEW d \in Nat, NEW lb,
         l <= b + r, (lb = b /\ d <= dr) \/ l <= b,
         (b2 = b /\ r2 >= r /\ dr2 >= dr) \/ b2 = b + r
  PROVE  l <= b2 + r2 /\ ((lb = b2 /\ d <= dr2) \/ l <= b2)
OBVIOUS

(* A step that leaves the page alone: the stream may grow, and a session end.     *)
LEMMA PageQuiet ==
  ASSUME DashTypeOK, TypeOK', PageInv, UNCHANGED dashVars,
         \/ base' = base /\ rows' >= rows /\ drop' >= drop /\ restarts' = restarts
         \/ base' = base + rows /\ restarts' # 0,
         (conn \in Sockets /\ got > 0 /\ taken'[conn] < Len(out'[conn]))
           => Follows(out'[conn][taken'[conn] + 1]),
         (conn \in Sockets /\ got > 0 /\ ~(taken'[conn] < Len(out'[conn]))
            /\ link'[conn] # "down" /\ conn \in todo' \cup {cur'})
           => lastRow < base' + rows'
  PROVE  PageInv'
<1>1. /\ base \in Nat /\ rows \in Nat /\ drop \in Nat /\ base' \in Nat /\ rows' \in Nat
      /\ lastRow \in Nat /\ lastServerDrop \in Nat /\ drop' \in Nat
  BY DEF DashTypeOK, TypeOK
<1>2. UNCHANGED <<conn, lastSeq, lastServerDrop, localDropCount, got, firstRow,
                  lastRow, lastBase>>
  BY DEF dashVars, pageVars, seenVars
<1>3. ASSUME got > 0 PROVE LastOK'
  <2>1. LastOK
    BY <1>3 DEF PageInv
  <2>2. /\ lastRow <= base' + rows'
        /\ (lastBase = base' /\ lastServerDrop <= drop') \/ lastRow <= base'
    BY <1>1, <2>1, LastStays DEF LastOK
  <2> QED
    BY <1>2, <2>1, <2>2 DEF LastOK
<1>4. NeverOvercounts'
  BY <1>2 DEF PageInv, NeverOvercounts, Missed
<1>5. ExactWithoutRestart'
  BY <1>2 DEF PageInv, ExactWithoutRestart, Missed
<1>6. ASSUME got > 0, conn \in Sockets, Unread'
      PROVE  Follows(out[conn][taken[conn] + 1])'
  BY <1>2, <1>6 DEF Follows, Unread
<1>7. ASSUME got > 0, conn \in Sockets, ~Unread', link'[conn] # "down",
             conn \in todo' \cup {cur'}
      PROVE  lastRow' < base' + rows'
  BY <1>2, <1>7 DEF Unread
<1> QED
  BY <1>2, <1>3, <1>4, <1>5, <1>6, <1>7 DEF PageInv

LEMMA SumGrows ==
  ASSUME NEW b \in Nat, NEW r \in Nat, NEW s \in {r, r + 1}, NEW l \in Nat, l < b + r
  PROVE  l < b + s
OBVIOUS

(* Such a step that is not a restart and sends nothing to the page.              *)
LEMMA PageStill ==
  ASSUME DashTypeOK, TypeOK', PageInv, UNCHANGED dashVars,
         base' = base, restarts' = restarts,
         rows' \in {rows, rows + 1}, drop' \in {drop, drop + 1},
         conn \in Sockets => out'[conn] = out[conn] /\ taken'[conn] = taken[conn],
         (conn \in Sockets /\ link'[conn] # "down" /\ conn \in todo' \cup {cur'})
           => \/ link[conn] # "down" /\ conn \in todo \cup {cur}
              \/ rows' = rows + 1
  PROVE  PageInv'
<1>1. base \in Nat /\ rows \in Nat /\ drop \in Nat /\ lastRow \in Nat
  BY DEF DashTypeOK, TypeOK
<1>2. rows' >= rows /\ drop' >= drop
  BY <1>1
<1>3. ASSUME conn \in Sockets, got > 0, taken'[conn] < Len(out'[conn])
      PROVE  Follows(out'[conn][taken'[conn] + 1])
  <2>1. out'[conn] = out[conn] /\ taken'[conn] = taken[conn]
    BY <1>3
  <2> QED
    BY <1>3, <2>1 DEF PageInv, Unread
<1>4. ASSUME conn \in Sockets, got > 0, ~(taken'[conn] < Len(out'[conn])),
             link'[conn] # "down", conn \in todo' \cup {cur'}
      PROVE  lastRow < base' + rows'
  <2>1. ~Unread
    BY <1>4 DEF Unread
  <2>2. lastRow <= base + rows
    BY <1>4 DEF PageInv, LastOK
  <2>3. CASE link[conn] # "down" /\ conn \in todo \cup {cur}
    <3>1. lastRow < base + rows
      BY <1>4, <2>1, <2>3 DEF PageInv
    <3> QED
      BY <3>1, <1>1, SumGrows
  <2>4. CASE rows' = rows + 1
    BY <1>1, <2>2, <2>4
  <2> QED
    BY <1>4, <2>3, <2>4
<1> QED
  BY <1>2, <1>3, <1>4, PageQuiet

(* The broadcast reaches the page.                                               *)
LEMMA PageIsSent ==
  ASSUME DashTypeOK, TypeOK', ControlInv, StreamInv, FeedInv, FeedInv', PageInv,
         UNCHANGED dashVars, SendOk, conn = cur
  PROVE  PageInv'
<1>1. /\ UNCHANGED <<base, restarts, rows, drop, link, taken>>
      /\ conn \in Sockets
      /\ link[conn] # "down"
      /\ out'[conn] = Append(out[conn], CurrentFrame)
      /\ conn \notin todo' \cup {cur'}
  BY NoSocketAssumption DEF SendOk, NextSend, DashTypeOK, TypeOK
<1>2. /\ base \in Nat /\ rows \in Nat /\ drop \in Nat /\ lastRow \in Nat
      /\ lastServerDrop \in Nat /\ lastBase \in Nat
      /\ taken[conn] \in Nat
      /\ CurrentFrame \in Frames
      /\ CurrentFrame.row = base + rows
      /\ CurrentFrame.base = base
      /\ CurrentFrame.drop = drop
  <2>1. base \in Nat /\ rows \in Nat /\ drop \in Nat /\ seq \in Nat
    BY DEF DashTypeOK, TypeOK
  <2>2. rows + drop = seq + 1
    BY DEF SendOk, ControlInv, LoopInv, EverySeqLoggedOrDropped
  <2>3. /\ CurrentFrame \in Frames
        /\ CurrentFrame.row = base + rows
        /\ CurrentFrame.base = base
        /\ CurrentFrame.drop = drop
    BY <2>1, <2>2 DEF CurrentFrame, Frames
  <2> QED
    BY <1>1, <2>1, <2>3 DEF DashTypeOK, TypeOK
<1>3. /\ Len(out[conn]) \in Nat
      /\ Len(out'[conn]) = Len(out[conn]) + 1
      /\ \A i \in 1..Len(out[conn]) : out'[conn][i] = out[conn][i]
      /\ out'[conn][Len(out[conn]) + 1] = CurrentFrame
  BY <1>1, <1>2, AppendProperties, LenProperties DEF DashTypeOK, TypeOK
<1>4. ASSUME got > 0, taken'[conn] < Len(out'[conn])
      PROVE  Follows(out'[conn][taken'[conn] + 1])
  <2>1. CASE Unread
    <3>1. taken[conn] + 1 \in 1..Len(out[conn])
      BY <1>2, <1>3, <2>1 DEF Unread
    <3>2. out'[conn][taken'[conn] + 1] = out[conn][taken[conn] + 1]
      BY <1>1, <1>3, <3>1
    <3> QED
      BY <1>1, <1>4, <2>1, <3>2 DEF PageInv
  <2>2. CASE ~Unread
    <3>1. taken[conn] = Len(out[conn])
      BY <1>1, <1>2, <1>3, <2>2 DEF Unread, FeedInv
    <3>2. out'[conn][taken'[conn] + 1] = CurrentFrame
      BY <1>1, <1>3, <3>1
    <3>3. lastRow < base + rows
      BY <1>1, <1>4, <2>2 DEF PageInv
    <3>4. LastOK
      BY <1>4 DEF PageInv
    <3> QED
      BY <1>2, <3>2, <3>3, <3>4 DEF Follows, LastOK
  <2> QED
    BY <2>1, <2>2
<1>5. rows' >= rows /\ drop' >= drop
  BY <1>1, <1>2
<1> QED
  BY <1>1, <1>4, <1>5, PageQuiet

LEMMA PageNext ==
  ASSUME DashTypeOK, ControlInv, StreamInv, FeedInv, PageInv, [DashNext]_allVars
  PROVE  PageInv'
<1>1. TypeOK' /\ TypeOK /\ ConnOK
  BY ServerSteps, TypeNext DEF DashTypeOK, ConnOK, ControlInv
<1>2. CASE Message
  BY <1>2, PageMessage
<1>3. ASSUME NEW ws \in Sockets, Connect(ws) PROVE PageInv'
  <2>1. /\ conn' = ws
        /\ handler[ws] = "new"
        /\ UNCHANGED <<pageVars, seenVars, base, rows, drop, restarts, out, taken,
                       todo, cur>>
    BY <1>3 DEF Connect, Accept
  <2>2. out[ws] = << >> /\ ws \notin todo \cup {cur}
    BY <2>1 DEF StreamInv, OneSession, ControlInv, SocketInv
  <2>3. ~Unread'
    BY <2>1, <2>2, <1>1 DEF Unread, TypeOK
  <2> QED
    BY <2>1, <2>2, <2>3 DEF PageInv, LastOK, NeverOvercounts, ExactWithoutRestart,
                            Missed, pageVars, seenVars
<1>4. CASE Disconnected
  <2>1. /\ conn' = NoSocket
        /\ UNCHANGED <<pageVars, seenVars, base, rows, drop, restarts>>
    BY <1>4 DEF Disconnected, vars
  <2> QED
    BY <2>1, NoSocketAssumption
       DEF PageInv, LastOK, NeverOvercounts, ExactWithoutRestart, Missed,
           pageVars, seenVars
<1> DEFINE Still == UNCHANGED dashVars
<1> DEFINE Calm == UNCHANGED <<base, restarts, rows, drop>>
<1>5. CASE OtherClient
  <2>1. PICK ws \in Sockets \ {conn} : Accept(ws) \/ PeerTakes(ws)
    BY <1>5 DEF OtherClient
  <2>2. Still /\ Calm /\ UNCHANGED <<todo, cur>>
    BY <1>5, <2>1 DEF OtherClient, Accept, PeerTakes
  <2>3. ASSUME conn \in Sockets
        PROVE  /\ out'[conn] = out[conn]
               /\ taken'[conn] = taken[conn]
               /\ link'[conn] = link[conn]
    BY <1>1, <2>1, <2>3 DEF Accept, PeerTakes, TypeOK
  <2> QED
    BY <1>1, <2>2, <2>3, PageStill
<1>6. CASE Still /\ (LoopStep \/ TickFails)
  <2>1. /\ UNCHANGED <<base, restarts, out, taken, link>>
        /\ rows' \in {rows, rows + 1}
        /\ drop' \in {drop, drop + 1}
        /\ UNCHANGED <<todo, cur>> \/ rows' = rows + 1
    BY <1>6 DEF LoopStep, SimDrop, TickAlone, TickBroadcast, TickFails
  <2> QED
    BY <1>1, <1>6, <2>1, PageStill
<1>7. CASE Still /\ SendFails
  <2>1. Calm /\ UNCHANGED <<out, taken, link>>
    BY <1>7 DEF SendFails
  <2>2. todo' \cup {cur'} \subseteq todo \cup {cur} \cup {NoSocket}
    BY <1>7 DEF SendFails, NextSend
  <2>3. conn \in Sockets /\ conn \in todo' \cup {cur'} => conn \in todo \cup {cur}
    BY <2>2, NoSocketAssumption
  <2> QED
    BY <1>1, <1>7, <2>1, <2>3, PageStill
<1>8. CASE Still /\ (ApiGps \/ ApiEvent \/ BeginShutdown \/ LifespanExit \/ Kill)
  <2>1. Calm /\ UNCHANGED <<out, taken>>
    BY <1>8 DEF ApiGps, ApiEvent, LogGps, LogEvent, BeginShutdown, LifespanExit, Kill
  <2>2. \A ws \in Sockets : link'[ws] # "down" => link[ws] # "down"
    BY <1>1, <1>8 DEF ApiGps, ApiEvent, LogGps, LogEvent, BeginShutdown,
                      LifespanExit, Kill, TypeOK
  <2>3. todo' \cup {cur'} \subseteq todo \cup {cur} \cup {NoSocket}
    BY <1>8 DEF ApiGps, ApiEvent, LogGps, LogEvent, BeginShutdown,
                LifespanExit, Kill, LoseTask
  <2>4. conn \in Sockets /\ conn \in todo' \cup {cur'} => conn \in todo \cup {cur}
    BY <2>3, NoSocketAssumption
  <2> QED
    BY <1>1, <1>8, <2>1, <2>2, <2>4, PageStill
<1>9. CASE Still /\ \E ws \in Sockets :
               \/ HandlerExit(ws) \/ Receive(ws)
               \/ PeerCloses(ws) \/ PeerVanishes(ws) \/ KeepaliveTimeout(ws)
  <2>1. Calm /\ UNCHANGED <<out, taken, todo, cur>>
    BY <1>9 DEF HandlerExit, Receive, PeerCloses, PeerVanishes, Unregister,
                KeepaliveTimeout, SetLink, LogGps, LogEvent
  <2>2. \A ws \in Sockets : link'[ws] # "down" => link[ws] # "down"
    <3>1. PICK ws \in Sockets :
            \/ link' = link
            \/ link' = [link EXCEPT ![ws] = "down"]
            \/ link[ws] = "up" /\ link' = [link EXCEPT ![ws] = "lost"]
      BY <1>9 DEF HandlerExit, Receive, PeerCloses, PeerVanishes, KeepaliveTimeout, SetLink
    <3>2. link \in [Sockets -> {"up", "lost", "down"}]
      BY <1>1 DEF TypeOK
    <3> QED
      BY <3>1, <3>2
  <2> QED
    BY <1>1, <1>9, <2>1, <2>2, PageStill
<1>10. CASE Still /\ Restart
  <2>1. /\ UNCHANGED <<out, taken, link>>
        /\ base' = base + rows
        /\ restarts' = restarts + 1
        /\ todo' = {}
        /\ cur' = NoSocket
    BY <1>10 DEF Restart, LoseTask
  <2>2. restarts' # 0
    BY <1>1, <2>1 DEF TypeOK
  <2>3. ASSUME conn \in Sockets, got > 0, taken'[conn] < Len(out'[conn])
        PROVE  Follows(out'[conn][taken'[conn] + 1])
    BY <2>1, <2>3 DEF PageInv, Unread
  <2>4. conn \in Sockets => conn \notin todo' \cup {cur'}
    BY <2>1, NoSocketAssumption
  <2> QED
    BY <1>1, <1>10, <2>1, <2>2, <2>3, <2>4, PageQuiet
<1>11. CASE Still /\ SendOk /\ conn # cur
  <2>1. Calm /\ UNCHANGED <<link, taken>>
    BY <1>11 DEF SendOk
  <2>2. conn \in Sockets => out'[conn] = out[conn]
    BY <1>1, <1>11 DEF SendOk, TypeOK
  <2>3. todo' \cup {cur'} \subseteq todo \cup {cur} \cup {NoSocket}
    BY <1>11 DEF SendOk, NextSend
  <2> QED
    BY <1>1, <1>11, <2>1, <2>2, <2>3, PageStill, NoSocketAssumption
<1>12. CASE Still /\ SendOk /\ conn = cur
  <2>1. FeedInv'
    BY <1>1, FeedNext, ServerSteps
  <2> QED
    BY <1>1, <1>12, <2>1, PageIsSent
<1>13. CASE UNCHANGED allVars
  <2>1. /\ Still
        /\ Calm
        /\ UNCHANGED <<out, taken, link, todo, cur>>
    BY <1>13 DEF allVars, vars
  <2> QED
    BY <1>1, <2>1, PageStill
<1> QED
  BY <1>2, <1>3, <1>4, <1>5, <1>6, <1>7, <1>8, <1>9, <1>10, <1>11, <1>12, <1>13
     DEF DashNext, ServerStep, SendStep

-----------------------------------------------------------------------------
LEMMA PageInit == DashInit => FeedInv /\ DashTypeOK /\ PageInv
<1> SUFFICES ASSUME DashInit PROVE FeedInv /\ DashTypeOK /\ PageInv
  OBVIOUS
<1>1. Init
  BY DEF DashInit
<1>2. FeedInv /\ TypeOK
  BY <1>1, FeedInit, TypeInit
<1>3. DashTypeOK
  BY <1>2 DEF DashInit, DashTypeOK, NoSeq
<1>4. PageInv
  BY DEF DashInit, PageInv, NeverOvercounts, ExactWithoutRestart, Missed
<1> QED
  BY <1>2, <1>3, <1>4

LEMMA PageAlways == DashSpec => [](DashTypeOK /\ PageInv)
<1>1. ASSUME ConnOK, TypeOK, TypeOK', ControlInv, StreamInv, FeedInv, DashTypeOK,
             PageInv, [DashNext]_allVars
      PROVE  FeedInv' /\ DashTypeOK' /\ PageInv'
  BY <1>1, ServerSteps, FeedNext, PageTypeNext, PageNext
<1> QED
  BY <1>1, PageInit, ServerAlways, PTL DEF DashSpec

(* The variables of the page keep their types: lastSeq is null or a sequence      *)
(* number, and localDropCount never goes below zero.                             *)
THEOREM DashTypeCorrect == DashSpec => []DashTypeOK
BY PageAlways, PTL

(* onFrame of client/app.js never counts a frame as lost in the network that was   *)
(* not lost, over any reconnects and server restarts.                             *)
THEOREM DropCountSound == DashSpec => []NeverOvercounts
<1>1. PageInv => NeverOvercounts
  BY DEF PageInv
<1> QED
  BY <1>1, PageAlways, PTL

(* Within one session of the server the count of onFrame is exact.                 *)
THEOREM DropCountExact == DashSpec => []ExactWithoutRestart
<1>1. PageInv => ExactWithoutRestart
  BY DEF PageInv
<1> QED
  BY <1>1, PageAlways, PTL

-----------------------------------------------------------------------------
(* The signals of a frame.                                                     *)

(* Rounding gives at least one number, and none off by more than half a unit of    *)
(* the last decimal.                                                          *)
LEMMA RoundedNear ==
  ASSUME NoNumber \notin Int, NEW value \in Int, NEW decimals \in Nat \cup {NoNumber}
  PROVE  /\ Rounded(value, decimals) # {}
         /\ \A v \in Rounded(value, decimals) :
              v \in Int /\ Off(v, value) <= Tolerance(decimals)
<1>1. CASE decimals = NoNumber \/ decimals >= 2
  BY <1>1 DEF Rounded, Tolerance, Off
<1>2. CASE ~(decimals = NoNumber \/ decimals >= 2)
  <2> DEFINE step == IF decimals = 0 THEN 100 ELSE 10
             rest == value % step
             below == value - rest
             near == Rounded(value, decimals)
  <2>1. \A v : v \in near <=> /\ v \in {below, below + step}
                             /\ Off(v, value) <= Off(below, value)
                             /\ Off(v, value) <= Off(below + step, value)
    BY <1>2 DEF Rounded, Unit
  <2>2. step \in {10, 100} /\ rest \in 0..(step - 1)
    BY <1>2
  <2>3. Tolerance(decimals) = step \div 2
    BY <1>2 DEF Tolerance, Unit
  <2> HIDE DEF step, rest, near
  <2>4. below \in Int /\ below + step \in Int
    BY <2>2
  <2>5. Off(below, value) = rest /\ Off(below + step, value) = step - rest
    BY <2>2 DEF Off
  <2> HIDE DEF below
  <2>6. near # {}
    BY <2>1, <2>2, <2>5
  <2>7. ASSUME NEW v \in near PROVE v \in Int /\ Off(v, value) <= step \div 2
    <3>1. Off(v, value) <= rest /\ Off(v, value) <= step - rest
      BY <2>1, <2>5, <2>7
    <3>2. v \in Int /\ Off(v, value) \in Int
      BY <2>1, <2>2, <2>4, <2>5, <2>7
    <3> QED
      BY <2>2, <3>1, <3>2
  <2> QED
    BY <2>3, <2>6, <2>7 DEF near
<1> QED
  BY <1>1, <1>2

(* Cutting to the range gives what is asked for.                                *)
LEMMA CutToRange ==
  ASSUME NoNumber \notin Int, NEW entry, entry.min \in Numbers, entry.max \in Numbers,
         NEW goal \in Int
  PROVE  LET n == Lower(Raise(goal, entry.min), entry.max)
         IN  n \in Int /\ n \in Targets(entry, goal)
<1> DEFINE n == Lower(Raise(goal, entry.min), entry.max)
<1> USE DEF Numbers
<1>1. n \in Int
  BY DEF Lower, Raise
<1>2. CASE entry.min # NoNumber /\ entry.max # NoNumber /\ entry.min > entry.max
  <2>1. Inside(entry, goal) = {}
    BY <1>2 DEF Inside
  <2>2. n = entry.max
    BY <1>2 DEF Lower, Raise
  <2> QED
    BY <1>1, <2>1, <2>2 DEF Targets
<1>3. CASE ~(entry.min # NoNumber /\ entry.max # NoNumber /\ entry.min > entry.max)
  <2>1. n \in Inside(entry, goal)
    BY <1>3 DEF Inside, Lower, Raise
  <2>2. ASSUME NEW m \in Inside(entry, goal) PROVE Off(goal, n) <= Off(goal, m)
    <3>1. /\ m \in Int
          /\ entry.max # NoNumber => m <= entry.max
          /\ entry.min # NoNumber => m >= entry.min
      BY <2>2 DEF Inside
    <3> QED
      BY <3>1, <1>3 DEF Off, Lower, Raise
  <2> QED
    BY <1>1, <2>1, <2>2 DEF Targets
<1> QED
  BY <1>2, <1>3

(* What SignalMapper.apply gives for one rule of a configuration, whatever the rule and    *)
(* the raw frame are: a value exactly if the configuration asks for the signal, and one     *)
(* that is within the rounding of what the entry asks for.                             *)
THEOREM RuleApplied ==
  ASSUME NoNumber \notin Int,
         NEW config, config # NoConfig,
         NEW key \in DOMAIN config, config[key] # NoRule, IsEntry(config[key]),
         NEW raw, \A k \in DOMAIN raw : raw[k] \in Numbers
  PROVE  /\ Sent(Rules(config), raw, key) # {} <=> key \in Asked(config, raw)
         /\ \A v \in Sent(Rules(config), raw, key) :
              \E n \in Targets(config[key], Goal(config[key], raw[Source(config, key)])) :
                Off(v, n) <= Tolerance(config[key].decimals)
<1> DEFINE entry == config[key]
           rule == Rule(key, entry)
           source == Source(config, key)
           goal == Goal(entry, raw[source])
<1>1. /\ key \in DOMAIN Rules(config)
      /\ Rules(config)[key] = rule
  BY DEF Rules
<1>2. /\ rule.source = source /\ rule.enabled = entry.enabled
      /\ rule.min = entry.min /\ rule.max = entry.max
      /\ rule.scale = Default(entry.scale, 1) /\ rule.offset = Default(entry.offset, 0)
  BY DEF Rule, Source
<1>3. entry.enabled \in BOOLEAN
      /\ {entry.scale, entry.offset, entry.min, entry.max, entry.decimals} \subseteq Numbers
  BY DEF IsEntry
<1>4. rule.decimals \in Nat \cup {NoNumber} /\ Tolerance(rule.decimals) = Tolerance(entry.decimals)
  <2>1. rule.decimals = IF entry.decimals = NoNumber THEN NoNumber
                        ELSE Lower(Raise(entry.decimals, 0), 6)
    BY DEF Rule
  <2>2. entry.decimals \in Numbers
    BY <1>3
  <2> QED
    BY <2>1, <2>2 DEF Numbers, Lower, Raise, Tolerance
<1>5. Sent(Rules(config), raw, key) =
        IF key \in Asked(config, raw) THEN Values(rule, raw[source]) ELSE {}
  <2>1. key \in Asked(config, raw) <=>
          entry.enabled /\ source \in DOMAIN raw /\ raw[source] # NoNumber
    BY DEF Asked
  <2> QED
    BY <1>1, <1>2, <1>3, <2>1 DEF Sent
<1>6. ASSUME key \in Asked(config, raw)
      PROVE  /\ Values(rule, raw[source]) # {}
             /\ \A v \in Values(rule, raw[source]) : \E n \in Targets(entry, goal) :
                  Off(v, n) <= Tolerance(entry.decimals)
  <2> DEFINE n == Lower(Raise(goal, entry.min), entry.max)
  <2>1. raw[source] \in Int /\ Default(entry.scale, 1) \in Int /\ Default(entry.offset, 0) \in Int
    BY <1>3, <1>6 DEF Asked, Numbers, Default
  <2>2. goal \in Int
    BY <2>1 DEF Goal
  <2>3. Values(rule, raw[source]) = Rounded(n, rule.decimals)
    BY <1>2 DEF Values, Goal
  <2>4. n \in Int /\ n \in Targets(entry, goal)
    BY <1>3, <2>2, CutToRange
  <2> HIDE DEF n, rule, goal
  <2> QED
    BY <1>4, <2>3, <2>4, RoundedNear
<1> HIDE DEF entry, rule, source, goal
<1> QED
  BY <1>5, <1>6 DEF entry, source, goal

(* What apply gives for a whole raw frame is as configured.                           *)
LEMMA FrameApplied ==
  ASSUME NEW config \in Configs, NEW raw \in RawSignals,
         NEW signals \in Applied(Rules(config), raw)
  PROVE  AsConfigured(config, raw, signals)
<1> DEFINE rs == Rules(config)
           keys == IF DOMAIN rs = {} THEN DOMAIN raw ELSE DOMAIN rs
           given == {key \in keys : Sent(rs, raw, key) # {}}
<1>1. /\ signals \in [given -> UNION {Sent(rs, raw, key) : key \in given}]
      /\ \A key \in given : signals[key] \in Sent(rs, raw, key)
  BY DEF Applied
<1>2. NoNumber \notin Int /\ \A key \in DOMAIN raw : raw[key] \in Numbers
  BY SignalsAssumption
<1>3. CASE config = NoConfig
  <2>1. DOMAIN rs = {}
    <3>1. rs = << >> /\ DOMAIN << >> = {}
      BY <1>3 DEF Rules
    <3> QED
      BY <3>1
  <2>2. \A key \in DOMAIN raw : Sent(rs, raw, key) = {raw[key]} \ {NoNumber}
    BY <2>1 DEF Sent
  <2>3. given = {k \in DOMAIN raw : raw[k] # NoNumber}
    BY <2>1, <2>2
  <2>4. \A key \in given : signals[key] = raw[key]
    BY <1>1, <2>2, <2>3
  <2> HIDE DEF rs, keys, given
  <2>5. signals = [key \in given |-> raw[key]]
    BY <1>1, <2>4
  <2> QED
    BY <1>3, <2>3, <2>5 DEF AsConfigured
<1>4. CASE config # NoConfig /\ \E key \in DOMAIN config : config[key] # NoRule
  <2>1. DOMAIN rs = {k \in DOMAIN config : config[k] # NoRule} /\ DOMAIN rs # {}
    BY <1>4 DEF Rules
  <2>2. ASSUME NEW key \in DOMAIN rs
        PROVE  /\ Sent(rs, raw, key) # {} <=> key \in Asked(config, raw)
               /\ \A v \in Sent(rs, raw, key) :
                    \E n \in Targets(config[key], Goal(config[key], raw[Source(config, key)])) :
                      Off(v, n) <= Tolerance(config[key].decimals)
    <3>1. key \in DOMAIN config /\ config[key] # NoRule
      BY <2>1
    <3>2. IsEntry(config[key])
      BY <1>4, <3>1, SignalsAssumption
    <3> QED
      BY <1>2, <1>4, <3>1, <3>2, RuleApplied
  <2>3. Asked(config, raw) \subseteq DOMAIN rs
    BY <2>1 DEF Asked
  <2>4. given = Asked(config, raw)
    BY <2>1, <2>2, <2>3
  <2>5. DOMAIN signals = Asked(config, raw)
    BY <1>1, <2>4
  <2>6. ASSUME NEW key \in Asked(config, raw)
        PROVE  \E n \in Targets(config[key], Goal(config[key], raw[Source(config, key)])) :
                 Off(signals[key], n) <= Tolerance(config[key].decimals)
    BY <1>1, <2>2, <2>3, <2>4, <2>6
  <2> QED
    BY <1>4, <2>5, <2>6 DEF AsConfigured
<1> QED
  BY <1>3, <1>4 DEF AsConfigured

(* The process has the rules of the file it read; the newest row has what they give for    *)
(* its raw frame; and whoever was sent that row was sent its signals.                    *)
SigInv ==
  /\ conf \in Configs
  /\ rules = Rules(conf)
  /\ DOMAIN sent = Sockets
  /\ rows > 0 => sample \in RawSignals /\ sig \in Applied(rules, sample)
  /\ \A ws \in Sockets :
       (rows > 0 /\ out[ws] # << >> /\ out[ws][Len(out[ws])].row = base + rows) =>
         sent[ws] = sig

LEMMA SignalSteps == [SigNext]_sigAllVars => [Next]_vars
BY DEF SigNext, LogSample, SendSignals, RestartReloads, OtherStep, sigAllVars, Next,
       ServerStep, LoopStep, SendStep

(* A frame can only be of the newest row if it was sent since that row was written.        *)
LEMMA SigInvNext ==
  ASSUME TypeOK, TypeOK', ControlInv, StreamInv, SigInv, [SigNext]_sigAllVars
  PROVE  SigInv'
<1> USE DEF SigInv
<1>1. rows \in Nat /\ base \in Nat /\ rows' \in Nat
  BY DEF TypeOK
<1>2. \A ws \in Sockets : out[ws] # << >> => out[ws][Len(out[ws])].row \in Nat
                                        /\ out[ws][Len(out[ws])].row <= base + rows
  <2> SUFFICES ASSUME NEW ws \in Sockets, out[ws] # << >>
               PROVE  out[ws][Len(out[ws])].row \in Nat
                      /\ out[ws][Len(out[ws])].row <= base + rows
    OBVIOUS
  <2>1. Len(out[ws]) \in 1..Len(out[ws])
    <3>1. out[ws] \in Seq(Frames)
      BY DEF TypeOK
    <3> QED
      BY <3>1, EmptySeq, LenProperties
  <2> QED
    BY <2>1, FrameFields DEF StreamInv, SentRowsAreLogged
<1>3. CASE LogSample
  <2>1. /\ rows' = rows + 1
        /\ UNCHANGED <<out, base>>
        /\ UNCHANGED <<conf, rules, sent>>
        /\ sample' \in RawSignals
        /\ sig' \in Applied(rules, sample')
    BY <1>3 DEF LogSample, TickAlone, TickBroadcast, TickFails
  <2>2. ASSUME NEW ws \in Sockets, out'[ws] # << >>
        PROVE  out'[ws][Len(out'[ws])].row # base' + rows'
    BY <1>1, <1>2, <2>1, <2>2
  <2> QED
    BY <2>1, <2>2
<1>4. CASE SendSignals
  <2>1. /\ rows + drop = seq + 1
        /\ cur \in Sockets
        /\ UNCHANGED <<rows, base>>
        /\ UNCHANGED <<conf, rules, sample, sig>>
        /\ DOMAIN sent' = Sockets
        /\ sent'[cur] = sig
        /\ \A ws \in Sockets \ {cur} : sent'[ws] = sent[ws] /\ out'[ws] = out[ws]
    BY <1>4 DEF SendSignals, SendOk, TypeOK, ControlInv, LoopInv, EverySeqLoggedOrDropped
  <2> QED
    BY <2>1
<1>5. CASE RestartReloads
  <2>1. /\ rows' = 0
        /\ conf' \in Configs
        /\ rules' = Rules(conf')
        /\ DOMAIN sent' = Sockets
    BY <1>5 DEF RestartReloads, Restart
  <2> QED
    BY <2>1
<1>6. CASE OtherStep \/ UNCHANGED sigAllVars
  <2>1. UNCHANGED <<out, base, rows>> /\ UNCHANGED sigVars
    BY <1>6 DEF OtherStep, SimDrop, TickFails, SendFails, ApiGps, ApiEvent, LogGps, LogEvent,
                BeginShutdown, LifespanExit, Kill, Accept, PeerTakes, HandlerExit, Receive,
                PeerCloses, PeerVanishes, KeepaliveTimeout, SetLink, sigAllVars, vars
  <2> QED
    BY <2>1 DEF sigVars
<1> QED
  BY <1>3, <1>4, <1>5, <1>6 DEF SigNext

(* Every client that was sent the newest row has the signals of the log, and they are    *)
(* what the configuration asks for that the process read when it started (apply in       *)
(* can_broadcast_loop): for every set of configurations and of raw frames, over any        *)
(* restarts, and whatever becomes of the other sends.                                  *)
THEOREM SignalsCorrect == SigSpec => []SignalsMapped
<1>1. SigInit => Init /\ SigInv
  BY DEF SigInit, SigInv, Init
<1>2. ControlInv => LoopInv
  BY DEF ControlInv
<1>3. SigInv => SignalsMapped
  BY FrameApplied DEF SigInv, SignalsMapped
<1> QED
  BY <1>1, <1>2, <1>3, SignalSteps, SigInvNext, TypeInit, TypeNext, ControlInit, ControlNext,
     StreamInit, StreamNext, PTL DEF SigSpec
=============================================================================
