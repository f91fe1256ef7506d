--------------------------- MODULE DashboardStream ---------------------------
(***************************************************************************)
(* The web dashboard reading the server's stream: TelemetryServer composed   *)
(* with the drop accounting of onFrame in client/app.js.  The page keeps     *)
(* lastSeq, lastServerDrop and localDropCount over every reconnect, also     *)
(* when the server it comes back to has been restarted.  How the socket      *)
(* reconnects is modelled in TelemetrySocket; here the page is either        *)
(* reading one socket or none.                                              *)
(***************************************************************************)
EXTENDS TelemetryServer

VARIABLES
  conn,           \* the socket the page reads, NoSocket when disconnected
  lastSeq,        \* app.js lastSeq, NoSeq for null
  lastServerDrop, \* app.js lastServerDrop
  localDropCount, \* app.js localDropCount
  got,            \* history: frames handled
  firstRow,       \* history: CAN row of the first frame handled
  lastRow,        \* history: CAN row of the last frame handled
  lastBase        \* history: rows of the sessions before the last frame's

pageVars == <<lastSeq, lastServerDrop, localDropCount>>
seenVars == <<got, firstRow, lastRow, lastBase>>
dashVars == <<conn, pageVars, seenVars>>
allVars == <<vars, dashVars>>

NoSeq == -1

DashInit ==
  /\ Init
  /\ conn = NoSocket
  /\ lastSeq = NoSeq
  /\ lastServerDrop = 0
  /\ localDropCount = 0
  /\ got = 0
  /\ firstRow = 0
  /\ lastRow = 0
  /\ lastBase = 0

AtLeastZero(n) == IF n > 0 THEN n ELSE 0

(* Mutant: the drops of the server count as network loss.                    *)
NetworkGapOfBoth(f) ==
  IF lastSeq # NoSeq /\ f.seq > lastSeq + 1 THEN f.seq - lastSeq - 1 ELSE 0

(* What onFrame adds to localDropCount for frame f.                          *)
NetworkGap(f) ==
  IF lastSeq # NoSeq /\ f.seq > lastSeq + 1
  THEN AtLeastZero((f.seq - lastSeq - 1) - AtLeastZero(f.drop - lastServerDrop))
  ELSE 0

OnFrame(f) ==
  /\ localDropCount' = localDropCount + NetworkGap(f)
  /\ lastSeq' = f.seq
  /\ lastServerDrop' = f.drop

Seen(f) ==
  /\ got' = got + 1
  /\ firstRow' = IF got = 0 THEN f.row ELSE firstRow
  /\ lastRow' = f.row
  /\ lastBase' = f.base

(* The handshake of the page's socket is over, its state is kept.            *)
Connect(ws) ==
  /\ conn = NoSocket
  /\ Accept(ws)
  /\ conn' = ws
  /\ UNCHANGED <<pageVars, seenVars>>

(* The message event of the next frame.                                     *)
Message ==
  /\ conn # NoSocket
  /\ PeerTakes(conn)
  /\ LET f == out[conn][taken[conn] + 1] IN OnFrame(f) /\ Seen(f)
  /\ UNCHANGED conn

(* Mutant: the page forgets lastSeq with its socket.                          *)
DisconnectedForgets ==
  /\ conn # NoSocket
  /\ conn' = NoSocket
  /\ lastSeq' = NoSeq
  /\ UNCHANGED <<vars, lastServerDrop, localDropCount, seenVars>>

(* The close event, by whatever cause: what was not read is lost.  The        *)
(* server notices by itself (PeerCloses, PeerVanishes).                      *)
Disconnected ==
  /\ conn # NoSocket
  /\ conn' = NoSocket
  /\ UNCHANGED <<vars, pageVars, seenVars>>

(* Other clients come and go and read at their own pace.                     *)
OtherClient ==
  /\ \E ws \in Sockets \ {conn} : Accept(ws) \/ PeerTakes(ws)
  /\ UNCHANGED dashVars

DashNext ==
  \/ \E ws \in Sockets : Connect(ws)
  \/ Message
  \/ Disconnected
  \/ OtherClient
  \/ (ServerStep /\ UNCHANGED dashVars)

DashSpec == DashInit /\ [][DashNext]_allVars

-----------------------------------------------------------------------------
DashTypeOK ==
  /\ TypeOK
  /\ conn \in Sockets \cup {NoSocket}
  /\ lastSeq \in Nat \cup {NoSeq}
  /\ lastServerDrop \in Nat
  /\ localDropCount \in Nat
  /\ got \in Nat
  /\ firstRow \in Nat
  /\ lastRow \in Nat
  /\ lastBase \in Nat

(* The CAN rows between the first and the last frame the page handled that    *)
(* it did not get.                                                          *)
Missed == IF got = 0 THEN 0 ELSE lastRow - firstRow + 1 - got

(* The page never reports more lost frames than it lost: every unit of        *)
(* localDropCount is a frame the server logged and this page never handled,   *)
(* over any reconnects and any restarts of the server in between (onFrame     *)
(* compares counters of two different sessions then).                        *)
NeverOvercounts == localDropCount <= Missed

(* While the server has not been restarted the count is exact: simulated      *)
(* drops are not counted as network loss, and no lost frame is missed, also   *)
(* over a reconnect.                                                        *)
ExactWithoutRestart == restarts = 0 => localDropCount = Missed
=============================================================================
