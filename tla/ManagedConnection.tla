-------------------------- MODULE ManagedConnection --------------------------
(***************************************************************************)
(* What both WebSocket clients promise their user: a connection that is      *)
(* managed.  While the user wants it there is one live transport or a        *)
(* further attempt, and once the user has disconnected there is none.        *)
(* TelemetrySocket (web) and TelemetryWsClient (mobile) are shown to         *)
(* implement it; how they retry, back off and clean up is theirs.            *)
(***************************************************************************)

VARIABLES
  wanted,  \* the user's last request was to connect
  live     \* the one live transport: none, opening, open

managedVars == <<wanted, live>>

Init ==
  /\ wanted = FALSE
  /\ live = "none"

(* The user connects, or connects anew: what was there is given up.          *)
Connect ==
  /\ wanted' = TRUE
  /\ live' = "opening"

Disconnect ==
  /\ wanted' = FALSE
  /\ live' = "none"

(* A further attempt.                                                       *)
Dial ==
  /\ wanted
  /\ live = "none"
  /\ live' = "opening"
  /\ UNCHANGED wanted

Up ==
  /\ live = "opening"
  /\ live' = "open"
  /\ UNCHANGED wanted

Lost ==
  /\ live # "none"
  /\ live' = "none"
  /\ UNCHANGED wanted

Next == Connect \/ Disconnect \/ Dial \/ Up \/ Lost

Spec == Init /\ [][Next]_managedVars

(* Attempts never end, and one of infinitely many succeeds.                  *)
Fairness == WF_managedVars(Dial) /\ SF_managedVars(Up)

FairSpec == Spec /\ Fairness

-----------------------------------------------------------------------------
(* Nothing is live that the user did not ask for.                            *)
OnlyWhenWanted == live # "none" => wanted

(* A user who wants the connection for good gets it again and again, however  *)
(* often it is lost.                                                        *)
ComesBack == <>[]wanted => []<>(live = "open")
=============================================================================
