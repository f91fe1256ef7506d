-------------------------- MODULE MCDashboardStream --------------------------
(* DashboardStream on a small instance: the page uses one socket per          *)
(* connection, so two sockets are one reconnect.                             *)
EXTENDS DashboardStream, TLC

SocketSymmetry == Permutations(Sockets)
=============================================================================
