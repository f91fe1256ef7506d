--------------------------- MODULE MCReverseGeocode ---------------------------
(* ReverseGeocode on a line of three places, of which the ends are 20 m apart.       *)
EXTENDS ReverseGeocode, TLC
=============================================================================
