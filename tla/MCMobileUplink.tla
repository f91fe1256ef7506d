--------------------------- MODULE MCMobileUplink ---------------------------
(* MobileUplink on small instances; every constant is a bound or an option.  *)
EXTENDS MobileUplink, TLC
=============================================================================
