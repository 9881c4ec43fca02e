-------------------------- MODULE MC_ChanDynamic --------------------------
(* The instance of ChanDynamic that TLC checks.                            *)
EXTENDS ChanDynamic
=============================================================================
