---------------------------- MODULE MCSafetyRail ----------------------------
(* The interlock is small enough to be checked as it is.                    *)
EXTENDS SafetyRail
=============================================================================
