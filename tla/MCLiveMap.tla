------------------------------- MODULE MCLiveMap -------------------------------
(* Model-checking instance of LiveMap: the feed has room for one of two      *)
(* vessels, and the third object in the cache cuts it to one.                *)
EXTENDS LiveMap, TLC

CONSTANTS v1, v2, a1, c1

=============================================================================
