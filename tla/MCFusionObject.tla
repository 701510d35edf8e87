--------------------------- MODULE MCFusionObject ---------------------------
(* A parent and its child in two pools, such as a window and its surface.  *)
(* Two threads look either up by its id; the parent's pool may be          *)
(* destroyed.                                                              *)
EXTENDS FusionObject, TLC

CONSTANTS o1, o2, p1, p2

MCPoolOf == (o1 :> p1) @@ (o2 :> p2)
MCChild == (o1 :> o2) @@ (o2 :> NoObject)
=============================================================================
