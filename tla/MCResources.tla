---------------------------- MODULE MCResources ----------------------------
(* One root of the service and a subagent of it. *)
EXTENDS ResourceProperties, TLC

CONSTANTS root, child

ChildOfRoot == child :> root
=============================================================================
