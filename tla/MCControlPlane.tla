--------------------------- MODULE MCControlPlane ---------------------------
(* Bounds and symmetry of the control plane for TLC. *)
EXTENDS ControlPlaneProperties

Symmetry == Permutations(Inputs)

\* Three calls while the main task is alone, two with a second one.
ThreeAndTwo == <<3, 2>>
=============================================================================
