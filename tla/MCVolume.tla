------------------------------ MODULE MCVolume ------------------------------
(* A volume whose maps take two blocks each and fit them. *)
EXTENDS FittingVolume, VolumeLayout
=============================================================================
