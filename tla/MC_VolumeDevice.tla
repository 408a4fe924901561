--------------------------- MODULE MC_VolumeDevice ---------------------------
(* A small instance of VolumeDevice *)
EXTENDS VolumeDevice
==============================================================================
