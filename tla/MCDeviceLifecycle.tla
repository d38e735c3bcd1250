------------------------- MODULE MCDeviceLifecycle -------------------------
(***************************************************************************)
(* Model-checking instances of DeviceLifecycle. The configurations choose  *)
(* the cameras, the connection mode and the services the clients call; the *)
(* cameras are interchangeable, so safety runs may permute them.           *)
(***************************************************************************)
EXTENDS DeviceLifecycle, TLC

CameraSymmetry == Permutations(Devices)
=============================================================================
