-------------------------- MODULE MCDeviceTracking --------------------------
(* A small instance of DeviceTracking: one user with one device, whose list *)
(* two key queries ask for.                                                 *)
EXTENDS DeviceTracking, TLC
CONSTANTS u1, d1, q1, q2
MCOneOwner == d1 :> u1
=============================================================================
