------------------------------ MODULE MCDeviceFleet ------------------------------
(***************************************************************************)
(* Instances of DeviceFleet: the simulator and one or two inverters.       *)
(***************************************************************************)
EXTENDS DeviceFleet
================================================================================
