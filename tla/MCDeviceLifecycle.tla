--------------------------- MODULE MCDeviceLifecycle ---------------------------
(* Instances of DeviceLifecycle for TLC: every hierarchy of N devices and  *)
(* every relation of dependency between them; either all devices register  *)
(* their callbacks early, or none does.                                    *)
EXTENDS DeviceLifecycle

AllOrNone == {{}, Devices}
=================================================================================
