--------------------------- MODULE MCDeviceAccess ---------------------------
(* One installation: a check of the alarms and one of startApply overlap.  *)
EXTENDS DeviceAccess
MCCallers == {"poll", "apply"}
=============================================================================
