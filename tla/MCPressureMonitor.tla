--------------------------- MODULE MCPressureMonitor ---------------------------
(* The monitor launchd starts, in every configuration. *)
EXTENDS PressureMonitor

CONSTANT launchd

MCConfigurations == {{"trigger"}, {"thin"}, {"builds"}, {"thin", "builds"}}
================================================================================
