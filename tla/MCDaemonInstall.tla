--------------------------- MODULE MCDaemonInstall ---------------------------
(* Two builds, of which the newer knows a flag that the older does not. *)
EXTENDS DaemonInstall, TLC

CONSTANTS older, newer, reclaim

MCTakes == older :> {} @@ newer :> {reclaim}
MCOptions == older :> {{}} @@ newer :> {{reclaim}}

==============================================================================
