----------------------------- MODULE MCToolchain -----------------------------
(* Instances of Toolchain for TLC, with the specification they implement.   *)
EXTENDS ToolchainRefinement, TLC

CONSTANTS Old, New

Archived == {"compactc", "format-compact", "zkir"}

(* The older version has no formatter; both ship a file that is not linked. *)
OldAndNew == Old :> {"zkir"} @@ New :> {"zkir", "format-compact"}
JustNew == New :> {"zkir", "format-compact"}
Formatter == <<"format-compact">>

(* 0.2.0 is part of 10.2.0.                                                 *)
OldWithinNew == Old :> {Old, New} @@ New :> {New}
Itself == New :> {New}
=============================================================================
