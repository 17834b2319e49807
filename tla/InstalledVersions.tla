-------------------------- MODULE InstalledVersions --------------------------
(***************************************************************************)
(* What the compact tool promises its user, without downloads, archives,   *)
(* staging directories or links: a set of versions that are installed or   *)
(* not, and at most one of them the default.                               *)
(***************************************************************************)
CONSTANTS Versions, NoVersion

VARIABLES installed, default

vars == <<installed, default>>

Init == installed = {} /\ default = NoVersion

Install(v) == installed' = installed \cup {v} /\ UNCHANGED default

SetDefault(v) == v \in installed /\ default' = v /\ UNCHANGED installed

NoDefault == default' = NoVersion /\ UNCHANGED installed

(* The default version is never removed before it stops being the default.  *)
Remove(v) ==
  /\ v # default
  /\ installed' = installed \ {v}
  /\ UNCHANGED default

Next ==
  \/ \E v \in Versions : Install(v) \/ SetDefault(v) \/ Remove(v)
  \/ NoDefault

Spec == Init /\ [][Next]_vars
=============================================================================
