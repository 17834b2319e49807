------------------------- MODULE ToolchainRefinement -------------------------
(***************************************************************************)
(* The refinement mapping from Toolchain to InstalledVersions.  A version   *)
(* is installed once its compiler binary is there, and the default is what  *)
(* the link of the compiler names: archives, staging directories, the other *)
(* links and the commands that run are hidden.                              *)
(***************************************************************************)
EXTENDS Toolchain

Store == INSTANCE InstalledVersions WITH
  installed <- {v \in Versions : Installed(v)}, default <- link[COMPILER_BIN]

(* Whatever is stopped half-way, update and clean implement a store of      *)
(* versions: one atomic install, default or removal at a time, and the      *)
(* default version is never the one removed.                                *)
IsVersionStore == Store!Spec
=============================================================================
