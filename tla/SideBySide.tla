----------------------------- MODULE SideBySide -----------------------------
(***************************************************************************)
(* The state of the modules that put programs or libraries which share     *)
(* nothing side by side: kind says which of them a behaviour is about, obj *)
(* and ref are its state and what it should amount to.                     *)
(***************************************************************************)
VARIABLES kind, obj, ref

vars == <<kind, obj, ref>>
=============================================================================
