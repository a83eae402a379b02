---- MODULE MCMacroExecutor ----
(* Instances of MacroExecutor for TLC: the cfg files give its constants. *)
EXTENDS MacroExecutor
====
