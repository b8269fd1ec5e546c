--------------------------- MODULE MCBuildPipeline ---------------------------
(* Builds of two versions of the sources, with the invocations the       *)
(* README of the repository shows and those that Assert-Inputs is about.   *)
EXTENDS BuildPipeline

Call(clean, skip, force) == [clean |-> clean, skip |-> skip, force |-> force]

Calls ==
  {Call(FALSE, {}, {}), Call(FALSE, {"dll", "art"}, {}),
   Call(FALSE, {"dll"}, {}),
   Call(TRUE, {}, {}), Call(TRUE, {"dll"}, {}), Call(TRUE, {"art"}, {}),
   Call(FALSE, {}, {"art"}), Call(FALSE, {"art"}, {"dll"}),
   Call(FALSE, {"art"}, {"art"})}
=============================================================================
