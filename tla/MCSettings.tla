--------------------------- MODULE MCSettings ---------------------------
(***************************************************************************)
(* Instances of Settings for TLC: the requests that differ for the code.   *)
(***************************************************************************)
EXTENDS Settings, TLC

CONSTANTS h1, h2, n0, n1

MCPatches == {"shell" :> TRUE, "shell" :> FALSE, "name" :> n1, "autostart" :> TRUE,
              "autostart" :> FALSE @@ "name" :> n1}

HandlerSymmetry == Permutations(Handlers)

=============================================================================
