------------------------- MODULE MCDuplicateLabelCheck -------------------------
(***************************************************************************)
(* Instances of DuplicateLabelCheck for TLC.  Label sets are model strings *)
(* and the hash is given as a function, so collisions of distinct label    *)
(* sets can be chosen.                                                     *)
(***************************************************************************)
EXTENDS DuplicateLabelCheck, TLC

\* a, b, a, c: series 2 repeats series 0; b and c are distinct label sets
\* whose hashes collide.
MCSeries == (0 :> "a") @@ (1 :> "b") @@ (2 :> "a") @@ (3 :> "c")
MCHash == ("a" :> 0) @@ ("b" :> 1) @@ ("c" :> 1)

\* Three series with one label set.
MCTriple == (0 :> "a") @@ (1 :> "a") @@ (2 :> "a")
MCHashA == "a" :> 0

\* Two series with one label set.
MCTwin == (0 :> "a") @@ (1 :> "a")

=============================================================================
