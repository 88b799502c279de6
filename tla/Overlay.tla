------------------------------- MODULE Overlay ------------------------------
(* What the models of configurations ask of a function. They are :> and @@ *)
(* of module TLC, which proofs cannot expand.                              *)

Only(x, v) == [y \in {x} |-> v]

Over(new, old) ==
  [x \in DOMAIN new \cup DOMAIN old |-> IF x \in DOMAIN new THEN new[x] ELSE old[x]]
=============================================================================
