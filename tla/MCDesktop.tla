------------------------------ MODULE MCDesktop ------------------------------
(* Instances of Desktop for TLC. *)
EXTENDS Desktop

(* All paths of at most four characters, and /workspace/ with at most five. *)
Characters == {"/", "w", "m", ".", "h"}
Short(n) == UNION {[1 .. k -> Characters] : k \in 0 .. n}
ShortPaths == Short(4) \cup {<<"/", "w", "/">> \o path : path \in Short(5)}

Lengths == {1, DraftCapacity - 1}
=============================================================================
