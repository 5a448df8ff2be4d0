------------------------------ MODULE MCEngine ------------------------------
(* TLC instances of Engine: themes, which a cfg cannot write down. *)
EXTENDS Engine, TLC

CONSTANTS d1, d2

\* The directories are interchangeable.
Directories == Permutations(Cwds)

\* Two themes with headers of the same height, and two with different heights.
SameRows == {[name |-> n, rows |-> 2] : n \in {"a", "b"}}
OtherRows == {[name |-> "a", rows |-> 1], [name |-> "b", rows |-> 2]}
OneTheme == {[name |-> "a", rows |-> 1]}
=============================================================================
