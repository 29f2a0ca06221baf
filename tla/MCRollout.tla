------------------------------ MODULE MCRollout ------------------------------
(* Small instances of Rollout for TLC. *)
EXTENDS Rollout, TLC

CONSTANTS c1, c2

\* Operators whose runs overlap, and operators that take turns.
OverlapOrTurns == {{}, {"serial"}}

\* Runs of all nodes or of one (--node).
AllOrOne == {{"only"}}

Turns == {{"serial"}}

ClientSymmetry == Permutations({c1, c2})

===============================================================================
