------------------------------ MODULE MCReleases ------------------------------
(* Small instances of Releases for TLC. *)
EXTENDS Releases, TLC

CONSTANTS s1, s2, b1, b2

\* Everything at once; everything but --force; and, without removals that end
\* half-way, with --force and without.
AllOrWhole == {{"cut", "full", "io", "kill", "power", "force"},
               {"cut", "full", "io", "kill", "power"},
               {"cut", "full", "force"}, {"cut", "full"}}

SessionSymmetry == Permutations({s1, s2}) \cup Permutations({b1, b2})

===============================================================================
