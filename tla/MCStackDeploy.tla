----------------------------- MODULE MCStackDeploy -----------------------------
(* Small instances of StackDeploy and of its refinement for TLC. *)
EXTENDS StackDeployRefines, TLC

ProcSymmetry == Permutations(Procs)

\* Everything but a full disk; a full disk; power losses and
\* overwritten releases alone; and nothing but failing health checks.
Crashes == {{"step", "death", "power"}, {"disk"}, {"power", "force"}, {}}

\* What a swap must survive without help, and what ends a command early.
PowerOrDeath == {{"power"}, {"step", "death"}}

OnlyDeath == {{"death"}}

===============================================================================
