----------------------------- MODULE MCReconcile -----------------------------
(* Small instances of Reconcile for TLC: which faults are considered together. *)
EXTENDS Reconcile

\* Two nodes: runs that are cut short, purchases whose answer is lost, edits.
CutShort == {{"kill", "lost", "edit"}, {"fail", "late"}, {"lost", "deaf"}, {"kill", "reboot"}}

\* One node: machines that are reinstalled, edits at any time.
Reinstalled == {{"fail", "reset", "edit"}, {"kill", "reset"}, {"fail", "edit", "revert", "midrun"}}

\* A Cloudflare token that is added when the nodes are already up.
LateToken == {{"fail", "late"}}
===============================================================================
