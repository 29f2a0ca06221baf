-------------------------- MODULE StackDeployRefines --------------------------
(* The engine of StackDeploy implements the traffic contract of BlueGreen:   *)
(* active-color is the record, app.sock the live color, pending-color the    *)
(* intent, and a color is up while systemd keeps its unit started.           *)
EXTENDS StackDeploy

Up == {c \in Colors : unit[c] # Stopped}

\* A full disk empties the files the contract is about: it then sees nothing.
Seen(value, nothing) == IF "disk" \in faults THEN nothing ELSE value

BG == INSTANCE BlueGreen WITH
        recorded <- Seen(active, NoColor), live <- Seen(sock, NoColor),
        intent <- Seen(pending, NoColor), up <- Seen(Up, {})

\* Unless the disk fills up, every step of the script, the timers, the boot
\* unit, a dying process or a power loss is a step the contract allows, or
\* changes nothing it sees.
ImplementsBlueGreen == BG!Spec

===============================================================================
