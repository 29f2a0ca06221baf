------------------------------- MODULE RamDir -------------------------------
(***************************************************************************)
(* private_ram_dir of ramdir.py: the only place a command puts key         *)
(* material outside its memory.  On Linux a directory in /dev/shm (or the  *)
(* user's runtime directory); given "macos", a directory on a RAM disk     *)
(* that the command attaches and formats, and detaches again at the end.   *)
(*                                                                         *)
(* A command that uses it goes to step "ram", does its own work at step    *)
(* Body(command), and ends that step with LeaveRam; the directory is then  *)
(* wiped before the command goes on to Behind(command), or, if it raised,  *)
(* ends.                                                                   *)
(***************************************************************************)
EXTENDS Commands

VARIABLE ram            \* ram[t]: what the last process of t has in RAM

ramVars == <<ram>>

NoRam == [disk |-> FALSE, secret |-> FALSE, raising |-> FALSE]

RamTypeOK == ram \in [Terminals -> [disk : BOOLEAN, secret : BOOLEAN, raising : BOOLEAN]]

RamInit == ram = [t \in Terminals |-> NoRam]

RamCommands == {"edit", "init", "rotate", "ci-setup", "deploy"}

Body(command) == CASE command = "edit"   -> "editor"
                   [] command = "deploy" -> "ship"
                   [] OTHER              -> "keygen"

Behind(command) == CASE command = "edit" -> "encrypt"
                     [] OTHER            -> "publish"

\* mkdtemp in the first of the two directories that is usable.
OpenDirectory(t) ==
  /\ At(t, RamCommands, "ram") /\ ~Given("macos")
  /\ ram' = [ram EXCEPT ![t] = [NoRam EXCEPT !.secret = TRUE]]
  /\ Go(t, Body(run[t].command))

AttachDisk(t) ==
  /\ At(t, RamCommands, "ram") /\ Given("macos")
  /\ ram' = [ram EXCEPT ![t] = [NoRam EXCEPT !.disk = TRUE]]
  /\ Go(t, "format")

\* There is no RAM to be had, and no other place will do; an answer of hdiutil
\* that cannot be read leaves an empty disk.
NoRamToBeHad(t) ==
  /\ At(t, RamCommands, "ram") /\ Happens("fail")
  /\ \E attached \in {FALSE, Given("macos")} :
        ram' = [ram EXCEPT ![t] = [NoRam EXCEPT !.disk = attached]]
  /\ Return(t)

\* diskutil eraseVolume, info, enableOwnership, and mkdtemp: the directory is
\* there for the sake of what the command now writes to it.
Format(t) ==
  /\ At(t, RamCommands, "format")
  /\ ram' = [ram EXCEPT ![t].secret = TRUE]
  /\ Go(t, Body(run[t].command))

\* One of the tools fails, or says nothing of a mount point.
FormatFails(t) ==
  /\ At(t, RamCommands, "format") /\ Happens("fail")
  /\ ram' = [ram EXCEPT ![t].raising = TRUE]
  /\ Go(t, "detach")

\* A mutant: a wipe that is not in a finally.
LeaveRamInSuccess(t, raising) ==
  /\ ram' = [ram EXCEPT ![t].raising = raising]
  /\ IF raising THEN Return(t) ELSE Go(t, "wipe")

\* The command's work in the directory ends, or raises.
LeaveRam(t, raising) ==
  /\ ram' = [ram EXCEPT ![t].raising = raising]
  /\ Go(t, "wipe")

Onward(t) ==
  IF ram[t].raising \/ run[t].command = "deploy" THEN Return(t) ELSE Go(t, Behind(run[t].command))

\* _wipe in the finally: zeros, then rmtree.
Wipe(t) ==
  /\ At(t, RamCommands, "wipe")
  /\ ram' = [ram EXCEPT ![t].secret = FALSE]
  /\ IF ram[t].disk THEN Go(t, "detach") ELSE Onward(t)

\* hdiutil detach, and with -force if that fails; a disk that cannot be
\* detached is warned about and left.
Detach(t) ==
  /\ At(t, RamCommands, "detach")
  /\ \E left \in {FALSE} \cup (IF Happens("fail") THEN {TRUE} ELSE {}) :
        ram' = [ram EXCEPT ![t].disk = left]
  /\ Onward(t)

RamStep(t) ==
  \/ OpenDirectory(t) \/ AttachDisk(t) \/ NoRamToBeHad(t)
  \/ Format(t) \/ FormatFails(t) \/ Wipe(t) \/ Detach(t)

\* What a command took out of its memory it has wiped when it ends, whether
\* it succeeded, failed or was interrupted, on Linux and on macOS (ramdir.py);
\* only a process killed outright leaves something behind.
NothingLeftBehind ==
  \A t \in Terminals : Prompt(t) /\ Free({"kill"}) => ~ram[t].secret

=============================================================================
