------------------------------ MODULE Commands ------------------------------
(***************************************************************************)
(* The machine stack-base is run from: terminals, each with at most one    *)
(* stack-base process, which goes through the steps of its command         *)
(* (__main__.main).  Nothing orders the processes of two terminals: no     *)
(* command takes a lock on the workstation.                                *)
(*                                                                         *)
(* The modules of single commands extend this one; Workstation puts them   *)
(* together.  A behaviour uses the commands of one of Scenarios in the     *)
(* terminals of that scenario, under the conditions that it names: "kill"  *)
(* and "fail", for example, allow processes that end early.                *)
(***************************************************************************)
CONSTANTS Terminals,    \* where commands are typed
          Scenarios     \* [commands |-> what is used, terminals |-> in which,
                        \*  given |-> under which conditions]

ASSUME ScenariosAssumption ==
  \A s \in Scenarios : /\ DOMAIN s = {"commands", "terminals", "given"}
                       /\ s.terminals \subseteq Terminals

VARIABLES scenario,     \* the scenario of this behaviour
          run,          \* run[t]: the command of terminal t and where it is
          calm          \* nothing fails or changes from the outside any more

commandVars == <<scenario, run, calm>>

Idle == [command |-> "none", at |-> "prompt"]
Prompt(t) == run[t] = Idle

Given(condition) == condition \in scenario.given
Free(conditions) == conditions \cap scenario.given = {}
Happens(event) == ~calm /\ Given(event)

\* With two terminals in use, commands can run at once.
Overlapping == \E t, u \in scenario.terminals : t # u

\* Somebody types a command.
Typed(t, command) ==
  /\ command \in scenario.commands /\ t \in scenario.terminals
  /\ Prompt(t)

At(t, commands, step) == run[t].command \in commands /\ run[t].at = step

Enter(t, command, step) ==
  run' = [run EXCEPT ![t] = [command |-> command, at |-> step]]

Go(t, step) == run' = [run EXCEPT ![t].at = step]

Return(t) == run' = [run EXCEPT ![t] = Idle]

CommandsInit ==
  /\ scenario \in Scenarios
  /\ run = [t \in Terminals |-> Idle]
  /\ calm = FALSE

\* A StackError, an OSError or Ctrl-C ends the command where it is.
Raises(t) == Happens("fail") /\ ~Prompt(t)

\* SIGKILL, or the workstation goes down: nothing is cleaned up.
Killed(t) == Happens("kill") /\ ~Prompt(t) /\ Return(t)

=============================================================================
