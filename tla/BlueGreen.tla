------------------------------- MODULE BlueGreen -------------------------------
(***************************************************************************)
(* What the release engine promises about traffic, whatever fails: the     *)
(* contract the comments of activate_color and resolve_pending_color       *)
(* state, without links, generations, locks or timers.                     *)
(*                                                                         *)
(*   - traffic moves only to a running color that was announced first, or  *)
(*     back to the recorded color;                                         *)
(*   - the record follows the traffic, never the other way round;          *)
(*   - only an idle or an announced color is ever stopped.                 *)
(***************************************************************************)
CONSTANTS Colors, NoColor

VARIABLES
  recorded,  \* the color a reboot would serve
  live,      \* the color traffic goes to
  intent,    \* the color a swap was announced to
  up         \* the colors whose instance is running

vars == <<recorded, live, intent, up>>

Init ==
  /\ recorded = NoColor
  /\ live = NoColor
  /\ intent = NoColor
  /\ up = {}

Start(c) ==
  /\ c \notin up
  /\ up' = up \cup {c}
  /\ UNCHANGED <<recorded, live, intent>>

Stop(c) ==
  /\ c \in up
  /\ c # recorded \/ c = intent
  /\ up' = up \ {c}
  /\ UNCHANGED <<recorded, live, intent>>

Announce(c) ==
  /\ c \in up
  /\ c # recorded
  /\ intent' = c
  /\ UNCHANGED <<recorded, live, up>>

Switch ==
  /\ intent \in up
  /\ live' = intent
  /\ UNCHANGED <<recorded, intent, up>>

Record ==
  /\ intent # NoColor
  /\ live = intent
  /\ recorded' = intent
  /\ UNCHANGED <<live, intent, up>>

\* The swap is over: recorded, or given up.
Close ==
  /\ intent # NoColor
  /\ intent' = NoColor
  /\ UNCHANGED <<recorded, live, up>>

\* Traffic is put back on the recorded color when no swap is open.
Restore ==
  /\ intent = NoColor
  /\ recorded # NoColor
  /\ live' = recorded
  /\ UNCHANGED <<recorded, intent, up>>

\* A power loss takes the routing and the instances, never the record.
PowerLoss ==
  /\ live' = NoColor
  /\ up' = {}
  /\ UNCHANGED <<recorded, intent>>

Next ==
  \/ \E c \in Colors : Start(c) \/ Stop(c) \/ Announce(c)
  \/ Switch \/ Record \/ Close \/ Restore \/ PowerLoss

Spec == Init /\ [][Next]_vars

===============================================================================
