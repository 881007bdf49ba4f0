---------------------------- MODULE DemoConsole ----------------------------
(***************************************************************************)
(* The demo console's entry point (apps/demo-console, main.tsx): the page  *)
(* is the live console, or the simulation when the address asks for it,    *)
(* and stays what it is.                                                   *)
(***************************************************************************)
EXTENDS SimConsole, LiveConsole

VARIABLE mode

vars == <<mode, simVars, liveVars>>

Init ==
  /\ SimInit
  /\ LiveInit
  /\ mode \in {"sim", "live"}
  \* The console that is not shown spends nothing.
  /\ mode = "live" => clicks = CHOOSE c \in Clicks : TRUE
  /\ mode = "sim" => pressesLeft = CHOOSE p \in Presses : TRUE

Next ==
  \/ mode = "sim" /\ SimNext /\ UNCHANGED <<mode, liveVars>>
  \/ mode = "live" /\ LiveNext /\ UNCHANGED <<mode, simVars>>

Spec == Init /\ [][Next]_vars

-----------------------------------------------------------------------------
(* Properties.                                                             *)

\* The state of both consoles.
TypeOK == SimTypeOK /\ LiveTypeOK

=============================================================================
