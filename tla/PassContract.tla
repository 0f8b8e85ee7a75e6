---------------------------- MODULE PassContract ----------------------------
(***************************************************************************)
(* What the Vulkan pass registry promises the module that owns a callback  *)
(* (GTA_SA_COMPAT.md:26-31): a callback only runs while its pass is live,  *)
(* one callback runs at a time, no pass stops being live while its own     *)
(* callback runs, and a pass that was unregistered, failed or went with    *)
(* its device never runs again.                                            *)
(***************************************************************************)
CONSTANTS Token, NoPass

VARIABLES
  live,    \* passes whose callback may run
  running, \* the pass whose callback runs, or NoPass
  retired  \* passes that were live and must never run again

vars == <<live, running, retired>>

Init == live = {} /\ running = NoPass /\ retired = {}

Add(t) ==
  /\ t \notin live \cup retired
  /\ live' = live \cup {t}
  /\ UNCHANGED <<running, retired>>

\* Unregistration of one pass, or of all of them with the device: the caller
\* may unload the callbacks' code afterwards.
Remove(gone) ==
  /\ running = NoPass
  /\ gone \subseteq live
  /\ live' = live \ gone
  /\ retired' = retired \cup gone
  /\ UNCHANGED running

Run(t) ==
  /\ running = NoPass
  /\ t \in live
  /\ running' = t
  /\ UNCHANGED <<live, retired>>

Finish ==
  /\ running # NoPass
  /\ running' = NoPass
  /\ UNCHANGED <<live, retired>>

\* A callback that fails is disabled for good.
Fail ==
  /\ running # NoPass
  /\ running' = NoPass
  /\ live' = live \ {running}
  /\ retired' = retired \cup {running}

Next ==
  \/ \E t \in Token : Add(t) \/ Run(t)
  \/ \E gone \in SUBSET Token : Remove(gone)
  \/ Finish
  \/ Fail

Spec == Init /\ [][Next]_vars

=============================================================================
