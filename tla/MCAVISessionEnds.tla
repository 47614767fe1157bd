-------------------------- MODULE MCAVISessionEnds --------------------------
(***************************************************************************)
(* AVISession in two scenes. In "calls" there are two callers of Close and *)
(* a device whose answers may get lost, but no packet comes. In "ends"     *)
(* there is one call of Close, a device that answers as it does once it is *)
(* recording, and a frame and a packet that can be in every place between  *)
(* the socket and the file.                                                *)
(***************************************************************************)
EXTENDS AVISession

CONSTANTS c1, c2

VARIABLE scene

MCInit == Init /\ scene \in {"calls", "ends"}

MCNext ==
  /\ Next
  /\ scene = "calls" => UNCHANGED got
  /\ scene = "ends" => /\ closer'[c2] = "idle" /\ verdict'[c1] = "nil"
                       /\ start = "open" => misled' = misled
  /\ UNCHANGED scene

MCSpec == MCInit /\ [][MCNext]_<<vars, scene>> /\ Fairness
==============================================================================
