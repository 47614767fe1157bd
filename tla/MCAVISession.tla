---------------------------- MODULE MCAVISession ----------------------------
(***************************************************************************)
(* AVISession with small bounds. A first caller of Close comes at any      *)
(* time, a second one, as a deferred Close does, when everything the       *)
(* session started has ended. (Two calls at any time: MCAVISessionEnds.)   *)
(***************************************************************************)
EXTENDS AVISession

CONSTANTS c1, c2

MCNext ==
  \/ Starter \/ Mux \/ CancelParent \/ Over
  \/ \E k \in Kind : Receive(k) \/ Receiver(k) \/ Transfer(k) \/ Watcher(k) \/ Copier(k)
  \/ \E c \in Closer : \/ (c = c2 => Released) /\ CallClose(c)
                       \/ Closing(c)

MCSpec == Init /\ [][MCNext]_vars
=============================================================================
