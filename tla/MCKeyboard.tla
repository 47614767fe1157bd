------------------------------ MODULE MCKeyboard ------------------------------
(***************************************************************************)
(* Two calls of Type and one of Press. With a buffer of two cells the      *)
(* first text takes two chunks, the last one not full. The calls are made  *)
(* one after the other, or the first Type and the Press at the same time,  *)
(* with keys pressed on the C64 in between.                                *)
(***************************************************************************)
EXTENDS Keyboard, TLC

CONSTANTS t, u, p

MCText == t :> <<"a", "b", "c">> @@ u :> <<"d">> @@ p :> <<"x">>

InTurn == t :> 1 @@ p :> 2 @@ u :> 3
AtOnce == t :> 1 @@ p :> 1 @@ u :> 0
MCRounds == {InTurn, AtOnce}

\* The user of the C64 presses keys while the calls overlap.
MCNext == Next /\ (round = InTurn => keys' = 0)

MCSpec == Init /\ [][MCNext]_vars /\ Fairness

\* Press alone.
KeyText == p :> <<"x">>
KeyRounds == {p :> 1}
==============================================================================
