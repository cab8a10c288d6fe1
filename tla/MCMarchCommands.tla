--------------------------- MODULE MCMarchCommands ---------------------------
(* MarchCommands for TLC: a batch, and a command of its own beside it that   *)
(* may ask for the same monster.                                             *)
EXTENDS MarchCommands, TLC

CONSTANTS m1, m2, hero1, rescue1, batch, single

TheirLists ==
  {batch :> <<m1, m2>> @@ single :> <<>>,
   batch :> <<m1>> @@ single :> <<m1>>,
   batch :> <<hero1, rescue1>> @@ single :> <<hero1>>}
=============================================================================
