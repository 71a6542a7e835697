---------------------------- MODULE MCFrontDesk ----------------------------
(***************************************************************************)
(* A small instance of FrontDesk for TLC: two replicas seed the same       *)
(* administrator and credential, one of them with the gate open; a third   *)
(* one seeds nothing, so that customers may come before the administrator; *)
(* a fourth one's gate is misspelt.  The texts combine what may stand      *)
(* before the point with what may stand behind it.                         *)
(***************************************************************************)
EXTENDS FrontDesk

ToLower == ("ana" :> "ana") @@ ("chefe" :> "chefe") @@ ("Chefe" :> "chefe")

Environments ==
  (1 :> [admin |-> "chefe", client |-> "liquida", gate |-> ""]) @@
  (2 :> [admin |-> "chefe", client |-> "liquida", gate |-> "true"]) @@
  (3 :> [admin |-> None, client |-> None, gate |-> "false"]) @@
  (4 :> [admin |-> "Chefe", client |-> None, gate |-> "perhaps"])

Whole == {<<>>, <<"1">>, <<"2", "0">>, <<"9", "9", "9">>}
Behind == {<<>>, <<".">>, <<".", "5">>, <<".", "0", "5">>, <<".", "9", "9">>, <<".", "+", "5">>,
           <<".", "-", "5">>, <<".", "-">>, <<".", "1", "2", "5">>}
AmountTexts == {w \o b : w \in Whole, b \in Behind} \cup
  {<<" ", "1", " ">>, <<"1", " ", "5">>, <<"0">>, <<"+", "1">>, <<"1", ".", "5", ".">>, <<"5", "0", "5", "9">>}
=============================================================================
