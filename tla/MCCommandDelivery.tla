--------------------------- MODULE MCCommandDelivery ---------------------------
(* Commands that switch one light on and off in turn.                      *)
EXTENDS CommandDelivery

CONSTANT lamp

MCLight   == {lamp}
MCLightOf == [c \in Command |-> lamp]
MCGoalOf  == [c \in Command |-> IF c % 2 = 1 THEN "on" ELSE "off"]
=============================================================================
