------------------------------- MODULE MCTsa --------------------------------
(***************************************************************************)
(* Values of the constants of Tsa for TLC.  Slot 0 is a day at whose end a *)
(* leap second is due, slot 1 its last minute, the others the next day.    *)
(***************************************************************************)
EXTENDS Tsa, TLC

CONSTANT h1

Days == <<1, 1, 2>>
DayOfSlot == [s \in 0 .. 2 |-> Days[s + 1]]
BeforeMidnight == {1}
Errors == {0, 2}
Lies == {-1}
SecondServer == {2}
=============================================================================
