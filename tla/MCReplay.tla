------------------------------- MODULE MCReplay -------------------------------
(***************************************************************************)
(* A game of two random seeds.  Both begin in a field.  Walking looks the  *)
(* same under either.  A fight is won in the hall under the seed of the    *)
(* episode; under the other it is lost everywhere, and the emulator raises *)
(* on whatever is typed after the end.                                     *)
(***************************************************************************)
EXTENDS Replay

MCWorlds == {"field", "hall", "won", "field2", "hall2", "dead2"}
MCActions == {"go", "fight"}
MCStarts == {"field", "field2"}
MCNext == [field |-> [go |-> "hall", fight |-> "field"],
           hall |-> [go |-> "field", fight |-> "won"],
           won |-> [go |-> "field", fight |-> "won"],
           field2 |-> [go |-> "hall2", fight |-> "dead2"],
           hall2 |-> [go |-> "field2", fight |-> "dead2"],
           dead2 |-> [go |-> "dead2", fight |-> "dead2"]]
MCMove == [m \in MCWorlds \X MCActions |-> MCNext[m[1]][m[2]]]
MCRaises == {<<"dead2", "go">>, <<"dead2", "fight">>}
MCObservation == [w \in MCWorlds |->
  CASE w \in {"field", "field2"} -> "A field."
    [] w \in {"hall", "hall2"} -> "A hall."
    [] w = "won" -> "It falls."
    [] w = "dead2" -> "You die."]
MCInventory == [w \in MCWorlds |-> IF w = "won" THEN "a sword" ELSE "Inventory empty."]
MCScore == [w \in MCWorlds |-> IF w = "won" THEN 1 ELSE 0]
MCTerminal == [w \in MCWorlds |-> w = "dead2"]
=============================================================================
