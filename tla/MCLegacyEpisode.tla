---------------------------- MODULE MCLegacyEpisode ----------------------------
(***************************************************************************)
(* A game of two random seeds.  A field and a hall with a sword; the field *)
(* offers a way out that is blocked.  Under the other seed the sword is    *)
(* not there to be taken: taking it ends the game, and the emulator raises *)
(* on whatever is typed after that.                                        *)
(***************************************************************************)
EXTENDS LegacyEpisode

MCWorlds == {"field", "hall", "armed", "home", "field2", "hall2", "dead2"}
MCActions == {"in", "out", "take"}
MCStarts == {"field", "field2"}
MCNext == [field |-> [in |-> "hall", out |-> "field", take |-> "field"],
           hall |-> [in |-> "hall", out |-> "field", take |-> "armed"],
           armed |-> [in |-> "armed", out |-> "home", take |-> "armed"],
           home |-> [in |-> "armed", out |-> "home", take |-> "home"],
           field2 |-> [in |-> "hall2", out |-> "field2", take |-> "field2"],
           hall2 |-> [in |-> "hall2", out |-> "field2", take |-> "dead2"],
           dead2 |-> [in |-> "dead2", out |-> "dead2", take |-> "dead2"]]
MCMove == [m \in MCWorlds \X MCActions |-> MCNext[m[1]][m[2]]]
MCRaises == {"dead2"} \X MCActions
MCObservation == [w \in MCWorlds |->
  CASE w \in {"field", "field2"} -> "A field."
    [] w \in {"hall", "hall2"} -> "A hall."
    [] w = "armed" -> "A hall, bare."
    [] w = "home" -> "A field, with a sword."
    [] w = "dead2" -> "You die."]
MCInventory == [w \in MCWorlds |-> IF w \in {"armed", "home"} THEN "a sword" ELSE "empty"]
MCScore == [w \in MCWorlds |-> IF w = "home" THEN 2 ELSE IF w = "armed" THEN 1 ELSE 0]
MCTerminal == [w \in MCWorlds |-> w = "dead2"]

MCValid == [w \in MCWorlds |->
  CASE w \in {"field", "field2"} -> {"in", "out"}
    [] w \in {"hall", "hall2"} -> {"out", "take"}
    [] w = "armed" -> {"out"}
    [] w = "home" -> {"in"}
    [] w = "dead2" -> {}]
MCMovement == {"in", "out"}
MCInverses == {<<"in", "out">>, <<"out", "in">>}
MCTargets == [a \in MCActions |-> IF a = "take" THEN {"sword"} ELSE {}]
MCNouns == [w \in MCWorlds |->
  CASE w \in {"field", "field2"} -> {"field", "house"}
    [] w \in {"hall", "hall2"} -> {"hall"}
    [] w = "armed" -> {"hall", "sword"}
    [] w = "home" -> {"field", "sword"}
    [] w = "dead2" -> {}]
MCItems == [w \in MCWorlds |-> IF w \in {"armed", "home"} THEN {"sword"} ELSE {}]
MCCluster == [w \in MCWorlds |->
  CASE w \in {"field", "field2", "home"} -> "field"
    [] w \in {"hall", "hall2", "armed"} -> "hall"
    [] w = "dead2" -> "death"]
MCLookalikes == {<<"A hall.", "A hall, bare.">>}
MCHashOrder == [w \in MCWorlds |->
  CASE w = "field" -> 1 [] w = "hall" -> 2 [] w = "armed" -> 3 [] w = "home" -> 4
    [] w = "field2" -> 5 [] w = "hall2" -> 6 [] w = "dead2" -> 7]
\* The field with the sword looks like the field and, for what is carried, like the
\* hall where it was taken, but these two never look alike.
MCSummaryWords == [w \in MCWorlds |->
  CASE w \in {"field", "field2"} -> {"field", "house", "grass", "path"}
    [] w \in {"hall", "hall2"} -> {"hall", "wall", "dust", "dark", "old"}
    [] w = "armed" -> {"hall", "sword", "held", "bright", "sharp"}
    [] w = "home" -> {"field", "house", "grass", "path", "sword", "held", "bright", "sharp"}
    [] w = "dead2" -> {"you", "have", "died", "here"}]
MCHouse == {"house"}
MCTake == {"take"}
Nothing == {}
=============================================================================
