----------------------------- MODULE MCGlowEpisode -----------------------------
(***************************************************************************)
(* A deterministic game: a hall on the way from a field to a vault, whose  *)
(* loot makes the inventory longer than its summary, and a pit at the      *)
(* field.  The hall and the vault score; leaving the vault loses points.   *)
(***************************************************************************)
EXTENDS GlowEpisode

MCWorlds == {"field", "hall", "vault", "pit"}
MCActions == {"in", "out"}
MCMap == [field |-> [in |-> "hall", out |-> "pit"],
          hall |-> [in |-> "vault", out |-> "field"],
          vault |-> [in |-> "vault", out |-> "hall"],
          pit |-> [in |-> "pit", out |-> "pit"]]
MCMove == [m \in MCWorlds \X MCActions |-> MCMap[m[1]][m[2]]]
MCObservation == [w \in MCWorlds |-> w]
MCInventory == [w \in MCWorlds |-> IF w = "vault" THEN "all the loot" ELSE "nothing"]
MCScore == [field |-> 0, hall |-> 1, vault |-> 3, pit |-> 0]
MCTerminal == [w \in MCWorlds |-> w = "pit"]
MCStateId == [w \in MCWorlds |-> w]
MCSummary == [text \in MCWorlds \cup {"all the loot", "nothing"} |->
                IF text = "all the loot" THEN "all the..." ELSE text]

\* The defaults of the configuration, in ten-thousandths.
MCWeights == [achieved |-> 10000, potential |-> 15000, direct |-> 10000, supporting |-> 7500,
              source |-> 3500, native |-> 2000, selection |-> 2500, visit |-> 1000,
              barren |-> 12500, fruitless |-> 5000, saturation |-> 7500]

\* An answer that names an unknown state, promises less than it says was achieved,
\* and cites states and trajectories that the model was not shown.
MCAnswers ==
  {{[critical |-> "hall", supporting |-> {"vault", "attic"}, sources |-> {<<1, 1, 1>>, <<9, 9, 9>>},
     achieved |-> 2, potential |-> 1],
    [critical |-> "attic", supporting |-> {"pit"}, sources |-> {}, achieved |-> 0, potential |-> 4]}}

FreshIds == [r \in 1..MaxRuns |-> r]
OneId == [r \in 1..MaxRuns |-> 1]
=============================================================================
