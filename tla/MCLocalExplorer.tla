---------------------------- MODULE MCLocalExplorer ---------------------------
(***************************************************************************)
(* A porch where one point has been scored: a lamp to take, a door to open *)
(* or to hit, a yard where gold is buried (digging it up wins the game),   *)
(* and a cellar to jump into.  A world is <<place, door, lamp>>.           *)
(***************************************************************************)
EXTENDS LocalExplorer

MCWorlds == {"porch", "yard"} \X {"shut", "open"} \X {"there", "held"}
            \cup {<<"yard", "shut", "rich">>, <<"yard", "open", "rich">>, <<"cellar", "shut", "there">>}
MCActions == {"open", "take", "go", "back", "dig", "hit", "jump", "wait", "in", "up"}
MCNameOrder ==
  LET names == <<"back", "dig", "go", "hit", "in", "jump", "open", "take", "up", "wait">>
  IN  [a \in MCActions |-> CHOOSE i \in DOMAIN names : names[i] = a]
MCRoot == <<"porch", "shut", "there">>
MCStarts == {MCRoot}

At1(w, place) == <<place, w[2], w[3]>>
MCMove == [m \in MCWorlds \X MCActions |->
  LET w == m[1] a == m[2] porch == w[1] = "porch" yard == w[1] = "yard" /\ w[3] # "rich"
  IN  CASE porch /\ a = "open" -> <<"porch", "open", w[3]>>
        [] porch /\ a = "take" -> <<"porch", w[2], "held">>
        [] porch /\ a = "go" -> At1(w, "yard")
        [] w = MCRoot /\ a = "jump" -> At1(w, "cellar")
        [] yard /\ a = "back" -> At1(w, "porch")
        [] yard /\ a = "dig" -> <<"yard", w[2], "rich">>
        [] OTHER -> w]
MCProposals == [w \in MCWorlds |->
  CASE w = MCRoot -> {"open", "take", "go", "hit", "jump"}
    [] w = <<"porch", "open", "there">> -> {"take", "wait"}
    [] w = <<"porch", "shut", "held">> -> {"open", "go"}
    [] w[1] = "yard" -> {"back", "dig"} \ (IF w[3] = "held" THEN {"back"} ELSE {})
    [] OTHER -> {}]
MCScore == [w \in MCWorlds |-> IF w[3] = "rich" THEN 2 ELSE 1]
MCTerminal == [w \in MCWorlds |-> w[3] = "rich"]
MCObservation == [w \in MCWorlds |-> IF w[1] = "porch" THEN <<w[1], w[2]>> ELSE <<w[1], w[3] = "rich">>]
MCLocations == {<<"yard", FALSE>>, <<"yard", TRUE>>, <<"cellar", FALSE>>}
MCInventory == [w \in MCWorlds |-> w[3]]
MCItems == [w \in MCWorlds |->
  CASE w[3] = "held" -> {"lamp"} [] w[3] = "rich" -> {"gold"} [] OTHER -> {}]
MCNouns == [w \in MCWorlds |->
  {w[1]} \cup MCItems[w] \cup (IF w[1] = "porch" /\ w[2] = "open" THEN {"hallway"} ELSE {})]
MCValid == [w \in MCWorlds |->
  CASE w[1] = "porch" -> {"open", "hit", "go"} \cup (IF w[2] = "open" THEN {"in"} ELSE {})
                         \cup (IF w[3] = "there" THEN {"take"} ELSE {})
    [] w[1] = "yard" -> {"back", "dig"}
    [] OTHER -> {"up"}]
MCMovement == {"go", "back", "jump", "in", "up"}
MCInverses == {<<"go", "back">>, <<"back", "go">>}
MCTargets == [a \in MCActions |->
  CASE a \in {"open", "hit"} -> {"door"} [] a = "take" -> {"lamp"} [] a = "dig" -> {"gold"}
    [] OTHER -> {}]
MCCluster == [w \in MCWorlds |-> w[1]]
MCAnswers == {[hint |-> << [prefer |-> {"take"}, avoid |-> {"hit"}, points |-> BagOf(<<"take">>)] >>,
               subgoals |-> {"dig"}, objects |-> {"lamp"}]}
MCAggressive == {"hit"}
MCBestKnown == {1, 2}
Nothing == {}
=============================================================================
