---------------------------------- MODULE MCWorld ----------------------------------
(* A small instance of World for TLC. *)
EXTENDS World, TLC

LastingTypes == [lit |-> 8, ember |-> 7, ash |-> 6, out |-> 0, plain |-> 0]

\* One who sees nothing hidden, one who senses the invisible, and a gamemaster.
SensesOf == [w1 |-> {}, w2 |-> {"rat"}, w3 |-> {"rat", "ghost"}]

\* Two players, the summons of one of them and a monster.
Fighting == {"a", "b1", "b2", "v", "w"}
MasterOf == [c \in Fighting |-> IF c \in {"b1", "b2"} THEN "a" ELSE None]
WhoStrikesWhom == {<<"a", "v">>, <<"a", "w">>, <<"b1", "w">>, <<"b2", "w">>}
WhoFights == {{"a", "v"}, {"a", "b1", "b2", "w"}}

Spellbook == <<[speed |-> 1, range |-> 1, melee |-> TRUE], [speed |-> 2, range |-> 0, melee |-> FALSE],
               [speed |-> 3, range |-> 0, melee |-> FALSE]>>
SummonsOfKind == [k \in {"rat"} |-> 1]

StepField == ((0..3) \X (0..3)) \ {<<1, 2>>}
StepDim == {<<<<0, 0>>, <<2, 1>>>>, <<<<2, 1>>, <<0, 0>>>>}
StepStands == {<<0, 0>>, <<3, 3>>}
StepClutter == {<<2, 1>>, <<0, 1>>}

PathGround == ((0..3) \X (0..3)) \ {<<1, 3>>}
PathRoof == {<<0, 0>>, <<1, 0>>, <<2, 2>>}
PathCrowded == {<<2, 1>>}
PathDoorways == {<<1, 0>>, <<1, 1>>, <<1, 2>>, <<2, 2>>}
Asks(full, clear, diagonal, keep, search0, min, max) ==
    [fullPathSearch |-> full, clearSight |-> clear, allowDiagonal |-> diagonal, keepDistance |-> keep,
     maxSearchDist |-> search0, minTargetDist |-> min, maxTargetDist |-> max]
PathSearches ==
    {[from |-> <<0, 0>>, to |-> <<3, 2>>, fpp |-> Asks(TRUE, TRUE, TRUE, FALSE, 0, 0, 1)],
     [from |-> <<0, 1>>, to |-> <<2, 2>>, fpp |-> Asks(FALSE, TRUE, TRUE, FALSE, 2, 1, 1)],
     [from |-> <<1, 1>>, to |-> <<1, 2>>, fpp |-> Asks(FALSE, FALSE, TRUE, TRUE, 3, 1, 3)],
     [from |-> <<0, 2>>, to |-> <<3, 3>>, fpp |-> Asks(TRUE, TRUE, FALSE, FALSE, 0, 0, 0)],
     [from |-> <<0, 2>>, to |-> <<0, 0>>, fpp |-> Asks(FALSE, TRUE, TRUE, FALSE, 3, 1, 3)]}

CacheTiles == ((0..2) \X (0..2)) \cup {<<3, 1>>}
CacheDoorways == {<<1, 1>>, <<2, 0>>}
CacheStands == {<<1, 2>>, <<2, 0>>}
=============================================================================
