--------------------------------- MODULE MCClients ---------------------------------
(* A small instance of Clients for TLC. *)
EXTENDS Clients, TLC

PartSymmetry == Permutations(Stacks) \cup Permutations(Containers)

ViewSteps == {<<1, 1, 1>>, <<1, 2, 1>>, <<2, 1, 1>>, <<2, 2, 1>>, <<1, 1, 3>>}
ViewSpots == {<<1, 1, 1>>, <<3, 3, 1>>, <<2, 2, 3>>}

Attributes ==
    {<<"actionid", <<5>>>>, <<"text", <<3>>>>, <<"duration", <<-1>>>>, <<"decaystate", <<1>>>>,
     <<"attackspeed", <<50>>>>, <<"armor", <<-2>>>>, <<"custom", <<1, 2, 7, 2, 4, 1>>>>,
     <<"custom", <<1, 1, 4>>>>, <<"storeitem", <<1>>>>, <<"charges", <<3>>>>, <<"hitchance", <<-3>>>>}

Ailment(type, id, ticks, constant, members) ==
    [head |-> <<type, id, ticks, 1, 3, 0, constant>>, end |-> IF constant = 1 THEN 9 ELSE 0, mem |-> members]
Suffered ==
    {Ailment(1, 0, 5, 0, <<>>), Ailment(1, 1, 5, 0, <<>>), Ailment(1, -1, -1, 1, <<>>),
     Ailment(2, 0, 4, 0, <<30>>), Ailment(3, 0, 6, 0, <<1, 0, 2, 3>>), Ailment(4, 0, 5, 0, <<1, 2, 3, 4, 5>>),
     Ailment(5, 0, 5, 0, <<7>>), Ailment(6, 0, 5, 0, <<8, 6, 1, 2>>), Ailment(7, -1, 5, 0, <<1, 2, 3, 4, 5, 6>>),
     Ailment(8, 0, 5, 0, <<1, 2>>), Ailment(9, 0, 5, 0, <<1, 2, 3, 4, 5, 6, 7, 8, 1>>)}

Holding(kind, content) == [kind |-> kind, count |-> 1, list |-> <<>>, bits |-> {}, inside |-> content]
Thing(kind) == Holding(kind, <<>>)
With(thing, list) == [thing EXCEPT !.list = list, !.bits = {list[i][1] : i \in DOMAIN list}]
Written(kind) == With(Thing(kind), <<<<"text", <<4>>>>>>)
Burning == With(Thing("timed"), <<<<"duration", <<9>>>>>>)
Furnished ==
    [fixtures : {<<>>, <<Thing("wall"), Thing("open")>>,
                 <<With(Thing("bed"), <<<<"sleeper", <<3>>>>, <<"sleepstart", <<8>>>>>>), Written("board")>>,
                 <<Holding("chest", <<Written("plain"), Burning>>)>>, <<Thing("chest"), Thing("bed")>>},
     loose : {<<>>, <<With(Thing("fluid"), <<<<"fluidtype", <<1>>>>>>), Written("plain")>>,
              <<Holding("bag", <<Thing("stack"),
                                 Holding("bag", <<With(Burning, <<<<"duration", <<9>>>>, <<"text", <<4>>>>>>)>>)>>),
                With(Thing("charged"), <<<<"charges", <<1>>>>>>)>>}]

TriesOfLevel == 1 :> 0 @@ 2 :> 2 @@ 3 :> 4 @@ 4 :> 4
ManaOfLevel == 0 :> 0 @@ 1 :> 2 @@ 2 :> 3 @@ 3 :> 3
ExpOfLevel == <<0, 2, 5, 7>>

GearType(on, off, decayTo, bonus, condition, suppresses, level, slots, event, kind) ==
    [on |-> on, off |-> off, decayTo |-> decayTo, bonus |-> bonus, condition |-> condition,
     suppresses |-> suppresses, level |-> level, slots |-> slots, event |-> event, kind |-> kind]
TypesOfGear ==
    LET hands == {"left", "right"} IN
    "wand" :> GearType("lit", None, None, 0, FALSE, {}, 0, hands, TRUE, "plain")
    @@ "lit" :> GearType(None, "wand", Gone, 2, FALSE, {"drunk"}, 0, hands, TRUE, "plain")
    @@ "shield" :> GearType(None, None, None, 3, FALSE, {"drunk"}, 0, hands, TRUE, "plain")
    @@ "urn" :> GearType(None, None, None, 5, FALSE, {}, 0, hands, TRUE, "container")
    @@ "boots" :> GearType("soft", None, None, 0, FALSE, {}, 1, {"feet"}, TRUE, "plain")
    @@ "soft" :> GearType(None, "boots", "worn", 0, TRUE, {"fire"}, 1, {"feet"}, TRUE, "plain")
    @@ "worn" :> GearType(None, None, None, 0, FALSE, {}, 0, {"feet"}, FALSE, "plain")
TypeAtFirst == [i \in Gear |-> CASE i = "g1" -> "wand" [] i = "g2" -> "shield" [] OTHER -> "boots"]
Transforms == {<<"shield", "urn">>, <<"shield", "wand">>, <<"worn", "boots">>}
=============================================================================
