---------------------------- MODULE Serialization ----------------------------
(***************************************************************************)
(* The byte streams in which items and conditions are kept in the database *)
(* (fileloader.h, Item::serializeAttr and readAttr, condition.cpp,         *)
(* iomapserialize.cpp).  A writer and a reader have to agree on the code   *)
(* and the width of every member, for the streams name no lengths: one     *)
(* byte too many, and what follows is read as something else.              *)
(*                                                                         *)
(* One of three things is looked at in a behaviour: an item of a player,   *)
(* the conditions of a player, or what lies on the tile of a house.  kept  *)
(* is what was in memory when it was saved.                                *)
(***************************************************************************)
EXTENDS Integers, SequencesExt

CONSTANTS Scripted,    \* the attributes that scripts set, with the value: <<attribute, value>>
          Kinds,       \* of the item
          MaxAttrs,    \* bound on the attributes of an item
          Ailments,    \* the conditions that may be given to a player
          MaxAilments, \* bound on those it has at once
          Furniture,   \* what may be done to a tile: [fixtures, loose]
          None

VARIABLES item, conds, tile,   \* in memory; None when there is none
          saved,               \* in the database
          kept                 \* what was saved, while it is not changed

serializationVars == <<item, conds, tile, saved, kept>>

-----------------------------------------------------------------------------
(* PropWriteStream and PropStream                                          *)

RECURSIVE Bytes(_, _)
Bytes(w, n) == IF w = 0 THEN <<>> ELSE <<n % 256>> \o Bytes(w - 1, n \div 256)

\* The bytes as a number, signed or not.
Number(bs, signed) ==
    LET top == Last(bs) - (IF signed /\ Last(bs) >= 128 THEN 256 ELSE 0)
    IN  FoldRight(LAMBDA b, acc : acc * 256 + b, Front(bs), top)

\* PropStream::read: st is what is left.
Read(st, w, signed) ==
    IF Len(st) < w THEN [ok |-> FALSE, n |-> 0, rest |-> st]
    ELSE [ok |-> TRUE, n |-> Number(SubSeq(st, 1, w), signed), rest |-> SubSeq(st, w + 1, Len(st))]

Skip(st, w) == IF Len(st) < w THEN [ok |-> FALSE, rest |-> st] ELSE [ok |-> TRUE, rest |-> SubSeq(st, w + 1, Len(st))]

\* A text is a number here, and its length is 1.
WriteString(t) == Bytes(2, 1) \o <<t>>

OfLength(size) == IF size.n # 1 THEN [size EXCEPT !.ok = FALSE] ELSE Read(size.rest, 1, FALSE)
ReadString(st) == OfLength(Read(st, 2, FALSE))

-----------------------------------------------------------------------------
(* The attributes of an item: a list, and the bits that say what is in it. *)

\* kind: of the type, list: of <<attribute, value>>, inside: what a container holds
Bare(kind) == [kind |-> kind, count |-> 1, list |-> <<>>, bits |-> {}, inside |-> <<>>]

\* ItemAttributes::getIntAttr and getStrAttr
GetAttr(it, a) ==
    IF a \notin it.bits THEN <<0>> ELSE it.list[CHOOSE i \in DOMAIN it.list : it.list[i][1] = a][2]

\* ItemAttributes::getAttr and setIntAttr
SetAttr(it, a, v) ==
    LET w == IF a = "attackspeed" /\ v[1] < 100 THEN <<100>> ELSE v
    IN  IF a \in it.bits THEN [it EXCEPT !.list = [i \in DOMAIN @ |-> IF @[i][1] = a THEN <<a, w>> ELSE @[i]]]
        ELSE [it EXCEPT !.list = Append(@, <<a, w>>), !.bits = @ \cup {a}]

\* ItemAttributes::removeAttribute moves the last one into the gap.
RemoveAttr(it, a) ==
    IF a \notin it.bits THEN it
    ELSE LET n == Len(it.list)
             i == CHOOSE j \in 1..n : it.list[j][1] = a
         IN  [it EXCEPT !.bits = @ \ {a}, !.list = Front([it.list EXCEPT ![i] = it.list[n]])]

\* The types: what their flags are.
StackKinds == {"stack"}   Fluids == {"fluid"}   Charged == {"charged"}   Timed == {"timed"}
ContainerKinds == {"bag", "chest"}
Fixtures == {"closed", "open", "bed", "chest", "board", "wall"}   \* not moveable
DefaultCharges == 2
DefaultDuration == 9

\* Item::Item, of a type, with a count.
CreateItem(kind, count) ==
    LET it == Bare(kind)
        counted == IF kind \in Fluids THEN SetAttr(it, "fluidtype", <<count>>)
                   ELSE IF kind \in StackKinds THEN (IF count # 0 THEN [it EXCEPT !.count = count] ELSE it)
                   ELSE IF kind \in Charged THEN SetAttr(it, "charges", <<IF count # 0 THEN count ELSE DefaultCharges>>)
                   ELSE it
    IN  IF kind \in Timed THEN SetAttr(counted, "duration", <<DefaultDuration>>) ELSE counted

\* Item::getSubType
SubType(it) ==
    IF it.kind \in Fluids THEN GetAttr(it, "fluidtype")[1]
    ELSE IF it.kind \in Charged THEN GetAttr(it, "charges")[1]
    ELSE it.count

\* Item::setSubType
SetSubType(it, n) ==
    IF it.kind \in Fluids THEN SetAttr(it, "fluidtype", <<n>>)
    ELSE IF it.kind \in Charged THEN SetAttr(it, "charges", <<n>>)
    ELSE [it EXCEPT !.count = n]

-----------------------------------------------------------------------------
(* Item::serializeAttr and Item::readAttr                                  *)

\* CustomAttribute::serialize: values are triples of a key, the alternative of the variant and the value.
CustomWidth(which) == IF which = 4 THEN 1 ELSE 8

CustomBytes(entry) ==
    WriteString(entry[1]) \o <<entry[2]>>
    \o (IF entry[2] = 1 THEN WriteString(entry[3]) ELSE Bytes(CustomWidth(entry[2]), entry[3]))

Entries(v) == [i \in 1..(Len(v) \div 3) |-> SubSeq(v, 3 * i - 2, 3 * i)]

\* A value as the writer puts it: t text, c custom attributes, else the width.
Encode(as, v) ==
    CASE as = "t" -> WriteString(v[1])
      [] as = "c" -> Bytes(8, Len(Entries(v))) \o FlattenSeq([i \in DOMAIN Entries(v) |-> CustomBytes(Entries(v)[i])])
      [] as \in {"u1", "i1"} -> Bytes(1, v[1])
      [] as = "u2" -> Bytes(2, v[1])
      [] as \in {"u4", "i4"} -> Bytes(4, v[1])

\* Item::serializeAttr, in its order: the attribute, its code, and how it is written.
Written == <<
    <<"charges", 22, "u2">>, <<"actionid", 4, "u2">>, <<"text", 6, "t">>, <<"date", 18, "u4">>,
    <<"writer", 19, "t">>, <<"description", 7, "t">>, <<"duration", 16, "u4">>, <<"decaystate", 17, "u1">>,
    <<"name", 24, "t">>, <<"article", 25, "t">>, <<"pluralname", 26, "t">>, <<"weight", 27, "u4">>,
    <<"attack", 28, "i4">>, <<"attackspeed", 38, "u4">>, <<"defense", 29, "i4">>, <<"extradefense", 30, "i4">>,
    <<"armor", 31, "i4">>, <<"hitchance", 32, "i1">>, <<"shootrange", 33, "u1">>, <<"decayto", 35, "i4">>,
    <<"custom", 34, "c">> >>

\* Those that are left out when they are zero, whatever the bits say.
UnlessZero == {"charges", "actionid", "text", "date", "writer", "description", "decaystate"}

Writes(it, a) ==
    /\ a \in it.bits
    /\ a \in UnlessZero => GetAttr(it, a) # <<0>>
    /\ a = "actionid" => it.kind \notin Fixtures

\* BedItem::serializeAttr: only who sleeps there, and since when.
BedBytes(it) ==
    (IF "sleeper" \in it.bits THEN <<20>> \o Bytes(4, GetAttr(it, "sleeper")[1]) ELSE <<>>)
    \o (IF "sleepstart" \in it.bits THEN <<21>> \o Bytes(4, GetAttr(it, "sleepstart")[1]) ELSE <<>>)

SerializeAttr(it) ==
    IF it.kind = "bed" THEN BedBytes(it)
    ELSE IF it.kind \in {"closed", "open"} THEN <<>>
    ELSE (IF it.kind \in StackKinds \cup Fluids THEN <<15>> \o Bytes(1, SubType(it)) ELSE <<>>)
         \o FlattenSeq([i \in DOMAIN Written |->
                IF Writes(it, Written[i][1]) THEN <<Written[i][2]>> \o Encode(Written[i][3], GetAttr(it, Written[i][1]))
                ELSE <<>>])

\* Item::readAttr: what a code stands for, and how it is read.
ReadFirst ==
    4 :> <<"actionid", "u2">> @@ 5 :> <<"uniqueid", "u2">> @@ 6 :> <<"text", "t">> @@ 18 :> <<"date", "u4">>
    @@ 19 :> <<"writer", "t">> @@ 7 :> <<"description", "t">> @@ 16 :> <<"duration", "i4">> @@ 17 :> <<"decaystate", "u1">>

ReadNames == 24 :> <<"name", "t">> @@ 25 :> <<"article", "t">> @@ 26 :> <<"pluralname", "t">>

ReadNumbers ==
    27 :> <<"weight", "u4">> @@ 28 :> <<"attack", "i4">> @@ 38 :> <<"attackspeed", "u4">> @@ 29 :> <<"defense", "i4">>
    @@ 30 :> <<"extradefense", "i4">> @@ 31 :> <<"armor", "i4">> @@ 32 :> <<"hitchance", "i1">>
    @@ 33 :> <<"shootrange", "u1">> @@ 35 :> <<"decayto", "i4">> @@ 36 :> <<"wrapid", "u2">>
    @@ 37 :> <<"storeitem", "u1">> @@ 39 :> <<"opencontainer", "u1">>

\* Those of other classes, when the type has changed: their bytes are skipped.
Skipped == 10 :> 2 @@ 14 :> 1 @@ 20 :> 4 @@ 21 :> 4 @@ 40 :> 15 @@ 8 :> 5

ReadAs == ReadFirst @@ ReadNames @@ ReadNumbers

\* A number as it is read.
ReadPlain(as, st) ==
    CASE as = "t" -> ReadString(st)
      [] as = "u1" -> Read(st, 1, FALSE)
      [] as = "i1" -> Read(st, 1, TRUE)
      [] as = "u2" -> Read(st, 2, FALSE)
      [] as = "u4" -> Read(st, 4, FALSE)
      [] as = "i4" -> Read(st, 4, TRUE)

\* CustomAttribute::unserialize, of n entries into v.
RECURSIVE ReadCustom(_, _, _)
CustomValue(key, which, val, n, v) ==
    IF key.ok /\ which.ok /\ which.n \in 1..4 /\ val.ok
    THEN ReadCustom(val.rest, n - 1, v \o <<key.n, which.n, val.n>>)
    ELSE [ok |-> FALSE, v |-> v, rest |-> val.rest]

CustomOf(key, which, n, v) ==
    CustomValue(key, which,
        IF which.n = 1 THEN ReadString(which.rest) ELSE Read(which.rest, CustomWidth(which.n), TRUE), n, v)

CustomKey(key, n, v) == CustomOf(key, Read(key.rest, 1, FALSE), n, v)

ReadCustom(st, n, v) == IF n = 0 THEN [ok |-> TRUE, v |-> v, rest |-> st] ELSE CustomKey(ReadString(st), n, v)

\* BedItem::readAttr, when there is such a player.
ReadBed(it, code, st) ==
    LET r == Read(st, 4, FALSE)
    IN  [ok |-> r.ok, end |-> FALSE, rest |-> r.rest,
         it |-> IF r.n = 0 THEN it ELSE SetAttr(it, IF code = 20 THEN "sleeper" ELSE "sleepstart", <<r.n>>)]

\* What a value becomes: a duration is not negative, and what decayed is pending.
Settled(a, n) ==
    IF a = "duration" /\ n < 0 THEN 0 ELSE IF a = "decaystate" THEN 2 ELSE n

\* The readAttr of its class; end: ATTR_READ_END, with the number of things inside.
ReadAttr(it, code, st) ==
    IF it.kind = "bed" /\ code \in {20, 21} THEN ReadBed(it, code, st)
    ELSE IF it.kind \in ContainerKinds /\ code = 23
    THEN LET r == Read(st, 4, FALSE) IN [ok |-> r.ok, end |-> TRUE, rest |-> r.rest, it |-> it, inside |-> r.n]
    ELSE IF code \in {15, 12, 22}
    THEN LET r == Read(st, IF code = 22 THEN 2 ELSE 1, FALSE)
         IN  [ok |-> r.ok, end |-> FALSE, rest |-> r.rest, it |-> SetSubType(it, r.n)]
    ELSE IF code = 34
    THEN LET size == Read(st, 8, FALSE)
             r == ReadCustom(size.rest, size.n, <<>>)
         IN  [ok |-> size.ok /\ r.ok, end |-> FALSE, rest |-> r.rest,
              it |-> IF size.n = 0 THEN it ELSE SetAttr(it, "custom", r.v)]
    ELSE IF code \in DOMAIN Skipped
    THEN [ok |-> Skip(st, Skipped[code]).ok, end |-> FALSE, rest |-> Skip(st, Skipped[code]).rest, it |-> it]
    ELSE IF code \in DOMAIN ReadAs
    THEN LET r == ReadPlain(ReadAs[code][2], st)
             a == ReadAs[code][1]
         IN  [ok |-> r.ok, end |-> FALSE, rest |-> r.rest,
              it |-> IF a = "decaystate" /\ r.n = 0 THEN it ELSE SetAttr(it, a, <<Settled(a, r.n)>>)]
    ELSE [ok |-> FALSE, end |-> FALSE, rest |-> st, it |-> it]

\* Item::unserializeAttr, up to a zero or the end; serializationCount is left in inside.
RECURSIVE UnserializeAttr(_, _)
AfterAttr(r) ==
    IF ~r.ok THEN [ok |-> FALSE, it |-> r.it, rest |-> r.rest, inside |-> 0]
    ELSE IF r.end THEN [ok |-> TRUE, it |-> r.it, rest |-> r.rest, inside |-> r.inside]
    ELSE UnserializeAttr(r.it, r.rest)

AfterCode(it, code) ==
    IF ~code.ok \/ code.n = 0 THEN [ok |-> TRUE, it |-> it, rest |-> code.rest, inside |-> 0]
    ELSE AfterAttr(ReadAttr(it, code.n, code.rest))

UnserializeAttr(it, st) == AfterCode(it, Read(st, 1, FALSE))

-----------------------------------------------------------------------------
(* Conditions: head is <<type, id, ticks, isBuff, subId, aggressive,       *)
(* constant>> and mem the members of the class, in the order of the class. *)

Types == <<"generic", "drunk", "damage", "speed", "outfit", "light", "regeneration", "soul", "attributes">>

Class(c) == Types[c.head[1]]

HeadCodes == <<1, 2, 3, 26, 27, 28, 34>>
HeadWidths == <<4, 4, 4, 1, 4, 1, 1>>
ENDTIME == 35
END == 254
Outfit == 13   \* bytes of an Outfit_t

\* Condition::isPersistent, and what savePlayer asks besides.
IsSaved(c) == (c.head[3] # -1 /\ c.head[2] \in {-1, 0}) \/ c.head[7] = 1

\* Condition::serialize
SerializeHead(c) ==
    FlattenSeq([i \in 1..7 |-> <<HeadCodes[i]>> \o Bytes(HeadWidths[i], c.head[i])])
    \o (IF c.head[7] = 1 THEN <<ENDTIME>> \o Bytes(8, c.end) ELSE <<>>)

\* serialize of the classes: <<code, width, the member>>.  Of the skills and the like there are two each.
RegenerationMembers == << <<4, 4, 1>>, <<5, 4, 3>>, <<32, 4, 4>>, <<6, 4, 2>>, <<7, 4, 5>>, <<33, 4, 6>> >>
SoulMembers == << <<21, 4, 2>>, <<20, 4, 1>> >>
SpeedMembers == [i \in 1..5 |-> <<10 + i, 4, i>>]
OutfitMembers == << <<24, Outfit, 1>> >>
LightMembers == << <<16, 4, 1>>, <<17, 4, 2>>, <<18, 4, 3>>, <<19, 4, 4>> >>
DamageMembers(mem) == << <<8, 1, 1>>, <<25, 4, 2>> >> \o [i \in 1..(Len(mem) - 2) |-> <<10, 12, i + 2>>]

\* The rates of experience are written under the code of the special skills.
AttributesMembers ==
    << <<22, 4, 1>>, <<22, 4, 2>>, <<23, 4, 5>>, <<23, 4, 6>>, <<29, 1, 9>>,
       <<30, 4, 3>>, <<30, 4, 4>>, <<30, 4, 7>>, <<30, 4, 8>> >>

Members(c) ==
    CASE Class(c) = "regeneration" -> RegenerationMembers
      [] Class(c) = "soul" -> SoulMembers
      [] Class(c) = "speed" -> SpeedMembers
      [] Class(c) = "outfit" -> OutfitMembers
      [] Class(c) = "light" -> LightMembers
      [] Class(c) = "damage" -> DamageMembers(c.mem)
      [] Class(c) = "attributes" -> AttributesMembers
      [] OTHER -> <<>>

Serialize(c) ==
    SerializeHead(c)
    \o FlattenSeq([i \in DOMAIN Members(c) |-> <<Members(c)[i][1]>> \o Bytes(Members(c)[i][2], c.mem[Members(c)[i][3]])])
    \o <<END>>

\* Condition::createCondition of a type: the members at first.  Of damage the ticks are not taken.
NewCondition(head, end) ==
    LET class == Types[head[1]]
    IN  [head |-> IF class = "damage" THEN [head EXCEPT ![3] = 0] ELSE head,
         end |-> end,
         mem |-> CASE class = "drunk" -> <<25>>
                   [] class = "damage" -> <<0, 0>>
                   [] class = "speed" -> <<0, 0, 0, 0, 0>>
                   [] class = "outfit" -> <<0>>
                   [] class = "light" -> <<0, 0, 0, 0>>
                   [] class = "regeneration" -> <<1000, 1000, 0, 0, 0, 0>>
                   [] class = "soul" -> <<0, 0>>
                   [] class = "attributes" -> <<0, 0, 0, 0, 0, 0, 0, 0, 0>>
                   [] OTHER -> <<>>]

\* Condition::createCondition: the head, in exactly this order.
HeadMember(r, i, code) ==
    LET v == Read(code.rest, HeadWidths[i], i <= 3)
    IN  IF r.ok /\ code.ok /\ code.n = HeadCodes[i] /\ v.ok
        THEN [ok |-> TRUE, v |-> Append(r.v, v.n), rest |-> v.rest]
        ELSE [r EXCEPT !.ok = FALSE]

EndTime(head, code, end) ==
    IF ~code.ok \/ code.n # ENDTIME \/ ~end.ok THEN [ok |-> FALSE]
    ELSE [ok |-> TRUE, c |-> NewCondition(head.v, end.n), rest |-> end.rest]

AfterHead(head, code) ==
    IF ~head.ok \/ head.v[1] \notin DOMAIN Types THEN [ok |-> FALSE]
    ELSE IF head.v[7] = 0 THEN [ok |-> TRUE, c |-> NewCondition(head.v, 0), rest |-> head.rest]
    ELSE EndTime(head, code, Read(code.rest, 8, TRUE))

CreateCondition(st) ==
    LET head == FoldLeft(LAMBDA r, i : HeadMember(r, i, Read(r.rest, 1, FALSE)),
                         [ok |-> TRUE, v |-> <<>>, rest |-> st], [i \in 1..7 |-> i])
    IN  AfterHead(head, Read(head.rest, 1, FALSE))

\* unserializeProp of the classes: a code, its width and the first member that is read into.
RegenerationReads == 4 :> <<4, 1>> @@ 5 :> <<4, 3>> @@ 32 :> <<4, 4>> @@ 6 :> <<4, 2>> @@ 7 :> <<4, 5>> @@ 33 :> <<4, 6>>
SoulReads == 21 :> <<4, 2>> @@ 20 :> <<4, 1>>
SpeedReads == 11 :> <<4, 1>> @@ 12 :> <<4, 2>> @@ 13 :> <<4, 3>> @@ 14 :> <<4, 4>> @@ 15 :> <<4, 5>>
OutfitReads == 24 :> <<Outfit, 1>>
LightReads == 16 :> <<1, 1>> @@ 17 :> <<1, 2>> @@ 18 :> <<4, 3>> @@ 19 :> <<4, 4>>
DamageReads == 8 :> <<1, 1>> @@ 25 :> <<4, 2>> @@ 10 :> <<12, 3>>
AttributesReads == 22 :> <<4, 1>> @@ 30 :> <<4, 3>> @@ 23 :> <<4, 5>> @@ 31 :> <<4, 7>> @@ 29 :> <<1, 9>>

Reads(c) ==
    CASE Class(c) = "regeneration" -> RegenerationReads
      [] Class(c) = "soul" -> SoulReads
      [] Class(c) = "speed" -> SpeedReads
      [] Class(c) = "outfit" -> OutfitReads
      [] Class(c) = "light" -> LightReads
      [] Class(c) = "damage" -> DamageReads
      [] Class(c) = "attributes" -> AttributesReads
      [] OTHER -> [code \in {} |-> <<>>]

\* Condition::unserializeProp: the members of the head may be read again.
UnserializeHead(c, code, st) ==
    LET i == CHOOSE j \in 1..7 : HeadCodes[j] = code
        r == Read(st, IF code = ENDTIME THEN 8 ELSE HeadWidths[i], TRUE)
    IN  IF code = ENDTIME THEN [ok |-> r.ok, c |-> [c EXCEPT !.end = r.n], rest |-> r.rest]
        ELSE IF code \in {HeadCodes[j] : j \in 1..7} THEN [ok |-> r.ok, c |-> [c EXCEPT !.head[i] = r.n], rest |-> r.rest]
        ELSE [ok |-> FALSE, c |-> c, rest |-> st]

Put(mem, i, n) == IF i <= Len(mem) THEN [mem EXCEPT ![i] = n] ELSE Append(mem, n)

\* One that comes n-th under its code; the ticks of damage grow by each interval.
UnserializeProp(c, code, st, n) ==
    IF code \notin DOMAIN Reads(c) THEN UnserializeHead(c, code, st)
    ELSE LET r == Read(st, Reads(c)[code][1], TRUE)
             put == [c EXCEPT !.mem = Put(@, Reads(c)[code][2] + n, r.n)]
         IN  [ok |-> r.ok, rest |-> r.rest,
              c |-> IF code = 10 /\ put.head[3] # -1 THEN [put EXCEPT !.head[3] = @ + r.n] ELSE put]

\* Condition::unserialize; seen: the codes so far
RECURSIVE Unserialize(_, _, _)
AfterProp(r, seen) == IF ~r.ok THEN r ELSE Unserialize(r.c, r.rest, seen)

NextProp(c, code, seen) ==
    IF ~code.ok \/ code.n = END THEN [ok |-> TRUE, c |-> c, rest |-> code.rest]
    ELSE AfterProp(UnserializeProp(c, code.n, code.rest, Cardinality({i \in DOMAIN seen : seen[i] = code.n})),
                   Append(seen, code.n))

Unserialize(c, st, seen) == NextProp(c, Read(st, 1, FALSE), seen)

\* IOLoginData::savePlayer
SaveConditions(cs) == FlattenSeq([i \in DOMAIN SelectSeq(cs, IsSaved) |-> Serialize(SelectSeq(cs, IsSaved)[i])])

\* IOLoginData::loadPlayer pushes them to the front of a list; one that fails is left out, and the next is read
\* from where it stopped.
RECURSIVE LoadConditions(_, _)
Pushed(r, cs) == LoadConditions(r.rest, IF r.ok THEN <<r.c>> \o cs ELSE cs)

Made(made, cs) == IF made.ok THEN Pushed(Unserialize(made.c, made.rest, <<>>), cs) ELSE cs

LoadConditions(st, cs) == Made(CreateCondition(st), cs)

-----------------------------------------------------------------------------
(* The tile of a house (iomapserialize.cpp): fixtures, which the map has,  *)
(* and loose things, which it has not.                                     *)

Ids == <<"plain", "stack", "fluid", "charged", "timed", "bag", "chest", "closed", "open", "bed", "board", "wall">>
Id(kind) == CHOOSE i \in DOMAIN Ids : Ids[i] = kind

\* IOMapSerialize::saveItem: what is inside is written backwards.
RECURSIVE SaveItem(_)
SaveItem(it) ==
    Bytes(2, Id(it.kind)) \o SerializeAttr(it)
    \o (IF it.kind \in ContainerKinds
        THEN <<23>> \o Bytes(4, Len(it.inside))
             \o FlattenSeq([i \in DOMAIN it.inside |-> SaveItem(it.inside[Len(it.inside) + 1 - i])])
        ELSE <<>>)
    \o <<0>>

\* IOMapSerialize::saveTile leaves out what never changes, and writes backwards.
TileSaves(it) ==
    \/ it.kind \notin Fixtures
    \/ it.kind \in {"closed", "open", "bed", "board"}
    \/ it.kind = "chest" /\ it.inside # <<>>

SaveTile(t) ==
    LET things == SelectSeq(t.fixtures \o t.loose, TileSaves)
        n == Len(things)
    IN  IF n = 0 THEN <<>> ELSE Bytes(4, n) \o FlattenSeq([i \in 1..n |-> SaveItem(things[n + 1 - i])])

\* The fixture that an id stands for: itself, or a door of another look; 0: the map has none any more.
FixtureOf(t, kind) ==
    LET Fits(i) == \/ t.fixtures[i].kind = kind
                   \/ kind \in {"closed", "open"} /\ t.fixtures[i].kind \in {"closed", "open"}
    IN  IF \E i \in DOMAIN t.fixtures : Fits(i)
        THEN CHOOSE i \in DOMAIN t.fixtures : Fits(i) /\ \A j \in 1..(i - 1) : ~Fits(j) ELSE 0

\* IOMapSerialize::loadContainer, and loadItem into a container: what is inside has no tile.
RECURSIVE LoadContainer(_, _, _)
Filled(kind, r) == IF kind \in ContainerKinds /\ r.ok THEN LoadContainer(r.it, r.inside, r.rest) ELSE r

Inside(it, n, full) ==
    IF ~full.ok THEN [ok |-> FALSE, it |-> it, rest |-> full.rest]
    ELSE LoadContainer([it EXCEPT !.inside = <<full.it>> \o @], n - 1, full.rest)

NextInside(it, n, id) ==
    IF ~id.ok THEN [ok |-> FALSE, it |-> it, rest |-> id.rest]
    ELSE IF id.n \notin DOMAIN Ids THEN LoadContainer(it, n - 1, id.rest)
    ELSE Inside(it, n, Filled(Ids[id.n], UnserializeAttr(CreateItem(Ids[id.n], 0), id.rest)))

LoadContainer(it, n, st) ==
    IF n = 0 THEN LET end == Read(st, 1, FALSE) IN [ok |-> end.ok /\ end.n = 0, it |-> it, rest |-> end.rest]
    ELSE NextInside(it, n, Read(st, 2, FALSE))

\* IOMapSerialize::loadItem onto the tile: something new, a fixture of the map, or a dummy in its place.
Onto(t, kind, at, full) ==
    IF kind \notin Fixtures
    THEN [t |-> IF full.ok THEN [t EXCEPT !.loose = <<full.it>> \o @] ELSE t, rest |-> full.rest]
    ELSE IF at = 0 THEN [t |-> t, rest |-> full.rest]
    ELSE [t |-> [t EXCEPT !.fixtures[at] = IF full.ok THEN [full.it EXCEPT !.kind = kind] ELSE full.it], rest |-> full.rest]

LoadKind(t, kind, at, st) ==
    Onto(t, kind, at, Filled(kind,
        UnserializeAttr(IF kind \in Fixtures /\ at # 0 THEN t.fixtures[at] ELSE CreateItem(kind, 0), st)))

LoadItem(t, st) ==
    LET id == Read(st, 2, FALSE)
    IN  IF ~id.ok \/ id.n \notin DOMAIN Ids THEN [t |-> t, rest |-> id.rest]
        ELSE LoadKind(t, Ids[id.n], FixtureOf(t, Ids[id.n]), id.rest)

\* IOMapSerialize::loadHouseItems, of one tile; t is the tile of the map.
LoadTile(t, st) ==
    LET size == Read(st, 4, FALSE)
    IN  IF ~size.ok THEN t
        ELSE FoldLeft(LAMBDA r, i : LoadItem(r.t, r.rest), [t |-> t, rest |-> size.rest], [i \in 1..size.n |-> i]).t

-----------------------------------------------------------------------------
(* Actions.                                                                *)

SerializationInit == item = None /\ conds = None /\ tile = None /\ saved = None /\ kept = None

Nothing == item = None /\ conds = None /\ tile = None /\ saved = None

MakeItem(kind) ==
    /\ Nothing
    /\ item' = CreateItem(kind, 1)
    /\ UNCHANGED <<conds, tile, saved, kept>>

\* A script sets an attribute: charges of what has charges only.
SetAttribute(av) ==
    /\ item # None
    /\ av[1] = "charges" => item.kind \in Charged
    /\ av[1] \in item.bits \/ Len(item.list) < MaxAttrs
    /\ item' = SetAttr(item, av[1], av[2])
    /\ saved' = None /\ kept' = None
    /\ UNCHANGED <<conds, tile>>

RemoveAttribute(a) ==
    /\ item # None /\ a \in item.bits \ {"fluidtype", "charges"}
    /\ item' = RemoveAttr(item, a)
    /\ saved' = None /\ kept' = None
    /\ UNCHANGED <<conds, tile>>

\* IOLoginData::saveItems: a row with the type, the subtype and the attributes.
SaveItems ==
    /\ item # None
    /\ saved' = [kind |-> item.kind, count |-> SubType(item), attributes |-> SerializeAttr(item)]
    /\ kept' = item /\ item' = None
    /\ UNCHANGED <<conds, tile>>

\* IOLoginData::loadItems: the item is there even if its attributes cannot be read.
LoadItems ==
    /\ kept # None /\ saved # None /\ item = None /\ conds = None /\ tile = None
    /\ "count" \in DOMAIN saved
    /\ item' = UnserializeAttr(CreateItem(saved.kind, saved.count), saved.attributes).it
    /\ UNCHANGED <<conds, tile, saved, kept>>

AddCondition(c) ==
    /\ item = None /\ tile = None /\ (saved = None \/ conds # None)
    /\ conds # None => Len(conds) < MaxAilments /\ \A i \in DOMAIN conds : Class(conds[i]) # Class(c) \/ conds[i].head[2] # c.head[2]
    /\ conds' = IF conds = None THEN <<c>> ELSE Append(conds, c)
    /\ saved' = None /\ kept' = None
    /\ UNCHANGED <<item, tile>>

SavePlayer ==
    /\ conds # None
    /\ saved' = [conditions |-> SaveConditions(conds)]
    /\ kept' = conds /\ conds' = None
    /\ UNCHANGED <<item, tile>>

LoadPlayer ==
    /\ saved # None /\ item = None /\ conds = None /\ tile = None
    /\ "conditions" \in DOMAIN saved
    /\ conds' = LoadConditions(saved.conditions, <<>>)
    /\ UNCHANGED <<item, tile, saved, kept>>

Furnish(t) ==
    /\ Nothing
    /\ tile' = t
    /\ UNCHANGED <<item, conds, saved, kept>>

SaveHouse ==
    /\ tile # None
    /\ saved' = [data |-> SaveTile(tile)]
    /\ kept' = tile /\ tile' = None
    /\ UNCHANGED <<item, conds>>

\* The server starts again, with its map: the fixtures as they were at first, or without one of them.
MapFixtures(t, gone) ==
    LET fresh == [i \in DOMAIN t.fixtures |-> CreateItem(IF t.fixtures[i].kind = "open" THEN "closed" ELSE t.fixtures[i].kind, 0)]
    IN  IF gone = 0 THEN fresh ELSE RemoveAt(fresh, gone)

LoadHouse(gone) ==
    /\ saved # None /\ item = None /\ conds = None /\ tile = None
    /\ "data" \in DOMAIN saved /\ gone <= Len(kept.fixtures)
    /\ tile' = LoadTile([fixtures |-> MapFixtures(kept, gone), loose |-> <<>>], saved.data)
    /\ UNCHANGED <<item, conds, saved, kept>>

SerializationNext ==
    \/ \E kind \in Kinds : MakeItem(kind)
    \/ \E av \in Scripted : SetAttribute(av) \/ RemoveAttribute(av[1])
    \/ SaveItems
    \/ LoadItems
    \/ \E c \in Ailments : AddCondition(c)
    \/ SavePlayer
    \/ LoadPlayer
    \/ \E t \in Furniture : Furnish(t)
    \/ SaveHouse
    \/ \E gone \in 0..2 : LoadHouse(gone)

SerializationTypeOK ==
    /\ item # None => item.kind \in Kinds /\ item.count \in 1..100 /\ Len(item.list) <= MaxAttrs + 1
    /\ conds # None => \A i \in DOMAIN conds : conds[i].head[1] \in DOMAIN Types
    /\ Cardinality({x \in {item, conds, tile} : x # None}) <= 1

-----------------------------------------------------------------------------

\* The bits of an item say exactly what is in its list, each attribute once (ItemAttributes, item.cpp:1116).
AttributesAgree ==
    item # None =>
        /\ item.bits = {item.list[i][1] : i \in DOMAIN item.list}
        /\ Cardinality(item.bits) = Len(item.list)

\* What serializeAttr does not write: these are lost when a player leaves.
NotWritten(it) ==
    {"storeitem", "wrapid", "opencontainer", "uniqueid", "owner", "corpseowner"}
    \cup (IF it.kind \in Fixtures THEN {"actionid"} ELSE {})

\* An item k that was read back as l.
Returned(k, l) ==
    LET written == {a \in k.bits \ NotWritten(k) : Writes(k, a) \/ a = "fluidtype"}
    IN  /\ l.kind = k.kind /\ l.count = k.count
        /\ l.bits = written \cup (IF k.kind \in Timed THEN {"duration"} ELSE {})
        /\ \A a \in written : GetAttr(l, a) = IF a = "custom" THEN GetAttr(k, a) ELSE <<Settled(a, GetAttr(k, a)[1])>>

\* An item comes back as it was, with every attribute that is written, and no other (item.cpp:343, 743).
ItemReturns == item # None /\ kept # None => Returned(kept, item)

\* A condition k that was read back as l: drunkenness and the ticks of damage start anew, and the rates of
\* experience are lost, for they are read into the members behind the special skills, which are the stats.
CameBack(k, l) ==
    /\ l.end = (IF k.head[7] = 1 THEN k.end ELSE 0)
    /\ \A i \in 1..7 : i # 3 \/ Class(k) # "damage" => l.head[i] = k.head[i]
    /\ CASE Class(k) = "drunk" -> TRUE
         [] Class(k) = "attributes" -> l.mem = [k.mem EXCEPT ![5] = k.mem[7], ![6] = k.mem[8], ![7] = 0, ![8] = 0]
         [] OTHER -> l.mem = k.mem

\* The conditions that are saved come back whole, up to the first light: colour and level of a light are written
\* with four bytes and read with one, and with it all that follows is lost (condition.cpp:1951, 1977).
ConditionsReturn ==
    conds # None /\ kept # None =>
        LET ks == SelectSeq(kept, IsSaved)
            lights == {i \in DOMAIN ks : Class(ks[i]) = "light"}
            n == IF lights = {} THEN Len(ks) ELSE (CHOOSE i \in lights : \A j \in lights : i <= j) - 1
        IN  /\ Len(conds) = n
            /\ \A i \in 1..n : CameBack(ks[i], conds[n + 1 - i])

\* Of a thing on a tile, with what is in it.
RECURSIVE TileReturned(_, _)
TileReturned(k, l) ==
    /\ IF k.kind = "bed" THEN l.bits = k.bits
       ELSE IF k.kind \in {"closed", "open"} THEN l.kind = k.kind
       ELSE Returned(k, l)
    /\ Len(l.inside) = Len(k.inside)
    /\ \A i \in DOMAIN k.inside : TileReturned(k.inside[i], l.inside[i])

\* Whatever the map lost, the loose things of a house come back in their order and with all that is in them; and if
\* it lost nothing, so do the fixtures that are saved (iomapserialize.cpp:114).
TileReturns ==
    tile # None /\ kept # None =>
        /\ Len(tile.loose) = Len(kept.loose)
        /\ \A i \in DOMAIN kept.loose : TileReturned(kept.loose[i], tile.loose[i])
        /\ Len(tile.fixtures) = Len(kept.fixtures) =>
              \A i \in DOMAIN kept.fixtures : TileSaves(kept.fixtures[i]) => TileReturned(kept.fixtures[i], tile.fixtures[i])
=============================================================================
