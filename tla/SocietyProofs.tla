---------------------------- MODULE SocietyProofs -----------------------------
(***************************************************************************)
(* Theorems about Society, for any players, houses, things and scripts.    *)
(*                                                                         *)
(* Each part has an inductive invariant of its own (HoGood, PeGood,        *)
(* StGood, ScGood, CaOK), which its actions keep and the other parts leave *)
(* alone.                                                                  *)
(***************************************************************************)
EXTENDS Society, Sequences, SequenceTheorems, FiniteSets, FiniteSetTheorems, TLAPS

-----------------------------------------------------------------------------
(* Houses: strangers leave, sleepers and beds agree                        *)

\* A house, and the people, of the right shape.
HoHouse(h) ==
    /\ DOMAIN h = {"owner", "lists", "transferItem", "warnings", "sleeper", "lies"}
    /\ h.owner \in Occupants \cup {None} /\ h.lists \in [Ho!Lists -> SUBSET Ho!Entries]
    /\ h.transferItem \in SUBSET [from : Occupants, to : Occupants] /\ h.warnings \in 0 .. MaxWarnings
    /\ h.sleeper \in [Beds -> Occupants \cup {None}]
    /\ h.lies \in [Things -> {Ho!Indoors, Ho!Lost} \cup ({"carried", "depot"} \X Occupants)]
HoFolk(w) ==
    /\ DOMAIN w = {"where", "saved", "money", "ranked", "kicks", "editing"}
    /\ w.where \in [Occupants -> {"offline", "street", "house", "room"}]
    /\ w.saved \in [Occupants -> {"street", "house", "room"}] /\ w.money \in [Occupants -> Nat]
    /\ w.ranked \in SUBSET Occupants /\ w.kicks \in SUBSET Occupants
    /\ w.editing \in [Occupants -> Ho!Lists \cup {None}]
HoMaps == [Occupants -> Beds \cup {None}]

\* A bed and the map agree, and only those who are about to be kicked sleep in the game.
HoBeds(sleeper, m) == \A p \in Occupants, b \in Beds : sleeper[b] = p <=> m[p] = b
HoAwake(w, m) == \A p \in Occupants : w.where[p] # "offline" /\ p \notin w.kicks => m[p] = None

HoGood ==
    /\ HoHouse(house) /\ HoFolk(people) /\ bedSleepersMap \in HoMaps
    /\ HoBeds(house.sleeper, bedSleepersMap) /\ HoAwake(people, bedSleepersMap)

\* It has the types, and sleepers and beds agree.
LEMMA HoTypes == HoGood => Ho!HousesTypeOK /\ Ho!SleepersAgree
<1> SUFFICES ASSUME HoGood PROVE Ho!HousesTypeOK /\ Ho!SleepersAgree
  OBVIOUS
<1>1. Ho!SleepersAgree
  BY DEF HoGood, Ho!SleepersAgree, HoBeds, HoAwake
<1>2. Ho!HousesTypeOK
  BY DEF HoGood, HoHouse, HoFolk, HoMaps, Ho!HousesTypeOK
<1> QED BY <1>1, <1>2

\* At first nobody owns a house.
LEMMA HoInit == Ho!HousesInit => HoGood
<1> SUFFICES ASSUME Ho!HousesInit PROVE HoGood
  OBVIOUS
<1> USE HousesAssumption
<1>1. (CHOOSE p \in Occupants : TRUE) \in Occupants
  OBVIOUS
<1>2. HoHouse(house)
  <2>1. [l \in Ho!Lists |-> {}] \in [Ho!Lists -> SUBSET Ho!Entries]
    OBVIOUS
  <2>2. [b \in Beds |-> None] \in [Beds -> Occupants \cup {None}]
    OBVIOUS
  <2>3. [t \in Things |-> Ho!Indoors] \in [Things -> {Ho!Indoors, Ho!Lost} \cup ({"carried", "depot"} \X Occupants)]
    OBVIOUS
  <2> QED BY <1>1, <2>1, <2>2, <2>3 DEF HoHouse, Ho!HousesInit
<1>3. HoFolk(people)
  BY DEF HoFolk, Ho!HousesInit
<1>4. bedSleepersMap \in HoMaps
  BY DEF HoMaps, Ho!HousesInit
<1>5. HoBeds(house.sleeper, bedSleepersMap) /\ HoAwake(people, bedSleepersMap)
  BY DEF HoBeds, HoAwake, Ho!HousesInit
<1> QED BY <1>2, <1>3, <1>4, <1>5 DEF HoGood

\* Teleports to the entry move only those inside.
LEMMA HoEntry ==
  ASSUME NEW w, HoFolk(w), NEW set \in SUBSET Ho!Inside(w)
  PROVE  /\ HoFolk(Ho!ToEntry(w, set)) /\ Ho!ToEntry(w, set).kicks = w.kicks
         /\ Ho!ToEntry(w, set).ranked = w.ranked
         /\ \A p \in Occupants : Ho!ToEntry(w, set).where[p] = IF p \in set THEN "street" ELSE w.where[p]
         /\ \A p \in Occupants : Ho!ToEntry(w, set).where[p] = "offline" <=> w.where[p] = "offline"
<1> DEFINE moved == [p \in Occupants |-> IF p \in set THEN "street" ELSE w.where[p]]
           t == [w EXCEPT !.where = moved]
<1>1. moved \in [Occupants -> {"offline", "street", "house", "room"}]
  BY DEF HoFolk
<1>2. Ho!ToEntry(w, set) = t
  BY DEF Ho!ToEntry
<1>3. HoFolk(t) /\ t.kicks = w.kicks /\ t.ranked = w.ranked /\ t.where = moved
  BY <1>1 DEF HoFolk
<1>4. \A p \in Occupants : moved[p] = IF p \in set THEN "street" ELSE w.where[p]
  OBVIOUS
<1>5. \A p \in set : w.where[p] # "offline"
  BY DEF Ho!Inside
<1> HIDE DEF moved, t
<1> QED BY <1>2, <1>3, <1>4, <1>5

\* The lists that are set and the guests that leave.
LEMMA HoKick ==
  ASSUME NEW w, HoFolk(w), NEW h
  PROVE  Ho!KickUninvited(h, w) = Ho!ToEntry(w, {p \in Ho!Inside(w) : ~Ho!IsInvited(h, p)})
BY DEF Ho!KickUninvited

\* House::setOwner keeps beds, sleepers and the players awake in step.
LEMMA HoOwner ==
  ASSUME HoGood, NEW h, HoHouse(h), h.sleeper = house.sleeper, NEW p \in Occupants \cup {None},
         Ho!SetOwner(h, p)
  PROVE  HoGood'
<1> USE DEF HoGood
<1>1. CASE p = h.owner
  BY <1>1 DEF Ho!SetOwner
<1>2. CASE p # h.owner /\ h.owner = None
  <2>1. house' = [h EXCEPT !.owner = p, !.warnings = 0] /\ people' = people /\ bedSleepersMap' = bedSleepersMap
    BY <1>2 DEF Ho!SetOwner
  <2>2. HoHouse(house') /\ house'.sleeper = house.sleeper
    BY <2>1, HousesAssumption DEF HoHouse
  <2>3. HoBeds(house'.sleeper, bedSleepersMap') /\ HoAwake(people', bedSleepersMap')
    BY <2>1, <2>2
  <2> QED BY <2>1, <2>2, <2>3
<1>3. CASE p # h.owner /\ h.owner # None
  <2>0. PICK to \in Ho!Destinations(h) : house' = [Ho!Vacate(h, to) EXCEPT !.owner = p, !.warnings = 0]
    BY <1>3 DEF Ho!SetOwner
  <2> DEFINE v == Ho!Vacate(h, to)
             empty == [b \in Beds |-> None]
             left == {h.sleeper[b] : b \in Beds}
  <2>1. /\ house' = [v EXCEPT !.owner = p, !.warnings = 0]
        /\ people' = Ho!ToEntry(people, Ho!Inside(people))
        /\ bedSleepersMap' = Ho!RemoveBedSleepers(left)
    BY <1>3, <2>0 DEF Ho!SetOwner
  <2>2. HoHouse(v) /\ v.sleeper = empty
    <3>1. [l \in Ho!Lists |-> {}] \in [Ho!Lists -> SUBSET Ho!Entries]
      OBVIOUS
    <3>2. empty \in [Beds -> Occupants \cup {None}]
      OBVIOUS
    <3>3. h.owner \in Occupants
      BY <1>3 DEF HoHouse
    <3> DEFINE lies == [t \in Things |-> IF h.lies[t] = Ho!Indoors THEN to ELSE h.lies[t]]
    <3>9. to \in {Ho!Indoors, Ho!Lost} \cup ({"carried", "depot"} \X Occupants)
      BY <2>0, <3>3 DEF Ho!Destinations
    <3>4. lies \in [Things -> {Ho!Indoors, Ho!Lost} \cup ({"carried", "depot"} \X Occupants)]
      BY <3>9 DEF HoHouse
    <3>5. v = [[h EXCEPT !.lies = lies] EXCEPT !.lists = [l \in Ho!Lists |-> {}], !.sleeper = empty]
      BY DEF Ho!Vacate, Ho!TransferToDepot
    <3> DEFINE none == [l \in Ho!Lists |-> {}]
               moved == [h EXCEPT !.lies = lies]
    <3> HIDE DEF lies, empty, none
    <3>6. HoHouse(moved)
      BY <3>4 DEF HoHouse
    <3>7. v = [moved EXCEPT !.lists = none, !.sleeper = empty]
      BY <3>5 DEF none
    <3>8. none \in [Ho!Lists -> SUBSET Ho!Entries]
      BY <3>1 DEF none
    <3> HIDE DEF moved
    <3> QED BY <3>2, <3>6, <3>7, <3>8 DEF HoHouse
  <2> HIDE DEF v
  <2>3. HoHouse(house') /\ house'.sleeper = empty
    BY <2>1, <2>2, HousesAssumption DEF HoHouse
  <2>4. HoFolk(people') /\ people'.kicks = people.kicks
        /\ \A q \in Occupants : people'.where[q] = "offline" <=> people.where[q] = "offline"
    BY <2>1, HoEntry
  <2>5. \A q \in Occupants : bedSleepersMap'[q] = IF q \in left THEN None ELSE bedSleepersMap[q]
    BY <2>1 DEF Ho!RemoveBedSleepers
  <2>6. bedSleepersMap' \in HoMaps
    BY <2>1 DEF Ho!RemoveBedSleepers, HoMaps
  <2>7. \A q \in Occupants : bedSleepersMap'[q] = None
    <3> SUFFICES ASSUME NEW q \in Occupants, bedSleepersMap[q] # None PROVE q \in left
      BY <2>5
    <3>1. bedSleepersMap[q] \in Beds
      BY DEF HoMaps
    <3>2. house.sleeper[bedSleepersMap[q]] = q
      BY <3>1 DEF HoBeds
    <3> QED BY <3>1, <3>2
  <2>8. HoBeds(house'.sleeper, bedSleepersMap')
    BY <2>3, <2>7, HousesAssumption DEF HoBeds
  <2>9. HoAwake(people', bedSleepersMap')
    BY <2>7 DEF HoAwake
  <2> QED BY <2>3, <2>4, <2>6, <2>8, <2>9
<1> QED BY <1>1, <1>2, <1>3

\* A step of the beds: one goes to bed, or the owner wakes one up.
LEMMA HoUseBed ==
  ASSUME HoGood, NEW p \in Occupants, NEW b \in Beds, Ho!UseBed(p, b)
  PROVE  HoGood'
<1> USE DEF HoGood
<1>0. p \in Ho!Inside(people) \ people.kicks
  BY DEF Ho!UseBed
<1>1. bedSleepersMap[p] = None
  BY <1>0 DEF HoAwake, Ho!Inside
<1>2. CASE house.sleeper[b] = None
  <2>1. /\ house' = [house EXCEPT !.sleeper[b] = p]
        /\ bedSleepersMap' = [bedSleepersMap EXCEPT ![p] = b]
        /\ people' = [people EXCEPT !.kicks = @ \cup {p}]
    BY <1>2 DEF Ho!UseBed
  <2>2. HoHouse(house') /\ \A c \in Beds : house'.sleeper[c] = IF c = b THEN p ELSE house.sleeper[c]
    BY <2>1 DEF HoHouse
  <2>3. bedSleepersMap' \in HoMaps /\ \A q \in Occupants : bedSleepersMap'[q] = IF q = p THEN b ELSE bedSleepersMap[q]
    BY <2>1 DEF HoMaps
  <2>4. HoFolk(people') /\ people'.where = people.where /\ people'.kicks = people.kicks \cup {p}
    BY <2>1 DEF HoFolk
  <2>5. HoBeds(house'.sleeper, bedSleepersMap')
    BY <2>2, <2>3, <1>1, <1>2, HousesAssumption DEF HoBeds
  <2>6. HoAwake(people', bedSleepersMap')
    BY <2>3, <2>4 DEF HoAwake
  <2> QED BY <2>2, <2>3, <2>4, <2>5, <2>6
<1>3. CASE house.sleeper[b] # None
  <2>1. house' = [house EXCEPT !.sleeper[b] = None] /\ people' = people
        /\ bedSleepersMap' = Ho!RemoveBedSleepers({house.sleeper[b]})
    BY <1>3 DEF Ho!UseBed, Ho!WakeUp
  <2>2. HoHouse(house') /\ \A c \in Beds : house'.sleeper[c] = IF c = b THEN None ELSE house.sleeper[c]
    BY <2>1 DEF HoHouse
  <2>3. bedSleepersMap' \in HoMaps
        /\ \A q \in Occupants : bedSleepersMap'[q] = IF q = house.sleeper[b] THEN None ELSE bedSleepersMap[q]
    BY <2>1 DEF HoMaps, Ho!RemoveBedSleepers
  <2>4. HoBeds(house'.sleeper, bedSleepersMap')
    BY <2>2, <2>3, <1>3, HousesAssumption DEF HoBeds, HoHouse
  <2>5. HoAwake(people', bedSleepersMap')
    BY <2>1, <2>3 DEF HoAwake
  <2> QED BY <2>1, <2>2, <2>3, <2>4, <2>5
<1> QED BY <1>2, <1>3

\* A player comes back and wakes up.
LEMMA HoLogin ==
  ASSUME HoGood, NEW p \in Occupants, Ho!Login(p)
  PROVE  HoGood'
<1> USE DEF HoGood
<1> DEFINE bed == bedSleepersMap[p]
           place == IF Ho!IsInvited(house, p) THEN people.saved[p] ELSE "street"
<1>1. /\ people' = [people EXCEPT !.where[p] = place]
      /\ house' = IF bed = None THEN house ELSE [house EXCEPT !.sleeper[bed] = None]
      /\ bedSleepersMap' = Ho!RemoveBedSleepers({p})
  BY DEF Ho!Login, Ho!WakeUp
<1>2. place \in {"street", "house", "room"}
  BY DEF HoFolk
<1>3. bed \in Beds \cup {None}
  BY DEF HoMaps
<1> HIDE DEF place
<1>4. HoFolk(people') /\ people'.kicks = people.kicks
      /\ \A q \in Occupants : people'.where[q] = IF q = p THEN place ELSE people.where[q]
  BY <1>1, <1>2 DEF HoFolk
<1>5. bedSleepersMap' \in HoMaps /\ \A q \in Occupants : bedSleepersMap'[q] = IF q = p THEN None ELSE bedSleepersMap[q]
  BY <1>1 DEF HoMaps, Ho!RemoveBedSleepers
<1>6. HoHouse(house') /\ \A c \in Beds : house'.sleeper[c] = IF c = bed THEN None ELSE house.sleeper[c]
  BY <1>1, <1>3, HousesAssumption DEF HoHouse
<1>7. HoBeds(house'.sleeper, bedSleepersMap')
  BY <1>3, <1>5, <1>6, HousesAssumption DEF HoBeds
<1>8. HoAwake(people', bedSleepersMap')
  BY <1>4, <1>5 DEF HoAwake
<1> QED BY <1>4, <1>5, <1>6, <1>7, <1>8

\* Steps that change the people only, and none of them from or into the game.
LEMMA HoPeopleMove ==
  ASSUME HoGood, house' = house, bedSleepersMap' = bedSleepersMap, HoFolk(people'), people'.kicks = people.kicks,
         \A p \in Occupants : people'.where[p] = "offline" <=> people.where[p] = "offline"
  PROVE  HoGood'
<1>1. HoAwake(people', bedSleepersMap')
  BY DEF HoGood, HoAwake
<1> QED BY <1>1 DEF HoGood

\* Steps that change the house only, and not its beds.
LEMMA HoHouseMove ==
  ASSUME HoGood, HoHouse(house'), house'.sleeper = house.sleeper, people' = people, bedSleepersMap' = bedSleepersMap
  PROVE  HoGood'
BY DEF HoGood

\* A logout.
LEMMA HoLeave ==
  ASSUME HoGood, NEW p \in Occupants, Ho!Leave(p)
  PROVE  HoGood'
<1> USE DEF HoGood
<1> DEFINE rest == {item \in house.transferItem : p \notin {item.from, item.to}}
<1>1. /\ people.where[p] # "offline" /\ bedSleepersMap' = bedSleepersMap
      /\ people' = [people EXCEPT !.where[p] = "offline", !.kicks = @ \ {p}, !.editing[p] = None,
                                  !.saved[p] = people.where[p]]
      /\ house' = [house EXCEPT !.transferItem = rest]
  BY DEF Ho!Leave
<1>2. rest \in SUBSET [from : Occupants, to : Occupants]
  BY DEF HoHouse
<1> HIDE DEF rest
<1>3. HoHouse(house') /\ house'.sleeper = house.sleeper
  BY <1>1, <1>2 DEF HoHouse
<1>4. people.where[p] \in {"street", "house", "room"}
  BY <1>1 DEF HoFolk
<1>5. HoFolk(people')
  BY <1>1, <1>4 DEF HoFolk
<1>6. people'.kicks = people.kicks \ {p}
      /\ \A q \in Occupants : people'.where[q] = IF q = p THEN "offline" ELSE people.where[q]
  BY <1>1 DEF HoFolk
<1>7. HoAwake(people', bedSleepersMap')
  BY <1>1, <1>6 DEF HoAwake
<1>8. HoBeds(house'.sleeper, bedSleepersMap')
  BY <1>1, <1>3
<1> QED BY <1>1, <1>3, <1>5, <1>7, <1>8

\* The steps of the players in the house.
LEMMA HoWalk ==
  ASSUME HoGood, NEW p \in Occupants, NEW to \in {"street", "house", "room"}, Ho!Walk(p, to)
  PROVE  HoGood'
<1>1. people.where[p] # "offline" /\ people' = [people EXCEPT !.where[p] = to]
      /\ house' = house /\ bedSleepersMap' = bedSleepersMap
  BY DEF Ho!Walk
<1>2. HoFolk(people') /\ people'.kicks = people.kicks
      /\ \A q \in Occupants : people'.where[q] = IF q = p THEN to ELSE people.where[q]
  BY <1>1 DEF HoFolk, HoGood
<1> QED BY <1>1, <1>2, HoPeopleMove

\* Kicks, rights and their windows, ranks.
LEMMA HoRights ==
  ASSUME HoGood, NEW p \in Occupants,
         \/ \E q \in Occupants : Ho!KickPlayer(p, q)
         \/ \E l \in Ho!Lists : Ho!SetEditHouse(p, l)
         \/ Ho!ChangeRank(p)
  PROVE  HoGood'
<1>1. CASE \E q \in Occupants : Ho!KickPlayer(p, q)
  <2>1. PICK q \in Occupants : q \in Ho!Inside(people) /\ people' = Ho!ToEntry(people, {q})
                               /\ house' = house /\ bedSleepersMap' = bedSleepersMap
    BY <1>1 DEF Ho!KickPlayer
  <2>2. {q} \in SUBSET Ho!Inside(people)
    BY <2>1
  <2> QED BY <2>1, <2>2, HoEntry, HoPeopleMove DEF HoGood
<1>2. CASE \E l \in Ho!Lists : Ho!SetEditHouse(p, l)
  <2>1. PICK l \in Ho!Lists : people' = [people EXCEPT !.editing[p] = l] /\ house' = house /\ bedSleepersMap' = bedSleepersMap
    BY <1>2 DEF Ho!SetEditHouse
  <2>2. HoFolk(people') /\ people'.kicks = people.kicks /\ people'.where = people.where
    BY <2>1 DEF HoFolk, HoGood
  <2> QED BY <2>1, <2>2, HoPeopleMove
<1>3. CASE Ho!ChangeRank(p)
  <2> DEFINE ranks == IF p \in people.ranked THEN people.ranked \ {p} ELSE people.ranked \cup {p}
  <2>1. people' = [people EXCEPT !.ranked = ranks] /\ house' = house /\ bedSleepersMap' = bedSleepersMap
    BY <1>3 DEF Ho!ChangeRank
  <2>2. ranks \in SUBSET Occupants
    BY DEF HoFolk, HoGood
  <2> HIDE DEF ranks
  <2>3. HoFolk(people') /\ people'.kicks = people.kicks /\ people'.where = people.where
    BY <2>1, <2>2 DEF HoFolk, HoGood
  <2> QED BY <2>1, <2>3, HoPeopleMove
<1> QED BY <1>1, <1>2, <1>3

HoEdits == {{}, {"rank"}, {"everyone"}} \cup {{q} : q \in Occupants}

\* House::setAccessList, and who is not on the list any more leaves.
LEMMA HoUpdate ==
  ASSUME HoGood, NEW p \in Occupants, NEW list \in HoEdits, Ho!UpdateHouseWindow(p, list)
  PROVE  HoGood'
<1> DEFINE l == people.editing[p]
           set == [house EXCEPT !.lists[l] = list]
           shut == [people EXCEPT !.editing[p] = None]
<1>1. l \in Ho!Lists
  BY DEF HoGood, HoFolk, Ho!UpdateHouseWindow
<1>2. bedSleepersMap' = bedSleepersMap
      /\ \/ house' = house /\ people' = shut
         \/ house' = set /\ people' = shut
         \/ house' = set /\ people' = Ho!KickUninvited(set, shut)
  BY DEF Ho!UpdateHouseWindow
<1>3. HoFolk(shut) /\ shut.kicks = people.kicks /\ shut.where = people.where
  BY DEF HoFolk, HoGood
<1>4. list \in SUBSET Ho!Entries
  BY DEF HoEdits, Ho!Entries
<1>5. HoHouse(set) /\ set.sleeper = house.sleeper
  BY <1>1, <1>4 DEF HoHouse, HoGood
<1> DEFINE after == Ho!KickUninvited(set, shut)
<1>6. HoFolk(after) /\ after.kicks = shut.kicks
      /\ \A q \in Occupants : after.where[q] = "offline" <=> shut.where[q] = "offline"
  <2> HIDE DEF set, shut
  <2> DEFINE leaving == {q \in Ho!Inside(shut) : ~Ho!IsInvited(set, q)}
  <2>1. leaving \in SUBSET Ho!Inside(shut)
    OBVIOUS
  <2>2. after = Ho!ToEntry(shut, leaving)
    BY <1>3, HoKick
  <2> HIDE DEF leaving, after
  <2>3. HoFolk(shut)
    BY <1>3
  <2> QED BY <2>1, <2>2, <2>3, HoEntry
<1> HIDE DEF set, shut, after
<1>7. HoHouse(house') /\ house'.sleeper = house.sleeper
  BY <1>2, <1>5 DEF HoGood
<1>8. HoFolk(people') /\ people'.kicks = people.kicks
      /\ \A q \in Occupants : people'.where[q] = "offline" <=> people.where[q] = "offline"
  BY <1>2, <1>3, <1>6 DEF after
<1>9. HoAwake(people', bedSleepersMap')
  BY <1>2, <1>8 DEF HoAwake, HoGood
<1>10. HoBeds(house'.sleeper, bedSleepersMap')
  BY <1>2, <1>7 DEF HoGood
<1> QED BY <1>2, <1>7, <1>8, <1>9, <1>10 DEF HoGood

\* Things are carried in and out, and the document of a transfer comes and goes.
LEMMA HoGoods ==
  ASSUME HoGood, NEW p \in Occupants,
         \/ \E t \in Things : Ho!MoveThing(p, t)
         \/ \E q \in Occupants : Ho!StartTrade(p, q)
         \/ Ho!CancelTrade
  PROVE  HoGood'
<1>1. CASE \E t \in Things : Ho!MoveThing(p, t)
  <2>1. PICK t \in Things, to \in {Ho!Indoors, <<"carried", p>>} :
           house' = [house EXCEPT !.lies[t] = to] /\ people' = people /\ bedSleepersMap' = bedSleepersMap
    BY <1>1 DEF Ho!MoveThing
  <2>2. to \in {Ho!Indoors, Ho!Lost} \cup ({"carried", "depot"} \X Occupants)
    BY <2>1
  <2>3. HoHouse(house') /\ house'.sleeper = house.sleeper
    BY <2>1, <2>2 DEF HoHouse, HoGood
  <2> QED BY <2>1, <2>3, HoHouseMove
<1>2. CASE Ho!CancelTrade \/ \E q \in Occupants : Ho!StartTrade(p, q)
  <2>1. PICK item \in SUBSET [from : Occupants, to : Occupants] :
           house' = [house EXCEPT !.transferItem = item] /\ people' = people /\ bedSleepersMap' = bedSleepersMap
    <3>1. CASE Ho!CancelTrade
      BY <3>1 DEF Ho!CancelTrade
    <3>2. CASE \E q \in Occupants : Ho!StartTrade(p, q)
      <4>1. PICK q \in Occupants : Ho!StartTrade(p, q)
        BY <3>2
      <4>2. {[from |-> p, to |-> q]} \in SUBSET [from : Occupants, to : Occupants]
        OBVIOUS
      <4> QED BY <4>1, <4>2 DEF Ho!StartTrade
    <3> QED BY <1>2, <3>1, <3>2
  <2>2. HoHouse(house') /\ house'.sleeper = house.sleeper
    BY <2>1 DEF HoHouse, HoGood
  <2> QED BY <2>1, <2>2, HoHouseMove
<1> QED BY <1>1, <1>2

\* The house changes hands.
LEMMA HoTransfers ==
  ASSUME HoGood, Ho!SetOwnerByScript \/ Ho!ExecuteTransfer
  PROVE  HoGood'
<1>1. CASE Ho!SetOwnerByScript
  <2>1. PICK p \in Occupants \cup {None} : Ho!SetOwner(house, p)
    BY <1>1 DEF Ho!SetOwnerByScript
  <2> QED BY <2>1, HoOwner DEF HoGood
<1>2. CASE Ho!ExecuteTransfer
  <2> DEFINE h == [house EXCEPT !.transferItem = {}]
  <2>1. PICK item \in house.transferItem : Ho!SetOwner(h, item.to)
    BY <1>2 DEF Ho!ExecuteTransfer
  <2>2. item.to \in Occupants \cup {None}
    BY DEF HoGood, HoHouse
  <2>3. HoHouse(h) /\ h.sleeper = house.sleeper
    BY DEF HoGood, HoHouse
  <2> HIDE DEF h
  <2> QED BY <2>1, <2>2, <2>3, HoOwner
<1> QED BY <1>1, <1>2

\* The rent is paid, or asked for, or the house is lost.
LEMMA HoRent ==
  ASSUME HoGood, Ho!PayHouses
  PROVE  HoGood'
<1>0. house.owner \in Occupants
  BY DEF HoGood, HoHouse, Ho!PayHouses
<1>1. CASE people' = [people EXCEPT !.money[house.owner] = @ - 1] /\ people.money[house.owner] > 0
           /\ UNCHANGED <<house, bedSleepersMap>>
  <2>1. people.money[house.owner] \in Nat /\ people.money[house.owner] - 1 \in Nat
    BY <1>0, <1>1 DEF HoGood, HoFolk
  <2>2. HoFolk(people') /\ people'.kicks = people.kicks /\ people'.where = people.where
    BY <1>0, <1>1, <2>1 DEF HoGood, HoFolk
  <2> QED BY <1>1, <2>2, HoPeopleMove
<1>2. CASE house' = [house EXCEPT !.warnings = @ + 1] /\ house.warnings < MaxWarnings
           /\ UNCHANGED <<people, bedSleepersMap>>
  <2>1. house.warnings + 1 \in 0 .. MaxWarnings
    BY <1>2, HousesAssumption DEF HoGood, HoHouse
  <2>2. HoHouse(house') /\ house'.sleeper = house.sleeper
    BY <1>2, <2>1 DEF HoGood, HoHouse
  <2> QED BY <1>2, <2>2, HoHouseMove
<1>3. CASE Ho!SetOwner(house, None)
  BY <1>3, HoOwner DEF HoGood
<1> QED BY <1>1, <1>2, <1>3 DEF Ho!PayHouses

\* The map of the sleepers is read from the beds.
LEMMA HoRestart ==
  ASSUME HoGood, Ho!Restart
  PROVE  HoGood'
<1> USE DEF HoGood
<1> DEFINE sleeps(p) == \E b \in Beds : house.sleeper[b] = p
           at(p) == IF sleeps(p) THEN CHOOSE b \in Beds : house.sleeper[b] = p ELSE None
<1>1. bedSleepersMap' = [p \in Occupants |-> at(p)] /\ house' = house /\ people' = people
  BY DEF Ho!Restart
<1>2. \A p \in Occupants : at(p) = bedSleepersMap[p]
  <2> TAKE p \in Occupants
  <2>1. CASE sleeps(p)
    <3>1. at(p) \in Beds /\ house.sleeper[at(p)] = p
      BY <2>1
    <3> HIDE DEF at
    <3> QED BY <3>1 DEF HoBeds
  <2>2. CASE ~sleeps(p)
    <3>1. bedSleepersMap[p] \notin Beds
      BY <2>2 DEF HoBeds
    <3> QED BY <2>2, <3>1 DEF HoMaps
  <2> QED BY <2>1, <2>2
<1> HIDE DEF at, sleeps
<1>3. bedSleepersMap' = bedSleepersMap
  BY <1>1, <1>2 DEF HoMaps
<1> QED BY <1>1, <1>3

\* Every step of the houses.
LEMMA HoNext ==
  ASSUME HoGood, Ho!HousesNext
  PROVE  HoGood'
<1>1. CASE Ho!SetOwnerByScript \/ Ho!ExecuteTransfer
  BY <1>1, HoTransfers
<1>2. CASE Ho!CancelTrade
  BY <1>2, HoGoods, HousesAssumption
<1>3. CASE Ho!PayHouses
  BY <1>3, HoRent
<1>12. CASE Ho!PayHousesOfNobody
  BY <1>12, HoOwner DEF HoGood, Ho!PayHousesOfNobody
<1>4. CASE Ho!Restart
  BY <1>4, HoRestart
<1>5. ASSUME NEW p \in Occupants, Ho!Login(p) \/ Ho!Leave(p) \/ Ho!ChangeRank(p)
      PROVE  HoGood'
  BY <1>5, HoLogin, HoLeave, HoRights
<1>6. ASSUME NEW p \in Occupants, NEW b \in Beds, Ho!UseBed(p, b) PROVE HoGood'
  BY <1>6, HoUseBed
<1>7. ASSUME NEW p \in Occupants, NEW to \in {"street", "house", "room"}, Ho!Walk(p, to) PROVE HoGood'
  BY <1>7, HoWalk
<1>8. ASSUME NEW p \in Occupants, NEW q \in Occupants, Ho!KickPlayer(p, q) \/ Ho!StartTrade(p, q) PROVE HoGood'
  BY <1>8, HoRights, HoGoods
<1>9. ASSUME NEW p \in Occupants, NEW l \in Ho!Lists, Ho!SetEditHouse(p, l) PROVE HoGood'
  BY <1>9, HoRights
<1>10. ASSUME NEW p \in Occupants, NEW list \in HoEdits, Ho!UpdateHouseWindow(p, list) PROVE HoGood'
  BY <1>10, HoUpdate
<1>11. ASSUME NEW p \in Occupants, NEW t \in Things, Ho!MoveThing(p, t) PROVE HoGood'
  BY <1>11, HoGoods
<1> QED BY <1>1, <1>2, <1>3, <1>4, <1>5, <1>6, <1>7, <1>8, <1>9, <1>10, <1>11, <1>12 DEF Ho!HousesNext, HoEdits

\* What StrangersLeave says of a step.
HoEmptied ==
    /\ Ho!Inside(people') = {} /\ \A b \in Beds : house'.sleeper[b] = None
    /\ \A t \in Things : house.lies[t] = Ho!Indoors => house'.lies[t] \in Ho!Destinations(house)
HoLeft ==
    /\ house'.owner # house.owner /\ house.owner # None => HoEmptied
    /\ (\E l \in {"guests", "subOwners"} : house'.lists[l] # house.lists[l]) =>
          \A p \in Ho!Inside(people') : Ho!IsInvited(house, p)'

\* A change of the owner empties the house.
LEMMA HoOwnerLeft ==
  ASSUME HoGood, NEW h, HoHouse(h), h.owner = house.owner, h.lists = house.lists, h.lies = house.lies,
         NEW p \in Occupants \cup {None}, Ho!SetOwner(h, p)
  PROVE  HoLeft
<1>1. CASE p = h.owner
  BY <1>1 DEF Ho!SetOwner, HoLeft
<1>2. CASE p # h.owner /\ h.owner = None
  <2>1. house' = [h EXCEPT !.owner = p, !.warnings = 0]
    BY <1>2 DEF Ho!SetOwner
  <2>2. house'.lists = house.lists
    BY <2>1 DEF HoHouse
  <2> QED BY <1>2, <2>2 DEF HoLeft
<1>3. CASE p # h.owner /\ h.owner # None
  <2>0. PICK to \in Ho!Destinations(h) : house' = [Ho!Vacate(h, to) EXCEPT !.owner = p, !.warnings = 0]
    BY <1>3 DEF Ho!SetOwner
  <2> DEFINE v == Ho!Vacate(h, to)
             empty == [b \in Beds |-> None]
             lies == [t \in Things |-> IF h.lies[t] = Ho!Indoors THEN to ELSE h.lies[t]]
             moved == [h EXCEPT !.lies = lies]
             none == [l \in Ho!Lists |-> {}]
  <2>1. house' = [v EXCEPT !.owner = p, !.warnings = 0] /\ people' = Ho!ToEntry(people, Ho!Inside(people))
    BY <1>3, <2>0 DEF Ho!SetOwner
  <2>2. v = [moved EXCEPT !.lists = none, !.sleeper = empty]
    BY DEF Ho!Vacate, Ho!TransferToDepot
  <2>3. DOMAIN moved = DOMAIN h /\ moved.lies = lies
    BY DEF HoHouse
  <2>4. \A b \in Beds : empty[b] = None
    OBVIOUS
  <2>5. \A t \in Things : house.lies[t] = Ho!Indoors => lies[t] = to
    OBVIOUS
  <2>10. to \in Ho!Destinations(house)
    BY <2>0 DEF Ho!Destinations
  <2> HIDE DEF lies, empty, none, moved
  <2>6. DOMAIN v = DOMAIN h /\ v.lies = lies /\ v.sleeper = empty
    BY <2>2, <2>3 DEF HoHouse
  <2> HIDE DEF v
  <2>7. house'.lies = lies /\ house'.sleeper = empty
    BY <2>1, <2>6 DEF HoHouse
  <2>8. Ho!Inside(people') = {}
    <3>1. \A q \in Occupants : people'.where[q] = IF q \in Ho!Inside(people) THEN "street" ELSE people.where[q]
      BY <2>1, HoEntry DEF HoGood
    <3> QED BY <3>1 DEF Ho!Inside
  <2>9. HoEmptied
    BY <2>4, <2>5, <2>7, <2>8, <2>10 DEF HoEmptied
  <2> QED BY <2>8, <2>9 DEF HoLeft
<1> QED BY <1>1, <1>2, <1>3

\* A change of a list kicks whoever is no longer invited.
LEMMA HoUpdateLeft ==
  ASSUME HoGood, NEW p \in Occupants, NEW list \in HoEdits, Ho!UpdateHouseWindow(p, list)
  PROVE  HoLeft
<1> DEFINE l == people.editing[p]
           set == [house EXCEPT !.lists[l] = list]
           shut == [people EXCEPT !.editing[p] = None]
           leaving == {q \in Ho!Inside(shut) : ~Ho!IsInvited(set, q)}
<1>1. HoFolk(shut) /\ shut.ranked = people.ranked
  BY DEF HoFolk, HoGood
<1>2. set.owner = house.owner /\ \A k \in Ho!Lists : k # l => set.lists[k] = house.lists[k]
  BY DEF HoHouse, HoGood
<1>3. CASE house' = house
  BY <1>3 DEF HoLeft
<1>4. CASE house' = set /\ l = "door"
  <2>1. {"guests", "subOwners"} \subseteq Ho!Lists /\ l \notin {"guests", "subOwners"}
    BY <1>4 DEF Ho!Lists
  <2> QED BY <1>2, <1>4, <2>1 DEF HoLeft
<1>5. CASE house' = set /\ people' = Ho!KickUninvited(set, shut)
  <2>1. people' = Ho!ToEntry(shut, leaving)
    BY <1>1, <1>5, HoKick
  <2>2. leaving \in SUBSET Ho!Inside(shut)
    OBVIOUS
  <2> HIDE DEF set, shut
  <2>3. people'.ranked = people.ranked
    BY <1>1, <2>1, <2>2, HoEntry
  <2>4. \A q \in Occupants : people'.where[q] = IF q \in leaving THEN "street" ELSE shut.where[q]
    <3> HIDE DEF leaving
    <3> QED BY <1>1, <2>1, <2>2, HoEntry
  <2>5. \A q : Ho!IsInvited(house, q)' <=> Ho!IsInvited(set, q)
    BY <1>5, <2>3 DEF Ho!IsInvited, Ho!GetHouseAccessLevel, Ho!IsInList
  <2>6. \A q \in Ho!Inside(people') : Ho!IsInvited(set, q)
    BY <2>4 DEF Ho!Inside
  <2> QED BY <1>2, <1>5, <2>5, <2>6 DEF HoLeft
<1> QED BY <1>3, <1>4, <1>5 DEF Ho!UpdateHouseWindow

\* Every other step leaves the owner and the lists.
LEMMA HoNextLeft ==
  ASSUME HoGood, Ho!HousesNext
  PROVE  HoLeft
<1>0. ASSUME house'.owner = house.owner, house'.lists = house.lists PROVE HoLeft
  BY <1>0 DEF HoLeft
<1>1. CASE Ho!SetOwnerByScript
  BY <1>1, HoOwnerLeft DEF Ho!SetOwnerByScript, HoGood
<1>2. CASE Ho!ExecuteTransfer
  <2> DEFINE h == [house EXCEPT !.transferItem = {}]
  <2>1. PICK item \in house.transferItem : Ho!SetOwner(h, item.to)
    BY <1>2 DEF Ho!ExecuteTransfer
  <2>2. item.to \in Occupants \cup {None}
    BY DEF HoGood, HoHouse
  <2>3. HoHouse(h) /\ h.owner = house.owner /\ h.lists = house.lists /\ h.lies = house.lies
    BY DEF HoGood, HoHouse
  <2> HIDE DEF h
  <2> QED BY <2>1, <2>2, <2>3, HoOwnerLeft
<1>3. CASE Ho!PayHouses
  <2>1. CASE Ho!SetOwner(house, None)
    BY <2>1, HoOwnerLeft DEF HoGood
  <2>2. CASE house' = house \/ house' = [house EXCEPT !.warnings = @ + 1]
    BY <1>0, <2>2 DEF HoGood, HoHouse
  <2> QED BY <1>3, <2>1, <2>2 DEF Ho!PayHouses
<1>16. CASE Ho!PayHousesOfNobody
  BY <1>16, HoOwnerLeft DEF HoGood, Ho!PayHousesOfNobody
<1>4. ASSUME NEW p \in Occupants, NEW list \in HoEdits, Ho!UpdateHouseWindow(p, list) PROVE HoLeft
  BY <1>4, HoUpdateLeft
<1>5. CASE house' = house
  BY <1>0, <1>5
<1>6. ASSUME NEW x, house' = [house EXCEPT !.transferItem = x] PROVE HoLeft
  BY <1>0, <1>6 DEF HoGood, HoHouse
<1>7. ASSUME NEW x, NEW b, house' = [house EXCEPT !.sleeper[b] = x] PROVE HoLeft
  BY <1>0, <1>7 DEF HoGood, HoHouse
<1>8. ASSUME NEW x, NEW t, house' = [house EXCEPT !.lies[t] = x] PROVE HoLeft
  BY <1>0, <1>8 DEF HoGood, HoHouse
<1>9. CASE Ho!CancelTrade \/ Ho!Restart
  BY <1>5, <1>6, <1>9 DEF Ho!CancelTrade, Ho!Restart
<1>10. ASSUME NEW p \in Occupants, Ho!Login(p) PROVE HoLeft
  BY <1>5, <1>7, <1>10 DEF Ho!Login, Ho!WakeUp
<1>11. ASSUME NEW p \in Occupants, Ho!Leave(p) \/ Ho!ChangeRank(p) PROVE HoLeft
  BY <1>5, <1>6, <1>11 DEF Ho!Leave, Ho!ChangeRank
<1>12. ASSUME NEW p \in Occupants, NEW b \in Beds, Ho!UseBed(p, b) PROVE HoLeft
  BY <1>7, <1>12 DEF Ho!UseBed, Ho!WakeUp
<1>13. ASSUME NEW p \in Occupants, NEW q, Ho!KickPlayer(p, q) \/ Ho!StartTrade(p, q) PROVE HoLeft
  BY <1>5, <1>6, <1>13 DEF Ho!KickPlayer, Ho!StartTrade
<1>14. ASSUME NEW p \in Occupants, NEW x, Ho!SetEditHouse(p, x) \/ Ho!Walk(p, x) PROVE HoLeft
  BY <1>5, <1>14 DEF Ho!SetEditHouse, Ho!Walk
<1>15. ASSUME NEW p \in Occupants, NEW t \in Things, Ho!MoveThing(p, t) PROVE HoLeft
  BY <1>8, <1>15 DEF Ho!MoveThing
<1> QED BY <1>1, <1>2, <1>3, <1>4, <1>9, <1>10, <1>11, <1>12, <1>13, <1>14, <1>15, <1>16 DEF Ho!HousesNext, HoEdits

\* A step of Society is one of the houses, or leaves them as they are.
LEMMA HoPart == [Next]_vars => Ho!HousesNext \/ UNCHANGED houseVars
<1>1. UNCHANGED vars => UNCHANGED houseVars
  BY DEF vars
<1>2. \A part : Only(part) /\ part # "houses" => UNCHANGED houseVars
  BY DEF Only
<1>3. Next => \/ Ho!HousesNext \/ Only("session") \/ Only("chat") \/ Only("persistence") \/ Only("storage")
              \/ Only("scripts") \/ Only("skulls") \/ Only("casting")
  BY DEF Next
<1> QED BY <1>1, <1>2, <1>3

\* Every step of Society keeps it.
LEMMA HoStep == HoGood /\ [Next]_vars => HoGood'
<1> SUFFICES ASSUME HoGood, [Next]_vars PROVE HoGood'
  OBVIOUS
<1>1. CASE UNCHANGED houseVars
  BY <1>1 DEF houseVars, HoGood
<1> QED BY <1>1, HoPart, HoNext

\* Houses and sleepers stay so.
LEMMA HoAlways == Spec => []HoGood
<1>1. Init => HoGood
  <2>1. Init => Ho!HousesInit
    BY DEF Init
  <2> QED BY <2>1, HoInit
<1> QED BY <1>1, HoStep, PTL DEF Spec

\* House::setOwner and setAccessList: whoever becomes the owner, and whatever list is set, nobody
\* is left in the house without being invited, no bed is slept in, and the old owner gets his things.
THEOREM StrangersAlwaysLeave == Spec => StrangersLeave
<1>1. HoGood /\ [Next]_vars => (HoLeft \/ UNCHANGED Ho!houseVars)
  <2> SUFFICES ASSUME HoGood, [Next]_vars PROVE HoLeft \/ UNCHANGED Ho!houseVars
    OBVIOUS
  <2>1. CASE UNCHANGED houseVars
    BY <2>1 DEF houseVars, Ho!houseVars
  <2> QED BY <2>1, HoPart, HoNextLeft
<1>2. HoLeft =>
        (/\ house'.owner # house.owner /\ house.owner # None =>
             /\ Ho!Inside(people') = {}
             /\ \A b \in Beds : house'.sleeper[b] = None
             /\ \A t \in Things : house.lies[t] = Ho!Indoors => house'.lies[t] \in Ho!Destinations(house)
         /\ (\E l \in {"guests", "subOwners"} : house'.lists[l] # house.lists[l]) =>
             \A p \in Ho!Inside(people') : Ho!IsInvited(house, p)')
  BY DEF HoLeft, HoEmptied
<1> QED BY <1>1, <1>2, HoAlways, PTL DEF Spec, StrangersLeave, Ho!StrangersLeave

-----------------------------------------------------------------------------
(* Saved players: every thing is in one place, and a save is whole          *)

PeMem(m) ==
    /\ DOMAIN m = {"carried", "depot", "conditions", "needsSave", "ground"}
    /\ m.carried \in [Persons -> SUBSET Goods] /\ m.depot \in [Persons -> SUBSET Goods]
    /\ m.conditions \in [Persons -> SUBSET Persons]
    /\ m.needsSave \in SUBSET Persons /\ m.ground \in SUBSET Goods
PeDisk(d) ==
    /\ DOMAIN d = {"carried", "depot", "conditions"}
    /\ d.carried \in [Persons -> SUBSET Goods] /\ d.depot \in [Persons -> SUBSET Goods]
    /\ d.conditions \in [Persons -> SUBSET Persons]

\* Where a thing can be, and what is there: in memory for those in the game.
PeGround == <<"ground", "ground">>
PeSpots == {"carried", "depot"} \X Persons
PeAll == {PeGround} \cup PeSpots
PeThere(x, on, m, d) ==
    IF x[1] = "ground" THEN m.ground ELSE IF x[2] \in on THEN m[x[1]][x[2]] ELSE d[x[1]][x[2]]

\* Every thing is in one place, and a depot that needs no save is saved.
PeOnce(on, m, d) == \A g \in Goods : \E x \in PeAll : \A y \in PeAll : g \in PeThere(y, on, m, d) <=> y = x
PeDepots(on, m, d) == \A p \in on : p \notin m.needsSave => m.depot[p] = d.depot[p]

PeGood ==
    /\ loggedIn \in SUBSET Persons /\ PeMem(mem) /\ PeDisk(disk)
    /\ storedConditionList \in SUBSET Persons /\ faults \in BOOLEAN
    /\ PeDepots(loggedIn, mem, disk)
    /\ ~faults => PeOnce(loggedIn, mem, disk)

\* It has the types of saved players.
LEMMA PeTypes == PeGood => Pe!PersistenceTypeOK
BY DEF PeGood, PeMem, PeDisk, Pe!PersistenceTypeOK

\* One place is what the numbers of Conserved say.
PeHeld(g) ==
    {pl \in {"carried", "depot"} \X Persons :
        g \in IF pl[2] \in loggedIn THEN mem[pl[1]][pl[2]] ELSE disk[pl[1]][pl[2]]}
PeOne(g) == Cardinality(PeHeld(g)) + Cardinality({g} \cap mem.ground) = 1

\* Persistence counts as FiniteSets does.
LEMMA PeCardinality == \A S : Pe!Cardinality(S) = Cardinality(S)
BY DEF Pe!Cardinality, Cardinality

\* One place for each thing is what the numbers say.
LEMMA PeCounts == PeGood => Pe!Conserved
<1>0. (~faults => \A g \in Goods : PeOne(g)) => Pe!Conserved
  BY PeCardinality DEF Pe!Conserved, PeHeld, PeOne
<1> SUFFICES ASSUME PeGood, ~faults, NEW g \in Goods PROVE PeOne(g)
  BY <1>0
<1> DEFINE held == PeHeld(g)
           there(y) == PeThere(y, loggedIn, mem, disk)
<1>1. PICK x \in PeAll : \A y \in PeAll : g \in there(y) <=> y = x
  BY DEF PeGood, PeOnce
<1>2. there(PeGround) = mem.ground
  BY DEF PeThere, PeGround
<1>3. held = {pl \in PeSpots : g \in there(pl)}
  <2>1. \A pl \in PeSpots : there(pl) = IF pl[2] \in loggedIn THEN mem[pl[1]][pl[2]] ELSE disk[pl[1]][pl[2]]
    BY DEF PeThere, PeSpots
  <2> QED BY <2>1 DEF PeSpots, PeHeld
<1> HIDE DEF there, held
<1>4. CASE x = PeGround
  <2>1. PeGround \notin PeSpots
    BY DEF PeGround, PeSpots
  <2>2. held = {} /\ {g} \cap mem.ground = {g}
    BY <1>1, <1>2, <1>3, <1>4, <2>1 DEF PeAll
  <2>3. Cardinality(held) = 0 /\ Cardinality({g} \cap mem.ground) = 1
    BY <2>2, FS_EmptySet, FS_Singleton
  <2> QED BY <2>3 DEF held, PeOne
<1>5. CASE x \in PeSpots
  <2>1. PeGround \notin PeSpots
    BY DEF PeGround, PeSpots
  <2>2. held = {x} /\ {g} \cap mem.ground = {}
    BY <1>1, <1>2, <1>3, <1>5, <2>1 DEF PeAll
  <2>3. Cardinality(held) = 1 /\ Cardinality({g} \cap mem.ground) = 0
    BY <2>2, FS_EmptySet, FS_Singleton
  <2> QED BY <2>3 DEF held, PeOne
<1> QED BY <1>4, <1>5 DEF PeAll

\* At first all things are with one player.
LEMMA PeInit == Pe!PersistenceInit => PeGood
<1> SUFFICES ASSUME Pe!PersistenceInit PROVE PeGood
  OBVIOUS
<1> DEFINE c == CHOOSE p \in Persons : TRUE
           all == [Pe!NoGoods EXCEPT ![c] = Goods]
<1>1. c \in Persons
  BY PersistenceAssumption
<1> HIDE DEF c
<1>2. \A p \in Persons : all[p] = IF p = c THEN Goods ELSE {}
  BY DEF Pe!NoGoods
<1>3. all \in [Persons -> SUBSET Goods] /\ Pe!NoGoods \in [Persons -> SUBSET Goods]
      /\ Pe!NoGoods \in [Persons -> SUBSET Persons]
  BY DEF Pe!NoGoods
<1>4. \A p \in Persons : Pe!NoGoods[p] = {}
  BY DEF Pe!NoGoods
<1>5. loggedIn = {} /\ mem = Pe!Nobody /\ storedConditionList = {} /\ faults = FALSE
      /\ disk = [carried |-> all, depot |-> Pe!NoGoods, conditions |-> [p \in Persons |-> Cursed \cap {p}]]
  BY DEF Pe!PersistenceInit, c
<1> HIDE DEF all
<1>6. PeMem(mem) /\ mem.ground = {}
  BY <1>3, <1>5 DEF PeMem, Pe!Nobody
<1>7. [p \in Persons |-> Cursed \cap {p}] \in [Persons -> SUBSET Persons]
  OBVIOUS
<1>8. PeDisk(disk) /\ disk.carried = all /\ disk.depot = Pe!NoGoods
  BY <1>3, <1>5, <1>7 DEF PeDisk
<1>9. PeOnce(loggedIn, mem, disk)
  <2> SUFFICES ASSUME NEW g \in Goods, NEW y \in PeAll
               PROVE  g \in PeThere(y, loggedIn, mem, disk) <=> y = <<"carried", c>>
    <3>1. <<"carried", c>> \in PeAll
      BY <1>1 DEF PeAll, PeSpots
    <3> QED BY <3>1 DEF PeOnce
  <2>1. CASE y = PeGround
    BY <1>6, <2>1 DEF PeThere, PeGround
  <2>2. ASSUME NEW p \in Persons, y = <<"carried", p>> PROVE g \in PeThere(y, loggedIn, mem, disk) <=> y = <<"carried", c>>
    <3>1. PeThere(y, loggedIn, mem, disk) = all[p]
      BY <1>5, <1>8, <2>2 DEF PeThere
    <3> QED BY <1>2, <2>2, <3>1
  <2>3. ASSUME NEW p \in Persons, y = <<"depot", p>> PROVE g \in PeThere(y, loggedIn, mem, disk) <=> y = <<"carried", c>>
    <3>1. PeThere(y, loggedIn, mem, disk) = Pe!NoGoods[p]
      BY <1>5, <1>8, <2>3 DEF PeThere
    <3> QED BY <1>4, <2>3, <3>1
  <2> QED BY <2>1, <2>2, <2>3 DEF PeAll, PeSpots
<1> QED BY <1>5, <1>6, <1>8, <1>9 DEF PeGood, PeDepots

\* What is read and written of one player.
LEMMA PeRow == ASSUME PeGood, NEW p \in Persons PROVE Pe!RowLoaded(p) \in SUBSET Persons
BY DEF PeGood, PeDisk, Pe!RowLoaded

\* A player that is loaded is what the database has.
LEMMA PeLoaded ==
  ASSUME PeGood, NEW m, PeMem(m), NEW p \in Persons
  PROVE  LET l == Pe!Loaded(m, p) IN
         /\ PeMem(l) /\ l.ground = m.ground /\ l.needsSave = m.needsSave \ {p}
         /\ \A q \in Persons : /\ l.carried[q] = IF q = p THEN disk.carried[p] ELSE m.carried[q]
                               /\ l.depot[q] = IF q = p THEN disk.depot[p] ELSE m.depot[q]
<1> DEFINE l == Pe!Loaded(m, p)
<1>1. l = [m EXCEPT !.carried[p] = disk.carried[p], !.depot[p] = disk.depot[p],
                    !.conditions[p] = {}, !.needsSave = m.needsSave \ {p}]
  BY DEF Pe!Loaded
<1>2. disk.carried[p] \in SUBSET Goods /\ disk.depot[p] \in SUBSET Goods
  BY DEF PeGood, PeDisk
<1> HIDE DEF l
<1>3. DOMAIN l = DOMAIN m /\ l.ground = m.ground /\ l.needsSave = m.needsSave \ {p}
      /\ l.carried = [m.carried EXCEPT ![p] = disk.carried[p]] /\ l.depot = [m.depot EXCEPT ![p] = disk.depot[p]]
      /\ l.conditions = [m.conditions EXCEPT ![p] = {}]
  BY <1>1 DEF PeMem
<1>4. PeMem(l)
  BY <1>2, <1>3 DEF PeMem
<1>5. \A q \in Persons : /\ l.carried[q] = IF q = p THEN disk.carried[p] ELSE m.carried[q]
                         /\ l.depot[q] = IF q = p THEN disk.depot[p] ELSE m.depot[q]
  BY <1>3 DEF PeMem
<1> QED BY <1>3, <1>4, <1>5 DEF l

\* A player that is forgotten leaves the others as they are.
LEMMA PeForget ==
  ASSUME NEW m, PeMem(m), NEW p \in Persons
  PROVE  LET l == Pe!Forget(m, p) IN
         /\ PeMem(l) /\ l.ground = m.ground /\ l.needsSave = m.needsSave \ {p}
         /\ \A q \in Persons : q # p => l.carried[q] = m.carried[q] /\ l.depot[q] = m.depot[q]
<1> DEFINE l == Pe!Forget(m, p)
<1>1. l = [m EXCEPT !.carried[p] = {}, !.depot[p] = {}, !.conditions[p] = {}, !.needsSave = m.needsSave \ {p}]
  BY DEF Pe!Forget
<1> HIDE DEF l
<1>3. DOMAIN l = DOMAIN m /\ l.ground = m.ground /\ l.needsSave = m.needsSave \ {p}
      /\ l.carried = [m.carried EXCEPT ![p] = {}] /\ l.depot = [m.depot EXCEPT ![p] = {}]
      /\ l.conditions = [m.conditions EXCEPT ![p] = {}]
  BY <1>1 DEF PeMem
<1>4. PeMem(l)
  BY <1>3 DEF PeMem
<1>5. \A q \in Persons : q # p => l.carried[q] = m.carried[q] /\ l.depot[q] = m.depot[q]
  BY <1>3 DEF PeMem
<1> QED BY <1>3, <1>4, <1>5 DEF l

\* What savePlayer writes of the players it is called for.
LEMMA PeWritten ==
  ASSUME PeGood, NEW m, PeMem(m), NEW ps
  PROVE  LET d == Pe!Written(m, ps) IN
         /\ PeDisk(d)
         /\ \A q \in Persons :
               /\ d.carried[q] = IF q \in ps THEN m.carried[q] ELSE disk.carried[q]
               /\ d.depot[q] = IF q \in ps /\ q \in m.needsSave THEN m.depot[q] ELSE disk.depot[q]
<1> DEFINE d == Pe!Written(m, ps)
           carried == [p \in Persons |-> IF p \in ps THEN m.carried[p] ELSE disk.carried[p]]
           depot == [p \in Persons |-> IF p \in ps THEN Pe!DepotWritten(m, p) ELSE disk.depot[p]]
           rows == [p \in Persons |-> IF p \in ps THEN m.conditions[p] ELSE disk.conditions[p]]
<1>1. d = [carried |-> carried, depot |-> depot, conditions |-> rows]
  BY DEF Pe!Written, Pe!ItemsWritten, Pe!RowWritten
<1>2. carried \in [Persons -> SUBSET Goods]
  BY DEF PeGood, PeDisk, PeMem
<1>3. depot \in [Persons -> SUBSET Goods]
  BY DEF PeGood, PeDisk, PeMem, Pe!DepotWritten
<1>4. rows \in [Persons -> SUBSET Persons]
  BY DEF PeGood, PeDisk, PeMem
<1>5. \A q \in Persons :
         /\ carried[q] = IF q \in ps THEN m.carried[q] ELSE disk.carried[q]
         /\ depot[q] = IF q \in ps /\ q \in m.needsSave THEN m.depot[q] ELSE disk.depot[q]
  BY DEF Pe!DepotWritten
<1> HIDE DEF carried, depot, rows, d
<1>6. PeDisk(d) /\ d.carried = carried /\ d.depot = depot
  BY <1>1, <1>2, <1>3, <1>4 DEF PeDisk
<1> QED BY <1>5, <1>6 DEF d

\* What is in a place depends on what is in it in memory or on the disk.
LEMMA PeOnceSame ==
  ASSUME PeGood, ~faults, NEW on, NEW m, NEW d, m.ground = mem.ground,
         \A q \in Persons :
            LET was == IF q \in loggedIn THEN <<mem.carried[q], mem.depot[q]>> ELSE <<disk.carried[q], disk.depot[q]>>
                is == IF q \in on THEN <<m.carried[q], m.depot[q]>> ELSE <<d.carried[q], d.depot[q]>>
            IN  was = is
  PROVE  PeOnce(on, m, d)
<1>1. \A y \in PeAll : PeThere(y, on, m, d) = PeThere(y, loggedIn, mem, disk)
  <2> TAKE y \in PeAll
  <2>1. CASE y = PeGround
    BY <2>1 DEF PeThere, PeGround
  <2>2. ASSUME NEW q \in Persons, y = <<"carried", q>> PROVE PeThere(y, on, m, d) = PeThere(y, loggedIn, mem, disk)
    BY <2>2 DEF PeThere
  <2>3. ASSUME NEW q \in Persons, y = <<"depot", q>> PROVE PeThere(y, on, m, d) = PeThere(y, loggedIn, mem, disk)
    BY <2>3 DEF PeThere
  <2> QED BY <2>1, <2>2, <2>3 DEF PeAll, PeSpots
<1>2. PeOnce(loggedIn, mem, disk)
  BY DEF PeGood
<1> QED BY <1>1, <1>2 DEF PeOnce

\* Login takes over what the database has.
LEMMA PeLogin == ASSUME PeGood, NEW p \in Persons, Pe!Login(p) PROVE PeGood'
<1> DEFINE l == Pe!Loaded(mem, p)
           m == [l EXCEPT !.conditions[p] = Pe!RowLoaded(p)]
<1>0. p \notin loggedIn /\ disk' = disk /\ faults' = faults
  BY DEF Pe!Login
<1>1. CASE loggedIn' = loggedIn \cup {p} /\ mem' = m /\ storedConditionList' = {}
  <2>1. /\ PeMem(l) /\ l.ground = mem.ground /\ l.needsSave = mem.needsSave \ {p}
        /\ \A q \in Persons : /\ l.carried[q] = IF q = p THEN disk.carried[p] ELSE mem.carried[q]
                              /\ l.depot[q] = IF q = p THEN disk.depot[p] ELSE mem.depot[q]
    BY PeLoaded DEF PeGood
  <2>2. Pe!RowLoaded(p) \in SUBSET Persons
    BY PeRow
  <2> HIDE DEF l
  <2>3. PeMem(m) /\ m.ground = l.ground /\ m.needsSave = l.needsSave /\ m.carried = l.carried /\ m.depot = l.depot
    BY <2>1, <2>2 DEF PeMem
  <2> HIDE DEF m
  <2>4. PeMem(mem') /\ mem'.ground = mem.ground /\ mem'.needsSave = mem.needsSave \ {p}
        /\ \A q \in Persons : /\ mem'.carried[q] = IF q = p THEN disk.carried[p] ELSE mem.carried[q]
                              /\ mem'.depot[q] = IF q = p THEN disk.depot[p] ELSE mem.depot[q]
    BY <1>1, <2>1, <2>3
  <2>5. PeDepots(loggedIn', mem', disk')
    BY <1>0, <1>1, <2>4 DEF PeGood, PeDepots
  <2>6. ~faults' => PeOnce(loggedIn', mem', disk')
    <3> SUFFICES ASSUME ~faults PROVE PeOnce(loggedIn', mem', disk')
      BY <1>0
    <3>1. \A q \in Persons :
            (IF q \in loggedIn THEN <<mem.carried[q], mem.depot[q]>> ELSE <<disk.carried[q], disk.depot[q]>>)
              = (IF q \in loggedIn' THEN <<mem'.carried[q], mem'.depot[q]>> ELSE <<disk'.carried[q], disk'.depot[q]>>)
      BY <1>0, <1>1, <2>4
    <3> QED BY <2>4, <3>1, PeOnceSame
  <2> QED BY <1>0, <1>1, <2>4, <2>5, <2>6 DEF PeGood
<1>2. CASE storedConditionList' = Pe!RowLoaded(p) /\ loggedIn' = loggedIn /\ mem' = mem
  <2>1. Pe!RowLoaded(p) \in SUBSET Persons
    BY PeRow
  <2> QED BY <1>0, <1>2, <2>1 DEF PeGood
<1> QED BY <1>1, <1>2 DEF Pe!Login

\* Logout leaves to the database what was in memory, unless it fails.
LEMMA PeLogout == ASSUME PeGood, NEW p \in Persons, Pe!Logout(p) PROVE PeGood'
<1>0. p \in loggedIn /\ loggedIn' = loggedIn \ {p} /\ storedConditionList' = storedConditionList /\ mem' = Pe!Forget(mem, p)
  BY DEF Pe!Logout
<1>1. PICK saved \in SUBSET {p} : disk' = Pe!Written(mem, saved) /\ faults' = (faults \/ saved # {p})
  BY DEF Pe!Logout
<1>2. /\ PeMem(mem') /\ mem'.ground = mem.ground /\ mem'.needsSave = mem.needsSave \ {p}
      /\ \A q \in Persons : q # p => mem'.carried[q] = mem.carried[q] /\ mem'.depot[q] = mem.depot[q]
  BY <1>0, PeForget DEF PeGood
<1>3. /\ PeDisk(disk')
      /\ \A q \in Persons :
               /\ disk'.carried[q] = IF q \in saved THEN mem.carried[q] ELSE disk.carried[q]
               /\ disk'.depot[q] = IF q \in saved /\ q \in mem.needsSave THEN mem.depot[q] ELSE disk.depot[q]
  BY <1>1, PeWritten DEF PeGood
<1>4. PeDepots(loggedIn', mem', disk')
  BY <1>0, <1>2, <1>3 DEF PeGood, PeDepots
<1>5. ~faults' => PeOnce(loggedIn', mem', disk')
  <2> SUFFICES ASSUME ~faults' PROVE PeOnce(loggedIn', mem', disk')
    OBVIOUS
  <2>1. ~faults /\ saved = {p}
    BY <1>1 DEF PeGood
  <2>2. disk'.depot[p] = mem.depot[p] /\ disk'.carried[p] = mem.carried[p]
    BY <1>0, <1>3, <2>1 DEF PeGood, PeDepots
  <2>3. \A q \in Persons :
            (IF q \in loggedIn THEN <<mem.carried[q], mem.depot[q]>> ELSE <<disk.carried[q], disk.depot[q]>>)
              = (IF q \in loggedIn' THEN <<mem'.carried[q], mem'.depot[q]>> ELSE <<disk'.carried[q], disk'.depot[q]>>)
    <3> TAKE q \in Persons
    <3>1. CASE q = p
      BY <1>0, <2>2, <3>1
    <3>2. CASE q # p
      BY <1>0, <1>2, <1>3, <2>1, <3>2
    <3> QED BY <3>1, <3>2
  <2> QED BY <1>2, <2>1, <2>3, PeOnceSame
<1> QED BY <1>0, <1>1, <1>2, <1>3, <1>4, <1>5 DEF PeGood

\* Game::saveGameState writes the players in the game.
LEMMA PeSave == ASSUME PeGood, Pe!SaveGameState PROVE PeGood'
<1>0. loggedIn' = loggedIn /\ mem' = mem /\ storedConditionList' = storedConditionList
  BY DEF Pe!SaveGameState
<1>1. PICK saved \in SUBSET loggedIn : disk' = Pe!Written(mem, saved) /\ faults' = (faults \/ saved # loggedIn)
  BY DEF Pe!SaveGameState
<1>3. /\ PeDisk(disk')
      /\ \A q \in Persons :
               /\ disk'.carried[q] = IF q \in saved THEN mem.carried[q] ELSE disk.carried[q]
               /\ disk'.depot[q] = IF q \in saved /\ q \in mem.needsSave THEN mem.depot[q] ELSE disk.depot[q]
  BY <1>1, PeWritten DEF PeGood
<1>4. PeDepots(loggedIn', mem', disk')
  BY <1>0, <1>3 DEF PeGood, PeDepots
<1>5. ~faults' => PeOnce(loggedIn', mem', disk')
  <2> SUFFICES ASSUME ~faults' PROVE PeOnce(loggedIn', mem', disk')
    OBVIOUS
  <2>1. ~faults
    BY <1>1 DEF PeGood
  <2>2. \A q \in Persons :
            (IF q \in loggedIn THEN <<mem.carried[q], mem.depot[q]>> ELSE <<disk.carried[q], disk.depot[q]>>)
              = (IF q \in loggedIn' THEN <<mem'.carried[q], mem'.depot[q]>> ELSE <<disk'.carried[q], disk'.depot[q]>>)
    BY <1>0, <1>1, <1>3
  <2> QED BY <1>0, <2>1, <2>2, PeOnceSame
<1> QED BY <1>0, <1>1, <1>3, <1>4, <1>5 DEF PeGood

\* One place gets its things, and the owner of a depot is told to save it.
PeFilled(m, t, pl, things) ==
    /\ PeMem(t) /\ t.conditions = m.conditions
    /\ Pe!In(t, pl) = things
    /\ \A y \in PeAll : y # pl => Pe!In(t, y) = Pe!In(m, y)
    /\ m.needsSave \subseteq t.needsSave
    /\ \A p \in Persons : p \notin t.needsSave => t.depot[p] = m.depot[p]

\* Putting something in a place changes that place only.
LEMMA PePut ==
  ASSUME NEW m, PeMem(m), NEW pl \in PeAll, NEW things \in SUBSET Goods
  PROVE  PeFilled(m, Pe!NeedsSave(Pe!Put(m, pl, things), pl), pl, things)
<1> DEFINE put == Pe!Put(m, pl, things)
           t == Pe!NeedsSave(put, pl)
<1>1. CASE pl = PeGround
  <2>1. put = [m EXCEPT !.ground = things] /\ t = put
    BY <1>1 DEF Pe!Put, Pe!NeedsSave, PeGround
  <2>2. PeMem(t) /\ t.conditions = m.conditions /\ t.ground = things /\ t.needsSave = m.needsSave
        /\ t.depot = m.depot /\ t.carried = m.carried
    BY <2>1 DEF PeMem
  <2> HIDE DEF put, t
  <2>3. Pe!In(t, pl) = things
    BY <1>1, <2>2 DEF Pe!In, PeGround
  <2>4. \A y \in PeAll : y # pl => Pe!In(t, y) = Pe!In(m, y)
    BY <1>1, <2>2 DEF Pe!In, PeAll, PeSpots
  <2>5. PeFilled(m, t, pl, things)
    BY <2>2, <2>3, <2>4 DEF PeFilled
  <2> QED BY <2>5 DEF t, put
<1>2. ASSUME NEW p \in Persons, pl = <<"carried", p>> PROVE PeFilled(m, t, pl, things)
  <2>1. put = [m EXCEPT !.carried[p] = things] /\ t = put
    BY <1>2 DEF Pe!Put, Pe!NeedsSave
  <2>2. DOMAIN t = DOMAIN m /\ t.conditions = m.conditions /\ t.ground = m.ground /\ t.needsSave = m.needsSave
        /\ t.depot = m.depot /\ t.carried = [m.carried EXCEPT ![p] = things]
    BY <2>1 DEF PeMem
  <2> HIDE DEF put, t
  <2>3. PeMem(t) /\ \A q \in Persons : t.carried[q] = IF q = p THEN things ELSE m.carried[q]
    BY <2>2 DEF PeMem
  <2>4. Pe!In(t, pl) = things
    BY <1>2, <2>3 DEF Pe!In
  <2>5. \A y \in PeAll : y # pl => Pe!In(t, y) = Pe!In(m, y)
    <3>1. Pe!In(t, PeGround) = Pe!In(m, PeGround)
      BY <2>2 DEF Pe!In, PeGround
    <3>2. \A q \in Persons : <<"carried", q>> # pl => Pe!In(t, <<"carried", q>>) = Pe!In(m, <<"carried", q>>)
      BY <1>2, <2>2, <2>3 DEF Pe!In
    <3>3. \A q \in Persons : <<"depot", q>> # pl => Pe!In(t, <<"depot", q>>) = Pe!In(m, <<"depot", q>>)
      BY <1>2, <2>2, <2>3 DEF Pe!In
    <3> QED BY <3>1, <3>2, <3>3 DEF PeAll, PeSpots
  <2> QED BY <2>2, <2>3, <2>4, <2>5 DEF PeFilled
<1>3. ASSUME NEW p \in Persons, pl = <<"depot", p>> PROVE PeFilled(m, t, pl, things)
  <2>1. put = [m EXCEPT !.depot[p] = things]
    BY <1>3 DEF Pe!Put
  <2>2. DOMAIN put = DOMAIN m /\ put.conditions = m.conditions /\ put.ground = m.ground /\ put.needsSave = m.needsSave
        /\ put.carried = m.carried /\ put.depot = [m.depot EXCEPT ![p] = things]
    BY <2>1 DEF PeMem
  <2> HIDE DEF put
  <2>3. t = [put EXCEPT !.needsSave = put.needsSave \cup {p}]
    BY <1>3 DEF Pe!NeedsSave
  <2> HIDE DEF t
  <2>4. DOMAIN t = DOMAIN m /\ t.conditions = m.conditions /\ t.ground = m.ground /\ t.needsSave = m.needsSave \cup {p}
        /\ t.carried = m.carried /\ t.depot = [m.depot EXCEPT ![p] = things]
    BY <2>2, <2>3 DEF PeMem
  <2>5. PeMem(t) /\ \A q \in Persons : t.depot[q] = IF q = p THEN things ELSE m.depot[q]
    BY <2>4 DEF PeMem
  <2>6. Pe!In(t, pl) = things
    BY <1>3, <2>5 DEF Pe!In
  <2>7. \A y \in PeAll : y # pl => Pe!In(t, y) = Pe!In(m, y)
    <3>1. Pe!In(t, PeGround) = Pe!In(m, PeGround)
      BY <2>4 DEF Pe!In, PeGround
    <3>2. \A q \in Persons : <<"carried", q>> # pl => Pe!In(t, <<"carried", q>>) = Pe!In(m, <<"carried", q>>)
      BY <1>3, <2>4, <2>5 DEF Pe!In
    <3>3. \A q \in Persons : <<"depot", q>> # pl => Pe!In(t, <<"depot", q>>) = Pe!In(m, <<"depot", q>>)
      BY <1>3, <2>4, <2>5 DEF Pe!In
    <3> QED BY <3>1, <3>2, <3>3 DEF PeAll, PeSpots
  <2>8. \A q \in Persons : q \notin t.needsSave => t.depot[q] = m.depot[q]
    BY <2>4, <2>5
  <2> QED BY <2>4, <2>5, <2>6, <2>7, <2>8 DEF PeFilled
<1> HIDE DEF t, put
<1> QED BY <1>1, <1>2, <1>3 DEF PeAll, PeSpots, t, put

\* A thing that goes from one place to another is in one place.
LEMMA PeOnceMoved ==
  ASSUME PeGood, ~faults, NEW on, NEW m, NEW d, NEW g \in Goods, NEW from \in PeAll, NEW to \in PeAll, from # to,
         g \in PeThere(from, loggedIn, mem, disk),
         \A y \in PeAll : PeThere(y, on, m, d) =
            IF y = from THEN PeThere(y, loggedIn, mem, disk) \ {g}
            ELSE IF y = to THEN PeThere(y, loggedIn, mem, disk) \cup {g} ELSE PeThere(y, loggedIn, mem, disk)
  PROVE  PeOnce(on, m, d)
<1>1. PeOnce(loggedIn, mem, disk)
  BY DEF PeGood
<1>2. \A y \in PeAll : g \in PeThere(y, loggedIn, mem, disk) <=> y = from
  BY <1>1 DEF PeOnce
<1> SUFFICES ASSUME NEW h \in Goods PROVE \E x \in PeAll : \A y \in PeAll : h \in PeThere(y, on, m, d) <=> y = x
  BY DEF PeOnce
<1>3. CASE h = g
  <2>1. \A y \in PeAll : h \in PeThere(y, on, m, d) <=> y = to
    BY <1>2, <1>3
  <2> QED BY <2>1
<1>4. CASE h # g
  <2>1. \A y \in PeAll : h \in PeThere(y, on, m, d) <=> h \in PeThere(y, loggedIn, mem, disk)
    BY <1>4
  <2> QED BY <1>1, <2>1 DEF PeOnce
<1> QED BY <1>3, <1>4

\* The places within reach: the ground, and those of the players in the game.
LEMMA PePlaces == \A x : x \in Pe!Places <=> x = PeGround \/ x \in {"carried", "depot"} \X loggedIn
BY DEF Pe!Places, PeGround

\* In a place of those in the game is what memory says.
LEMMA PeInThere ==
  ASSUME NEW x \in Pe!Places, NEW m, NEW d
  PROVE  Pe!In(m, x) = PeThere(x, loggedIn, m, d)
<1>1. CASE x = PeGround
  BY <1>1 DEF Pe!In, PeThere, PeGround
<1>2. CASE x \in {"carried", "depot"} \X loggedIn
  BY <1>2 DEF Pe!In, PeThere
<1> QED BY <1>1, <1>2, PePlaces

\* Game::internalMoveItem: the thing leaves one place for the other.
LEMMA PeMove ==
  ASSUME PeGood, NEW g \in Goods, NEW from \in Pe!Places, NEW to \in Pe!Places, Pe!MoveItem(g, from, to)
  PROVE  PeGood'
<1> DEFINE out == Pe!In(mem, from) \ {g}
           taken == Pe!NeedsSave(Pe!Put(mem, from, out), from)
           into == Pe!In(taken, to) \cup {g}
<1>1. /\ from # to /\ g \in Pe!In(mem, from)
      /\ mem' = Pe!NeedsSave(Pe!Put(taken, to, into), to)
      /\ loggedIn' = loggedIn /\ disk' = disk /\ storedConditionList' = storedConditionList /\ faults' = faults
  BY DEF Pe!MoveItem
<1>2. from \in PeAll /\ to \in PeAll
  BY PePlaces DEF PeAll, PeSpots, PeGood
<1>3. \A m : PeMem(m) => \A x \in PeAll : Pe!In(m, x) \in SUBSET Goods
  BY DEF PeMem, PeAll, PeSpots, PeGround, Pe!In
<1>4. out \in SUBSET Goods
  BY <1>2, <1>3 DEF PeGood
<1> HIDE DEF out
<1>5. PeFilled(mem, taken, from, out)
  BY <1>2, <1>4, PePut DEF PeGood
<1> HIDE DEF taken
<1>6. into \in SUBSET Goods /\ Pe!In(taken, to) = Pe!In(mem, to)
  BY <1>1, <1>2, <1>3, <1>5 DEF PeFilled
<1> HIDE DEF into
<1>7. PeFilled(taken, mem', to, into)
  BY <1>1, <1>2, <1>5, <1>6, PePut DEF PeFilled
<1>8. PeDepots(loggedIn', mem', disk')
  BY <1>1, <1>5, <1>7 DEF PeDepots, PeFilled, PeGood
<1>9. ~faults' => PeOnce(loggedIn', mem', disk')
  <2> SUFFICES ASSUME ~faults PROVE PeOnce(loggedIn, mem', disk)
    BY <1>1
  <2>1. \A y \in Pe!Places : Pe!In(mem', y) = PeThere(y, loggedIn, mem', disk) /\ Pe!In(mem, y) = PeThere(y, loggedIn, mem, disk)
    BY PeInThere
  <2>2. \A y \in PeAll : y \notin Pe!Places => PeThere(y, loggedIn, mem', disk) = PeThere(y, loggedIn, mem, disk)
    BY PePlaces DEF PeThere, PeAll, PeSpots
  <2>3. \A y \in PeAll : Pe!In(mem', y) =
            IF y = from THEN Pe!In(mem, y) \ {g} ELSE IF y = to THEN Pe!In(mem, y) \cup {g} ELSE Pe!In(mem, y)
    BY <1>1, <1>2, <1>5, <1>6, <1>7 DEF PeFilled, out, into
  <2>4. \A y \in PeAll : PeThere(y, loggedIn, mem', disk) =
            IF y = from THEN PeThere(y, loggedIn, mem, disk) \ {g}
            ELSE IF y = to THEN PeThere(y, loggedIn, mem, disk) \cup {g} ELSE PeThere(y, loggedIn, mem, disk)
    BY <2>1, <2>2, <2>3
  <2>5. g \in PeThere(from, loggedIn, mem, disk)
    BY <1>1, <2>1
  <2> QED BY <1>1, <1>2, <2>4, <2>5, PeOnceMoved
<1> QED BY <1>1, <1>7, <1>8, <1>9 DEF PeGood, PeFilled

\* Mailbox::sendItem, to a player in the game or to one that is loaded and saved for it.
LEMMA PeSend ==
  ASSUME PeGood, NEW g \in Goods, NEW p \in Persons, Pe!SendItem(g, p)
  PROVE  PeGood'
<1> DEFINE sent == [mem EXCEPT !.ground = mem.ground \ {g}]
           there == Pe!Loaded(sent, p)
           given(m) == [m EXCEPT !.depot[p] = @ \cup {g}, !.needsSave = @ \cup {p}]
           box == <<"depot", p>>
<1>1. g \in mem.ground /\ loggedIn' = loggedIn
  BY DEF Pe!SendItem
<1>2. PeMem(sent) /\ sent.ground = mem.ground \ {g} /\ sent.carried = mem.carried /\ sent.depot = mem.depot
      /\ sent.needsSave = mem.needsSave
  BY DEF PeGood, PeMem
<1>3. \A m : PeMem(m) =>
        /\ PeMem(given(m)) /\ given(m).ground = m.ground /\ given(m).carried = m.carried
        /\ given(m).needsSave = m.needsSave \cup {p}
        /\ \A q \in Persons : given(m).depot[q] = IF q = p THEN m.depot[p] \cup {g} ELSE m.depot[q]
  BY DEF PeMem
<1>4. box \in PeAll /\ PeGround \in PeAll /\ box # PeGround
  BY DEF PeAll, PeSpots, PeGround
<1>5. PeThere(PeGround, loggedIn, mem, disk) = mem.ground
  BY DEF PeThere, PeGround
<1>6. ASSUME ~faults, NEW m, NEW d, m.ground = mem.ground \ {g},
             \A q \in Persons : PeThere(<<"carried", q>>, loggedIn, m, d) = PeThere(<<"carried", q>>, loggedIn, mem, disk),
             \A q \in Persons : PeThere(<<"depot", q>>, loggedIn, m, d) =
                IF q = p THEN PeThere(box, loggedIn, mem, disk) \cup {g} ELSE PeThere(<<"depot", q>>, loggedIn, mem, disk)
      PROVE  PeOnce(loggedIn, m, d)
  <2>1. PeThere(PeGround, loggedIn, m, d) = PeThere(PeGround, loggedIn, mem, disk) \ {g}
    BY <1>6 DEF PeThere, PeGround
  <2>2. \A y \in PeAll : PeThere(y, loggedIn, m, d) =
            IF y = PeGround THEN PeThere(y, loggedIn, mem, disk) \ {g}
            ELSE IF y = box THEN PeThere(y, loggedIn, mem, disk) \cup {g} ELSE PeThere(y, loggedIn, mem, disk)
    <3>1. \A q \in Persons : <<"carried", q>> # PeGround /\ <<"carried", q>> # box /\ <<"depot", q>> # PeGround
                            /\ (<<"depot", q>> = box <=> q = p)
      BY DEF PeGround
    <3> HIDE DEF box
    <3>2. \A q \in Persons : \A y : y = <<"carried", q>> =>
             PeThere(y, loggedIn, m, d) =
            IF y = PeGround THEN PeThere(y, loggedIn, mem, disk) \ {g}
            ELSE IF y = box THEN PeThere(y, loggedIn, mem, disk) \cup {g} ELSE PeThere(y, loggedIn, mem, disk)
      BY <1>6, <3>1
    <3>3. \A q \in Persons : \A y : y = <<"depot", q>> =>
             PeThere(y, loggedIn, m, d) =
            IF y = PeGround THEN PeThere(y, loggedIn, mem, disk) \ {g}
            ELSE IF y = box THEN PeThere(y, loggedIn, mem, disk) \cup {g} ELSE PeThere(y, loggedIn, mem, disk)
      BY <1>6, <3>1
    <3>4. \A y \in PeAll : y = PeGround \/ (\E q \in Persons : y = <<"carried", q>>) \/ (\E q \in Persons : y = <<"depot", q>>)
      BY DEF PeAll, PeSpots
    <3> QED BY <2>1, <3>2, <3>3, <3>4
  <2> QED BY <1>1, <1>4, <1>5, <1>6, <2>2, PeOnceMoved
<1>7. CASE p \in loggedIn
  <2>1. mem' = given(sent) /\ disk' = disk /\ storedConditionList' = storedConditionList /\ faults' = faults
    BY <1>7 DEF Pe!SendItem
  <2> HIDE DEF given, sent
  <2>2. /\ PeMem(mem') /\ mem'.ground = mem.ground \ {g} /\ mem'.carried = mem.carried
        /\ mem'.needsSave = mem.needsSave \cup {p}
        /\ \A q \in Persons : mem'.depot[q] = IF q = p THEN mem.depot[p] \cup {g} ELSE mem.depot[q]
    <3>1. /\ PeMem(given(sent)) /\ given(sent).ground = sent.ground /\ given(sent).carried = sent.carried
          /\ given(sent).needsSave = sent.needsSave \cup {p}
          /\ \A q \in Persons : given(sent).depot[q] = IF q = p THEN sent.depot[p] \cup {g} ELSE sent.depot[q]
      BY <1>2, <1>3
    <3> QED BY <1>2, <2>1, <3>1
  <2>3. PeDepots(loggedIn', mem', disk')
    BY <1>1, <2>1, <2>2 DEF PeGood, PeDepots
  <2>4. ~faults => PeOnce(loggedIn, mem', disk)
    <3> SUFFICES ASSUME ~faults PROVE PeOnce(loggedIn, mem', disk)
      OBVIOUS
    <3>1. \A q \in Persons : PeThere(<<"carried", q>>, loggedIn, mem', disk) = PeThere(<<"carried", q>>, loggedIn, mem, disk)
      BY <2>2 DEF PeThere
    <3>2. \A q \in Persons : PeThere(<<"depot", q>>, loggedIn, mem', disk) =
                IF q = p THEN PeThere(box, loggedIn, mem, disk) \cup {g} ELSE PeThere(<<"depot", q>>, loggedIn, mem, disk)
      BY <1>7, <2>2 DEF PeThere
    <3> QED BY <1>6, <2>2, <3>1, <3>2
  <2> QED BY <1>1, <2>1, <2>2, <2>3, <2>4 DEF PeGood
<1>8. CASE p \notin loggedIn
  <2>1. mem' = sent /\ storedConditionList' = Pe!RowLoaded(p)
    BY <1>8 DEF Pe!SendItem
  <2>2. PICK saved \in SUBSET {p} : disk' = Pe!Written(given(there), saved) /\ faults' = (faults \/ saved # {p})
    BY <1>8 DEF Pe!SendItem
  <2>3. /\ PeMem(there)
        /\ \A q \in Persons : /\ there.carried[q] = IF q = p THEN disk.carried[p] ELSE sent.carried[q]
                              /\ there.depot[q] = IF q = p THEN disk.depot[p] ELSE sent.depot[q]
    BY <1>2, PeLoaded
  <2> DEFINE full == given(there)
  <2>4. /\ PeMem(full) /\ full.carried = there.carried /\ p \in full.needsSave
        /\ \A q \in Persons : full.depot[q] = IF q = p THEN there.depot[p] \cup {g} ELSE there.depot[q]
    BY <1>3, <2>3
  <2> HIDE DEF full, there, given
  <2>5. /\ PeDisk(disk')
        /\ \A q \in Persons :
               /\ disk'.carried[q] = IF q \in saved THEN full.carried[q] ELSE disk.carried[q]
               /\ disk'.depot[q] = IF q \in saved /\ q \in full.needsSave THEN full.depot[q] ELSE disk.depot[q]
    BY <2>2, <2>4, PeWritten DEF full
  <2>6. \A q \in Persons :
           /\ disk'.carried[q] = disk.carried[q]
           /\ disk'.depot[q] = IF q \in saved THEN disk.depot[p] \cup {g} ELSE disk.depot[q]
    BY <2>3, <2>4, <2>5
  <2>7. PeDepots(loggedIn', mem', disk')
    BY <1>1, <1>2, <1>8, <2>1, <2>6 DEF PeGood, PeDepots
  <2>8. ~faults' => PeOnce(loggedIn, mem', disk')
    <3> SUFFICES ASSUME ~faults' PROVE PeOnce(loggedIn, mem', disk')
      OBVIOUS
    <3>1. ~faults /\ saved = {p}
      BY <2>2 DEF PeGood
    <3>2. \A q \in Persons : PeThere(<<"carried", q>>, loggedIn, mem', disk') = PeThere(<<"carried", q>>, loggedIn, mem, disk)
      <4>1. \A q \in Persons : PeThere(<<"carried", q>>, loggedIn, mem', disk') = IF q \in loggedIn THEN mem'.carried[q] ELSE disk'.carried[q]
        BY DEF PeThere
      <4>2. \A q \in Persons : PeThere(<<"carried", q>>, loggedIn, mem, disk) = IF q \in loggedIn THEN mem.carried[q] ELSE disk.carried[q]
        BY DEF PeThere
      <4>3. mem'.carried = mem.carried
        BY <1>2, <2>1
      <4> QED BY <2>6, <4>1, <4>2, <4>3
    <3>3. \A q \in Persons : PeThere(<<"depot", q>>, loggedIn, mem', disk') =
                IF q = p THEN PeThere(box, loggedIn, mem, disk) \cup {g} ELSE PeThere(<<"depot", q>>, loggedIn, mem, disk)
      <4>1. \A q \in Persons : PeThere(<<"depot", q>>, loggedIn, mem', disk') = IF q \in loggedIn THEN mem'.depot[q] ELSE disk'.depot[q]
        BY DEF PeThere
      <4>2. \A q \in Persons : PeThere(<<"depot", q>>, loggedIn, mem, disk) = IF q \in loggedIn THEN mem.depot[q] ELSE disk.depot[q]
        BY DEF PeThere
      <4>3. mem'.depot = mem.depot
        BY <1>2, <2>1
      <4> QED BY <1>8, <2>6, <3>1, <4>1, <4>2, <4>3
    <3>4. mem'.ground = mem.ground \ {g}
      BY <1>2, <2>1
    <3> QED BY <1>6, <3>1, <3>2, <3>3, <3>4
  <2>9. faults' \in BOOLEAN /\ storedConditionList' \in SUBSET Persons
    BY <2>1, <2>2, PeRow DEF PeGood
  <2> QED BY <1>1, <1>2, <2>1, <2>5, <2>7, <2>8, <2>9 DEF PeGood
<1> QED BY <1>7, <1>8

\* A crash forgets the memory, and is a fault.
LEMMA PeCrash == ASSUME PeGood, Pe!Crash PROVE PeGood'
<1>1. loggedIn' = {} /\ mem' = Pe!Nobody /\ storedConditionList' = {} /\ faults' = TRUE /\ disk' = disk
  BY DEF Pe!Crash
<1>2. PeMem(mem')
  BY <1>1 DEF PeMem, Pe!Nobody, Pe!NoGoods
<1> QED BY <1>1, <1>2 DEF PeGood, PeDepots

\* Every step of saved players keeps it.
LEMMA PeNext == ASSUME PeGood, Pe!PersistenceNext PROVE PeGood'
<1>1. ASSUME NEW p \in Persons, Pe!Login(p) \/ Pe!Logout(p) PROVE PeGood'
  BY <1>1, PeLogin, PeLogout
<1>2. ASSUME NEW p \in Persons, NEW g \in Goods, Pe!SendItem(g, p) PROVE PeGood'
  BY <1>2, PeSend
<1>3. ASSUME NEW g \in Goods, NEW from \in Pe!Places, NEW to \in Pe!Places, Pe!MoveItem(g, from, to) PROVE PeGood'
  BY <1>3, PeMove
<1>4. CASE Pe!SaveGameState \/ Pe!Crash
  BY <1>4, PeSave, PeCrash
<1> QED BY <1>1, <1>2, <1>3, <1>4 DEF Pe!PersistenceNext

\* A step of Society is one of saved players, or leaves them as they are.
LEMMA PePart == [Next]_vars => Pe!PersistenceNext \/ UNCHANGED persistenceVars
<1>1. UNCHANGED vars => UNCHANGED persistenceVars
  BY DEF vars
<1>2. \A part : Only(part) /\ part # "persistence" => UNCHANGED persistenceVars
  BY DEF Only
<1>3. Next => \/ Pe!PersistenceNext \/ Only("session") \/ Only("chat") \/ Only("houses") \/ Only("storage")
              \/ Only("scripts") \/ Only("skulls") \/ Only("casting")
  BY DEF Next
<1> QED BY <1>1, <1>2, <1>3

\* Every step of Society keeps it.
LEMMA PeStep == PeGood /\ [Next]_vars => PeGood'
<1> SUFFICES ASSUME PeGood, [Next]_vars PROVE PeGood'
  OBVIOUS
<1>1. CASE UNCHANGED persistenceVars
  BY <1>1 DEF persistenceVars, PeGood
<1> QED BY <1>1, PePart, PeNext

\* Saved players stay so.
LEMMA PeAlways == Spec => []PeGood
<1>1. Init => PeGood
  <2>1. Init => Pe!PersistenceInit
    BY DEF Init
  <2> QED BY <2>1, PeInit
<1> QED BY <1>1, PeStep, PTL DEF Spec

\* What SavedWhole says of a step.
PeWhole ==
    \A p \in loggedIn :
       <<disk.carried[p], disk.depot[p]>>' # <<disk.carried[p], disk.depot[p]>> =>
          <<disk.carried[p], disk.depot[p]>>' = <<mem.carried[p], mem.depot[p]>>

\* Every write of a player in the game is of all it has.
LEMMA PeNextWhole == ASSUME PeGood, Pe!PersistenceNext PROVE PeWhole
<1>0. CASE disk' = disk
  BY <1>0 DEF PeWhole
<1>1. ASSUME NEW m, PeMem(m), NEW ps, disk' = Pe!Written(m, ps),
             \A q \in loggedIn \cap ps : m.carried[q] = mem.carried[q] /\ m.depot[q] = mem.depot[q] /\ m.needsSave = mem.needsSave
      PROVE  PeWhole
  <2>1. \A q \in Persons :
               /\ disk'.carried[q] = IF q \in ps THEN m.carried[q] ELSE disk.carried[q]
               /\ disk'.depot[q] = IF q \in ps /\ q \in m.needsSave THEN m.depot[q] ELSE disk.depot[q]
    BY <1>1, PeWritten
  <2> SUFFICES ASSUME NEW p \in loggedIn, p \in ps
               PROVE  <<disk'.carried[p], disk'.depot[p]>> = <<mem.carried[p], mem.depot[p]>>
    BY <2>1 DEF PeWhole, PeGood
  <2>2. p \notin mem.needsSave => mem.depot[p] = disk.depot[p]
    BY DEF PeGood, PeDepots
  <2> QED BY <1>1, <2>1, <2>2 DEF PeGood
<1>2. ASSUME NEW p \in Persons, Pe!Logout(p) PROVE PeWhole
  <2>1. PICK saved \in SUBSET {p} : disk' = Pe!Written(mem, saved)
    BY <1>2 DEF Pe!Logout
  <2> QED BY <1>1, <2>1 DEF PeGood
<1>3. CASE Pe!SaveGameState
  <2>1. PICK saved \in SUBSET loggedIn : disk' = Pe!Written(mem, saved)
    BY <1>3 DEF Pe!SaveGameState
  <2> QED BY <1>1, <2>1 DEF PeGood
<1>4. ASSUME NEW p \in Persons, NEW g \in Goods, Pe!SendItem(g, p), p \notin loggedIn PROVE PeWhole
  <2> DEFINE sent == [mem EXCEPT !.ground = mem.ground \ {g}]
             there == Pe!Loaded(sent, p)
             full == [there EXCEPT !.depot[p] = @ \cup {g}, !.needsSave = @ \cup {p}]
  <2>1. PICK saved \in SUBSET {p} : disk' = Pe!Written(full, saved)
    BY <1>4 DEF Pe!SendItem
  <2>2. PeMem(sent)
    BY DEF PeGood, PeMem
  <2>3. PeMem(there)
    BY <2>2, PeLoaded
  <2> HIDE DEF there
  <2>4. PeMem(full)
    BY <1>4, <2>3 DEF PeMem
  <2>5. loggedIn \cap saved = {}
    BY <1>4, <2>1
  <2> HIDE DEF full
  <2> QED BY <1>1, <2>1, <2>4, <2>5
<1>5. ASSUME NEW p \in Persons, NEW g \in Goods, Pe!SendItem(g, p), p \in loggedIn PROVE PeWhole
  BY <1>0, <1>5 DEF Pe!SendItem
<1>6. CASE Pe!Crash \/ \E p \in Persons : Pe!Login(p)
  BY <1>0, <1>6 DEF Pe!Crash, Pe!Login
<1>7. CASE \E g \in Goods : \E from, to \in Pe!Places : Pe!MoveItem(g, from, to)
  BY <1>0, <1>7 DEF Pe!MoveItem
<1> QED BY <1>2, <1>3, <1>4, <1>5, <1>6, <1>7 DEF Pe!PersistenceNext

\* IOLoginData::savePlayer: whatever is written of a player in the game is what the player carries
\* and has in the depot at that moment, also where the depot is not written.
THEOREM SavesAreWhole == Spec => SavedWhole
<1>1. PeGood /\ [Next]_vars => (PeWhole \/ UNCHANGED Pe!persistenceVars)
  <2> SUFFICES ASSUME PeGood, [Next]_vars PROVE PeWhole \/ UNCHANGED Pe!persistenceVars
    OBVIOUS
  <2>1. CASE UNCHANGED persistenceVars
    BY <2>1 DEF persistenceVars, Pe!persistenceVars
  <2> QED BY <2>1, PePart, PeNextWhole
<1>2. PeWhole =>
        \A p \in loggedIn :
          <<disk.carried[p], disk.depot[p]>>' # <<disk.carried[p], disk.depot[p]>> =>
             <<disk.carried[p], disk.depot[p]>>' = <<mem.carried[p], mem.depot[p]>>
  BY DEF PeWhole
<1> QED BY <1>1, <1>2, PeAlways, PTL DEF Spec, SavedWhole, Pe!SavedWhole

-----------------------------------------------------------------------------
(* Storage values: what was saved is what is there                         *)

StGood ==
    /\ Pe!StorageTypeOK /\ Pe!StorageKept
    /\ DOMAIN tables = {"accounts", "game"}

\* The values that maps hold.
LEMMA StNothing == Pe!Nothing \in [StorageKeys -> Pe!Stored]
BY DEF Pe!Nothing, Pe!Stored

\* At first nothing is there and nothing is saved.
LEMMA StInit == Pe!StorageInit => StGood
<1> SUFFICES ASSUME Pe!StorageInit PROVE StGood
  OBVIOUS
<1>1. /\ accountStorageMap = [a \in Accounts |-> Absent] /\ storageMap = Pe!Nothing
      /\ tables.accounts = [a \in Accounts |-> Pe!Nothing] /\ tables.game = Pe!Nothing
      /\ DOMAIN tables = {"accounts", "game"} /\ written = Accounts \cup {"game"}
  BY DEF Pe!StorageInit
<1>2. Pe!StorageTypeOK
  BY <1>1, StNothing DEF Pe!StorageTypeOK
<1>3. Pe!StorageKept
  BY <1>1 DEF Pe!StorageKept
<1> QED BY <1>1, <1>2, <1>3 DEF StGood

\* setAccountStorageValue: the account is no longer what was saved of it.
LEMMA StSetAccount ==
  ASSUME StGood, NEW a \in Accounts, NEW k \in StorageKeys, NEW v \in (Values \ Wide) \cup {Absent},
         Pe!SetAccountStorageValue(a, k, v)
  PROVE  StGood'
<1> DEFINE old == IF accountStorageMap[a] = Absent THEN Pe!Nothing ELSE accountStorageMap[a]
           new == [old EXCEPT ![k] = v]
<1>1. accountStorageMap' = [accountStorageMap EXCEPT ![a] = new] /\ written' = written \ {a}
      /\ storageMap' = storageMap /\ tables' = tables
  BY DEF Pe!SetAccountStorageValue
<1>2. old \in [StorageKeys -> Pe!Stored]
  BY StNothing DEF StGood, Pe!StorageTypeOK
<1> HIDE DEF old
<1>3. new \in [StorageKeys -> Pe!Stored]
  BY <1>2 DEF Pe!Stored
<1> HIDE DEF new
<1>4. Pe!StorageTypeOK'
  BY <1>1, <1>3 DEF StGood, Pe!StorageTypeOK
<1>5. Pe!StorageKept'
  BY <1>1, StorageAssumption DEF StGood, Pe!StorageTypeOK, Pe!StorageKept
<1> QED BY <1>1, <1>4, <1>5 DEF StGood

\* setStorageValue: the values of the game are no longer what was saved of them.
LEMMA StSet ==
  ASSUME StGood, NEW k \in StorageKeys, NEW v \in Values \cup {Absent}, Pe!SetStorageValue(k, v)
  PROVE  StGood'
<1>1. storageMap' = [storageMap EXCEPT ![k] = v] /\ written' = written \ {"game"}
      /\ accountStorageMap' = accountStorageMap /\ tables' = tables
  BY DEF Pe!SetStorageValue
<1>2. storageMap' \in [StorageKeys -> Pe!Stored]
  BY <1>1 DEF StGood, Pe!StorageTypeOK, Pe!Stored
<1>3. Pe!StorageTypeOK'
  BY <1>1, <1>2 DEF StGood, Pe!StorageTypeOK
<1>4. Pe!StorageKept'
  BY <1>1 DEF StGood, Pe!StorageKept
<1> QED BY <1>1, <1>3, <1>4 DEF StGood

\* saveAccountStorageValues: of an account all values are written, or none.
LEMMA StSaveAccounts == ASSUME StGood, Pe!SaveAccountStorageValues PROVE StGood'
<1> DEFINE of(reached) == [a \in Accounts |-> IF a \in reached THEN accountStorageMap[a] ELSE Pe!Nothing]
<1>1. PICK reached \in Pe!ReachedAccounts : tables' = [tables EXCEPT !.accounts = of(reached)]
  BY DEF Pe!SaveAccountStorageValues
<1>2. written' = written \cup Accounts /\ accountStorageMap' = accountStorageMap /\ storageMap' = storageMap
  BY DEF Pe!SaveAccountStorageValues
<1>3. \A a \in reached : accountStorageMap[a] # Absent
  BY DEF Pe!ReachedAccounts
<1>4. of(reached) \in [Accounts -> [StorageKeys -> Pe!Stored]]
  BY <1>3, StNothing DEF StGood, Pe!StorageTypeOK
<1>5. \A a \in Accounts : of(reached)[a] \in {Pe!Nothing, accountStorageMap[a]}
  OBVIOUS
<1> HIDE DEF of
<1>6. DOMAIN tables' = {"accounts", "game"} /\ tables'.accounts = of(reached) /\ tables'.game = tables.game
  BY <1>1 DEF StGood
<1>7. Pe!StorageTypeOK'
  BY <1>2, <1>4, <1>6 DEF StGood, Pe!StorageTypeOK
<1>8. Pe!StorageKept'
  BY <1>2, <1>5, <1>6, StorageAssumption DEF StGood, Pe!StorageKept, Pe!Nothing
<1> QED BY <1>6, <1>7, <1>8 DEF StGood

\* saveGameStorageValues: the values of the game are written as they are.
LEMMA StSaveGame == ASSUME StGood, Pe!SaveGameStorageValues PROVE StGood'
<1>1. /\ DOMAIN tables' = {"accounts", "game"} /\ tables'.accounts = tables.accounts /\ tables'.game = storageMap
      /\ written' = written \cup {"game"} /\ accountStorageMap' = accountStorageMap /\ storageMap' = storageMap
  BY DEF Pe!SaveGameStorageValues, StGood
<1>2. Pe!StorageTypeOK'
  BY <1>1 DEF StGood, Pe!StorageTypeOK
<1>3. Pe!StorageKept'
  BY <1>1, StorageAssumption DEF StGood, Pe!StorageKept, Pe!Nothing
<1> QED BY <1>1, <1>2, <1>3 DEF StGood

\* What a restart loads is what the tables have, or is not counted as such.
LEMMA StRestart == ASSUME StGood, Pe!Restart PROVE StGood'
<1>1. /\ accountStorageMap' = [a \in Accounts |-> IF tables.accounts[a] = Pe!Nothing THEN Absent ELSE tables.accounts[a]]
      /\ storageMap' = [k \in StorageKeys |-> Pe!Read(tables.game[k])]
      /\ written' = Accounts \cup (IF storageMap' = tables.game THEN {"game"} ELSE {}) /\ tables' = tables
  BY DEF Pe!Restart
<1>2. storageMap' \in [StorageKeys -> Pe!Stored]
  BY <1>1 DEF Pe!Read, Pe!Stored, StGood, Pe!StorageTypeOK
<1>3. accountStorageMap' \in [Accounts -> [StorageKeys -> Pe!Stored] \cup {Absent}]
  BY <1>1 DEF StGood, Pe!StorageTypeOK
<1>4. written' \in SUBSET (Accounts \cup {"game"})
  BY <1>1
<1>5. Pe!StorageTypeOK'
  BY <1>1, <1>2, <1>3, <1>4 DEF StGood, Pe!StorageTypeOK
<1>6. "game" \in written' => tables'.game = storageMap'
  BY <1>1, StorageAssumption
<1>7. \A a \in Accounts : tables'.accounts[a] = Pe!Nothing \/ tables'.accounts[a] = accountStorageMap'[a]
  BY <1>1
<1>8. Pe!StorageKept'
  BY <1>6, <1>7 DEF Pe!StorageKept, Pe!Nothing
<1> QED BY <1>1, <1>5, <1>8 DEF StGood

\* A step of Society is one of the storage values, or leaves them as they are.
LEMMA StPart == [Next]_vars => Pe!StorageNext \/ UNCHANGED storageVars
<1>1. UNCHANGED vars => UNCHANGED storageVars
  BY DEF vars
<1>2. \A part : Only(part) /\ part # "storage" => UNCHANGED storageVars
  BY DEF Only
<1>3. Next => \/ Pe!StorageNext \/ Only("session") \/ Only("chat") \/ Only("houses") \/ Only("persistence")
              \/ Only("scripts") \/ Only("skulls") \/ Only("casting")
  BY DEF Next
<1> QED BY <1>1, <1>2, <1>3

\* Every step of Society keeps it.
LEMMA StStep == StGood /\ [Next]_vars => StGood'
<1> SUFFICES ASSUME StGood, [Next]_vars PROVE StGood'
  OBVIOUS
<1>1. CASE UNCHANGED storageVars
  BY <1>1 DEF storageVars, StGood, Pe!StorageTypeOK, Pe!StorageKept, Pe!Nothing
<1>2. CASE Pe!StorageNext
  BY <1>2, StSetAccount, StSet, StSaveAccounts, StSaveGame, StRestart DEF Pe!StorageNext
<1> QED BY <1>1, <1>2, StPart

\* Storage values stay so.
LEMMA StAlways == Spec => []StGood
<1>1. Init => StGood
  <2>1. Init => Pe!StorageInit
    BY DEF Init
  <2> QED BY <2>1, StInit
<1> QED BY <1>1, StStep, PTL DEF Spec

-----------------------------------------------------------------------------
(* Scripts: what a handler made does not outlive it                        *)

ScFrame == [env : 0 .. MaxEnvs - 1, timer : Timers \cup {None}]

\* The k-th running handler has the k-th environment, those that nobody has are empty, and an
\* item that has no place yet is in one of them.
ScGood ==
    /\ frames \in Seq(ScFrame) /\ Len(frames) <= MaxNesting
    /\ scriptEnvIndex = Len(frames) - 1
    /\ tempItems \in [0 .. MaxEnvs - 1 -> SUBSET ScriptItems]
    /\ tempResults \in 0 .. MaxNesting
    /\ items \in [ScriptItems -> {"none", "virtual", "world", "released"}]
    /\ timers \in [Timers -> {"new", "waiting", "taken", "over"}]
    /\ references \in SUBSET Timers /\ Sc!TimersRegistered
    /\ \A e \in 0 .. MaxEnvs - 1 : e >= Len(frames) => tempItems[e] = {}
    /\ \A i \in ScriptItems : items[i] = "virtual" => \E e \in 0 .. MaxEnvs - 1 : i \in tempItems[e]
    /\ frames = <<>> => tempResults = 0

\* The environments by their numbers.
LEMMA ScEnvs == Sc!Envs = 0 .. MaxEnvs - 1
BY DEF Sc!Envs

\* It has the types and keeps the promises of the scripts.
LEMMA ScTypes == ScGood => Sc!ScriptsTypeOK /\ Sc!TimersRegistered /\ Sc!CreatedItemsKept
<1> SUFFICES ASSUME ScGood PROVE Sc!ScriptsTypeOK /\ Sc!TimersRegistered /\ Sc!CreatedItemsKept
  OBVIOUS
<1>1. scriptEnvIndex \in -1 .. MaxEnvs + MaxOverflows
  <2>1. Len(frames) \in Nat /\ Len(frames) <= MaxEnvs
    BY ScriptAssumption DEF ScGood
  <2>2. scriptEnvIndex = Len(frames) - 1
    BY DEF ScGood
  <2> QED BY <2>1, <2>2, ScriptAssumption
<1>2. \A k \in DOMAIN frames : frames[k] \in [env : Sc!Envs, timer : Timers \cup {None}]
  <2>1. frames \in Seq(ScFrame)
    BY DEF ScGood
  <2>2. \A k \in DOMAIN frames : frames[k] \in ScFrame
    BY <2>1
  <2> QED BY <2>2, ScEnvs DEF ScFrame
<1>3. Sc!ScriptsTypeOK
  BY <1>1, <1>2, ScEnvs DEF ScGood, Sc!ScriptsTypeOK
<1>4. frames = <<>> => \A i \in ScriptItems : items[i] # "virtual"
  <2>1. frames = <<>> => Len(frames) = 0
    OBVIOUS
  <2>2. frames = <<>> => \A e \in 0 .. MaxEnvs - 1 : tempItems[e] = {}
    BY <2>1 DEF ScGood
  <2> QED BY <2>2 DEF ScGood
<1>5. \A i \in ScriptItems : items[i] # "released twice"
  BY DEF ScGood
<1> QED BY <1>3, <1>4, <1>5 DEF ScGood, Sc!CreatedItemsKept, Sc!Running

\* At first no script runs.
LEMMA ScInit == Sc!ScriptsInit => ScGood
<1> SUFFICES ASSUME Sc!ScriptsInit PROVE ScGood
  OBVIOUS
<1>1. frames = <<>> /\ scriptEnvIndex = -1 /\ tempResults = 0 /\ references = {}
      /\ tempItems = [e \in 0 .. MaxEnvs - 1 |-> {}] /\ items = [i \in ScriptItems |-> "none"]
      /\ timers = [t \in Timers |-> "new"]
  BY ScEnvs DEF Sc!ScriptsInit
<1>2. frames \in Seq(ScFrame) /\ Len(frames) = 0
  BY <1>1
<1> QED BY <1>1, <1>2, ScriptAssumption DEF ScGood, Sc!TimersRegistered

\* reserveScriptEnv gives the next environment: the nesting stays within the environments.
LEMMA ScReserve ==
  ASSUME ScGood, NEW t \in Timers \cup {None}, Len(frames) < MaxNesting, Sc!Reserve(t)
  PROVE  /\ frames' = Append(frames, [env |-> Len(frames), timer |-> t])
         /\ frames' \in Seq(ScFrame) /\ Len(frames') = Len(frames) + 1 /\ frames' # <<>>
         /\ scriptEnvIndex' = Len(frames') - 1
<1>1. Len(frames) \in Nat /\ Len(frames) < MaxEnvs
  BY ScriptAssumption DEF ScGood
<1>2. scriptEnvIndex' = Len(frames)
  BY <1>1 DEF Sc!Reserve, ScGood
<1>3. frames' = Append(frames, [env |-> Len(frames), timer |-> t])
  BY <1>1, <1>2 DEF Sc!Reserve
<1>4. [env |-> Len(frames), timer |-> t] \in ScFrame
  BY <1>1, ScriptAssumption DEF ScFrame
<1>5. frames' \in Seq(ScFrame) /\ Len(frames') = Len(frames) + 1
  BY <1>3, <1>4 DEF ScGood
<1> QED BY <1>1, <1>2, <1>3, <1>5

\* A handler that calls another one.
LEMMA ScCall == ASSUME ScGood, Sc!Call PROVE ScGood'
<1>1. Len(frames) < MaxNesting /\ Sc!Reserve(None)
      /\ UNCHANGED <<tempItems, tempResults, items, timers, references>>
  BY DEF Sc!Call
<1>2. /\ frames' \in Seq(ScFrame) /\ Len(frames') = Len(frames) + 1 /\ frames' # <<>>
      /\ scriptEnvIndex' = Len(frames') - 1
  BY <1>1, ScReserve
<1>3. Len(frames) \in Nat /\ MaxNesting \in Nat
  BY ScriptAssumption DEF ScGood
<1> QED BY <1>1, <1>2, <1>3 DEF ScGood, Sc!TimersRegistered

\* A timer whose turn it is: its references stay until it returns.
LEMMA ScTimer == ASSUME ScGood, NEW t \in Timers, Sc!ExecuteTimerEvent(t) PROVE ScGood'
<1>1. frames = <<>> /\ Len(frames) = 0 /\ timers[t] = "waiting" /\ Sc!Reserve(t)
      /\ UNCHANGED <<tempItems, tempResults, items>>
  BY DEF Sc!ExecuteTimerEvent, Sc!Running
<1>2. /\ frames' \in Seq(ScFrame) /\ Len(frames') = Len(frames) + 1 /\ frames' # <<>>
      /\ scriptEnvIndex' = Len(frames') - 1
  BY <1>1, ScReserve, ScriptAssumption
<1>3. timers' = [timers EXCEPT ![t] = "taken"] /\ references' = references
  BY <1>1, <1>2 DEF Sc!ExecuteTimerEvent
<1>4. Sc!TimersRegistered'
  BY <1>1, <1>3 DEF ScGood, Sc!TimersRegistered
<1> QED BY <1>1, <1>2, <1>3, <1>4, ScriptAssumption DEF ScGood

\* resetScriptEnv is about the environment of the handler that returns.
LEMMA ScReturn == ASSUME ScGood, Sc!Return PROVE ScGood'
<1> DEFINE n == Len(frames)
           e == n - 1
           top == frames[n].timer
<1>1. n \in Nat /\ n > 0 /\ n <= MaxNesting /\ e \in 0 .. MaxEnvs - 1 /\ MaxNesting \in Nat
  BY ScriptAssumption DEF ScGood, Sc!Return, Sc!Running
<1>2. scriptEnvIndex = e /\ scriptEnvIndex' = e - 1 /\ tempResults' = 0 /\ frames' = SubSeq(frames, 1, e)
      /\ timers' = [t \in Timers |-> IF t = top THEN "over" ELSE timers[t]] /\ references' = references \ {top}
  BY <1>1 DEF Sc!Return, Sc!Top, ScGood
<1>3. Sc!ResetEnv(e)
  BY <1>1, <1>2, ScEnvs DEF Sc!Return
<1>4. frames' \in Seq(ScFrame) /\ Len(frames') = e
  BY <1>1, <1>2 DEF ScGood
<1> HIDE DEF e, n, top
<1>5. /\ tempItems' = [tempItems EXCEPT ![e] = {}]
      /\ items' = [i \in ScriptItems |-> IF i \in tempItems[e] /\ items[i] = "virtual" THEN "released" ELSE items[i]]
  <2>1. \A i \in ScriptItems : items[i] = "virtual" => Sc!Release(i) = "released"
    BY DEF Sc!Release
  <2> QED BY <1>3, <2>1 DEF Sc!ResetEnv
<1>6. tempItems' \in [0 .. MaxEnvs - 1 -> SUBSET ScriptItems]
      /\ \A x \in 0 .. MaxEnvs - 1 : tempItems'[x] = IF x = e THEN {} ELSE tempItems[x]
  BY <1>1, <1>5 DEF ScGood
<1>7. \A x \in 0 .. MaxEnvs - 1 : x >= e => tempItems'[x] = {}
  <2>1. \A x \in 0 .. MaxEnvs - 1 : x >= e /\ x # e => x >= n
    BY <1>1 DEF e
  <2> QED BY <1>6, <2>1 DEF ScGood, n
<1>8. items' \in [ScriptItems -> {"none", "virtual", "world", "released"}]
  BY <1>5 DEF ScGood
<1>9. \A i \in ScriptItems : items'[i] = "virtual" => \E x \in 0 .. MaxEnvs - 1 : i \in tempItems'[x]
  <2> SUFFICES ASSUME NEW i \in ScriptItems, items'[i] = "virtual" PROVE \E x \in 0 .. MaxEnvs - 1 : i \in tempItems'[x]
    OBVIOUS
  <2>1. items[i] = "virtual" /\ i \notin tempItems[e]
    BY <1>5 DEF ScGood
  <2>2. PICK x \in 0 .. MaxEnvs - 1 : i \in tempItems[x]
    BY <2>1 DEF ScGood
  <2> QED BY <1>6, <2>1, <2>2
<1>10. timers' \in [Timers -> {"new", "waiting", "taken", "over"}] /\ references' \in SUBSET Timers
  BY <1>2 DEF ScGood
<1>11. Sc!TimersRegistered'
  BY <1>2 DEF ScGood, Sc!TimersRegistered
<1>12. tempResults' \in 0 .. MaxNesting /\ Len(frames') <= MaxNesting /\ scriptEnvIndex' = Len(frames') - 1
  BY <1>1, <1>2, <1>4 DEF e
<1>13. \A x \in 0 .. MaxEnvs - 1 : x >= Len(frames') => tempItems'[x] = {}
  BY <1>4, <1>7
<1> QED BY <1>2, <1>4, <1>6, <1>8, <1>9, <1>10, <1>11, <1>12, <1>13 DEF ScGood

\* Game.createItem: the running handler answers for the item.
LEMMA ScCreate == ASSUME ScGood, NEW i \in ScriptItems, Sc!CreateItem(i) PROVE ScGood'
<1>1. /\ scriptEnvIndex \in 0 .. MaxEnvs - 1 /\ frames # <<>>
      /\ items' = [items EXCEPT ![i] = "virtual"]
      /\ tempItems' = [tempItems EXCEPT ![scriptEnvIndex] = tempItems[scriptEnvIndex] \cup {i}]
      /\ UNCHANGED <<scriptEnvIndex, frames, tempResults, timers, references>>
  BY ScEnvs DEF Sc!CreateItem, Sc!Running
<1>2. /\ tempItems' \in [0 .. MaxEnvs - 1 -> SUBSET ScriptItems]
      /\ \A x \in 0 .. MaxEnvs - 1 : tempItems'[x] = IF x = scriptEnvIndex THEN tempItems[x] \cup {i} ELSE tempItems[x]
  BY <1>1 DEF ScGood
<1>3. \A x \in 0 .. MaxEnvs - 1 : x >= Len(frames') => tempItems'[x] = {}
  BY <1>1, <1>2 DEF ScGood
<1>4. items' \in [ScriptItems -> {"none", "virtual", "world", "released"}]
  BY <1>1 DEF ScGood
<1>5. \A j \in ScriptItems : items'[j] = "virtual" => \E x \in 0 .. MaxEnvs - 1 : j \in tempItems'[x]
  <2>1. i \in tempItems'[scriptEnvIndex]
    BY <1>1, <1>2
  <2>2. \A j \in ScriptItems : j # i => items'[j] = items[j]
    BY <1>1 DEF ScGood
  <2>3. \A x \in 0 .. MaxEnvs - 1 : tempItems[x] \subseteq tempItems'[x]
    BY <1>2
  <2> QED BY <1>1, <2>1, <2>2, <2>3 DEF ScGood
<1> QED BY <1>1, <1>2, <1>3, <1>4, <1>5 DEF ScGood, Sc!TimersRegistered

\* An item that gets a place or is released, and is no longer, or still, among the temporary ones.
LEMMA ScPlaced ==
  ASSUME ScGood, NEW i \in ScriptItems, NEW fate \in {"world", "released"}, items' = [items EXCEPT ![i] = fate],
         tempItems' = tempItems \/ tempItems' = Sc!RemoveTempItem(i),
         UNCHANGED <<scriptEnvIndex, frames, tempResults, timers, references>>
  PROVE  ScGood'
<1>1. /\ tempItems' \in [0 .. MaxEnvs - 1 -> SUBSET ScriptItems]
      /\ \A x \in 0 .. MaxEnvs - 1 : tempItems'[x] \subseteq tempItems[x] /\ \A j : j # i /\ j \in tempItems[x] => j \in tempItems'[x]
  <2>1. CASE tempItems' = tempItems
    BY <2>1 DEF ScGood
  <2>2. CASE tempItems' = Sc!RemoveTempItem(i)
    <3>1. tempItems' = [x \in 0 .. MaxEnvs - 1 |-> tempItems[x] \ {i}]
      BY <2>2, ScEnvs DEF Sc!RemoveTempItem
    <3> QED BY <3>1 DEF ScGood
  <2> QED BY <2>1, <2>2
<1>2. items' \in [ScriptItems -> {"none", "virtual", "world", "released"}]
  BY DEF ScGood
<1>3. \A j \in ScriptItems : items'[j] = "virtual" => j # i /\ items[j] = "virtual"
  BY DEF ScGood
<1>4. \A j \in ScriptItems : items'[j] = "virtual" => \E x \in 0 .. MaxEnvs - 1 : j \in tempItems'[x]
  BY <1>1, <1>3 DEF ScGood
<1>5. \A x \in 0 .. MaxEnvs - 1 : x >= Len(frames') => tempItems'[x] = {}
  BY <1>1 DEF ScGood
<1> QED BY <1>1, <1>2, <1>4, <1>5 DEF ScGood, Sc!TimersRegistered

\* Every step of the scripts keeps it.
LEMMA ScNext == ASSUME ScGood, Sc!ScriptsNext PROVE ScGood'
<1>1. CASE Sc!Call \/ Sc!Return
  BY <1>1, ScCall, ScReturn
<1>2. CASE Sc!AddResult \/ Sc!RemoveResult
  <2>1. /\ frames # <<>> /\ tempResults' \in 0 .. MaxNesting
        /\ UNCHANGED <<scriptEnvIndex, frames, tempItems, items, timers, references>>
    BY <1>2, ScriptAssumption DEF ScGood, Sc!AddResult, Sc!RemoveResult, Sc!Running
  <2> QED BY <2>1 DEF ScGood, Sc!TimersRegistered
<1>3. ASSUME NEW i \in ScriptItems, Sc!CreateItem(i) PROVE ScGood'
  BY <1>3, ScCreate
<1>4. ASSUME NEW i \in ScriptItems, Sc!AddItemEx(i) \/ Sc!MoveTo(i) \/ Sc!RemoveItem(i) PROVE ScGood'
  <2>1. items[i] # "released" => Sc!Release(i) = "released"
    BY DEF Sc!Release
  <2>2. \E fate \in {"world", "released"} : items' = [items EXCEPT ![i] = fate]
    BY <1>4, <2>1 DEF Sc!AddItemEx, Sc!MoveTo, Sc!RemoveItem
  <2>3. /\ tempItems' = tempItems \/ tempItems' = Sc!RemoveTempItem(i)
        /\ UNCHANGED <<scriptEnvIndex, frames, tempResults, timers, references>>
    BY <1>4 DEF Sc!AddItemEx, Sc!MoveTo, Sc!RemoveItem
  <2> QED BY <2>2, <2>3, ScPlaced
<1>5. ASSUME NEW t \in Timers, Sc!AddEvent(t) \/ Sc!StopEvent(t) PROVE ScGood'
  <2>1. UNCHANGED <<scriptEnvIndex, frames, tempItems, tempResults, items>>
    BY <1>5 DEF Sc!AddEvent, Sc!StopEvent
  <2>2. /\ timers' \in [Timers -> {"new", "waiting", "taken", "over"}]
        /\ references' \in SUBSET Timers /\ Sc!TimersRegistered'
    BY <1>5 DEF Sc!AddEvent, Sc!StopEvent, ScGood, Sc!TimersRegistered
  <2> QED BY <2>1, <2>2 DEF ScGood
<1>6. ASSUME NEW t \in Timers, Sc!ExecuteTimerEvent(t) PROVE ScGood'
  BY <1>6, ScTimer
<1> QED BY <1>1, <1>2, <1>3, <1>4, <1>5, <1>6 DEF Sc!ScriptsNext

\* A step of Society is one of the scripts, or leaves them as they are.
LEMMA ScPart == [Next]_vars => Sc!ScriptsNext \/ UNCHANGED scriptVars
<1>1. UNCHANGED vars => UNCHANGED scriptVars
  BY DEF vars
<1>2. \A part : Only(part) /\ part # "scripts" => UNCHANGED scriptVars
  BY DEF Only
<1>3. Next => \/ Sc!ScriptsNext \/ Only("session") \/ Only("chat") \/ Only("houses") \/ Only("persistence")
              \/ Only("storage") \/ Only("skulls") \/ Only("casting")
  BY DEF Next
<1> QED BY <1>1, <1>2, <1>3

\* Every step of Society keeps it.
LEMMA ScStep == ScGood /\ [Next]_vars => ScGood'
<1> SUFFICES ASSUME ScGood, [Next]_vars PROVE ScGood'
  OBVIOUS
<1>1. CASE UNCHANGED scriptVars
  BY <1>1 DEF scriptVars, ScGood, Sc!TimersRegistered
<1> QED BY <1>1, ScPart, ScNext

\* Scripts stay so.
LEMMA ScAlways == Spec => []ScGood
<1>1. Init => ScGood
  <2>1. Init => Sc!ScriptsInit
    BY DEF Init
  <2> QED BY <2>1, ScInit
<1> QED BY <1>1, ScStep, PTL DEF Spec

-----------------------------------------------------------------------------
(* Spells, runes and weapons: paid for, and within the cooldowns           *)

\* A state of the right shape ...
CaShape(s) ==
    /\ DOMAIN s = {"c", "k", "t"}
    /\ DOMAIN s.c = {"mana", "soul", "hand", "exhaust", "wait", "swing", "task", "timers", "classic"}
    /\ DOMAIN s.k = {"charges", "arrows"} /\ DOMAIN s.t = {"runes", "shots", "short", "since"}
    /\ s.c.mana \in 0 .. MaxMana /\ s.c.soul \in 0 .. MaxSoul /\ s.c.hand \in Hands
    /\ s.c.exhaust \in [{"combat", "heal"} -> 0 .. Cooldown]
    /\ s.c.wait \in 0 .. ExDelay /\ s.c.swing \in 0 .. AttackSpeed
    /\ s.c.timers \in 0 .. MaxTimers /\ s.c.classic \in BOOLEAN
    /\ s.k.charges \in 0 .. Charges /\ s.k.arrows \in 0 .. Charges
    /\ s.t.runes \in Nat /\ s.t.shots \in Nat /\ s.t.short \in BOOLEAN
    /\ s.t.since \in [{"combat", "heal"} -> 0 .. Cooldown]
CaTask(task) ==
    task # None => DOMAIN task = {"what", "due"} /\ task.what \in Ca!Runes \cup {Ca!Attack} /\ task.due \in Nat

\* ... in which everything is paid for and the cooldowns are kept.
CaOK(s) ==
    /\ CaShape(s) /\ CaTask(s.c.task)
    /\ s.k.charges + s.t.runes = Charges /\ s.k.arrows + s.t.shots = Charges
    /\ ~Reflects => ~s.t.short
    /\ \A g \in {"combat", "heal"} : s.c.exhaust[g] + s.t.since[g] >= Cooldown

\* It has the types, and keeps the promises of Casting.
LEMMA CaTypes == CaOK(Ca!Now) => Ca!CastingTypeOK /\ Ca!AllPaid /\ Ca!CooldownKept
<1> SUFFICES ASSUME CaOK(Ca!Now) PROVE Ca!CastingTypeOK /\ Ca!AllPaid /\ Ca!CooldownKept
  OBVIOUS
<1>1. Ca!Now.c = caster /\ Ca!Now.k = stock /\ Ca!Now.t = tally
  BY DEF Ca!Now
<1>2. Ca!Groups = {"combat", "heal"} /\ Cooldown \in Nat
  BY CastingAssumption DEF Ca!Groups
<1>3. Ca!CastingTypeOK
  BY <1>1, <1>2 DEF CaOK, CaShape, CaTask, Ca!CastingTypeOK
<1>4. Ca!AllPaid
  BY <1>1 DEF CaOK, Ca!AllPaid
<1>5. \A g \in Ca!Groups : caster.exhaust[g] + tally.since[g] >= Cooldown
  BY <1>1, <1>2 DEF CaOK
<1>6. \A g \in Ca!Groups : caster.exhaust[g] \in Nat /\ tally.since[g] \in Nat
  BY <1>1, <1>2 DEF CaOK, CaShape
<1>7. Ca!CooldownKept
  BY <1>2, <1>5, <1>6 DEF Ca!CooldownKept
<1> QED BY <1>3, <1>4, <1>7

\* At first nothing is cast and nothing is spent.
LEMMA CaInit == Ca!CastingInit => CaOK(Ca!Now)
<1> SUFFICES ASSUME Ca!CastingInit PROVE CaOK(Ca!Now)
  OBVIOUS
<1>1. /\ caster = [mana |-> MaxMana, soul |-> MaxSoul, hand |-> "fist", exhaust |-> [g \in {"combat", "heal"} |-> 0],
                   wait |-> 0, swing |-> 0, task |-> None, timers |-> 0, classic |-> FALSE]
      /\ stock = [charges |-> Charges, arrows |-> Charges]
      /\ tally = [runes |-> 0, shots |-> 0, short |-> FALSE, since |-> [g \in {"combat", "heal"} |-> Cooldown]]
  BY DEF Ca!CastingInit, Ca!Groups
<1>2. Ca!Now.c = caster /\ Ca!Now.k = stock /\ Ca!Now.t = tally /\ DOMAIN Ca!Now = {"c", "k", "t"}
  BY DEF Ca!Now
<1>3. {MaxMana, MaxSoul, Cooldown, ExDelay, AttackSpeed, MaxTimers, WandMana, Charges} \subseteq Nat /\ "fist" \in Hands
  BY CastingAssumption
<1>4. CaShape(Ca!Now)
  BY <1>1, <1>2, <1>3 DEF CaShape
<1>5. CaTask(Ca!Now.c.task)
  BY <1>1, <1>2 DEF CaTask
<1>6. \A g \in {"combat", "heal"} : caster.exhaust[g] = 0 /\ tally.since[g] = Cooldown
  BY <1>1
<1> QED BY <1>1, <1>2, <1>3, <1>4, <1>5, <1>6 DEF CaOK

\* Operators that change the player only: the rest, and what it has exhausted, stay.
CaRest(s, t) == DOMAIN t = {"c", "k", "t"} /\ DOMAIN t.c = DOMAIN s.c /\ t.k = s.k /\ t.t = s.t /\ t.c.exhaust = s.c.exhaust

\* Player::setNextActionTask changes the task only.
LEMMA CaSetTask ==
  ASSUME NEW s, CaOK(s), NEW what \in Ca!Runes \cup {Ca!Attack, None}, NEW due \in Nat
  PROVE  LET t == Ca!SetNextActionTask(s, what, due)
         IN  CaOK(t) /\ t.k = s.k /\ t.c.wait = s.c.wait /\ t.c.mana = s.c.mana /\ t.c.classic = s.c.classic
<1> DEFINE task == IF what = None THEN None ELSE [what |-> what, due |-> due]
           t == [s EXCEPT !.c.task = task]
<1>1. CaTask(task)
  BY DEF CaTask
<1> HIDE DEF task
<1>2. /\ DOMAIN t = DOMAIN s /\ DOMAIN t.c = DOMAIN s.c /\ t.k = s.k /\ t.t = s.t /\ t.c.task = task
      /\ t.c.mana = s.c.mana /\ t.c.soul = s.c.soul /\ t.c.hand = s.c.hand /\ t.c.exhaust = s.c.exhaust
      /\ t.c.wait = s.c.wait /\ t.c.swing = s.c.swing /\ t.c.timers = s.c.timers /\ t.c.classic = s.c.classic
  BY DEF CaOK, CaShape
<1>3. Ca!SetNextActionTask(s, what, due) = t
  BY DEF Ca!SetNextActionTask, task
<1> HIDE DEF t
<1>4. CaShape(t)
  BY <1>2 DEF CaOK, CaShape
<1>5. CaOK(t)
  BY <1>1, <1>2, <1>4 DEF CaOK
<1> QED BY <1>2, <1>3, <1>5

\* Player::setNextAction changes the delay only.
LEMMA CaSetAction ==
  ASSUME NEW s, CaOK(s)
  PROVE  LET t == Ca!SetNextAction(s) IN CaOK(t) /\ t.k = s.k
<1> DEFINE t == [s EXCEPT !.c.wait = ExDelay]
<1>2. /\ DOMAIN t = DOMAIN s /\ DOMAIN t.c = DOMAIN s.c /\ t.k = s.k /\ t.t = s.t /\ t.c.task = s.c.task
      /\ t.c.mana = s.c.mana /\ t.c.soul = s.c.soul /\ t.c.hand = s.c.hand /\ t.c.exhaust = s.c.exhaust
      /\ t.c.wait = ExDelay /\ t.c.swing = s.c.swing /\ t.c.timers = s.c.timers /\ t.c.classic = s.c.classic
  BY DEF CaOK, CaShape
<1>3. Ca!SetNextAction(s) = t
  BY DEF Ca!SetNextAction
<1> HIDE DEF t
<1>4. CaShape(t)
  BY <1>2, CastingAssumption DEF CaOK, CaShape
<1>5. CaOK(t)
  BY <1>2, <1>4 DEF CaOK
<1> QED BY <1>2, <1>3, <1>5

\* Player::changeMana, of what is there or what a reflected blow took.
LEMMA CaMana ==
  ASSUME NEW s, CaOK(s), NEW cost \in Nat, Reflects \/ s.c.mana >= cost
  PROVE  LET t == Ca!ChangeMana(s, cost) IN CaOK(t) /\ t.k = s.k
<1> DEFINE mana == s.c.mana - Ca!AtMost(cost, s.c.mana)
           short == s.t.short \/ s.c.mana < cost
           t == [s EXCEPT !.c.mana = mana, !.t.short = short]
<1>1. mana \in 0 .. MaxMana /\ short \in BOOLEAN /\ (~Reflects => ~short)
  <2>1. s.c.mana \in Nat /\ s.c.mana <= MaxMana /\ MaxMana \in Nat /\ s.t.short \in BOOLEAN /\ (~Reflects => ~s.t.short)
    BY CastingAssumption DEF CaOK, CaShape
  <2>2. mana \in 0 .. MaxMana
    BY <2>1 DEF Ca!AtMost
  <2>3. ~Reflects => ~(s.c.mana < cost)
    BY <2>1
  <2> QED BY <2>1, <2>2, <2>3
<1>3. Ca!ChangeMana(s, cost) = t
  BY DEF Ca!ChangeMana
<1> HIDE DEF mana, short
<1>2. /\ DOMAIN t = DOMAIN s /\ DOMAIN t.c = DOMAIN s.c /\ t.k = s.k /\ t.c.task = s.c.task
      /\ t.c.mana = mana /\ t.c.soul = s.c.soul /\ t.c.hand = s.c.hand /\ t.c.exhaust = s.c.exhaust
      /\ t.c.wait = s.c.wait /\ t.c.swing = s.c.swing /\ t.c.timers = s.c.timers /\ t.c.classic = s.c.classic
      /\ DOMAIN t.t = DOMAIN s.t /\ t.t.runes = s.t.runes /\ t.t.shots = s.t.shots /\ t.t.short = short /\ t.t.since = s.t.since
  BY DEF CaOK, CaShape
<1> HIDE DEF t
<1>4. CaShape(t)
  BY <1>1, <1>2 DEF CaOK, CaShape
<1>5. CaOK(t)
  BY <1>1, <1>2, <1>4 DEF CaOK
<1> QED BY <1>2, <1>3, <1>5

\* Player::changeSoul.
LEMMA CaSoul ==
  ASSUME NEW s, CaOK(s), NEW cost \in Nat
  PROVE  LET t == Ca!ChangeSoul(s, cost) IN CaOK(t) /\ t.k = s.k
<1> DEFINE soul == s.c.soul - Ca!AtMost(cost, s.c.soul)
           t == [s EXCEPT !.c.soul = soul]
<1>1. soul \in 0 .. MaxSoul
  <2>1. s.c.soul \in Nat /\ s.c.soul <= MaxSoul /\ MaxSoul \in Nat
    BY CastingAssumption DEF CaOK, CaShape
  <2> QED BY <2>1 DEF Ca!AtMost
<1>3. Ca!ChangeSoul(s, cost) = t
  BY DEF Ca!ChangeSoul
<1> HIDE DEF soul
<1>2. /\ DOMAIN t = DOMAIN s /\ DOMAIN t.c = DOMAIN s.c /\ t.k = s.k /\ t.t = s.t /\ t.c.task = s.c.task
      /\ t.c.mana = s.c.mana /\ t.c.soul = soul /\ t.c.hand = s.c.hand /\ t.c.exhaust = s.c.exhaust
      /\ t.c.wait = s.c.wait /\ t.c.swing = s.c.swing /\ t.c.timers = s.c.timers /\ t.c.classic = s.c.classic
  BY DEF CaOK, CaShape
<1> HIDE DEF t
<1>4. CaShape(t)
  BY <1>1, <1>2 DEF CaOK, CaShape
<1>5. CaOK(t)
  BY <1>2, <1>4 DEF CaOK
<1> QED BY <1>2, <1>3, <1>5

\* Spell::addExhaust: the group is exhausted for the whole cooldown.
LEMMA CaExhaust ==
  ASSUME NEW s, CaOK(s), NEW g \in {"combat", "heal"}
  PROVE  LET t == Ca!AddExhaust(s, g)
         IN  CaOK(t) /\ t.k = s.k /\ t.c.mana = s.c.mana /\ t.c.exhaust[g] = Cooldown
<1> DEFINE exhaust == [s.c.exhaust EXCEPT ![g] = Cooldown]
           t == [s EXCEPT !.c.exhaust[g] = Cooldown]
<1>1. Cooldown \in Nat
  BY CastingAssumption
<1>2. /\ exhaust \in [{"combat", "heal"} -> 0 .. Cooldown] /\ exhaust[g] = Cooldown
      /\ \A h \in {"combat", "heal"} : exhaust[h] + s.t.since[h] >= Cooldown
  BY <1>1 DEF CaOK, CaShape
<1>3. /\ DOMAIN t = DOMAIN s /\ DOMAIN t.c = DOMAIN s.c /\ t.k = s.k /\ t.t = s.t /\ t.c.task = s.c.task
      /\ t.c.mana = s.c.mana /\ t.c.soul = s.c.soul /\ t.c.hand = s.c.hand /\ t.c.exhaust = exhaust
      /\ t.c.wait = s.c.wait /\ t.c.swing = s.c.swing /\ t.c.timers = s.c.timers /\ t.c.classic = s.c.classic
  BY DEF CaOK, CaShape
<1>4. Ca!AddExhaust(s, g) = t
  BY DEF Ca!AddExhaust
<1> HIDE DEF t, exhaust
<1>5. CaShape(t)
  BY <1>2, <1>3 DEF CaOK, CaShape
<1>6. CaOK(t)
  BY <1>2, <1>3, <1>5 DEF CaOK
<1> QED BY <1>2, <1>3, <1>4, <1>6

\* Spell::postCastSpell: the group cools down from now on, and mana and soul are taken.
LEMMA CaPostCast ==
  ASSUME NEW s, CaOK(s), NEW sp \in CastSpells, Reflects \/ s.c.mana >= sp.mana
  PROVE  CaOK(Ca!PostCastSpell(s, sp)) /\ Ca!PostCastSpell(s, sp).k = s.k
<1> DEFINE g == sp.group
           t == Ca!AddExhaust(s, g)
           u == [t EXCEPT !.t.since[g] = 0]
           v == Ca!ChangeMana(u, sp.mana)
<1>1. g \in {"combat", "heal"} /\ sp.mana \in Nat /\ sp.soul \in Nat /\ Cooldown \in Nat
  BY CastingAssumption
<1>2. CaOK(t) /\ t.k = s.k /\ t.c.mana = s.c.mana /\ t.c.exhaust[g] = Cooldown
  BY <1>1, CaExhaust
<1>3. Ca!PostCastSpell(s, sp) = Ca!ChangeSoul(v, sp.soul)
  BY DEF Ca!PostCastSpell
<1> HIDE DEF t, g
<1> DEFINE since == [t.t.since EXCEPT ![g] = 0]
<1>4. /\ DOMAIN u = DOMAIN t /\ u.c = t.c /\ u.k = t.k
      /\ DOMAIN u.t = DOMAIN t.t /\ u.t.runes = t.t.runes /\ u.t.shots = t.t.shots /\ u.t.short = t.t.short
      /\ u.t.since = since
  BY <1>2 DEF CaOK, CaShape
<1>5. /\ since \in [{"combat", "heal"} -> 0 .. Cooldown]
      /\ \A h \in {"combat", "heal"} : t.c.exhaust[h] + since[h] >= Cooldown
  <2>1. t.t.since \in [{"combat", "heal"} -> 0 .. Cooldown] /\ t.c.exhaust \in [{"combat", "heal"} -> 0 .. Cooldown]
    BY <1>2 DEF CaOK, CaShape
  <2>2. \A h \in {"combat", "heal"} : since[h] = IF h = g THEN 0 ELSE t.t.since[h]
    BY <1>1, <2>1
  <2>3. since \in [{"combat", "heal"} -> 0 .. Cooldown]
    BY <1>1, <2>1
  <2>4. \A h \in {"combat", "heal"} : t.c.exhaust[h] + t.t.since[h] >= Cooldown
    BY <1>2 DEF CaOK
  <2> HIDE DEF since
  <2>5. \A h \in {"combat", "heal"} : t.c.exhaust[h] + since[h] >= Cooldown
    BY <1>1, <1>2, <2>2, <2>4
  <2> QED BY <2>3, <2>5
<1> HIDE DEF u, since
<1>6. CaShape(u)
  BY <1>2, <1>4, <1>5 DEF CaOK, CaShape
<1>7. CaOK(u)
  BY <1>2, <1>4, <1>5, <1>6 DEF CaOK
<1>8. CaOK(v) /\ v.k = s.k
  BY <1>1, <1>2, <1>4, <1>7, CaMana
<1> HIDE DEF v
<1> QED BY <1>1, <1>3, <1>8, CaSoul

\* Combat::doTargetCombat takes mana only of one that may be struck back.
LEMMA CaStruck ==
  ASSUME NEW s, CaOK(s), NEW t \in Ca!Struck(s)
  PROVE  CaOK(t) /\ t.k = s.k /\ (t.c.mana = s.c.mana \/ Reflects)
<1>1. CASE t = s
  BY <1>1
<1>2. CASE t # s
  <2>1. Reflects /\ s.c.mana > 0 /\ t = [s EXCEPT !.c.mana = s.c.mana - 1]
    BY <1>2 DEF Ca!Struck
  <2>2. /\ DOMAIN t = DOMAIN s /\ DOMAIN t.c = DOMAIN s.c /\ t.k = s.k /\ t.t = s.t /\ t.c.task = s.c.task
        /\ t.c.mana = s.c.mana - 1 /\ t.c.soul = s.c.soul /\ t.c.hand = s.c.hand /\ t.c.exhaust = s.c.exhaust
        /\ t.c.wait = s.c.wait /\ t.c.swing = s.c.swing /\ t.c.timers = s.c.timers /\ t.c.classic = s.c.classic
    BY <2>1 DEF CaOK, CaShape
  <2>3. t.c.mana \in 0 .. MaxMana
    BY <2>1, <2>2, CastingAssumption DEF CaOK, CaShape
  <2>4. CaShape(t)
    BY <2>2, <2>3 DEF CaOK, CaShape
  <2>5. CaOK(t)
    BY <2>2, <2>4 DEF CaOK
  <2> QED BY <2>1, <2>2, <2>5
<1> QED BY <1>1, <1>2

\* What a spell did is what it may be paid for.
LEMMA CaCast ==
  ASSUME NEW s, CaOK(s), NEW sp \in CastSpells, Ca!PlayerSpellCheck(s, sp), NEW r \in Ca!ExecuteCastSpell(s, sp)
  PROVE  /\ CaOK(r.s) /\ r.s.k = s.k
         /\ CaOK(Ca!PostCastSpell(r.s, sp)) /\ Ca!PostCastSpell(r.s, sp).k = s.k
<1>1. r.s = s \/ r.s \in Ca!Struck(s)
  BY DEF Ca!ExecuteCastSpell
<1>2. CaOK(r.s) /\ r.s.k = s.k /\ (r.s.c.mana = s.c.mana \/ Reflects)
  BY <1>1, CaStruck
<1>3. Reflects \/ r.s.c.mana >= sp.mana
  BY <1>2 DEF Ca!PlayerSpellCheck
<1> QED BY <1>2, <1>3, CaPostCast

\* InstantSpell::playerCastInstant.
LEMMA CaInstant ==
  ASSUME NEW s, CaOK(s), NEW sp \in CastSpells, NEW t \in Ca!PlayerCastInstant(s, sp)
  PROVE  CaOK(t)
<1>1. CASE t = s
  BY <1>1
<1>2. CASE t = Ca!AddExhaust(s, "heal")
  BY <1>2, CaExhaust
<1>3. CASE t # s /\ t # Ca!AddExhaust(s, "heal")
  <2>1. PICK r \in Ca!ExecuteCastSpell(s, sp) : Ca!PlayerSpellCheck(s, sp) /\ t = IF r.cast THEN Ca!PostCastSpell(r.s, sp) ELSE r.s
    BY <1>3 DEF Ca!PlayerCastInstant
  <2> QED BY <2>1, CaCast
<1> QED BY <1>1, <1>2, <1>3

\* A rune that was finished takes a charge, and a shot an arrow.
LEMMA CaTake ==
  ASSUME NEW s, CaOK(s)
  PROVE  /\ s.k.charges > 0 => CaOK(Ca!TakeCharge([s EXCEPT !.t.runes = @ + 1]))
         /\ s.k.arrows > 0 => CaOK([s EXCEPT !.k.arrows = @ - 1, !.t.shots = @ + 1])
<1> DEFINE t == [s EXCEPT !.t.runes = s.t.runes + 1]
           u == [t EXCEPT !.k.charges = t.k.charges - 1]
           v == [s EXCEPT !.k.arrows = s.k.arrows - 1, !.t.shots = s.t.shots + 1]
<1>0. s.k.charges \in Nat /\ s.k.arrows \in Nat /\ s.t.runes \in Nat /\ s.t.shots \in Nat /\ Charges \in Nat
      /\ s.k.charges + s.t.runes = Charges /\ s.k.arrows + s.t.shots = Charges
  BY CastingAssumption DEF CaOK, CaShape
<1>1. ASSUME s.k.charges > 0 PROVE CaOK(u)
  <2>1. /\ DOMAIN t = DOMAIN s /\ t.c = s.c /\ t.k = s.k /\ DOMAIN t.t = DOMAIN s.t
        /\ t.t.runes = s.t.runes + 1 /\ t.t.shots = s.t.shots /\ t.t.short = s.t.short /\ t.t.since = s.t.since
    BY DEF CaOK, CaShape
  <2> HIDE DEF t
  <2>2. /\ DOMAIN u = DOMAIN t /\ u.c = t.c /\ u.t = t.t /\ DOMAIN u.k = DOMAIN t.k
        /\ u.k.charges = t.k.charges - 1 /\ u.k.arrows = t.k.arrows
    BY <2>1 DEF CaOK, CaShape
  <2> HIDE DEF u
  <2>3. u.k.charges \in 0 .. Charges /\ u.t.runes \in Nat /\ u.k.charges + u.t.runes = Charges
    BY <1>0, <1>1, <2>1, <2>2
  <2>4. CaShape(u)
    BY <2>1, <2>2, <2>3 DEF CaOK, CaShape
  <2> QED BY <2>1, <2>2, <2>3, <2>4 DEF CaOK
<1>2. ASSUME s.k.arrows > 0 PROVE CaOK(v)
  <2>1. /\ DOMAIN v = DOMAIN s /\ v.c = s.c /\ DOMAIN v.t = DOMAIN s.t /\ DOMAIN v.k = DOMAIN s.k
        /\ v.t.runes = s.t.runes /\ v.t.shots = s.t.shots + 1 /\ v.t.short = s.t.short /\ v.t.since = s.t.since
        /\ v.k.charges = s.k.charges /\ v.k.arrows = s.k.arrows - 1
    BY DEF CaOK, CaShape
  <2> HIDE DEF v
  <2>3. v.k.arrows \in 0 .. Charges /\ v.t.shots \in Nat /\ v.k.arrows + v.t.shots = Charges
    BY <1>0, <1>2, <2>1
  <2>4. CaShape(v)
    BY <2>1, <2>3 DEF CaOK, CaShape
  <2> QED BY <2>1, <2>3, <2>4 DEF CaOK
<1>3. Ca!TakeCharge([s EXCEPT !.t.runes = @ + 1]) = u /\ [s EXCEPT !.k.arrows = @ - 1, !.t.shots = @ + 1] = v
  BY DEF Ca!TakeCharge
<1> HIDE DEF u, v
<1> QED BY <1>1, <1>2, <1>3

\* RuneSpell::executeUse, of a rune that is there.
LEMMA CaUse ==
  ASSUME NEW s, CaOK(s), s.k.charges > 0, NEW sp \in CastSpells, NEW t \in Ca!ExecuteUse(s, sp)
  PROVE  CaOK(t)
<1>1. CASE t = s
  BY <1>1
<1>2. CASE t # s
  <2>1. PICK r \in Ca!ExecuteCastSpell(s, sp) :
           /\ Ca!PlayerSpellCheck(s, sp)
           /\ t = IF r.cast THEN Ca!TakeCharge([Ca!PostCastSpell(r.s, sp) EXCEPT !.t.runes = @ + 1]) ELSE r.s
    BY <1>2 DEF Ca!ExecuteUse
  <2>2. CaOK(r.s) /\ CaOK(Ca!PostCastSpell(r.s, sp)) /\ Ca!PostCastSpell(r.s, sp).k.charges > 0
    BY <2>1, CaCast
  <2>3. CaOK(Ca!TakeCharge([Ca!PostCastSpell(r.s, sp) EXCEPT !.t.runes = @ + 1]))
    BY <2>2, CaTake
  <2> QED BY <2>1, <2>2, <2>3
<1> QED BY <1>1, <1>2

\* Game::playerUseItemEx of a rune.
LEMMA CaUseRune ==
  ASSUME NEW s, CaOK(s), NEW sp \in Ca!Runes, NEW t \in Ca!UseRune(s, sp)
  PROVE  CaOK(t)
<1>0. sp \in CastSpells /\ ExDelay \in Nat
  BY CastingAssumption DEF Ca!Runes
<1>1. CASE s.k.charges = 0
  BY <1>1 DEF Ca!UseRune
<1>2. CASE s.k.charges # 0 /\ ~Ca!CanDoAction(s)
  <2>1. s.c.wait \in Nat
    BY <1>0 DEF CaOK, CaShape
  <2>2. t = Ca!SetNextActionTask(s, sp, s.c.wait)
    BY <1>2 DEF Ca!UseRune
  <2> QED BY <2>1, <2>2, CaSetTask
<1>3. CASE s.k.charges # 0 /\ Ca!CanDoAction(s)
  <2> DEFINE u == Ca!SetNextActionTask(s, None, 0)
             v == Ca!SetNextAction(u)
  <2>1. CaOK(u) /\ u.k = s.k
    BY CaSetTask
  <2>2. t \in Ca!ExecuteUse(v, sp)
    BY <1>3 DEF Ca!UseRune, Ca!UseItemEx
  <2> HIDE DEF u
  <2>3. CaOK(v) /\ v.k = s.k
    BY <2>1, CaSetAction
  <2> HIDE DEF v
  <2>4. v.k.charges > 0
    BY <1>3, <2>3, CastingAssumption DEF CaOK, CaShape
  <2> QED BY <1>0, <2>2, <2>3, <2>4, CaUse
<1> QED BY <1>1, <1>2, <1>3

\* A weapon is used with the arrow or the mana that was checked.
LEMMA CaWeapon ==
  ASSUME NEW s, CaOK(s), NEW r \in Ca!UseWeapon(s, Ca!GetWeapon(s))
  PROVE  CaOK(r.s)
<1> DEFINE weapon == Ca!GetWeapon(s)
<1>1. CASE r.s = s
  BY <1>1
<1>2. CASE r.s # s
  <2>1. /\ Ca!PlayerWeaponCheck(s, weapon)
        /\ r.s \in Ca!InternalUseWeapon(s, weapon)
    BY <1>2 DEF Ca!UseWeapon
  <2>2. PICK t \in Ca!Struck(s) \cup {s} : r.s = Ca!OnUsedWeapon(t, weapon)
    BY <2>1 DEF Ca!InternalUseWeapon
  <2>3. CaOK(t) /\ t.k = s.k /\ (t.c.mana = s.c.mana \/ Reflects)
    BY CaStruck
  <2>4. CASE weapon = "wand"
    <3>1. Reflects \/ t.c.mana >= WandMana
      BY <2>1, <2>3, <2>4 DEF Ca!PlayerWeaponCheck
    <3>2. r.s = Ca!ChangeMana(t, WandMana)
      BY <2>2, <2>4 DEF Ca!OnUsedWeapon
    <3> QED BY <2>3, <3>1, <3>2, CaMana, CastingAssumption
  <2>5. CASE weapon = "bow"
    <3>1. s.k.arrows # 0
      BY <2>5 DEF Ca!GetWeapon
    <3>2. t.k.arrows > 0
      BY <2>3, <3>1, CastingAssumption DEF CaOK, CaShape
    <3>3. r.s = [t EXCEPT !.k.arrows = @ - 1, !.t.shots = @ + 1]
      BY <2>2, <2>5 DEF Ca!OnUsedWeapon
    <3> QED BY <2>3, <3>2, <3>3, CaTake
  <2>6. CASE weapon \notin {"wand", "bow"}
    BY <2>2, <2>3, <2>6 DEF Ca!OnUsedWeapon
  <2> QED BY <2>4, <2>5, <2>6
<1> QED BY <1>1, <1>2

\* The timer of the next swing.
LEMMA CaNextSwing ==
  ASSUME NEW s, CaOK(s), NEW delay \in Nat
  PROVE  CaOK(Ca!NextSwing(s, delay))
<1> DEFINE n == Ca!AtMost(s.c.timers + 1, MaxTimers)
           t == [s EXCEPT !.c.timers = n]
<1>1. CASE s.c.classic
  <2>0. Ca!NextSwing(s, delay) = t
    BY <1>1 DEF Ca!NextSwing
  <2>1. n \in 0 .. MaxTimers
    <3>1. s.c.timers \in Nat /\ MaxTimers \in Nat
      BY CastingAssumption DEF CaOK, CaShape
    <3> QED BY <3>1 DEF Ca!AtMost
  <2> HIDE DEF n
  <2>2. /\ DOMAIN t = DOMAIN s /\ DOMAIN t.c = DOMAIN s.c /\ t.k = s.k /\ t.t = s.t /\ t.c.task = s.c.task
        /\ t.c.mana = s.c.mana /\ t.c.soul = s.c.soul /\ t.c.hand = s.c.hand /\ t.c.exhaust = s.c.exhaust
        /\ t.c.wait = s.c.wait /\ t.c.swing = s.c.swing /\ t.c.timers = n /\ t.c.classic = s.c.classic
    BY DEF CaOK, CaShape
  <2> HIDE DEF t
  <2>3. CaShape(t)
    BY <2>1, <2>2 DEF CaOK, CaShape
  <2>4. CaOK(t)
    BY <2>2, <2>3 DEF CaOK
  <2> QED BY <2>0, <2>4
<1>2. CASE ~s.c.classic
  <2> DEFINE due == IF delay < Ca!MinTicks THEN Ca!MinTicks ELSE delay
  <2>1. due \in Nat
    BY DEF Ca!MinTicks
  <2>2. Ca!NextSwing(s, delay) = Ca!SetNextActionTask(s, Ca!Attack, due)
    BY <1>2 DEF Ca!NextSwing
  <2> HIDE DEF due
  <2> QED BY <2>1, <2>2, CaSetTask
<1> QED BY <1>1, <1>2

\* Player::doAttacking.
LEMMA CaAttack ==
  ASSUME NEW s, CaOK(s), NEW t \in Ca!DoAttacking(s)
  PROVE  CaOK(t)
<1> DEFINE weapon == Ca!GetWeapon(s)
           swung(r) == Ca!NextSwing(r.s, AttackSpeed)
<1>0. s.c.wait \in Nat /\ AttackSpeed \in Nat
  BY CastingAssumption DEF CaOK, CaShape
<1>1. CASE t = s
  BY <1>1
<1>2. CASE t = Ca!NextSwing(s, s.c.wait)
  BY <1>0, <1>2, CaNextSwing
<1>3. ASSUME NEW r \in Ca!UseWeapon(s, weapon), t = IF r.done THEN [swung(r) EXCEPT !.c.swing = AttackSpeed] ELSE swung(r)
      PROVE  CaOK(t)
  <2> DEFINE u == swung(r)
             v == [u EXCEPT !.c.swing = AttackSpeed]
  <2>1. CaOK(u)
    BY <1>0, CaWeapon, CaNextSwing
  <2>2. t = u \/ t = v
    BY <1>3
  <2> HIDE DEF u
  <2>3. /\ DOMAIN v = DOMAIN u /\ DOMAIN v.c = DOMAIN u.c /\ v.k = u.k /\ v.t = u.t /\ v.c.task = u.c.task
        /\ v.c.mana = u.c.mana /\ v.c.soul = u.c.soul /\ v.c.hand = u.c.hand /\ v.c.exhaust = u.c.exhaust
        /\ v.c.wait = u.c.wait /\ v.c.swing = AttackSpeed /\ v.c.timers = u.c.timers /\ v.c.classic = u.c.classic
    BY <2>1 DEF CaOK, CaShape
  <2> HIDE DEF v
  <2>4. CaShape(v)
    BY <1>0, <2>1, <2>3 DEF CaOK, CaShape
  <2>5. CaOK(v)
    BY <2>1, <2>3, <2>4 DEF CaOK
  <2> QED BY <2>1, <2>2, <2>5
<1>4. t = s \/ t = Ca!NextSwing(s, s.c.wait)
      \/ \E r \in Ca!UseWeapon(s, weapon) : t = IF r.done THEN [swung(r) EXCEPT !.c.swing = AttackSpeed] ELSE swung(r)
  BY DEF Ca!DoAttacking
<1> QED BY <1>1, <1>2, <1>3, <1>4

\* What an action makes of the state is the next state.
LEMMA CaBecome == ASSUME NEW s, CaOK(s), Ca!Become(s) PROVE CaOK(Ca!Now)'
<1>1. Ca!Now' = [c |-> s.c, k |-> s.k, t |-> s.t]
  BY DEF Ca!Become, Ca!Now
<1>2. CaOK([c |-> s.c, k |-> s.k, t |-> s.t])
  BY DEF CaOK, CaShape
<1>3. CaOK(Ca!Now') => CaOK(Ca!Now)'
  BY DEF Ca!Now, CaOK, CaShape, CaTask, Ca!Runes, Ca!Attack
<1> QED BY <1>1, <1>2, <1>3

\* Actions that change the player and nothing else.
LEMMA CaPlayer ==
  ASSUME CaOK(Ca!Now), NEW c, DOMAIN c = DOMAIN caster,
         c.mana \in 0 .. MaxMana, c.soul \in 0 .. MaxSoul, c.hand \in Hands, c.wait \in 0 .. ExDelay,
         c.swing \in 0 .. AttackSpeed, c.timers \in 0 .. MaxTimers, c.classic \in BOOLEAN, CaTask(c.task),
         c.exhaust = caster.exhaust
  PROVE  CaOK([Ca!Now EXCEPT !.c = c])
<1> DEFINE t == [Ca!Now EXCEPT !.c = c]
<1>1. DOMAIN t = {"c", "k", "t"} /\ t.c = c /\ t.k = stock /\ t.t = tally
      /\ Ca!Now.c = caster /\ Ca!Now.k = stock /\ Ca!Now.t = tally
  BY DEF Ca!Now
<1> HIDE DEF t
<1>2. CaShape(t)
  BY <1>1 DEF CaOK, CaShape
<1>3. CaOK(t)
  BY <1>1, <1>2 DEF CaOK
<1> QED BY <1>3 DEF t

\* A tick: what cools down less has been cooling down longer.
LEMMA CaTick == ASSUME CaOK(Ca!Now), Ca!Tick PROVE CaOK(Ca!Now)'
<1> DEFINE exhaust == [g \in {"combat", "heal"} |-> Ca!Less(caster.exhaust[g])]
           since == [g \in {"combat", "heal"} |-> Ca!AtMost(tally.since[g] + 1, Cooldown)]
           task == IF caster.task = None THEN None ELSE [what |-> caster.task.what, due |-> Ca!Less(caster.task.due)]
           n == [c |-> caster', k |-> stock', t |-> tally']
<1>1. /\ DOMAIN caster = {"mana", "soul", "hand", "exhaust", "wait", "swing", "task", "timers", "classic"}
      /\ DOMAIN stock = {"charges", "arrows"} /\ DOMAIN tally = {"runes", "shots", "short", "since"}
      /\ caster.exhaust \in [{"combat", "heal"} -> 0 .. Cooldown] /\ tally.since \in [{"combat", "heal"} -> 0 .. Cooldown]
      /\ caster.wait \in 0 .. ExDelay /\ caster.swing \in 0 .. AttackSpeed /\ CaTask(caster.task)
      /\ \A g \in {"combat", "heal"} : caster.exhaust[g] + tally.since[g] >= Cooldown
  BY DEF Ca!Now, CaOK, CaShape
<1>2. {Cooldown, ExDelay, AttackSpeed} \subseteq Nat
  BY CastingAssumption
<1>3. /\ caster' = [caster EXCEPT !.exhaust = exhaust, !.wait = Ca!Less(caster.wait), !.swing = Ca!Less(caster.swing), !.task = task]
      /\ tally' = [tally EXCEPT !.since = since]
      /\ stock' = stock
  <2>1. \A S : S = {"combat", "heal"} =>
          /\ [g \in S |-> Ca!Less(caster.exhaust[g])] = exhaust
          /\ [g \in S |-> Ca!AtMost(tally.since[g] + 1, Cooldown)] = since
    OBVIOUS
  <2>2. [g \in Ca!Groups |-> Ca!Less(caster.exhaust[g])] = exhaust
        /\ [g \in Ca!Groups |-> Ca!AtMost(tally.since[g] + 1, Cooldown)] = since
    BY <2>1 DEF Ca!Groups
  <2> HIDE DEF exhaust, since
  <2>3. caster' = [caster EXCEPT !.exhaust = exhaust, !.wait = Ca!Less(caster.wait), !.swing = Ca!Less(caster.swing), !.task = task]
    BY <2>2 DEF Ca!Tick
  <2>4. tally' = [tally EXCEPT !.since = since] /\ stock' = stock
    BY <2>2 DEF Ca!Tick
  <2> QED BY <2>3, <2>4
<1>4. /\ exhaust \in [{"combat", "heal"} -> 0 .. Cooldown] /\ since \in [{"combat", "heal"} -> 0 .. Cooldown]
      /\ \A g \in {"combat", "heal"} : exhaust[g] + since[g] >= Cooldown
  <2>1. ASSUME NEW g \in {"combat", "heal"}
        PROVE  /\ Ca!Less(caster.exhaust[g]) \in 0 .. Cooldown /\ Ca!AtMost(tally.since[g] + 1, Cooldown) \in 0 .. Cooldown
               /\ Ca!Less(caster.exhaust[g]) + Ca!AtMost(tally.since[g] + 1, Cooldown) >= Cooldown
    <3>1. caster.exhaust[g] \in 0 .. Cooldown /\ tally.since[g] \in 0 .. Cooldown /\ caster.exhaust[g] + tally.since[g] >= Cooldown
          /\ Cooldown \in Nat
      BY <1>1, <1>2
    <3> QED BY <3>1 DEF Ca!Less, Ca!AtMost
  <2> QED BY <2>1
<1>5. Ca!Less(caster.wait) \in 0 .. ExDelay /\ Ca!Less(caster.swing) \in 0 .. AttackSpeed
  BY <1>1, <1>2 DEF Ca!Less
<1>6. CaTask(task)
  BY <1>1 DEF CaTask, Ca!Less
<1> HIDE DEF exhaust, since, task
<1>7. /\ DOMAIN caster' = DOMAIN caster /\ caster'.exhaust = exhaust /\ caster'.wait = Ca!Less(caster.wait)
      /\ caster'.swing = Ca!Less(caster.swing) /\ caster'.task = task /\ caster'.mana = caster.mana /\ caster'.soul = caster.soul
      /\ caster'.hand = caster.hand /\ caster'.timers = caster.timers /\ caster'.classic = caster.classic
      /\ DOMAIN tally' = DOMAIN tally /\ tally'.since = since /\ tally'.runes = tally.runes /\ tally'.shots = tally.shots
      /\ tally'.short = tally.short
  BY <1>1, <1>3
<1>8. n.c = caster' /\ n.k = stock' /\ n.t = tally' /\ DOMAIN n = {"c", "k", "t"}
  OBVIOUS
<1>9. Ca!Now.c = caster /\ Ca!Now.k = stock /\ Ca!Now.t = tally
  BY DEF Ca!Now
<1> HIDE DEF n
<1>10. CaShape(n)
  BY <1>3, <1>4, <1>5, <1>7, <1>8, <1>9 DEF CaOK, CaShape
<1>11. CaOK(n)
  BY <1>3, <1>4, <1>6, <1>7, <1>8, <1>9, <1>10 DEF CaOK
<1>12. Ca!Now' = n
  BY DEF Ca!Now, n
<1>13. CaOK(Ca!Now') => CaOK(Ca!Now)'
  BY DEF Ca!Now, CaOK, CaShape, CaTask, Ca!Runes, Ca!Attack
<1> QED BY <1>11, <1>12, <1>13

\* Every step of casting keeps it.
LEMMA CaNext == ASSUME CaOK(Ca!Now), Ca!CastingNext PROVE CaOK(Ca!Now)'
<1>0. Ca!Now.c = caster /\ Ca!Now.k = stock /\ Ca!Now.t = tally
  BY DEF Ca!Now
<1>1. ASSUME Ca!SaySpell PROVE CaOK(Ca!Now)'
  BY <1>1, CaInstant, CaBecome DEF Ca!SaySpell, Ca!Instants
<1>2. ASSUME Ca!UseARune PROVE CaOK(Ca!Now)'
  BY <1>2, CaUseRune, CaBecome DEF Ca!UseARune
<1>3. CaOK(Ca!SetNextAction(Ca!SetNextActionTask(Ca!Now, None, 0)))
  BY CaSetTask, CaSetAction
<1>4. ASSUME Ca!UseAnItem \/ Ca!OnWalk PROVE CaOK(Ca!Now)'
  <2>1. CASE UNCHANGED <<caster, stock, tally>>
    BY <2>1 DEF Ca!Now, CaOK, CaShape, CaTask, Ca!Runes, Ca!Attack
  <2> QED BY <1>3, <1>4, <2>1, CaBecome DEF Ca!UseAnItem, Ca!OnWalk, Ca!castingVars
<1>5. ASSUME Ca!TaskRuns PROVE CaOK(Ca!Now)'
  <2> DEFINE s == [Ca!Now EXCEPT !.c.task = None]
  <2>1. s = Ca!SetNextActionTask(Ca!Now, None, 0)
    BY DEF Ca!SetNextActionTask
  <2>2. CaOK(s)
    BY <2>1, CaSetTask
  <2>3. caster.task.what = Ca!Attack \/ caster.task.what \in Ca!Runes
    BY <1>0, <1>5 DEF Ca!TaskRuns, CaOK, CaTask
  <2>4. PICK t \in IF caster.task.what = Ca!Attack THEN Ca!DoAttacking(s) ELSE Ca!UseRune(s, caster.task.what) : Ca!Become(t)
    BY <1>5 DEF Ca!TaskRuns
  <2> HIDE DEF s
  <2>5. CaOK(t)
    BY <2>2, <2>3, <2>4, CaAttack, CaUseRune
  <2> QED BY <2>4, <2>5, CaBecome
<1>6. ASSUME Ca!TimerRuns PROVE CaOK(Ca!Now)'
  <2> DEFINE c == [caster EXCEPT !.timers = caster.timers - 1]
             s == [Ca!Now EXCEPT !.c = c]
  <2>1. PICK t \in Ca!DoAttacking(s) : Ca!Become(t)
    BY <1>0, <1>6 DEF Ca!TimerRuns
  <2>2. caster.timers > 0 /\ MaxTimers \in Nat
    BY <1>6, CastingAssumption DEF Ca!TimerRuns
  <2>3. /\ DOMAIN c = DOMAIN caster /\ c.timers = caster.timers - 1 /\ c.mana = caster.mana /\ c.soul = caster.soul /\ c.hand = caster.hand
        /\ c.wait = caster.wait /\ c.swing = caster.swing /\ c.classic = caster.classic /\ c.task = caster.task
        /\ c.exhaust = caster.exhaust
    BY <1>0 DEF CaOK, CaShape
  <2> HIDE DEF c
  <2>4. c.timers \in 0 .. MaxTimers
    BY <1>0, <2>2, <2>3 DEF CaOK, CaShape
  <2>5. CaOK(s)
    BY <1>0, <2>3, <2>4, CaPlayer DEF CaOK, CaShape
  <2> HIDE DEF s
  <2> QED BY <2>1, <2>5, CaAttack, CaBecome
<1>7. ASSUME Ca!OnAttacking PROVE CaOK(Ca!Now)'
  BY <1>7, CaAttack, CaBecome DEF Ca!OnAttacking
<1>8. ASSUME NEW c, caster' = c, UNCHANGED <<stock, tally>>, CaOK([Ca!Now EXCEPT !.c = c]) PROVE CaOK(Ca!Now)'
  <2>1. Ca!Become([Ca!Now EXCEPT !.c = c])
    BY <1>8 DEF Ca!Become, Ca!Now
  <2> QED BY <1>8, <2>1, CaBecome
<1>9. ASSUME Ca!Equip \/ Ca!Restore \/ Ca!ReloadConfig PROVE CaOK(Ca!Now)'
  <2>1. PICK h \in Hands : \/ caster' = [caster EXCEPT !.hand = h]
                           \/ caster' = [caster EXCEPT !.mana = MaxMana, !.soul = MaxSoul]
                           \/ caster' = [caster EXCEPT !.classic = ~caster.classic]
    BY <1>9, CastingAssumption DEF Ca!Equip, Ca!Restore, Ca!ReloadConfig
  <2>2. UNCHANGED <<stock, tally>>
    BY <1>9 DEF Ca!Equip, Ca!Restore, Ca!ReloadConfig
  <2>3. DOMAIN caster' = DOMAIN caster /\ caster'.wait = caster.wait /\ caster'.swing = caster.swing
        /\ caster'.timers = caster.timers /\ caster'.task = caster.task /\ caster'.exhaust = caster.exhaust
    BY <1>0, <2>1 DEF CaOK, CaShape
  <2>4. caster'.hand \in Hands /\ caster'.mana \in 0 .. MaxMana /\ caster'.soul \in 0 .. MaxSoul /\ caster'.classic \in BOOLEAN
    <3>1. MaxMana \in Nat /\ MaxSoul \in Nat
      BY CastingAssumption
    <3>2. "hand" \in DOMAIN caster /\ "mana" \in DOMAIN caster /\ "soul" \in DOMAIN caster /\ "classic" \in DOMAIN caster
          /\ caster.hand \in Hands /\ caster.mana \in 0 .. MaxMana /\ caster.soul \in 0 .. MaxSoul /\ caster.classic \in BOOLEAN
      BY <1>0 DEF CaOK, CaShape
    <3>3. CASE caster' = [caster EXCEPT !.hand = h]
      BY <3>2, <3>3
    <3>4. CASE caster' = [caster EXCEPT !.mana = MaxMana, !.soul = MaxSoul]
      BY <3>1, <3>2, <3>4
    <3>5. CASE caster' = [caster EXCEPT !.classic = ~caster.classic]
      <4>1. caster'.classic = ~caster.classic /\ caster'.hand = caster.hand /\ caster'.mana = caster.mana
            /\ caster'.soul = caster.soul
        BY <3>2, <3>5
      <4>2. caster'.classic \in BOOLEAN
        BY <4>1
      <4> QED BY <3>2, <4>1, <4>2
    <3> QED BY <2>1, <3>3, <3>4, <3>5
  <2>5. CaOK([Ca!Now EXCEPT !.c = caster'])
    BY <1>0, <2>3, <2>4, CaPlayer DEF CaOK, CaShape
  <2> QED BY <1>8, <2>2, <2>5
<1>10. ASSUME Ca!Tick PROVE CaOK(Ca!Now)'
  BY <1>10, CaTick
<1> QED BY <1>1, <1>2, <1>4, <1>5, <1>6, <1>7, <1>9, <1>10 DEF Ca!CastingNext

\* A step of Society is one of casting, or leaves it as it is.
LEMMA CaPart == [Next]_vars => Ca!CastingNext \/ UNCHANGED castingVars
<1>1. UNCHANGED vars => UNCHANGED castingVars
  BY DEF vars
<1>2. \A part : Only(part) /\ part # "casting" => UNCHANGED castingVars
  BY DEF Only
<1>3. Next => \/ Ca!CastingNext \/ Only("session") \/ Only("chat") \/ Only("houses") \/ Only("persistence")
              \/ Only("storage") \/ Only("scripts") \/ Only("skulls")
  BY DEF Next
<1> QED BY <1>1, <1>2, <1>3

\* Every step of Society keeps it.
LEMMA CaStep == CaOK(Ca!Now) /\ [Next]_vars => CaOK(Ca!Now)'
<1> SUFFICES ASSUME CaOK(Ca!Now), [Next]_vars PROVE CaOK(Ca!Now)'
  OBVIOUS
<1>1. CASE UNCHANGED castingVars
  BY <1>1 DEF castingVars, Ca!Now, CaOK, CaShape, CaTask, Ca!Runes, Ca!Attack
<1> QED BY <1>1, CaPart, CaNext

\* Casting stays so.
LEMMA CaAlways == Spec => []CaOK(Ca!Now)
<1>1. Init => CaOK(Ca!Now)
  <2>1. Init => Ca!CastingInit
    BY DEF Init
  <2> QED BY <2>1, CaInit
<1> QED BY <1>1, CaStep, PTL DEF Spec

-----------------------------------------------------------------------------
(* Channels and guilds: nobody is left behind                              *)

\* Channels of the right shape.
ChChat(c) ==
    /\ DOMAIN c = {"channels", "users", "owner", "invites"}
    /\ c.channels \in SUBSET Ch!Keys /\ c.users \in [Ch!Keys -> SUBSET People]
    /\ c.owner \in [PrivateIds -> People \cup {None}] /\ c.invites \in [PrivateIds -> SUBSET People]
\* Where a private channel has who may be in it, for those in the game.
ChKept(on, c) ==
    /\ \A k \in Ch!Keys : c.users[k] \subseteq on
    /\ \A i \in PrivateIds :
          /\ c.invites[i] \subseteq on /\ c.owner[i] \in on \cup {None}
          /\ Ch!PrivateKey(i) \in c.channels <=> c.owner[i] # None
          /\ c.users[Ch!PrivateKey(i)] \subseteq {c.owner[i]} \cup c.invites[i]
    /\ \A i, j \in PrivateIds : c.owner[i] = c.owner[j] /\ c.owner[i] # None => i = j

ChBelongs(b) == DOMAIN b = {"guild", "party"} /\ b.guild \in [People -> Guilds \cup {None}] /\ b.party \in [People -> Addresses \cup {None}]
ChGuilds(g) ==
    /\ DOMAIN g = {"loaded", "membersOnline", "behind"} /\ g.loaded \in SUBSET Guilds
    /\ g.membersOnline \in [Guilds -> SUBSET (People \cup {None})] /\ g.behind \in [Guilds -> SUBSET (People \cup {None})]
ChAlive(on, b, g) ==
    \A i \in Guilds : /\ g.membersOnline[i] = {p \in on : b.guild[p] = i} \cup g.behind[i]
                      /\ i \in g.loaded <=> g.membersOnline[i] # {}

ChGood ==
    /\ present \in SUBSET People /\ ChBelongs(belongs) /\ ChGuilds(guilds) /\ ChChat(chat)
    /\ ChKept(present, chat) /\ ChAlive(present, belongs, guilds)

\* The keys of private channels are no others.
LEMMA ChKeys ==
  /\ \A i \in PrivateIds : Ch!PrivateKey(i) \in Ch!Keys /\ Ch!PrivateKey(i)[1] = "private" /\ Ch!PrivateKey(i)[2] = i
  /\ \A k \in Ch!Keys : k[1] = "private" => k[2] \in PrivateIds /\ k = Ch!PrivateKey(k[2])
  /\ \A i, j \in PrivateIds : Ch!PrivateKey(i) = Ch!PrivateKey(j) => i = j
BY DEF Ch!Keys, Ch!PrivateKey, Ch!Normal, Ch!GuildKey, Ch!PartyKey

\* It has the types and keeps the promises of channels and guilds.
LEMMA ChTypes == ChGood => Ch!ChatTypeOK /\ Ch!NobodyLeftBehind /\ Ch!PrivateChannels /\ Ch!GuildsAgree
<1> SUFFICES ASSUME ChGood PROVE Ch!ChatTypeOK /\ Ch!NobodyLeftBehind /\ Ch!PrivateChannels /\ Ch!GuildsAgree
  OBVIOUS
<1>1. Ch!ChatTypeOK
  BY DEF ChGood, ChBelongs, ChGuilds, ChChat, Ch!ChatTypeOK
<1>2. Ch!NobodyLeftBehind
  BY DEF ChGood, ChKept, Ch!NobodyLeftBehind
<1>3. None \notin present
  BY ChatAssumption DEF ChGood
<1>4. Ch!PrivateChannels
  BY <1>3 DEF ChGood, ChKept, Ch!PrivateChannels
<1>5. Ch!GuildsAgree
  BY DEF ChGood, ChAlive, ChGuilds, Ch!GuildsAgree
<1> QED BY <1>1, <1>2, <1>4, <1>5

\* At first there is the scripted channel only.
LEMMA ChInit == Ch!ChatInit => ChGood
<1> SUFFICES ASSUME Ch!ChatInit PROVE ChGood
  OBVIOUS
<1>1. /\ present = {} /\ DOMAIN belongs = {"guild", "party"} /\ belongs.guild = [p \in People |-> None]
      /\ belongs.party = [p \in People |-> None]
      /\ DOMAIN guilds = {"loaded", "membersOnline", "behind"} /\ guilds.loaded = {}
      /\ guilds.membersOnline = [g \in Guilds |-> {}] /\ guilds.behind = [g \in Guilds |-> {}]
  BY DEF Ch!ChatInit
<1>2. /\ DOMAIN chat = {"channels", "users", "owner", "invites"} /\ chat.channels = {Ch!Normal}
      /\ chat.users = [k \in Ch!Keys |-> {}] /\ chat.owner = [i \in PrivateIds |-> None]
      /\ chat.invites = [i \in PrivateIds |-> {}]
  BY DEF Ch!ChatInit
<1>3. Ch!Normal \in Ch!Keys /\ \A i \in PrivateIds : Ch!PrivateKey(i) # Ch!Normal /\ Ch!PrivateKey(i) \in Ch!Keys
  BY DEF Ch!Keys, Ch!Normal, Ch!PrivateKey
<1>4. ChChat(chat)
  BY <1>2, <1>3 DEF ChChat
<1>5. ChKept(present, chat)
  BY <1>1, <1>2, <1>3 DEF ChKept
<1>6. ChBelongs(belongs) /\ ChGuilds(guilds) /\ ChAlive(present, belongs, guilds)
  BY <1>1 DEF ChBelongs, ChGuilds, ChAlive
<1> QED BY <1>1, <1>4, <1>5, <1>6 DEF ChGood

\* Users that leave channels disturb nothing.
LEMMA ChFewer ==
  ASSUME NEW on, NEW c, ChChat(c), ChKept(on, c), NEW users \in [Ch!Keys -> SUBSET People],
         \A k \in Ch!Keys : users[k] \subseteq c.users[k]
  PROVE  LET r == [c EXCEPT !.users = users]
         IN  ChChat(r) /\ ChKept(on, r) /\ r.users = users /\ r.owner = c.owner /\ r.invites = c.invites
<1> DEFINE r == [c EXCEPT !.users = users]
<1>1. /\ DOMAIN r = DOMAIN c /\ r.users = users /\ r.owner = c.owner /\ r.invites = c.invites /\ r.channels = c.channels
  BY DEF ChChat
<1> HIDE DEF r
<1>2. ChChat(r)
  BY <1>1 DEF ChChat
<1>3. \A i \in PrivateIds : users[Ch!PrivateKey(i)] \subseteq c.users[Ch!PrivateKey(i)]
  BY ChKeys
<1>4. ChKept(on, r)
  BY <1>1, <1>3 DEF ChKept
<1> QED BY <1>1, <1>2, <1>4 DEF r

\* Private channels that close are gone for everybody.
LEMMA ChClosed ==
  ASSUME NEW on, NEW c, ChChat(c), ChKept(on, c), NEW ids \in SUBSET PrivateIds
  PROVE  LET r == Ch!ClosePrivate(c, ids)
         IN  /\ ChChat(r) /\ ChKept(on, r) /\ \A k \in Ch!Keys : r.users[k] \subseteq c.users[k]
             /\ \A i \in PrivateIds : r.invites[i] \subseteq c.invites[i] /\ r.owner[i] = IF i \in ids THEN None ELSE c.owner[i]
<1> DEFINE r == Ch!ClosePrivate(c, ids)
           closing == {Ch!PrivateKey(i) : i \in ids}
<1>1. /\ DOMAIN r = {"channels", "users", "owner", "invites"}
      /\ r.channels = c.channels \ closing
      /\ r.users = [k \in Ch!Keys |-> IF k[1] = "private" /\ k[2] \in ids THEN {} ELSE c.users[k]]
      /\ r.owner = [i \in PrivateIds |-> IF i \in ids THEN None ELSE c.owner[i]]
      /\ r.invites = [i \in PrivateIds |-> IF i \in ids THEN {} ELSE c.invites[i]]
  BY DEF Ch!ClosePrivate
<1>2. \A i \in PrivateIds : Ch!PrivateKey(i) \in closing <=> i \in ids
  BY ChKeys
<1> HIDE DEF r, closing
<1>3. \A i \in PrivateIds : r.users[Ch!PrivateKey(i)] = IF i \in ids THEN {} ELSE c.users[Ch!PrivateKey(i)]
  BY <1>1, ChKeys
<1>4. \A i \in PrivateIds : r.owner[i] = (IF i \in ids THEN None ELSE c.owner[i])
                            /\ r.invites[i] = IF i \in ids THEN {} ELSE c.invites[i]
  BY <1>1
<1>5. \A k \in Ch!Keys : r.users[k] \subseteq c.users[k]
  BY <1>1
<1>6. ChChat(r)
  <2>1. r.channels \in SUBSET Ch!Keys
    BY <1>1 DEF ChChat
  <2>2. r.users \in [Ch!Keys -> SUBSET People]
    BY <1>1 DEF ChChat
  <2>3. r.owner \in [PrivateIds -> People \cup {None}] /\ r.invites \in [PrivateIds -> SUBSET People]
    BY <1>1 DEF ChChat
  <2> QED BY <1>1, <2>1, <2>2, <2>3 DEF ChChat
<1>7. ChKept(on, r)
  <2>1. \A k \in Ch!Keys : r.users[k] \subseteq on
    BY <1>5 DEF ChKept
  <2>2. ASSUME NEW i \in PrivateIds
        PROVE  /\ r.invites[i] \subseteq on /\ r.owner[i] \in on \cup {None}
               /\ Ch!PrivateKey(i) \in r.channels <=> r.owner[i] # None
               /\ r.users[Ch!PrivateKey(i)] \subseteq {r.owner[i]} \cup r.invites[i]
    <3>1. CASE i \in ids
      BY <1>1, <1>2, <1>3, <1>4, <3>1
    <3>2. CASE i \notin ids
      BY <1>1, <1>2, <1>3, <1>4, <3>2 DEF ChKept
    <3> QED BY <3>1, <3>2
  <2>3. \A i, j \in PrivateIds : r.owner[i] = r.owner[j] /\ r.owner[i] # None => i = j
    BY <1>4 DEF ChKept
  <2> QED BY <2>1, <2>2, <2>3 DEF ChKept
<1>8. \A i \in PrivateIds : r.invites[i] \subseteq c.invites[i]
  BY <1>4
<1> QED BY <1>4, <1>5, <1>6, <1>7, <1>8 DEF r

\* Chat::removeUserFromAllChannels leaves nothing of a player.
LEMMA ChRemoveAll ==
  ASSUME NEW on, NEW c, ChChat(c), ChKept(on, c), NEW p \in People
  PROVE  LET r == Ch!RemoveUserFromAllChannels(c, p)
         IN  ChChat(r) /\ ChKept(on, r) /\ ChKept(on \ {p}, r)
<1> DEFINE users == [k \in Ch!Keys |-> c.users[k] \ {p}]
           invites == [i \in PrivateIds |-> c.invites[i] \ {p}]
           s == [c EXCEPT !.users = users, !.invites = invites]
           own == Ch!Owned(c, p)
           r == Ch!ClosePrivate(s, own)
<1>1. Ch!RemoveUserFromAllChannels(c, p) = r
  BY DEF Ch!RemoveUserFromAllChannels
<1>2. /\ users \in [Ch!Keys -> SUBSET People] /\ invites \in [PrivateIds -> SUBSET People]
      /\ \A k \in Ch!Keys : users[k] = c.users[k] \ {p}
      /\ \A i \in PrivateIds : invites[i] = c.invites[i] \ {p}
  BY DEF ChChat
<1> HIDE DEF users, invites
<1>3. /\ DOMAIN s = DOMAIN c /\ s.users = users /\ s.invites = invites /\ s.owner = c.owner /\ s.channels = c.channels
  BY DEF ChChat
<1>4. own \in SUBSET PrivateIds /\ \A i \in PrivateIds : i \in own <=> c.owner[i] = p
  BY DEF Ch!Owned
<1> HIDE DEF s, own, r
<1>5. ChChat(s)
  BY <1>2, <1>3 DEF ChChat
<1>6. None # p
  BY ChatAssumption
<1>7. \A k \in Ch!Keys : s.users[k] \subseteq on \ {p}
  BY <1>2, <1>3 DEF ChKept
<1>8. \A i \in PrivateIds :
        /\ s.invites[i] \subseteq on \ {p} /\ s.owner[i] \in on \cup {None}
        /\ Ch!PrivateKey(i) \in s.channels <=> s.owner[i] # None
        /\ s.users[Ch!PrivateKey(i)] \subseteq {s.owner[i]} \cup s.invites[i]
  BY <1>2, <1>3, ChKeys DEF ChKept
<1>9. \A i, j \in PrivateIds : s.owner[i] = s.owner[j] /\ s.owner[i] # None => i = j
  BY <1>3 DEF ChKept
<1>10. ChKept(on, s)
  BY <1>7, <1>8, <1>9 DEF ChKept
<1>11. /\ ChChat(r) /\ ChKept(on, r) /\ \A k \in Ch!Keys : r.users[k] \subseteq s.users[k]
       /\ \A i \in PrivateIds : r.invites[i] \subseteq s.invites[i] /\ r.owner[i] = IF i \in own THEN None ELSE s.owner[i]
  BY <1>4, <1>5, <1>10, ChClosed DEF r
<1>12. ChKept(on \ {p}, r)
  <2>1. \A i \in PrivateIds : r.owner[i] \in (on \ {p}) \cup {None}
    BY <1>3, <1>4, <1>6, <1>8, <1>11
  <2>2. \A k \in Ch!Keys : r.users[k] \subseteq on \ {p}
    BY <1>7, <1>11
  <2>3. \A i \in PrivateIds : r.invites[i] \subseteq on \ {p}
    BY <1>8, <1>11
  <2> QED BY <1>11, <2>1, <2>2, <2>3 DEF ChKept
<1> QED BY <1>1, <1>11, <1>12

\* sendClosePrivate only takes users away.
LEMMA ChSendClose ==
  ASSUME NEW on, NEW c, ChChat(c), ChKept(on, c), NEW b, NEW ps
  PROVE  LET r == Ch!SendClosePrivate(c, b, ps) IN ChChat(r) /\ ChKept(on, r)
<1> DEFINE closing(k) == {p \in ps : k = Ch!PartyKey(b.party[p]) /\ k \in Ch!Found(c, b, p)}
           users == [k \in Ch!Keys |-> c.users[k] \ closing(k)]
<1>1. Ch!SendClosePrivate(c, b, ps) = [c EXCEPT !.users = users]
  BY DEF Ch!SendClosePrivate
<1> HIDE DEF closing
<1>2. users \in [Ch!Keys -> SUBSET People] /\ \A k \in Ch!Keys : users[k] \subseteq c.users[k]
  BY DEF ChChat
<1> HIDE DEF users
<1> QED BY <1>1, <1>2, ChFewer

\* What is found of the private channels is one's own or one is invited to.
LEMMA ChFound ==
  ASSUME ChGood, NEW p \in People, NEW k \in Ch!Found(chat, belongs, p)
  PROVE  /\ k \in chat.channels /\ k \in Ch!Keys
         /\ \A i \in PrivateIds : k = Ch!PrivateKey(i) => chat.owner[i] = p \/ p \in chat.invites[i]
<1>1. k \in chat.channels /\ k \in Ch!Keys
  BY DEF Ch!Found, ChGood, ChChat
<1>2. ASSUME NEW i \in PrivateIds, k = Ch!PrivateKey(i) PROVE chat.owner[i] = p \/ p \in chat.invites[i]
  <2>1. k # Ch!Normal /\ (\A g : k # Ch!GuildKey(g)) /\ (\A a : k # Ch!PartyKey(a)) /\ k[2] = i
    BY <1>2 DEF Ch!PrivateKey, Ch!Normal, Ch!GuildKey, Ch!PartyKey
  <2> QED BY <2>1 DEF Ch!Found, Ch!IsInvited
<1> QED BY <1>1, <1>2

\* Chat::getChannelList: a channel that is created is empty.
LEMMA ChRequest == ASSUME ChGood, NEW p \in People, Ch!RequestChannels(p) PROVE ChGood'
<1> DEFINE more == {Ch!GuildKey(g) : g \in {belongs.guild[p]} \ {None}} \cup {Ch!PartyKey(a) : a \in {belongs.party[p]} \ {None}}
<1>1. chat' = [chat EXCEPT !.channels = chat.channels \cup more] /\ UNCHANGED <<present, belongs, guilds>>
  BY DEF Ch!RequestChannels
<1>2. more \in SUBSET Ch!Keys /\ \A i \in PrivateIds : Ch!PrivateKey(i) \notin more
  BY DEF ChGood, ChBelongs, Ch!Keys, Ch!PrivateKey, Ch!GuildKey, Ch!PartyKey
<1> HIDE DEF more
<1>3. /\ DOMAIN chat' = DOMAIN chat /\ chat'.channels = chat.channels \cup more /\ chat'.users = chat.users
      /\ chat'.owner = chat.owner /\ chat'.invites = chat.invites
  BY <1>1 DEF ChGood, ChChat
<1>4. ChChat(chat')
  BY <1>2, <1>3 DEF ChGood, ChChat
<1>5. ChKept(present, chat')
  BY <1>2, <1>3 DEF ChGood, ChKept
<1> QED BY <1>1, <1>4, <1>5 DEF ChGood

\* Chat::addUserToChannel: who opens a channel has found it.
LEMMA ChOpen == ASSUME ChGood, NEW p \in People, NEW k \in Ch!Keys, Ch!OpenChannel(p, k) PROVE ChGood'
<1>1. p \in present /\ k \in Ch!Found(chat, belongs, p) /\ UNCHANGED <<present, belongs, guilds>>
      /\ chat' = [chat EXCEPT !.users[k] = chat.users[k] \cup {p}]
  BY DEF Ch!OpenChannel
<1>2. /\ DOMAIN chat' = DOMAIN chat /\ chat'.channels = chat.channels /\ chat'.owner = chat.owner /\ chat'.invites = chat.invites
      /\ chat'.users = [chat.users EXCEPT ![k] = chat.users[k] \cup {p}]
  BY <1>1 DEF ChGood, ChChat
<1>3. chat'.users \in [Ch!Keys -> SUBSET People]
      /\ \A x \in Ch!Keys : chat'.users[x] = IF x = k THEN chat.users[k] \cup {p} ELSE chat.users[x]
  BY <1>2 DEF ChGood, ChChat
<1>4. ChChat(chat')
  BY <1>2, <1>3 DEF ChGood, ChChat
<1>5. \A i \in PrivateIds : Ch!PrivateKey(i) = k => chat.owner[i] = p \/ p \in chat.invites[i]
  BY <1>1, ChFound
<1>6. \A i \in PrivateIds : chat'.users[Ch!PrivateKey(i)] \subseteq {chat.owner[i]} \cup chat.invites[i]
  BY <1>3, <1>5, ChKeys DEF ChGood, ChKept
<1>7. ChKept(present, chat')
  BY <1>1, <1>2, <1>3, <1>6 DEF ChGood, ChKept
<1> QED BY <1>1, <1>4, <1>7 DEF ChGood

\* removeUserFromChannel: the owner closes the channel.
LEMMA ChClose == ASSUME ChGood, NEW p \in People, NEW k \in Ch!Keys, Ch!CloseChannel(p, k) PROVE ChGood'
<1> DEFINE users == [chat.users EXCEPT ![k] = chat.users[k] \ {p}]
           left == [chat EXCEPT !.users = users]
<1>1. chat' = Ch!RemoveUserFromChannel(chat, k, p) /\ UNCHANGED <<present, belongs, guilds>>
  BY DEF Ch!CloseChannel
<1>2. Ch!RemoveUser(chat, k, p) = left
  BY DEF Ch!RemoveUser
<1>3. users \in [Ch!Keys -> SUBSET People] /\ \A x \in Ch!Keys : users[x] \subseteq chat.users[x]
  BY DEF ChGood, ChChat
<1> HIDE DEF users
<1>4. ChChat(left) /\ ChKept(present, left)
  BY <1>3, ChFewer DEF ChGood
<1> HIDE DEF left
<1>5. chat' = left \/ (k[1] = "private" /\ chat' = Ch!ClosePrivate(left, {k[2]}))
  BY <1>1, <1>2 DEF Ch!RemoveUserFromChannel
<1>6. ChChat(chat') /\ ChKept(present, chat')
  <2>1. CASE chat' = left
    BY <1>4, <2>1
  <2>2. CASE k[1] = "private" /\ chat' = Ch!ClosePrivate(left, {k[2]})
    <3>1. {k[2]} \in SUBSET PrivateIds
      BY <2>2, ChKeys
    <3> QED BY <1>4, <2>2, <3>1, ChClosed
  <2> QED BY <1>5, <2>1, <2>2
<1> QED BY <1>1, <1>6 DEF ChGood

\* Chat::createChannel takes an id that is free.
LEMMA ChCreate == ASSUME ChGood, NEW p \in People, Ch!CreatePrivateChannel(p) PROVE ChGood'
<1>1. PICK i \in PrivateIds :
         /\ p \in present /\ Ch!Owned(chat, p) = {} /\ chat.owner[i] = None
         /\ chat' = [chat EXCEPT !.channels = chat.channels \cup {Ch!PrivateKey(i)}, !.owner[i] = p,
                                 !.users[Ch!PrivateKey(i)] = {p}]
         /\ UNCHANGED <<present, belongs, guilds>>
  BY DEF Ch!CreatePrivateChannel
<1>2. /\ DOMAIN chat' = DOMAIN chat /\ chat'.channels = chat.channels \cup {Ch!PrivateKey(i)}
      /\ chat'.owner = [chat.owner EXCEPT ![i] = p] /\ chat'.invites = chat.invites
      /\ chat'.users = [chat.users EXCEPT ![Ch!PrivateKey(i)] = {p}]
  BY <1>1 DEF ChGood, ChChat
<1>3. /\ chat'.users \in [Ch!Keys -> SUBSET People] /\ chat'.owner \in [PrivateIds -> People \cup {None}]
      /\ \A k \in Ch!Keys : chat'.users[k] = IF k = Ch!PrivateKey(i) THEN {p} ELSE chat.users[k]
      /\ \A j \in PrivateIds : chat'.owner[j] = IF j = i THEN p ELSE chat.owner[j]
  BY <1>2, ChKeys DEF ChGood, ChChat
<1>4. ChChat(chat')
  BY <1>2, <1>3, ChKeys DEF ChGood, ChChat
<1>5. \A j \in PrivateIds : chat.owner[j] # p
  BY <1>1 DEF Ch!Owned
<1>6. p # None
  BY ChatAssumption
<1>7. \A k \in Ch!Keys : chat'.users[k] \subseteq present
  BY <1>1, <1>3 DEF ChGood, ChKept
<1>8. ASSUME NEW j \in PrivateIds
      PROVE  /\ chat'.invites[j] \subseteq present /\ chat'.owner[j] \in present \cup {None}
             /\ Ch!PrivateKey(j) \in chat'.channels <=> chat'.owner[j] # None
             /\ chat'.users[Ch!PrivateKey(j)] \subseteq {chat'.owner[j]} \cup chat'.invites[j]
  <2>1. CASE j = i
    BY <1>1, <1>2, <1>3, <1>6, <2>1, ChKeys DEF ChGood, ChKept
  <2>2. CASE j # i
    <3>1. Ch!PrivateKey(j) # Ch!PrivateKey(i) /\ Ch!PrivateKey(j) \in Ch!Keys
      BY <2>2, ChKeys
    <3> QED BY <1>2, <1>3, <2>2, <3>1 DEF ChGood, ChKept
  <2> QED BY <2>1, <2>2
<1>9. \A j, l \in PrivateIds : chat'.owner[j] = chat'.owner[l] /\ chat'.owner[j] # None => j = l
  BY <1>3, <1>5 DEF ChGood, ChKept
<1>10. ChKept(present, chat')
  BY <1>7, <1>8, <1>9 DEF ChKept
<1> QED BY <1>1, <1>4, <1>10 DEF ChGood

\* PrivateChatChannel::invitePlayer: the invited are in the game.
LEMMA ChInvite == ASSUME ChGood, NEW p \in People, NEW q \in People, Ch!ChannelInvite(p, q) PROVE ChGood'
<1>1. PICK i \in PrivateIds :
         q \in present /\ chat' = [chat EXCEPT !.invites[i] = chat.invites[i] \cup {q}] /\ UNCHANGED <<present, belongs, guilds>>
  BY DEF Ch!ChannelInvite, Ch!Owned
<1>2. /\ DOMAIN chat' = DOMAIN chat /\ chat'.channels = chat.channels /\ chat'.owner = chat.owner /\ chat'.users = chat.users
      /\ chat'.invites = [chat.invites EXCEPT ![i] = chat.invites[i] \cup {q}]
  BY <1>1 DEF ChGood, ChChat
<1>3. chat'.invites \in [PrivateIds -> SUBSET People]
      /\ \A j \in PrivateIds : chat'.invites[j] = IF j = i THEN chat.invites[j] \cup {q} ELSE chat.invites[j]
  BY <1>2 DEF ChGood, ChChat
<1>4. ChChat(chat')
  BY <1>2, <1>3 DEF ChGood, ChChat
<1>5. ChKept(present, chat')
  BY <1>1, <1>2, <1>3 DEF ChGood, ChKept
<1> QED BY <1>1, <1>4, <1>5 DEF ChGood

\* excludePlayer takes the invitation and the user away.
LEMMA ChExclude == ASSUME ChGood, NEW p \in People, NEW q \in People, Ch!ChannelExclude(p, q) PROVE ChGood'
<1> DEFINE less(i) == [chat.invites EXCEPT ![i] = chat.invites[i] \ {q}]
           t(i) == [chat EXCEPT !.invites = less(i)]
<1>1. PICK i \in PrivateIds : p # q /\ chat.owner[i] = p /\ chat' = Ch!RemoveUser(t(i), Ch!PrivateKey(i), q)
                              /\ UNCHANGED <<present, belongs, guilds>>
  BY DEF Ch!ChannelExclude, Ch!Owned
<1>2. /\ DOMAIN t(i) = DOMAIN chat /\ t(i).channels = chat.channels /\ t(i).owner = chat.owner /\ t(i).users = chat.users
      /\ t(i).invites = less(i)
  BY DEF ChGood, ChChat
<1>3. chat' = [t(i) EXCEPT !.users[Ch!PrivateKey(i)] = t(i).users[Ch!PrivateKey(i)] \ {q}]
  BY <1>1 DEF Ch!RemoveUser
<1> HIDE DEF t
<1>4. /\ DOMAIN chat' = DOMAIN chat /\ chat'.channels = chat.channels /\ chat'.owner = chat.owner /\ chat'.invites = less(i)
      /\ chat'.users = [chat.users EXCEPT ![Ch!PrivateKey(i)] = chat.users[Ch!PrivateKey(i)] \ {q}]
  BY <1>2, <1>3 DEF ChGood, ChChat
<1>5. /\ less(i) \in [PrivateIds -> SUBSET People] /\ chat'.users \in [Ch!Keys -> SUBSET People]
      /\ \A j \in PrivateIds : less(i)[j] = IF j = i THEN chat.invites[j] \ {q} ELSE chat.invites[j]
      /\ \A k \in Ch!Keys : chat'.users[k] = IF k = Ch!PrivateKey(i) THEN chat.users[k] \ {q} ELSE chat.users[k]
  <2>0. chat.invites \in [PrivateIds -> SUBSET People] /\ chat.users \in [Ch!Keys -> SUBSET People] /\ i \in PrivateIds
    BY <1>1 DEF ChGood, ChChat
  <2>1. less(i) \in [PrivateIds -> SUBSET People]
    BY <2>0
  <2>2. \A j \in PrivateIds : less(i)[j] = IF j = i THEN chat.invites[j] \ {q} ELSE chat.invites[j]
    BY <2>0
  <2>3. Ch!PrivateKey(i) \in Ch!Keys
    BY ChKeys, <2>0
  <2> HIDE DEF less
  <2>4. chat'.users \in [Ch!Keys -> SUBSET People]
    BY <2>0, <2>3, <1>4
  <2>5. \A k \in Ch!Keys : chat'.users[k] = IF k = Ch!PrivateKey(i) THEN chat.users[k] \ {q} ELSE chat.users[k]
    BY <2>0, <2>3, <1>4
  <2> QED BY <2>1, <2>2, <2>4, <2>5
<1> HIDE DEF less
<1>6. ChChat(chat')
  BY <1>4, <1>5 DEF ChGood, ChChat
<1>7. ASSUME NEW j \in PrivateIds
      PROVE  chat'.users[Ch!PrivateKey(j)] \subseteq {chat'.owner[j]} \cup chat'.invites[j]
  <2>1. CASE j = i
    BY <1>4, <1>5, <2>1, ChKeys DEF ChGood, ChKept
  <2>2. CASE j # i
    <3>1. Ch!PrivateKey(j) # Ch!PrivateKey(i) /\ Ch!PrivateKey(j) \in Ch!Keys
      BY <2>2, ChKeys
    <3> QED BY <1>4, <1>5, <2>2, <3>1 DEF ChGood, ChKept
  <2> QED BY <2>1, <2>2
<1>8. ChKept(present, chat')
  BY <1>4, <1>5, <1>7 DEF ChGood, ChKept
<1> QED BY <1>1, <1>6, <1>8 DEF ChGood

\* Chat::load puts back who may stay.
LEMMA ChReload == ASSUME ChGood, Ch!Reload PROVE ChGood'
<1> DEFINE users(stay) == [chat.users EXCEPT ![Ch!Normal] = stay]
<1>1. PICK stay \in SUBSET chat.users[Ch!Normal] : chat' = [chat EXCEPT !.users = users(stay)] /\ UNCHANGED <<present, belongs, guilds>>
  BY DEF Ch!Reload
<1>2. Ch!Normal \in Ch!Keys
  BY DEF Ch!Keys
<1>3. users(stay) \in [Ch!Keys -> SUBSET People] /\ \A k \in Ch!Keys : users(stay)[k] \subseteq chat.users[k]
  BY <1>2 DEF ChGood, ChChat
<1> HIDE DEF users
<1>4. ChChat(chat') /\ ChKept(present, chat')
  BY <1>1, <1>3, ChFewer DEF ChGood
<1> QED BY <1>1, <1>4 DEF ChGood

\* ProtocolGame::connect takes the player out of all channels.
LEMMA ChReconnect == ASSUME ChGood, NEW p \in People, Ch!Reconnect(p) PROVE ChGood'
<1>1. chat' = Ch!RemoveUserFromAllChannels(chat, p) /\ UNCHANGED <<present, belongs, guilds>>
  BY DEF Ch!Reconnect
<1>2. ChChat(chat') /\ ChKept(present, chat')
  BY <1>1, ChRemoveAll DEF ChGood
<1> QED BY <1>1, <1>2 DEF ChGood

\* Those that leave a party leave the rest of it as it is.
LEMMA ChLeft ==
  ASSUME NEW b, ChBelongs(b), NEW ps \in SUBSET People
  PROVE  ChBelongs(Ch!Left(b, ps)) /\ Ch!Left(b, ps).guild = b.guild
<1> DEFINE party == [p \in People |-> IF p \in ps THEN None ELSE b.party[p]]
           r == [b EXCEPT !.party = party]
<1>1. Ch!Left(b, ps) = r
  BY DEF Ch!Left
<1>2. party \in [People -> Addresses \cup {None}]
  BY DEF ChBelongs
<1> HIDE DEF party
<1>3. DOMAIN r = DOMAIN b /\ r.party = party /\ r.guild = b.guild
  BY DEF ChBelongs
<1> HIDE DEF r
<1> QED BY <1>1, <1>2, <1>3 DEF ChBelongs

\* Joining a party touches no guild.
LEMMA ChJoinParty == ASSUME ChGood, NEW p \in People, NEW a \in Addresses, Ch!JoinParty(p, a) PROVE ChGood'
<1> DEFINE party == [belongs.party EXCEPT ![p] = a]
<1>1. belongs' = [belongs EXCEPT !.party = party] /\ UNCHANGED <<present, guilds, chat>>
  BY DEF Ch!JoinParty
<1>2. party \in [People -> Addresses \cup {None}]
  BY DEF ChGood, ChBelongs
<1> HIDE DEF party
<1>3. DOMAIN belongs' = DOMAIN belongs /\ belongs'.party = party /\ belongs'.guild = belongs.guild
  BY <1>1 DEF ChGood, ChBelongs
<1>4. ChBelongs(belongs')
  BY <1>2, <1>3 DEF ChGood, ChBelongs
<1>5. ChAlive(present, belongs', guilds)
  BY <1>3 DEF ChGood, ChAlive
<1> QED BY <1>1, <1>4, <1>5 DEF ChGood

\* Whoever leaves a party is a player.
LEMMA ChLeavers == ASSUME NEW p \in People, NEW ps \in Ch!Leavers(p) PROVE ps \in SUBSET People
BY DEF Ch!Leavers

\* Party::leaveParty closes the party channel for those that leave.
LEMMA ChLeaveParty == ASSUME ChGood, NEW p \in People, Ch!LeaveParty(p) PROVE ChGood'
<1>1. PICK ps \in Ch!Leavers(p) : belongs' = Ch!Left(belongs, ps) /\ chat' = Ch!SendClosePrivate(chat, belongs', ps)
  BY DEF Ch!LeaveParty
<1>2. UNCHANGED <<present, guilds>>
  BY DEF Ch!LeaveParty
<1>3. ChBelongs(belongs') /\ belongs'.guild = belongs.guild
  BY <1>1, ChLeavers, ChLeft DEF ChGood
<1>4. ChChat(chat') /\ ChKept(present, chat')
  BY <1>1, ChSendClose DEF ChGood
<1>5. ChAlive(present, belongs', guilds)
  BY <1>3 DEF ChGood, ChAlive
<1> QED BY <1>2, <1>3, <1>4, <1>5 DEF ChGood

\* Guild h gets p as a member; it loses p; p leaves the game (from g to r).
ChAdds(g, r, h, p) ==
    \A i \in Guilds : /\ r.behind[i] = g.behind[i]
                      /\ i = h => r.membersOnline[i] = g.membersOnline[i] \cup {p}
                      /\ i # h => r.membersOnline[i] = g.membersOnline[i]
                      /\ i \in r.loaded <=> (i \in g.loaded \/ i = h)
ChTakes(g, r, h, p) ==
    \A i \in Guilds :
       /\ r.membersOnline[i] = IF i = h THEN g.membersOnline[i] \ {p} ELSE g.membersOnline[i]
       /\ r.behind[i] = IF i = h THEN g.behind[i] \ {p} ELSE g.behind[i]
       /\ i \in r.loaded <=> i \in g.loaded /\ ~(i = h /\ g.membersOnline[i] \subseteq {p})
ChLeaves(p, ps) == IF p \in ps THEN (ps \ {p}) \cup {None} ELSE ps
ChDangles(g, r, p) ==
    /\ r.loaded = g.loaded
    /\ \A i \in Guilds : /\ r.membersOnline[i] = ChLeaves(p, g.membersOnline[i])
                      /\ r.behind[i] = ChLeaves(p, g.behind[i])

\* A guild that gets a member is loaded.
LEMMA ChAddMember ==
  ASSUME NEW g, ChGuilds(g), NEW h \in Guilds, NEW p \in People
  PROVE  LET r == Ch!AddMember(g, h, p) IN ChGuilds(r) /\ ChAdds(g, r, h, p)
<1> DEFINE online == [g.membersOnline EXCEPT ![h] = g.membersOnline[h] \cup {p}]
           loaded == g.loaded \cup {h}
           r == [g EXCEPT !.loaded = loaded, !.membersOnline = online]
<1>1. Ch!AddMember(g, h, p) = r
  BY DEF Ch!AddMember, ChGuilds
<1>2. online \in [Guilds -> SUBSET (People \cup {None})] /\ loaded \in SUBSET Guilds
      /\ \A i \in Guilds : online[i] = IF i = h THEN g.membersOnline[i] \cup {p} ELSE g.membersOnline[i]
  BY DEF ChGuilds
<1> HIDE DEF online
<1>3. DOMAIN r = DOMAIN g /\ r.loaded = loaded /\ r.membersOnline = online /\ r.behind = g.behind
  BY DEF ChGuilds
<1> HIDE DEF r
<1>4. ChGuilds(r)
  BY <1>2, <1>3 DEF ChGuilds
<1> QED BY <1>1, <1>2, <1>3, <1>4 DEF ChAdds

\* The guild of a player that gets one has it.
LEMMA ChGot ==
  ASSUME NEW s, ChGuilds(s), NEW g \in Guilds \cup {None}, NEW p \in People, NEW r,
         r = IF g = None THEN s ELSE Ch!AddMember(s, g, p)
  PROVE  ChGuilds(r) /\ ChAdds(s, r, g, p)
<1>1. CASE g = None
  BY <1>1, ChatAssumption DEF ChAdds
<1>2. CASE g # None
  <2>1. g \in Guilds /\ r = Ch!AddMember(s, g, p)
    BY <1>2
  <2> DEFINE t == Ch!AddMember(s, g, p)
  <2>2. ChGuilds(t) /\ ChAdds(s, t, g, p)
    <3>1. g \in Guilds
      BY <2>1
    <3> QED BY <3>1, ChAddMember
  <2> HIDE DEF t
  <2>3. r = t
    BY <2>1 DEF t
  <2> QED BY <2>2, <2>3
<1> QED BY <1>1, <1>2

\* A guild that loses a member is deleted if it was the last.
LEMMA ChRemoveMember ==
  ASSUME NEW g, ChGuilds(g), NEW h \in Guilds \cup {None}, NEW p \in People
  PROVE  LET r == Ch!RemoveMember(g, h, p) IN ChGuilds(r) /\ ChTakes(g, r, h, p)
<1>0. CASE h = None
  BY <1>0, ChatAssumption DEF Ch!RemoveMember, ChGuilds, ChTakes
<1>1. CASE h # None
  <2> DEFINE online == [g.membersOnline EXCEPT ![h] = g.membersOnline[h] \ {p}]
             behind == [g.behind EXCEPT ![h] = g.behind[h] \ {p}]
             loaded == IF g.membersOnline[h] \subseteq {p} THEN g.loaded \ {h} ELSE g.loaded
             r == [g EXCEPT !.loaded = loaded, !.membersOnline = online, !.behind = behind]
  <2>1. Ch!RemoveMember(g, h, p) = r
    BY <1>1 DEF Ch!RemoveMember, ChGuilds
  <2>2. /\ online \in [Guilds -> SUBSET (People \cup {None})] /\ loaded \in SUBSET Guilds
        /\ \A i \in Guilds : online[i] = IF i = h THEN g.membersOnline[i] \ {p} ELSE g.membersOnline[i]
    BY DEF ChGuilds
  <2>3. /\ behind \in [Guilds -> SUBSET (People \cup {None})]
        /\ \A i \in Guilds : behind[i] = IF i = h THEN g.behind[i] \ {p} ELSE g.behind[i]
    BY DEF ChGuilds
  <2>4. \A i \in Guilds : i \in loaded <=> i \in g.loaded /\ ~(i = h /\ g.membersOnline[i] \subseteq {p})
    OBVIOUS
  <2> HIDE DEF online, loaded, behind
  <2>5. DOMAIN r = DOMAIN g /\ r.loaded = loaded /\ r.membersOnline = online /\ r.behind = behind
    BY DEF ChGuilds
  <2> HIDE DEF r
  <2>6. ChGuilds(r)
    BY <2>2, <2>3, <2>5 DEF ChGuilds
  <2> QED BY <2>1, <2>2, <2>3, <2>4, <2>5, <2>6 DEF ChTakes
<1> QED BY <1>0, <1>1

\* What was left behind of a player that is gone dangles: no guild gets another member.
LEMMA ChDangling ==
  ASSUME NEW g, ChGuilds(g), NEW p \in People
  PROVE  LET r == Ch!Dangling(g, p) IN ChGuilds(r) /\ ChDangles(g, r, p)
<1> DEFINE online == [i \in Guilds |-> ChLeaves(p, g.membersOnline[i])]
           behind == [i \in Guilds |-> ChLeaves(p, g.behind[i])]
           r == [g EXCEPT !.membersOnline = online, !.behind = behind]
<1>1. Ch!Dangling(g, p) = r
  BY DEF Ch!Dangling, ChLeaves
<1>2. \A ps \in SUBSET (People \cup {None}) : ChLeaves(p, ps) \in SUBSET (People \cup {None})
  BY DEF ChLeaves
<1>3. online \in [Guilds -> SUBSET (People \cup {None})] /\ behind \in [Guilds -> SUBSET (People \cup {None})]
      /\ \A i \in Guilds : online[i] = ChLeaves(p, g.membersOnline[i]) /\ behind[i] = ChLeaves(p, g.behind[i])
  BY <1>2 DEF ChGuilds
<1> HIDE DEF online, behind
<1>4. DOMAIN r = DOMAIN g /\ r.loaded = g.loaded /\ r.membersOnline = online /\ r.behind = behind
  BY DEF ChGuilds
<1> HIDE DEF r
<1>5. ChGuilds(r)
  BY <1>3, <1>4 DEF ChGuilds
<1> QED BY <1>1, <1>3, <1>4, <1>5 DEF ChDangles

\* Whoever leaves the game is taken out of its guild, and dangles in others at most.
LEMMA ChAliveRemoved ==
  ASSUME NEW on \in SUBSET People, NEW b, ChBelongs(b), NEW g, ChGuilds(g), ChAlive(on, b, g), NEW p \in on
  PROVE  LET r == Ch!Dangling(Ch!RemoveMember(g, b.guild[p], p), p)
         IN  ChAlive(on \ {p}, b, r) /\ ChGuilds(r)
<1> DEFINE h == b.guild[p]
           s == Ch!RemoveMember(g, h, p)
           r == Ch!Dangling(s, p)
<1>0. h \in Guilds \cup {None} /\ p \in People
  BY DEF ChBelongs
<1>1. ChGuilds(s) /\ ChTakes(g, s, h, p)
  <2> HIDE DEF h
  <2> QED BY <1>0, ChRemoveMember
<1> HIDE DEF s
<1>2. ChGuilds(r) /\ ChDangles(s, r, p)
  BY <1>0, <1>1, ChDangling
<1> HIDE DEF r
<1>3. ASSUME NEW i \in Guilds
      PROVE  r.membersOnline[i] = {q \in on \ {p} : b.guild[q] = i} \cup r.behind[i]
  <2> DEFINE rest == {q \in on \ {p} : b.guild[q] = i}
  <2>1. g.membersOnline[i] = {q \in on : b.guild[q] = i} \cup g.behind[i]
    BY <1>3 DEF ChAlive
  <2>2. s.membersOnline[i] = rest \cup s.behind[i]
    BY <1>1, <1>3, <2>1 DEF ChTakes
  <2>3. p \notin rest
    OBVIOUS
  <2> HIDE DEF rest
  <2>4. ChLeaves(p, rest \cup s.behind[i]) = rest \cup ChLeaves(p, s.behind[i])
    BY <2>3 DEF ChLeaves
  <2> QED BY <1>2, <1>3, <2>2, <2>4 DEF rest, ChDangles
<1>4. ASSUME NEW i \in Guilds PROVE i \in r.loaded <=> r.membersOnline[i] # {}
  <2>1. i \in g.loaded <=> g.membersOnline[i] # {}
    BY <1>4 DEF ChAlive
  <2>2. i \in s.loaded <=> s.membersOnline[i] # {}
    BY <1>1, <1>4, <2>1 DEF ChTakes
  <2>3. ChLeaves(p, s.membersOnline[i]) # {} <=> s.membersOnline[i] # {}
    BY DEF ChLeaves
  <2> QED BY <1>2, <1>4, <2>2, <2>3 DEF ChDangles
<1> QED BY <1>2, <1>3, <1>4 DEF ChAlive, r, s

\* Player::onRemoveCreature leaves no channel behind, and a guild only where setGuild did.
LEMMA ChLogout == ASSUME ChGood, NEW p \in People, Ch!Logout(p) PROVE ChGood'
<1>1. PICK ps \in IF belongs.party[p] = None THEN {{}} ELSE Ch!Leavers(p) :
         /\ belongs' = [Ch!Left(belongs, ps) EXCEPT !.guild[p] = None]
         /\ chat' = Ch!RemoveUserFromAllChannels(Ch!SendClosePrivate(chat, Ch!Left(belongs, ps), ps), p)
  BY DEF Ch!Logout
<1>2. p \in present /\ present' = present \ {p}
      /\ guilds' = Ch!Dangling(Ch!RemoveMember(guilds, belongs.guild[p], p), p)
  BY DEF Ch!Logout
<1> DEFINE left == Ch!Left(belongs, ps)
           guild == [left.guild EXCEPT ![p] = None]
<1>3. ps \in SUBSET People
  BY <1>1, ChLeavers
<1>4. ChBelongs(left) /\ left.guild = belongs.guild
  BY <1>3, ChLeft DEF ChGood
<1> HIDE DEF left
<1>5. guild \in [People -> Guilds \cup {None}] /\ \A q \in People \ {p} : guild[q] = belongs.guild[q]
  BY <1>4 DEF ChBelongs
<1>6. belongs' = [left EXCEPT !.guild = guild]
  BY <1>1 DEF left
<1> HIDE DEF guild
<1>7. DOMAIN belongs' = DOMAIN left /\ belongs'.guild = guild /\ belongs'.party = left.party
  BY <1>4, <1>6 DEF ChBelongs
<1>8. ChBelongs(belongs')
  BY <1>4, <1>5, <1>7 DEF ChBelongs
<1>9. ChChat(chat') /\ ChKept(present \ {p}, chat')
  BY <1>1, ChSendClose, ChRemoveAll DEF ChGood
<1>10. ChAlive(present', belongs, guilds') /\ ChGuilds(guilds')
  BY <1>2, ChAliveRemoved DEF ChGood
<1>11. \A i \in Guilds : {q \in present' : belongs'.guild[q] = i} = {q \in present' : belongs.guild[q] = i}
  BY <1>2, <1>5, <1>7 DEF ChGood
<1>12. ChAlive(present', belongs', guilds')
  BY <1>10, <1>11 DEF ChAlive
<1> QED BY <1>2, <1>8, <1>9, <1>10, <1>12 DEF ChGood

\* IOLoginData::loadPlayer: the guild that is found or loaded has the player.
LEMMA ChLogin == ASSUME ChGood, NEW p \in People, NEW g \in Guilds \cup {None}, Ch!Login(p, g) PROVE ChGood'
<1> DEFINE guild == [belongs.guild EXCEPT ![p] = g]
<1>1. /\ p \notin present /\ present' = present \cup {p} /\ belongs' = [belongs EXCEPT !.guild = guild]
      /\ guilds' = (IF g = None THEN guilds ELSE Ch!AddMember(guilds, g, p)) /\ chat' = chat
  BY DEF Ch!Login
<1>2. guild \in [People -> Guilds \cup {None}] /\ guild[p] = g /\ \A q \in People \ {p} : guild[q] = belongs.guild[q]
  BY DEF ChGood, ChBelongs
<1> HIDE DEF guild
<1>3. DOMAIN belongs' = DOMAIN belongs /\ belongs'.guild = guild /\ belongs'.party = belongs.party
  BY <1>1 DEF ChGood, ChBelongs
<1>4. ChBelongs(belongs')
  BY <1>2, <1>3 DEF ChGood, ChBelongs
<1>5. ChKept(present', chat')
  <2>1. \A k \in Ch!Keys : chat.users[k] \subseteq present'
    BY <1>1 DEF ChGood, ChKept
  <2>2. \A i \in PrivateIds : chat.invites[i] \subseteq present' /\ chat.owner[i] \in present' \cup {None}
    BY <1>1 DEF ChGood, ChKept
  <2> QED BY <1>1, <2>1, <2>2 DEF ChGood, ChKept
<1>6. ChGuilds(guilds') /\ ChAdds(guilds, guilds', g, p)
  BY <1>1, ChGot DEF ChGood
<1>7. ASSUME NEW i \in Guilds
      PROVE  {q \in present' : guild[q] = i} = IF i = g THEN {q \in present : belongs.guild[q] = i} \cup {p}
                                               ELSE {q \in present : belongs.guild[q] = i}
  BY <1>1, <1>2 DEF ChGood
<1>8. ChAlive(present', belongs', guilds')
  <2>1. ASSUME NEW i \in Guilds
        PROVE  /\ guilds'.membersOnline[i] = {q \in present' : guild[q] = i} \cup guilds'.behind[i]
               /\ i \in guilds'.loaded <=> guilds'.membersOnline[i] # {}
    <3>1. /\ guilds.membersOnline[i] = {q \in present : belongs.guild[q] = i} \cup guilds.behind[i]
          /\ i \in guilds.loaded <=> guilds.membersOnline[i] # {}
      BY <2>1 DEF ChAlive, ChGood
    <3> DEFINE in == {q \in present : belongs.guild[q] = i}
               then == {q \in present' : guild[q] = i}
    <3>2. then = IF i = g THEN in \cup {p} ELSE in
      BY <1>7, <2>1
    <3>3. guilds.membersOnline[i] = in \cup guilds.behind[i]
      BY <3>1
    <3> HIDE DEF in, then
    <3>4. /\ i = g => guilds'.membersOnline[i] = guilds.membersOnline[i] \cup {p}
          /\ i # g => guilds'.membersOnline[i] = guilds.membersOnline[i]
          /\ i \in guilds'.loaded <=> i \in guilds.loaded \/ i = g
          /\ guilds'.behind[i] = guilds.behind[i]
      BY <1>6, <2>1 DEF ChAdds
    <3>5. guilds'.membersOnline[i] = then \cup guilds'.behind[i]
      BY <3>2, <3>3, <3>4
    <3>6. i \in guilds'.loaded <=> guilds'.membersOnline[i] # {}
      BY <3>1, <3>4
    <3> QED BY <3>5, <3>6 DEF then
  <2> QED BY <1>3, <2>1 DEF ChAlive
<1>9. present' \in SUBSET People
  BY <1>1 DEF ChGood
<1> QED BY <1>1, <1>4, <1>5, <1>6, <1>8, <1>9 DEF ChGood

\* The old guild loses the player after the new one has it; where there is no rank for it, the
\* old one leaves it behind.
LEMMA ChSetGuild == ASSUME ChGood, NEW p \in People, NEW g \in Guilds \cup {None}, Ch!SetGuild(p, g) PROVE ChGood'
<1> DEFINE old == belongs.guild[p]
           to(h) == [belongs.guild EXCEPT ![p] = h]
           got == IF g = None THEN guilds ELSE Ch!AddMember(guilds, g, p)
           behind == [guilds.behind EXCEPT ![old] = guilds.behind[old] \cup {p}]
<1>1. /\ p \in present /\ g # old /\ UNCHANGED <<present, chat>>
      /\ \/ /\ belongs' = [belongs EXCEPT !.guild = to(None)]
            /\ guilds' = IF old = None THEN guilds ELSE [guilds EXCEPT !.behind = behind]
         \/ belongs' = [belongs EXCEPT !.guild = to(g)] /\ guilds' = Ch!RemoveMember(got, old, p)
  BY DEF Ch!SetGuild
<1>2. \A h \in Guilds \cup {None} : to(h) \in [People -> Guilds \cup {None}] /\ to(h)[p] = h
                                    /\ \A q \in People \ {p} : to(h)[q] = belongs.guild[q]
  BY DEF ChGood, ChBelongs
<1> HIDE DEF to
<1>3. ASSUME NEW h \in Guilds \cup {None}, belongs' = [belongs EXCEPT !.guild = to(h)]
      PROVE  ChBelongs(belongs') /\ belongs'.guild = to(h)
  <2>1. DOMAIN belongs' = DOMAIN belongs /\ belongs'.guild = to(h) /\ belongs'.party = belongs.party
    BY <1>3 DEF ChGood, ChBelongs
  <2> QED BY <1>2, <2>1 DEF ChGood, ChBelongs
<1>4. old \in Guilds \cup {None} /\ None \notin Guilds
  BY ChatAssumption DEF ChGood, ChBelongs
<1>5. ASSUME NEW h \in Guilds \cup {None}, h # old, NEW i \in Guilds
      PROVE  {q \in present : to(h)[q] = i} =
                IF i = h THEN {q \in present : belongs.guild[q] = i} \cup {p}
                ELSE IF i = old THEN {q \in present : belongs.guild[q] = i} \ {p}
                ELSE {q \in present : belongs.guild[q] = i}
  BY <1>1, <1>2, <1>5 DEF ChGood
<1>6. \A i \in Guilds : /\ guilds.membersOnline[i] = {q \in present : belongs.guild[q] = i} \cup guilds.behind[i]
                        /\ i \in guilds.loaded <=> guilds.membersOnline[i] # {}
  BY DEF ChGood, ChAlive
<1>7. old # None => p \in {q \in present : belongs.guild[q] = old}
  BY <1>1
<1> HIDE DEF old
<1>8. CASE /\ belongs' = [belongs EXCEPT !.guild = to(None)]
           /\ guilds' = IF old = None THEN guilds ELSE [guilds EXCEPT !.behind = behind]
  <2>1. ChBelongs(belongs') /\ belongs'.guild = to(None)
    BY <1>3, <1>8
  <2>2. CASE old = None
    <3>1. \A i \in Guilds : {q \in present : to(None)[q] = i} = {q \in present : belongs.guild[q] = i}
      <4>1. belongs.guild[p] = None
        BY <2>2 DEF old
      <4> QED BY <1>2, <1>4, <4>1 DEF ChGood
    <3>2. ChAlive(present, belongs', guilds)
      BY <1>6, <2>1, <3>1 DEF ChAlive
    <3> QED BY <1>1, <1>8, <2>1, <2>2, <3>2 DEF ChGood
  <2>3. CASE old # None
    <3>1. /\ behind \in [Guilds -> SUBSET (People \cup {None})]
          /\ \A i \in Guilds : behind[i] = IF i = old THEN guilds.behind[i] \cup {p} ELSE guilds.behind[i]
      BY <1>4, <2>3 DEF ChGood, ChGuilds
    <3> HIDE DEF behind
    <3>2. DOMAIN guilds' = DOMAIN guilds /\ guilds'.loaded = guilds.loaded
          /\ guilds'.membersOnline = guilds.membersOnline /\ guilds'.behind = behind
      BY <1>8, <2>3 DEF ChGood, ChGuilds
    <3>3. ChGuilds(guilds')
      BY <3>1, <3>2 DEF ChGood, ChGuilds
    <3>4. ASSUME NEW i \in Guilds PROVE guilds'.membersOnline[i] = {q \in present : to(None)[q] = i} \cup guilds'.behind[i]
      <4>1. {q \in present : to(None)[q] = i} = IF i = old THEN {q \in present : belongs.guild[q] = i} \ {p}
                                               ELSE {q \in present : belongs.guild[q] = i}
        BY <1>4, <1>5, <2>3
      <4> QED BY <1>6, <1>7, <2>3, <3>1, <3>2, <4>1
    <3>5. ChAlive(present, belongs', guilds')
      BY <1>6, <2>1, <3>2, <3>4 DEF ChAlive
    <3> QED BY <1>1, <2>1, <3>3, <3>5 DEF ChGood
  <2> QED BY <2>2, <2>3
<1>9. CASE belongs' = [belongs EXCEPT !.guild = to(g)] /\ guilds' = Ch!RemoveMember(got, old, p)
  <2>1. ChBelongs(belongs') /\ belongs'.guild = to(g)
    BY <1>3, <1>9
  <2>2. ChGuilds(got) /\ ChAdds(guilds, got, g, p)
    BY ChGot DEF ChGood
  <2> HIDE DEF got
  <2> DEFINE t == Ch!RemoveMember(got, old, p)
  <2>3. ChGuilds(t) /\ ChTakes(got, t, old, p)
    BY <1>4, <2>2, ChRemoveMember
  <2>4. guilds' = t
    BY <1>9
  <2> HIDE DEF t
  <2>5. ASSUME NEW i \in Guilds PROVE t.membersOnline[i] = {q \in present : to(g)[q] = i} \cup t.behind[i]
    <3>1. {q \in present : to(g)[q] = i} = IF i = g THEN {q \in present : belongs.guild[q] = i} \cup {p}
                                          ELSE IF i = old THEN {q \in present : belongs.guild[q] = i} \ {p}
                                          ELSE {q \in present : belongs.guild[q] = i}
      BY <1>1, <1>5 DEF old
    <3>2. got.membersOnline[i] = IF i = g THEN {q \in present : belongs.guild[q] = i} \cup {p} \cup guilds.behind[i]
                                 ELSE {q \in present : belongs.guild[q] = i} \cup guilds.behind[i]
      <4>1. /\ i = g => got.membersOnline[i] = guilds.membersOnline[i] \cup {p}
            /\ i # g => got.membersOnline[i] = guilds.membersOnline[i]
        BY <2>2, <2>5 DEF ChAdds
      <4> DEFINE in == {q \in present : belongs.guild[q] = i}
      <4>2. guilds.membersOnline[i] = in \cup guilds.behind[i]
        BY <1>6, <2>5
      <4> HIDE DEF in
      <4>3. got.membersOnline[i] = IF i = g THEN in \cup {p} \cup guilds.behind[i] ELSE in \cup guilds.behind[i]
        BY <4>1, <4>2
      <4> QED BY <4>3 DEF in
    <3>3. got.behind[i] = guilds.behind[i]
      BY <2>2 DEF ChAdds
    <3>4. g # old
      BY <1>1 DEF old
    <3> DEFINE in == {q \in present : belongs.guild[q] = i}
    <3> HIDE DEF in
    <3>5. t.membersOnline[i] = IF i = g THEN in \cup {p} \cup t.behind[i]
                               ELSE IF i = old THEN (in \ {p}) \cup t.behind[i] ELSE in \cup t.behind[i]
      BY <2>3, <2>5, <3>2, <3>3, <3>4 DEF in, ChTakes
    <3> QED BY <3>1, <3>5 DEF in
  <2>6. ASSUME NEW i \in Guilds PROVE i \in t.loaded <=> t.membersOnline[i] # {}
    <3>1. i \in got.loaded <=> got.membersOnline[i] # {}
      <4>1. /\ i = g => got.membersOnline[i] = guilds.membersOnline[i] \cup {p}
            /\ i # g => got.membersOnline[i] = guilds.membersOnline[i]
            /\ i \in got.loaded <=> i \in guilds.loaded \/ i = g
        BY <2>2, <2>6 DEF ChAdds
      <4>2. i \in guilds.loaded <=> guilds.membersOnline[i] # {}
        BY <1>6, <2>6
      <4> QED BY <4>1, <4>2
    <3> QED BY <2>3, <2>6, <3>1 DEF ChTakes
  <2>7. ChAlive(present, belongs', guilds')
    BY <2>1, <2>4, <2>5, <2>6 DEF ChAlive
  <2> QED BY <1>1, <2>1, <2>3, <2>4, <2>7 DEF ChGood
<1> QED BY <1>1, <1>8, <1>9

\* Each step of Chat.
LEMMA ChNext == ChGood /\ Ch!ChatNext => ChGood'
<1> SUFFICES ASSUME ChGood, Ch!ChatNext PROVE ChGood'
  OBVIOUS
<1>1. CASE Ch!Reload
  BY <1>1, ChReload
<1>2. ASSUME NEW p \in People,
             \/ Ch!RequestChannels(p) \/ Ch!CreatePrivateChannel(p) \/ Ch!Reconnect(p) \/ Ch!LeaveParty(p) \/ Ch!Logout(p)
      PROVE  ChGood'
  BY <1>2, ChRequest, ChCreate, ChReconnect, ChLeaveParty, ChLogout
<1>3. ASSUME NEW p \in People,
             \/ \E g \in Guilds \cup {None} : Ch!Login(p, g) \/ Ch!SetGuild(p, g)
             \/ \E k \in Ch!Keys : Ch!OpenChannel(p, k) \/ Ch!CloseChannel(p, k)
             \/ \E q \in People : Ch!ChannelInvite(p, q) \/ Ch!ChannelExclude(p, q)
             \/ \E a \in Addresses : Ch!JoinParty(p, a)
      PROVE  ChGood'
  BY <1>3, ChLogin, ChSetGuild, ChOpen, ChClose, ChInvite, ChExclude, ChJoinParty
<1> QED BY <1>1, <1>2, <1>3 DEF Ch!ChatNext

\* A step of Society is one of the channels, or leaves them as they are.
LEMMA ChPart == [Next]_vars => Ch!ChatNext \/ UNCHANGED chatVars
<1>1. UNCHANGED vars => UNCHANGED chatVars
  BY DEF vars
<1>2. \A part : Only(part) /\ part # "chat" => UNCHANGED chatVars
  BY DEF Only
<1>3. Next => \/ Ch!ChatNext \/ Only("session") \/ Only("storage") \/ Only("houses") \/ Only("persistence")
              \/ Only("scripts") \/ Only("skulls") \/ Only("casting")
  BY DEF Next
<1> QED BY <1>1, <1>2, <1>3

\* Every step of Society keeps it.
LEMMA ChStep == ChGood /\ [Next]_vars => ChGood'
<1>1. ChGood /\ UNCHANGED chatVars => ChGood'
  BY DEF chatVars, ChGood
<1> QED BY <1>1, ChNext, ChPart

\* Channels and guilds stay so.
LEMMA ChAlways == Spec => []ChGood
<1>1. Init => ChGood
  <2>1. Init => Ch!ChatInit
    BY DEF Init
  <2> QED BY <2>1, ChInit
<1> QED BY <1>1, ChStep, PTL DEF Spec

-----------------------------------------------------------------------------
(* Skulls: what a client shows is right, and no grudge outlasts the fight   *)

SkPerson == [in : BOOLEAN, skull : Sk!Skull \ {"yellow", "green"}, ticks : Nat,
             inFight : BOOLEAN, pzLocked : BOOLEAN, attacked : SUBSET Duelists]

SkShape(s) ==
    /\ DOMAIN s = {"d", "party", "seen", "shown"}
    /\ s.d \in [Duelists -> SkPerson] /\ s.party \in SUBSET Duelists
    /\ s.seen \in SUBSET (Duelists \X Duelists) /\ s.shown \in [Duelists -> [Duelists -> Sk!Skull]]
\* Only those in the game are seen and in the party.
SkIn(s) ==
    /\ \A c \in s.party : s.d[c].in = TRUE
    /\ \A v, t \in Duelists : <<v, t>> \in s.seen => s.d[v].in = TRUE /\ s.d[t].in = TRUE
\* What is shown is right, except in a pvp world for the pairs W that are still to be sent.
SkRight(s, W) ==
    \A v, t \in Duelists : <<v, t>> \in s.seen /\ (WorldType = "pvp" => <<v, t>> \notin W) => s.shown[v][t] = Sk!GetSkullClient(s, v, t)
\* A grudge is kept in a fight only.
SkCool(x) == (x.skull = "white" \/ x.pzLocked = TRUE \/ x.attacked # {}) => x.inFight = TRUE

\* A state on the way: the pairs W are to be sent, and the grudges of B are in order only later.
SkWell(s, W, B) ==
    /\ SkShape(s) /\ SkIn(s) /\ SkRight(s, W)
    /\ \A k \in Duelists \ B : SkCool(s.d[k])

SkGood ==
    /\ SkWell(Sk!Now, {}, {})
    /\ \A c \in Duelists : duel[c].ticks \in 0..MaxSkullTicks

\* Player::getSkullClient is a skull, and depends on three things.
LEMMA SkClient ==
  ASSUME NEW s, SkShape(s), NEW v \in Duelists, NEW t \in Duelists
  PROVE  Sk!GetSkullClient(s, v, t) =
           IF WorldType # "pvp" THEN Sk!NoSkull
           ELSE IF s.d[t].skull # Sk!NoSkull THEN s.d[t].skull
           ELSE IF v \in s.d[t].attacked THEN "yellow"
           ELSE IF v # t /\ {v, t} \subseteq s.party THEN "green" ELSE Sk!NoSkull
<1>1. CASE WorldType # "pvp"
  BY <1>1 DEF Sk!GetSkullClient
<1>2. CASE WorldType = "pvp" /\ s.d[t].skull # Sk!NoSkull
  BY <1>2 DEF Sk!GetSkullClient
<1>3. CASE WorldType = "pvp" /\ s.d[t].skull = Sk!NoSkull /\ v \in s.d[t].attacked
  BY <1>3 DEF Sk!GetSkullClient, Sk!HasAttacked
<1>4. CASE WorldType = "pvp" /\ s.d[t].skull = Sk!NoSkull /\ v \notin s.d[t].attacked
  BY <1>4 DEF Sk!GetSkullClient, Sk!HasAttacked, Sk!IsPartner
<1> QED BY <1>1, <1>2, <1>3, <1>4

\* What getSkullClient returns is a skull.
LEMMA SkClientType ==
  ASSUME NEW s, SkShape(s), NEW v \in Duelists, NEW t \in Duelists
  PROVE  Sk!GetSkullClient(s, v, t) \in Sk!Skull
<1>1. s.d[t] \in SkPerson
  BY DEF SkShape
<1>2. s.d[t].skull \in Sk!Skull
  BY <1>1 DEF SkPerson
<1> QED BY <1>2, SkClient DEF Sk!Skull, Sk!NoSkull

\* Sending makes right what is sent.
LEMMA SkSend ==
  ASSUME NEW s, NEW W, NEW B, SkWell(s, W, B), NEW pairs, NEW V, \A v, t \in Duelists : <<v, t>> \in W => <<v, t>> \in pairs \/ <<v, t>> \in V
  PROVE  LET r == Sk!SendCreatureSkulls(s, pairs)
         IN  SkWell(r, V, B) /\ r.d = s.d /\ r.party = s.party /\ r.seen = s.seen
<1> DEFINE shows == [v \in Duelists |-> [t \in Duelists |->
                       IF <<v, t>> \in pairs \cap s.seen THEN Sk!GetSkullClient(s, v, t) ELSE s.shown[v][t]]]
           r == Sk!SendCreatureSkulls(s, pairs)
<1>1. CASE WorldType # "pvp"
  <2>1. r = s
    BY <1>1 DEF Sk!SendCreatureSkulls
  <2>2. SkWell(s, V, B)
    BY <1>1 DEF SkWell, SkRight
  <2> QED BY <2>1, <2>2
<1>2. CASE WorldType = "pvp"
  <2>1. r = [s EXCEPT !.shown = shows]
    BY <1>2 DEF Sk!SendCreatureSkulls
  <2>2. shows \in [Duelists -> [Duelists -> Sk!Skull]]
    BY SkClientType DEF SkWell, SkShape
  <2>3. \A v, t \in Duelists : shows[v][t] = IF <<v, t>> \in pairs \cap s.seen THEN Sk!GetSkullClient(s, v, t) ELSE s.shown[v][t]
    OBVIOUS
  <2> HIDE DEF shows, r
  <2>4. DOMAIN r = DOMAIN s /\ r.d = s.d /\ r.party = s.party /\ r.seen = s.seen /\ r.shown = shows
    BY <2>1 DEF SkWell, SkShape
  <2>5. SkShape(r)
    BY <2>2, <2>4 DEF SkWell, SkShape
  <2>6. SkIn(r)
    BY <2>4 DEF SkWell, SkIn
  <2>7. ASSUME NEW v \in Duelists, NEW t \in Duelists, <<v, t>> \in r.seen, <<v, t>> \notin V
        PROVE  r.shown[v][t] = Sk!GetSkullClient(r, v, t)
    <3>1. Sk!GetSkullClient(r, v, t) = Sk!GetSkullClient(s, v, t)
      BY <2>4, <2>5, SkClient DEF SkWell
    <3>2. CASE <<v, t>> \in pairs
      BY <2>3, <2>4, <2>7, <3>1, <3>2
    <3>3. CASE <<v, t>> \notin pairs
      <4>1. <<v, t>> \notin W
        BY <2>7, <3>3
      <4>2. s.shown[v][t] = Sk!GetSkullClient(s, v, t)
        BY <2>4, <2>7, <4>1 DEF SkWell, SkRight
      <4> QED BY <2>3, <2>4, <3>1, <3>3, <4>2
    <3> QED BY <3>2, <3>3
  <2>8. SkRight(r, V)
    BY <1>2, <2>7 DEF SkRight
  <2>9. \A k \in Duelists \ B : SkCool(r.d[k])
    BY <2>4 DEF SkWell
  <2> QED BY <2>4, <2>5, <2>6, <2>8, <2>9 DEF SkWell, r
<1> QED BY <1>1, <1>2

\* A player that changes: what others are shown of it is to be sent, unless it stays the same.
LEMMA SkChange ==
  ASSUME NEW s, NEW W, NEW B, SkWell(s, W, B), NEW c \in Duelists, NEW x \in SkPerson, x.in = s.d[c].in, NEW V, NEW C,
         \A v, t \in Duelists : <<v, t>> \in W => <<v, t>> \in V,
         \A v \in Duelists : \/ <<v, c>> \in V
                             \/ x.skull = s.d[c].skull /\ (x.skull # Sk!NoSkull \/ (v \in x.attacked <=> v \in s.d[c].attacked)),
         \A k \in Duelists \ C : (k = c /\ SkCool(x)) \/ (k # c /\ k \notin B)
  PROVE  LET r == [s EXCEPT !.d = [s.d EXCEPT ![c] = x]]
         IN  SkWell(r, V, C) /\ r.d = [s.d EXCEPT ![c] = x] /\ r.party = s.party /\ r.seen = s.seen
<1> DEFINE d == [s.d EXCEPT ![c] = x]
           r == [s EXCEPT !.d = d]
<1>1. d \in [Duelists -> SkPerson] /\ d[c] = x /\ \A k \in Duelists : k # c => d[k] = s.d[k]
  BY DEF SkWell, SkShape
<1> HIDE DEF d
<1>2. DOMAIN r = DOMAIN s /\ r.d = d /\ r.party = s.party /\ r.seen = s.seen /\ r.shown = s.shown
  BY DEF SkWell, SkShape
<1> HIDE DEF r
<1>3. SkShape(r)
  BY <1>1, <1>2 DEF SkWell, SkShape
<1>4. SkIn(r)
  <2>1. \A k \in Duelists : d[k].in = s.d[k].in
    BY <1>1
  <2> QED BY <1>2, <2>1 DEF SkWell, SkShape, SkIn
<1>5. ASSUME NEW v \in Duelists, NEW t \in Duelists, <<v, t>> \in r.seen, WorldType = "pvp" => <<v, t>> \notin V
      PROVE  r.shown[v][t] = Sk!GetSkullClient(r, v, t)
  <2>1. s.shown[v][t] = Sk!GetSkullClient(s, v, t)
    BY <1>2, <1>5 DEF SkWell, SkRight
  <2>2. CASE WorldType # "pvp"
    BY <1>2, <1>3, <2>1, <2>2, SkClient DEF SkWell
  <2>3. CASE WorldType = "pvp" /\ t # c
    <3>1. d[t] = s.d[t]
      BY <1>1, <2>3
    <3> QED BY <1>2, <1>3, <2>1, <3>1, SkClient DEF SkWell
  <2>4. CASE WorldType = "pvp" /\ t = c
    <3>1. x.skull = s.d[t].skull /\ (x.skull # Sk!NoSkull \/ (v \in x.attacked <=> v \in s.d[t].attacked))
      BY <1>5, <2>4
    <3>2. d[t] = x
      BY <1>1, <2>4
    <3>3. Sk!GetSkullClient(s, v, t) = Sk!GetSkullClient(r, v, t)
      BY <1>2, <1>3, <3>1, <3>2, SkClient DEF SkWell
    <3> QED BY <1>2, <2>1, <3>3
  <2> QED BY <2>2, <2>3, <2>4
<1>6. SkRight(r, V)
  BY <1>5 DEF SkRight
<1>7. \A k \in Duelists \ C : SkCool(r.d[k])
  BY <1>1, <1>2 DEF SkWell
<1> QED BY <1>2, <1>3, <1>4, <1>6, <1>7 DEF SkWell, r, d

\* A step that leaves skullTicks alone.
SkTicks(s, r) == \A k \in Duelists : r.d[k].ticks = s.d[k].ticks

\* An edit of one player that leaves its ticks alone.
LEMMA SkTicksEdit ==
  ASSUME NEW s, SkShape(s), NEW c \in Duelists, NEW x, x.ticks = s.d[c].ticks, NEW r, r.d = [s.d EXCEPT ![c] = x]
  PROVE  SkTicks(s, r)
BY DEF SkTicks, SkShape

\* Player::setSkull, sent to whoever sees the player.
LEMMA SkSet ==
  ASSUME NEW s, NEW W, NEW B, SkWell(s, W, B), NEW c \in Duelists, NEW skull \in Sk!Skull \ {"yellow", "green"}, NEW C, NEW U,
         \A v, w \in Duelists : <<v, w>> \in W => w = c \/ <<v, w>> \in U,
         c \in C \/ SkCool([s.d[c] EXCEPT !.skull = skull]), \A k \in Duelists \ C : k = c \/ k \notin B
  PROVE  LET r == Sk!SetSkull(s, c, skull)
         IN  SkWell(r, U, C)
<1> DEFINE x == [s.d[c] EXCEPT !.skull = skull]
           t == [s EXCEPT !.d = [s.d EXCEPT ![c] = x]]
           V == W \cup (Duelists \X {c})
           r == Sk!SetSkull(s, c, skull)
<1>1. s.d[c] \in SkPerson
  BY DEF SkWell, SkShape
<1>2. /\ x \in SkPerson /\ x.in = s.d[c].in /\ x.skull = skull /\ x.pzLocked = s.d[c].pzLocked
      /\ x.attacked = s.d[c].attacked /\ x.inFight = s.d[c].inFight
  BY <1>1 DEF SkPerson
<1>3. r = Sk!SendCreatureSkulls(t, Duelists \X {c})
  BY DEF Sk!SetSkull, Sk!UpdateCreatureSkull
<1> HIDE DEF x
<1>4. \A k \in Duelists \ C : (k = c /\ SkCool(x)) \/ (k # c /\ k \notin B)
  BY DEF x
<1>5. SkWell(t, V, C) /\ t.d = [s.d EXCEPT ![c] = x] /\ t.party = s.party /\ t.seen = s.seen
  <2>1. \A v, w \in Duelists : <<v, w>> \in W => <<v, w>> \in V
    OBVIOUS
  <2>2. \A v \in Duelists : <<v, c>> \in V
    OBVIOUS
  <2> HIDE DEF V
  <2> QED BY <1>2, <1>4, <2>1, <2>2, SkChange
<1> HIDE DEF t, r
<1>6. \A v, w \in Duelists : <<v, w>> \in V => <<v, w>> \in Duelists \X {c} \/ <<v, w>> \in U
  OBVIOUS
<1> HIDE DEF V
<1>7. SkWell(r, U, C)
  BY <1>3, <1>5, <1>6, SkSend
<1> QED BY <1>7 DEF r

\* What it leaves alone.
LEMMA SkSetRest ==
  ASSUME NEW s, SkShape(s), NEW c \in Duelists, NEW skull
  PROVE  LET r == Sk!SetSkull(s, c, skull)
         IN  r.d = [s.d EXCEPT ![c] = [s.d[c] EXCEPT !.skull = skull]] /\ r.party = s.party /\ r.seen = s.seen /\ SkTicks(s, r)
<1> DEFINE d == [s.d EXCEPT ![c] = [s.d[c] EXCEPT !.skull = skull]]
           t == [s EXCEPT !.d = d]
           r == Sk!SendCreatureSkulls(t, Duelists \X {c})
           shows == [v \in Duelists |-> [w \in Duelists |->
                       IF <<v, w>> \in (Duelists \X {c}) \cap t.seen THEN Sk!GetSkullClient(t, v, w) ELSE t.shown[v][w]]]
<1>1. Sk!SetSkull(s, c, skull) = r
  BY DEF Sk!SetSkull, Sk!UpdateCreatureSkull
<1>2. r = t \/ r = [t EXCEPT !.shown = shows]
  BY DEF Sk!SendCreatureSkulls
<1> HIDE DEF d
<1>3. DOMAIN t = DOMAIN s /\ t.d = d /\ t.party = s.party /\ t.seen = s.seen
  BY DEF SkShape
<1> HIDE DEF t, r, shows
<1>4. r.d = t.d /\ r.party = t.party /\ r.seen = t.seen
  BY <1>2, <1>3 DEF SkShape
<1>5. \A k \in Duelists : d[k].ticks = s.d[k].ticks
  <2>1. s.d \in [Duelists -> SkPerson] /\ s.d[c] \in SkPerson
    BY DEF SkShape
  <2>2. [s.d[c] EXCEPT !.skull = skull].ticks = s.d[c].ticks
    BY <2>1 DEF SkPerson
  <2> QED BY <2>1, <2>2 DEF d
<1>6. SkTicks(s, r)
  BY <1>3, <1>4, <1>5 DEF SkTicks
<1> QED BY <1>1, <1>3, <1>4, <1>6 DEF d

\* Who gets into a fight is right in it.
LEMMA SkFight ==
  ASSUME NEW s, NEW W, NEW B, SkWell(s, W, B), NEW c \in Duelists
  PROVE  LET r == Sk!AddInFightTicks(s, c)
         IN  SkWell(r, W, B \ {c}) /\ SkTicks(s, r)
<1> DEFINE x == [s.d[c] EXCEPT !.inFight = TRUE]
<1>1. s.d[c] \in SkPerson
  BY DEF SkWell, SkShape
<1>2. /\ x \in SkPerson /\ x.in = s.d[c].in /\ x.skull = s.d[c].skull /\ x.attacked = s.d[c].attacked /\ x.inFight = TRUE
      /\ x.ticks = s.d[c].ticks
  BY <1>1 DEF SkPerson
<1>3. Sk!AddInFightTicks(s, c) = [s EXCEPT !.d = [s.d EXCEPT ![c] = x]]
  BY DEF Sk!AddInFightTicks
<1> HIDE DEF x
<1>4. SkCool(x)
  BY <1>2 DEF SkCool
<1> DEFINE t == [s EXCEPT !.d = [s.d EXCEPT ![c] = x]]
           C == B \ {c}
<1>5. \A k \in Duelists \ C : (k = c /\ SkCool(x)) \/ (k # c /\ k \notin B)
  BY <1>4
<1> HIDE DEF C
<1>6. SkWell(t, W, C) /\ t.d = [s.d EXCEPT ![c] = x] /\ t.party = s.party /\ t.seen = s.seen
  BY <1>2, <1>5, SkChange
<1> HIDE DEF t
<1>7. SkTicks(s, t)
  BY <1>2, <1>6, SkTicksEdit DEF SkWell
<1> QED BY <1>3, <1>6, <1>7 DEF t, C

\* A protection zone lock shows nowhere.
LEMMA SkLock ==
  ASSUME NEW s, NEW W, NEW B, SkWell(s, W, B), NEW c \in Duelists, NEW C, B \subseteq C, c \in C \/ s.d[c].inFight = TRUE
  PROVE  LET r == [s EXCEPT !.d[c].pzLocked = TRUE]
         IN  SkWell(r, W, C) /\ SkTicks(s, r)
<1> DEFINE x == [s.d[c] EXCEPT !.pzLocked = TRUE]
<1>1. s.d[c] \in SkPerson
  BY DEF SkWell, SkShape
<1>2. /\ x \in SkPerson /\ x.in = s.d[c].in /\ x.skull = s.d[c].skull /\ x.attacked = s.d[c].attacked /\ x.inFight = s.d[c].inFight
      /\ x.ticks = s.d[c].ticks
  BY <1>1 DEF SkPerson
<1>3. [s EXCEPT !.d[c].pzLocked = TRUE] = [s EXCEPT !.d = [s.d EXCEPT ![c] = x]]
  OBVIOUS
<1> HIDE DEF x
<1> DEFINE t == [s EXCEPT !.d = [s.d EXCEPT ![c] = x]]
<1>4. \A k \in Duelists \ C : (k = c /\ SkCool(x)) \/ (k # c /\ k \notin B)
  BY <1>2 DEF SkCool
<1>5. SkWell(t, W, C) /\ t.d = [s.d EXCEPT ![c] = x] /\ t.party = s.party /\ t.seen = s.seen
  BY <1>2, <1>4, SkChange
<1> HIDE DEF t
<1>6. SkTicks(s, t)
  BY <1>2, <1>5, SkTicksEdit DEF SkWell
<1> QED BY <1>3, <1>5, <1>6 DEF t

\* Player::addAttacked has to be sent to the attacked only, if no skull hides it.
LEMMA SkAttack ==
  ASSUME NEW s, NEW W, NEW B, SkWell(s, W, B), NEW a \in Duelists, NEW t \in Duelists, a # t, NEW C, B \subseteq C, a \in C, NEW V,
         \A v, w \in Duelists : <<v, w>> \in W => <<v, w>> \in V, <<t, a>> \in V \/ s.d[a].skull # Sk!NoSkull
  PROVE  LET r == Sk!AddAttacked(s, a, t)
         IN  SkWell(r, V, C) /\ SkTicks(s, r) /\ r.d[a].skull = s.d[a].skull
<1> DEFINE x == [s.d[a] EXCEPT !.attacked = s.d[a].attacked \cup {t}]
<1>1. s.d[a] \in SkPerson
  BY DEF SkWell, SkShape
<1>2. /\ x \in SkPerson /\ x.in = s.d[a].in /\ x.skull = s.d[a].skull /\ x.attacked = s.d[a].attacked \cup {t} /\ x.ticks = s.d[a].ticks
  BY <1>1 DEF SkPerson
<1>3. Sk!AddAttacked(s, a, t) = [s EXCEPT !.d = [s.d EXCEPT ![a] = x]]
  BY DEF Sk!AddAttacked
<1> HIDE DEF x
<1> DEFINE r == [s EXCEPT !.d = [s.d EXCEPT ![a] = x]]
<1>6. \A v \in Duelists : <<v, a>> \in V \/ (x.skull = s.d[a].skull /\ (x.skull # Sk!NoSkull \/ (v \in x.attacked <=> v \in s.d[a].attacked)))
  BY <1>2
<1>7. \A k \in Duelists \ C : k # a /\ k \notin B
  OBVIOUS
<1>8. SkWell(r, V, C) /\ r.d = [s.d EXCEPT ![a] = x] /\ r.party = s.party /\ r.seen = s.seen
  BY <1>2, <1>6, <1>7, SkChange
<1> HIDE DEF r
<1>9. SkTicks(s, r) /\ r.d[a].skull = s.d[a].skull
  <2>1. SkTicks(s, r)
    BY <1>2, <1>8, SkTicksEdit DEF SkWell
  <2>2. r.d[a] = x
    BY <1>8 DEF SkWell, SkShape
  <2> QED BY <1>2, <2>1, <2>2
<1> QED BY <1>3, <1>8, <1>9 DEF r

\* Player::onEndCondition ends the grudges, whatever else is still to be sent.
LEMMA SkEnd ==
  ASSUME NEW s, NEW W, NEW B, SkWell(s, W, B), NEW c \in Duelists
  PROVE  LET r == Sk!OnEndCondition(s, c)
         IN  /\ SkWell(r, W, B \ {c}) /\ r.party = s.party /\ r.seen = s.seen
             /\ \A k \in Duelists : r.d[k].ticks = s.d[k].ticks /\ r.d[k].in = s.d[k].in
<1> DEFINE y == [s.d[c] EXCEPT !.inFight = FALSE, !.pzLocked = FALSE, !.attacked = {}]
           x == [s EXCEPT !.d = [s.d EXCEPT ![c] = y]]
           V == W \cup (Duelists \X {c})
           C == B \ {c}
<1>1. s.d[c] \in SkPerson /\ s.d \in [Duelists -> SkPerson]
  BY DEF SkWell, SkShape
<1>2. /\ y \in SkPerson /\ y.in = s.d[c].in /\ y.skull = s.d[c].skull /\ y.attacked = {} /\ y.pzLocked = FALSE /\ y.ticks = s.d[c].ticks
  BY <1>1 DEF SkPerson
<1> DEFINE u == [s EXCEPT !.d[c].inFight = FALSE, !.d[c].pzLocked = FALSE, !.d[c].attacked = {}]
<1>3. u = x
  <2> DEFINE s1 == [s EXCEPT !.d[c].inFight = FALSE, !.d[c].pzLocked = FALSE]
             y1 == [s.d[c] EXCEPT !.inFight = FALSE, !.pzLocked = FALSE]
  <2>1. DOMAIN s = {"d", "party", "seen", "shown"}
    BY DEF SkWell, SkShape
  <2>2. s1 = [s EXCEPT !.d = [s.d EXCEPT ![c] = y1]]
    BY <1>1, <2>1 DEF SkPerson
  <2>3. y1 \in SkPerson /\ y = [y1 EXCEPT !.attacked = {}]
    BY <1>1 DEF SkPerson
  <2>4. [s EXCEPT !.d[c].inFight = FALSE, !.d[c].pzLocked = FALSE, !.d[c].attacked = {}] = [s1 EXCEPT !.d[c].attacked = {}]
    BY <1>1, <2>1 DEF SkPerson
  <2> HIDE DEF y1, s1, y
  <2>5. [s1 EXCEPT !.d[c].attacked = {}] = [s EXCEPT !.d = [s.d EXCEPT ![c] = y]]
    BY <1>1, <2>1, <2>2, <2>3
  <2> QED BY <2>4, <2>5
<1>31. Sk!OnEndCondition(s, c) = IF u.d[c].skull \in {"red", "black"} THEN u ELSE Sk!SetSkull(u, c, Sk!NoSkull)
  BY DEF Sk!OnEndCondition
<1> HIDE DEF u
<1>30. Sk!OnEndCondition(s, c) = IF x.d[c].skull \in {"red", "black"} THEN x ELSE Sk!SetSkull(x, c, Sk!NoSkull)
  BY <1>3, <1>31
<1> HIDE DEF y
<1>4. CASE y.skull \in {"red", "black"}
  <2>1. SkCool(y)
    BY <1>2, <1>4 DEF SkCool
  <2>2. \A v \in Duelists : y.skull = s.d[c].skull /\ y.skull # Sk!NoSkull
    BY <1>2, <1>4 DEF Sk!NoSkull
  <2>3. \A k \in Duelists \ C : (k = c /\ SkCool(y)) \/ (k # c /\ k \notin B)
    BY <2>1
  <2>4. SkWell(x, W, C) /\ x.d = [s.d EXCEPT ![c] = y] /\ x.party = s.party /\ x.seen = s.seen
    BY <1>2, <2>2, <2>3, SkChange
  <2>5. Sk!OnEndCondition(s, c) = x
    BY <1>1, <1>30, <1>4, <2>4
  <2>6. \A k \in Duelists : x.d[k].ticks = s.d[k].ticks /\ x.d[k].in = s.d[k].in
    BY <1>1, <1>2, <2>4
  <2> QED BY <2>4, <2>5, <2>6
<1>5. CASE y.skull \notin {"red", "black"}
  <2> DEFINE r == Sk!SetSkull(x, c, Sk!NoSkull)
             D == B \cup {c}
             z == [x.d[c] EXCEPT !.skull = Sk!NoSkull]
  <2>1. (\A v, w \in Duelists : <<v, w>> \in W => <<v, w>> \in V) /\ (\A v \in Duelists : <<v, c>> \in V)
    OBVIOUS
  <2>2. \A k \in Duelists \ D : (k = c /\ SkCool(y)) \/ (k # c /\ k \notin B)
    OBVIOUS
  <2>3. \A v, w \in Duelists : <<v, w>> \in V => w = c \/ <<v, w>> \in W
    OBVIOUS
  <2> HIDE DEF V, D, C
  <2>4. SkWell(x, V, D) /\ x.d = [s.d EXCEPT ![c] = y] /\ x.party = s.party /\ x.seen = s.seen
    BY <1>2, <2>1, <2>2, SkChange
  <2>5. x.d[c] = y
    BY <1>1, <2>4
  <2>6. Sk!OnEndCondition(s, c) = r
    BY <1>30, <1>5, <2>5
  <2> HIDE DEF x
  <2>7. y.pzLocked # TRUE /\ y.attacked = {}
    BY <1>2
  <2>8. SkCool(z)
    BY <1>2, <2>5, <2>7 DEF SkCool, SkPerson, Sk!NoSkull
  <2>80. \A k \in Duelists \ C : k = c \/ k \notin D
    BY DEF C, D
  <2>9. Sk!NoSkull \in Sk!Skull \ {"yellow", "green"}
    BY DEF Sk!NoSkull, Sk!Skull
  <2>10. /\ SkWell(r, W, C) /\ r.d = [x.d EXCEPT ![c] = z] /\ r.party = x.party /\ r.seen = x.seen
    <3>1. \A v, w \in Duelists : <<v, w>> \in V => w = c \/ <<v, w>> \in W
      BY <2>3
    <3> HIDE DEF C
    <3>2. SkWell(r, W, C)
      BY <2>4, <2>8, <2>80, <2>9, <3>1, SkSet
    <3>3. r.d = [x.d EXCEPT ![c] = z] /\ r.party = x.party /\ r.seen = x.seen
      BY <2>4, SkSetRest DEF SkWell
    <3> QED BY <3>2, <3>3
  <2>11. z.ticks = y.ticks /\ z.in = y.in
    BY <1>2, <2>5 DEF SkPerson
  <2> HIDE DEF z
  <2>12. \A k \in Duelists : r.d[k].ticks = s.d[k].ticks /\ r.d[k].in = s.d[k].in
    BY <1>1, <1>2, <2>4, <2>10, <2>11
  <2> QED BY <2>4, <2>6, <2>10, <2>12 DEF C
<1> QED BY <1>4, <1>5

\* What is still to be done may be overstated.
LEMMA SkMore ==
  ASSUME NEW s, NEW W, NEW B, SkWell(s, W, B), NEW V, NEW C, \A v, w \in Duelists : <<v, w>> \in W => <<v, w>> \in V, B \subseteq C
  PROVE  SkWell(s, V, C)
<1>1. SkRight(s, V)
  BY DEF SkWell, SkRight
<1>2. \A k \in Duelists \ C : SkCool(s.d[k])
  BY DEF SkWell
<1> QED BY <1>1, <1>2 DEF SkWell

\* Player::onAttackedCreature: the white skull, the grudge and the lock go with a fight, and
\* whoever shows the attacker is told.
LEMMA SkAttacked ==
  ASSUME NEW s, SkWell(s, {}, {}), NEW a \in Duelists, NEW t \in Duelists, a # t, NEW ally \in BOOLEAN, NEW war \in BOOLEAN
  PROVE  LET r == Sk!OnAttackedCreature(s, a, t, ally, war) IN SkWell(r, {}, {}) /\ SkTicks(s, r)
<1> DEFINE lock(x) == [x EXCEPT !.d[a].pzLocked = TRUE]
           s0 == IF WorldType = "pvp-enforced" THEN lock(s) ELSE s
           s1 == Sk!AddInFightTicks(s0, t)
           s2 == IF WorldType # "pvp-enforced" THEN lock(s1) ELSE s1
           s3 == Sk!AddAttacked(s2, a, t)
           s4 == IF s3.d[a].skull = Sk!NoSkull /\ s3.d[t].skull = Sk!NoSkull THEN Sk!SetSkull(s3, a, "white") ELSE s3
           first == s1.d[a].skull = Sk!NoSkull /\ Sk!GetSkullClient(s1, a, t) = "yellow"
           struck == IF war THEN s2
                     ELSE IF s4.d[a].skull = Sk!NoSkull THEN Sk!SendCreatureSkull(s4, t, a) ELSE s4
           back == Sk!SendCreatureSkull(Sk!AddAttacked(s1, a, t), t, a)
           quarrel == CASE first -> back
                        [] Sk!HasAttacked(s1, t, a) /\ ~first -> s1
                        [] ~Sk!HasAttacked(s1, t, a) -> struck
           B == {a}
           W == {<<t, a>>}
           E == {}
           q == IF ally \/ Sk!IsPartner(s, a, t) THEN s ELSE quarrel
<1>0. Sk!OnAttackedCreature(s, a, t, ally, war) = Sk!AddInFightTicks(q, a)
  BY DEF Sk!OnAttackedCreature
<1>1. /\ a \in B /\ E \subseteq B /\ <<t, a>> \in W /\ B \ {a} = E /\ B \ {t} \subseteq B /\ E \ {t} \subseteq B /\ B \subseteq B
      /\ (\A v, w \in Duelists : <<v, w>> \in E => <<v, w>> \in W) /\ (\A v, w \in Duelists : <<v, w>> \in E => <<v, w>> \in E)
      /\ (\A v, w \in Duelists : <<v, w>> \in W => w = a \/ <<v, w>> \in E)
      /\ (\A v, w \in Duelists : <<v, w>> \in W => <<v, w>> \in {<<t, a>>} \/ <<v, w>> \in E)
      /\ \A k \in Duelists \ B : k = a \/ k \notin B
  OBVIOUS
<1>2. SkWell(s, E, E)
  OBVIOUS
<1> HIDE DEF B, W, E
<1>3. SkWell(s, E, B) /\ SkTicks(s, s)
  BY <1>1, <1>2, SkMore DEF SkTicks
<1>4. ASSUME NEW x, SkWell(x, E, B), SkTicks(s, x) PROVE SkWell(lock(x), E, B) /\ SkTicks(s, lock(x))
  <2> DEFINE r == lock(x)
  <2>1. SkWell(r, E, B) /\ SkTicks(x, r)
    BY <1>1, <1>4, SkLock
  <2> HIDE DEF r
  <2> QED BY <1>4, <2>1 DEF SkTicks, r
<1> HIDE DEF lock
<1>5. SkWell(s0, E, B) /\ SkTicks(s, s0)
  BY <1>3, <1>4
<1> HIDE DEF s0
<1>6. SkWell(s1, E, B) /\ SkTicks(s, s1)
  <2>1. SkWell(s1, E, B \ {t}) /\ SkTicks(s0, s1)
    BY <1>5, SkFight
  <2> HIDE DEF s1
  <2>2. SkWell(s1, E, B)
    BY <1>1, <2>1, SkMore
  <2> QED BY <1>5, <2>1, <2>2 DEF SkTicks
<1> HIDE DEF s1
<1>7. SkWell(s2, E, B) /\ SkTicks(s, s2)
  BY <1>4, <1>6
<1> HIDE DEF s2
<1>8. ASSUME NEW x, SkWell(x, E, B), SkTicks(s, x)
      PROVE  LET y == Sk!AddAttacked(x, a, t)
             IN  /\ SkWell(y, W, B) /\ SkTicks(s, y) /\ y.d[a].skull = x.d[a].skull
                 /\ x.d[a].skull # Sk!NoSkull => SkWell(y, E, B)
  <2> DEFINE y == Sk!AddAttacked(x, a, t)
  <2>1. SkWell(y, W, B) /\ SkTicks(x, y) /\ y.d[a].skull = x.d[a].skull
    BY <1>1, <1>8, SkAttack
  <2>2. x.d[a].skull # Sk!NoSkull => SkWell(y, E, B)
    BY <1>1, <1>8, SkAttack
  <2> HIDE DEF y
  <2> QED BY <1>8, <2>1, <2>2 DEF SkTicks, y
<1>9. ASSUME NEW x, SkWell(x, W, B), SkTicks(s, x)
      PROVE  LET y == Sk!SendCreatureSkull(x, t, a) IN SkWell(y, E, B) /\ SkTicks(s, y)
  <2> DEFINE y == Sk!SendCreatureSkulls(x, {<<t, a>>})
  <2>1. SkWell(y, E, B) /\ y.d = x.d
    BY <1>1, <1>9, SkSend
  <2> HIDE DEF y
  <2> QED BY <1>9, <2>1 DEF Sk!SendCreatureSkull, SkTicks, y
<1>10. SkWell(back, E, B) /\ SkTicks(s, back)
  BY <1>6, <1>8, <1>9
<1>11. SkWell(s3, W, B) /\ SkTicks(s, s3) /\ s3.d[a].skull = s2.d[a].skull /\ (s2.d[a].skull # Sk!NoSkull => SkWell(s3, E, B))
  BY <1>7, <1>8
<1> HIDE DEF s3, back
<1>12. SkWell(s4, W, B) /\ SkTicks(s, s4) /\ (s4.d[a].skull # Sk!NoSkull => SkWell(s4, E, B))
  <2>1. CASE s3.d[a].skull = Sk!NoSkull /\ s3.d[t].skull = Sk!NoSkull
    <3> DEFINE y == Sk!SetSkull(s3, a, "white")
    <3>1. "white" \in Sk!Skull \ {"yellow", "green"}
      BY DEF Sk!Skull
    <3>2. SkWell(y, E, B)
      BY <1>1, <1>11, <3>1, SkSet
    <3>4. SkTicks(s3, y)
      BY <1>11, SkSetRest DEF SkWell
    <3> HIDE DEF y
    <3>5. SkWell(y, W, B)
      BY <1>1, <3>2, SkMore
    <3> QED BY <1>11, <2>1, <3>2, <3>4, <3>5 DEF SkTicks, y
  <2>2. CASE ~(s3.d[a].skull = Sk!NoSkull /\ s3.d[t].skull = Sk!NoSkull)
    BY <1>11, <2>2
  <2> QED BY <2>1, <2>2
<1> HIDE DEF s4
<1>13. SkWell(struck, E, B) /\ SkTicks(s, struck)
  BY <1>7, <1>9, <1>12
<1> HIDE DEF struck
<1>14. first => Sk!HasAttacked(s1, t, a)
  <2>1. s1.d[t] \in SkPerson
    BY <1>6 DEF SkWell, SkShape
  <2>2. s1.d[t].skull # "yellow" /\ "yellow" # Sk!NoSkull /\ "green" # "yellow"
    BY <2>1 DEF SkPerson, Sk!NoSkull
  <2> QED BY <1>6, <2>2, SkClient DEF SkWell, Sk!HasAttacked
<1> HIDE DEF first
<1>15. quarrel = back \/ quarrel = s1 \/ quarrel = struck
  <2>1. CASE first
    BY <1>14, <2>1
  <2>2. CASE ~first /\ Sk!HasAttacked(s1, t, a)
    BY <2>2
  <2>3. CASE ~first /\ ~Sk!HasAttacked(s1, t, a)
    BY <2>3
  <2> QED BY <2>1, <2>2, <2>3
<1>16. SkWell(quarrel, E, B) /\ SkTicks(s, quarrel)
  BY <1>6, <1>10, <1>13, <1>15
<1> HIDE DEF quarrel
<1>17. SkWell(q, E, B) /\ SkTicks(s, q)
  BY <1>3, <1>16
<1> HIDE DEF q
<1> DEFINE r == Sk!AddInFightTicks(q, a)
<1>18. SkWell(r, E, B \ {a}) /\ SkTicks(q, r)
  BY <1>17, SkFight
<1> HIDE DEF r
<1>20. SkWell(r, E, E) /\ SkTicks(s, r)
  BY <1>1, <1>17, <1>18 DEF SkTicks
<1> QED BY <1>0, <1>20 DEF r, E

\* Player::addUnjustifiedDead: who was right stays so.
LEMMA SkUnjustified ==
  ASSUME NEW s, NEW W, SkWell(s, W, {}), NEW c \in Duelists
  PROVE  SkWell(Sk!AddUnjustifiedDead(s, c), W, {})
<1> DEFINE x0 == [s.d[c] EXCEPT !.ticks = s.d[c].ticks + FragTime]
           x == [s EXCEPT !.d = [s.d EXCEPT ![c] = x0]]
           E == {}
<1>1. s.d[c] \in SkPerson /\ SkCool(s.d[c]) /\ s.d \in [Duelists -> SkPerson]
  BY DEF SkWell, SkShape
<1>2. /\ x0 \in SkPerson /\ x0.in = s.d[c].in /\ x0.skull = s.d[c].skull /\ x0.attacked = s.d[c].attacked
      /\ x0.pzLocked = s.d[c].pzLocked /\ x0.inFight = s.d[c].inFight
  BY <1>1, SkullAssumption DEF SkPerson
<1>3. Sk!AddUnjustifiedDead(s, c) \in {s, x, Sk!SetSkull(x, c, "black"), Sk!SetSkull(x, c, "red")}
  BY DEF Sk!AddUnjustifiedDead
<1> HIDE DEF x0
<1>4. SkCool(x0)
  BY <1>1, <1>2 DEF SkCool
<1>5. (\A k \in Duelists \ E : (k = c /\ SkCool(x0)) \/ (k # c /\ k \notin E)) /\ \A v, w \in Duelists : <<v, w>> \in W => <<v, w>> \in W
  BY <1>4
<1>6. SkWell(s, W, E)
  OBVIOUS
<1> HIDE DEF E
<1>7. SkWell(x, W, E) /\ x.d = [s.d EXCEPT ![c] = x0]
  BY <1>2, <1>5, <1>6, SkChange
<1>8. x.d[c] = x0
  BY <1>1, <1>7
<1> HIDE DEF x
<1>9. ASSUME NEW skull \in {"black", "red"} PROVE SkWell(Sk!SetSkull(x, c, skull), W, E)
  <2>1. skull \in Sk!Skull \ {"yellow", "green"}
    BY DEF Sk!Skull
  <2> DEFINE z == [x.d[c] EXCEPT !.skull = skull]
  <2>2. z.skull # "white" /\ z.pzLocked = x0.pzLocked /\ z.attacked = x0.attacked /\ z.inFight = x0.inFight
    BY <1>2, <1>8 DEF SkPerson
  <2>3. SkCool(z)
    BY <1>4, <2>2 DEF SkCool
  <2>4. \A v, w \in Duelists : <<v, w>> \in W => w = c \/ <<v, w>> \in W
    OBVIOUS
  <2>5. \A k \in Duelists \ E : k = c \/ k \notin E
    OBVIOUS
  <2> QED BY <1>7, <2>1, <2>3, <2>4, <2>5, SkSet
<1>10. SkWell(Sk!SetSkull(x, c, "black"), W, E) /\ SkWell(Sk!SetSkull(x, c, "red"), W, E)
  BY <1>9
<1> QED BY <1>3, <1>6, <1>7, <1>10 DEF E

\* Player::onKilledCreature locks only who is in a fight.
LEMMA SkKilled ==
  ASSUME NEW s, NEW W, SkWell(s, W, {}), NEW c \in Duelists, NEW dead, NEW lastHit, NEW ally, NEW war
  PROVE  SkWell(Sk!OnKilledCreature(s, c, dead, lastHit, ally, war), W, {})
<1> DEFINE x == IF s.d[dead].skull = Sk!NoSkull /\ ~war THEN Sk!AddUnjustifiedDead(s, c) ELSE s
           right == Sk!IsPartner(s, c, dead) \/ ~Sk!HasAttacked(s, c, dead) \/ Sk!HasAttacked(s, dead, c) \/ ally
           locked == [x EXCEPT !.d[c].pzLocked = TRUE]
           r == Sk!OnKilledCreature(s, c, dead, lastHit, ally, war)
           E == {}
<1>1. r = IF right THEN s ELSE IF lastHit /\ x.d[c].inFight THEN locked ELSE x
  BY DEF Sk!OnKilledCreature
<1>2. SkWell(s, W, E) /\ SkWell(x, W, E)
  BY SkUnjustified
<1> HIDE DEF x, right
<1>3. ASSUME x.d[c].inFight PROVE SkWell(locked, W, E)
  <2>1. x.d[c].inFight = TRUE
    BY <1>2, <1>3 DEF SkWell, SkShape, SkPerson
  <2>2. E \subseteq E
    OBVIOUS
  <2> HIDE DEF E
  <2> QED BY <1>2, <2>1, <2>2, SkLock
<1> HIDE DEF locked, E, r
<1>4. SkWell(r, W, E)
  <2>1. CASE right
    BY <1>1, <1>2, <2>1
  <2>2. CASE ~right /\ (lastHit /\ x.d[c].inFight)
    BY <1>1, <1>3, <2>2
  <2>3. CASE ~right /\ ~(lastHit /\ x.d[c].inFight)
    BY <1>1, <1>2, <2>3
  <2> QED BY <2>1, <2>2, <2>3
<1> QED BY <1>4 DEF r, E

\* All of a party are in the game.
SkAllIn(s, party) == \A k \in party : s.d[k].in = TRUE

\* A party that changes is sent to whoever is partner of others than before.
LEMMA SkParty ==
  ASSUME NEW s, NEW W, NEW B, SkWell(s, W, B), NEW party \in SUBSET Duelists, SkAllIn(s, party), NEW pairs,
         \A v, w \in Duelists : <<v, w>> \in pairs \/ v = w \/ (v \in s.party /\ w \in s.party <=> v \in party /\ w \in party),
         NEW t, DOMAIN t = DOMAIN s, t.d = s.d, t.party = party, t.seen = s.seen, t.shown = s.shown
  PROVE  LET r == Sk!SendCreatureSkulls(t, pairs)
         IN  SkWell(r, W, B) /\ r.d = s.d /\ r.party = party /\ r.seen = s.seen
<1> DEFINE r == Sk!SendCreatureSkulls(t, pairs)
           V == {q \in Duelists \X Duelists : q \in W \/ q \in pairs}
<1>1. DOMAIN t = DOMAIN s /\ t.d = s.d /\ t.party = party /\ t.seen = s.seen /\ t.shown = s.shown
  OBVIOUS
<1>2. \A v, w \in Duelists : <<v, w>> \in V <=> <<v, w>> \in W \/ <<v, w>> \in pairs
  OBVIOUS
<1> HIDE DEF V
<1>3. SkShape(t)
  BY <1>1 DEF SkWell, SkShape
<1>4. SkIn(t)
  BY <1>1 DEF SkWell, SkIn, SkAllIn
<1>5. ASSUME NEW v \in Duelists, NEW w \in Duelists, <<v, w>> \in t.seen, WorldType = "pvp" => <<v, w>> \notin V
      PROVE  t.shown[v][w] = Sk!GetSkullClient(t, v, w)
  <2>1. s.shown[v][w] = Sk!GetSkullClient(s, v, w)
    BY <1>1, <1>2, <1>5 DEF SkWell, SkRight
  <2>2. WorldType = "pvp" => (v = w \/ (v \in s.party /\ w \in s.party <=> v \in party /\ w \in party))
    BY <1>2, <1>5
  <2>3. Sk!GetSkullClient(s, v, w) = Sk!GetSkullClient(t, v, w)
    BY <1>1, <1>3, <2>2, SkClient DEF SkWell
  <2> QED BY <1>1, <2>1, <2>3
<1>6. SkRight(t, V)
  BY <1>5 DEF SkRight
<1>7. SkWell(t, V, B)
  BY <1>1, <1>3, <1>4, <1>6 DEF SkWell
<1>8. \A v, w \in Duelists : <<v, w>> \in V => <<v, w>> \in pairs \/ <<v, w>> \in W
  BY <1>2
<1>9. SkWell(r, W, B) /\ r.d = t.d /\ r.party = t.party /\ r.seen = t.seen
  BY <1>7, <1>8, SkSend
<1> HIDE DEF r
<1> QED BY <1>1, <1>9 DEF r

\* Party::leaveParty and disband tell all that are concerned.
LEMMA SkLeaveParty ==
  ASSUME NEW s, NEW W, NEW B, SkWell(s, W, B), NEW c \in Duelists
  PROVE  LET r == Sk!LeaveParty(s, c)
         IN  SkWell(r, W, B) /\ r.d = s.d /\ c \notin r.party /\ r.seen = s.seen
<1> DEFINE rest == s.party \ {c}
           pairs == Sk!BothWays(c, rest \cup {c})
           none == {}
           t == [s EXCEPT !.party = rest]
           x == Sk!SendCreatureSkulls(t, pairs)
           u == [x EXCEPT !.party = none]
           y == Sk!SendCreatureSkulls(u, x.party \X x.party)
           r == Sk!LeaveParty(s, c)
<1>1. r = x \/ r = y
  BY DEF Sk!LeaveParty, Sk!Disband
<1>2. rest \in SUBSET Duelists /\ SkAllIn(s, rest) /\ c \notin rest
  BY DEF SkWell, SkShape, SkIn, SkAllIn
<1>3. \A v, w \in Duelists : <<v, w>> \in pairs \/ v = w \/ (v \in s.party /\ w \in s.party <=> v \in rest /\ w \in rest)
  BY DEF Sk!BothWays
<1>30. DOMAIN t = DOMAIN s /\ t.d = s.d /\ t.party = rest /\ t.seen = s.seen /\ t.shown = s.shown
  BY DEF SkWell, SkShape
<1> HIDE DEF rest, pairs, t
<1>4. SkWell(x, W, B) /\ x.d = s.d /\ x.party = rest /\ x.seen = s.seen
  BY <1>2, <1>3, <1>30, SkParty
<1> HIDE DEF x
<1>5. none \in SUBSET Duelists /\ SkAllIn(x, none) /\ c \notin none
  BY DEF SkAllIn
<1>6. \A v, w \in Duelists : <<v, w>> \in x.party \X x.party \/ v = w \/ (v \in x.party /\ w \in x.party <=> v \in none /\ w \in none)
  OBVIOUS
<1>60. DOMAIN u = DOMAIN x /\ u.d = x.d /\ u.party = none /\ u.seen = x.seen /\ u.shown = x.shown
  BY <1>4 DEF SkWell, SkShape
<1> HIDE DEF none, u
<1>7. SkWell(y, W, B) /\ y.d = x.d /\ y.party = none /\ y.seen = x.seen
  BY <1>4, <1>5, <1>6, <1>60, SkParty
<1> HIDE DEF y, r
<1>8. SkWell(r, W, B) /\ r.d = s.d /\ c \notin r.party /\ r.seen = s.seen
  BY <1>1, <1>2, <1>4, <1>5, <1>7
<1> QED BY <1>8 DEF r

\* What nobody sees need not be sent any more.
LEMMA SkUnsee ==
  ASSUME NEW s, NEW W, NEW B, SkWell(s, W, B), NEW seen2 \in SUBSET s.seen, NEW V,
         \A v, w \in Duelists : <<v, w>> \in seen2 /\ <<v, w>> \in W => <<v, w>> \in V
  PROVE  SkWell([s EXCEPT !.seen = seen2], V, B)
<1> DEFINE r == [s EXCEPT !.seen = seen2]
<1>1. DOMAIN r = DOMAIN s /\ r.d = s.d /\ r.party = s.party /\ r.seen = seen2 /\ r.shown = s.shown
  BY DEF SkWell, SkShape
<1> HIDE DEF r
<1>2. SkShape(r)
  BY <1>1 DEF SkWell, SkShape
<1>3. SkIn(r)
  BY <1>1 DEF SkWell, SkIn
<1>4. ASSUME NEW v \in Duelists, NEW w \in Duelists, <<v, w>> \in r.seen, WorldType = "pvp" => <<v, w>> \notin V
      PROVE  r.shown[v][w] = Sk!GetSkullClient(r, v, w)
  <2>1. s.shown[v][w] = Sk!GetSkullClient(s, v, w)
    BY <1>1, <1>4 DEF SkWell, SkRight
  <2>2. Sk!GetSkullClient(s, v, w) = Sk!GetSkullClient(r, v, w)
    BY <1>1, <1>2, SkClient DEF SkWell
  <2> QED BY <1>1, <2>1, <2>2
<1>5. SkRight(r, V)
  BY <1>4 DEF SkRight
<1> QED BY <1>1, <1>2, <1>3, <1>5 DEF SkWell, r

\* Player::onRemoveCreature: nobody sees the player, so that nothing of it is to be sent.
LEMMA SkGoAway ==
  ASSUME NEW s, NEW W, SkWell(s, W, {}), NEW c \in Duelists, \A v, w \in Duelists : <<v, w>> \in W => c \in {v, w}
  PROVE  LET r == Sk!GoAway(s, c) IN SkWell(r, {}, {}) /\ SkTicks(s, r)
<1> DEFINE x == IF c \in s.party THEN Sk!LeaveParty(s, c) ELSE s
           kept == IF x.d[c].skull \in {"red", "black"} THEN x.d[c].skull ELSE Sk!NoSkull
           leaver == [Sk!Unmarked EXCEPT !.in = FALSE, !.skull = kept, !.ticks = x.d[c].ticks, !.inFight = x.d[c].inFight]
           rest == {q \in x.seen : c \notin {q[1], q[2]}}
           d == [x.d EXCEPT ![c] = leaver]
           r == [x EXCEPT !.d = d, !.seen = rest]
           E == {}
<1>1. Sk!GoAway(s, c) = r
  BY DEF Sk!GoAway
<1>2. SkWell(x, W, E) /\ x.d = s.d /\ c \notin x.party
  BY SkLeaveParty
<1> HIDE DEF x
<1>3. x.d[c] \in SkPerson /\ x.d \in [Duelists -> SkPerson]
  BY <1>2 DEF SkWell, SkShape
<1>4. /\ leaver \in SkPerson /\ leaver.in = FALSE /\ leaver.skull # "white" /\ leaver.pzLocked = FALSE /\ leaver.attacked = {} /\ leaver.ticks = x.d[c].ticks
  BY <1>3 DEF SkPerson, Sk!Unmarked, Sk!NoSkull, Sk!Skull
<1> HIDE DEF leaver
<1>5. d \in [Duelists -> SkPerson] /\ d[c] = leaver /\ \A k \in Duelists : k # c => d[k] = x.d[k]
  BY <1>3, <1>4
<1>6. \A v, w \in Duelists : <<v, w>> \in rest <=> <<v, w>> \in x.seen /\ v # c /\ w # c
  OBVIOUS
<1>7. rest \in SUBSET (Duelists \X Duelists)
  BY <1>2 DEF SkWell, SkShape
<1> HIDE DEF d, rest
<1>8. DOMAIN r = DOMAIN x /\ r.d = d /\ r.party = x.party /\ r.seen = rest /\ r.shown = x.shown
  BY <1>2 DEF SkWell, SkShape
<1> HIDE DEF r
<1>9. SkShape(r)
  BY <1>2, <1>5, <1>7, <1>8 DEF SkWell, SkShape
<1>10. SkIn(r)
  BY <1>2, <1>5, <1>6, <1>8 DEF SkWell, SkShape, SkIn
<1>11. ASSUME NEW v \in Duelists, NEW w \in Duelists, <<v, w>> \in r.seen
       PROVE  r.shown[v][w] = Sk!GetSkullClient(r, v, w)
  <2>1. v # c /\ w # c /\ <<v, w>> \in x.seen /\ <<v, w>> \notin W
    BY <1>6, <1>8, <1>11
  <2>2. x.shown[v][w] = Sk!GetSkullClient(x, v, w)
    BY <1>2, <2>1 DEF SkWell, SkRight
  <2>3. d[w] = x.d[w]
    BY <1>5, <2>1
  <2>4. Sk!GetSkullClient(x, v, w) = Sk!GetSkullClient(r, v, w)
    BY <1>2, <1>8, <1>9, <2>3, SkClient DEF SkWell
  <2> QED BY <1>8, <2>2, <2>4
<1>12. SkRight(r, E)
  BY <1>11 DEF SkRight
<1>13. SkCool(leaver)
  BY <1>4 DEF SkCool
<1>14. \A k \in Duelists \ E : SkCool(r.d[k])
  BY <1>2, <1>5, <1>8, <1>13 DEF SkWell
<1>15. SkTicks(s, r)
  BY <1>2, <1>4, <1>5, <1>8 DEF SkTicks
<1> HIDE DEF E
<1>16. SkWell(r, E, E)
  BY <1>9, <1>10, <1>12, <1>14 DEF SkWell
<1> QED BY <1>1, <1>15, <1>16 DEF r, E

\* Creature::onDeath: grudges that are taken from those that hurt the dead are never sent to
\* it, but it ends out of sight.
LEMMA SkDeath ==
  ASSUME NEW s, SkWell(s, {}, {}), NEW c \in Duelists, NEW hurt \in SUBSET (Duelists \ {c}), NEW last, NEW most,
         NEW pvpZone \in BOOLEAN, NEW ally \in BOOLEAN, NEW war \in BOOLEAN
  PROVE  SkWell(Sk!OnDeath(s, c, hurt, last, most, pvpZone, ally, war), {}, {})
<1> DEFINE killed(x, k, lastHit) ==
              IF k \notin Duelists \/ pvpZone THEN x ELSE Sk!OnKilledCreature(x, k, c, lastHit, ally, war)
           s1 == killed(s, last, TRUE)
           d == [k \in Duelists |-> IF k \in hurt THEN Sk!RemoveAttacked(s1, k, c).d[k] ELSE s1.d[k]]
           s2 == [s1 EXCEPT !.d = d]
           s3 == IF most = last THEN s2 ELSE killed(s2, most, FALSE)
           W == {q \in Duelists \X Duelists : q[1] = c /\ q[2] # c}
           E == {}
<1>0. Sk!OnDeath(s, c, hurt, last, most, pvpZone, ally, war) = Sk!Death(s3, c, pvpZone)
  BY DEF Sk!OnDeath
<1>1. (\A v, w \in Duelists : <<v, w>> \in W <=> v = c /\ w # c) /\ (\A v, w \in Duelists : <<v, w>> \notin E) /\ E \ {c} = E
      /\ \A v, w : <<v, w>> \in W => c \in {v, w}
  OBVIOUS
<1>2. SkWell(s, E, E)
  OBVIOUS
<1>3. ASSUME NEW x, NEW V, SkWell(x, V, E), NEW k, NEW lastHit PROVE SkWell(killed(x, k, lastHit), V, E)
  <2>1. CASE k \notin Duelists \/ pvpZone
    BY <1>3, <2>1
  <2>2. CASE ~(k \notin Duelists \/ pvpZone)
    <3>1. k \in Duelists
      BY <2>2
    <3>2. killed(x, k, lastHit) = Sk!OnKilledCreature(x, k, c, lastHit, ally, war)
      BY <2>2
    <3> HIDE DEF killed
    <3>3. SkWell(Sk!OnKilledCreature(x, k, c, lastHit, ally, war), V, E)
      BY <1>3, <3>1, SkKilled
    <3> QED BY <3>2, <3>3
  <2> QED BY <2>1, <2>2
<1> HIDE DEF killed
<1>4. SkWell(s1, E, E)
  BY <1>2, <1>3
<1> HIDE DEF s1
<1>5. d \in [Duelists -> SkPerson]
      /\ \A k \in Duelists : /\ d[k].in = s1.d[k].in /\ d[k].skull = s1.d[k].skull /\ d[k].pzLocked = s1.d[k].pzLocked
                             /\ d[k].inFight = s1.d[k].inFight /\ d[k].attacked \subseteq s1.d[k].attacked
                             /\ s1.d[k].attacked \ {c} \subseteq d[k].attacked
                             /\ k = c => d[k].attacked = s1.d[k].attacked
  <2> SUFFICES ASSUME NEW k \in Duelists
               PROVE  /\ d[k] \in SkPerson
                      /\ d[k].in = s1.d[k].in /\ d[k].skull = s1.d[k].skull /\ d[k].pzLocked = s1.d[k].pzLocked
                      /\ d[k].inFight = s1.d[k].inFight /\ d[k].attacked \subseteq s1.d[k].attacked
                      /\ s1.d[k].attacked \ {c} \subseteq d[k].attacked
                      /\ k = c => d[k].attacked = s1.d[k].attacked
    OBVIOUS
  <2>1. s1.d[k] \in SkPerson /\ s1.d \in [Duelists -> SkPerson] /\ DOMAIN s1 = {"d", "party", "seen", "shown"}
    BY <1>4 DEF SkWell, SkShape
  <2>2. CASE k \in hurt
    <3> DEFINE x == [s1.d[k] EXCEPT !.attacked = s1.d[k].attacked \ {c}]
    <3>1. Sk!RemoveAttacked(s1, k, c) = [s1 EXCEPT !.d = [s1.d EXCEPT ![k] = x]]
      BY DEF Sk!RemoveAttacked
    <3>2. Sk!RemoveAttacked(s1, k, c).d[k] = x
      BY <2>1, <3>1
    <3>3. d[k] = x
      BY <2>2, <3>2
    <3>4. /\ x \in SkPerson /\ x.in = s1.d[k].in /\ x.skull = s1.d[k].skull /\ x.pzLocked = s1.d[k].pzLocked
          /\ x.inFight = s1.d[k].inFight /\ x.attacked = s1.d[k].attacked \ {c}
      BY <2>1 DEF SkPerson
    <3> HIDE DEF x, d
    <3>5. k # c
      BY <2>2
    <3> QED BY <3>3, <3>4, <3>5
  <2>3. CASE k \notin hurt
    <3>1. d[k] = s1.d[k]
      BY <2>3
    <3> HIDE DEF d
    <3> QED BY <2>1, <3>1
  <2> QED BY <2>2, <2>3
<1> HIDE DEF d
<1>6. DOMAIN s2 = DOMAIN s1 /\ s2.d = d /\ s2.party = s1.party /\ s2.seen = s1.seen /\ s2.shown = s1.shown
  BY <1>4 DEF SkWell, SkShape
<1> HIDE DEF s2
<1>7. SkWell(s2, W, E)
  <2>1. SkShape(s2)
    BY <1>4, <1>5, <1>6 DEF SkWell, SkShape
  <2>2. SkIn(s2)
    BY <1>4, <1>5, <1>6 DEF SkWell, SkShape, SkIn
  <2>3. ASSUME NEW v \in Duelists, NEW w \in Duelists, <<v, w>> \in s2.seen, WorldType = "pvp" => <<v, w>> \notin W
        PROVE  s2.shown[v][w] = Sk!GetSkullClient(s2, v, w)
    <3>1. s1.shown[v][w] = Sk!GetSkullClient(s1, v, w)
      BY <1>1, <1>4, <1>6, <2>3 DEF SkWell, SkRight
    <3>2. WorldType = "pvp" => (v \in d[w].attacked <=> v \in s1.d[w].attacked)
      <4>1. WorldType = "pvp" => v # c \/ w = c
        BY <1>1, <2>3
      <4> QED BY <1>5, <4>1
    <3>3. d[w].skull = s1.d[w].skull
      BY <1>5
    <3>4. Sk!GetSkullClient(s1, v, w) = Sk!GetSkullClient(s2, v, w)
      BY <1>4, <1>6, <2>1, <3>2, <3>3, SkClient DEF SkWell
    <3> QED BY <1>6, <3>1, <3>4
  <2>4. SkRight(s2, W)
    BY <2>3 DEF SkRight
  <2>5. ASSUME NEW k \in Duelists \ E PROVE SkCool(s2.d[k])
    <3>1. SkCool(s1.d[k])
      BY <1>4 DEF SkWell
    <3>2. d[k].attacked # {} => s1.d[k].attacked # {}
      BY <1>5
    <3> QED BY <1>5, <1>6, <3>1, <3>2 DEF SkCool
  <2> QED BY <2>1, <2>2, <2>4, <2>5 DEF SkWell
<1>8. SkWell(s3, W, E)
  BY <1>3, <1>7
<1> HIDE DEF s3
<1> DEFINE x == Sk!OnEndCondition(s3, c)
           rest == {q \in x.seen : c \notin {q[1], q[2]} \/ q[1] = q[2]}
<1>9. SkWell(x, W, E)
  <2>1. SkWell(x, W, E \ {c})
    BY <1>8, SkEnd
  <2> HIDE DEF x, E
  <2> QED BY <1>1, <2>1
<1>10. Sk!Death(s3, c, pvpZone) = IF pvpZone THEN [x EXCEPT !.seen = rest] ELSE Sk!GoAway(x, c)
  BY DEF Sk!Death
<1> HIDE DEF x
<1>11. SkWell([x EXCEPT !.seen = rest], E, E)
  <2>1. rest \in SUBSET x.seen
    OBVIOUS
  <2>2. \A v, w \in Duelists : <<v, w>> \in rest /\ <<v, w>> \in W => <<v, w>> \in E
    BY <1>1
  <2> HIDE DEF rest, W, E
  <2> QED BY <1>9, <2>1, <2>2, SkUnsee
<1>12. SkWell(Sk!GoAway(x, c), E, E)
  <2>1. \A v, w \in Duelists : <<v, w>> \in W => c \in {v, w}
    BY <1>1
  <2> HIDE DEF W
  <2> QED BY <1>9, <2>1, SkGoAway
<1> QED BY <1>0, <1>10, <1>11, <1>12 DEF E

\* What becomes of a state whose parts are right is right.
LEMMA SkBecome ==
  ASSUME NEW s, SkWell(s, {}, {}), \A k \in Duelists : s.d[k].ticks \in 0..MaxSkullTicks, Sk!Become(s)
  PROVE  SkGood'
<1> DEFINE shows == [v \in Duelists |-> [t \in Duelists |-> IF <<v, t>> \in s.seen THEN s.shown[v][t] ELSE Sk!NoSkull]]
           n == [d |-> duel', party |-> comrades', seen |-> seen', shown |-> shown']
<1>1. duel' = s.d /\ comrades' = s.party /\ seen' = s.seen /\ shown' = shows
  BY DEF Sk!Become
<1>2. shows \in [Duelists -> [Duelists -> Sk!Skull]] /\ \A v, t \in Duelists : <<v, t>> \in s.seen => shows[v][t] = s.shown[v][t]
  BY DEF SkWell, SkShape, Sk!Skull, Sk!NoSkull
<1> HIDE DEF shows
<1>3. DOMAIN n = {"d", "party", "seen", "shown"} /\ n.d = s.d /\ n.party = s.party /\ n.seen = s.seen /\ n.shown = shows
  BY <1>1
<1> HIDE DEF n
<1>4. SkShape(n)
  BY <1>2, <1>3 DEF SkWell, SkShape
<1>5. SkIn(n)
  BY <1>3 DEF SkWell, SkIn
<1>6. ASSUME NEW v \in Duelists, NEW t \in Duelists, <<v, t>> \in n.seen PROVE n.shown[v][t] = Sk!GetSkullClient(n, v, t)
  <2>1. s.shown[v][t] = Sk!GetSkullClient(s, v, t)
    BY <1>3, <1>6 DEF SkWell, SkRight
  <2>2. Sk!GetSkullClient(s, v, t) = Sk!GetSkullClient(n, v, t)
    BY <1>3, <1>4, SkClient DEF SkWell
  <2> QED BY <1>2, <1>3, <1>6, <2>1, <2>2
<1>7. SkRight(n, {})
  BY <1>6 DEF SkRight
<1>8. \A k \in Duelists \ {} : SkCool(n.d[k])
  BY <1>3 DEF SkWell
<1>9. SkWell(n, {}, {})
  BY <1>4, <1>5, <1>7, <1>8 DEF SkWell
<1>10. Sk!Now' = n
  BY DEF Sk!Now, n
<1> QED BY <1>1, <1>9, <1>10 DEF SkGood

\* What the state of the players is, as a record.
LEMMA SkNow ==
  ASSUME SkGood
  PROVE  LET n == Sk!Now
         IN  /\ SkWell(n, {}, {}) /\ DOMAIN n = {"d", "party", "seen", "shown"}
             /\ n.d = duel /\ n.party = comrades /\ n.seen = seen /\ n.shown = shown
             /\ \A k \in Duelists : n.d[k].ticks \in 0..MaxSkullTicks
BY DEF SkGood, Sk!Now

\* It has the types and the promises of the skulls.
LEMMA SkTypes == SkGood => Sk!SkullsTypeOK /\ Sk!SkullsShown /\ Sk!NoGrudgeForever
<1> SUFFICES ASSUME SkGood PROVE Sk!SkullsTypeOK /\ Sk!SkullsShown /\ Sk!NoGrudgeForever
  OBVIOUS
<1> DEFINE n == Sk!Now
<1>1. SkShape(n) /\ SkIn(n) /\ SkRight(n, {}) /\ (\A k \in Duelists : SkCool(n.d[k]))
      /\ n.d = duel /\ n.party = comrades /\ n.seen = seen /\ n.shown = shown
  BY SkNow DEF SkWell
<1> HIDE DEF n
<1>2. duel \in [Duelists -> SkPerson] /\ \A k \in Duelists : duel[k].ticks \in 0..MaxSkullTicks
  BY <1>1 DEF SkShape, SkGood
<1>3. ASSUME NEW c \in Duelists
      PROVE  duel[c] \in [in : BOOLEAN, skull : Sk!Skull \ {"yellow", "green"}, ticks : 0..MaxSkullTicks,
                          inFight : BOOLEAN, pzLocked : BOOLEAN, attacked : SUBSET Duelists]
  BY <1>2 DEF SkPerson
<1>4. \A q \in seen : q = <<q[1], q[2]>> /\ q[1] \in Duelists /\ q[2] \in Duelists
  BY <1>1 DEF SkShape
<1>5. Sk!SkullsTypeOK
  <2>1. comrades \subseteq {c \in Duelists : duel[c].in}
    BY <1>1 DEF SkShape, SkIn
  <2>2. \A q \in seen : duel[q[1]].in /\ duel[q[2]].in
    BY <1>1, <1>4 DEF SkIn
  <2>3. shown \in [Duelists -> [Duelists -> Sk!Skull]]
    BY <1>1 DEF SkShape
  <2> QED BY <1>2, <1>3, <2>1, <2>2, <2>3 DEF Sk!SkullsTypeOK
<1>6. Sk!SkullsShown
  <2>1. ASSUME NEW q \in seen PROVE shown[q[1]][q[2]] = Sk!GetSkullClient(n, q[1], q[2])
    BY <1>1, <1>4 DEF SkRight
  <2> QED BY <2>1 DEF Sk!SkullsShown, n
<1>7. Sk!NoGrudgeForever
  <2>1. ASSUME NEW c \in Duelists, duel[c].skull = "white" \/ duel[c].pzLocked \/ duel[c].attacked # {} PROVE duel[c].inFight
    <3>1. duel[c].pzLocked \in BOOLEAN
      BY <1>2 DEF SkPerson
    <3> QED BY <1>1, <2>1, <3>1 DEF SkCool
  <2> QED BY <2>1 DEF Sk!NoGrudgeForever, Sk!Alive
<1> QED BY <1>5, <1>6, <1>7

\* At first nobody has a skull, and everybody sees itself.
LEMMA SkInit == Sk!SkullsInit => SkGood
<1> SUFFICES ASSUME Sk!SkullsInit PROVE SkGood
  OBVIOUS
<1> DEFINE n == Sk!Now
<1>1. /\ duel = [c \in Duelists |-> Sk!Unmarked] /\ comrades = {} /\ seen = {<<c, c>> : c \in Duelists}
      /\ shown = [v \in Duelists |-> [t \in Duelists |-> Sk!NoSkull]]
  BY DEF Sk!SkullsInit
<1>2. DOMAIN n = {"d", "party", "seen", "shown"} /\ n.d = duel /\ n.party = comrades /\ n.seen = seen /\ n.shown = shown
  BY DEF Sk!Now
<1> HIDE DEF n
<1>3. \A c \in Duelists : duel[c] = Sk!Unmarked
  BY <1>1
<1>4. /\ Sk!Unmarked \in SkPerson /\ SkCool(Sk!Unmarked) /\ Sk!Unmarked.in = TRUE /\ Sk!Unmarked.ticks = 0 /\ Sk!Unmarked.skull = Sk!NoSkull
      /\ Sk!Unmarked.attacked = {}
  BY DEF SkPerson, SkCool, Sk!Unmarked, Sk!NoSkull, Sk!Skull
<1>5. SkShape(n)
  <2>1. duel \in [Duelists -> SkPerson]
    BY <1>1, <1>4
  <2>2. seen \in SUBSET (Duelists \X Duelists)
    BY <1>1
  <2>3. shown \in [Duelists -> [Duelists -> Sk!Skull]]
    BY <1>1 DEF Sk!Skull, Sk!NoSkull
  <2>4. comrades \in SUBSET Duelists
    BY <1>1
  <2> QED BY <1>2, <2>1, <2>2, <2>3, <2>4 DEF SkShape
<1>6. SkIn(n)
  BY <1>1, <1>2, <1>3, <1>4 DEF SkIn
<1>7. ASSUME NEW v \in Duelists, NEW t \in Duelists, <<v, t>> \in n.seen PROVE n.shown[v][t] = Sk!GetSkullClient(n, v, t)
  <2>1. v = t
    BY <1>1, <1>2, <1>7
  <2>2. n.shown[v][t] = Sk!NoSkull
    BY <1>1, <1>2
  <2>3. n.d[t].skull = Sk!NoSkull /\ n.d[t].attacked = {}
    BY <1>2, <1>3, <1>4
  <2> QED BY <1>5, <2>1, <2>2, <2>3, SkClient
<1>8. SkRight(n, {})
  BY <1>7 DEF SkRight
<1>9. SkWell(n, {}, {})
  BY <1>2, <1>3, <1>4, <1>5, <1>6, <1>8 DEF SkWell
<1>10. \A c \in Duelists : duel[c].ticks \in 0..MaxSkullTicks
  BY <1>3, <1>4, SkullAssumption
<1> QED BY <1>9, <1>10 DEF SkGood, n

\* A state with the ticks of now may be become.
LEMMA SkBecomeSame ==
  ASSUME SkGood, NEW s, SkWell(s, {}, {}), SkTicks(Sk!Now, s), Sk!Become(s)
  PROVE  SkGood'
<1>1. \A k \in Duelists : s.d[k].ticks \in 0..MaxSkullTicks
  BY SkNow DEF SkTicks
<1> QED BY <1>1, SkBecome

\* A strike is made of two fights and an attack.
LEMMA SkStrike == ASSUME SkGood, Sk!Strike PROVE SkGood'
<1> DEFINE n == Sk!Now
           E == {}
<1>1. PICK a \in Duelists, t \in Duelists, ally \in BOOLEAN, war \in BOOLEAN :
         a # t /\ Sk!Become(Sk!OnAttackedCreature(Sk!AddInFightTicks(n, t), a, t, ally, war))
  BY DEF Sk!Strike, Sk!Alive
<1>2. SkWell(n, E, E) /\ E \ {t} = E
  BY SkNow
<1> DEFINE s == Sk!AddInFightTicks(n, t)
           r == Sk!OnAttackedCreature(s, a, t, ally, war)
<1> HIDE DEF n, E
<1>3. SkWell(s, E, E) /\ SkTicks(n, s)
  <2>1. SkWell(s, E, E \ {t}) /\ SkTicks(n, s)
    BY <1>2, SkFight
  <2> HIDE DEF s
  <2> QED BY <1>2, <2>1
<1> HIDE DEF s
<1>4. SkWell(r, {}, {}) /\ SkTicks(s, r)
  <2>1. SkWell(s, {}, {})
    BY <1>3 DEF E
  <2> QED BY <1>1, <2>1, SkAttacked
<1>5. Sk!Become(r)
  BY <1>1 DEF s
<1> HIDE DEF r
<1>6. SkTicks(n, r)
  BY <1>3, <1>4 DEF SkTicks
<1> QED BY <1>4, <1>5, <1>6, SkBecomeSame DEF n

\* A fight with a monster or a field.
LEMMA SkScuffle == ASSUME SkGood, Sk!Scuffle PROVE SkGood'
<1> DEFINE n == Sk!Now
           E == {}
<1>1. PICK c \in Duelists : Sk!Become(Sk!AddInFightTicks(n, c))
  BY DEF Sk!Scuffle, Sk!Alive
<1> DEFINE s == Sk!AddInFightTicks(n, c)
<1>2. SkWell(n, E, E) /\ E \ {c} = E
  BY SkNow
<1> HIDE DEF n, E
<1>3. SkWell(s, E, E \ {c}) /\ SkTicks(n, s)
  BY <1>2, SkFight
<1> HIDE DEF s
<1>4. SkWell(s, {}, {})
  BY <1>2, <1>3 DEF E
<1> QED BY <1>1, <1>3, <1>4, SkBecomeSame DEF n, s

\* The end of a fight.
LEMMA SkFightEnds == ASSUME SkGood, Sk!FightEnds PROVE SkGood'
<1> DEFINE n == Sk!Now
           E == {}
<1>1. PICK c \in Duelists : Sk!Become(Sk!OnEndCondition(n, c))
  BY DEF Sk!FightEnds, Sk!Alive
<1> DEFINE s == Sk!OnEndCondition(n, c)
<1>2. SkWell(n, E, E) /\ E \ {c} = E
  BY SkNow
<1> HIDE DEF n, E
<1>3. SkWell(s, E, E \ {c}) /\ \A k \in Duelists : s.d[k].ticks = n.d[k].ticks
  BY <1>2, SkEnd
<1> HIDE DEF s
<1>4. SkWell(s, {}, {}) /\ SkTicks(n, s)
  BY <1>2, <1>3 DEF E, SkTicks
<1> QED BY <1>1, <1>4, SkBecomeSame DEF n, s

\* A death, within the bound of skullTicks.
LEMMA SkDie == ASSUME SkGood, Sk!Die PROVE SkGood'
<1> DEFINE n == Sk!Now
           dies(c, hurt, last, most, pvpZone, ally, war) ==
              LET s == Sk!OnDeath(n, c, hurt, last, most, pvpZone, ally, war)
              IN  (\A k \in Duelists : s.d[k].ticks <= MaxSkullTicks) /\ Sk!Become(s)
<1>0. PICK c \in Sk!Alive : \E hurt \in SUBSET (Sk!Alive \ {c}) :
        \E last, most \in hurt \cup {"none"}, pvpZone, ally, war \in BOOLEAN : dies(c, hurt, last, most, pvpZone, ally, war)
  BY DEF Sk!Die
<1>1. PICK hurt \in SUBSET (Sk!Alive \ {c}) :
        \E last, most \in hurt \cup {"none"}, pvpZone, ally, war \in BOOLEAN : dies(c, hurt, last, most, pvpZone, ally, war)
  BY <1>0
<1> HIDE DEF dies
<1>10. PICK last \in hurt \cup {"none"}, most \in hurt \cup {"none"}, pvpZone \in BOOLEAN, ally \in BOOLEAN, war \in BOOLEAN :
        dies(c, hurt, last, most, pvpZone, ally, war)
  BY <1>1
<1>11. c \in Duelists /\ hurt \in SUBSET (Duelists \ {c})
  BY DEF Sk!Alive
<1> DEFINE s == Sk!OnDeath(n, c, hurt, last, most, pvpZone, ally, war)
<1>2. SkWell(n, {}, {})
  BY SkNow
<1> HIDE DEF n
<1>3. SkWell(s, {}, {})
  BY <1>2, <1>11, SkDeath
<1>4. (\A k \in Duelists : s.d[k].ticks <= MaxSkullTicks) /\ Sk!Become(s)
  BY <1>10 DEF dies
<1> HIDE DEF s
<1>5. \A k \in Duelists : s.d[k].ticks \in 0..MaxSkullTicks
  BY <1>3, <1>4, SkullAssumption DEF SkWell, SkShape, SkPerson
<1> QED BY <1>3, <1>4, <1>5, SkBecome

\* skullTicks that run down show nowhere before the skull goes.
LEMMA SkCheckTicks == ASSUME SkGood, Sk!CheckSkullTicks PROVE SkGood'
<1> DEFINE n == Sk!Now
           E == {}
           left(c) == IF n.d[c].ticks = 0 THEN 0 ELSE n.d[c].ticks - 1
           y(c) == [n.d[c] EXCEPT !.ticks = left(c)]
           x(c) == [n EXCEPT !.d = [n.d EXCEPT ![c] = y(c)]]
<1>1. PICK c \in Duelists : Sk!Become(IF x(c).d[c].skull \in {"red", "black"} /\ x(c).d[c].ticks < 1 /\ ~x(c).d[c].inFight
                                      THEN Sk!SetSkull(x(c), c, Sk!NoSkull) ELSE x(c))
  BY DEF Sk!CheckSkullTicks, Sk!Alive
<1>2. SkWell(n, E, E) /\ (\A k \in Duelists : n.d[k].ticks \in 0..MaxSkullTicks)
  BY SkNow
<1> HIDE DEF n
<1>3. n.d[c] \in SkPerson /\ n.d \in [Duelists -> SkPerson] /\ SkCool(n.d[c])
  BY <1>2 DEF SkWell, SkShape
<1>4. left(c) \in 0..MaxSkullTicks /\ left(c) \in Nat
  BY <1>2, SkullAssumption
<1>5. /\ y(c) \in SkPerson /\ y(c).in = n.d[c].in /\ y(c).skull = n.d[c].skull /\ y(c).attacked = n.d[c].attacked
      /\ y(c).inFight = n.d[c].inFight /\ y(c).pzLocked = n.d[c].pzLocked /\ y(c).ticks = left(c)
  BY <1>3, <1>4 DEF SkPerson
<1> HIDE DEF left, y
<1>6. SkCool(y(c))
  BY <1>3, <1>5 DEF SkCool
<1>7. SkWell(x(c), E, E) /\ x(c).d = [n.d EXCEPT ![c] = y(c)]
  <2>1. (\A v, w \in Duelists : <<v, w>> \in E => <<v, w>> \in E) /\ \A k \in Duelists \ E : (k = c /\ SkCool(y(c))) \/ (k # c /\ k \notin E)
    BY <1>6
  <2> HIDE DEF E
  <2> QED BY <1>2, <1>5, <2>1, SkChange
<1>8. x(c).d[c] = y(c) /\ \A k \in Duelists : x(c).d[k].ticks \in 0..MaxSkullTicks
  BY <1>2, <1>3, <1>4, <1>5, <1>7
<1> HIDE DEF x
<1>9. CASE Sk!Become(x(c))
  BY <1>7, <1>8, <1>9, SkBecome
<1>10. CASE Sk!Become(Sk!SetSkull(x(c), c, Sk!NoSkull))
  <2> DEFINE r == Sk!SetSkull(x(c), c, Sk!NoSkull)
             z == [x(c).d[c] EXCEPT !.skull = Sk!NoSkull]
  <2>1. Sk!NoSkull \in Sk!Skull \ {"yellow", "green"} /\ Sk!NoSkull # "white"
    BY DEF Sk!NoSkull, Sk!Skull
  <2>2. z.skull = Sk!NoSkull /\ z.attacked = y(c).attacked /\ z.pzLocked = y(c).pzLocked /\ z.inFight = y(c).inFight
    BY <1>5, <1>8 DEF SkPerson
  <2>3. SkCool(z)
    BY <1>6, <2>1, <2>2 DEF SkCool
  <2>4. (\A v, w \in Duelists : <<v, w>> \in E => w = c \/ <<v, w>> \in E) /\ \A k \in Duelists \ E : k = c \/ k \notin E
    OBVIOUS
  <2> HIDE DEF E
  <2>5. SkWell(r, E, E)
    BY <1>7, <2>1, <2>3, <2>4, SkSet
  <2>6. SkTicks(x(c), r)
    BY <1>7, SkSetRest DEF SkWell
  <2> HIDE DEF r
  <2>7. \A k \in Duelists : r.d[k].ticks \in 0..MaxSkullTicks
    BY <1>8, <2>6 DEF SkTicks
  <2>8. SkWell(r, {}, {})
    BY <2>5 DEF E
  <2> QED BY <1>10, <2>7, <2>8, SkBecome DEF r
<1> QED BY <1>1, <1>9, <1>10

\* ProtocolGame::AddCreature carries the skull of who appears.
LEMMA SkSee ==
  ASSUME NEW s, SkWell(s, {}, {}), NEW v \in Duelists, NEW t \in Duelists, s.d[v].in = TRUE, s.d[t].in = TRUE,
         NEW r, DOMAIN r = DOMAIN s, r.d = s.d, r.party = s.party, r.seen = s.seen \cup {<<v, t>>},
         r.shown = [s.shown EXCEPT ![v] = [s.shown[v] EXCEPT ![t] = Sk!GetSkullClient(s, v, t)]]
  PROVE  SkWell(r, {}, {})
<1>1. /\ r.shown \in [Duelists -> [Duelists -> Sk!Skull]]
      /\ \A a, b \in Duelists : r.shown[a][b] = IF a = v /\ b = t THEN Sk!GetSkullClient(s, v, t) ELSE s.shown[a][b]
  <2>1. Sk!GetSkullClient(s, v, t) \in Sk!Skull
    BY SkClientType DEF SkWell
  <2>2. s.shown \in [Duelists -> [Duelists -> Sk!Skull]]
    BY DEF SkWell, SkShape
  <2> QED BY <2>1, <2>2
<1>2. SkShape(r)
  BY <1>1 DEF SkWell, SkShape
<1>3. SkIn(r)
  BY DEF SkWell, SkIn
<1>4. ASSUME NEW a \in Duelists, NEW b \in Duelists, <<a, b>> \in r.seen PROVE r.shown[a][b] = Sk!GetSkullClient(r, a, b)
  <2>1. Sk!GetSkullClient(s, a, b) = Sk!GetSkullClient(r, a, b)
    BY <1>2, SkClient DEF SkWell
  <2>2. CASE a = v /\ b = t
    BY <1>1, <2>1, <2>2
  <2>3. CASE ~(a = v /\ b = t)
    <3>1. <<a, b>> \in s.seen
      BY <1>4, <2>3
    <3> QED BY <1>1, <2>1, <2>3, <3>1 DEF SkWell, SkRight
  <2> QED BY <2>2, <2>3
<1>5. SkRight(r, {})
  BY <1>4 DEF SkRight
<1> QED BY <1>2, <1>3, <1>5 DEF SkWell

\* A player that comes into sight is shown with its skull.
LEMMA SkAppear == ASSUME SkGood, Sk!Appear PROVE SkGood'
<1> DEFINE n == Sk!Now
           s(v, t) == [n EXCEPT !.seen = n.seen \cup {<<v, t>>},
                                !.shown = [n.shown EXCEPT ![v] = [n.shown[v] EXCEPT ![t] = Sk!GetSkullClient(n, v, t)]]]
           r(v, t) == [n EXCEPT !.seen = n.seen \cup {<<v, t>>}, !.shown[v][t] = Sk!GetSkullClient(n, v, t)]
<1>1. PICK v \in Duelists, t \in Duelists : duel[v].in /\ duel[t].in /\ Sk!Become(r(v, t))
  BY DEF Sk!Appear, Sk!Alive
<1>2. /\ SkWell(n, {}, {}) /\ DOMAIN n = {"d", "party", "seen", "shown"} /\ n.d = duel
      /\ \A k \in Duelists : n.d[k].ticks \in 0..MaxSkullTicks
  BY SkNow
<1> HIDE DEF n
<1>3. r(v, t) = s(v, t)
  BY <1>2
<1>4. DOMAIN s(v, t) = DOMAIN n /\ s(v, t).d = n.d /\ s(v, t).party = n.party /\ s(v, t).seen = n.seen \cup {<<v, t>>}
      /\ s(v, t).shown = [n.shown EXCEPT ![v] = [n.shown[v] EXCEPT ![t] = Sk!GetSkullClient(n, v, t)]]
  BY <1>2
<1> HIDE DEF r, s
<1>5. n.d[v].in = TRUE /\ n.d[t].in = TRUE
  BY <1>1, <1>2 DEF SkWell, SkShape, SkPerson
<1>6. SkWell(s(v, t), {}, {})
  BY <1>2, <1>4, <1>5, SkSee
<1>7. \A k \in Duelists : s(v, t).d[k].ticks \in 0..MaxSkullTicks
  BY <1>2, <1>4
<1>8. Sk!Become(s(v, t))
  BY <1>1, <1>3
<1> QED BY <1>6, <1>7, <1>8, SkBecome

\* Nothing is owed for who goes out of sight.
LEMMA SkDisappear == ASSUME SkGood, Sk!Disappear PROVE SkGood'
<1> DEFINE n == Sk!Now
           rest(q) == n.seen \ {q}
           s(q) == [n EXCEPT !.seen = rest(q)]
           E == {}
<1>1. PICK q \in seen : Sk!Become(s(q))
  BY DEF Sk!Disappear
<1>2. SkWell(n, E, E) /\ DOMAIN n = {"d", "party", "seen", "shown"} /\ \A k \in Duelists : n.d[k].ticks \in 0..MaxSkullTicks
  BY SkNow
<1> HIDE DEF n
<1>3. rest(q) \in SUBSET n.seen /\ \A v, w \in Duelists : <<v, w>> \in rest(q) /\ <<v, w>> \in E => <<v, w>> \in E
  OBVIOUS
<1> HIDE DEF rest, E
<1>4. SkWell(s(q), E, E)
  BY <1>2, <1>3, SkUnsee
<1>5. s(q).d = n.d
  BY <1>2
<1> HIDE DEF s
<1>6. (\A k \in Duelists : s(q).d[k].ticks \in 0..MaxSkullTicks) /\ SkWell(s(q), {}, {})
  BY <1>2, <1>4, <1>5 DEF E
<1> QED BY <1>1, <1>6, SkBecome

\* A party that is created or joined.
LEMMA SkGrow ==
  ASSUME SkGood, NEW party \in SUBSET Duelists, SkAllIn(Sk!Now, party), NEW pairs,
         \A v, w \in Duelists : <<v, w>> \in pairs \/ v = w \/ (v \in comrades /\ w \in comrades <=> v \in party /\ w \in party),
         Sk!Become(Sk!SendCreatureSkulls([Sk!Now EXCEPT !.party = party], pairs))
  PROVE  SkGood'
<1> DEFINE n == Sk!Now
           t == [n EXCEPT !.party = party]
           r == Sk!SendCreatureSkulls(t, pairs)
           E == {}
<1>1. SkWell(n, E, E) /\ DOMAIN n = {"d", "party", "seen", "shown"} /\ n.party = comrades /\ \A k \in Duelists : n.d[k].ticks \in 0..MaxSkullTicks
  BY SkNow
<1>2. SkAllIn(n, party) /\ Sk!Become(r)
  OBVIOUS
<1> HIDE DEF n, E
<1>3. DOMAIN t = DOMAIN n /\ t.d = n.d /\ t.party = party /\ t.seen = n.seen /\ t.shown = n.shown
  BY <1>1
<1> HIDE DEF t
<1>4. \A v, w \in Duelists : <<v, w>> \in pairs \/ v = w \/ (v \in n.party /\ w \in n.party <=> v \in party /\ w \in party)
  BY <1>1
<1>5. SkWell(r, E, E) /\ r.d = n.d
  BY <1>1, <1>2, <1>3, <1>4, SkParty
<1> HIDE DEF r
<1>6. (\A k \in Duelists : r.d[k].ticks \in 0..MaxSkullTicks) /\ SkWell(r, {}, {})
  BY <1>1, <1>5 DEF E
<1> QED BY <1>2, <1>6, SkBecome

\* Who is alive is in the game.
LEMMA SkAliveIn ==
  ASSUME SkGood, NEW c \in Sk!Alive
  PROVE  c \in Duelists /\ Sk!Now.d[c].in = TRUE /\ comrades \in SUBSET Duelists /\ SkAllIn(Sk!Now, comrades) /\ SkAllIn(Sk!Now, comrades \cup {c})
<1> DEFINE n == Sk!Now
<1>1. SkWell(n, {}, {}) /\ n.d = duel /\ n.party = comrades
  BY SkNow
<1> HIDE DEF n
<1>2. c \in Duelists /\ duel[c].in
  BY DEF Sk!Alive
<1>3. n.d[c].in = TRUE
  BY <1>1, <1>2 DEF SkWell, SkShape, SkPerson
<1>4. comrades \in SUBSET Duelists
  BY <1>1 DEF SkWell, SkShape
<1>5. SkAllIn(n, comrades)
  BY <1>1 DEF SkWell, SkIn, SkAllIn
<1>6. SkAllIn(n, comrades \cup {c})
  BY <1>3, <1>5 DEF SkAllIn
<1> QED BY <1>2, <1>3, <1>4, <1>5, <1>6 DEF n

\* Party::Party: its leader is told.
LEMMA SkCreateParty == ASSUME SkGood, Sk!CreateParty PROVE SkGood'
<1>1. PICK c \in Sk!Alive : comrades = {} /\ Sk!Become(Sk!SendCreatureSkulls([Sk!Now EXCEPT !.party = {c}], {<<c, c>>}))
  BY DEF Sk!CreateParty, Sk!SendCreatureSkull
<1> DEFINE party == {c}
           pairs == {<<c, c>>}
<1>2. c \in Duelists /\ SkAllIn(Sk!Now, comrades \cup {c})
  BY SkAliveIn
<1>3. party \in SUBSET Duelists /\ SkAllIn(Sk!Now, party)
  BY <1>1, <1>2
<1>4. \A v, w \in Duelists : <<v, w>> \in pairs \/ v = w \/ (v \in comrades /\ w \in comrades <=> v \in party /\ w \in party)
  BY <1>1
<1>5. Sk!Become(Sk!SendCreatureSkulls([Sk!Now EXCEPT !.party = party], pairs))
  BY <1>1
<1> HIDE DEF party, pairs
<1> QED BY <1>3, <1>4, <1>5, SkGrow

\* Party::joinParty tells both ways.
LEMMA SkJoinParty == ASSUME SkGood, Sk!JoinParty PROVE SkGood'
<1> DEFINE party(c) == comrades \cup {c}
           pairs(c) == Sk!BothWays(c, comrades \cup {c})
<1>1. PICK c \in Sk!Alive : Sk!Become(Sk!SendCreatureSkulls([Sk!Now EXCEPT !.party = party(c)], pairs(c)))
  BY DEF Sk!JoinParty, Sk!Now
<1>2. c \in Duelists /\ comrades \in SUBSET Duelists /\ SkAllIn(Sk!Now, party(c))
  BY SkAliveIn
<1>3. party(c) \in SUBSET Duelists
  BY <1>2
<1>4. \A v, w \in Duelists : <<v, w>> \in pairs(c) \/ v = w \/ (v \in comrades /\ w \in comrades <=> v \in party(c) /\ w \in party(c))
  BY DEF Sk!BothWays
<1> HIDE DEF party, pairs
<1> QED BY <1>1, <1>2, <1>3, <1>4, SkGrow

\* Party::leaveParty, by a player that stays in the game.
LEMMA SkLeaveOrDisband == ASSUME SkGood, Sk!LeaveOrDisband PROVE SkGood'
<1> DEFINE n == Sk!Now
           E == {}
<1>1. PICK c \in comrades : Sk!Become(Sk!LeaveParty(n, c))
  BY DEF Sk!LeaveOrDisband
<1> DEFINE r == Sk!LeaveParty(n, c)
<1>2. SkWell(n, E, E) /\ n.party = comrades /\ \A k \in Duelists : n.d[k].ticks \in 0..MaxSkullTicks
  BY SkNow
<1> HIDE DEF n, E
<1>3. c \in Duelists
  BY <1>2 DEF SkWell, SkShape
<1>4. SkWell(r, E, E) /\ r.d = n.d
  BY <1>2, <1>3, SkLeaveParty
<1> HIDE DEF r
<1>5. (\A k \in Duelists : r.d[k].ticks \in 0..MaxSkullTicks) /\ SkWell(r, {}, {})
  BY <1>2, <1>4 DEF E
<1> QED BY <1>1, <1>5, SkBecome DEF r

\* Player::onRemoveCreature, at any time.
LEMMA SkLogOut == ASSUME SkGood, Sk!LogOut PROVE SkGood'
<1> DEFINE n == Sk!Now
           E == {}
<1>1. PICK c \in Duelists : Sk!Become(Sk!GoAway(n, c))
  BY DEF Sk!LogOut, Sk!Alive
<1> DEFINE r == Sk!GoAway(n, c)
<1>2. SkWell(n, E, {}) /\ \A v, w \in Duelists : <<v, w>> \in E => c \in {v, w}
  BY SkNow
<1> HIDE DEF n, E
<1>3. SkWell(r, {}, {}) /\ SkTicks(n, r)
  BY <1>2, SkGoAway
<1> HIDE DEF r
<1> QED BY <1>1, <1>3, SkBecomeSame DEF n, r

\* IOLoginData: who comes in sees itself and nobody else yet.
LEMMA SkLogIn == ASSUME SkGood, Sk!LogIn PROVE SkGood'
<1> DEFINE n == Sk!Now
           left(ticks) == IF ticks > 0 THEN ticks + 2 ELSE 0
           c1(c, ticks) == [Sk!Unmarked EXCEPT !.skull = IF ticks > 0 THEN duel[c].skull ELSE Sk!NoSkull,
                                               !.ticks = IF left(ticks) > MaxSkullTicks THEN MaxSkullTicks ELSE left(ticks),
                                               !.inFight = duel[c].inFight]
           x(c, ticks) == [n EXCEPT !.d = [n.d EXCEPT ![c] = c1(c, ticks)], !.seen = n.seen \cup {<<c, c>>}]
           r(c, ticks) == [x(c, ticks) EXCEPT !.shown[c][c] = Sk!GetSkullClient(x(c, ticks), c, c)]
<1>1. PICK c \in Duelists \ Sk!Alive : \E ticks \in 0..duel[c].ticks : Sk!Become(r(c, ticks))
  BY DEF Sk!LogIn
<1>2. PICK ticks \in 0..duel[c].ticks : Sk!Become(r(c, ticks))
  BY <1>1
<1>3. /\ SkWell(n, {}, {}) /\ DOMAIN n = {"d", "party", "seen", "shown"} /\ n.d = duel
      /\ \A k \in Duelists : n.d[k].ticks \in 0..MaxSkullTicks
  BY SkNow
<1> HIDE DEF n
<1>4. n.d \in [Duelists -> SkPerson] /\ n.d[c] \in SkPerson /\ n.d[c].in # TRUE /\ SkCool(n.d[c])
  BY <1>1, <1>3 DEF SkWell, SkShape, Sk!Alive
<1> DEFINE p == c1(c, ticks)
<1>5. /\ p \in SkPerson /\ p.in = TRUE /\ p.ticks \in 0..MaxSkullTicks /\ p.inFight = n.d[c].inFight /\ p.pzLocked = FALSE /\ p.attacked = {}
      /\ p.skull \in {n.d[c].skull, Sk!NoSkull}
  <2>1. ticks \in Nat /\ left(ticks) \in Nat
    BY <1>3
  <2> DEFINE k == IF ticks > 0 THEN duel[c].skull ELSE Sk!NoSkull
             m == IF left(ticks) > MaxSkullTicks THEN MaxSkullTicks ELSE left(ticks)
  <2>2. m \in 0..MaxSkullTicks /\ m \in Nat
    BY <2>1, SkullAssumption
  <2>3. k \in {n.d[c].skull, Sk!NoSkull} /\ k \in Sk!Skull \ {"yellow", "green"}
    BY <1>3, <1>4 DEF SkPerson, Sk!Skull, Sk!NoSkull
  <2>4. p = [Sk!Unmarked EXCEPT !.skull = k, !.ticks = m, !.inFight = duel[c].inFight]
    OBVIOUS
  <2>5. duel[c].inFight \in BOOLEAN /\ duel[c] = n.d[c]
    BY <1>3, <1>4 DEF SkPerson
  <2> HIDE DEF k, m, c1
  <2> QED BY <2>2, <2>3, <2>4, <2>5 DEF Sk!Unmarked, SkPerson
<1>6. SkCool(p)
  BY <1>4, <1>5 DEF SkCool, Sk!NoSkull
<1> HIDE DEF c1
<1> DEFINE d == [n.d EXCEPT ![c] = p]
           y == [n EXCEPT !.d = d]
<1>7. d \in [Duelists -> SkPerson] /\ d[c] = p /\ \A k \in Duelists : k # c => d[k] = n.d[k]
  BY <1>4, <1>5
<1> HIDE DEF p
<1>8. DOMAIN y = DOMAIN n /\ y.d = d /\ y.party = n.party /\ y.seen = n.seen /\ y.shown = n.shown
  BY <1>3
<1>9. x(c, ticks) = [y EXCEPT !.seen = n.seen \cup {<<c, c>>}]
  BY <1>3 DEF p
<1> HIDE DEF d, y
<1>10. SkWell(y, {}, {})
  <2>1. SkShape(y)
    BY <1>3, <1>7, <1>8 DEF SkWell, SkShape
  <2>2. c \notin n.party /\ \A v \in Duelists : <<c, v>> \notin n.seen /\ <<v, c>> \notin n.seen
    BY <1>3, <1>4 DEF SkWell, SkIn
  <2>3. SkIn(y)
    BY <1>3, <1>7, <1>8, <2>2 DEF SkWell, SkShape, SkIn
  <2>4. ASSUME NEW v \in Duelists, NEW t \in Duelists, <<v, t>> \in y.seen PROVE y.shown[v][t] = Sk!GetSkullClient(y, v, t)
    <3>1. t # c
      BY <1>8, <2>2, <2>4
    <3>2. d[t] = n.d[t]
      BY <1>7, <3>1
    <3>3. Sk!GetSkullClient(n, v, t) = Sk!GetSkullClient(y, v, t)
      BY <1>3, <1>8, <2>1, <3>2, SkClient DEF SkWell
    <3>4. n.shown[v][t] = Sk!GetSkullClient(n, v, t)
      BY <1>3, <1>8, <2>4 DEF SkWell, SkRight
    <3> QED BY <1>8, <3>3, <3>4
  <2>5. SkRight(y, {})
    BY <2>4 DEF SkRight
  <2>6. \A k \in Duelists \ {} : SkCool(y.d[k])
    BY <1>3, <1>6, <1>7, <1>8 DEF SkWell
  <2> QED BY <2>1, <2>3, <2>5, <2>6 DEF SkWell
<1> DEFINE w == x(c, ticks)
           z == r(c, ticks)
<1>11. DOMAIN w = DOMAIN y /\ w.d = y.d /\ w.party = y.party /\ w.seen = y.seen \cup {<<c, c>>} /\ w.shown = y.shown
  BY <1>3, <1>8, <1>9
<1>12. z = [w EXCEPT !.shown = [w.shown EXCEPT ![c] = [w.shown[c] EXCEPT ![c] = Sk!GetSkullClient(w, c, c)]]]
  OBVIOUS
<1> HIDE DEF x, r
<1>13. Sk!GetSkullClient(w, c, c) = Sk!GetSkullClient(y, c, c)
  <2>1. SkShape(w)
    BY <1>10, <1>11 DEF SkWell, SkShape
  <2> QED BY <1>10, <1>11, <2>1, SkClient DEF SkWell
<1>14. /\ DOMAIN z = DOMAIN y /\ z.d = y.d /\ z.party = y.party /\ z.seen = y.seen \cup {<<c, c>>}
       /\ z.shown = [y.shown EXCEPT ![c] = [y.shown[c] EXCEPT ![c] = Sk!GetSkullClient(y, c, c)]]
  BY <1>3, <1>8, <1>11, <1>12, <1>13
<1>15. y.d[c].in = TRUE
  BY <1>5, <1>7, <1>8 DEF p
<1> HIDE DEF z
<1>16. SkWell(z, {}, {})
  BY <1>10, <1>14, <1>15, SkSee
<1>17. \A k \in Duelists : z.d[k].ticks \in 0..MaxSkullTicks
  BY <1>3, <1>5, <1>7, <1>8, <1>14 DEF p
<1> QED BY <1>2, <1>16, <1>17, SkBecome DEF z

\* Each step of Skulls.
LEMMA SkNext == SkGood /\ Sk!SkullsNext => SkGood'
BY SkStrike, SkScuffle, SkFightEnds, SkDie, SkCheckTicks, SkAppear, SkDisappear, SkCreateParty, SkJoinParty, SkLeaveOrDisband,
   SkLogOut, SkLogIn DEF Sk!SkullsNext

\* A step of Society is one of the skulls, or leaves them as they are.
LEMMA SkPart == [Next]_vars => Sk!SkullsNext \/ UNCHANGED skullVars
<1>1. UNCHANGED vars => UNCHANGED skullVars
  BY DEF vars
<1>2. \A part : Only(part) /\ part # "skulls" => UNCHANGED skullVars
  BY DEF Only
<1>3. Next => \/ Sk!SkullsNext \/ Only("session") \/ Only("storage") \/ Only("houses") \/ Only("persistence")
              \/ Only("scripts") \/ Only("chat") \/ Only("casting")
  BY DEF Next
<1> QED BY <1>1, <1>2, <1>3

\* Every step of Society keeps it.
LEMMA SkStep == SkGood /\ [Next]_vars => SkGood'
<1>1. SkGood /\ UNCHANGED skullVars => SkGood'
  BY DEF skullVars, SkGood, Sk!Now
<1> QED BY <1>1, SkNext, SkPart

\* Skulls stay so.
LEMMA SkAlways == Spec => []SkGood
<1>1. Init => SkGood
  <2>1. Init => Sk!SkullsInit
    BY DEF Init
  <2> QED BY <2>1, SkInit
<1> QED BY <1>1, SkStep, PTL DEF Spec

-----------------------------------------------------------------------------
(* Sessions                                                                *)

\* The task t is in the queue q.
SeIn(q, t) == \E i \in 1 .. Len(q) : q[i] = t

\* The task u of a session may follow the task t: its login is the first of its tasks and
\* a delayed connect waits only once.
SeFits(t, u) ==
  t[2] = u[2] => /\ u[1] = "login" => t[1] \notin {"login", "release"}
                 /\ u[1] = "connect" => t[1] # "connect"

\* A queue of tasks in such an order.
SeQueue(q) ==
  /\ q \in Seq(Se!Tasks)
  /\ \A i, j \in 1 .. Len(q) : i < j => SeFits(q[i], q[j])

\* A session that has not logged in has nothing of a player yet.
SeUnused(s) == player[s] = None /\ client[s] = None /\ s \notin inGame \cup toRelease /\ eventConnect[s] = None

\* What holds of the session of a task that waits.
SeStands(t) ==
  /\ t[1] = "login" => SeUnused(t[2]) /\ stage[t[2]] # "connected" /\ t[2] \notin released
  /\ t[1] = "release" => t[2] \in closed
  /\ t[1] = "connect" => eventConnect[t[2]] = t[3]

\* The first task is taken: the others keep their order, and each of them follows it.
LEMMA SeTail ==
  ASSUME NEW q, SeQueue(q), q # <<>>
  PROVE  SeQueue(Tail(q)) /\ Head(q) \in Se!Tasks /\ SeIn(q, Head(q))
         /\ \A t : SeIn(Tail(q), t) => SeIn(q, t) /\ SeFits(Head(q), t)
<1> DEFINE r == Tail(q)
           m == Len(r)
<1>1. q \in Seq(Se!Tasks)
  BY DEF SeQueue
<1>2. r \in Seq(Se!Tasks) /\ m \in Nat /\ Len(q) = m + 1 /\ (\A k \in 1 .. m : r[k] = q[k + 1]) /\ Head(q) = q[1] /\ q[1] \in Se!Tasks
  BY <1>1
<1> HIDE DEF r, m
<1>3. /\ \A k \in 1 .. m : k + 1 \in 1 .. Len(q) /\ 1 < k + 1
      /\ \A k, j \in 1 .. m : k < j => k + 1 < j + 1
      /\ 1 \in 1 .. Len(q)
  BY <1>2
<1>4. \A k, j \in 1 .. m : k < j => SeFits(r[k], r[j])
  <2>1. ASSUME NEW k \in 1 .. m, NEW j \in 1 .. m, k < j PROVE SeFits(r[k], r[j])
    <3>1. r[k] = q[k + 1] /\ r[j] = q[j + 1] /\ k + 1 \in 1 .. Len(q) /\ j + 1 \in 1 .. Len(q) /\ k + 1 < j + 1
      BY <1>2, <1>3, <2>1
    <3>2. SeFits(q[k + 1], q[j + 1])
      BY <3>1 DEF SeQueue
    <3> QED BY <3>1, <3>2
  <2> QED BY <2>1
<1>5. SeQueue(r)
  BY <1>2, <1>4 DEF SeQueue, m
<1>6. ASSUME NEW t, SeIn(r, t) PROVE SeIn(q, t) /\ SeFits(Head(q), t)
  <2>1. PICK k \in 1 .. m : r[k] = t
    BY <1>6 DEF SeIn, m
  <2>2. t = q[k + 1] /\ k + 1 \in 1 .. Len(q) /\ 1 < k + 1
    BY <1>2, <1>3, <2>1
  <2>3. SeFits(q[1], q[k + 1])
    BY <1>3, <2>2 DEF SeQueue
  <2> QED BY <1>2, <2>2, <2>3 DEF SeIn
<1>7. SeIn(q, Head(q))
  BY <1>2, <1>3 DEF SeIn
<1> QED BY <1>2, <1>5, <1>6, <1>7 DEF r

\* A task is added that may follow all of the others.
LEMMA SePush ==
  ASSUME NEW q, SeQueue(q), NEW u \in Se!Tasks, \A t : SeIn(q, t) => SeFits(t, u)
  PROVE  SeQueue(Append(q, u)) /\ \A t : SeIn(Append(q, u), t) => SeIn(q, t) \/ t = u
<1> DEFINE r == Append(q, u)
           n == Len(q)
<1>1. q \in Seq(Se!Tasks) /\ n \in Nat
  BY DEF SeQueue
<1>2. r \in Seq(Se!Tasks) /\ Len(r) = n + 1 /\ (\A k \in 1 .. n : r[k] = q[k]) /\ r[n + 1] = u
  BY <1>1
<1> HIDE DEF r, n
<1>3. /\ \A k \in 1 .. n + 1 : k \in 1 .. n \/ k = n + 1
      /\ \A k, j \in 1 .. n + 1 : k < j => k \in 1 .. n
  BY <1>1
<1>4. ASSUME NEW k \in 1 .. n + 1, NEW j \in 1 .. n + 1, k < j PROVE SeFits(r[k], r[j])
  <2>1. k \in 1 .. n /\ r[k] = q[k]
    BY <1>2, <1>3, <1>4
  <2>2. CASE j \in 1 .. n
    <3>1. SeFits(q[k], q[j]) /\ r[j] = q[j]
      BY <1>2, <1>4, <2>1, <2>2 DEF SeQueue, n
    <3> QED BY <2>1, <3>1
  <2>3. CASE j = n + 1
    <3>1. SeIn(q, q[k])
      BY <2>1 DEF SeIn, n
    <3>2. SeFits(q[k], u)
      BY <3>1
    <3> QED BY <1>2, <2>1, <2>3, <3>2
  <2> QED BY <1>3, <2>2, <2>3
<1>5. SeQueue(r)
  BY <1>2, <1>4 DEF SeQueue
<1>6. ASSUME NEW t, SeIn(r, t) PROVE SeIn(q, t) \/ t = u
  <2>1. PICK k \in 1 .. n + 1 : r[k] = t
    BY <1>2, <1>6 DEF SeIn
  <2>2. CASE k \in 1 .. n
    BY <1>2, <2>1, <2>2 DEF SeIn, n
  <2>3. CASE k = n + 1
    BY <1>2, <2>1, <2>3
  <2> QED BY <1>3, <2>2, <2>3
<1> QED BY <1>5, <1>6 DEF r

\* Connection::close posts at most one release, which may follow every task.
LEMMA SePosted ==
  ASSUME NEW q, SeQueue(q), NEW d \in Sessions \cup {None}
  PROVE  LET r == q \o Se!ReleaseTask(d)
         IN  /\ SeQueue(r)
             /\ \A t : SeIn(r, t) => SeIn(q, t) \/ (d \in Sessions /\ t = <<"release", d, None>>)
<1> DEFINE r == q \o Se!ReleaseTask(d)
           u == <<"release", d, None>>
<1>1. q \in Seq(Se!Tasks)
  BY DEF SeQueue
<1>2. CASE d \in closed \/ d = None
  <2>1. r = q
    BY <1>1, <1>2 DEF Se!ReleaseTask
  <2> QED BY <2>1
<1>3. CASE ~(d \in closed \/ d = None)
  <2>1. d \in Sessions /\ u \in Se!Tasks
    BY <1>3 DEF Se!Tasks
  <2>2. Se!ReleaseTask(d) = <<u>>
    BY <1>3 DEF Se!ReleaseTask
  <2>3. r = Append(q, u)
    BY <1>1, <2>1, <2>2
  <2>4. \A t : SeFits(t, u)
    BY DEF SeFits
  <2> HIDE DEF u, r
  <2>5. SeQueue(r) /\ \A t : SeIn(r, t) => SeIn(q, t) \/ t = u
    BY <2>1, <2>3, <2>4, SePush
  <2> QED BY <2>1, <2>5 DEF r, u
<1> QED BY <1>2, <1>3

\* A player and its client point at each other, the references are those of the client and of
\* the game, and one Player object at most is in the game.
SeLinks ==
  /\ Se!ClientAgrees
  /\ \A o \in Sessions : refs[o] = (IF client[o] = None THEN 0 ELSE 1) + (IF o \in inGame \cup toRelease THEN 1 ELSE 0)
  /\ inGame \cap toRelease = {} /\ \A a \in inGame : inGame = {a}

\* sendAll's protocols, and a release runs for a closed connection.
SeServed == Se!AutosendServes /\ released \subseteq closed

\* Before the first message there is nothing; a session that waits to connect has no player.
SeFresh ==
  \A s \in Sessions : /\ stage[s] = "connected" => SeUnused(s)
                      /\ eventConnect[s] # None => player[s] = None

\* The dispatcher's queue: its tasks are in order and each of them stands.
SeWaiting == SeQueue(taskList) /\ \A t : SeIn(taskList, t) => SeStands(t)

SeGood == Se!TypeOK /\ SeLinks /\ SeServed /\ SeFresh /\ SeWaiting

\* A task is of a session.
LEMMA SeTasks ==
  /\ \A t \in Se!Tasks : t[2] \in Sessions /\ t[3] \in Sessions \cup {None} /\ t = <<t[1], t[2], t[3]>>
  /\ \A s \in Sessions : <<"login", s, None>> \in Se!Tasks /\ <<"logout", s, None>> \in Se!Tasks
  /\ \A s, o \in Sessions : <<"connect", s, o>> \in Se!Tasks
BY DEF Se!Tasks, Se!Objects

\* What is in the queue is a task.
LEMMA SeInTasks == ASSUME NEW q, SeQueue(q), NEW t, SeIn(q, t) PROVE t \in Se!Tasks
BY DEF SeQueue, SeIn

\* At first.
LEMMA SeInit == ASSUME Se!Init PROVE SeGood
<1>1. Se!TypeOK
  BY DEF Se!Init, Se!TypeOK, Se!Objects
<1>2. SeLinks
  <2>1. Se!ClientAgrees
    BY SessionAssumption DEF Se!Init, Se!ClientAgrees, Se!Objects
  <2> QED BY <2>1 DEF Se!Init, SeLinks, Se!Objects
<1>3. SeServed /\ SeFresh
  BY DEF Se!Init, SeServed, SeFresh, SeUnused, Se!AutosendServes, Se!Objects
<1>4. SeWaiting
  <2>1. taskList = <<>> /\ Len(taskList) = 0
    BY DEF Se!Init
  <2>2. taskList \in Seq(Se!Tasks)
    BY <2>1
  <2>3. SeQueue(taskList)
    BY <2>1, <2>2 DEF SeQueue
  <2> QED BY <2>1, <2>3 DEF SeWaiting, SeIn
<1> QED BY <1>1, <1>2, <1>3, <1>4 DEF SeGood

\* The task that begins stands.
LEMMA SeBegun ==
  ASSUME SeGood, NEW kind, NEW s, NEW o, Se!Begin(kind, s, o)
  PROVE  SeStands(<<kind, s, o>>) /\ taskList # <<>> /\ Head(taskList) = <<kind, s, o>>
BY SeTail DEF SeGood, SeWaiting, Se!Begin

\* A task ends: what waits are those behind it, and the release it may have posted.
LEMMA SeFinished ==
  ASSUME SeGood, taskList # <<>>, NEW d \in Sessions \cup {None}, Se!FinishTask(d)
  PROVE  /\ SeQueue(taskList') /\ closed \subseteq closed' /\ closed' \subseteq Sessions
         /\ \A t : SeIn(taskList', t) => t \in Se!Tasks /\ \/ SeIn(taskList, t) /\ SeFits(Head(taskList), t)
                                                           \/ t[1] = "release" /\ t[2] \in closed'
<1>1. SeQueue(Tail(taskList)) /\ \A t : SeIn(Tail(taskList), t) => SeIn(taskList, t) /\ SeFits(Head(taskList), t)
  BY SeTail DEF SeGood, SeWaiting
<1>2. taskList' = Tail(taskList) \o Se!ReleaseTask(d) /\ closed' = IF d = None THEN closed ELSE closed \cup {d}
  BY DEF Se!FinishTask
<1>3. closed \subseteq Sessions
  BY DEF SeGood, Se!TypeOK
<1>4. SeQueue(taskList') /\ \A t : SeIn(taskList', t) => SeIn(Tail(taskList), t) \/ (d \in Sessions /\ t = <<"release", d, None>>)
  BY <1>1, <1>2, SePosted
<1>5. closed \subseteq closed' /\ closed' \subseteq Sessions /\ (d \in Sessions => d \in closed')
  BY <1>2, <1>3, SessionAssumption
<1>6. ASSUME NEW t, SeIn(taskList', t)
      PROVE  t \in Se!Tasks /\ \/ SeIn(taskList, t) /\ SeFits(Head(taskList), t)
                               \/ t[1] = "release" /\ t[2] \in closed'
  <2>1. t \in Se!Tasks
    BY <1>4, <1>6, SeInTasks
  <2>2. CASE SeIn(Tail(taskList), t)
    BY <1>1, <2>1, <2>2
  <2>3. CASE d \in Sessions /\ t = <<"release", d, None>>
    BY <1>5, <2>1, <2>3
  <2> QED BY <1>4, <1>6, <2>2, <2>3
<1> QED BY <1>4, <1>5, <1>6

\* onRecvFirstMessage: nothing of the session waits yet, and it has nothing of a player.
LEMMA SeFirstMessage == ASSUME SeGood, NEW s \in Sessions, Se!FirstMessage(s) PROVE SeGood'
<1> DEFINE u == <<"login", s, None>>
<1>1. /\ stage[s] = "connected" /\ s \notin closed /\ stage' = [stage EXCEPT ![s] = "first"] /\ taskList' = Append(taskList, u)
      /\ UNCHANGED <<closed, gone, released, eventConnect, acceptPackets, player, client, isConnecting, inGame, toRelease,
                     refs, bufferedProtocols, sendAllEvents>>
  BY DEF Se!FirstMessage, Se!playerVars, Se!autosendVars
<1>2. u \in Se!Tasks /\ u[1] = "login" /\ u[2] = s
  BY SeTasks
<1> HIDE DEF u
<1>3. \A t : SeIn(taskList, t) => SeFits(t, u)
  BY <1>1, <1>2 DEF SeGood, SeWaiting, SeStands, SeFits
<1>4. SeQueue(taskList') /\ \A t : SeIn(taskList', t) => SeIn(taskList, t) \/ t = u
  BY <1>1, <1>2, <1>3, SePush DEF SeGood, SeWaiting
<1>5. SeUnused(s) /\ s \notin released
  BY <1>1 DEF SeGood, SeFresh, SeServed
<1>6. Se!TypeOK'
  BY <1>1, <1>4 DEF SeGood, Se!TypeOK, SeQueue
<1>7. SeLinks' /\ SeServed'
  BY <1>1 DEF SeGood, SeLinks, SeServed, Se!ClientAgrees, Se!AutosendServes
<1>8. SeFresh'
  BY <1>1 DEF SeGood, SeFresh, SeUnused, Se!TypeOK
<1>9. SeWaiting'
  <2>1. ASSUME NEW t, SeIn(taskList', t) PROVE SeStands(t)'
    <3>1. CASE t = u
      BY <1>1, <1>2, <1>5, <3>1 DEF SeStands, SeUnused, SeGood, Se!TypeOK
    <3>2. CASE SeIn(taskList, t)
      BY <1>1, <3>2 DEF SeGood, SeWaiting, SeStands, SeUnused, Se!TypeOK
    <3> QED BY <1>4, <2>1, <3>1, <3>2
  <2>2. \A t : SeIn(taskList, t)' => SeStands(t)'
    BY <2>1 DEF SeIn
  <2> QED BY <1>4, <2>2 DEF SeWaiting, SeQueue
<1> QED BY <1>6, <1>7, <1>8, <1>9 DEF SeGood

\* A task that is no login and no delayed connect is posted by the network thread.
LEMMA SeLogoutPacket == ASSUME SeGood, NEW s \in Sessions, Se!LogoutPacket(s) PROVE SeGood'
<1> DEFINE u == <<"logout", s, None>>
<1>1. /\ stage[s] = "first" /\ stage' = [stage EXCEPT ![s] = "leaving"] /\ taskList' = Append(taskList, u)
      /\ UNCHANGED <<closed, gone, released, eventConnect, acceptPackets, player, client, isConnecting, inGame, toRelease,
                     refs, bufferedProtocols, sendAllEvents>>
  BY DEF Se!LogoutPacket, Se!playerVars, Se!autosendVars
<1>2. u \in Se!Tasks /\ u[1] = "logout"
  BY SeTasks
<1> HIDE DEF u
<1>3. \A t : SeFits(t, u)
  BY <1>2 DEF SeFits
<1>4. SeQueue(taskList') /\ \A t : SeIn(taskList', t) => SeIn(taskList, t) \/ t = u
  BY <1>1, <1>2, <1>3, SePush DEF SeGood, SeWaiting
<1>6. Se!TypeOK'
  BY <1>1, <1>4 DEF SeGood, Se!TypeOK, SeQueue
<1>7. SeLinks' /\ SeServed'
  BY <1>1 DEF SeGood, SeLinks, SeServed, Se!ClientAgrees, Se!AutosendServes
<1>8. SeFresh'
  BY <1>1 DEF SeGood, SeFresh, SeUnused, Se!TypeOK
<1>9. SeWaiting'
  <2>1. ASSUME NEW t, SeIn(taskList', t) PROVE SeStands(t)'
    <3>1. CASE t = u
      BY <1>2, <3>1 DEF SeStands
    <3>2. CASE SeIn(taskList, t)
      BY <1>1, <3>2 DEF SeGood, SeWaiting, SeStands, SeUnused, Se!TypeOK
    <3> QED BY <1>4, <2>1, <3>1, <3>2
  <2>2. \A t : SeIn(taskList, t)' => SeStands(t)'
    BY <2>1 DEF SeIn
  <2> QED BY <1>4, <2>2 DEF SeWaiting, SeQueue
<1> QED BY <1>6, <1>7, <1>8, <1>9 DEF SeGood

\* Connections close and players are removed: what waited still stands.
LEMMA SeKept ==
  ASSUME SeGood, SeQueue(taskList'), closed \subseteq closed',
         \A t : SeIn(taskList', t) => SeIn(taskList, t) \/ (t[1] = "release" /\ t[2] \in closed'),
         UNCHANGED <<stage, released, eventConnect, player, client>>, inGame' \cup toRelease' = inGame \cup toRelease
  PROVE  SeWaiting'
<1>1. ASSUME NEW t, SeIn(taskList', t) PROVE SeStands(t)'
  <2>1. CASE SeIn(taskList, t)
    BY <2>1 DEF SeGood, SeWaiting, SeStands, SeUnused
  <2>2. CASE t[1] = "release" /\ t[2] \in closed'
    BY <2>2 DEF SeStands
  <2> QED BY <1>1, <2>1, <2>2
<1>2. \A t : SeIn(taskList, t)' => SeStands(t)'
  BY <1>1 DEF SeIn
<1> QED BY <1>2 DEF SeWaiting, SeQueue

\* What a connection posts when it closes.
LEMMA SeClosing ==
  ASSUME SeGood, NEW d \in Sessions \cup {None}, taskList' = taskList \o Se!ReleaseTask(d),
         closed' = IF d = None THEN closed ELSE closed \cup {d}
  PROVE  /\ SeQueue(taskList') /\ closed \subseteq closed' /\ closed' \subseteq Sessions
         /\ \A t : SeIn(taskList', t) => SeIn(taskList, t) \/ (t[1] = "release" /\ t[2] \in closed')
<1>1. closed \subseteq Sessions
  BY DEF SeGood, Se!TypeOK
<1>2. SeQueue(taskList') /\ \A t : SeIn(taskList', t) => SeIn(taskList, t) \/ (d \in Sessions /\ t = <<"release", d, None>>)
  BY SePosted DEF SeGood, SeWaiting
<1>3. closed \subseteq closed' /\ closed' \subseteq Sessions /\ (d \in Sessions => d \in closed')
  BY <1>1, SessionAssumption
<1>4. ASSUME NEW t, SeIn(taskList', t) PROVE SeIn(taskList, t) \/ (t[1] = "release" /\ t[2] \in closed')
  BY <1>2, <1>3, <1>4
<1> QED BY <1>2, <1>3, <1>4

\* A timeout, an error or a refusal closes the connection.
LEMMA SeNetworkClose == ASSUME SeGood, NEW s \in Sessions, Se!NetworkClose(s) PROVE SeGood'
<1>1. /\ closed' = closed \cup {s} /\ taskList' = taskList \o Se!ReleaseTask(s)
      /\ UNCHANGED <<stage, gone, released, eventConnect, acceptPackets, player, client, isConnecting, inGame, toRelease,
                     refs, bufferedProtocols, sendAllEvents>>
  BY DEF Se!NetworkClose, Se!playerVars, Se!autosendVars
<1>2. /\ SeQueue(taskList') /\ closed \subseteq closed' /\ closed' \subseteq Sessions
      /\ \A t : SeIn(taskList', t) => SeIn(taskList, t) \/ (t[1] = "release" /\ t[2] \in closed')
  BY <1>1, SeClosing, SessionAssumption
<1>3. Se!TypeOK'
  BY <1>1, <1>2 DEF SeGood, Se!TypeOK, SeQueue
<1>4. SeLinks' /\ SeServed' /\ SeFresh'
  BY <1>1, <1>2 DEF SeGood, SeLinks, SeServed, SeFresh, SeUnused, Se!ClientAgrees, Se!AutosendServes
<1>5. SeWaiting'
  BY <1>1, <1>2, SeKept
<1> QED BY <1>3, <1>4, <1>5 DEF SeGood

\* A connection of which no handler is left is destroyed.
LEMMA SeConnectionGone == ASSUME SeGood, NEW s \in Sessions, Se!ConnectionGone(s) PROVE SeGood'
<1>1. /\ s \in closed /\ gone' = gone \cup {s}
      /\ UNCHANGED <<stage, closed, released, eventConnect, acceptPackets, taskList, player, client, isConnecting, inGame,
                     toRelease, refs, bufferedProtocols, sendAllEvents>>
  BY DEF Se!ConnectionGone, Se!playerVars, Se!autosendVars
<1>2. Se!TypeOK'
  BY <1>1 DEF SeGood, Se!TypeOK
<1>3. SeLinks' /\ SeServed' /\ SeFresh'
  BY <1>1 DEF SeGood, SeLinks, SeServed, SeFresh, SeUnused, Se!ClientAgrees, Se!AutosendServes
<1>4. SeWaiting'
  <2>1. SeQueue(taskList') /\ \A t : SeIn(taskList', t) => SeIn(taskList, t)
    BY <1>1 DEF SeGood, SeWaiting
  <2> QED BY <1>1, <2>1, SeKept
<1> QED BY <1>2, <1>3, <1>4 DEF SeGood

\* The scheduler hands over a delayed connect that does not wait already.
LEMMA SeConnectTimer == ASSUME SeGood, NEW s \in Sessions, Se!ConnectTimer(s) PROVE SeGood'
<1> DEFINE o == eventConnect[s]
           u == <<"connect", s, o>>
<1>1. /\ o # None /\ u \notin Se!Members(taskList) /\ taskList' = Append(taskList, u)
      /\ UNCHANGED <<stage, closed, gone, released, eventConnect, acceptPackets, player, client, isConnecting, inGame, toRelease,
                     refs, bufferedProtocols, sendAllEvents>>
  BY DEF Se!ConnectTimer, Se!playerVars, Se!autosendVars
<1>2. o \in Sessions
  BY <1>1 DEF SeGood, Se!TypeOK, Se!Objects
<1>3. u \in Se!Tasks
  BY <1>2, SeTasks
<1>4. ~SeIn(taskList, u)
  <2>1. taskList \in Seq(Se!Tasks)
    BY DEF SeGood, SeWaiting, SeQueue
  <2>2. DOMAIN taskList = 1 .. Len(taskList)
    BY <2>1
  <2> QED BY <1>1, <2>2 DEF SeIn, Se!Members
<1>5. ASSUME NEW t, SeIn(taskList, t) PROVE SeFits(t, u)
  <2>1. t \in Se!Tasks /\ SeStands(t)
    BY <1>5, SeInTasks DEF SeGood, SeWaiting
  <2>2. t[1] = "connect" /\ t[2] = s => t[3] = o
    BY <2>1 DEF SeStands
  <2>3. t = <<t[1], t[2], t[3]>>
    BY <2>1, SeTasks
  <2>4. ~(t[1] = "connect" /\ t[2] = s)
    BY <1>4, <1>5, <2>2, <2>3
  <2> QED BY <2>4 DEF SeFits
<1>6. u[1] = "connect" /\ u[2] = s /\ u[3] = o
  OBVIOUS
<1> HIDE DEF u
<1>7. SeQueue(taskList') /\ \A t : SeIn(taskList', t) => SeIn(taskList, t) \/ t = u
  BY <1>1, <1>3, <1>5, SePush DEF SeGood, SeWaiting
<1>8. Se!TypeOK'
  BY <1>1, <1>7 DEF SeGood, Se!TypeOK, SeQueue
<1>9. SeLinks' /\ SeServed' /\ SeFresh'
  BY <1>1 DEF SeGood, SeLinks, SeServed, SeFresh, SeUnused, Se!ClientAgrees, Se!AutosendServes
<1>10. SeWaiting'
  <2>1. ASSUME NEW t, SeIn(taskList', t) PROVE SeStands(t)'
    <3>1. CASE t = u
      BY <1>1, <1>6, <3>1 DEF SeStands
    <3>2. CASE SeIn(taskList, t)
      BY <1>1, <3>2 DEF SeGood, SeWaiting, SeStands, SeUnused
    <3> QED BY <1>7, <2>1, <3>1, <3>2
  <2>2. \A t : SeIn(taskList, t)' => SeStands(t)'
    BY <2>1 DEF SeIn
  <2> QED BY <1>7, <2>2 DEF SeWaiting, SeQueue
<1> QED BY <1>8, <1>9, <1>10 DEF SeGood

\* Game::removeCreature: the game keeps its reference until a cleanup.
LEMMA SeRemove ==
  ASSUME SeGood, NEW o \in Sessions, Se!RemoveCreature(o)
  PROVE  /\ inGame' \subseteq inGame /\ inGame' \cup toRelease' = inGame \cup toRelease /\ inGame' \cap toRelease' = {}
         /\ inGame' \subseteq Sessions /\ toRelease' \subseteq Sessions /\ \A a \in inGame' : inGame' = {a}
<1>1. /\ inGame' = inGame \ {o} /\ toRelease' = IF o \in inGame THEN toRelease \cup {o} ELSE toRelease
      /\ inGame \subseteq Sessions /\ toRelease \subseteq Sessions /\ inGame \cap toRelease = {}
      /\ \A a \in inGame : inGame = {a}
  BY DEF Se!RemoveCreature, SeGood, SeLinks, Se!TypeOK, Se!Objects
<1>2. inGame' \subseteq inGame /\ inGame' \subseteq Sessions /\ toRelease' \subseteq Sessions
  BY <1>1
<1>3. inGame' \cup toRelease' = inGame \cup toRelease /\ inGame' \cap toRelease' = {}
  BY <1>1
<1>4. \A a \in inGame' : inGame' = {a}
  BY <1>1
<1> QED BY <1>2, <1>3, <1>4

\* Player::sendPing removes a player that is not connecting.
LEMMA SePingTimeout == ASSUME SeGood, NEW o \in Sessions, Se!PingTimeout(o) PROVE SeGood'
<1> DEFINE d == IF client[o] \in gone THEN None ELSE client[o]
<1>1. /\ Se!RemoveCreature(o)
      /\ closed' = (IF client[o] = None \/ client[o] \in gone THEN closed ELSE closed \cup {client[o]})
      /\ taskList' = (IF client[o] \in gone THEN taskList ELSE taskList \o Se!ReleaseTask(client[o]))
      /\ UNCHANGED <<stage, gone, released, eventConnect, acceptPackets, player, client, isConnecting, refs,
                     bufferedProtocols, sendAllEvents>>
  BY DEF Se!PingTimeout, Se!autosendVars
<1>2. d \in Sessions \cup {None} /\ taskList \in Seq(Se!Tasks)
  BY DEF SeGood, Se!TypeOK, Se!Objects
<1>3. taskList \o Se!ReleaseTask(None) = taskList
  BY <1>2 DEF Se!ReleaseTask
<1>4. taskList' = taskList \o Se!ReleaseTask(d) /\ closed' = IF d = None THEN closed ELSE closed \cup {d}
  BY <1>1, <1>3
<1>5. /\ SeQueue(taskList') /\ closed \subseteq closed' /\ closed' \subseteq Sessions
      /\ \A t : SeIn(taskList', t) => SeIn(taskList, t) \/ (t[1] = "release" /\ t[2] \in closed')
  BY <1>2, <1>4, SeClosing
<1>6. /\ inGame' \cup toRelease' = inGame \cup toRelease /\ inGame' \cap toRelease' = {}
      /\ inGame' \subseteq Sessions /\ toRelease' \subseteq Sessions /\ \A a \in inGame' : inGame' = {a}
  BY <1>1, SeRemove
<1>7. Se!TypeOK'
  BY <1>1, <1>5, <1>6 DEF SeGood, Se!TypeOK, SeQueue, Se!Objects
<1>8. SeLinks'
  BY <1>1, <1>6 DEF SeGood, SeLinks, Se!ClientAgrees
<1>9. SeServed' /\ SeFresh'
  BY <1>1, <1>5, <1>6 DEF SeGood, SeServed, SeFresh, SeUnused, Se!AutosendServes
<1>10. SeWaiting'
  BY <1>1, <1>5, <1>6, SeKept
<1> QED BY <1>7, <1>8, <1>9, <1>10 DEF SeGood

\* Game::cleanup gives up the references of the players that were removed.
LEMMA SeCleanup == ASSUME SeGood, Se!Cleanup PROVE SeGood'
<1>1. /\ toRelease' = {} /\ refs' = [o \in Sessions |-> IF o \in toRelease THEN refs[o] - 1 ELSE refs[o]]
      /\ UNCHANGED <<stage, closed, gone, released, eventConnect, acceptPackets, player, client, isConnecting, inGame, taskList,
                     bufferedProtocols, sendAllEvents>>
  BY DEF Se!Cleanup, Se!autosendVars, Se!Objects
<1>2. ASSUME NEW o \in Sessions
      PROVE  refs'[o] = (IF client[o] = None THEN 0 ELSE 1) + (IF o \in inGame THEN 1 ELSE 0)
  BY <1>1 DEF SeGood, SeLinks
<1>3. refs' \in [Sessions -> Nat]
  <2>1. ASSUME NEW o \in Sessions PROVE refs'[o] \in Nat
    BY <1>2
  <2>2. DOMAIN refs' = Sessions /\ refs' = [o \in Sessions |-> refs'[o]]
    BY <1>1
  <2> QED BY <2>1, <2>2
<1>4. Se!TypeOK'
  BY <1>1, <1>3 DEF SeGood, Se!TypeOK, Se!Objects
<1>5. SeLinks'
  <2>1. \A o \in Sessions : refs'[o] = (IF client'[o] = None THEN 0 ELSE 1) + (IF o \in inGame' \cup toRelease' THEN 1 ELSE 0)
    BY <1>1, <1>2
  <2>2. Se!ClientAgrees'
    BY <1>1 DEF SeGood, SeLinks, Se!ClientAgrees
  <2>3. inGame' \cap toRelease' = {} /\ \A a \in inGame' : inGame' = {a}
    BY <1>1 DEF SeGood, SeLinks
  <2> QED BY <2>1, <2>2, <2>3 DEF SeLinks
<1>6. SeServed' /\ SeFresh'
  BY <1>1 DEF SeGood, SeServed, SeFresh, SeUnused, Se!AutosendServes
<1>7. SeWaiting'
  <2>1. ASSUME NEW t, SeIn(taskList', t) PROVE SeStands(t)'
    BY <1>1, <2>1 DEF SeGood, SeWaiting, SeStands, SeUnused
  <2>2. \A t : SeIn(taskList, t)' => SeStands(t)'
    BY <2>1 DEF SeIn
  <2>3. SeQueue(taskList')
    BY <1>1 DEF SeGood, SeWaiting
  <2> QED BY <2>2, <2>3 DEF SeWaiting, SeQueue
<1> QED BY <1>4, <1>5, <1>6, <1>7 DEF SeGood

\* sendAll goes on while there is a protocol.
LEMMA SeSendAll == ASSUME SeGood, Se!SendAll PROVE SeGood'
<1>1. /\ sendAllEvents > 0 /\ bufferedProtocols = {} /\ sendAllEvents' = sendAllEvents - 1
      /\ UNCHANGED <<stage, closed, gone, released, eventConnect, acceptPackets, bufferedProtocols, taskList, player, client,
                     isConnecting, inGame, toRelease, refs>>
  BY DEF Se!SendAll, Se!playerVars
<1>2. Se!TypeOK'
  BY <1>1 DEF SeGood, Se!TypeOK
<1>3. SeLinks' /\ SeServed' /\ SeFresh'
  BY <1>1 DEF SeGood, SeLinks, SeServed, SeFresh, SeUnused, Se!ClientAgrees, Se!AutosendServes
<1>4. SeWaiting'
  <2>1. SeQueue(taskList') /\ \A t : SeIn(taskList', t) => SeIn(taskList, t)
    BY <1>1 DEF SeGood, SeWaiting
  <2> QED BY <1>1, <2>1, SeKept
<1> QED BY <1>2, <1>3, <1>4 DEF SeGood

\* ProtocolGame::connect attaches a protocol without player to a player without client, or
\* neither.
LEMMA SeConnect ==
  ASSUME SeGood, NEW s \in Sessions, NEW o \in Sessions, player[s] = None, Se!ConnectPlayer(s, o)
  PROVE  /\ SeLinks' /\ \E d \in Sessions \cup {None} : Se!FinishTask(d)
         /\ player' \in [Sessions -> Sessions \cup {None}] /\ client' \in [Sessions -> Sessions \cup {None}]
         /\ refs' \in [Sessions -> Nat] /\ isConnecting' \subseteq Sessions /\ acceptPackets' \subseteq Sessions
         /\ inGame' = inGame /\ toRelease' = toRelease
         /\ \A u \in Sessions : u # s => player'[u] = player[u]
         /\ \A u \in Sessions : u \notin inGame => client'[u] = client[u]
<1>0. /\ player \in [Sessions -> Sessions \cup {None}] /\ client \in [Sessions -> Sessions \cup {None}]
      /\ refs \in [Sessions -> Nat] /\ isConnecting \subseteq Sessions /\ acceptPackets \subseteq Sessions
  BY DEF SeGood, Se!TypeOK, Se!Objects
<1>1. CASE Se!Attach(s, o)
  <2>1. /\ o \in inGame /\ client[o] = None /\ player' = [player EXCEPT ![s] = o] /\ client' = [client EXCEPT ![o] = s]
        /\ refs' = [refs EXCEPT ![o] = refs[o] + 1] /\ isConnecting' = isConnecting \ {o}
        /\ acceptPackets' = acceptPackets \cup {s} /\ Se!FinishTask(None) /\ UNCHANGED <<inGame, toRelease>>
    BY <1>1 DEF Se!Attach
  <2>2. /\ player' \in [Sessions -> Sessions \cup {None}] /\ client' \in [Sessions -> Sessions \cup {None}]
        /\ refs' \in [Sessions -> Nat] /\ isConnecting' \subseteq Sessions /\ acceptPackets' \subseteq Sessions
    BY <1>0, <2>1
  <2>3. ASSUME NEW a \in Sessions, NEW b \in Sessions PROVE player'[a] = b <=> client'[b] = a
    <3>1. player[a] = b <=> client[b] = a
      BY DEF SeGood, SeLinks, Se!ClientAgrees, Se!Objects
    <3>2. player[s] # b /\ client[o] # a
      BY <2>1, SessionAssumption
    <3>3. player'[a] = (IF a = s THEN o ELSE player[a]) /\ client'[b] = (IF b = o THEN s ELSE client[b])
      BY <1>0, <2>1
    <3>4. client[b] # s /\ player[a] # o
      <4>1. player[s] = b <=> client[b] = s
        BY DEF SeGood, SeLinks, Se!ClientAgrees, Se!Objects
      <4>2. player[a] = o <=> client[o] = a
        BY DEF SeGood, SeLinks, Se!ClientAgrees, Se!Objects
      <4> QED BY <3>2, <4>1, <4>2
    <3> QED BY <3>1, <3>2, <3>3, <3>4
  <2>4. \A p \in Sessions : refs'[p] = (IF client'[p] = None THEN 0 ELSE 1) + (IF p \in inGame' \cup toRelease' THEN 1 ELSE 0)
    <3>1. \A p \in Sessions : /\ refs'[p] = (IF p = o THEN refs[o] + 1 ELSE refs[p])
                              /\ client'[p] = (IF p = o THEN s ELSE client[p])
      BY <1>0, <2>1
    <3> QED BY <1>0, <2>1, <3>1, SessionAssumption DEF SeGood, SeLinks
  <2>5. inGame' \cap toRelease' = {} /\ \A a \in inGame' : inGame' = {a}
    BY <2>1 DEF SeGood, SeLinks
  <2>6. SeLinks'
    BY <2>3, <2>4, <2>5 DEF SeLinks, Se!ClientAgrees, Se!Objects
  <2>7. /\ \A u \in Sessions : u # s => player'[u] = player[u]
        /\ \A u \in Sessions : u \notin inGame => client'[u] = client[u]
    BY <1>0, <2>1
  <2> QED BY <2>1, <2>2, <2>6, <2>7
<1>2. CASE Se!ConnectExpired(s, o) \/ Se!ConnectRefused(s, o)
  <2>1. /\ UNCHANGED <<acceptPackets, player, client, isConnecting, inGame, toRelease, refs>>
        /\ Se!FinishTask(None) \/ Se!FinishTask(s)
    BY <1>2 DEF Se!ConnectExpired, Se!ConnectRefused, Se!playerVars
  <2>2. SeLinks'
    BY <2>1 DEF SeGood, SeLinks, Se!ClientAgrees
  <2> QED BY <1>0, <2>1, <2>2
<1> QED BY <1>1, <1>2 DEF Se!ConnectPlayer

\* OutputMessagePool::addProtocolToAutosend.
LEMMA SeAutosend ==
  ASSUME SeGood, NEW s \in Sessions, s \notin released, Se!AddToAutosend(s), UNCHANGED released, closed \subseteq closed'
  PROVE  SeServed' /\ bufferedProtocols' \subseteq Sessions /\ sendAllEvents' \in Nat
<1>1. bufferedProtocols \subseteq Sessions /\ sendAllEvents \in Nat
  BY DEF SeGood, Se!TypeOK
<1> QED BY <1>1 DEF SeGood, SeServed, Se!AutosendServes, Se!AddToAutosend

\* A login has begun: nothing of the session is left in the queue that must not be.
LEMMA SeLoginBegun ==
  ASSUME SeGood, NEW s \in Sessions, Se!Begin("login", s, None)
  PROVE  /\ SeUnused(s) /\ stage[s] # "connected" /\ s \notin released /\ taskList # <<>>
         /\ \A t : SeFits(Head(taskList), t) => ~(t[1] = "login" /\ t[2] = s)
<1>1. SeStands(<<"login", s, None>>) /\ taskList # <<>> /\ Head(taskList) = <<"login", s, None>>
  BY SeBegun
<1> QED BY <1>1 DEF SeStands, SeFits

\* login makes a new Player: what waits is of others.
LEMMA SeNewPlayer ==
  ASSUME SeGood, NEW s \in Sessions, Se!Begin("login", s, None), NEW n \in {1, 2}, Se!NewPlayer(s, n), Se!Found = {},
         inGame' = IF n = 2 THEN inGame \cup {s} ELSE inGame,
         NEW d \in Sessions \cup {None}, Se!FinishTask(d), UNCHANGED <<stage, released, eventConnect>>
  PROVE  /\ SeLinks' /\ SeFresh' /\ SeWaiting' /\ closed \subseteq closed' /\ closed' \subseteq Sessions
         /\ player' \in [Sessions -> Sessions \cup {None}] /\ client' \in [Sessions -> Sessions \cup {None}]
         /\ refs' \in [Sessions -> Nat] /\ inGame' \subseteq Sessions
<1>1. /\ SeUnused(s) /\ stage[s] # "connected" /\ taskList # <<>>
      /\ \A t : SeFits(Head(taskList), t) => ~(t[1] = "login" /\ t[2] = s)
  BY SeLoginBegun
<1>2. /\ SeQueue(taskList') /\ closed \subseteq closed' /\ closed' \subseteq Sessions
      /\ \A t : SeIn(taskList', t) => t \in Se!Tasks /\ \/ SeIn(taskList, t) /\ SeFits(Head(taskList), t)
                                                        \/ t[1] = "release" /\ t[2] \in closed'
  BY <1>1, SeFinished
<1>3. /\ player' = [player EXCEPT ![s] = s] /\ client' = [client EXCEPT ![s] = s] /\ refs' = [refs EXCEPT ![s] = n]
      /\ UNCHANGED <<isConnecting, toRelease>> /\ inGame = {}
  BY DEF Se!NewPlayer, Se!Found
<1>4. /\ player \in [Sessions -> Sessions \cup {None}] /\ client \in [Sessions -> Sessions \cup {None}]
      /\ refs \in [Sessions -> Nat]
  BY DEF SeGood, Se!TypeOK, Se!Objects
<1>5. /\ \A u \in Sessions : /\ player'[u] = (IF u = s THEN s ELSE player[u]) /\ client'[u] = (IF u = s THEN s ELSE client[u])
                             /\ refs'[u] = (IF u = s THEN n ELSE refs[u])
                             /\ u # s => (u \in inGame' \cup toRelease' <=> u \in inGame \cup toRelease)
      /\ player' \in [Sessions -> Sessions \cup {None}] /\ client' \in [Sessions -> Sessions \cup {None}]
      /\ refs' \in [Sessions -> Nat] /\ inGame' \subseteq Sessions
      /\ s \in inGame' \cup toRelease' <=> n = 2
  BY <1>1, <1>3, <1>4 DEF SeUnused
<1>6. ASSUME NEW a \in Sessions, NEW b \in Sessions PROVE player'[a] = b <=> client'[b] = a
  <2>1. player[a] = b <=> client[b] = a
    BY DEF SeGood, SeLinks, Se!ClientAgrees, Se!Objects
  <2>2. player[s] = b <=> client[b] = s
    BY DEF SeGood, SeLinks, Se!ClientAgrees, Se!Objects
  <2>3. player[a] = s <=> client[s] = a
    BY DEF SeGood, SeLinks, Se!ClientAgrees, Se!Objects
  <2>4. player[s] # b /\ client[s] # a
    BY <1>1, SessionAssumption DEF SeUnused
  <2> QED BY <1>5, <2>1, <2>2, <2>3, <2>4
<1>7. ASSUME NEW o \in Sessions
      PROVE  refs'[o] = (IF client'[o] = None THEN 0 ELSE 1) + (IF o \in inGame' \cup toRelease' THEN 1 ELSE 0)
  <2>1. CASE o = s
    BY <1>5, <2>1, SessionAssumption
  <2>2. CASE o # s
    <3>1. refs[o] = (IF client[o] = None THEN 0 ELSE 1) + (IF o \in inGame \cup toRelease THEN 1 ELSE 0)
      BY DEF SeGood, SeLinks
    <3> QED BY <1>5, <2>2, <3>1
  <2> QED BY <2>1, <2>2
<1>8. inGame' \cap toRelease' = {} /\ \A a \in inGame' : inGame' = {a}
  BY <1>1, <1>3 DEF SeUnused
<1>9. SeLinks'
  BY <1>6, <1>7, <1>8 DEF SeLinks, Se!ClientAgrees, Se!Objects
<1>10. \A u \in Sessions : u # s /\ SeUnused(u) => SeUnused(u)'
  BY <1>5 DEF SeUnused
<1>11. SeFresh'
  <2>1. ASSUME NEW u \in Sessions PROVE (stage'[u] = "connected" => SeUnused(u)') /\ (eventConnect'[u] # None => player'[u] = None)
    <3>1. (stage[u] = "connected" => SeUnused(u)) /\ (eventConnect[u] # None => player[u] = None)
      BY DEF SeGood, SeFresh
    <3> QED BY <1>1, <1>5, <1>10, <3>1 DEF SeUnused
  <2> QED BY <2>1 DEF SeFresh
<1>12. SeWaiting'
  <2>1. ASSUME NEW t, SeIn(taskList', t) PROVE SeStands(t)'
    <3>1. t[2] \in Sessions
      BY <1>2, <2>1, SeTasks
    <3>2. CASE SeIn(taskList, t) /\ SeFits(Head(taskList), t)
      <4>1. SeStands(t) /\ ~(t[1] = "login" /\ t[2] = s)
        BY <1>1, <3>2 DEF SeGood, SeWaiting
      <4> QED BY <1>2, <1>10, <3>1, <4>1 DEF SeStands
    <3>3. CASE t[1] = "release" /\ t[2] \in closed'
      BY <3>3 DEF SeStands
    <3> QED BY <1>2, <2>1, <3>2, <3>3
  <2>2. \A t : SeIn(taskList, t)' => SeStands(t)'
    BY <2>1 DEF SeIn
  <2> QED BY <1>2, <2>2 DEF SeWaiting, SeQueue
<1> QED BY <1>2, <1>5, <1>9, <1>11, <1>12

\* login, no such player in the game.
LEMMA SeLoginNew == ASSUME SeGood, NEW s \in Sessions, Se!LoginRefused(s) \/ Se!LoginPlaced(s) PROVE SeGood'
<1>1. CASE Se!LoginRefused(s)
  <2>1. /\ Se!Begin("login", s, None) /\ Se!Found = {} /\ Se!NewPlayer(s, 1) /\ Se!FinishTask(s)
        /\ UNCHANGED <<stage, gone, released, eventConnect, acceptPackets, inGame, bufferedProtocols, sendAllEvents>>
    BY <1>1 DEF Se!LoginRefused, Se!autosendVars
  <2>2. /\ SeLinks' /\ SeFresh' /\ SeWaiting' /\ closed \subseteq closed' /\ closed' \subseteq Sessions
        /\ player' \in [Sessions -> Sessions \cup {None}] /\ client' \in [Sessions -> Sessions \cup {None}]
        /\ refs' \in [Sessions -> Nat] /\ inGame' \subseteq Sessions
    BY <2>1, SeNewPlayer
  <2>3. SeServed'
    BY <2>1, <2>2 DEF SeGood, SeServed, Se!AutosendServes
  <2>4. Se!TypeOK'
    BY <2>1, <2>2 DEF SeGood, Se!TypeOK, Se!Objects, SeWaiting, SeQueue, Se!NewPlayer
  <2> QED BY <2>2, <2>3, <2>4 DEF SeGood
<1>2. CASE Se!LoginPlaced(s)
  <2>1. /\ Se!Begin("login", s, None) /\ Se!Found = {} /\ Se!NewPlayer(s, 2) /\ Se!FinishTask(None) /\ Se!AddToAutosend(s)
        /\ inGame' = inGame \cup {s} /\ acceptPackets' = acceptPackets \cup {s}
        /\ UNCHANGED <<stage, gone, released, eventConnect>>
    BY <1>2 DEF Se!LoginPlaced
  <2>2. /\ SeLinks' /\ SeFresh' /\ SeWaiting' /\ closed \subseteq closed' /\ closed' \subseteq Sessions
        /\ player' \in [Sessions -> Sessions \cup {None}] /\ client' \in [Sessions -> Sessions \cup {None}]
        /\ refs' \in [Sessions -> Nat] /\ inGame' \subseteq Sessions
    BY <2>1, SeNewPlayer
  <2>3. s \notin released
    BY <2>1, SeLoginBegun
  <2>4. SeServed' /\ bufferedProtocols' \subseteq Sessions /\ sendAllEvents' \in Nat
    BY <2>1, <2>2, <2>3, SeAutosend
  <2>5. Se!TypeOK'
    BY <2>1, <2>2, <2>4 DEF SeGood, Se!TypeOK, Se!Objects, SeWaiting, SeQueue, Se!NewPlayer
  <2> QED BY <2>2, <2>4, <2>5 DEF SeGood
<1> QED BY <1>1, <1>2

\* A task that leaves the players alone, but may remove one.
LEMMA SeQuiet ==
  ASSUME SeGood, taskList # <<>>, NEW d \in Sessions \cup {None}, Se!FinishTask(d),
         UNCHANGED <<stage, released, eventConnect, player, client>>, inGame' \cup toRelease' = inGame \cup toRelease
  PROVE  SeWaiting' /\ closed \subseteq closed' /\ closed' \subseteq Sessions
<1>1. /\ SeQueue(taskList') /\ closed \subseteq closed' /\ closed' \subseteq Sessions
      /\ \A t : SeIn(taskList', t) => SeIn(taskList, t) \/ (t[1] = "release" /\ t[2] \in closed')
  BY SeFinished
<1> QED BY <1>1, SeKept

\* login refused for a player in the game, logout refused.
LEMMA SeRefused == ASSUME SeGood, NEW s \in Sessions, Se!LoginAlreadyIn(s) \/ Se!LogoutRefused(s) PROVE SeGood'
<1>1. PICK d \in {s, None} : Se!FinishTask(d)
  BY DEF Se!LoginAlreadyIn, Se!LogoutRefused
<1>2. /\ taskList # <<>>
      /\ UNCHANGED <<stage, gone, released, eventConnect, acceptPackets, player, client, isConnecting, inGame, toRelease, refs,
                     bufferedProtocols, sendAllEvents>>
  BY DEF Se!LoginAlreadyIn, Se!LogoutRefused, Se!Begin, Se!playerVars, Se!autosendVars
<1>3. SeWaiting' /\ closed \subseteq closed' /\ closed' \subseteq Sessions
  BY <1>1, <1>2, SeQuiet
<1>4. Se!TypeOK'
  BY <1>2, <1>3 DEF SeGood, Se!TypeOK, SeWaiting, SeQueue
<1>5. SeLinks' /\ SeServed' /\ SeFresh'
  BY <1>2, <1>3 DEF SeGood, SeLinks, SeServed, SeFresh, SeUnused, Se!ClientAgrees, Se!AutosendServes
<1> QED BY <1>3, <1>4, <1>5 DEF SeGood

\* logout removes the protocol's player and disconnects the client.
LEMMA SeLogout == ASSUME SeGood, NEW s \in Sessions, Se!Logout(s) PROVE SeGood'
<1>1. /\ player[s] # None /\ Se!FinishTask(s) /\ Se!RemoveCreature(player[s]) /\ taskList # <<>>
      /\ UNCHANGED <<stage, gone, released, eventConnect, acceptPackets, player, client, isConnecting, refs,
                     bufferedProtocols, sendAllEvents>>
  BY DEF Se!Logout, Se!Begin, Se!autosendVars
<1>2. player[s] \in Sessions
  BY <1>1 DEF SeGood, Se!TypeOK, Se!Objects
<1>3. /\ inGame' \cup toRelease' = inGame \cup toRelease /\ inGame' \cap toRelease' = {}
      /\ inGame' \subseteq Sessions /\ toRelease' \subseteq Sessions /\ \A a \in inGame' : inGame' = {a}
  BY <1>1, <1>2, SeRemove
<1>4. SeWaiting' /\ closed \subseteq closed' /\ closed' \subseteq Sessions
  BY <1>1, <1>3, SeQuiet
<1>5. Se!TypeOK'
  BY <1>1, <1>3, <1>4 DEF SeGood, Se!TypeOK, SeWaiting, SeQueue, Se!Objects
<1>6. SeLinks'
  BY <1>1, <1>3 DEF SeGood, SeLinks, Se!ClientAgrees
<1>7. SeServed' /\ SeFresh'
  BY <1>1, <1>3, <1>4 DEF SeGood, SeServed, SeFresh, SeUnused, Se!AutosendServes
<1> QED BY <1>4, <1>5, <1>6, <1>7 DEF SeGood

\* login disconnects the other client and schedules the connect.
LEMMA SeLoginReplaces == ASSUME SeGood, NEW s \in Sessions, Se!LoginReplaces(s) PROVE SeGood'
<1>1. /\ Se!Begin("login", s, None) /\ Se!AddToAutosend(s)
      /\ UNCHANGED <<stage, gone, released, acceptPackets, player, client, inGame, toRelease, refs>>
  BY DEF Se!LoginReplaces
<1>2. /\ SeUnused(s) /\ stage[s] # "connected" /\ s \notin released /\ taskList # <<>>
      /\ \A t : SeFits(Head(taskList), t) => ~(t[1] = "login" /\ t[2] = s)
  BY <1>1, SeLoginBegun
<1>3. PICK o \in Se!Found : /\ isConnecting' = isConnecting \cup {o} /\ eventConnect' = [eventConnect EXCEPT ![s] = o]
                            /\ client[o] # None /\ (Se!FinishTask(None) \/ Se!FinishTask(client[o]))
  BY DEF Se!LoginReplaces
<1>4. o \in Sessions /\ client[o] \in Sessions \cup {None}
  BY DEF SeGood, Se!TypeOK, Se!Found, Se!Objects
<1>5. PICK d \in Sessions \cup {None} : Se!FinishTask(d)
  BY <1>3, <1>4
<1>6. /\ SeQueue(taskList') /\ closed \subseteq closed' /\ closed' \subseteq Sessions
      /\ \A t : SeIn(taskList', t) => t \in Se!Tasks /\ \/ SeIn(taskList, t) /\ SeFits(Head(taskList), t)
                                                        \/ t[1] = "release" /\ t[2] \in closed'
  BY <1>2, <1>5, SeFinished
<1>7. eventConnect \in [Sessions -> Sessions \cup {None}] /\ isConnecting \subseteq Sessions
  BY DEF SeGood, Se!TypeOK, Se!Objects
<1>8. \A u \in Sessions : eventConnect'[u] = IF u = s THEN o ELSE eventConnect[u]
  BY <1>3, <1>7
<1>9. SeServed' /\ bufferedProtocols' \subseteq Sessions /\ sendAllEvents' \in Nat
  BY <1>1, <1>2, <1>6, SeAutosend
<1>10. Se!TypeOK'
  <2>1. eventConnect' \in [Sessions -> Sessions \cup {None}] /\ isConnecting' \subseteq Sessions
    BY <1>3, <1>4, <1>7
  <2> QED BY <1>1, <1>6, <1>9, <2>1 DEF SeGood, Se!TypeOK, Se!Objects, SeQueue
<1>11. SeLinks'
  BY <1>1 DEF SeGood, SeLinks, Se!ClientAgrees
<1>12. \A u \in Sessions : u # s /\ SeUnused(u) => SeUnused(u)'
  BY <1>1, <1>8 DEF SeUnused
<1>13. SeFresh'
  <2>1. ASSUME NEW u \in Sessions PROVE (stage'[u] = "connected" => SeUnused(u)') /\ (eventConnect'[u] # None => player'[u] = None)
    <3>1. (stage[u] = "connected" => SeUnused(u)) /\ (eventConnect[u] # None => player[u] = None)
      BY DEF SeGood, SeFresh
    <3> QED BY <1>1, <1>2, <1>8, <1>12, <3>1 DEF SeUnused
  <2> QED BY <2>1 DEF SeFresh
<1>14. SeWaiting'
  <2>1. ASSUME NEW t, SeIn(taskList', t) PROVE SeStands(t)'
    <3>1. t[2] \in Sessions /\ (t[1] = "connect" => t[3] # None)
      <4>1. t \in Se!Tasks
        BY <1>6, <2>1
      <4> QED BY <4>1, SessionAssumption DEF Se!Tasks, Se!Objects
    <3>2. CASE SeIn(taskList, t) /\ SeFits(Head(taskList), t)
      <4>1. SeStands(t) /\ ~(t[1] = "login" /\ t[2] = s)
        BY <1>2, <3>2 DEF SeGood, SeWaiting
      <4>2. t[1] = "connect" => t[2] # s
        BY <1>2, <3>1, <4>1 DEF SeStands, SeUnused
      <4> QED BY <1>1, <1>6, <1>8, <1>12, <3>1, <4>1, <4>2 DEF SeStands
    <3>3. CASE t[1] = "release" /\ t[2] \in closed'
      BY <3>3 DEF SeStands
    <3> QED BY <1>6, <2>1, <3>2, <3>3
  <2>2. \A t : SeIn(taskList, t)' => SeStands(t)'
    BY <2>1 DEF SeIn
  <2> QED BY <1>6, <2>2 DEF SeWaiting, SeQueue
<1> QED BY <1>9, <1>10, <1>11, <1>13, <1>14 DEF SeGood

\* login, the player has no client: connect at once.
LEMMA SeLoginTakesOver == ASSUME SeGood, NEW s \in Sessions, Se!LoginTakesOver(s) PROVE SeGood'
<1>1. /\ Se!Begin("login", s, None) /\ Se!AddToAutosend(s) /\ UNCHANGED <<stage, gone, released, eventConnect>>
  BY DEF Se!LoginTakesOver
<1>2. /\ SeUnused(s) /\ stage[s] # "connected" /\ s \notin released /\ taskList # <<>>
      /\ \A t : SeFits(Head(taskList), t) => ~(t[1] = "login" /\ t[2] = s)
  BY <1>1, SeLoginBegun
<1>3. PICK o \in Se!Found : Se!ConnectPlayer(s, o)
  BY DEF Se!LoginTakesOver
<1>4. o \in Sessions /\ player[s] = None
  BY <1>2 DEF SeGood, Se!TypeOK, Se!Found, Se!Objects, SeUnused
<1>5. /\ SeLinks' /\ \E d \in Sessions \cup {None} : Se!FinishTask(d)
      /\ player' \in [Sessions -> Sessions \cup {None}] /\ client' \in [Sessions -> Sessions \cup {None}]
      /\ refs' \in [Sessions -> Nat] /\ isConnecting' \subseteq Sessions /\ acceptPackets' \subseteq Sessions
      /\ inGame' = inGame /\ toRelease' = toRelease
      /\ \A u \in Sessions : u # s => player'[u] = player[u]
      /\ \A u \in Sessions : u \notin inGame => client'[u] = client[u]
  BY <1>3, <1>4, SeConnect
<1>6. PICK d \in Sessions \cup {None} : Se!FinishTask(d)
  BY <1>5
<1>7. /\ SeQueue(taskList') /\ closed \subseteq closed' /\ closed' \subseteq Sessions
      /\ \A t : SeIn(taskList', t) => t \in Se!Tasks /\ \/ SeIn(taskList, t) /\ SeFits(Head(taskList), t)
                                                        \/ t[1] = "release" /\ t[2] \in closed'
  BY <1>2, <1>6, SeFinished
<1>8. SeServed' /\ bufferedProtocols' \subseteq Sessions /\ sendAllEvents' \in Nat
  BY <1>1, <1>2, <1>7, SeAutosend
<1>9. Se!TypeOK'
  BY <1>1, <1>5, <1>7, <1>8 DEF SeGood, Se!TypeOK, Se!Objects, SeQueue
<1>10. \A u \in Sessions : u # s /\ SeUnused(u) => SeUnused(u)'
  BY <1>1, <1>5 DEF SeUnused
<1>11. SeFresh'
  <2>1. ASSUME NEW u \in Sessions PROVE (stage'[u] = "connected" => SeUnused(u)') /\ (eventConnect'[u] # None => player'[u] = None)
    <3>1. (stage[u] = "connected" => SeUnused(u)) /\ (eventConnect[u] # None => player[u] = None)
      BY DEF SeGood, SeFresh
    <3> QED BY <1>1, <1>2, <1>5, <1>10, <3>1 DEF SeUnused
  <2> QED BY <2>1 DEF SeFresh
<1>12. SeWaiting'
  <2>1. ASSUME NEW t, SeIn(taskList', t) PROVE SeStands(t)'
    <3>1. t[2] \in Sessions
      BY <1>7, <2>1, SeTasks
    <3>2. CASE SeIn(taskList, t) /\ SeFits(Head(taskList), t)
      <4>1. SeStands(t) /\ ~(t[1] = "login" /\ t[2] = s)
        BY <1>2, <3>2 DEF SeGood, SeWaiting
      <4> QED BY <1>1, <1>7, <1>10, <3>1, <4>1 DEF SeStands
    <3>3. CASE t[1] = "release" /\ t[2] \in closed'
      BY <3>3 DEF SeStands
    <3> QED BY <1>7, <2>1, <3>2, <3>3
  <2>2. \A t : SeIn(taskList, t)' => SeStands(t)'
    BY <2>1 DEF SeIn
  <2> QED BY <1>7, <2>2 DEF SeWaiting, SeQueue
<1> QED BY <1>5, <1>8, <1>9, <1>11, <1>12 DEF SeGood

\* The delayed connect: no second one waits for the session.
LEMMA SeDelayedConnect == ASSUME SeGood, NEW s \in Sessions, Se!DelayedConnect(s) PROVE SeGood'
<1>1. /\ eventConnect' = [eventConnect EXCEPT ![s] = None]
      /\ UNCHANGED <<stage, gone, released, bufferedProtocols, sendAllEvents>>
  BY DEF Se!DelayedConnect, Se!autosendVars
<1>2. PICK o \in Se!Objects : Se!Begin("connect", s, o) /\ Se!ConnectPlayer(s, o)
  BY DEF Se!DelayedConnect
<1>3. o \in Sessions
  BY DEF Se!Objects
<1>4. SeStands(<<"connect", s, o>>) /\ taskList # <<>> /\ Head(taskList) = <<"connect", s, o>>
  BY <1>2, SeBegun
<1>5. eventConnect[s] = o /\ eventConnect[s] # None /\ player[s] = None
  <2>1. eventConnect[s] = o
    BY <1>4 DEF SeStands
  <2> QED BY <1>3, <2>1, SessionAssumption DEF SeGood, SeFresh
<1>6. /\ SeLinks' /\ \E d \in Sessions \cup {None} : Se!FinishTask(d)
      /\ player' \in [Sessions -> Sessions \cup {None}] /\ client' \in [Sessions -> Sessions \cup {None}]
      /\ refs' \in [Sessions -> Nat] /\ isConnecting' \subseteq Sessions /\ acceptPackets' \subseteq Sessions
      /\ inGame' = inGame /\ toRelease' = toRelease
      /\ \A u \in Sessions : u # s => player'[u] = player[u]
      /\ \A u \in Sessions : u \notin inGame => client'[u] = client[u]
  BY <1>2, <1>3, <1>5, SeConnect
<1>7. PICK d \in Sessions \cup {None} : Se!FinishTask(d)
  BY <1>6
<1>8. /\ SeQueue(taskList') /\ closed \subseteq closed' /\ closed' \subseteq Sessions
      /\ \A t : SeIn(taskList', t) => t \in Se!Tasks /\ \/ SeIn(taskList, t) /\ SeFits(Head(taskList), t)
                                                        \/ t[1] = "release" /\ t[2] \in closed'
  BY <1>4, <1>7, SeFinished
<1>9. eventConnect \in [Sessions -> Sessions \cup {None}]
  BY DEF SeGood, Se!TypeOK, Se!Objects
<1>10. (\A u \in Sessions : eventConnect'[u] = IF u = s THEN None ELSE eventConnect[u]) /\ eventConnect' \in [Sessions -> Sessions \cup {None}]
  BY <1>1, <1>9
<1>11. Se!TypeOK'
  BY <1>1, <1>6, <1>8, <1>10 DEF SeGood, Se!TypeOK, Se!Objects, SeQueue
<1>12. SeServed'
  BY <1>1, <1>8 DEF SeGood, SeServed, Se!AutosendServes
<1>13. \A u \in Sessions : SeUnused(u) => u # s /\ SeUnused(u)'
  BY <1>5, <1>6, <1>10 DEF SeUnused
<1>14. SeFresh'
  <2>1. ASSUME NEW u \in Sessions PROVE (stage'[u] = "connected" => SeUnused(u)') /\ (eventConnect'[u] # None => player'[u] = None)
    <3>1. (stage[u] = "connected" => SeUnused(u)) /\ (eventConnect[u] # None => player[u] = None)
      BY DEF SeGood, SeFresh
    <3> QED BY <1>1, <1>6, <1>10, <1>13, <3>1
  <2> QED BY <2>1 DEF SeFresh
<1>15. SeWaiting'
  <2>1. ASSUME NEW t, SeIn(taskList', t) PROVE SeStands(t)'
    <3>1. t[2] \in Sessions
      BY <1>8, <2>1, SeTasks
    <3>2. CASE SeIn(taskList, t) /\ SeFits(Head(taskList), t)
      <4>1. SeStands(t)
        BY <3>2 DEF SeGood, SeWaiting
      <4>2. t[1] = "connect" => t[2] # s
        BY <1>4, <3>2 DEF SeFits
      <4> QED BY <1>1, <1>8, <1>10, <1>13, <3>1, <4>1, <4>2 DEF SeStands
    <3>3. CASE t[1] = "release" /\ t[2] \in closed'
      BY <3>3 DEF SeStands
    <3> QED BY <1>8, <2>1, <3>2, <3>3
  <2>2. \A t : SeIn(taskList, t)' => SeStands(t)'
    BY <2>1 DEF SeIn
  <2> QED BY <1>8, <2>2 DEF SeWaiting, SeQueue
<1> QED BY <1>6, <1>11, <1>12, <1>14, <1>15 DEF SeGood

\* ProtocolGame::release gives up the player and the place in the autosend list.
LEMMA SeRelease == ASSUME SeGood, NEW s \in Sessions, Se!Release(s) PROVE SeGood'
<1> DEFINE o == player[s]
<1>1. /\ Se!Begin("release", s, None) /\ Se!FinishTask(None)
      /\ IF o # None /\ client[o] = s
         THEN /\ client' = [client EXCEPT ![o] = None] /\ refs' = [refs EXCEPT ![o] = refs[o] - 1]
              /\ player' = [player EXCEPT ![s] = None]
         ELSE UNCHANGED <<client, refs, player>>
      /\ bufferedProtocols' = bufferedProtocols \ {s} /\ released' = released \cup {s}
      /\ UNCHANGED <<stage, gone, eventConnect, acceptPackets, isConnecting, inGame, toRelease, sendAllEvents>>
  BY DEF Se!Release
<1>2. /\ player \in [Sessions -> Sessions \cup {None}] /\ client \in [Sessions -> Sessions \cup {None}]
      /\ refs \in [Sessions -> Nat] /\ o \in Sessions \cup {None}
  BY DEF SeGood, Se!TypeOK, Se!Objects
<1>3. s \in closed /\ taskList # <<>> /\ Head(taskList) = <<"release", s, None>>
  <2>1. SeStands(<<"release", s, None>>) /\ taskList # <<>> /\ Head(taskList) = <<"release", s, None>>
    BY <1>1, SeBegun
  <2> QED BY <2>1 DEF SeStands
<1>4. /\ SeQueue(taskList') /\ closed \subseteq closed' /\ closed' \subseteq Sessions
      /\ \A t : SeIn(taskList', t) => t \in Se!Tasks /\ \/ SeIn(taskList, t) /\ SeFits(Head(taskList), t)
                                                        \/ t[1] = "release" /\ t[2] \in closed'
  BY <1>1, <1>3, SeFinished
<1>5. o # None => client[o] = s
  BY <1>2, SessionAssumption DEF SeGood, SeLinks, Se!ClientAgrees, Se!Objects
<1>6. /\ \A u \in Sessions : /\ player'[u] = (IF u = s THEN None ELSE player[u])
                             /\ client'[u] = (IF u = o THEN None ELSE client[u])
                             /\ refs'[u] = (IF u = o THEN refs[u] - 1 ELSE refs[u])
      /\ player' \in [Sessions -> Sessions \cup {None}] /\ client' \in [Sessions -> Sessions \cup {None}]
      /\ DOMAIN refs' = Sessions /\ refs' = [u \in Sessions |-> refs'[u]]
  <2>1. CASE o = None
    <3>1. player' = player /\ client' = client /\ refs' = refs /\ \A u \in Sessions : u # o
      BY <1>1, <2>1, SessionAssumption
    <3> QED BY <1>2, <2>1, <3>1
  <2>2. CASE o # None
    <3>1. /\ client' = [client EXCEPT ![o] = None] /\ refs' = [refs EXCEPT ![o] = refs[o] - 1]
          /\ player' = [player EXCEPT ![s] = None] /\ o \in Sessions
      BY <1>1, <1>2, <1>5, <2>2
    <3> HIDE DEF o
    <3> QED BY <1>2, <3>1
  <2> QED BY <2>1, <2>2
<1> HIDE DEF o
<1>7. ASSUME NEW p \in Sessions
      PROVE  refs'[p] = (IF client'[p] = None THEN 0 ELSE 1) + (IF p \in inGame' \cup toRelease' THEN 1 ELSE 0)
  <2>1. refs[p] = (IF client[p] = None THEN 0 ELSE 1) + (IF p \in inGame \cup toRelease THEN 1 ELSE 0)
    BY DEF SeGood, SeLinks
  <2>2. CASE p = o
    <3>1. client[p] # None /\ client'[p] = None /\ refs'[p] = refs[p] - 1
      BY <1>5, <1>6, <2>2, SessionAssumption
    <3> QED BY <1>1, <2>1, <3>1
  <2>3. CASE p # o
    BY <1>1, <1>6, <2>1, <2>3
  <2> QED BY <2>2, <2>3
<1>8. refs' \in [Sessions -> Nat]
  <2>1. \A u \in Sessions : refs'[u] \in Nat
    BY <1>7
  <2> QED BY <1>6, <2>1
<1>9. ASSUME NEW a \in Sessions, NEW b \in Sessions PROVE player'[a] = b <=> client'[b] = a
  <2>1. player[a] = b <=> client[b] = a
    BY DEF SeGood, SeLinks, Se!ClientAgrees, Se!Objects
  <2>2. player[s] = b <=> client[b] = s
    BY DEF SeGood, SeLinks, Se!ClientAgrees, Se!Objects
  <2>3. player[s] = b <=> b = o
    BY DEF o
  <2> QED BY <1>6, <2>1, <2>2, <2>3, SessionAssumption
<1>10. SeLinks'
  <2>1. inGame' \cap toRelease' = {} /\ \A a \in inGame' : inGame' = {a}
    BY <1>1 DEF SeGood, SeLinks
  <2> QED BY <1>7, <1>9, <2>1 DEF SeLinks, Se!ClientAgrees, Se!Objects
<1>11. Se!TypeOK'
  BY <1>1, <1>4, <1>6, <1>8 DEF SeGood, Se!TypeOK, Se!Objects, SeQueue
<1>12. SeServed'
  BY <1>1, <1>3, <1>4 DEF SeGood, SeServed, Se!AutosendServes
<1>13. \A u \in Sessions : SeUnused(u) => SeUnused(u)'
  BY <1>1, <1>6 DEF SeUnused
<1>14. SeFresh'
  <2>1. ASSUME NEW u \in Sessions PROVE (stage'[u] = "connected" => SeUnused(u)') /\ (eventConnect'[u] # None => player'[u] = None)
    <3>1. (stage[u] = "connected" => SeUnused(u)) /\ (eventConnect[u] # None => player[u] = None)
      BY DEF SeGood, SeFresh
    <3> QED BY <1>1, <1>6, <1>13, <3>1
  <2> QED BY <2>1 DEF SeFresh
<1>15. SeWaiting'
  <2>1. ASSUME NEW t, SeIn(taskList', t) PROVE SeStands(t)'
    <3>1. t[2] \in Sessions
      BY <1>4, <2>1, SeTasks
    <3>2. CASE SeIn(taskList, t) /\ SeFits(Head(taskList), t)
      <4>1. SeStands(t)
        BY <3>2 DEF SeGood, SeWaiting
      <4>2. t[1] = "login" => t[2] # s
        BY <1>3, <3>2 DEF SeFits
      <4> QED BY <1>1, <1>4, <1>13, <3>1, <4>1, <4>2 DEF SeStands
    <3>3. CASE t[1] = "release" /\ t[2] \in closed'
      BY <3>3 DEF SeStands
    <3> QED BY <1>4, <2>1, <3>2, <3>3
  <2>2. \A t : SeIn(taskList, t)' => SeStands(t)'
    BY <2>1 DEF SeIn
  <2> QED BY <1>4, <2>2 DEF SeWaiting, SeQueue
<1> QED BY <1>10, <1>11, <1>12, <1>14, <1>15 DEF SeGood

\* Every step of the sessions keeps it.
LEMMA SeNext == ASSUME SeGood, Se!Next PROVE SeGood'
<1>1. ASSUME NEW s \in Sessions, Se!GameStep(s) PROVE SeGood'
  BY <1>1, SeLoginNew, SeRefused, SeLoginReplaces, SeLoginTakesOver, SeDelayedConnect, SeRelease, SeLogout DEF Se!GameStep
<1>2. ASSUME NEW s \in Sessions,
             Se!FirstMessage(s) \/ Se!LogoutPacket(s) \/ Se!NetworkClose(s) \/ Se!ConnectionGone(s) \/ Se!ConnectTimer(s)
      PROVE  SeGood'
  BY <1>2, SeFirstMessage, SeLogoutPacket, SeNetworkClose, SeConnectionGone, SeConnectTimer
<1>3. ASSUME NEW o \in Sessions, Se!PingTimeout(o) PROVE SeGood'
  BY <1>3, SePingTimeout
<1>4. ASSUME Se!Cleanup \/ Se!SendAll PROVE SeGood'
  BY <1>4, SeCleanup, SeSendAll
<1> QED BY <1>1, <1>2, <1>3, <1>4 DEF Se!Next, Se!Objects

\* A step of Society is one of the sessions, or leaves them as they are.
LEMMA SePart == [Next]_vars => Se!Next \/ UNCHANGED sessionVars
<1>1. UNCHANGED vars => UNCHANGED sessionVars
  BY DEF vars
<1>2. \A part : Only(part) /\ part # "session" => UNCHANGED sessionVars
  BY DEF Only
<1>3. Next => \/ Se!Next \/ Only("chat") \/ Only("houses") \/ Only("persistence") \/ Only("storage")
              \/ Only("scripts") \/ Only("skulls") \/ Only("casting")
  BY DEF Next
<1> QED BY <1>1, <1>2, <1>3

\* Every step of Society keeps it.
LEMMA SeStep == SeGood /\ [Next]_vars => SeGood'
<1> SUFFICES ASSUME SeGood, [Next]_vars PROVE SeGood'
  OBVIOUS
<1>1. CASE UNCHANGED sessionVars
  <2>1. UNCHANGED <<stage, closed, gone, released, player, eventConnect, acceptPackets, client, isConnecting, inGame,
                    toRelease, refs, bufferedProtocols, sendAllEvents, taskList>>
    BY <1>1 DEF sessionVars
  <2>2. Se!TypeOK' /\ SeLinks' /\ SeServed' /\ SeFresh'
    BY <2>1 DEF SeGood, Se!TypeOK, SeLinks, SeServed, SeFresh, SeUnused, Se!ClientAgrees, Se!AutosendServes
  <2>3. SeWaiting'
    <3>1. SeQueue(taskList') /\ \A t : SeIn(taskList', t) => SeIn(taskList, t)
      BY <2>1 DEF SeGood, SeWaiting
    <3> QED BY <2>1, <3>1, SeKept
  <2> QED BY <2>2, <2>3 DEF SeGood
<1> QED BY <1>1, SePart, SeNext

\* Sessions stay so.
LEMMA SeAlways == Spec => []SeGood
<1>1. Init => SeGood
  <2>1. Init => Se!Init
    BY DEF Init
  <2> QED BY <2>1, SeInit
<1> QED BY <1>1, SeStep, PTL DEF Spec

\* The protocols that use a Player are its client, and one Player object at most is in the game.
LEMMA SeTypes ==
  ASSUME SeGood
  PROVE  Se!TypeOK /\ Se!ClientAgrees /\ Se!ReferencesExact /\ Se!OnePlayerInGame /\ Se!AutosendServes
<1>0. \A S : Se!Cardinality(S) = Cardinality(S)
  BY DEF Se!Cardinality, Cardinality
<1>1. ASSUME NEW o \in Sessions
      PROVE  refs[o] = Se!Cardinality({s \in Sessions : player[s] = o}) + (IF o \in inGame \cup toRelease THEN 1 ELSE 0)
  <2> DEFINE users == {s \in Sessions : player[s] = o}
  <2>1. client[o] \in Sessions \cup {None} /\ \A s \in Sessions : player[s] = o <=> client[o] = s
    BY DEF SeGood, SeLinks, Se!ClientAgrees, Se!TypeOK, Se!Objects
  <2>2. Cardinality(users) = IF client[o] = None THEN 0 ELSE 1
    <3>1. CASE client[o] = None
      <4>1. users = {}
        BY <2>1, <3>1, SessionAssumption
      <4> QED BY <3>1, <4>1, FS_EmptySet
    <3>2. CASE client[o] # None
      <4>1. users = {client[o]}
        BY <2>1, <3>2
      <4> QED BY <3>2, <4>1, FS_Singleton
    <3> QED BY <3>1, <3>2
  <2>3. refs[o] = (IF client[o] = None THEN 0 ELSE 1) + (IF o \in inGame \cup toRelease THEN 1 ELSE 0)
    BY DEF SeGood, SeLinks
  <2>4. Se!Cardinality(users) = Cardinality(users)
    BY <1>0
  <2> QED BY <2>2, <2>3, <2>4
<1>2. Se!ReferencesExact
  BY <1>1 DEF Se!ReferencesExact, Se!Objects
<1>3. Se!OnePlayerInGame
  <2>1. CASE inGame = {}
    <3>1. Cardinality(inGame) = 0
      BY <2>1, FS_EmptySet
    <3> QED BY <1>0, <3>1 DEF Se!OnePlayerInGame
  <2>2. CASE inGame # {}
    <3>1. PICK a \in inGame : inGame = {a}
      BY <2>2 DEF SeGood, SeLinks
    <3>2. Cardinality(inGame) = 1
      BY <3>1, FS_Singleton
    <3> QED BY <1>0, <3>2 DEF Se!OnePlayerInGame
  <2> QED BY <2>1, <2>2
<1> QED BY <1>2, <1>3 DEF SeGood, SeLinks, SeServed

-----------------------------------------------------------------------------
(* Nothing is lost                                                         *)

\* IOLoginData::savePlayer, Game::saveAccountStorageValues, ScriptEnvironment::resetEnv,
\* Spell::postCastSpell and Weapon::onUsedWeapon: goods, storage values and items made by scripts
\* are neither lost nor doubled, and what is cast and shot is paid for.
THEOREM NothingIsLost == Spec => []Conserved
<1>1. PeGood /\ StGood /\ ScGood /\ CaOK(Ca!Now) => Conserved
  BY PeCounts, ScTypes, CaTypes DEF StGood, Conserved, Of
<1> QED BY <1>1, PeAlways, StAlways, ScAlways, CaAlways, PTL

-----------------------------------------------------------------------------
(* Pointers agree                                                          *)

\* Chat::removeUserFromAllChannels, Guild::removeMember, BedItem::sleep, LuaEnvironment's timer
\* references, Player::addAttacked and getSkullClient: what points at each other does so from
\* both sides, and every client shows the skull that is due.
THEOREM PointersAlwaysAgree == Spec => []PointersAgree
<1>1. ChGood /\ HoGood /\ ScGood /\ SkGood => PointersAgree
  BY ChTypes, HoTypes, ScTypes, SkTypes DEF PointersAgree, Of
<1> QED BY <1>1, ChAlways, HoAlways, ScAlways, SkAlways, PTL

\* ProtocolGame::login, connect, logout and release, Game::ReleaseCreature, OutputMessagePool: a
\* character has one client, the references of a Player object are those of its protocol and of the
\* game, one Player object is in the game, and a protocol is served until it is released.
THEOREM SessionsAlwaysExact == Spec => []SessionsExact
<1>1. SeGood => SessionsExact
  BY SeTypes DEF SessionsExact, Of
<1> QED BY <1>1, SeAlways, PTL

-----------------------------------------------------------------------------
(* Types                                                                   *)

\* Every part of Society keeps its types, the queue of the sessions' tasks among them.
THEOREM SocietyTypes == Spec => []TypeOK
<1>1. SeGood /\ ChGood /\ HoGood /\ PeGood /\ StGood /\ ScGood /\ SkGood /\ CaOK(Ca!Now) => TypeOK
  BY SeTypes, ChTypes, HoTypes, PeTypes, ScTypes, SkTypes, CaTypes DEF StGood, TypeOK, Of
<1> QED BY <1>1, SeAlways, ChAlways, HoAlways, PeAlways, StAlways, ScAlways, SkAlways, CaAlways, PTL
=============================================================================
