----------------------------------- MODULE Tile ------------------------------------
(***************************************************************************)
(* One tile of the map, its flags, and the copy a client has of it         *)
(* (tile.cpp, the tile messages of protocolgame.cpp).                      *)
(*                                                                         *)
(* A tile is its ground, the items that are always on top, the creatures   *)
(* and the other items.  A client knows the first MaxStackPos things it    *)
(* can see.  Its own behaviour is external: it inserts, replaces and       *)
(* removes at the position it is told, and forgets what is too much.       *)
(*                                                                         *)
(* Several players stand around, the Watchers.  They differ in the hidden  *)
(* creatures they see, that is monsters that are invisible and players in  *)
(* ghost mode.  What one client shows has no effect on the tile or on what *)
(* another one is told, so that a behaviour follows the copy of one of     *)
(* them, any of them, and the others are only those who are told as well.  *)
(*                                                                         *)
(* Items that decay (the decay part of game.cpp and item.cpp).  An item    *)
(* that decays waits in toDecayItems, then in one of four buckets, one of  *)
(* which is checked every 250 ms; each entry of a list holds a reference   *)
(* of the item, and references are dropped in Game::cleanup.  Scripts and  *)
(* players may transform, move and remove the item at any time in between. *)
(*                                                                         *)
(* The unit of time is half of EVENT_DECAYINTERVAL, 125 ms, so that Turn,  *)
(* a round of all buckets, is 1000 ms, and rounding to the nearest check   *)
(* adds one.  The types are a chain: a lit torch                           *)
(* decays to an ember, the same Item with another id; the ember to ash,    *)
(* another kind of item that replaces it; the ash is removed.  Of the two  *)
(* types that do not decay "out" has stopTime and "plain" has not.         *)
(* Nothing here is always on top or refuses to be transformed, and no item *)
(* has a unique id.                                                        *)
(***************************************************************************)
EXTENDS Integers, Sequences, FiniteSets, SequencesExt

CONSTANTS Walkers,         \* creatures that come and go
          Hidden,          \* those of them that can hide
          Watchers,        \* players around the tile
          Senses,          \* Senses[w]: those of Hidden that w sees all the same
          Splashes, Door,  \* items that are always on top, splashes below others
          Fields,          \* magic fields
          Barrier,         \* a magic field that is not replaced
          Box,             \* an item that blocks
          Dustbin,         \* a trash holder
          MaxStackPos,     \* MAX_STACKPOS_THINGS, 10
          Embers,          \* items that are not ash
          Ashes,           \* items that are ash
          Lasting,         \* Lasting[t]: how long an item of type t lasts
          DecayBuckets,    \* EVENT_DECAY_BUCKETS
          MaxReferences    \* bound: of one item

VARIABLES tile,     \* what is on the tile, and its flags
          client,   \* who is followed, the copy he has, and if he sees the tile
          item,     \* place, type, duration, decaying and references of each Item
          decayItems, toDecayItems, lastBucket,
          toReleaseItems \* how many references of each item cleanup drops

tileVars == <<tile, client>>

TileItems == Splashes \cup Fields \cup {Door, Barrier, Box, Dustbin}

TheGround == "ground"

Flags == {"magicField", "blockSolid", "trashHolder"}

AlwaysOnTop(i) == i \in Splashes \cup {Door}

AlwaysOnTopOrder(i) == IF i \in Splashes THEN 1 ELSE 2

HasProperty(i, f) ==
    CASE f = "magicField" -> i \in Fields \cup {Barrier}
      [] f = "blockSolid" -> i \in {Box, Barrier}
      [] f = "trashHolder" -> i = Dustbin

Moveable(i) == i = Box

TileTypeOK ==
    /\ ToSet(tile.top) \cup ToSet(tile.down) \subseteq TileItems
    /\ ToSet(tile.creatures) \subseteq Walkers
    /\ tile.flags \subseteq Flags /\ tile.invisible \subseteq Hidden
    /\ client.who \in Watchers /\ client.sees \in BOOLEAN /\ client.lossy \in BOOLEAN
    /\ Len(client.things) <= MaxStackPos

TileInit ==
    /\ tile = [top |-> <<>>, creatures |-> <<>>, down |-> <<>>, flags |-> {}, invisible |-> {}]
    /\ client = [who |-> CHOOSE w \in Watchers : TRUE, sees |-> FALSE, things |-> <<>>, lossy |-> FALSE]

-----------------------------------------------------------------------------
(* The tile                                                                *)

Items(t) == ToSet(t.top) \cup ToSet(t.down)

On(t) == Items(t) \cup ToSet(t.creatures)

ThingCount(t) == 1 + Len(t.top) + Len(t.creatures) + Len(t.down)

SetTileFlags(t, i) == [t EXCEPT !.flags = @ \cup {f \in Flags : HasProperty(i, f)}]

\* Only blocking is kept as long as another item blocks.
ResetTileFlags(t, i) ==
    [t EXCEPT !.flags = {f \in @ : \/ ~HasProperty(i, f)
                                   \/ f = "blockSolid" /\ \E j \in Items(t) \ {i} : HasProperty(j, f)}]

\* The creatures are kept newest first, and shown oldest first.
Shown(t) == Reverse(SelectSeq(t.creatures, LAMBDA c : c \notin t.invisible))

\* Player::canSeeCreature: the tile as w sees it
SeenBy(t, w) == [t EXCEPT !.invisible = @ \ Senses[w]]

VisibleThings(t) == <<TheGround>> \o t.top \o Shown(t) \o t.down

Position(s, x) == SelectInSeq(s, LAMBDA y : y = x)

\* getStackposOfItem, from one as sequences are
GetStackpos(t, i) == Position(VisibleThings(t), i)

\* The position a creature has, or would have if it was visible
GetClientIndexOfCreature(t, c) == GetStackpos([t EXCEPT !.invisible = @ \ {c}], c)

\* GetTileDescription
TileDescription(t) ==
    LET all == VisibleThings(t)
    IN  SubSeq(all, 1, IF Len(all) < MaxStackPos THEN Len(all) ELSE MaxStackPos)

-----------------------------------------------------------------------------
(* The client                                                              *)

Cut(s) == SubSeq(s, 1, IF Len(s) < MaxStackPos THEN Len(s) ELSE MaxStackPos)

Receive(k, things) == IF k.sees THEN [k EXCEPT !.things = things] ELSE k

SendAdd(k, pos, x) ==
    IF pos > MaxStackPos THEN k
    ELSE Receive(k, Cut(InsertAt(k.things, IF pos > Len(k.things) THEN Len(k.things) + 1 ELSE pos, x)))

\* A position that was not found (-1, here 0), or that the client does not show, is not sent.
SendRemove(k, pos) ==
    IF pos = 0 \/ pos > MaxStackPos \/ pos > Len(k.things) THEN k ELSE Receive(k, RemoveAt(k.things, pos))

SendUpdate(k, pos, x) ==
    IF pos > MaxStackPos \/ pos > Len(k.things) THEN k ELSE Receive(k, ReplaceAt(k.things, pos, x))

SendUpdateTile(k, t) == [Receive(k, TileDescription(SeenBy(t, k.who))) EXCEPT !.lossy = FALSE]

\* Seeded fault: The things behind the tenth are not sent when one is removed.
PostRemove_Forgets(k, t) == k

\* Tile::postRemoveNotification: a tile that is almost full is sent again.
PostRemove(k, t) == IF ThingCount(t) > MaxStackPos - 2 THEN SendUpdateTile(k, t) ELSE k

-----------------------------------------------------------------------------
(* Items                                                                   *)

State(t, k) == [tile |-> t, client |-> k]

\* The item is put before those of its order.
Insert(s, i) ==
    LET below(j) == AlwaysOnTopOrder(j) < AlwaysOnTopOrder(i)
        top == SelectSeq(s.tile.top, below) \o <<i>> \o SelectSeq(s.tile.top, LAMBDA j : ~below(j))
        t == SetTileFlags(IF AlwaysOnTop(i) THEN [s.tile EXCEPT !.top = top]
                          ELSE [s.tile EXCEPT !.down = <<i>> \o @], i)
    IN  State(t, SendAdd(s.client, GetStackpos(SeenBy(t, s.client.who), i), i))

\* Tile::removeThing and the notification after it
RemoveThing(s, i) ==
    LET left == [s.tile EXCEPT !.top = Remove(@, i), !.down = Remove(@, i)]
        t == ResetTileFlags(left, i)
        k == SendRemove(s.client, GetStackpos(SeenBy(s.tile, s.client.who), i))
    IN  State(t, PostRemove(k, t))

\* Tile::addThing: a splash takes the place of a splash, a field that of a field.
AddThing(s, i) ==
    LET replaced == IF i \in Splashes THEN ToSet(s.tile.top) \cap Splashes
                    ELSE IF HasProperty(i, "magicField")
                    THEN {j \in ToSet(s.tile.down) : HasProperty(j, "magicField")} ELSE {}
    IN  IF replaced = {} THEN Insert(s, i)
        ELSE IF Barrier \in replaced THEN s
        ELSE Insert(RemoveThing(s, CHOOSE j \in replaced : TRUE), i)

\* Tile::queryAdd of an item that is not blocking, or is: not over creatures, nor over what
\* blocks, unless it lies on top of it.
QueryAddItem(i) ==
    /\ HasProperty(i, "blockSolid") => tile.creatures = <<>>
    /\ \A j \in Items(tile) :
          HasProperty(j, "blockSolid") => j = Box /\ ~HasProperty(i, "blockSolid") /\ i \notin Fields

Become(s) == tile' = s.tile /\ client' = s.client

\* A player or a script puts the item there; a trash holder takes it at once
\* if it can be moved.
AddItem(i) ==
    /\ i \notin Items(tile)
    /\ QueryAddItem(i)
    /\ LET added == AddThing(State(tile, client), i)
       IN  Become(IF "trashHolder" \in added.tile.flags /\ Moveable(i) /\ i \in Items(added.tile)
                  THEN RemoveThing(added, i) ELSE added)

RemoveItem(i) ==
    /\ i \in Items(tile)
    /\ Become(RemoveThing(State(tile, client), i))

\* Game::transformItem and Tile::replaceThing, between items that do not move to or from the top.
TransformItem(i, j) ==
    LET swap(s) == ReplaceAll(s, i, j)
        placed == [tile EXCEPT !.top = swap(@), !.down = swap(@)]
        t == SetTileFlags(ResetTileFlags(placed, i), j)
        k == SendUpdate(client, GetStackpos(SeenBy(t, client.who), j), j)
    IN  /\ i \in Items(tile) /\ j \notin Items(tile)
        /\ AlwaysOnTop(i) <=> AlwaysOnTop(j)
        /\ i \in Splashes <=> j \in Splashes
        /\ HasProperty(i, "magicField") <=> HasProperty(j, "magicField")
        /\ Become(State(t, PostRemove(k, t)))

\* transformItem of an item that moves to the top, or from it: it is removed and added.
TransformMoves(i, j) ==
    /\ i \in Items(tile) /\ j \notin Items(tile)
    /\ ~(AlwaysOnTop(i) <=> AlwaysOnTop(j))
    /\ Become(AddThing(RemoveThing(State(tile, client), i), j))

-----------------------------------------------------------------------------
(* Creatures                                                               *)

\* Tile::queryAdd of a creature; one that is teleported is not asked.
QueryAddCreature == tile.creatures = <<>> /\ "blockSolid" \notin tile.flags

\* Player::canSeeCreature
CanSee(w, c) == c \notin SeenBy(tile, w).invisible

\* getClientIndexOfCreature for w
IndexFor(w, t, c) == GetClientIndexOfCreature(SeenBy(t, w), c)

\* Map::placeCreature and moveCreature
Enter(c, teleported) ==
    LET t == [tile EXCEPT !.creatures = <<c>> \o @]
    IN  /\ c \notin ToSet(tile.creatures)
        /\ teleported \/ QueryAddCreature
        /\ Become(State(t, IF CanSee(client.who, c) THEN SendAdd(client, IndexFor(client.who, t, c), c)
                           ELSE client))

\* The creature is no longer there, the client has been told (or not), and the tile notifies.
Gone(c, k) ==
    LET t == [tile EXCEPT !.creatures = Remove(@, c)]
    IN  Become(State(t, PostRemove(k, t)))

\* Map::moveCreature: each of those who see the creature is told where it was for him.
Leave(c) ==
    /\ c \in ToSet(tile.creatures)
    /\ Gone(c, IF CanSee(client.who, c) THEN SendRemove(client, IndexFor(client.who, tile, c)) ELSE client)

\* Game::removeCreature: the positions of all spectators are listed, with none (0) for one who
\* does not see the creature; but only those who see it take a position, the next of the list.
RemoveCreature(c, spectators) ==
    LET oldStackPos == [n \in DOMAIN spectators |->
                           IF CanSee(spectators[n], c) THEN IndexFor(spectators[n], tile, c) ELSE 0]
        place == Position(spectators, client.who)
        seers == {n \in 1..place : CanSee(spectators[n], c)}
    IN  /\ c \in ToSet(tile.creatures)
        /\ client.sees => place > 0
        /\ Gone(c, IF place > 0 /\ CanSee(client.who, c)
                   THEN [SendRemove(client, oldStackPos[Cardinality(seers)]) EXCEPT !.lossy = @ \/ (client.sees /\ seers # 1..place)]
                   ELSE client)

\* Game::internalCreatureChangeVisible, Player::setGhostMode: who sees the creature all the same
\* gets its looks, the others see it go or come.  The tile is not sent again.
ChangeVisible(c) ==
    LET hides == c \notin tile.invisible
        told == c \in ToSet(tile.creatures) /\ c \notin Senses[client.who]
        pos == IndexFor(client.who, tile, c)
        lossy == client.sees /\ Len(VisibleThings(SeenBy(tile, client.who))) > MaxStackPos
    IN  /\ tile' = [tile EXCEPT !.invisible = IF hides THEN @ \cup {c} ELSE @ \ {c}]
        /\ client' = CASE ~told -> client
                       [] told /\ hides -> [SendRemove(client, pos) EXCEPT !.lossy = @ \/ lossy]
                       [] OTHER -> SendAdd(client, pos, c)

\* A client's player comes into view of the tile, or leaves it.
Watch ==
    /\ UNCHANGED tile
    /\ \E w \in Watchers :
          client' = [who |-> IF client.sees THEN client.who ELSE w, sees |-> ~client.sees, lossy |-> FALSE,
                     things |-> IF client.sees THEN <<>> ELSE TileDescription(SeenBy(tile, w))]

\* getSpectators, in any order; the range is wider than what is seen.
Spectators == SetToAllKPermutations(Watchers)

TileNext ==
    \/ Watch
    \/ \E i \in TileItems :
          \/ AddItem(i) \/ RemoveItem(i)
          \/ \E j \in TileItems : TransformItem(i, j) \/ TransformMoves(i, j)
    \/ \E c \in Walkers : \E teleported \in BOOLEAN : Enter(c, teleported)
    \/ \E c \in Walkers : Leave(c) \/ \E spectators \in Spectators : RemoveCreature(c, spectators)
    \/ \E c \in Hidden : ChangeVisible(c)

-----------------------------------------------------------------------------
(* Properties                                                              *)

\* What any client shows is what is there: it has not been told of a thing at a position it
\* has in another order on the tile, and a tile that was too full is repaired.  Two things
\* leave a client with a wrong copy until the tile is sent again: a creature that hides on a
\* tile that is too full, and one that is removed (not: walks away) while somebody is around
\* who does not see it and whose entry of the list another one takes.
CopyAgrees ==
    client.sees /\ ~client.lossy => client.things = TileDescription(SeenBy(tile, client.who))

\* The flags say what lies on the tile, one field and one splash at most.
FlagsExact ==
    /\ tile.flags = {f \in Flags : \E i \in Items(tile) : HasProperty(i, f)}
    /\ Cardinality(ToSet(tile.top) \cap Splashes) <= 1
    /\ Cardinality({i \in Items(tile) : HasProperty(i, "magicField")}) <= 1

-----------------------------------------------------------------------------
(* Items that decay                                                        *)

decayVars == <<item, decayItems, toDecayItems, lastBucket, toReleaseItems>>

DecayTypes == {"lit", "out", "plain", "ember", "ash"}
Burning == Embers \cup Ashes

\* EVENT_DECAYINTERVAL * EVENT_DECAY_BUCKETS
Turn == 2 * DecayBuckets

DecayTypeOK ==
    /\ item \in [Burning -> [place : {"none", "world", "gone"}, type : DecayTypes,
                             duration : 0..4 * Turn, decaying : BOOLEAN,
                             references : 0..MaxReferences + 3]]
    /\ \A b \in 0..DecayBuckets - 1 : \A k \in DOMAIN decayItems[b] : decayItems[b][k] \in Burning
    /\ \A k \in DOMAIN toDecayItems : toDecayItems[k] \in Burning
    /\ lastBucket \in 0..DecayBuckets - 1 /\ toReleaseItems \in [Burning -> Nat]

DecayInit ==
    /\ item = [i \in Burning |-> [place |-> "none", type |-> IF i \in Ashes THEN "ash" ELSE "lit",
                                  duration |-> 0, decaying |-> FALSE, references |-> 0]]
    /\ decayItems = [b \in 0..DecayBuckets - 1 |-> <<>>] /\ toDecayItems = <<>>
    /\ lastBucket = 0 /\ toReleaseItems = [i \in Burning |-> 0]

-----------------------------------------------------------------------------
(* Items.  A state s is a record of the variables above.                   *)

Decays == [item |-> item, lists |-> decayItems, new |-> toDecayItems, released |-> toReleaseItems]

DecayBecomes(s) ==
    /\ item' = s.item /\ decayItems' = s.lists
    /\ toDecayItems' = s.new /\ toReleaseItems' = s.released

CanDecay(x) == x.place = "world" /\ x.type \notin {"out", "plain"}

\* Item::setID.  A type with stopTime keeps what is left, for itself and for the next type;
\* another type that lasts starts from its whole duration, and "plain" forgets it all.
SetID(x, type) ==
    LET kept == type = "out" \/ (x.type = "out" /\ x.duration > 0 /\ type # "plain")
    IN  IF kept THEN [x EXCEPT !.type = type]
        ELSE [x EXCEPT !.type = type, !.duration = Lasting[type], !.decaying = FALSE]

\* One more entry of the decay lists.
PushDecay(s, i) ==
    [s EXCEPT !.item[i].references = @ + 1, !.item[i].decaying = TRUE, !.new = <<i>> \o @]

ReleaseItem(s, i) == [s EXCEPT !.released[i] = @ + 1]

\* Item::Item of a new ash.
Unused(s) == {i \in Ashes : s.item[i].place = "none"}

Create(x, type) == [x EXCEPT !.place = "world", !.type = type, !.duration = Lasting[type],
                             !.decaying = FALSE, !.references = 1]

\* Game::internalRemoveItem.
InternalRemove(s, i) == ReleaseItem([s EXCEPT !.item[i].place = "gone"], i)

\* Game::transformItem of an ember into ash: another Item replaces it.
Replace(s, i, j) ==
    PushDecay(ReleaseItem([s EXCEPT !.item[j] = Create(@, "ash"), !.item[i].place = "gone"], i), j)

\* Game::internalDecayItem and what startDecay does with its result.
InternalDecay(s, i) ==
    CASE s.item[i].type = "lit" -> PushDecay([s EXCEPT !.item[i] = SetID(@, "ember")], i)
      [] s.item[i].type = "ember" /\ Unused(s) # {} -> Replace(s, i, CHOOSE j \in Unused(s) : TRUE)
      [] OTHER -> InternalRemove(s, i)

\* Game::startDecay.
StartDecay(s, i) ==
    IF ~CanDecay(s.item[i]) \/ s.item[i].decaying THEN s
    ELSE IF s.item[i].duration > 0 THEN PushDecay(s, i) ELSE InternalDecay(s, i)

-----------------------------------------------------------------------------
(* The steps of scripts and players                                        *)

Touchable(i) == item[i].place = "world" /\ item[i].references < MaxReferences

\* A new item put into the world: internalAddItem starts its decay, and does so even when
\* the item was merged with a stack and is already released.
AddDecaying(i) ==
    /\ item[i].place = "none" /\ i \in Embers
    /\ \E merged \in BOOLEAN :
          LET new == [Decays EXCEPT !.item[i] = Create(@, "lit")]
          IN  DecayBecomes(PushDecay(IF merged THEN InternalRemove(new, i) ELSE new, i))
    /\ UNCHANGED lastBucket

\* Item::clone, then internalAddItem: the copy of a decaying item is entered twice.
CloneItem(i, j) ==
    /\ Touchable(i) /\ {i, j} \subseteq Embers /\ item[j].place = "none"
    /\ LET copy == [Decays EXCEPT !.item[j] = [item[i] EXCEPT !.references = 1]]
       IN  DecayBecomes(IF item[i].duration > 0 THEN PushDecay(PushDecay(copy, j), j) ELSE copy)
    /\ UNCHANGED lastBucket

\* item:transform, followed by item:decay or not.
TransformDecaying(i, type) ==
    /\ Touchable(i) /\ i \in Embers /\ type # item[i].type
    /\ LET changed == [Decays EXCEPT !.item[i] = SetID(@, type)]
       IN  \E decay \in BOOLEAN : DecayBecomes(IF decay THEN StartDecay(changed, i) ELSE changed)
    /\ UNCHANGED lastBucket

\* The end of Game::internalMoveItem.
MoveDecaying(i) ==
    /\ Touchable(i) /\ item[i].duration > 0 /\ ~item[i].decaying
    /\ DecayBecomes(PushDecay(Decays, i))
    /\ UNCHANGED lastBucket

RemoveDecaying(i) ==
    /\ item[i].place = "world"
    /\ DecayBecomes(InternalRemove(Decays, i))
    /\ UNCHANGED lastBucket

-----------------------------------------------------------------------------
(* Game::checkDecay                                                        *)

\* Seeded fault: The next bucket is chosen, and the push_back is missing.
CheckItem_Forgets(s, b, i) ==
    LET left == s.item[i].duration - IF s.item[i].duration < Turn THEN s.item[i].duration ELSE Turn
        older == [s EXCEPT !.item[i].duration = left]
        newBucket == (b + (left + 1) \div Turn) % DecayBuckets
    IN  CASE ~CanDecay(s.item[i]) -> ReleaseItem([s EXCEPT !.item[i].decaying = FALSE], i)
          [] CanDecay(s.item[i]) /\ left >= Turn -> [older EXCEPT !.lists[b] = Append(@, i)]
          [] CanDecay(s.item[i]) /\ left < Turn /\ left > 0 /\ newBucket # b ->
                older
          [] OTHER -> ReleaseItem(InternalDecay(older, i), i)

\* What happens to one entry of bucket b: what lasts for another turn keeps its place, what
\* ends before is due now or, rounded, with the next bucket.
CheckItem(s, b, i) ==
    LET left == s.item[i].duration - IF s.item[i].duration < Turn THEN s.item[i].duration ELSE Turn
        older == [s EXCEPT !.item[i].duration = left]
        newBucket == (b + (left + 1) \div Turn) % DecayBuckets
    IN  CASE ~CanDecay(s.item[i]) -> ReleaseItem([s EXCEPT !.item[i].decaying = FALSE], i)
          [] CanDecay(s.item[i]) /\ left >= Turn -> [older EXCEPT !.lists[b] = Append(@, i)]
          [] CanDecay(s.item[i]) /\ left < Turn /\ left > 0 /\ newBucket # b ->
                [older EXCEPT !.lists[newBucket] = Append(@, i)]
          [] OTHER -> ReleaseItem(InternalDecay(older, i), i)

\* Game::cleanup: the released references are dropped, and the new entries join a bucket.
Cleanup(s, b) ==
    LET dropped == [s EXCEPT !.item = [i \in Burning |-> [s.item[i] EXCEPT !.references = @ - s.released[i]]],
                             !.released = [i \in Burning |-> 0], !.new = <<>>]
        bucketOf(i) == IF s.item[i].duration >= Turn THEN b ELSE (b + 1) % DecayBuckets
    IN  FoldLeft(LAMBDA t, i : [t EXCEPT !.lists[bucketOf(i)] = Append(@, i)], dropped, s.new)

CheckDecay ==
    LET b == (lastBucket + 1) % DecayBuckets
        checked == FoldLeft(LAMBDA s, i : CheckItem(s, b, i), [Decays EXCEPT !.lists[b] = <<>>], decayItems[b])
    IN  /\ DecayBecomes(Cleanup(checked, b))
        /\ lastBucket' = b

DecayNext ==
    \/ CheckDecay
    \/ \E i \in Burning : AddDecaying(i) \/ MoveDecaying(i) \/ RemoveDecaying(i)
    \/ \E i \in Burning, j \in Burning : CloneItem(i, j)
    \/ \E i \in Burning, type \in DecayTypes \ {"ash"} : TransformDecaying(i, type)

-----------------------------------------------------------------------------

Entries(i) ==
    LET count(list) == Cardinality({k \in DOMAIN list : list[k] = i})
    IN  FoldLeft(LAMBDA sum, b : sum + count(decayItems[b - 1]), count(toDecayItems),
                 [b \in 1..DecayBuckets |-> b])

\* Game::startDecay and cleanup: the references of an item are its place in the world, its
\* entries in the decay lists and what is about to be dropped, so that no list holds an
\* item that is deleted.
DecayReferences ==
    \A i \in Burning :
       item[i].references = Entries(i) + toReleaseItems[i] + IF item[i].place = "world" THEN 1 ELSE 0

\* DECAYING_TRUE: an item in the world that startDecay takes for decaying is in a list, or
\* it would never decay.
DecayGoesOn ==
    \A i \in Burning : item[i].place = "world" /\ item[i].decaying => Entries(i) > 0
=============================================================================
