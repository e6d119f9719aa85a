-------------------------------- MODULE View ---------------------------------
(***************************************************************************)
(* What the client of one player is shown of the map (protocolgame.cpp,    *)
(* map.cpp): the window of positions described to it, the creatures drawn  *)
(* on them, the set of creatures it knows by name, and the spectators the  *)
(* map keeps cached per position.  The server never asks the client: it    *)
(* sends the strip that a step uncovers and the change of one creature,    *)
(* and trusts that the rest of the screen is still right.                  *)
(*                                                                         *)
(* The client is external: it keeps what lies in its window, draws what it *)
(* is told and forgets what a whole description (0x64) replaces.  Positions*)
(* of things in a stack are Tile's concern.  A move to another floor is    *)
(* always a teleport for moveCreature (isInRange(.., 1, 1, 0)), so that    *)
(* MoveUpCreature and MoveDownCreature never run.                          *)
(***************************************************************************)
EXTENDS Integers, FiniteSets, FiniteSetsExt

CONSTANTS Me, Others,          \* the player that looks, and the other creatures
          Monsters,            \* the others that are no players
          Width, Height, LastFloor, Surface,   \* the map; Surface is floor 7
          VX, VY,              \* Map::maxClientViewportX and Y
          Reach,               \* Map::maxViewportX and Y
          Spots,               \* bound: where the others can be
          Paths,               \* bound: where the player can be
          KnownLimit,          \* 250
          MaxCached            \* bound: positions that have cached spectators

VARIABLES where,      \* of each creature its position, or Nowhere
          hidden,     \* the others that are invisible, or ghosts
          senses,     \* whether the player sees those as well
          described,  \* the positions the client has
          screen,     \* the creatures it draws: <<creature, position>>
          mistaken,   \* the images that are wrong: drawn of a removed creature, or missing
          known,      \* knownCreatureSet
          remembered, \* the creatures that the client knows by name
          cached      \* spectatorCache: who is cached for a position

viewVars == <<where, hidden, senses, described, screen, mistaken, known, remembered, cached>>

Creature == Others \cup {Me}
Nowhere == <<>>
Positions == (0..Width - 1) \X (0..Height - 1) \X (0..LastFloor)

X(p) == p[1]
Y(p) == p[2]
Z(p) == p[3]

ViewTypeOK ==
    /\ where \in [Creature -> Positions \cup {Nowhere}] /\ where[Me] # Nowhere
    /\ hidden \subseteq Others /\ senses \in BOOLEAN
    /\ described \subseteq Positions
    /\ screen \subseteq Creature \X Positions /\ mistaken \subseteq Creature \X Positions
    /\ known \subseteq Creature /\ remembered \subseteq Creature
    /\ DOMAIN cached \subseteq Positions /\ \A p \in DOMAIN cached : cached[p] \subseteq Creature

-----------------------------------------------------------------------------
(* A state s is a record of the variables.                                 *)

Now == [at |-> where, hidden |-> hidden, senses |-> senses, has |-> described, screen |-> screen,
        wrong |-> mistaken, known |-> known, names |-> remembered, cached |-> cached]

Floors(z) == IF z > Surface THEN (z - 2)..Min({LastFloor, z + 2}) ELSE 0..Surface

canSee(s, p) ==
    LET my == s.at[Me]
        offsetz == Z(my) - Z(p)
    IN /\ IF Z(my) <= Surface THEN Z(p) <= Surface ELSE Z(p) \in (Z(my) - 2)..(Z(my) + 2)
       /\ X(p) \in (X(my) - VX + offsetz)..(X(my) + VX + 1 + offsetz)
       /\ Y(p) \in (Y(my) - VY + offsetz)..(Y(my) + VY + 1 + offsetz)

canSeeCreature(s, c) == c = Me \/ s.senses \/ c \notin s.hidden

Seen(s, c) == s.at[c] # Nowhere /\ canSeeCreature(s, c) /\ canSee(s, s.at[c])

\* The client keeps its window and nothing around it.
Become(s) ==
    LET window == {p \in s.has : canSee(s, p)}
        kept(images) == {i \in images : canSee(s, i[2])}
    IN /\ where' = s.at /\ hidden' = s.hidden /\ senses' = s.senses
       /\ described' = window /\ screen' = kept(s.screen) /\ mistaken' = kept(s.wrong)
       /\ known' = s.known /\ remembered' = s.names /\ cached' = s.cached

\* isKnownCreature, and what AddCreature makes the client of its answer: the
\* one to forget is read from the set after it was erased, and may be garbage.
AddCreature(s, c) ==
    LET set == s.known \cup {c}
        unseen == {k \in set : ~Seen(s, k)}
        told == [s EXCEPT !.known = set, !.names = @ \cup {c}]
    IN IF c \in s.known THEN {s}
       ELSE IF Cardinality(set) <= KnownLimit THEN {told}
       ELSE {[told EXCEPT !.known = @ \ {k}, !.names = IF garbage THEN @ ELSE (@ \ {k}) \cup {c}] :
                k \in IF unseen # {} THEN unseen ELSE set \ {c}, garbage \in BOOLEAN}

Draw(s, c) == {[t EXCEPT !.screen = @ \cup {<<c, t.at[c]>>}, !.wrong = @ \ {<<c, t.at[c]>>}] : t \in AddCreature(s, c)}

Erase(s, c, p) == [s EXCEPT !.screen = @ \ {<<c, p>>}, !.wrong = @ \ {<<c, p>>}]

DrawAll(s, C) ==
    LET drawn[D \in SUBSET C] == IF D = {} THEN {s} ELSE UNION {UNION {Draw(t, c) : t \in drawn[D \ {c}]} : c \in D}
    IN drawn[C]

\* GetTileDescription of every position of P: what it draws replaces what was drawn there.
Describe(s, P) ==
    LET fresh == [s EXCEPT !.has = @ \cup P, !.screen = {i \in @ : i[2] \notin P}, !.wrong = {i \in @ : i[2] \notin P}]
    IN DrawAll(fresh, {c \in Creature : s.at[c] \in P /\ canSeeCreature(s, c)})

GetMapDescription(x, y, z, width, height) ==
    {p \in Positions : /\ Z(p) \in Floors(z)
                       /\ X(p) - x - (z - Z(p)) \in 0..width - 1
                       /\ Y(p) - y - (z - Z(p)) \in 0..height - 1}

sendMapDescription(s, p) ==
    Describe([s EXCEPT !.has = {}, !.screen = {}, !.wrong = {}],
             GetMapDescription(X(p) - VX, Y(p) - VY, Z(p), 2 * VX + 2, 2 * VY + 2))

sendAddCreature(s, c) == IF canSee(s, s.at[c]) THEN Draw(s, c) ELSE {s}

sendRemoveTileThing(s, c, p) == IF canSee(s, p) THEN Erase(s, c, p) ELSE s

-----------------------------------------------------------------------------
(* The spectators of a position: computed, or cached if they were asked    *)
(* for since a creature last came, went or moved.                          *)

SpectatorFloors(z) ==
    IF z > Surface THEN (z - 2)..Min({LastFloor, z + 2})
    ELSE IF z = Surface - 1 THEN 0..Surface + 1
    ELSE IF z = Surface THEN 0..Surface + 2
    ELSE 0..Surface

getSpectatorsInternal(s, p) ==
    {c \in Creature :
        /\ s.at[c] # Nowhere /\ Z(s.at[c]) \in SpectatorFloors(Z(p))
        /\ LET offsetZ == Z(p) - Z(s.at[c])
           IN /\ X(s.at[c]) \in (X(p) - Reach + offsetZ)..(X(p) + Reach + offsetZ)
              /\ Y(s.at[c]) \in (Y(p) - Reach + offsetZ)..(Y(p) + Reach + offsetZ)}

getSpectators(s, p) == IF p \in DOMAIN s.cached THEN s.cached[p] ELSE getSpectatorsInternal(s, p)

CacheFor(s, p) == [s EXCEPT !.cached = [q \in DOMAIN @ \cup {p} |-> getSpectators(s, q)]]

clearSpectatorCache(s) == [s EXCEPT !.cached = <<>>]

Told(s, p) == Me \in getSpectators(s, p)

-----------------------------------------------------------------------------
(* Steps.                                                                  *)

Adjacent(p, q) == Z(p) = Z(q) /\ X(p) - X(q) \in -1..1 /\ Y(p) - Y(q) \in -1..1

\* What a step of the player uncovers: a strip to the north or south of where
\* it was, then one to the east or west of where it is.
Strips(from, to) ==
    LET wide == 2 * VX + 2
        high == 2 * VY + 2
    IN  (IF Y(from) > Y(to) THEN GetMapDescription(X(from) - VX, Y(to) - VY, Z(to), wide, 1)
         ELSE IF Y(from) < Y(to) THEN GetMapDescription(X(from) - VX, Y(to) + VY + 1, Z(to), wide, 1)
         ELSE {})
        \cup
        (IF X(from) < X(to) THEN GetMapDescription(X(to) + VX + 1, Y(to) - VY, Z(to), 1, high)
         ELSE IF X(from) > X(to) THEN GetMapDescription(X(to) - VX, Y(to) - VY, Z(to), 1, high)
         ELSE {})

\* sendMoveCreature: the player itself, seen from where it now is.
SendMyMove(s, from, to, teleport) ==
    IF teleport THEN sendMapDescription(sendRemoveTileThing(s, Me, from), to)
    ELSE LET gone == Erase(s, Me, from)
             moved == [gone EXCEPT !.screen = @ \cup {<<Me, to>>}]
         IN Describe(moved, Strips(from, to))

SendMove(s, c, from, to, teleport) ==
    CASE canSee(s, from) /\ canSee(s, to) ->
            IF teleport THEN sendAddCreature(sendRemoveTileThing(s, c, from), c)
            ELSE {[Erase(s, c, from) EXCEPT !.screen = @ \cup {<<c, to>>}]}
      [] canSee(s, from) /\ ~canSee(s, to) -> {sendRemoveTileThing(s, c, from)}
      [] ~canSee(s, from) /\ canSee(s, to) -> sendAddCreature(s, c)
      [] OTHER -> {s}

\* Who is told is looked up before the creature leaves its tile.
moveCreature(s, c, to, forceTeleport) ==
    LET from == s.at[c]
        teleport == forceTeleport \/ ~Adjacent(from, to)
        told == Told(s, from) \/ Told(s, to)
        moved == clearSpectatorCache([s EXCEPT !.at[c] = to])
    IN IF ~told \/ ~canSeeCreature(s, c) THEN {moved}
       ELSE IF c = Me THEN SendMyMove(moved, from, to, teleport)
       ELSE SendMove(moved, c, from, to, teleport)

ViewInit ==
    \E b \in BOOLEAN :
        LET p == CHOOSE q \in Paths : TRUE
            none == [at |-> [c \in Creature |-> IF c = Me THEN p ELSE Nowhere], hidden |-> {}, senses |-> b, has |-> {},
                     screen |-> {}, wrong |-> {}, known |-> {}, names |-> {}, cached |-> <<>>]
            s == CHOOSE t \in sendMapDescription(none, p) : TRUE
        IN /\ where = s.at /\ hidden = {} /\ senses = b /\ described = s.has /\ screen = s.screen
           /\ mistaken = {} /\ known = s.known /\ remembered = s.names /\ cached = <<>>

Walk == \E p \in Paths : /\ p # where[Me] /\ Adjacent(p, where[Me])
                         /\ \E force \in BOOLEAN : \E s \in moveCreature(Now, Me, p, force) : Become(s)

Teleport == \E p \in Paths : /\ ~Adjacent(p, where[Me])
                             /\ \E s \in moveCreature(Now, Me, p, TRUE) : Become(s)

MoveOther == \E c \in Others, p \in Spots :
    /\ where[c] # Nowhere /\ p # where[c]
    /\ \E s \in moveCreature(Now, c, p, FALSE) : Become(s)

placeCreature == \E c \in Others, p \in Spots :
    /\ where[c] = Nowhere
    /\ LET s == CacheFor(clearSpectatorCache([Now EXCEPT !.at[c] = p]), p)
       IN \E t \in IF Told(s, p) THEN sendAddCreature(s, c) ELSE {s} : Become(t)

\* The positions in the stack are kept in a vector that has an entry for every
\* player, and is read by the index of those that see the creature: after a
\* player that does not, the next ones are told of none (the image stays) or
\* of the position another one has it at: some other thing there goes instead.
removeCreature == \E c \in Others :
    /\ where[c] # Nowhere
    /\ LET p == where[c]
           s == CacheFor(Now, p)
           told == Told(s, p) /\ canSeeCreature(s, c)
           gone == clearSpectatorCache([s EXCEPT !.at[c] = Nowhere, !.hidden = @ \ {c}])
           instead == {<<d, p>> : d \in Creature \ {c}} \cap s.screen
           missed == {<<c, p>>}
       IN \/ Become(IF told THEN sendRemoveTileThing(gone, c, p) ELSE gone)
          \/ /\ told /\ c \in hidden
             /\ \E erased \in {{}} \cup {{i} : i \in instead} :
                   Become([gone EXCEPT !.screen = @ \ erased,
                                       !.wrong = ((@ \ missed) \ erased) \cup (missed \cap s.screen) \cup (erased \ @)])

\* internalCreatureChangeVisible for a monster, setGhostMode for a player.
ChangeVisible == \E c \in Others :
    /\ where[c] # Nowhere
    /\ LET s == CacheFor(Now, where[c])
           visible == c \in hidden
           told == Told(s, where[c]) /\ ~senses
           changed == [s EXCEPT !.hidden = IF visible THEN @ \ {c} ELSE @ \cup {c}]
           \* a ghost has changed when the others are told, a monster's condition has not begun yet
           seenAs == IF c \in Monsters /\ ~visible THEN s ELSE changed
       IN IF ~told THEN Become(changed)
          ELSE IF ~visible THEN Become(sendRemoveTileThing(changed, c, where[c]))
          ELSE \E t \in sendAddCreature(seenAs, c) : Become([t EXCEPT !.hidden = changed.hidden])

\* A turn, a light or a sound: the spectators are asked for, what is drawn stays.
AskSpectators == \E p \in Spots :
    /\ p \in DOMAIN cached \/ Cardinality(DOMAIN cached) < MaxCached
    /\ Become(CacheFor(Now, p))

\* sendUpdateTileCreature: described afresh, as if it were not known.
UpdateTileCreature == \E c \in Others :
    /\ where[c] # Nowhere /\ Seen(Now, c)
    /\ \E s \in AddCreature(Now, c) : Become([s EXCEPT !.names = @ \cup {c}])

ViewNext ==
    \/ Walk \/ Teleport \/ MoveOther \/ placeCreature \/ removeCreature
    \/ ChangeVisible \/ AskSpectators \/ UpdateTileCreature

-----------------------------------------------------------------------------

(* Every position that canSee accepts was described to the client, after   *)
(* any walk over floors and corners: nothing is ever shown on a position   *)
(* that it does not have (GetMapDescription against canSee).               *)
WindowComplete == \A p \in Positions : canSee(Now, p) => p \in described

(* The client draws each creature where it is, those alone that the player *)
(* sees: strips, appearances, moves in and out of the window and changes   *)
(* of visibility leave nothing behind and miss nothing, except where one   *)
(* was removed while hidden from another spectator: its image stays, or    *)
(* that of somebody else on the tile is missing, until it is described.    *)
DisplayAgrees ==
    LET right == {i \in Creature \X Positions : where[i[1]] = i[2] /\ Seen(Now, i[1])}
    IN  screen = (right \ mistaken) \cup (mistaken \ right)

(* Whom the server takes for known to the client is known to it, however   *)
(* full the set is (isKnownCreature): no creature is sent by id alone to a *)
(* client that has forgotten its name.                                     *)
KnownAgrees == known \subseteq remembered

(* Cached spectators are the ones that a search would find now, and whoever*)
(* can see a creature is among them (getSpectators against canSee).        *)
SpectatorsRight ==
    /\ \A p \in DOMAIN cached : cached[p] = getSpectatorsInternal(Now, p)
    /\ \A c \in Others : Seen(Now, c) => Told(Now, where[c])

=============================================================================
