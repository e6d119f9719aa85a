----------------------------------- MODULE Paths -----------------------------------
(***************************************************************************)
(* Finding a way and looking along a line (map.cpp, creature.cpp): the     *)
(* search of Map::getPathMatching, one action for each turn of its loop,   *)
(* with the table of nodes that it opens, closes and opens again, and the  *)
(* lines of sight that it and every throw ask for.                         *)
(*                                                                         *)
(* Tiles are open, or walled: a wall stops steps and looks.  Between two   *)
(* searches walls come and go.  Steps of the search stay on one floor; the *)
(* floor above exists where Roof says so.  Costs are those of the code.    *)
(*                                                                         *)
(* The map that a monster carries with it (localMapCache, creature.cpp):   *)
(* for every tile around it, whether it could walk there.  It is written   *)
(* whole when the monster appears or is teleported, shifted when it takes  *)
(* a step, and kept up by the events of the tiles and creatures around.    *)
(* Its searches for a way believe it (Map::canWalkTo).                     *)
(*                                                                         *)
(* A step to the south-east or south-west shifts the wrong rows: the       *)
(* distance in y that picks them is never negative, so that the row that   *)
(* was just written is shifted once more and the first row not at all.     *)
(* What such a cell then says is left open ("stale").                      *)
(***************************************************************************)
EXTENDS Integers, Sequences, FiniteSets, SequencesExt, FiniteSetsExt

CONSTANTS Ground,      \* the tiles of the floor searched: <<x, y>>
          Roof,        \* those that have a tile above
          Crowded,     \* those with a creature to destroy on them
          Doors,       \* bound: where walls come and go
          Searches,    \* bound: what is asked for: [from, to, fpp]
          MaxNodes,    \* MAX_NODES
          MaxClosed,   \* 100
          Tiles,       \* the tiles there are: <<x, y>>
          CacheDoors,  \* bound: the tiles whose items come, go and change
          Places,      \* bound: where the other creature can be
          W, H         \* maxWalkCacheWidth, maxWalkCacheHeight

VARIABLES walls,   \* tiles with something that blocks steps and projectiles
          search,  \* the search that is going on, or was last made
          spot,    \* where the monster is
          shut,    \* the tiles with an item that blocks
          other,   \* where another creature is: {} if out of the floor
          ghost,   \* whether that one is a ghost
          loaded,  \* isMapLoaded
          cache    \* localMapCache: of each offset "free", "shut" or "stale"

pathVars == <<walls, search>>

NormalCost == 10
DiagonalCost == 25
CreatureCost == NormalCost * 3

PathsTypeOK ==
    /\ walls \subseteq Doors
    /\ search.asked \in Searches /\ search.state \in {"on", "found", "failed"}
    /\ search.closed \in Int /\ DOMAIN search.f \subseteq Ground /\ search.open \subseteq DOMAIN search.f

X(p) == p[1]
Y(p) == p[2]
Abs(n) == IF n < 0 THEN -n ELSE n
Far(p, q) == Max({Abs(X(p) - X(q)), Abs(Y(p) - Y(q))})

-----------------------------------------------------------------------------
(* Sight.  Level 1 is the floor of the search, level 0 the one above it.   *)

isTileClear(p, level, blockFloor) ==
    CASE level = 1 -> (p \in Ground => ~blockFloor) /\ p \notin walls
      [] level = 0 -> p \in Roof => ~blockFloor

\* The tiles strictly between two points: along the longer axis, the other
\* coordinate is floor(y0 + k * slope + 0.1).
Between(p, q) ==
    LET steep == Abs(Y(q) - Y(p)) > Abs(X(q) - X(p))
        u == IF steep THEN <<Y(p), X(p)>> ELSE p
        v == IF steep THEN <<Y(q), X(q)>> ELSE q
        a == IF u[1] < v[1] THEN u ELSE v
        b == IF u[1] < v[1] THEN v ELSE u
        d == b[1] - a[1]
        across(k) == (10 * (a[2] * d + k * (b[2] - a[2])) + d) \div (10 * d)
    IN {IF steep THEN <<across(k), a[1] + k>> ELSE <<a[1] + k, across(k)>> : k \in 1..d - 1}

checkSightLine(p, q, level) == p = q \/ \A t \in Between(p, q) : isTileClear(t, level, FALSE)

isSightClear(p, i, q, j, sameFloor) ==
    CASE i = j -> \/ Far(p, q) < 2
                  \/ checkSightLine(p, q, i)
                  \/ /\ ~sameFloor
                     /\ \/ i = 0
                        \/ /\ isTileClear(p, i - 1, TRUE) /\ isTileClear(q, i - 1, TRUE)
                           /\ checkSightLine(p, q, i - 1)
      [] i > j -> ~sameFloor /\ isTileClear(p, i - 1, TRUE) /\ checkSightLine(p, q, i - 1)
      [] i < j -> ~sameFloor /\ isTileClear(q, i, TRUE) /\ checkSightLine(p, q, i)

canThrowObjectTo(p, i, q, j, range) == Far(p, q) <= range /\ isSightClear(p, i, q, j, FALSE)

-----------------------------------------------------------------------------
(* What a search accepts.  An answer that is not the distance wanted is    *)
(* kept as the best so far and the search goes on.                         *)

isInRange(s, p) ==
    LET fpp == s.asked.fpp
        m == fpp.maxTargetDist
        from == s.asked.from
        to == s.asked.to
        below(i) == IF fpp.fullPathSearch \/ from[i] <= to[i] THEN m ELSE 0
        above(i) == IF fpp.fullPathSearch \/ from[i] >= to[i] THEN m ELSE 0
    IN \A i \in 1..2 : p[i] \in (to[i] - below(i))..(to[i] + above(i))

\* The best match that accepting p leaves, or -1 if p is not accepted.
pathCondition(s, p, best) ==
    LET fpp == s.asked.fpp
        dist == Far(s.asked.to, p)
    IN IF \/ ~isInRange(s, p)
          \/ fpp.clearSight /\ ~isSightClear(p, 1, s.asked.to, 1, TRUE)
          \/ dist \notin fpp.minTargetDist..fpp.maxTargetDist
       THEN -1
       ELSE IF fpp.maxTargetDist = 1 THEN best
       ELSE IF dist = fpp.maxTargetDist THEN 0
       ELSE IF dist > best THEN dist ELSE -1

canWalkTo(p) == p \in Ground \ walls

-----------------------------------------------------------------------------
(* The nodes: the cost f and the parent of each, in the order created.     *)

Start(a) == [asked |-> a, state |-> "on", order |-> <<a.from>>, f |-> (a.from :> 0), parent |-> (a.from :> a.from),
             open |-> {a.from}, closed |-> 0, best |-> 0, end |-> <<>>, dirs |-> <<>>, cut |-> FALSE]

BestNode(s) ==
    LET open == SelectSeq(s.order, LAMBDA p : p \in s.open)
        cheapest == {p \in s.open : \A q \in s.open : s.f[p] <= s.f[q]}
    IN CHOOSE p \in cheapest : \A i \in DOMAIN open : open[i] = p => \A j \in 1..i - 1 : open[j] \notin cheapest

\* dirNeighbors: none of the directions that lead back to the parent's side.
North == <<<<-1, 0>>, <<0, 1>>, <<1, 0>>, <<1, 1>>, <<-1, 1>>>>
East  == <<<<-1, 0>>, <<0, 1>>, <<0, -1>>, <<-1, -1>>, <<-1, 1>>>>
South == <<<<-1, 0>>, <<1, 0>>, <<0, -1>>, <<-1, -1>>, <<1, -1>>>>
West  == <<<<0, 1>>, <<1, 0>>, <<0, -1>>, <<1, -1>>, <<1, 1>>>>
SouthWest == <<<<1, 0>>, <<0, -1>>, <<-1, -1>>, <<1, -1>>, <<1, 1>>>>
SouthEast == <<<<-1, 0>>, <<0, -1>>, <<-1, -1>>, <<1, -1>>, <<-1, 1>>>>
NorthWest == <<<<0, 1>>, <<1, 0>>, <<1, -1>>, <<1, 1>>, <<-1, 1>>>>
NorthEast == <<<<-1, 0>>, <<0, 1>>, <<-1, -1>>, <<1, 1>>, <<-1, 1>>>>
AllNeighbors == <<<<-1, 0>>, <<0, 1>>, <<1, 0>>, <<0, -1>>, <<-1, -1>>, <<1, -1>>, <<1, 1>>, <<-1, 1>>>>

Neighbors(s, n) ==
    LET ox == X(s.parent[n]) - X(n)
        oy == Y(s.parent[n]) - Y(n)
        diagonal == s.asked.fpp.allowDiagonal
        list == CASE oy = 0 -> IF ox = -1 THEN West ELSE East
                  [] oy # 0 /\ (~diagonal \/ ox = 0) -> IF oy = -1 THEN North ELSE South
                  [] OTHER -> CASE oy = -1 /\ ox = -1 -> NorthWest
                                [] oy = -1 /\ ox = 1 -> NorthEast
                                [] oy = 1 /\ ox = -1 -> SouthWest
                                [] oy = 1 /\ ox = 1 -> SouthEast
    IN IF s.parent[n] = n THEN AllNeighbors ELSE SubSeq(list, 1, IF diagonal THEN 5 ELSE 3)

MapWalkCost(n, p) == IF Abs(X(n) - X(p)) = Abs(Y(n) - Y(p)) THEN DiagonalCost ELSE NormalCost

TileWalkCost(p) == IF p \in Crowded THEN CreatureCost ELSE 0

Allowed(s, p) ==
    LET fpp == s.asked.fpp
    IN /\ fpp.maxSearchDist # 0 => Far(s.asked.from, p) <= fpp.maxSearchDist
       /\ fpp.keepDistance => isInRange(s, p)

\* Seeded fault: A node found again takes the new parent, cheaper or not.
Visit_Dearer(s, n, p) ==
    LET newf == s.f[n] + MapWalkCost(n, p) + TileWalkCost(p)
        exists == p \in DOMAIN s.f
    IN IF s.state # "on" \/ s.cut \/ ~Allowed(s, p) \/ (~exists /\ ~canWalkTo(p)) THEN s
       ELSE IF exists
       THEN [s EXCEPT !.f[p] = newf, !.parent[p] = n, !.open = @ \cup {p},
                           !.closed = IF p \in s.open THEN @ ELSE @ - 1]
       ELSE IF Len(s.order) >= MaxNodes
       THEN IF s.end # <<>> THEN [s EXCEPT !.cut = TRUE] ELSE [s EXCEPT !.state = "failed"]
       ELSE [s EXCEPT !.f = (p :> newf) @@ @, !.parent = (p :> n) @@ @, !.order = Append(@, p), !.open = @ \cup {p}]

\* One neighbour: a new node, or a cheaper way to one that there is, which is
\* opened again.  With no node left the search fails unless it has found something.
Visit(s, n, p) ==
    LET newf == s.f[n] + MapWalkCost(n, p) + TileWalkCost(p)
        exists == p \in DOMAIN s.f
    IN IF s.state # "on" \/ s.cut \/ ~Allowed(s, p) \/ (~exists /\ ~canWalkTo(p)) THEN s
       ELSE IF exists
       THEN IF s.f[p] <= newf THEN s
            ELSE [s EXCEPT !.f[p] = newf, !.parent[p] = n, !.open = @ \cup {p},
                           !.closed = IF p \in s.open THEN @ ELSE @ - 1]
       ELSE IF Len(s.order) >= MaxNodes
       THEN IF s.end # <<>> THEN [s EXCEPT !.cut = TRUE] ELSE [s EXCEPT !.state = "failed"]
       ELSE [s EXCEPT !.f = (p :> newf) @@ @, !.parent = (p :> n) @@ @, !.order = Append(@, p), !.open = @ \cup {p}]

\* The states after all of them: there is one.
VisitAll(s, n) ==
    LET list == Neighbors(s, n)
    IN FoldLeft(LAMBDA T, d : {Visit(t, n, <<X(n) + X(d), Y(n) + Y(d)>>) : t \in T}, {s}, list)

\* The directions, from the end back to the start: the last is walked first.
Directions(s) ==
    LET way[k \in 0..Len(s.order)] == IF k = 0 THEN s.end ELSE s.parent[way[k - 1]]
        steps == CHOOSE k \in 0..Len(s.order) : way[k] = s.asked.from /\ \A j \in 0..k - 1 : way[j] # s.asked.from
    IN [k \in 1..steps |-> <<X(way[k - 1]) - X(way[k]), Y(way[k - 1]) - Y(way[k])>>]

Done(s) == IF s.end = <<>> THEN [s EXCEPT !.state = "failed"]
           ELSE [s EXCEPT !.state = "found", !.dirs = Directions(s)]

-----------------------------------------------------------------------------
(* Steps.                                                                  *)

PathsInit == walls = {} /\ search \in {[Start(a) EXCEPT !.state = "failed", !.cut = TRUE] : a \in Searches}

Wall == \E d \in Doors :
    /\ search.state # "on" /\ search.order = <<search.asked.from>>
    /\ walls' = IF d \in walls THEN walls \ {d} ELSE walls \cup {d}
    /\ UNCHANGED search

getPathTo == \E a \in Searches :
    /\ search.state # "on" /\ a.from \notin walls
    /\ search' = Start(a)
    /\ UNCHANGED walls

LoopEnds(s) == s.asked.fpp.maxSearchDist = 0 /\ s.closed >= MaxClosed

getPathMatching ==
    /\ search.state = "on" /\ UNCHANGED walls
    /\ IF LoopEnds(search) \/ search.open = {} THEN search' = Done(search)
       ELSE LET n == BestNode(search)
                match == pathCondition(search, n, search.best)
                s == IF match = -1 THEN search ELSE [search EXCEPT !.end = n, !.best = match]
            IN IF match = 0 THEN search' = Done(s)
               ELSE \E t \in VisitAll(s, n) :
                       search' = IF t.state # "on" THEN t
                                 ELSE [t EXCEPT !.open = @ \ {n}, !.closed = @ + 1, !.cut = FALSE]

\* The creature takes its steps, or gives them up: the next thing is another search.
Walked ==
    /\ search.state # "on" /\ search.order # <<search.asked.from>>
    /\ search' = [Start(search.asked) EXCEPT !.state = "failed", !.cut = TRUE]
    /\ UNCHANGED walls

PathsNext == Wall \/ getPathTo \/ getPathMatching \/ Walked

-----------------------------------------------------------------------------

Accepted(p) == pathCondition(search, p, 0) # -1

(* The directions found lead over tiles that can be walked on, none out of *)
(* reach, to one that the search accepts (Map::getPathMatching).           *)
PathWalks ==
    search.state = "found" =>
        LET at[k \in 0..Len(search.dirs)] ==
                IF k = 0 THEN search.asked.from
                ELSE LET d == search.dirs[Len(search.dirs) + 1 - k] IN <<X(at[k - 1]) + X(d), Y(at[k - 1]) + Y(d)>>
        IN /\ \A k \in 1..Len(search.dirs) : canWalkTo(at[k]) /\ Allowed(search, at[k])
           /\ Accepted(at[Len(search.dirs)])

(* Opening a node again never makes a circle of parents: each parent is    *)
(* cheaper than its child, or getPathMatching would walk back forever.     *)
ParentsCheaper == \A p \in DOMAIN search.f : p # search.asked.from => search.f[search.parent[p]] < search.f[p]

(* Whatever was closed is settled: none of its neighbours, those left out  *)
(* included, could be had cheaper through it, so the way found is the      *)
(* cheapest (AStarNodes::openNode, Map::getPathMatching).                  *)
Settled ==
    \A p \in DOMAIN search.f \ search.open, q \in DOMAIN search.f :
        (/\ Far(p, q) = 1 /\ Allowed(search, q) /\ search.asked.fpp.allowDiagonal
         /\ ~(search.state = "failed" /\ Len(search.order) >= MaxNodes) /\ p # search.end)
            => search.f[q] <= search.f[p] + MapWalkCost(p, q) + TileWalkCost(q)

(* A search that failed for no lack of nodes missed no way: the directions *)
(* it leaves out at each node are never the only ones.                     *)
NoWayMissed ==
    (/\ search.state = "failed" /\ search.order # <<search.asked.from>>
     /\ Len(search.order) < MaxNodes /\ ~LoopEnds(search) /\ search.asked.fpp.allowDiagonal)
        => /\ \A p \in DOMAIN search.f : ~Accepted(p)
           /\ \A p \in Ground \ walls :
                (Allowed(search, p) /\ \E q \in DOMAIN search.f : Far(p, q) = 1) => p \in DOMAIN search.f

(* On one floor and between neighbouring ones, who can throw at whom can   *)
(* be thrown at by him, however the walls stand (isSightClear).            *)
SightMutual ==
    search.state # "on" =>
    \A p \in Ground, q \in Ground, i \in 0..1, j \in 0..1 :
        isSightClear(p, i, q, j, FALSE) <=> isSightClear(q, j, p, i, FALSE)

-----------------------------------------------------------------------------
(* The map a monster carries                                               *)

mapCacheVars == <<spot, shut, other, ghost, loaded, cache>>

Offsets == (-W..W) \X (-H..H)

MapCacheTypeOK ==
    /\ spot \in Tiles /\ shut \subseteq CacheDoors /\ other \in SUBSET Places /\ Cardinality(other) <= 1
    /\ ghost \in BOOLEAN /\ loaded \in BOOLEAN /\ cache \in [Offsets -> {"free", "shut", "stale"}]

At(p, o) == <<p[1] + o[1], p[2] + o[2]>>
From(p, q) == <<q[1] - p[1], q[2] - p[2]>>

\* queryAdd of the tile q, with FLAG_PATHFINDING; the monster at p is in its own way.
queryAdd(p, q, blocked, who) ==
    IF q \in Tiles \ blocked /\ q # p /\ (q \in who => ghost) THEN "free" ELSE "shut"

updateMapCache(p) == [o \in Offsets |-> queryAdd(p, At(p, o), shut, other)]

\* updateTileCache(tile, pos): nothing for one out of the cache.
updateTileCache(c, p, q, blocked, who) ==
    LET o == From(p, q) IN IF o \in Offsets THEN [c EXCEPT ![o] = queryAdd(p, q, blocked, who)] ELSE c

-----------------------------------------------------------------------------
(* A step of the monster: rows, then columns, then the tile it came from.  *)

ShiftRows(c, d, p) ==
    [o \in Offsets |-> IF o[2] = (IF d = -1 THEN -H ELSE H) THEN queryAdd(p, At(p, o), shut, other)
                       ELSE c[<<o[1], o[2] + d>>]]

\* Only the rows from dy on are shifted, where dy is the length of the step in
\* y: right after a step to the north, which has written row 0.
ShiftColumns(c, d, dy, south, p) ==
    [o \in Offsets |-> IF o[1] = (IF d = -1 THEN -W ELSE W) THEN queryAdd(p, At(p, o), shut, other)
                       ELSE IF south /\ o[2] \in {-H, H} THEN "stale"
                       ELSE IF o[2] < dy - H THEN c[o]
                       ELSE c[<<o[1] + d, o[2]>>]]

\* Seeded fault: The tile it came from is not looked at again.
Shifted_OldTile(p, q) ==
    LET dx == q[1] - p[1]
        dy == q[2] - p[2]
        rows == IF dy = 0 THEN cache ELSE ShiftRows(cache, dy, q)
        columns == IF dx = 0 THEN rows ELSE ShiftColumns(rows, dx, Abs(dy), dy = 1, q)
    IN columns

Shifted(p, q) ==
    LET dx == q[1] - p[1]
        dy == q[2] - p[2]
        rows == IF dy = 0 THEN cache ELSE ShiftRows(cache, dy, q)
        columns == IF dx = 0 THEN rows ELSE ShiftColumns(rows, dx, Abs(dy), dy = 1, q)
    IN updateTileCache(columns, q, p, shut, other)

NextTo(p, q) == p # q /\ Abs(p[1] - q[1]) <= 1 /\ Abs(p[2] - q[2]) <= 1

MapCacheInit ==
    /\ spot = CHOOSE p \in Tiles \ Places : TRUE
    /\ shut = {} /\ other = {} /\ ghost = FALSE /\ loaded = FALSE
    /\ cache = [o \in Offsets |-> "shut"]

\* onCreatureAppear of itself, or onThink of one that stopped stepping at random.
Load ==
    /\ ~loaded /\ loaded' = TRUE /\ cache' = updateMapCache(spot)
    /\ UNCHANGED <<spot, shut, other, ghost>>

Free(p) == queryAdd(spot, p, shut, other) = "free"

onCreatureMove == \E q \in Tiles, teleport \in BOOLEAN :
    /\ q # spot /\ Free(q) /\ (teleport \/ NextTo(spot, q))
    /\ spot' = q
    /\ cache' = IF ~loaded THEN cache ELSE IF teleport THEN updateMapCache(q) ELSE Shifted(spot, q)
    /\ UNCHANGED <<shut, other, ghost, loaded>>

Change(tile, blocked, who) ==
    IF loaded THEN updateTileCache(cache, spot, tile, blocked, who) ELSE cache

\* onAddTileItem, onRemoveTileItem, and onUpdateTileItem for a door that opens or closes.
TileItem == \E d \in CacheDoors :
    /\ d # spot
    /\ shut' = IF d \in shut THEN shut \ {d} ELSE shut \cup {d}
    /\ cache' = Change(d, shut', other)
    /\ UNCHANGED <<spot, other, ghost, loaded>>

\* Another creature comes, goes or moves: both tiles are looked at again.
OtherMoves == \E to \in {{}} \cup {{p} : p \in Places} :
    /\ to # other /\ spot \notin to /\ to \cap shut = {}
    /\ other' = to
    /\ cache' = IF ~loaded THEN cache
                ELSE LET updated(c, T) == IF T = {} THEN c
                                          ELSE updateTileCache(c, spot, CHOOSE p \in T : TRUE, shut, to)
                     IN updated(updated(cache, to), other)
    /\ UNCHANGED <<spot, shut, ghost, loaded>>

\* Nobody tells the monsters: a tile they take for shut is not, or the other way.
setGhostMode ==
    /\ other # {} /\ ghost' = ~ghost
    /\ cache' = [o \in Offsets |-> IF At(spot, o) \in other /\ loaded THEN "stale" ELSE cache[o]]
    /\ UNCHANGED <<spot, shut, other, loaded>>

MapCacheNext == Load \/ onCreatureMove \/ TileItem \/ OtherMoves \/ setGhostMode

-----------------------------------------------------------------------------

(* After any walk, whatever came, went, opened and closed around it, the   *)
(* map that a monster carries says of each tile what the tile would say,   *)
(* except for the cells that a step to the south-east or south-west, or a  *)
(* ghost, left stale (localMapCache, Creature::onCreatureMove).            *)
CacheRight ==
    loaded => \A o \in Offsets \ {<<0, 0>>} : cache[o] \in {"stale", queryAdd(spot, At(spot, o), shut, other)}
=============================================================================
