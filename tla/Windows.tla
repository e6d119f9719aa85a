------------------------------- MODULE Windows -------------------------------
(***************************************************************************)
(* The container windows of one player (Player::openContainers) and those  *)
(* that the client shows, while containers are moved, nested, changed and  *)
(* removed by anybody and the player walks.  The server tells the client   *)
(* of a change in three ways: the container whose content changes tells    *)
(* the players next to it (Container::on...ContainerItem), and the old and *)
(* the new place of what was moved notify its owner or the players around  *)
(* (postRemoveNotification, postAddNotification).                          *)
(*                                                                         *)
(* The client's side is external: it keeps, by number, what the last       *)
(* message about a window says.  A lost client (reconnect) forgets all.    *)
(* Depot chests are left out: those of a player are in his reach as long   *)
(* as the locker is, and are like a bag of his.                            *)
(***************************************************************************)
EXTENDS Integers, SequencesExt

CONSTANTS Bags,      \* the containers
          Coins,     \* other items
          Changing,  \* bound: the items that are transformed
          Grounds,   \* bound: the tiles that are used, of "west" and "east"
          Cids,      \* bound: the numbers of windows a client uses
          MaxInside  \* bound: the items in a container

VARIABLES at,        \* where the player stands: 1, 2 or 3, in reach of the tiles next to it
          in,        \* the parent of each item: a container, a tile, a player or nothing
          inside,    \* itemlist of each container
          face,      \* what each item looks like (its id and count)
          opened,    \* openContainers: from window to container
          screen     \* the client's windows

windowVars == <<at, in, inside, face, opened, screen>>

Items == Bags \cup Coins
Holders == Grounds \cup {"me", "other"}  \* the other player stands in my reach

WindowsTypeOK ==
    /\ at \in 1..3
    /\ in \in [Items -> Holders \cup Bags \cup {"nowhere"}]
    /\ inside \in [Bags -> Seq(Items)]
    /\ \A b \in Bags : /\ ToSet(inside[b]) = {x \in Items : in[x] = b}
                       /\ IsInjective(inside[b]) /\ Len(inside[b]) <= MaxInside
    /\ face \in [Items -> 0..1] /\ \A x \in Items \ Changing : face[x] = 0
    /\ DOMAIN opened \subseteq Cids /\ \A c \in DOMAIN opened : opened[c] \in Bags
    /\ DOMAIN screen \subseteq Cids

-----------------------------------------------------------------------------
(* Where a container is.  w is a state of the windows and the items:       *)
(* [in, inside, face, opened, screen].                                     *)

Now == [in |-> in, inside |-> inside, face |-> face, opened |-> opened, screen |-> screen]

\* x and the containers around it, inwards out.
Around(w, x) ==
    LET up[n \in 0..Cardinality(Bags)] ==
        IF n = 0 THEN {x} ELSE up[n - 1] \cup ({w.in[y] : y \in up[n - 1]} \cap Bags)
    IN up[Cardinality(Bags)]

\* The place of the outermost one; getTopParent is that player, or that container.
PlaceOf(w, x) == CHOOSE h \in {w.in[y] : y \in Around(w, x)} : h \notin Bags

ReachFrom(p, w, x) ==
    CASE PlaceOf(w, x) = "west" -> p <= 2
      [] PlaceOf(w, x) = "east" -> p >= 2
      [] PlaceOf(w, x) = "nowhere" -> FALSE
      [] OTHER -> TRUE
InReach(w, x) == ReachFrom(at, w, x)

-----------------------------------------------------------------------------
(* What is sent.                                                           *)

Faces(w, b) == [i \in DOMAIN w.inside[b] |-> <<w.inside[b][i], w.face[w.inside[b][i]]>>]
Shown(w, b) == [of |-> b, up |-> w.in[b] \in Bags, list |-> Faces(w, b)]
Cut(f, c) == [d \in DOMAIN f \ {c} |-> f[d]]
Set(f, c, v) == [d \in DOMAIN f \cup {c} |-> IF d = c THEN v ELSE f[d]]
WindowsOf(w, b) == {c \in DOMAIN w.opened : w.opened[c] = b}

\* Player::onSendContainer: in every window of it.
onSendContainer(w, b) ==
    [w EXCEPT !.screen = [c \in DOMAIN @ \cup WindowsOf(w, b) |->
                            IF c \in WindowsOf(w, b) THEN Shown(w, b) ELSE @[c]]]

\* The client's list of a window, after an item was added in front, taken away or changed.
Changed(l, change, i, entry) ==
    CASE change = "add" -> <<entry>> \o l
      [] change = "remove" /\ i \in DOMAIN l -> RemoveAt(l, i)
      [] change = "update" /\ i \in DOMAIN l -> [l EXCEPT ![i] = entry]
      [] OTHER -> l

\* The players next to the container are told; the client changes the windows it has of it.
TellPlayers(w, b, change, i, x) ==
    IF ~InReach(w, b) THEN w
    ELSE [w EXCEPT !.screen = [c \in DOMAIN @ |->
                                 IF c \in WindowsOf(w, b)
                                   THEN [@[c] EXCEPT !.list = Changed(@, change, i, <<x, w.face[x]>>)] ELSE @[c]]]

sendAddContainerItem(w, b, x) == TellPlayers(w, b, "add", 1, x)
sendRemoveContainerItem(w, b, i, x) == TellPlayers(w, b, "remove", i, x)
sendUpdateContainerItem(w, b, i, x) == TellPlayers(w, b, "update", i, x)

\* Player::autoCloseContainers: those of b, of what is in it, and of what is removed.
autoCloseContainers(w, b) ==
    LET closing == {c \in DOMAIN w.opened : \/ b \in Around(w, w.opened[c])
                                            \/ PlaceOf(w, w.opened[c]) = "nowhere"}
    IN [w EXCEPT !.opened = [c \in DOMAIN @ \ closing |-> @[c]],
                 !.screen = [c \in DOMAIN @ \ closing |-> @[c]]]

-----------------------------------------------------------------------------
(* The notifications of the old and of the new place.                      *)

\* The holder and the players around a tile are notified of what is at their place.
Notified(w, h) ==
    LET place == IF h \in Bags THEN PlaceOf(w, h) ELSE h IN place \in {"me"} \cup Grounds

postAddNotification(w, x, h) == IF x \in Bags /\ Notified(w, h) THEN onSendContainer(w, x) ELSE w

\* h is where x was taken from; where it is now decides.
postRemoveNotification(w, x, h) ==
    IF x \notin Bags \/ ~Notified(w, h) THEN w
    ELSE IF ~InReach(w, x) \/ PlaceOf(w, x) = "other" THEN autoCloseContainers(w, x)
    ELSE onSendContainer(w, x)

\* Container::removeThing, addThing (in front), and those of tiles and players.
removeThing(w, x) ==
    LET b == w.in[x] IN
    IF b \notin Bags THEN [w EXCEPT !.in[x] = "nowhere"]
    ELSE LET i == CHOOSE j \in DOMAIN w.inside[b] : w.inside[b][j] = x
         IN [sendRemoveContainerItem(w, b, i, x) EXCEPT !.in[x] = "nowhere", !.inside[b] = RemoveAt(@, i)]

addThing(w, x, h) ==
    IF h \notin Bags THEN [w EXCEPT !.in[x] = h]
    ELSE sendAddContainerItem([w EXCEPT !.in[x] = h, !.inside[h] = <<x>> \o @], h, x)

replaceThing(w, b, x, y) ==
    LET i == CHOOSE j \in DOMAIN w.inside[b] : w.inside[b][j] = x
    IN [sendUpdateContainerItem([w EXCEPT !.in[y] = b, !.inside[b][i] = y], b, i, y) EXCEPT !.in[x] = "nowhere"]

updateThing(w, x, f) ==
    LET b == w.in[x]
        v == [w EXCEPT !.face[x] = f]
    IN IF b \in Bags THEN sendUpdateContainerItem(v, b, CHOOSE j \in DOMAIN v.inside[b] : v.inside[b][j] = x, x) ELSE v

-----------------------------------------------------------------------------
(* The steps.                                                              *)

Become(w) ==
    /\ in' = w.in /\ inside' = w.inside /\ face' = w.face
    /\ opened' = w.opened /\ screen' = w.screen

Exists(x) == PlaceOf(Now, x) # "nowhere"
Room(h) == IF h \in Bags THEN Exists(h) /\ Len(inside[h]) < MaxInside ELSE TRUE
Within(x, h) == IF h \in Bags THEN x \in Around(Now, h) ELSE FALSE

\* Seeded fault: The thing is not taken from where it was.
MoveItem_Copies(x, h) ==
    /\ Exists(x) /\ h # in[x] /\ Room(h)
    /\ ~Within(x, h)
    /\ Become(LET from == in[x]
                  moved == addThing(Now, x, h)
              IN postAddNotification(postRemoveNotification(moved, x, from), x, h))
    /\ UNCHANGED at

\* Game::internalMoveItem of whole items, by this player, another or a script.
MoveItem(x, h) ==
    /\ Exists(x) /\ h # in[x] /\ Room(h)
    /\ ~Within(x, h)
    /\ Become(LET from == in[x]
                  moved == addThing(removeThing(Now, x), x, h)
              IN postAddNotification(postRemoveNotification(moved, x, from), x, h))
    /\ UNCHANGED at

\* internalAddItem of a new item; what was deleted stands for it.
AddItem(x, h) ==
    /\ in[x] = "nowhere" /\ Room(h)
    /\ ~Within(x, h)
    /\ Become(postAddNotification(addThing(Now, x, h), x, h))
    /\ UNCHANGED at

\* internalRemoveItem; a container goes with what is in it, which is deleted too.
RemoveItem(x) ==
    /\ Exists(x)
    /\ Become(LET w == postRemoveNotification(removeThing(Now, x), x, in[x])
                  gone == {y \in Items : x \in Around(w, y)}
              IN [w EXCEPT !.in = [y \in Items |-> IF y \in gone THEN "nowhere" ELSE @[y]],
                           !.inside = [b \in Bags |-> IF b \in gone THEN <<>> ELSE @[b]]])
    /\ UNCHANGED at

\* Game::transformItem to another id or count of the same kind: notified before and after.
UpdateItem(x) ==
    /\ Exists(x)
    /\ Become(postAddNotification(updateThing(postRemoveNotification(Now, x, in[x]), x, 1 - face[x]), x, in[x]))
    /\ UNCHANGED at

\* transformItem to another kind: a new item takes the place, the container and what was in
\* it are gone.
ReplaceItem(x, y) ==
    /\ Exists(x) /\ in[x] \in Bags /\ in[y] = "nowhere" /\ y \in Coins
    /\ Become(LET b == in[x]
                  w == postRemoveNotification(replaceThing(Now, b, x, y), x, b)
                  gone == {z \in Items : x \in Around(w, z)}
              IN [w EXCEPT !.in = [z \in Items |-> IF z \in gone THEN "nowhere" ELSE @[z]],
                           !.inside = [c \in Bags |-> IF c \in gone THEN <<>> ELSE @[c]]])
    /\ UNCHANGED at

\* Actions::internalUseItem of a container: opens it, or closes one that is open.  Only the
\* first window is closed for the server, the client is told to close all of them.
useContainer(b, cid) ==
    /\ Exists(b) /\ InReach(Now, b) /\ PlaceOf(Now, b) # "other"
    /\ LET mine == WindowsOf(Now, b) IN
       Become(IF mine = {} THEN onSendContainer([Now EXCEPT !.opened = Set(@, cid, b)], b)
              ELSE [Now EXCEPT !.opened = Cut(@, CHOOSE c \in mine : \A d \in mine : c <= d),
                               !.screen = [c \in DOMAIN @ \ mine |-> @[c]]])
    /\ UNCHANGED at

playerCloseContainer(cid) ==
    /\ Become([Now EXCEPT !.opened = Cut(@, cid), !.screen = Cut(@, cid)])
    /\ UNCHANGED at

\* The window then is one of the container around.
playerMoveUpContainer(cid) ==
    /\ cid \in DOMAIN opened /\ in[opened[cid]] \in Bags
    /\ LET b == in[opened[cid]] IN
       Become([Now EXCEPT !.opened = Set(@, cid, b), !.screen = Set(@, cid, Shown(Now, b))])
    /\ UNCHANGED at

playerUpdateContainer(cid) ==
    /\ cid \in DOMAIN opened
    /\ Become([Now EXCEPT !.screen = Set(@, cid, Shown(Now, opened[cid]))])
    /\ UNCHANGED at

\* Player::postAddNotification of the player himself on a new tile.
RECURSIVE CloseFar(_, _)
CloseFar(w, far) ==
    IF far = {} THEN w
    ELSE LET b == CHOOSE x \in far : TRUE IN CloseFar(autoCloseContainers(w, b), far \ {b})

\* The player himself walks, and what he left out of reach is closed.
Walk(to) ==
    /\ to # at /\ at' = to
    /\ Become(CloseFar(Now, {b \in Bags : b \in {opened[c] : c \in DOMAIN opened} /\ ~ReachFrom(to, Now, b)}))

\* The client was replaced (ProtocolGame::connect); the server keeps its windows.
Reconnect ==
    /\ screen # <<>>
    /\ Become([Now EXCEPT !.screen = <<>>])
    /\ UNCHANGED at

WindowsInit ==
    /\ at = 2
    /\ in = [x \in Items |-> "me"] /\ inside = [b \in Bags |-> <<>>]
    /\ face = [x \in Items |-> 0]
    /\ opened = <<>> /\ screen = <<>>

WindowsNext ==
    \/ \E x \in Items, h \in Holders \cup Bags : MoveItem(x, h) \/ AddItem(x, h)
    \/ \E x \in Items : RemoveItem(x)
    \/ \E x \in Changing : UpdateItem(x)
    \/ \E x \in Items, y \in Coins : ReplaceItem(x, y)
    \/ \E b \in Bags, cid \in Cids : useContainer(b, cid)
    \/ \E cid \in Cids : \/ playerCloseContainer(cid)
                         \/ playerMoveUpContainer(cid)
                         \/ playerUpdateContainer(cid)
    \/ \E to \in 1..3 : Walk(to)
    \/ Reconnect

-----------------------------------------------------------------------------
(* Properties.                                                             *)

\* Player::openContainers and the client: a window that the client shows is one the server
\* knows, of the same container, with the items it holds, in their order, and with an arrow
\* up just when it is in another.
WindowsTrue ==
    \A c \in DOMAIN screen : c \in DOMAIN opened /\ screen[c] = Shown(Now, opened[c])

\* autoCloseContainers: nobody looks into a container that is gone, out of reach or held by
\* another; the pointers in openContainers are of items that exist.
WindowsReach ==
    \A c \in DOMAIN opened : InReach(Now, opened[c]) /\ PlaceOf(Now, opened[c]) # "other"
=============================================================================
