-------------------------------- MODULE Trade --------------------------------
(***************************************************************************)
(* Trading between players (game.cpp, player.cpp).  Each of two players    *)
(* offers an item that it carries or that lies beside it; when both have   *)
(* accepted, the items are exchanged.  Items lie in containers, and can be *)
(* moved by anybody near while they are offered: the notifications of a    *)
(* move close the trades it disturbs.                                      *)
(*                                                                         *)
(* All of it runs on the game thread, so TRADE_TRANSFER, the state inside  *)
(* the exchange, is never seen between two tasks.  Positions are left out: *)
(* a player that walks too far from its partner or its item is one of the  *)
(* reasons for CloseTrade.                                                 *)
(***************************************************************************)
EXTENDS Naturals, FiniteSets

CONSTANTS Players, Items, Containers, Stackable, Ground, None

VARIABLES online,
          parent,       \* the cylinder each item is in; None when the item is lost
          tradeState, tradePartner, tradeItem,
          tradeItems    \* the keys of Game::tradeItems

tradeVars == <<parent, tradeState, tradePartner, tradeItem, tradeItems>>

TypeOK ==
    /\ parent \in [Items -> Players \cup Containers \cup {Ground, None}]
    /\ tradeState \in [Players -> {"NONE", "INITIATED", "ACKNOWLEDGE", "ACCEPT"}]
    /\ tradePartner \in [Players -> Players \cup {None}]
    /\ tradeItem \in [Players -> Items \cup {None}]
    /\ tradeItems \subseteq Items

Init ==
    /\ online = {}
    /\ parent \in [Items -> Players \cup {Ground}]
    /\ tradeState = [p \in Players |-> "NONE"]
    /\ tradePartner = [p \in Players |-> None]
    /\ tradeItem = [p \in Players |-> None]
    /\ tradeItems = {}

-----------------------------------------------------------------------------
(* Cylinders                                                               *)

\* The containers around x: those in every set of containers that holds the
\* container of x, if there is one, and the container of each of its members.
Holders(par, x) ==
    LET upwards(S) == \A y \in {x} \cup S : par[y] \in Containers => par[y] \in S
    IN  {c \in Containers : \A S \in SUBSET Containers : upwards(S) => c \in S}

\* Every cylinder around x, up to the player that carries it or the ground.
Around(par, x) == IF x \in Items THEN {par[y] : y \in {x} \cup Holders(par, x)} ELSE {}

\* The same item, or one in the other (Container::isHoldingItem).
Overlap(par, i, j) == i = j \/ i \in Around(par, j) \/ j \in Around(par, i)

\* What p carries or can reach on the ground.
Reach(p, x) == {p, Ground} \cap (Around(parent, x) \cup {x}) # {}

-----------------------------------------------------------------------------
(* Game::internalCloseTrade for a set of players and their partners        *)

CloseTrades(closing) ==
    LET all == closing \cup {tradePartner[p] : p \in closing}
    IN  /\ tradeState' = [p \in Players |-> IF p \in all THEN "NONE" ELSE tradeState[p]]
        /\ tradePartner' = [p \in Players |-> IF p \in all THEN None ELSE tradePartner[p]]
        /\ tradeItem' = [p \in Players |-> IF p \in all THEN None ELSE tradeItem[p]]
        /\ tradeItems' = tradeItems \ {tradeItem[p] : p \in all \cap Players}

\* Seeded fault: Without isHoldingItem in the search of tradeItems.
RequestTrade_InsideAllowed(p, q, i) ==
    /\ {p, q} \subseteq online /\ p # q
    /\ Reach(p, i)
    /\ \A j \in tradeItems : i # j
    /\ tradeState[p] = "NONE" \/ (tradeState[p] = "ACKNOWLEDGE" /\ tradePartner[p] = q)
    /\ tradeState[q] = "NONE" \/ tradePartner[q] = p
    /\ tradeState' = [tradeState EXCEPT ![p] = "INITIATED",
                                        ![q] = IF @ = "NONE" THEN "ACKNOWLEDGE" ELSE @]
    /\ tradePartner' = [tradePartner EXCEPT ![p] = q,
                                            ![q] = IF tradeState[q] = "NONE" THEN p ELSE @]
    /\ tradeItem' = [tradeItem EXCEPT ![p] = i]
    /\ tradeItems' = tradeItems \cup {i}
    /\ UNCHANGED <<online, parent>>

\* playerRequestTrade and internalStartTrade: a first offer, or the answer to one.
RequestTrade(p, q, i) ==
    /\ {p, q} \subseteq online /\ p # q
    /\ Reach(p, i)
    /\ \A j \in tradeItems : ~Overlap(parent, i, j)
    /\ tradeState[p] = "NONE" \/ (tradeState[p] = "ACKNOWLEDGE" /\ tradePartner[p] = q)
    /\ tradeState[q] = "NONE" \/ tradePartner[q] = p
    /\ tradeState' = [tradeState EXCEPT ![p] = "INITIATED",
                                        ![q] = IF @ = "NONE" THEN "ACKNOWLEDGE" ELSE @]
    /\ tradePartner' = [tradePartner EXCEPT ![p] = q,
                                            ![q] = IF tradeState[q] = "NONE" THEN p ELSE @]
    /\ tradeItem' = [tradeItem EXCEPT ![p] = i]
    /\ tradeItems' = tradeItems \cup {i}
    /\ UNCHANGED <<online, parent>>

CanAccept(p) ==
    /\ p \in online
    /\ tradeState[p] \in {"ACKNOWLEDGE", "INITIATED"}
    /\ tradePartner[p] # None

\* playerAcceptTrade, the partner has not accepted yet.
AcceptFirst(p) ==
    /\ CanAccept(p)
    /\ tradeState[tradePartner[p]] # "ACCEPT"
    /\ tradeState' = [tradeState EXCEPT ![p] = "ACCEPT"]
    /\ UNCHANGED <<online, parent, tradePartner, tradeItem, tradeItems>>

\* Both have accepted, and the way is blocked, a script refuses, or there is
\* no item, room or capacity.
AcceptFails(p) ==
    /\ CanAccept(p)
    /\ tradeState[tradePartner[p]] = "ACCEPT"
    /\ CloseTrades({p})
    /\ UNCHANGED <<online, parent>>

\* When queryDestination finds p no place for i although queryMaxCount counts room:
\* the move ignores stacks, and passes over what p offers if p wears it.  queryAdd of
\* p itself accepts, and addThing drops the item.
Dropped(par, i, p, given) == i \in Stackable \/ (given \in Containers /\ par[given] = p)

\* Seeded fault: internalMoveItem without the test of the trade item.
PlacesWith_Given(par, i, p, given) ==
    {p} \cup {c \in Containers : p \in Around(par, c)}
        \cup {n \in {None} : Dropped(par, i, p, given)}

\* Where a trade can put an item with p, who gives another for it: a free place among
\* what p carries, but not inside the item that is given.
PlacesWith(par, i, p, given) ==
    {p} \cup {c \in Containers : p \in Around(par, c) /\ c # given /\ given \notin Around(par, c)}
        \cup {n \in {None} : Dropped(par, i, p, given)}

\* The second move of an exchange fails when the room that was tested for it was inside
\* p's own offer, which is gone by now: the item stays (all of it, or what is left of a
\* stack that was dropped in part).  Nobody looks at its result.  An offer that was not
\* worn leaves its own place free, unless its container was overfull.
Stays(par, i, p, given) == {d \in {par[i]} : given \in Containers /\ p \in Around(par, given)}

\* The notifications of the removal of i from its cylinder and of its addition
\* to d that make the player offering j close its trade: j moves, or what is in
\* it changes, or something is taken from a container around j's container.
Disturbs(par, i, d, j) ==
    /\ par[i] # d
    /\ \/ Overlap(par, i, j) \/ j = d \/ j \in Around(par, d)
       \/ par[i] \in Around(par, j) \cap Items /\ par[j] # par[i]

Disturbed(par, i, d) == {q \in Players : tradeItem[q] # None /\ Disturbs(par, i, d, tradeItem[q])}

\* The exchange: p's item goes to the partner first, then the partner's item to p.
AcceptTransfers(p) ==
    /\ CanAccept(p)
    /\ LET q == tradePartner[p]
           mine == tradeItem[p]
           theirs == tradeItem[q]
       IN  /\ tradeState[q] = "ACCEPT"
           /\ mine # None /\ theirs # None
           /\ \E d \in PlacesWith(parent, mine, q, theirs) :
                 LET first == [parent EXCEPT ![mine] = d]
                 IN  \E e \in PlacesWith(first, theirs, p, mine) \cup Stays(parent, theirs, p, mine) :
                        /\ parent' = [first EXCEPT ![theirs] = e]
                        /\ CloseTrades({p} \cup Disturbed(parent, mine, d)
                                            \cup Disturbed(first, theirs, e))
    /\ UNCHANGED online

\* playerCloseTrade, and onCreatureMove of a player that gets too far away.
CloseTrade(p) ==
    /\ p \in online /\ tradePartner[p] # None
    /\ CloseTrades({p})
    /\ UNCHANGED <<online, parent>>

\* A whole item moves.  An exchange of two items is two of these in one task.
MoveItem(p, i, d) ==
    /\ p \in online
    /\ Reach(p, i) /\ Reach(p, d)
    /\ d # i /\ i \notin Around(parent, d) /\ d # parent[i]
    /\ parent' = [parent EXCEPT ![i] = d]
    /\ CloseTrades(Disturbed(parent, i, d))
    /\ UNCHANGED online

\* Player::onRemoveCreature closes the trade of a player that leaves the game.
PlayerRemoved(p) ==
    /\ CloseTrades({r \in {p} : tradePartner[r] # None})
    /\ UNCHANGED parent

Request(p) ==
    \/ AcceptFirst(p) \/ AcceptFails(p) \/ AcceptTransfers(p) \/ CloseTrade(p)
    \/ \E i \in Items :
          \/ \E q \in Players : RequestTrade(p, q, i)
          \/ \E d \in {p, Ground} \cup Containers : MoveItem(p, i, d)

-----------------------------------------------------------------------------
\* Nothing is promised twice: partners point at each other, are both in the
\* game and cannot have accepted both; tradeItems is exactly what is offered,
\* every offered item is within its owner's reach, and no two offers are the
\* same item or one inside the other, wherever items were moved meanwhile.
OffersApart ==
    /\ \A p \in Players :
          /\ tradeState[p] = "NONE" <=> tradePartner[p] = None
          /\ tradePartner[p] # None =>
                /\ {p, tradePartner[p]} \subseteq online
                /\ tradePartner[tradePartner[p]] = p
                /\ ~(tradeState[p] = "ACCEPT" /\ tradeState[tradePartner[p]] = "ACCEPT")
          /\ tradeState[p] \in {"NONE", "ACKNOWLEDGE"} => tradeItem[p] = None
          /\ tradeItem[p] # None => Reach(p, tradeItem[p])
    /\ tradeItems = {tradeItem[p] : p \in Players} \ {None}
    /\ \A p, q \in Players :
          p # q /\ tradeItem[p] # None /\ tradeItem[q] # None
             => ~Overlap(parent, tradeItem[p], tradeItem[q])

\* Item i, offered by one player, is now with the other, or it is lost.
Given(i, from, to, lost) ==
    /\ from \notin Around(parent', i)
    /\ to \in Around(parent', i) \/ (lost /\ parent'[i] = None)

\* playerAcceptTrade: whoever accepts last gives what it offers, and an exchange has
\* only three bad ends.  A stack is lost for want of a free place; an item is lost when
\* the room for it was inside the worn container it is exchanged for; and the exchange
\* is one-sided, the partner keeping its item where it was, only if the last to accept
\* gave a container that it carried.  No other item is moved.
FairSwap ==
    [][\A p \in Players :
          AcceptTransfers(p) =>
             LET q == tradePartner[p]
                 mine == tradeItem[p]
                 theirs == tradeItem[q]
             IN  /\ Given(mine, p, q, mine \in Stackable \/ (theirs \in Containers /\ parent[theirs] = q))
                 /\ \/ Given(theirs, q, p, theirs \in Stackable)
                    \/ /\ mine \in Containers /\ p \in Around(parent, mine)
                       /\ parent'[theirs] = parent[theirs]
                 /\ \A i \in Items \ {mine, theirs} : parent'[i] = parent[i]]_<<online, tradeVars>>
=============================================================================
