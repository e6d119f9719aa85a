------------------------------- MODULE Players -------------------------------
(***************************************************************************)
(* Players in the game: parties and trades together.  They meet where a    *)
(* player enters or leaves: Player::onRemoveCreature closes the trade,     *)
(* clears the invitations and leaves the party in one task.                *)
(***************************************************************************)
EXTENDS Naturals, Sequences, FiniteSets, TLC

CONSTANTS Players, Parties, Items, Containers, Stackable, Ground, None

ASSUME ItemsAssumption ==
    /\ IsFiniteSet(Items)
    /\ Containers \subseteq Items /\ Stackable \subseteq Items \ Containers
    /\ None \notin Players \cup Parties \cup Items
    /\ Players \cap Items = {} /\ Ground \notin Players \cup Items \cup {None}

VARIABLES online, parties, parent, tradeState, tradePartner, tradeItem, tradeItems

P == INSTANCE Party
T == INSTANCE Trade

tradeVars == <<parent, tradeState, tradePartner, tradeItem, tradeItems>>

vars == <<online, parties, tradeVars>>

TypeOK == P!TypeOK /\ T!TypeOK

Init == P!Init /\ T!Init

Enter(p) == P!Enter(p) /\ UNCHANGED tradeVars

\* Player::onRemoveCreature
Remove(p) == P!Remove(p) /\ T!PlayerRemoved(p)

Next ==
    \E p \in Players :
        \/ P!Request(p) /\ UNCHANGED tradeVars
        \/ T!Request(p) /\ UNCHANGED parties
        \/ Enter(p) \/ Remove(p)

Spec == Init /\ [][Next]_vars

PartyLinks == P!PartyLinks
OffersApart == T!OffersApart
FairSwap == T!FairSwap

\* For TLC: players and parties are interchangeable.
PlayerSymmetry == Permutations(Players) \cup Permutations(Parties)
=============================================================================
