-------------------------------- MODULE Party --------------------------------
(***************************************************************************)
(* Parties (party.cpp, and the calls of game.cpp and player.cpp).  A Party *)
(* and a Player point at each other by plain pointers: Player::party and   *)
(* Player::invitePartyList on one side, leader, memberList and inviteList  *)
(* on the other.  A Party deletes itself when it is left empty; its        *)
(* address may be used again.                                              *)
(*                                                                         *)
(* All of it runs on the game thread.  A state s is a record of these      *)
(* members, and the methods are operators from state to state.  A deleted  *)
(* Party has leader None.  memberList is a sequence, because its front     *)
(* inherits the leadership; the order of the other lists is never used.    *)
(* The Party events are disabled in data/events/events.xml, so that their  *)
(* answer is always yes.                                                   *)
(***************************************************************************)
EXTENDS Naturals, Sequences

CONSTANTS Players, Parties, None

VARIABLES online,    \* the players in the game
          parties    \* the state of all Party objects and of the players' pointers to them

vars == <<online, parties>>

Members(s, id) == {s.memberList[id][i] : i \in DOMAIN s.memberList[id]}

TypeOK ==
    /\ online \subseteq Players
    /\ parties.party \in [Players -> Parties \cup {None}]
    /\ parties.invitePartyList \in [Players -> SUBSET Parties]
    /\ parties.leader \in [Parties -> Players \cup {None}]
    /\ parties.memberList \in [Parties -> Seq(Players)]
    /\ parties.inviteList \in [Parties -> SUBSET Players]

Init ==
    /\ online = {}
    /\ parties = [party |-> [p \in Players |-> None],
                  invitePartyList |-> [p \in Players |-> {}],
                  leader |-> [id \in Parties |-> None],
                  memberList |-> [id \in Parties |-> <<>>],
                  inviteList |-> [id \in Parties |-> {}]]

-----------------------------------------------------------------------------
(* The methods of Party                                                    *)

\* Party::empty
Empty(s, id) == s.memberList[id] = <<>> /\ s.inviteList[id] = {}

\* The constructor.
NewParty(s, id, p) == [s EXCEPT !.leader[id] = p, !.party[p] = id]

\* disband() of each of the parties in ids: everybody's pointer is reset, the object deleted.
Disband(s, ids) ==
    LET leave(p) == \E id \in ids : p = s.leader[id] \/ p \in Members(s, id)
    IN  [party |-> [p \in Players |-> IF leave(p) THEN None ELSE s.party[p]],
         invitePartyList |->
             [p \in Players |-> s.invitePartyList[p] \ {id \in ids : p \in s.inviteList[id]}],
         leader |-> [id \in Parties |-> IF id \in ids THEN None ELSE s.leader[id]],
         memberList |-> [id \in Parties |-> IF id \in ids THEN <<>> ELSE s.memberList[id]],
         inviteList |-> [id \in Parties |-> IF id \in ids THEN {} ELSE s.inviteList[id]]]

\* The end of the methods that can leave the party empty.
DisbandIf(s, id, condition) == IF condition THEN Disband(s, {id}) ELSE s

\* std::find, and erase() of what it found.
Without(list, p) ==
    LET found == {i \in DOMAIN list : list[i] = p}
        first == CHOOSE i \in found : \A j \in found : i <= j
    IN  IF found = {} THEN list
        ELSE SubSeq(list, 1, first - 1) \o SubSeq(list, first + 1, Len(list))

PassPartyLeadership(s, id, p) ==
    [s EXCEPT !.memberList[id] = <<s.leader[id]>> \o Without(@, p), !.leader[id] = p]

\* A leader that leaves passes the leadership to the first member, unless that
\* would leave the new leader alone.
LeaveParty(s, p) ==
    LET id == s.party[p]
        leads == s.leader[id] = p
        missingLeader == leads /\ (\/ s.memberList[id] = <<>>
                                   \/ Len(s.memberList[id]) = 1 /\ s.inviteList[id] = {})
        passed == IF leads /\ ~missingLeader
                  THEN PassPartyLeadership(s, id, Head(s.memberList[id])) ELSE s
        left == [passed EXCEPT !.memberList[id] = Without(@, p), !.party[p] = None]
    IN  DisbandIf(left, id, missingLeader \/ Empty(left, id))

JoinParty(s, id, p) ==
    [s EXCEPT !.inviteList[id] = @ \ {p}, !.party[p] = id,
              !.memberList[id] = Append(@, p), !.invitePartyList[p] = @ \ {id}]

InvitePlayer(s, id, p) == [s EXCEPT !.inviteList[id] = @ \cup {p}, !.invitePartyList[p] = @ \cup {id}]

RemoveInvite(s, id, p) ==
    LET removed == [s EXCEPT !.inviteList[id] = @ \ {p}, !.invitePartyList[p] = @ \ {id}]
    IN  DisbandIf(removed, id, Empty(removed, id))

\* Player::clearPartyInvitations: removeInvite for each inviting party.
ClearPartyInvitations(s, p) ==
    LET erased(id) == IF id \in s.invitePartyList[p] THEN s.inviteList[id] \ {p} ELSE s.inviteList[id]
        removed == [s EXCEPT !.inviteList = [id \in Parties |-> erased(id)],
                             !.invitePartyList[p] = {}]
    IN  Disband(removed, {id \in s.invitePartyList[p] : Empty(removed, id)})

\* Seeded fault: onRemoveCreature without clearPartyInvitations.
PlayerRemoved_StaysInvited(s, p) ==
    LET cleared == s
    IN  IF cleared.party[p] # None THEN LeaveParty(cleared, p) ELSE cleared

\* Player::onRemoveCreature, for logout and death alike.
PlayerRemoved(s, p) ==
    LET cleared == ClearPartyInvitations(s, p)
    IN  IF cleared.party[p] # None THEN LeaveParty(cleared, p) ELSE cleared

-----------------------------------------------------------------------------
(* The requests of players                                                 *)

Leads(p) == parties.party[p] # None /\ parties.leader[parties.party[p]] = p

\* Player::isInviting
IsInviting(p, q) == Leads(p) /\ q \in parties.inviteList[parties.party[p]]

InviteToParty(p, q) ==
    /\ p # q /\ {p, q} \subseteq online
    /\ ~IsInviting(q, p)
    /\ parties.party[q] = None
    /\ \/ /\ parties.party[p] = None
          /\ \E id \in Parties :
                /\ parties.leader[id] = None
                /\ parties' = InvitePlayer(NewParty(parties, id, p), id, q)
       \/ /\ Leads(p) /\ ~IsInviting(p, q)
          /\ parties' = InvitePlayer(parties, parties.party[p], q)
    /\ UNCHANGED online

AcceptInvitation(p, q) ==
    /\ {p, q} \subseteq online
    /\ IsInviting(q, p)
    /\ parties.party[p] = None
    /\ parties' = JoinParty(parties, parties.party[q], p)
    /\ UNCHANGED online

RevokeInvitation(p, q) ==
    /\ {p, q} \subseteq online
    /\ IsInviting(p, q)
    /\ parties' = RemoveInvite(parties, parties.party[p], q)
    /\ UNCHANGED online

PassLeadership(p, q) ==
    /\ p # q /\ {p, q} \subseteq online
    /\ Leads(p) /\ parties.party[q] = parties.party[p]
    /\ parties' = PassPartyLeadership(parties, parties.party[p], q)
    /\ UNCHANGED online

\* playerLeaveParty of a player that is not in a fight.
Leave(p) ==
    /\ p \in online /\ parties.party[p] # None
    /\ parties' = LeaveParty(parties, p)
    /\ UNCHANGED online

\* A player that enters the game is a new object.
Enter(p) == p \notin online /\ online' = online \cup {p} /\ UNCHANGED parties

Remove(p) ==
    /\ p \in online
    /\ online' = online \ {p}
    /\ parties' = PlayerRemoved(parties, p)

Request(p) ==
    \/ Leave(p)
    \/ \E q \in Players :
          InviteToParty(p, q) \/ AcceptInvitation(p, q) \/ RevokeInvitation(p, q) \/ PassLeadership(p, q)

Next == \E p \in Players : Request(p) \/ Enter(p) \/ Remove(p)

Spec == Init /\ [][Next]_vars

-----------------------------------------------------------------------------
\* No pointer between parties and players dangles or is one-sided, whatever
\* the order of invitations, leadership changes, departures and logouts: a
\* player's party is the one that lists it, once, as leader or member;
\* invitations are known on both sides; a player that left the game is in no
\* list; and a Party that nobody else is in or invited to has deleted itself.
PartyLinks ==
    /\ \A p \in Players, id \in Parties :
          /\ parties.party[p] = id <=> parties.leader[id] = p \/ p \in Members(parties, id)
          /\ id \in parties.invitePartyList[p] <=> p \in parties.inviteList[id]
    /\ \A id \in Parties :
          /\ parties.leader[id] \notin Members(parties, id)
          /\ \A i, j \in DOMAIN parties.memberList[id] :
                parties.memberList[id][i] = parties.memberList[id][j] => i = j
          /\ (parties.leader[id] = None) <=> Empty(parties, id)
          /\ Members(parties, id) \cup parties.inviteList[id] \subseteq online
          /\ parties.leader[id] \in online \cup {None}
=============================================================================
