-------------------------------- MODULE Chat --------------------------------
(***************************************************************************)
(* Chat channels and guilds (chat.cpp, guild.cpp, Player::setGuild and the *)
(* requests of game.cpp).  Channels and guilds hold plain Player pointers, *)
(* so that whoever leaves the game has to be taken out of all of them; a   *)
(* Guild deletes itself when its last member in the game is removed, and   *)
(* party channels are kept by the address of the Party.                    *)
(*                                                                         *)
(* A channel is named by its key: the scripted channel, one of each guild, *)
(* one of each address of a Party, one of each private channel id.  A      *)
(* script's canJoin may answer anything at any time, and so may isPremium. *)
(* Of a party only its members are modelled: the rest is in Party.tla.     *)
(***************************************************************************)
EXTENDS Naturals, FiniteSets

CONSTANTS People, Guilds,
          Rankless,     \* the guilds without a rank of level 1
          Addresses,    \* of Party objects
          PrivateIds,   \* 100 .. 9999 in the code
          None

VARIABLES present,    \* the players in the game
          belongs,    \* Player::guild and Player::party
          guilds,     \* Guild::membersOnline of every guild in Game::guilds: None is the
                \* pointer of a player that left the game.  behind: those among them
                \* that a setGuild which found no rank did not take out
          chat

chatVars == <<present, belongs, guilds, chat>>

Normal == <<"normal", 0>>
GuildKey(g) == <<"guild", g>>
PartyKey(a) == <<"party", a>>
PrivateKey(i) == <<"private", i>>

Keys == {Normal} \cup {GuildKey(g) : g \in Guilds} \cup {PartyKey(a) : a \in Addresses}
          \cup {PrivateKey(i) : i \in PrivateIds}

ChatTypeOK ==
    /\ present \subseteq People
    /\ belongs.guild \in [People -> Guilds \cup {None}]
    /\ belongs.party \in [People -> Addresses \cup {None}]
    /\ guilds.loaded \subseteq Guilds /\ {guilds.membersOnline, guilds.behind} \subseteq [Guilds -> SUBSET (People \cup {None})]
    /\ chat.channels \subseteq Keys /\ chat.users \in [Keys -> SUBSET People]
    /\ chat.owner \in [PrivateIds -> People \cup {None}]
    /\ chat.invites \in [PrivateIds -> SUBSET People]

ChatInit ==
    /\ present = {}
    /\ belongs = [guild |-> [p \in People |-> None], party |-> [p \in People |-> None]]
    /\ guilds = [loaded |-> {}, membersOnline |-> [g \in Guilds |-> {}],
                 behind |-> [g \in Guilds |-> {}]]
    /\ chat = [channels |-> {Normal}, users |-> [k \in Keys |-> {}],
               owner |-> [i \in PrivateIds |-> None], invites |-> [i \in PrivateIds |-> {}]]

-----------------------------------------------------------------------------
(* Guilds                                                                  *)

AddMember(s, g, p) == [s EXCEPT !.loaded = @ \cup {g}, !.membersOnline[g] = @ \cup {p}]

\* The last one deletes the Guild.
RemoveMember(s, g, p) ==
    IF g = None THEN s
    ELSE [s EXCEPT !.membersOnline[g] = @ \ {p}, !.behind[g] = @ \ {p},
                   !.loaded = IF s.membersOnline[g] \subseteq {p} THEN @ \ {g} ELSE @]

\* Seeded fault: setGuild without the removal from the old guild.
SetGuild_KeepsOld(p, g) ==
    LET old == belongs.guild[p]
    IN  /\ p \in present /\ g # old /\ g \in guilds.loaded \cup {None}
        /\ IF g \in Rankless
           THEN /\ belongs' = [belongs EXCEPT !.guild[p] = None]
                /\ guilds' = IF old = None THEN guilds ELSE [guilds EXCEPT !.behind[old] = @ \cup {p}]
           ELSE /\ belongs' = [belongs EXCEPT !.guild[p] = g]
                /\ guilds' = IF g = None THEN guilds ELSE AddMember(guilds, g, p)
        /\ UNCHANGED <<present, chat>>

\* Player::setGuild, for a script.  A guild without a lowest rank takes the
\* player's guild away, but the old guild keeps the player.
SetGuild(p, g) ==
    LET old == belongs.guild[p]
    IN  /\ p \in present /\ g # old /\ g \in guilds.loaded \cup {None}
        /\ IF g \in Rankless
           THEN /\ belongs' = [belongs EXCEPT !.guild[p] = None]
                /\ guilds' = IF old = None THEN guilds ELSE [guilds EXCEPT !.behind[old] = @ \cup {p}]
           ELSE /\ belongs' = [belongs EXCEPT !.guild[p] = g]
                /\ guilds' = RemoveMember(IF g = None THEN guilds ELSE AddMember(guilds, g, p), old, p)
        /\ UNCHANGED <<present, chat>>

-----------------------------------------------------------------------------
(* The class Chat.  Player p asks with a kind of channel, which its guild  *)
(* and its party complete.                                                 *)

Owned(s, p) == {i \in PrivateIds : s.owner[i] = p}

IsInvited(s, i, p) == s.owner[i] = p \/ p \in s.invites[i]

\* getChannel: the channels p can find.
Found(s, b, p) ==
    {k \in s.channels : \/ k = Normal
                        \/ b.guild[p] # None /\ k = GuildKey(b.guild[p])
                        \/ b.party[p] # None /\ k = PartyKey(b.party[p])
                        \/ k[1] = "private" /\ IsInvited(s, k[2], p)}

RemoveUser(s, k, p) == [s EXCEPT !.users[k] = @ \ {p}]

ClosePrivate(s, ids) ==
    [channels |-> s.channels \ {PrivateKey(i) : i \in ids},
     users |-> [k \in Keys |-> IF k[1] = "private" /\ k[2] \in ids THEN {} ELSE s.users[k]],
     owner |-> [i \in PrivateIds |-> IF i \in ids THEN None ELSE s.owner[i]],
     invites |-> [i \in PrivateIds |-> IF i \in ids THEN {} ELSE s.invites[i]]]

\* removeUserFromChannel of a channel that p finds and is in.
RemoveUserFromChannel(s, k, p) ==
    LET left == RemoveUser(s, k, p)
    IN  IF k[1] = "private" /\ s.owner[k[2]] = p THEN ClosePrivate(left, {k[2]}) ELSE left

RemoveUserFromAllChannels(s, p) ==
    ClosePrivate([s EXCEPT !.users = [k \in Keys |-> s.users[k] \ {p}],
                           !.invites = [i \in PrivateIds |-> s.invites[i] \ {p}]], Owned(s, p))

\* Player::sendClosePrivate(CHANNEL_PARTY) for the players ps.  Their pointers are
\* already reset, so that they do not find the channel and stay among its users.
SendClosePrivate(s, b, ps) ==
    LET closing(k) == {p \in ps : k = PartyKey(b.party[p]) /\ k \in Found(s, b, p)}
    IN  [s EXCEPT !.users = [k \in Keys |-> s.users[k] \ closing(k)]]

-----------------------------------------------------------------------------
(* The requests of players                                                 *)

\* getChannelList creates the channels of p's guild and party.
RequestChannels(p) ==
    /\ p \in present
    /\ chat' = [chat EXCEPT !.channels =
                  @ \cup {GuildKey(g) : g \in {belongs.guild[p]} \ {None}}
                    \cup {PartyKey(a) : a \in {belongs.party[p]} \ {None}}]
    /\ UNCHANGED <<present, belongs, guilds>>

\* addUserToChannel, unless he is in it
OpenChannel(p, k) ==
    /\ p \in present /\ k \in Found(chat, belongs, p) /\ p \notin chat.users[k]
    /\ chat' = [chat EXCEPT !.users[k] = @ \cup {p}]
    /\ UNCHANGED <<present, belongs, guilds>>

CloseChannel(p, k) ==
    /\ p \in present /\ k \in Found(chat, belongs, p) /\ p \in chat.users[k]
    /\ chat' = RemoveUserFromChannel(chat, k, p)
    /\ UNCHANGED <<present, belongs, guilds>>

\* One channel for each player, with the first free id.
CreatePrivateChannel(p) ==
    /\ p \in present /\ Owned(chat, p) = {}
    /\ \E i \in PrivateIds :
          /\ chat.owner[i] = None /\ \A j \in PrivateIds : j < i => chat.owner[j] # None
          /\ chat' = [chat EXCEPT !.channels = @ \cup {PrivateKey(i)}, !.owner[i] = p,
                                  !.users[PrivateKey(i)] = {p}]
    /\ UNCHANGED <<present, belongs, guilds>>

ChannelInvite(p, q) ==
    /\ p # q /\ {p, q} \subseteq present
    /\ \E i \in Owned(chat, p) :
          /\ q \notin chat.invites[i]
          /\ chat' = [chat EXCEPT !.invites[i] = @ \cup {q}]
    /\ UNCHANGED <<present, belongs, guilds>>

ChannelExclude(p, q) ==
    /\ p # q /\ {p, q} \subseteq present
    /\ \E i \in Owned(chat, p) :
          /\ q \in chat.invites[i]
          /\ chat' = RemoveUser([chat EXCEPT !.invites[i] = @ \ {q}], PrivateKey(i), q)
    /\ UNCHANGED <<present, belongs, guilds>>

\* Chat::load again: the users that canJoin still lets in are put back.
Reload ==
    /\ \E stay \in SUBSET chat.users[Normal] : chat' = [chat EXCEPT !.users[Normal] = stay]
    /\ UNCHANGED <<present, belongs, guilds>>

-----------------------------------------------------------------------------
(* What happens to the players                                             *)

\* loadPlayer finds or loads the guild of guild_membership.
Login(p, g) ==
    /\ p \notin present
    /\ present' = present \cup {p}
    /\ belongs' = [belongs EXCEPT !.guild[p] = g]
    /\ guilds' = IF g = None THEN guilds ELSE AddMember(guilds, g, p)
    /\ UNCHANGED chat

\* ProtocolGame::connect: the player is taken over by a new client.
Reconnect(p) ==
    /\ p \in present
    /\ chat' = RemoveUserFromAllChannels(chat, p)
    /\ UNCHANGED <<present, belongs, guilds>>

\* Accepting an invitation, or making a party where no Party is.
JoinParty(p, a) ==
    /\ p \in present /\ belongs.party[p] = None
    /\ belongs' = [belongs EXCEPT !.party[p] = a]
    /\ UNCHANGED <<present, guilds, chat>>

Left(b, ps) == [b EXCEPT !.party = [p \in People |-> IF p \in ps THEN None ELSE @[p]]]

\* Who leaves a party with p: leaveParty may end in disband.
Leavers(p) == {{p}, {q \in People : belongs.party[q] = belongs.party[p]}}

LeaveParty(p) ==
    /\ p \in present /\ belongs.party[p] # None
    /\ \E ps \in Leavers(p) : /\ belongs' = Left(belongs, ps)
                            /\ chat' = SendClosePrivate(chat, belongs', ps)
    /\ UNCHANGED <<present, guilds>>

\* The guilds that were left behind keep the pointer of a player that is released.
Dangling(s, p) ==
    LET left(ps) == IF p \in ps THEN (ps \ {p}) \cup {None} ELSE ps
    IN  [s EXCEPT !.membersOnline = [g \in Guilds |-> left(s.membersOnline[g])],
                  !.behind = [g \in Guilds |-> left(s.behind[g])]]

\* Player::onRemoveCreature.
Logout(p) ==
    /\ p \in present
    /\ present' = present \ {p}
    /\ \E ps \in IF belongs.party[p] = None THEN {{}} ELSE Leavers(p) :
          /\ belongs' = [Left(belongs, ps) EXCEPT !.guild[p] = None]
          /\ chat' = RemoveUserFromAllChannels(SendClosePrivate(chat, Left(belongs, ps), ps), p)
    /\ guilds' = Dangling(RemoveMember(guilds, belongs.guild[p], p), p)

ChatNext ==
    \/ \E p \in People :
          \/ RequestChannels(p) \/ CreatePrivateChannel(p) \/ Reconnect(p) \/ LeaveParty(p) \/ Logout(p)
          \/ \E g \in Guilds \cup {None} : Login(p, g) \/ SetGuild(p, g)
          \/ \E k \in Keys : OpenChannel(p, k) \/ CloseChannel(p, k)
          \/ \E q \in People : ChannelInvite(p, q) \/ ChannelExclude(p, q)
          \/ \E a \in Addresses : JoinParty(p, a)
    \/ Reload

-----------------------------------------------------------------------------

\* Chat::removeUserFromAllChannels: no channel keeps the pointer of a player that left the
\* game, neither as a user nor as an invited one.
NobodyLeftBehind ==
    /\ \A k \in Keys : chat.users[k] \subseteq present
    /\ \A i \in PrivateIds : chat.invites[i] \subseteq present

\* A private channel exists while its owner is in the game, is its owner's only one, and
\* everybody in it is its owner or invited (createChannel, excludePlayer).
PrivateChannels ==
    \A i \in PrivateIds :
       /\ PrivateKey(i) \in chat.channels <=> chat.owner[i] \in present
       /\ chat.users[PrivateKey(i)] \subseteq {chat.owner[i]} \cup chat.invites[i]
       /\ \A j \in PrivateIds : chat.owner[i] = chat.owner[j] /\ chat.owner[i] # None => i = j

\* Guild::addMember and removeMember: the members of a guild are the players in the game
\* that point to it, and there are Guilds with members only, so that nobody points to a
\* deleted one.  Whom a guild keeps beyond that was left behind in it by Player::setGuild,
\* which returns before removeMember when the new guild has no rank of level 1.
GuildsAgree ==
    /\ \A g \in Guilds :
          guilds.membersOnline[g] = {p \in present : belongs.guild[p] = g} \cup guilds.behind[g]
    /\ guilds.loaded = {g \in Guilds : guilds.membersOnline[g] # {}}
=============================================================================
