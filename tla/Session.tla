------------------------------- MODULE Session -------------------------------
(***************************************************************************)
(* Game sessions (protocolgame.cpp, outputmessage.cpp): the ProtocolGame   *)
(* objects of several clients that log in as the same character.  The      *)
(* network thread receives the first message and closes connections; all   *)
(* the rest are tasks on the game thread, which this module uses by its    *)
(* promise: a FIFO.  A client that finds its character in the game         *)
(* disconnects the other client and attaches itself a second later.        *)
(*                                                                         *)
(* A session's Connection is closed (the flag) and later gone (no shared   *)
(* pointer is left, Protocol::isConnectionExpired).  refs counts           *)
(* the references of the protocols and of the game to each Player object;  *)
(* at 0 the object is deleted.                                             *)
(***************************************************************************)
EXTENDS Naturals, Sequences, FiniteSets

CONSTANTS Sessions,     \* ProtocolGame objects, one per connection
          None

\* A session logs in once; the Player object it creates is named after it.
Objects == Sessions

VARIABLES stage,          \* what the network thread has seen of each session
          closed, gone,   \* the state of its Connection
          released,       \* ProtocolGame::release() has run
          player,         \* ProtocolGame::player
          eventConnect,   \* the object the scheduled connect is for, or None
          acceptPackets,
          client,         \* Player::client
          isConnecting,   \* Player::isConnecting
          inGame, toRelease, refs,
          bufferedProtocols, sendAllEvents,
          taskList        \* the dispatcher's queue

vars == <<stage, closed, gone, released, player, eventConnect, acceptPackets, client,
          isConnecting, inGame, toRelease, refs, bufferedProtocols, sendAllEvents, taskList>>

Members(s) == {s[i] : i \in DOMAIN s}

Tasks == ({"login", "release", "logout"} \X Sessions \X {None}) \cup ({"connect"} \X Sessions \X Objects)

TypeOK ==
    /\ stage \in [Sessions -> {"connected", "first", "leaving"}]
    /\ closed \subseteq Sessions /\ gone \subseteq closed
    /\ released \subseteq Sessions /\ acceptPackets \subseteq Sessions
    /\ player \in [Sessions -> Objects \cup {None}]
    /\ eventConnect \in [Sessions -> Objects \cup {None}]
    /\ client \in [Objects -> Sessions \cup {None}]
    /\ isConnecting \subseteq Objects
    /\ inGame \subseteq Objects /\ toRelease \subseteq Objects
    /\ refs \in [Objects -> Nat]
    /\ bufferedProtocols \subseteq Sessions /\ sendAllEvents \in Nat
    /\ taskList \in Seq(Tasks)

Init ==
    /\ stage = [s \in Sessions |-> "connected"]
    /\ closed = {} /\ gone = {} /\ released = {} /\ acceptPackets = {}
    /\ player = [s \in Sessions |-> None]
    /\ eventConnect = [s \in Sessions |-> None]
    /\ client = [o \in Objects |-> None]
    /\ isConnecting = {} /\ inGame = {} /\ toRelease = {}
    /\ refs = [o \in Objects |-> 0]
    /\ bufferedProtocols = {} /\ sendAllEvents = 0
    /\ taskList = <<>>

playerVars == <<player, client, isConnecting, inGame, toRelease, refs>>
autosendVars == <<bufferedProtocols, sendAllEvents>>

-----------------------------------------------------------------------------
(* The network thread.  Handlers hold the connection's lock.               *)

\* onRecvFirstMessage ends by handing login to the dispatcher.
FirstMessage(s) ==
    /\ stage[s] = "connected" /\ s \notin closed
    /\ stage' = [stage EXCEPT ![s] = "first"]
    /\ taskList' = Append(taskList, <<"login", s, None>>)
    /\ UNCHANGED <<closed, gone, released, eventConnect, acceptPackets>>
    /\ UNCHANGED playerVars /\ UNCHANGED autosendVars

\* parsePacket, for the client's request to log out.
LogoutPacket(s) ==
    /\ stage[s] = "first" /\ s \notin closed /\ s \in acceptPackets
    /\ player[s] # None
    /\ stage' = [stage EXCEPT ![s] = "leaving"]
    /\ taskList' = Append(taskList, <<"logout", s, None>>)
    /\ UNCHANGED <<closed, gone, released, eventConnect, acceptPackets>>
    /\ UNCHANGED playerVars /\ UNCHANGED autosendVars

\* The task Connection::close posts; nothing for a connection closed before.
ReleaseTask(s) == IF s \in closed \/ s = None THEN <<>> ELSE <<<<"release", s, None>>>>

\* A timeout, an error or a refusal by onRecvFirstMessage closes the connection.
NetworkClose(s) ==
    /\ s \notin closed
    /\ closed' = closed \cup {s}
    /\ taskList' = taskList \o ReleaseTask(s)
    /\ UNCHANGED <<stage, gone, released, eventConnect, acceptPackets>>
    /\ UNCHANGED playerVars /\ UNCHANGED autosendVars

\* The last handler of a closed connection has run: the object is destroyed.
ConnectionGone(s) ==
    /\ s \in closed \ gone
    /\ gone' = gone \cup {s}
    /\ UNCHANGED <<stage, closed, released, eventConnect, acceptPackets, taskList>>
    /\ UNCHANGED playerVars /\ UNCHANGED autosendVars

-----------------------------------------------------------------------------
(* The game thread                                                         *)

Begin(kind, s, o) == taskList # <<>> /\ Head(taskList) = <<kind, s, o>>

\* The rest of a task: it disconnects the session d, or none.
FinishTask(d) ==
    /\ closed' = IF d = None THEN closed ELSE closed \cup {d}
    /\ taskList' = Tail(taskList) \o ReleaseTask(d)

AddToAutosend(s) ==
    /\ bufferedProtocols' = bufferedProtocols \cup {s}
    /\ sendAllEvents' = IF bufferedProtocols = {} THEN sendAllEvents + 1 ELSE sendAllEvents

\* getPlayerByGUID
Found == inGame

\* login, no such player in the game: a new Player ...
NewPlayer(s, references) ==
    /\ player' = [player EXCEPT ![s] = s]
    /\ client' = [client EXCEPT ![s] = s]
    /\ refs' = [refs EXCEPT ![s] = references]
    /\ UNCHANGED <<isConnecting, toRelease>>

\* ... refused by one of the tests,
LoginRefused(s) ==
    /\ Begin("login", s, None) /\ Found = {}
    /\ NewPlayer(s, 1)
    /\ FinishTask(s)
    /\ UNCHANGED <<stage, gone, released, eventConnect, acceptPackets, inGame>>
    /\ UNCHANGED autosendVars

\* ... or placed in the game.
LoginPlaced(s) ==
    /\ Begin("login", s, None) /\ Found = {}
    /\ NewPlayer(s, 2)
    /\ inGame' = inGame \cup {s}
    /\ acceptPackets' = acceptPackets \cup {s}
    /\ AddToAutosend(s)
    /\ FinishTask(None)
    /\ UNCHANGED <<stage, gone, released, eventConnect>>

\* login, the player is in the game and the configuration forbids a replacement.
LoginAlreadyIn(s) ==
    /\ Begin("login", s, None) /\ Found # {}
    /\ FinishTask(s)
    /\ UNCHANGED <<stage, gone, released, eventConnect, acceptPackets>>
    /\ UNCHANGED playerVars /\ UNCHANGED autosendVars

\* login, the player has a client: disconnect it and try in a second.
LoginReplaces(s) ==
    /\ Begin("login", s, None)
    /\ \E o \in Found :
          /\ client[o] # None
          /\ isConnecting' = isConnecting \cup {o}
          /\ eventConnect' = [eventConnect EXCEPT ![s] = o]
          /\ IF client[o] \in gone THEN FinishTask(None) ELSE FinishTask(client[o])
    /\ AddToAutosend(s)
    /\ UNCHANGED <<stage, gone, released, acceptPackets, player, client, inGame, toRelease, refs>>

\* Seeded fault: connect() without the test of the client.
Attach_Steals(s, o) ==
    /\ o \in inGame /\ s \notin gone
    /\ player' = [player EXCEPT ![s] = o]
    /\ client' = [client EXCEPT ![o] = s]
    /\ refs' = [refs EXCEPT ![o] = @ + 1]
    /\ isConnecting' = isConnecting \ {o}
    /\ acceptPackets' = acceptPackets \cup {s}
    /\ FinishTask(None)
    /\ UNCHANGED <<inGame, toRelease>>

\* connect() attaches the session to the player.
Attach(s, o) ==
    /\ o \in inGame /\ client[o] = None /\ s \notin gone
    /\ player' = [player EXCEPT ![s] = o]
    /\ client' = [client EXCEPT ![o] = s]
    /\ refs' = [refs EXCEPT ![o] = @ + 1]
    /\ isConnecting' = isConnecting \ {o}
    /\ acceptPackets' = acceptPackets \cup {s}
    /\ FinishTask(None)
    /\ UNCHANGED <<inGame, toRelease>>

\* connect() on an expired connection returns.
ConnectExpired(s, o) ==
    /\ o \in inGame /\ client[o] = None /\ s \in gone
    /\ FinishTask(None)
    /\ UNCHANGED <<acceptPackets>> /\ UNCHANGED playerVars

\* connect() for a player that has a client again, or has left.
ConnectRefused(s, o) ==
    /\ o \notin inGame \/ client[o] # None
    /\ IF s \in gone THEN FinishTask(None) ELSE FinishTask(s)
    /\ UNCHANGED <<acceptPackets>> /\ UNCHANGED playerVars

ConnectPlayer(s, o) == Attach(s, o) \/ ConnectExpired(s, o) \/ ConnectRefused(s, o)

\* login, the player has no client: connect() at once.
LoginTakesOver(s) ==
    /\ Begin("login", s, None)
    /\ \E o \in Found : client[o] = None /\ ConnectPlayer(s, o)
    /\ AddToAutosend(s)
    /\ UNCHANGED <<stage, gone, released, eventConnect>>

\* The scheduler hands the delayed connect to the dispatcher.
ConnectTimer(s) ==
    /\ eventConnect[s] # None
    /\ <<"connect", s, eventConnect[s]>> \notin Members(taskList)
    /\ taskList' = Append(taskList, <<"connect", s, eventConnect[s]>>)
    /\ UNCHANGED <<stage, closed, gone, released, eventConnect, acceptPackets>>
    /\ UNCHANGED playerVars /\ UNCHANGED autosendVars

DelayedConnect(s) ==
    /\ \E o \in Objects : Begin("connect", s, o) /\ ConnectPlayer(s, o)
    /\ eventConnect' = [eventConnect EXCEPT ![s] = None]
    /\ UNCHANGED <<stage, gone, released>> /\ UNCHANGED autosendVars

\* ProtocolGame::release
Release(s) ==
    /\ Begin("release", s, None)
    /\ LET o == player[s]
       IN  IF o # None /\ client[o] = s
           THEN /\ client' = [client EXCEPT ![o] = None]
                /\ refs' = [refs EXCEPT ![o] = @ - 1]
                /\ player' = [player EXCEPT ![s] = None]
           ELSE UNCHANGED <<client, refs, player>>
    /\ bufferedProtocols' = bufferedProtocols \ {s}
    /\ released' = released \cup {s}
    /\ FinishTask(None)
    /\ UNCHANGED <<stage, gone, eventConnect, acceptPackets, isConnecting, inGame, toRelease,
                   sendAllEvents>>

\* Game::removeCreature; the game's reference is dropped by a later cleanup.
RemoveCreature(o) ==
    /\ inGame' = inGame \ {o}
    /\ toRelease' = IF o \in inGame THEN toRelease \cup {o} ELSE toRelease

\* ProtocolGame::logout, from the client's request: refused where the player
\* may not leave, and nothing for a protocol without player.
LogoutRefused(s) ==
    /\ Begin("logout", s, None)
    /\ player[s] = None \/ player[s] \in inGame
    /\ FinishTask(None)
    /\ UNCHANGED <<stage, gone, released, eventConnect, acceptPackets>>
    /\ UNCHANGED playerVars /\ UNCHANGED autosendVars

Logout(s) ==
    /\ Begin("logout", s, None) /\ player[s] # None
    /\ FinishTask(s)
    /\ RemoveCreature(player[s])
    /\ UNCHANGED <<stage, gone, released, eventConnect, acceptPackets, player, client,
                   isConnecting, refs>>
    /\ UNCHANGED autosendVars

\* A player that has not answered pings for long enough is removed, by
\* Player::sendPing in a task of its own: not while it is connecting.
PingTimeout(o) ==
    /\ o \in inGame /\ o \notin isConnecting
    /\ LET d == client[o]
       IN  /\ closed' = IF d = None \/ d \in gone THEN closed ELSE closed \cup {d}
           /\ taskList' = IF d \in gone THEN taskList ELSE taskList \o ReleaseTask(d)
    /\ RemoveCreature(o)
    /\ UNCHANGED <<stage, gone, released, eventConnect, acceptPackets, player, client,
                   isConnecting, refs>>
    /\ UNCHANGED autosendVars

\* Game::cleanup, at the end of the periodic checks.
Cleanup ==
    /\ toRelease # {}
    /\ refs' = [o \in Objects |-> IF o \in toRelease THEN refs[o] - 1 ELSE refs[o]]
    /\ toRelease' = {}
    /\ UNCHANGED <<stage, closed, gone, released, eventConnect, acceptPackets, player, client,
                   isConnecting, inGame, taskList>>
    /\ UNCHANGED autosendVars

\* A scheduled sendAll: it schedules the next one unless no protocol is left.
SendAll ==
    /\ sendAllEvents > 0 /\ bufferedProtocols = {}
    /\ sendAllEvents' = sendAllEvents - 1
    /\ UNCHANGED <<stage, closed, gone, released, eventConnect, acceptPackets, bufferedProtocols,
                   taskList>>
    /\ UNCHANGED playerVars

GameStep(s) ==
    \/ LoginRefused(s) \/ LoginPlaced(s) \/ LoginAlreadyIn(s) \/ LoginReplaces(s)
    \/ LoginTakesOver(s) \/ DelayedConnect(s) \/ Release(s) \/ LogoutRefused(s) \/ Logout(s)

Next ==
    \/ \E s \in Sessions :
          \/ FirstMessage(s) \/ LogoutPacket(s) \/ NetworkClose(s)
          \/ ConnectionGone(s) \/ ConnectTimer(s) \/ GameStep(s)
    \/ \E o \in Objects : PingTimeout(o)
    \/ Cleanup \/ SendAll

Spec == Init /\ [][Next]_vars

-----------------------------------------------------------------------------
(* Properties                                                              *)

\* A protocol's player and a player's client always point at each other, so
\* that a character is never controlled by two clients and release() always
\* finds the player it must give up.
ClientAgrees == \A s \in Sessions, o \in Objects : player[s] = o <=> client[o] = s

\* The reference count of a Player is exact: no object is deleted while a
\* protocol or the game uses it, and none is kept for nobody.
ReferencesExact ==
    \A o \in Objects :
        refs[o] = Cardinality({s \in Sessions : player[s] = o})
                     + (IF o \in inGame \cup toRelease THEN 1 ELSE 0)

\* At most one Player object of the character is in the game, however logins,
\* replacements and logouts interleave.
OnePlayerInGame == Cardinality(inGame) <= 1

\* A released protocol is not in the list that sendAll walks, and while there
\* is a protocol in the list a sendAll is scheduled.
AutosendServes ==
    /\ bufferedProtocols \cap released = {}
    /\ bufferedProtocols # {} => sendAllEvents > 0

\* connect(): "ProtocolGame::release() has been called at this point and the
\* Connection object no longer exists, so we return to prevent leakage of the
\* Player": a protocol that was released has no player.
ReleasedHasNoPlayer == \A s \in released : player[s] = None
=============================================================================
