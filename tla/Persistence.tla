-------------------------------- MODULE Persistence --------------------------------
(***************************************************************************)
(* What of the players is kept in the database (iologindata.cpp), and how  *)
(* it comes apart: players are saved one by one, in one transaction each,  *)
(* when they leave, when the game is saved, and when something is sent by  *)
(* mail to a player that is not in the game.  A save may fail, and the     *)
(* server may crash.                                                       *)
(*                                                                         *)
(* Of a player there are the things carried, those in the depot and the    *)
(* conditions; a condition is named by the player it belongs to.  A thing  *)
(* may come to be in several places: faults tells whether a save failed,   *)
(* or the server crashed.  A save of a player whose column save is 0       *)
(* writes nothing and counts as failed.                                    *)
(*                                                                         *)
(* The storage values of accounts and of the game (game.cpp): maps that    *)
(* scripts change, loaded when the server starts, and written to the       *)
(* database as a whole, in one transaction each: everything is deleted,    *)
(* then written again.  Values of the game have 64 bits but are read with  *)
(* 32: a value that does not fit is read as 0.  The iteration over the     *)
(* accounts is in no particular order.                                     *)
(***************************************************************************)
EXTENDS Naturals, FiniteSets, Functions

CONSTANTS Persons, Goods,
          Cursed,                         \* those with a condition in the database at first
          Accounts, StorageKeys, Values,
          Wide,                           \* those of the Values that need more than 32 bits
          Absent

VARIABLES online,               \* Game::players
          mem,                  \* the players in memory, and what lies on the ground
          disk,                 \* the tables players, player_items and player_depotitems
          storedConditionList,  \* static: one list for all players
          faults,
          accountStorageMap,    \* by account; Absent: no map was ever made
          storageMap,
          tables,               \* account_storage and game_storage
          written               \* what is unchanged since it was last written or loaded

persistenceVars == <<online, mem, disk, storedConditionList, faults>>

PersistenceTypeOK ==
    /\ online \subseteq Persons
    /\ mem.carried \in [Persons -> SUBSET Goods] /\ mem.depot \in [Persons -> SUBSET Goods]
    /\ mem.conditions \in [Persons -> SUBSET Persons]
    /\ mem.needsSave \subseteq Persons /\ mem.ground \subseteq Goods
    /\ disk.carried \in [Persons -> SUBSET Goods] /\ disk.depot \in [Persons -> SUBSET Goods]
    /\ disk.conditions \in [Persons -> SUBSET Persons]
    /\ storedConditionList \subseteq Persons
    /\ faults \in BOOLEAN

NoGoods == [p \in Persons |-> {}]

Nobody == [carried |-> NoGoods, depot |-> NoGoods, conditions |-> NoGoods, needsSave |-> {}, ground |-> {}]

PersistenceInit ==
    /\ online = {}
    /\ mem = Nobody
    /\ disk = [carried |-> [NoGoods EXCEPT ![CHOOSE p \in Persons : TRUE] = Goods], depot |-> NoGoods,
               conditions |-> [p \in Persons |-> Cursed \cap {p}]]
    /\ storedConditionList = {}
    /\ faults = FALSE

-----------------------------------------------------------------------------

\* savePlayer of the players ps of m, each in a transaction: the row of the player, ...
RowWritten(m, p) == m.conditions[p]

\* ... what the player carries, ...
ItemsWritten(m, p) == m.carried[p]

\* ... and the depot, if a locker needs it.
DepotWritten(m, p) == IF p \in m.needsSave THEN m.depot[p] ELSE disk.depot[p]

Written(m, ps) ==
    [carried |-> [p \in Persons |-> IF p \in ps THEN ItemsWritten(m, p) ELSE disk.carried[p]],
     depot |-> [p \in Persons |-> IF p \in ps THEN DepotWritten(m, p) ELSE disk.depot[p]],
     conditions |-> [p \in Persons |-> IF p \in ps THEN RowWritten(m, p) ELSE disk.conditions[p]]]

\* loadPlayer: the conditions of the row go to the list, ...
RowLoaded(p) == storedConditionList \cup disk.conditions[p]

\* ... the things to the player.
Loaded(m, p) ==
    [m EXCEPT !.carried[p] = disk.carried[p], !.depot[p] = disk.depot[p],
              !.conditions[p] = {}, !.needsSave = @ \ {p}]

Forget(m, p) ==
    [m EXCEPT !.carried[p] = {}, !.depot[p] = {}, !.conditions[p] = {}, !.needsSave = @ \ {p}]

\* The player is placed and takes the conditions of the list, or finds no place.
Login(p) ==
    /\ p \notin online
    /\ \/ /\ online' = online \cup {p}
          /\ mem' = [Loaded(mem, p) EXCEPT !.conditions[p] = RowLoaded(p)]
          /\ storedConditionList' = {}
       \/ storedConditionList' = RowLoaded(p) /\ UNCHANGED <<online, mem>>
    /\ UNCHANGED <<disk, faults>>

\* onRemoveCreature: the third failure is only logged.
Logout(p) ==
    /\ p \in online
    /\ online' = online \ {p}
    /\ mem' = Forget(mem, p)
    /\ \E saved \in SUBSET {p} :
          disk' = Written(mem, saved) /\ faults' = (faults \/ saved # {p})
    /\ UNCHANGED storedConditionList

\* saveGameState: each player is saved or not.
SaveGameState ==
    /\ \E saved \in SUBSET online :
          disk' = Written(mem, saved) /\ faults' = (faults \/ saved # online)
    /\ UNCHANGED <<online, mem, storedConditionList>>

\* What moves between two places, with the notifications of the locker.
Places == {<<"ground", "ground">>} \cup ({"carried", "depot"} \X online)

In(m, place) == IF place[1] = "ground" THEN m.ground ELSE m[place[1]][place[2]]

Put(m, place, things) ==
    IF place[1] = "ground" THEN [m EXCEPT !.ground = things]
    ELSE [m EXCEPT ![place[1]][place[2]] = things]

\* Seeded fault: postAddNotification without setNeedsSave.
NeedsSave_Never(m, place) == m

NeedsSave(m, place) == IF place[1] = "depot" THEN [m EXCEPT !.needsSave = @ \cup {place[2]}] ELSE m

MoveItem(g, from, to) ==
    LET taken == NeedsSave(Put(mem, from, In(mem, from) \ {g}), from)
    IN  /\ from # to /\ g \in In(mem, from)
        /\ mem' = NeedsSave(Put(taken, to, In(taken, to) \cup {g}), to)
        /\ UNCHANGED <<online, disk, storedConditionList, faults>>

\* Mailbox::sendItem.  A player that is not in the game is loaded, given the thing, saved
\* and dropped; the result of the save is ignored.
SendItem(g, p) ==
    LET sent == [mem EXCEPT !.ground = @ \ {g}]
        there == Loaded(sent, p)
        given(m) == [m EXCEPT !.depot[p] = @ \cup {g}, !.needsSave = @ \cup {p}]
    IN  /\ g \in mem.ground
        /\ IF p \in online
           THEN mem' = given(sent) /\ UNCHANGED <<disk, storedConditionList, faults>>
           ELSE /\ \E saved \in SUBSET {p} :
                      disk' = Written(given(there), saved) /\ faults' = (faults \/ saved # {p})
                /\ mem' = sent
                /\ storedConditionList' = RowLoaded(p)
        /\ UNCHANGED online

Crash ==
    /\ online' = {} /\ mem' = Nobody /\ storedConditionList' = {}
    /\ faults' = TRUE
    /\ UNCHANGED disk

PersistenceNext ==
    \/ \E p \in Persons : Login(p) \/ Logout(p) \/ \E g \in Goods : SendItem(g, p)
    \/ \E g \in Goods : \E from, to \in Places : MoveItem(g, from, to)
    \/ SaveGameState \/ Crash

-----------------------------------------------------------------------------

\* Every thing is somewhere, once: on the ground, with a player in the game, or in the
\* database with one that is not.  It holds as long as no save fails and the server runs.
Conserved ==
    ~faults =>
       \A g \in Goods :
          LET held == {pl \in {"carried", "depot"} \X Persons :
                          g \in IF pl[2] \in online THEN mem[pl[1]][pl[2]] ELSE disk[pl[1]][pl[2]]}
          IN  Cardinality(held) + Cardinality({g} \cap mem.ground) = 1

\* savePlayer writes a player as it is at that moment, whatever failed before: what is
\* carried and what is in the depot never come from different saves.
SavedWhole ==
    [][\A p \in online :
          <<disk.carried[p], disk.depot[p]>>' # <<disk.carried[p], disk.depot[p]>> =>
             <<disk.carried[p], disk.depot[p]>>' = <<mem.carried[p], mem.depot[p]>>]_persistenceVars

\* player.h:1041: storedConditionList is only used while its player logs in.
OwnConditions == \A p \in Persons : mem.conditions[p] \subseteq {p}

-----------------------------------------------------------------------------
(* Storage values                                                          *)

storageVars == <<accountStorageMap, storageMap, tables, written>>

\* 0 stands for what a value that cannot be read becomes.
Stored == Values \cup {0, Absent}

Nothing == [k \in StorageKeys |-> Absent]

StorageTypeOK ==
    /\ accountStorageMap \in [Accounts -> [StorageKeys -> Stored] \cup {Absent}]
    /\ storageMap \in [StorageKeys -> Stored]
    /\ tables.accounts \in [Accounts -> [StorageKeys -> Stored]]
    /\ tables.game \in [StorageKeys -> Stored]
    /\ written \in SUBSET (Accounts \cup {"game"})

StorageInit ==
    /\ accountStorageMap = [a \in Accounts |-> Absent]
    /\ storageMap = Nothing
    /\ tables = [accounts |-> [a \in Accounts |-> Nothing], game |-> Nothing]
    /\ written = Accounts \cup {"game"}

-----------------------------------------------------------------------------

\* setAccountStorageValue: -1 erases the value, but leaves a map.
SetAccountStorageValue(a, k, v) ==
    /\ accountStorageMap' = [accountStorageMap EXCEPT ![a] = [IF @ = Absent THEN Nothing ELSE @ EXCEPT ![k] = v]]
    /\ written' = written \ {a}
    /\ UNCHANGED <<storageMap, tables>>

SetStorageValue(k, v) ==
    /\ storageMap' = [storageMap EXCEPT ![k] = v]
    /\ written' = written \ {"game"}
    /\ UNCHANGED <<accountStorageMap, tables>>

\* The accounts that are written: the loop ends at the first account with an empty map.
ReachedAccounts ==
    LET maps == {a \in Accounts : accountStorageMap[a] # Absent}
        full == {a \in maps : accountStorageMap[a] # Nothing}
    IN  IF full = maps THEN {maps} ELSE SUBSET full

SaveAccountStorageValues ==
    /\ \E reached \in ReachedAccounts :
          tables' = [tables EXCEPT !.accounts =
                        [a \in Accounts |-> IF a \in reached THEN accountStorageMap[a] ELSE Nothing]]
    /\ written' = written \cup Accounts
    /\ UNCHANGED <<accountStorageMap, storageMap>>

SaveGameStorageValues ==
    /\ tables' = [tables EXCEPT !.game = storageMap]
    /\ written' = written \cup {"game"}
    /\ UNCHANGED <<accountStorageMap, storageMap>>

\* The server stops, with or without a save before, and starts again.
Read(v) == IF v \in Wide THEN 0 ELSE v

Restart ==
    /\ accountStorageMap' =
          [a \in Accounts |-> IF tables.accounts[a] = Nothing THEN Absent ELSE tables.accounts[a]]
    /\ storageMap' = [k \in StorageKeys |-> Read(tables.game[k])]
    /\ written' = Accounts \cup (IF storageMap' = tables.game THEN {"game"} ELSE {})
    /\ UNCHANGED tables

StorageNext ==
    \/ \E a \in Accounts : \E k \in StorageKeys : \E v \in (Values \ Wide) \cup {Absent} :
          SetAccountStorageValue(a, k, v)
    \/ \E k \in StorageKeys : \E v \in Values \cup {Absent} : SetStorageValue(k, v)
    \/ SaveAccountStorageValues \/ SaveGameStorageValues \/ Restart

-----------------------------------------------------------------------------

\* What was written or loaded, and not changed since, is in the database: all values of the
\* game, and of an account all values or, see AccountsSaved, none.
StorageKept ==
    /\ "game" \in written => tables.game = storageMap
    /\ \A a \in Accounts \cap written : tables.accounts[a] \in {Nothing, accountStorageMap[a]}

\* saveAccountStorageValues returned true: every account is in the database.
AccountsSaved ==
    \A a \in Accounts \cap written :
       tables.accounts[a] = IF accountStorageMap[a] = Absent THEN Nothing ELSE accountStorageMap[a]
=============================================================================
