---------------------------- MODULE WaitingList ----------------------------
(***************************************************************************)
(* The waiting list in front of a full server (protocolgame.cpp, the       *)
(* anonymous namespace).  A refused client is told its slot and retries;   *)
(* an entry is a pair (timeout, player guid) and expires when the client   *)
(* does not come back in time.  Everything happens on the game thread.     *)
(*                                                                         *)
(* Time is in seconds and advances in steps of Step.  A guid overwritten   *)
(* with a time stamp belongs to no player: Nobody.                         *)
(***************************************************************************)
EXTENDS Naturals, Sequences, FiniteSets

CONSTANTS Players,
          Premium,        \* players queued on priorityWaitList
          AlwaysLogin,    \* CanAlwaysLogin, or a game master's account
          Nobody,
          MaxPlayers,     \* configuration; 0 means no limit
          Step, MaxTime,  \* bounds on the clock
          MaxEntries      \* bound on the two lists together

VARIABLES priorityWaitList, waitList,
          online,     \* the players in the game
          now

vars == <<priorityWaitList, waitList, online, now>>

Entry == [timeout : Nat, guid : Players \cup {Nobody}]

TypeOK ==
    /\ priorityWaitList \in Seq(Entry)
    /\ waitList \in Seq(Entry)
    /\ online \subseteq Players
    /\ now \in 0 .. MaxTime

Init ==
    /\ priorityWaitList = <<>>
    /\ waitList = <<>>
    /\ online = {}
    /\ now = 0

-----------------------------------------------------------------------------
getWaitTime(slot) ==
    CASE slot < 5  -> 5
      [] slot < 10 -> 10
      [] slot < 20 -> 20
      [] slot < 50 -> 60
      [] OTHER     -> 120

getTimeout(slot) == getWaitTime(slot) + 15

\* The entries that have not expired, in their order.
cleanupList(list) ==
    LET fresh == {i \in DOMAIN list : list[i].timeout > now}
        nth(k) == CHOOSE i \in fresh : Cardinality({j \in fresh : j <= i}) = k
    IN  [k \in 1..Cardinality(fresh) |-> list[nth(k)]]

Indices(list, p) == {i \in DOMAIN list : list[i].guid = p}

\* std::find_if: the first entry of the player.
First(indices) == CHOOSE i \in indices : \A j \in indices : i <= j

\* std::distance(it, list.end())
ToEnd(list, i) == Len(list) - i + 1

Erase(list, i) == SubSeq(list, 1, i - 1) \o SubSeq(list, i + 1, Len(list))

\* Where findClient found the player, with its third result.  The two lists
\* are passed as clientLogin sees them, after the cleanup.
FoundPriority(prio, p) == [index |-> First(Indices(prio, p)),
                           slot  |-> ToEnd(prio, First(Indices(prio, p))) + 1]

FoundNormal(prio, wait, p) == [index |-> First(Indices(wait, p)),
                               slot  |-> Len(prio) + ToEnd(wait, First(Indices(wait, p))) + 1]

\* A retry of a player found on a list: let in if there is capacity, else the
\* assignment to ->second, which is the guid.
Retry(list, found) ==
    IF Cardinality(online) + found.slot <= MaxPlayers
    THEN [list |-> Erase(list, found.index), slot |-> 0]
    ELSE [list |-> [list EXCEPT ![found.index].guid = Nobody], slot |-> found.slot]

Queued(list, slot, p) ==
    [list |-> Append(list, [timeout |-> now + getTimeout(slot), guid |-> p]), slot |-> slot]

\* Seeded fault: Off by one.
NobodyAhead_OneMore(prio, wait) ==
    MaxPlayers = 0 \/ (prio = <<>> /\ wait = <<>> /\ Cardinality(online) <= MaxPlayers)

\* No limit, or a free place and nobody waiting.
NobodyAhead(prio, wait) ==
    MaxPlayers = 0 \/ (prio = <<>> /\ wait = <<>> /\ Cardinality(online) < MaxPlayers)

\* The two lists and the slot after clientLogin(p).
clientLogin(p) ==
    LET prio == cleanupList(priorityWaitList)
        wait == cleanupList(waitList)
        Result(newPrio, newWait, s) == [prio |-> newPrio, wait |-> newWait, slot |-> s]
        OnPrio(r) == Result(r.list, wait, r.slot)
        OnWait(r) == Result(prio, r.list, r.slot)
    IN  CASE p \in AlwaysLogin ->
                Result(priorityWaitList, waitList, 0)
          [] p \notin AlwaysLogin /\ NobodyAhead(prio, wait) ->
                Result(prio, wait, 0)
          [] OTHER ->
                IF Indices(prio, p) # {} THEN OnPrio(Retry(prio, FoundPriority(prio, p)))
                ELSE IF Indices(wait, p) # {} THEN OnWait(Retry(wait, FoundNormal(prio, wait, p)))
                ELSE IF p \in Premium THEN OnPrio(Queued(prio, Len(prio) + 1, p))
                ELSE OnWait(Queued(wait, Len(prio) + Len(wait) + 1, p))

\* ProtocolGame::login: slot 0 lets the player in.
Login(p) ==
    /\ p \notin online
    /\ LET result == clientLogin(p)
       IN  /\ Len(result.prio) + Len(result.wait) <= MaxEntries
           /\ priorityWaitList' = result.prio
           /\ waitList' = result.wait
           /\ online' = IF result.slot = 0 THEN online \cup {p} ELSE online
    /\ UNCHANGED now

Logout(p) ==
    /\ p \in online
    /\ online' = online \ {p}
    /\ UNCHANGED <<priorityWaitList, waitList, now>>

Tick ==
    /\ now + Step <= MaxTime
    /\ now' = now + Step
    /\ UNCHANGED <<priorityWaitList, waitList, online>>

Next == Tick \/ \E p \in Players : Login(p) \/ Logout(p)

Spec == Init /\ [][Next]_vars

-----------------------------------------------------------------------------
(* Properties                                                              *)

Live(list) == {i \in DOMAIN list : list[i].timeout > now}

\* The server never fills above MaxPlayers through the waiting list: whoever
\* is let in without the right to enter at any time finds a free place.
CapacityRespected ==
    [][\A p \in Players \ AlwaysLogin :
          p \in online' \ online /\ MaxPlayers > 0 => Cardinality(online') <= MaxPlayers]_vars

\* A player is queued at most once, on one of the two lists.
QueuedOnce ==
    \A p \in Players : Cardinality(Indices(priorityWaitList, p)) + Cardinality(Indices(waitList, p)) <= 1

Waiting(p) ==
    \/ Indices(priorityWaitList, p) \cap Live(priorityWaitList) # {}
    \/ Indices(waitList, p) \cap Live(waitList) # {}

\* "let them wait a bit longer": a waiting player that retries in time and is
\* refused keeps its entry.
RetryKeepsPlace ==
    [][\A p \in Players : Login(p) /\ Waiting(p) /\ p \notin online' => Waiting(p)']_vars
=============================================================================
