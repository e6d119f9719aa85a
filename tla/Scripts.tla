------------------------------ MODULE Scripts -------------------------------
(***************************************************************************)
(* The environments scripts run in (luascript.cpp, class ScriptEnvironment *)
(* and LuaScriptInterface) and the timer events of addEvent.               *)
(*                                                                         *)
(* Every handler of every interface runs the same way: reserveScriptEnv    *)
(* takes the next of 16 environments, or the handler gives up; the script  *)
(* runs, and what it calls may run other handlers; at the end              *)
(* resetScriptEnv empties the last environment and gives it back.  frames  *)
(* is the C++ stack of running handlers, each with the environment it took *)
(* and the timer it runs for.                                              *)
(***************************************************************************)
EXTENDS Integers, Sequences, FiniteSets

CONSTANTS MaxEnvs,      \* 16
          MaxNesting,   \* bound: how deep handlers call each other
          MaxOverflows, \* bound: how many calls are refused
          ScriptItems,  \* the items scripts create
          Timers,       \* ids of addEvent
          None

VARIABLES scriptEnvIndex, frames,
          tempItems,    \* the items of each environment
          tempResults,  \* database results, shared by all environments
          items,        \* "none", "virtual" (parent is the VirtualCylinder), "world", "released"
          timers,       \* "new", "waiting", "taken" (erased from timerEvents), "over"
          references    \* the timers whose Lua references are registered

scriptVars == <<scriptEnvIndex, frames, tempItems, tempResults, items, timers, references>>

Envs == 0..MaxEnvs - 1

ScriptsTypeOK ==
    /\ scriptEnvIndex \in -1..MaxEnvs + MaxOverflows
    /\ \A k \in DOMAIN frames : frames[k] \in [env : Envs, timer : Timers \cup {None}]
    /\ tempItems \in [Envs -> SUBSET ScriptItems]
    /\ tempResults \in 0..MaxNesting
    /\ items \in [ScriptItems -> {"none", "virtual", "world", "released", "released twice"}]
    /\ timers \in [Timers -> {"new", "waiting", "taken", "over"}]
    /\ references \subseteq Timers

ScriptsInit ==
    /\ scriptEnvIndex = -1 /\ frames = <<>>
    /\ tempItems = [e \in Envs |-> {}] /\ tempResults = 0
    /\ items = [i \in ScriptItems |-> "none"]
    /\ timers = [t \in Timers |-> "new"] /\ references = {}

Running == frames # <<>>
Top == frames[Len(frames)]

-----------------------------------------------------------------------------
(* Handlers                                                                *)

\* reserveScriptEnv: a refused call leaves the index incremented.
Reserve(timer) ==
    /\ scriptEnvIndex' = scriptEnvIndex + 1
    /\ frames' = IF scriptEnvIndex' < MaxEnvs THEN Append(frames, [env |-> scriptEnvIndex', timer |-> timer])
                 ELSE frames

Call ==
    /\ Len(frames) < MaxNesting /\ scriptEnvIndex < MaxEnvs - 1 + MaxOverflows
    /\ Reserve(None)
    /\ UNCHANGED <<tempItems, tempResults, items, timers, references>>

Release(i) == IF items[i] = "released" THEN "released twice" ELSE "released"

\* ScriptEnvironment::resetEnv: what the script created and put nowhere is released.
ResetEnv(e) ==
    /\ tempItems' = [tempItems EXCEPT ![e] = {}]
    /\ items' = [i \in ScriptItems |-> IF i \in tempItems[e] /\ items[i] = "virtual" THEN Release(i) ELSE items[i]]

\* callFunction and its kin end with resetScriptEnv, which is about the index, whatever
\* environment the handler took.  Behind the 16th there is none to reset.
Return ==
    /\ Running
    /\ scriptEnvIndex' = scriptEnvIndex - 1
    /\ IF scriptEnvIndex \in Envs THEN ResetEnv(scriptEnvIndex) ELSE UNCHANGED <<tempItems, items>>
    /\ tempResults' = 0
    /\ frames' = SubSeq(frames, 1, Len(frames) - 1)
    /\ timers' = [t \in Timers |-> IF t = Top.timer THEN "over" ELSE timers[t]]
    /\ references' = references \ {Top.timer}

-----------------------------------------------------------------------------
(* What a script does with its environment                                 *)

\* Seeded fault: the item is not among the temporary ones of its environment.
CreateItem_Untracked(i) ==
    /\ Running /\ scriptEnvIndex \in Envs /\ items[i] = "none"
    /\ items' = [items EXCEPT ![i] = "virtual"]
    /\ UNCHANGED <<scriptEnvIndex, frames, tempItems, tempResults, timers, references>>

\* Game.createItem, item:clone and item:split.
CreateItem(i) ==
    /\ Running /\ scriptEnvIndex \in Envs /\ items[i] = "none"
    /\ items' = [items EXCEPT ![i] = "virtual"]
    /\ tempItems' = [tempItems EXCEPT ![scriptEnvIndex] = @ \cup {i}]
    /\ UNCHANGED <<scriptEnvIndex, frames, tempResults, timers, references>>

RemoveTempItem(i) == [e \in Envs |-> tempItems[e] \ {i}]

\* player:addItemEx and the like: the item finds a place, or is merged with a stack and
\* released (Game::internalAddItem), or stays with the script.
AddItemEx(i) ==
    /\ Running /\ items[i] = "virtual"
    /\ tempItems' = RemoveTempItem(i)
    /\ \E fate \in {"world", Release(i)} : items' = [items EXCEPT ![i] = fate]
    /\ UNCHANGED <<scriptEnvIndex, frames, tempResults, timers, references>>

\* item:moveTo leaves the item it placed among the temporary ones.
MoveTo(i) ==
    /\ Running /\ items[i] = "virtual"
    /\ items' = [items EXCEPT ![i] = "world"]
    /\ UNCHANGED <<scriptEnvIndex, frames, tempItems, tempResults, timers, references>>

\* Game::internalRemoveItem, at any time: Item::onRemoved, then ReleaseItem.
RemoveItem(i) ==
    /\ items[i] = "world"
    /\ items' = [items EXCEPT ![i] = Release(i)]
    /\ tempItems' = RemoveTempItem(i)
    /\ UNCHANGED <<scriptEnvIndex, frames, tempResults, timers, references>>

\* db.storeQuery, freed by result.free.
AddResult ==
    /\ Running /\ tempResults < MaxNesting
    /\ tempResults' = tempResults + 1
    /\ UNCHANGED <<scriptEnvIndex, frames, tempItems, items, timers, references>>

RemoveResult ==
    /\ Running /\ tempResults > 0
    /\ tempResults' = tempResults - 1
    /\ UNCHANGED <<scriptEnvIndex, frames, tempItems, items, timers, references>>

-----------------------------------------------------------------------------
(* Timers                                                                  *)

AddEvent(t) ==
    /\ Running /\ timers[t] = "new"
    /\ timers' = [timers EXCEPT ![t] = "waiting"]
    /\ references' = references \cup {t}
    /\ UNCHANGED <<scriptEnvIndex, frames, tempItems, tempResults, items>>

\* stopEvent: of a timer that is still in timerEvents, its own one not being so.
StopEvent(t) ==
    /\ Running /\ timers[t] = "waiting"
    /\ timers' = [timers EXCEPT ![t] = "over"]
    /\ references' = references \ {t}
    /\ UNCHANGED <<scriptEnvIndex, frames, tempItems, tempResults, items>>

\* executeTimerEvent, from the dispatcher; a task that was posted before stopEvent finds
\* nothing.
ExecuteTimerEvent(t) ==
    /\ ~Running /\ timers[t] = "waiting"
    /\ Reserve(t)
    /\ IF Len(frames') > Len(frames)
       THEN timers' = [timers EXCEPT ![t] = "taken"] /\ UNCHANGED references
       ELSE timers' = [timers EXCEPT ![t] = "over"] /\ references' = references \ {t}
    /\ UNCHANGED <<tempItems, tempResults, items>>

ScriptsNext ==
    \/ Call \/ Return \/ AddResult \/ RemoveResult
    \/ \E i \in ScriptItems : CreateItem(i) \/ AddItemEx(i) \/ MoveTo(i) \/ RemoveItem(i)
    \/ \E t \in Timers : AddEvent(t) \/ StopEvent(t) \/ ExecuteTimerEvent(t)

-----------------------------------------------------------------------------

\* ScriptEnvironment::resetEnv: an item a script created is released once at most, and none
\* is left without a place when no script runs; the results are freed by then as well.
CreatedItemsKept ==
    /\ \A i \in ScriptItems : items[i] # "released twice"
    /\ ~Running => tempResults = 0 /\ \A i \in ScriptItems : items[i] # "virtual"

\* executeTimerEvent and stopEvent: the function and the parameters of a timer stay
\* registered until it has run or is stopped, and no longer.
TimersRegistered == references = {t \in Timers : timers[t] \in {"waiting", "taken"}}

\* getScriptEnv asserts scriptEnvIndex >= 0 && scriptEnvIndex < 16 for every script that
\* asks for its environment.
EnvInRange == Running => scriptEnvIndex \in Envs

Spec == ScriptsInit /\ [][ScriptsNext]_scriptVars
=============================================================================
