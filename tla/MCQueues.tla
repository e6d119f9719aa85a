--------------------------------- MODULE MCQueues ----------------------------------
(* A small instance of Queues for TLC. *)
EXTENDS Queues

Handler(key, origin, fragile) == [key |-> key, origin |-> origin, fragile |-> fragile]
Registered ==
    {Handler("act", "xml", FALSE), Handler("act", "lua", FALSE), Handler("mov", "xml", FALSE),
     Handler("mov", "lua", FALSE), Handler("wpn", "xml", FALSE), Handler("wpn", "lua", FALSE),
     Handler("wpn2", "xml", FALSE), Handler("evx", "xml", FALSE), Handler("evl", "lua", FALSE),
     Handler("evf", "lua", TRUE), Handler("spx", "xml", FALSE), Handler("spl", "lua", FALSE),
     Handler("thx", "xml", FALSE), Handler("thl", "lua", FALSE), Handler("tix", "xml", FALSE),
     Handler("til", "lua", FALSE), Handler("tif", "xml", TRUE)}
KindOfKey ==
    [act |-> "action", mov |-> "move", wpn |-> "weapon", wpn2 |-> "weapon", wpd |-> "weapon",
     evx |-> "creature", evl |-> "creature", evf |-> "creature", spx |-> "spell", spl |-> "spell",
     thx |-> "think", thl |-> "think", tix |-> "timer", til |-> "timer", tif |-> "timer"]
EventsOf == [siege |-> 2, hunt |-> 2, empty |-> 0]
LearnedBy == [m \in {"rat"} |-> {"spx"}]
=============================================================================
