------------------------------ MODULE Database ------------------------------
(***************************************************************************)
(* The database connection shared by the game thread and the network       *)
(* thread (database.h, database.cpp): databaseLock, held by a statement    *)
(* and across a transaction; reconnecting and repeating a statement when   *)
(* the connection is lost; DBTransaction.  The game thread saves in        *)
(* transactions, the network thread runs single statements.                *)
(*                                                                         *)
(* The MySQL server is external.  A lost connection ends the session and   *)
(* with it the open transaction; a new session is in autocommit mode.  The *)
(* connection can be lost before the server executed a statement or after  *)
(* it did and before the answer arrived.                                   *)
(***************************************************************************)
EXTENDS Naturals, Sequences

CONSTANTS TxnLength,    \* statements of a transaction
          Unchecked,    \* those whose failure the caller ignores (saveHouseInfo has some)
          MaxLosses, MaxTxns, MaxStatements   \* bounds

VARIABLES databaseLock,   \* the thread that holds it, or "none"
          retryQueries,
          game,           \* the game thread's place in a transaction
          next,           \* its next statement
          net,            \* the network thread's place in a statement
          alive,          \* the session of handle exists
          inTxn, buffer,  \* the session's open transaction and its statements
          durable,        \* how often each statement has been made permanent
          losses, txns, statements

vars == <<databaseLock, retryQueries, game, next, net, alive, inTxn, buffer, durable,
          losses, txns, statements>>

Body == 1 .. TxnLength

\* Statement 0 is the network thread's.
Statements == 0 .. TxnLength

Members(s) == {s[i] : i \in DOMAIN s}

TypeOK ==
    /\ databaseLock \in {"none", "game", "net"}
    /\ retryQueries \in BOOLEAN /\ alive \in BOOLEAN /\ inTxn \in BOOLEAN
    /\ game \in {"idle", "begin", "body", "commit", "rollback", "undo"}
    /\ next \in 1 .. TxnLength + 1
    /\ net \in {"idle", "wait", "query"}
    /\ buffer \in Seq(Statements)
    /\ durable \in [Statements -> Nat]
    /\ losses \in 0 .. MaxLosses /\ txns \in 0 .. MaxTxns /\ statements \in 0 .. MaxStatements

Init ==
    /\ databaseLock = "none" /\ retryQueries = TRUE
    /\ game = "idle" /\ next = 1 /\ net = "idle"
    /\ alive = TRUE /\ inTxn = FALSE /\ buffer = <<>>
    /\ durable = [s \in Statements |-> 0]
    /\ losses = 0 /\ txns = 0 /\ statements = 0

-----------------------------------------------------------------------------
(* The server                                                              *)

\* Executing a statement: in the open transaction, or permanent at once.
ServerExecutes(s) ==
    IF inTxn THEN buffer' = Append(buffer, s) /\ UNCHANGED <<durable, inTxn>>
    ELSE durable' = [durable EXCEPT ![s] = @ + 1] /\ UNCHANGED <<buffer, inTxn>>

ServerEndsTxn(commits) ==
    /\ inTxn' = FALSE
    /\ buffer' = <<>>
    /\ durable' = IF commits
                  THEN [s \in Statements |->
                           durable[s] + (IF s \in Members(buffer) THEN 1 ELSE 0)]
                  ELSE durable

\* The session ends; its transaction is rolled back.
Lose ==
    /\ losses < MaxLosses
    /\ losses' = losses + 1
    /\ alive' = FALSE

\* The connection breaks while no statement is under way.
LoseIdle ==
    /\ alive /\ Lose
    /\ ServerEndsTxn(FALSE)
    /\ UNCHANGED <<databaseLock, retryQueries, game, next, net, txns, statements>>

\* connectToDatabase(handle, true), from executeQuery: repeated until it works.
Reconnects(thread) ==
    /\ databaseLock = thread
    /\ ~alive /\ retryQueries
    /\ alive' = TRUE
    /\ inTxn' = FALSE /\ buffer' = <<>>
    /\ UNCHANGED <<databaseLock, retryQueries, game, next, net, durable, losses, txns, statements>>

\* The statement answers with success, or with an error that is not a loss.
Succeeds(s) == alive /\ ServerExecutes(s) /\ UNCHANGED <<alive, losses>>

Fails == alive /\ UNCHANGED <<alive, losses, inTxn, buffer, durable>>

\* The connection is lost before or after the server executed statement s.
LostBefore == alive /\ Lose /\ ServerEndsTxn(FALSE)

LostAfter(s) ==
    /\ alive /\ Lose
    /\ durable' = IF inTxn THEN durable ELSE [durable EXCEPT ![s] = @ + 1]
    /\ inTxn' = FALSE /\ buffer' = <<>>

\* No session and no retry: mysql_real_query fails at once.
FailsDead == ~alive /\ ~retryQueries /\ UNCHANGED <<alive, losses, inTxn, buffer, durable>>

-----------------------------------------------------------------------------
(* DBTransaction on the game thread                                        *)

\* begin(): beginTransaction takes the lock ...
TxnBegin ==
    /\ game = "idle" /\ txns < MaxTxns
    /\ databaseLock = "none"
    /\ databaseLock' = "game"
    /\ game' = "begin" /\ next' = 1
    /\ txns' = txns + 1
    /\ UNCHANGED <<retryQueries, net, alive, inTxn, buffer, durable, losses, statements>>

\* Seeded fault: beginTransaction leaves retryQueries set.
TxnStarted_Retries ==
    /\ game = "begin" /\ alive
    /\ inTxn' = TRUE /\ buffer' = <<>>
    /\ retryQueries' = retryQueries
    /\ game' = "body"
    /\ UNCHANGED <<databaseLock, next, net, alive, durable, losses, txns, statements>>

\* ... and START TRANSACTION succeeds,
TxnStarted ==
    /\ game = "begin" /\ alive
    /\ inTxn' = TRUE /\ buffer' = <<>>
    /\ retryQueries' = FALSE
    /\ game' = "body"
    /\ UNCHANGED <<databaseLock, next, net, alive, durable, losses, txns, statements>>

\* ... or fails: the lock is released, and the destructor of the DBTransaction,
\* whose state is already STATE_START, rolls back all the same.
TxnNotStarted ==
    /\ game = "begin" /\ alive
    /\ retryQueries' = TRUE
    /\ databaseLock' = "none"
    /\ game' = "undo"
    /\ UNCHANGED <<next, net, alive, inTxn, buffer, durable, losses, txns, statements>>

\* START TRANSACTION meets a lost connection; executeQuery reconnects and repeats it.
TxnBeginLost ==
    /\ game = "begin" /\ LostBefore
    /\ UNCHANGED <<databaseLock, retryQueries, game, next, net, txns, statements>>

\* That rollback, without a transaction.  Its ROLLBACK takes the lock for
\* itself; the unlock of a recursive mutex this thread does not hold is refused
\* by the C library and changes nothing.
UndoNothing ==
    /\ game = "undo" /\ databaseLock = "none"
    /\ alive
    /\ retryQueries' = TRUE
    /\ game' = "idle"
    /\ UNCHANGED <<databaseLock, next, net, alive, inTxn, buffer, durable, losses, txns, statements>>

UndoReconnects ==
    /\ game = "undo" /\ databaseLock = "none"
    /\ ~alive /\ retryQueries
    /\ alive' = TRUE
    /\ UNCHANGED <<databaseLock, retryQueries, game, next, net, inTxn, buffer, durable, losses,
                   txns, statements>>

\* The caller goes on to its next statement, or to commit().
Advance ==
    /\ next' = next + 1
    /\ game' = IF next = TxnLength THEN "commit" ELSE "body"

TxnStatement ==
    /\ game = "body"
    /\ Succeeds(next)
    /\ Advance
    /\ UNCHANGED <<databaseLock, retryQueries, net, txns, statements>>

\* A failed statement makes the caller return, and the destructor rolls back.
GiveUp == IF next \in Unchecked THEN Advance ELSE game' = "rollback" /\ UNCHANGED next

TxnStatementFails ==
    /\ game = "body"
    /\ \/ Fails /\ GiveUp
       \/ FailsDead /\ GiveUp
       \/ LostBefore /\ IF retryQueries THEN UNCHANGED <<game, next>> ELSE GiveUp
       \/ LostAfter(next) /\ IF retryQueries THEN UNCHANGED <<game, next>> ELSE GiveUp
    /\ UNCHANGED <<databaseLock, retryQueries, net, txns, statements>>

\* The end of commit() and rollback().
TxnUnlock ==
    /\ retryQueries' = TRUE
    /\ databaseLock' = "none"
    /\ game' = "idle"
    /\ UNCHANGED <<next, net, txns, statements>>

\* commit(): the answer can be lost although the server committed.
TxnCommit ==
    /\ game = "commit"
    /\ \/ alive /\ ServerEndsTxn(TRUE) /\ UNCHANGED <<alive, losses>>
       \/ alive /\ Lose /\ ServerEndsTxn(TRUE)
       \/ LostBefore
       \/ FailsDead
    /\ TxnUnlock

\* rollback(), from the destructor.
TxnRollback ==
    /\ game = "rollback"
    /\ \/ alive /\ ServerEndsTxn(FALSE) /\ UNCHANGED <<alive, losses>>
       \/ LostBefore
       \/ FailsDead
    /\ TxnUnlock

-----------------------------------------------------------------------------
(* A single statement on the network thread                                *)

NetCall ==
    /\ net = "idle" /\ statements < MaxStatements
    /\ net' = "wait"
    /\ statements' = statements + 1
    /\ UNCHANGED <<databaseLock, retryQueries, game, next, alive, inTxn, buffer, durable, losses, txns>>

NetLock ==
    /\ net = "wait" /\ databaseLock = "none"
    /\ databaseLock' = "net"
    /\ net' = "query"
    /\ UNCHANGED <<retryQueries, game, next, alive, inTxn, buffer, durable, losses, txns, statements>>

NetQuery ==
    /\ net = "query"
    /\ Succeeds(0) \/ Fails \/ FailsDead
    /\ net' = "idle"
    /\ databaseLock' = "none"
    /\ UNCHANGED <<retryQueries, game, next, txns, statements>>

\* The loss is answered by a reconnect and the same statement again.
NetQueryLost ==
    /\ net = "query"
    /\ LostBefore \/ LostAfter(0)
    /\ UNCHANGED <<databaseLock, retryQueries, game, next, net, txns, statements>>

GameStep ==
    \/ TxnStarted \/ TxnNotStarted \/ UndoNothing \/ UndoReconnects
    \/ TxnStatement \/ TxnStatementFails \/ TxnCommit \/ TxnRollback \/ Reconnects("game")

NetStep == NetLock \/ NetQuery \/ Reconnects("net")

Next ==
    \/ TxnBegin \/ TxnBeginLost \/ GameStep
    \/ NetCall \/ NetStep \/ NetQueryLost \/ LoseIdle

\* Threads run, the mutex is given to a thread that waits for it again and
\* again, and the server comes back.
Fairness == WF_vars(GameStep) /\ SF_vars(NetStep)

Spec == Init /\ [][Next]_vars /\ Fairness

-----------------------------------------------------------------------------
(* Properties                                                              *)

\* A transaction is saved as a whole or not at all, although the connection
\* may be lost at any point of it: no statement of it is repeated on a new
\* session, where it would be permanent by itself.  A statement whose failure
\* the caller ignores can be missing, but is never saved without the others.
AllOrNothing ==
    game \in {"idle", "undo"} =>
        \A s \in Body, t \in Body \ Unchecked :
            durable[s] <= durable[t] /\ (s \notin Unchecked => durable[s] = durable[t])

\* No statement of the other thread slips into the transaction.
TxnIsolated ==
    inTxn => 0 \notin Members(buffer) /\ databaseLock = "game" /\ net # "query"

\* The network thread is not locked out for ever: each call returns.
NetReturns == (net # "idle") ~> (net = "idle")

=============================================================================
