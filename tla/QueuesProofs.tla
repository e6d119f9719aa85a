----------------------------- MODULE QueuesProofs -----------------------------
(***************************************************************************)
(* Theorems about Queues, for any tasks, statements, players and hooks.    *)
(***************************************************************************)
EXTENDS Queues, FiniteSetTheorems, SequenceTheorems, WellFoundedInduction, TLAPS

-----------------------------------------------------------------------------
(* The database: a transaction is whole and alone                          *)

InBody == {"body", "commit", "rollback"}

\* Who holds the lock, and what the session is in.
DbControl ==
    /\ game \in {"begin"} \cup InBody <=> databaseLock = "game"
    /\ net = "query" <=> databaseLock = "net"
    /\ retryQueries <=> game \notin InBody
    /\ inTxn => alive /\ game \in InBody
    /\ alive /\ game \in {"body", "commit"} => inTxn
    /\ game = "begin" => next = 1
    /\ game = "body" => next \in Db!Body
    /\ game = "commit" => next = TxnLength + 1

\* An open transaction has the statements before next, and none of the other
\* thread; one whose failure is ignored may be missing.
DbBuffer ==
    inTxn =>
        /\ Db!Members(buffer) \subseteq Db!Body
        /\ game \in {"body", "commit"} =>
              \A t \in Db!Body \ Unchecked : t < next => t \in Db!Members(buffer)

\* What is permanent is whole, at any time.
DbDurable ==
    \A s \in Db!Body, t \in Db!Body \ Unchecked :
        durable[s] <= durable[t] /\ (s \notin Unchecked => durable[s] = durable[t])

DbTyped == buffer \in Seq(Db!Statements) /\ durable \in [Db!Statements -> Nat] /\ next \in Nat

DbInv == DbTyped /\ DbControl /\ DbBuffer /\ DbDurable

\* A statement more in the buffer.
LEMMA DbMembers ==
    ASSUME NEW S, NEW b \in Seq(S), NEW x
    PROVE  /\ Db!Members(<<>>) = {}
           /\ Db!Members(Append(b, x)) = Db!Members(b) \cup {x}
<1>1. Db!Members(<<>>) = {}
  BY DEF Db!Members
<1> DEFINE a == Append(b, x)
           n == Len(b)
<1>2. n \in Nat /\ DOMAIN b = 1..n
  BY LenProperties
<1>3. b \in Seq(S \cup {x}) /\ x \in S \cup {x}
  BY SeqMonotonic
<1>4. DOMAIN a = 1..(n + 1) /\ \A i \in 1..n : a[i] = b[i]
  BY <1>2, <1>3, AppendProperties
<1>5. a[n + 1] = x
  BY <1>2, <1>3, AppendProperties
<1> HIDE DEF a, n
<1>6. 1..(n + 1) = (1..n) \cup {n + 1}
  BY <1>2
<1>7. Db!Members(a) = Db!Members(b) \cup {x}
  BY <1>2, <1>4, <1>5, <1>6 DEF Db!Members
<1> QED
  BY <1>1, <1>7 DEF a

\* The invariant of the database holds at first.
LEMMA DbInit == Db!Init => DbInv
<1> USE ConstantsAssumption
<1> SUFFICES ASSUME Db!Init PROVE DbInv
  OBVIOUS
<1>1. DbTyped
  BY DEF Db!Init, DbTyped, Db!Statements
<1>2. DbControl /\ DbBuffer
  BY DEF Db!Init, DbControl, DbBuffer, InBody
<1>3. DbDurable
  BY DEF Db!Init, DbDurable, Db!Body, Db!Statements
<1> QED
  BY <1>1, <1>2, <1>3 DEF DbInv

\* What the server does with the open transaction.
LEMMA DbServer ==
    ASSUME DbTyped
    PROVE  /\ \A s \in Db!Statements : Db!ServerExecutes(s) => (DbTyped' <=> next' \in Nat)
           /\ \A s \in Db!Statements : Db!LostAfter(s) => (DbTyped' <=> next' \in Nat)
           /\ \A c \in BOOLEAN : Db!ServerEndsTxn(c) => (DbTyped' <=> next' \in Nat)
<1> USE ConstantsAssumption DEF DbTyped
<1>1. <<>> \in Seq(Db!Statements)
  OBVIOUS
<1>2. ASSUME NEW s \in Db!Statements
      PROVE  /\ Append(buffer, s) \in Seq(Db!Statements)
             /\ [durable EXCEPT ![s] = @ + 1] \in [Db!Statements -> Nat]
  <2>1. Append(buffer, s) \in Seq(Db!Statements)
    BY AppendProperties
  <2>2. durable[s] + 1 \in Nat
    OBVIOUS
  <2> QED BY <2>1, <2>2
<1>3. ASSUME NEW s \in Db!Statements, Db!ServerExecutes(s)
      PROVE  DbTyped' <=> next' \in Nat
  BY <1>2, <1>3 DEF Db!ServerExecutes
<1>4. ASSUME NEW s \in Db!Statements, Db!LostAfter(s)
      PROVE  DbTyped' <=> next' \in Nat
  BY <1>1, <1>2, <1>4 DEF Db!LostAfter
<1>5. ASSUME NEW c \in BOOLEAN, Db!ServerEndsTxn(c)
      PROVE  DbTyped' <=> next' \in Nat
  <2>1. [s \in Db!Statements |-> durable[s] + (IF s \in Db!Members(buffer) THEN 1 ELSE 0)]
           \in [Db!Statements -> Nat]
    OBVIOUS
  <2> QED BY <1>1, <1>5, <2>1 DEF Db!ServerEndsTxn
<1> QED BY <1>3, <1>4, <1>5

\* Each step keeps the lock and the transaction with their owners.
LEMMA DbControlNext ==
    ASSUME DbTyped, DbControl, Db!Next
    PROVE  DbControl'
<1> USE ConstantsAssumption DEF DbTyped, DbControl, InBody, Db!Body
<1>1. CASE Db!TxnBegin
  BY <1>1 DEF Db!TxnBegin
<1>2. CASE Db!TxnBeginLost
  BY <1>2 DEF Db!TxnBeginLost, Db!LostBefore, Db!Lose, Db!ServerEndsTxn
<1>3. CASE Db!TxnStarted
  BY <1>3 DEF Db!TxnStarted
<1>4. CASE Db!TxnNotStarted
  BY <1>4 DEF Db!TxnNotStarted
<1>5. CASE Db!UndoNothing
  BY <1>5 DEF Db!UndoNothing
<1>6. CASE Db!UndoReconnects
  BY <1>6 DEF Db!UndoReconnects
<1>7. CASE Db!TxnStatement
  BY <1>7 DEF Db!TxnStatement, Db!Succeeds, Db!ServerExecutes, Db!Advance
<1>8. CASE Db!TxnStatementFails
  BY <1>8 DEF Db!TxnStatementFails, Db!Fails, Db!FailsDead, Db!LostBefore, Db!LostAfter,
              Db!Lose, Db!ServerEndsTxn, Db!GiveUp, Db!Advance
<1>9. CASE Db!TxnCommit
  BY <1>9 DEF Db!TxnCommit, Db!TxnUnlock, Db!ServerEndsTxn, Db!Lose, Db!LostBefore, Db!FailsDead
<1>10. CASE Db!TxnRollback
  BY <1>10 DEF Db!TxnRollback, Db!TxnUnlock, Db!ServerEndsTxn, Db!Lose, Db!LostBefore, Db!FailsDead
<1>11. CASE Db!Reconnects("game") \/ Db!Reconnects("net")
  BY <1>11 DEF Db!Reconnects
<1>12. CASE Db!NetCall
  BY <1>12 DEF Db!NetCall
<1>13. CASE Db!NetLock
  BY <1>13 DEF Db!NetLock
<1>14. CASE Db!NetQuery
  BY <1>14 DEF Db!NetQuery, Db!Succeeds, Db!ServerExecutes, Db!Fails, Db!FailsDead
<1>15. CASE Db!NetQueryLost
  BY <1>15 DEF Db!NetQueryLost, Db!LostBefore, Db!LostAfter, Db!Lose, Db!ServerEndsTxn
<1>16. CASE Db!LoseIdle
  BY <1>16 DEF Db!LoseIdle, Db!Lose, Db!ServerEndsTxn
<1> QED
  BY <1>1, <1>2, <1>3, <1>4, <1>5, <1>6, <1>7, <1>8, <1>9, <1>10, <1>11, <1>12, <1>13, <1>14,
     <1>15, <1>16 DEF Db!Next, Db!GameStep, Db!NetStep

\* Counts stay counts, and the buffer a list of statements.
LEMMA DbTypedNext ==
    ASSUME DbTyped, DbControl, Db!Next
    PROVE  DbTyped'
<1> USE ConstantsAssumption
<1> SUFFICES (DbTyped' <=> next' \in Nat) /\ next' \in Nat
  OBVIOUS
<1>1. /\ next \in Nat /\ next + 1 \in Nat /\ 1 \in Nat /\ TRUE \in BOOLEAN /\ FALSE \in BOOLEAN
      /\ 0 \in Db!Statements
      /\ game = "body" => next \in Db!Statements
  BY DEF DbTyped, DbControl, Db!Statements, Db!Body
<1>2. next' \in Nat
  <2>1. CASE Db!TxnBegin \/ Db!TxnBeginLost \/ Db!TxnStarted \/ Db!TxnNotStarted \/ Db!UndoNothing \/ Db!UndoReconnects
             \/ Db!TxnCommit \/ Db!TxnRollback \/ Db!Reconnects("game") \/ Db!Reconnects("net")
    BY <1>1, <2>1 DEF Db!TxnBegin, Db!TxnBeginLost, Db!TxnStarted, Db!TxnNotStarted, Db!UndoNothing,
       Db!UndoReconnects, Db!TxnCommit, Db!TxnRollback, Db!Reconnects, Db!TxnUnlock
  <2>2. CASE Db!TxnStatement \/ Db!TxnStatementFails
    BY <1>1, <2>2 DEF Db!TxnStatement, Db!TxnStatementFails, Db!Advance, Db!GiveUp
  <2>3. CASE Db!NetCall \/ Db!NetLock \/ Db!NetQuery \/ Db!NetQueryLost \/ Db!LoseIdle
    BY <1>1, <2>3 DEF Db!NetCall, Db!NetLock, Db!NetQuery, Db!NetQueryLost, Db!LoseIdle
  <2> QED
    BY <2>1, <2>2, <2>3 DEF Db!Next, Db!GameStep, Db!NetStep
<1>3. ASSUME UNCHANGED <<buffer, durable>>
      PROVE  DbTyped' <=> next' \in Nat
  BY <1>3 DEF DbTyped, Db!Statements
<1>4. CASE Db!TxnBegin \/ Db!TxnNotStarted \/ Db!UndoNothing \/ Db!UndoReconnects \/ Db!NetCall \/ Db!NetLock
  <2>1. UNCHANGED <<buffer, durable>>
    BY <1>4 DEF Db!TxnBegin, Db!TxnNotStarted, Db!UndoNothing, Db!UndoReconnects, Db!NetCall, Db!NetLock
  <2> QED BY <1>2, <1>3, <2>1
<1>5. CASE Db!TxnStarted \/ Db!Reconnects("game") \/ Db!Reconnects("net")
  <2>1. buffer' = <<>> /\ durable' = durable
    BY <1>5 DEF Db!TxnStarted, Db!Reconnects
  <2> QED BY <1>2, <2>1 DEF DbTyped, Db!Statements
<1>6. CASE Db!TxnStatement \/ Db!TxnStatementFails
  <2>1. \/ Db!ServerExecutes(next) \/ UNCHANGED <<buffer, durable>>
        \/ Db!ServerEndsTxn(FALSE) \/ Db!LostAfter(next)
    BY <1>6 DEF Db!TxnStatement, Db!TxnStatementFails, Db!Succeeds, Db!Fails, Db!FailsDead, Db!LostBefore
  <2>2. game = "body"
    BY <1>6 DEF Db!TxnStatement, Db!TxnStatementFails
  <2> QED BY <1>1, <1>2, <1>3, <2>1, <2>2, DbServer
<1>7. CASE Db!TxnCommit \/ Db!TxnRollback \/ Db!TxnBeginLost \/ Db!LoseIdle
  <2>1. Db!ServerEndsTxn(TRUE) \/ Db!ServerEndsTxn(FALSE) \/ UNCHANGED <<buffer, durable>>
    BY <1>7 DEF Db!TxnCommit, Db!TxnRollback, Db!TxnBeginLost, Db!LoseIdle, Db!LostBefore, Db!FailsDead
  <2> QED BY <1>1, <1>2, <1>3, <2>1, DbServer
<1>8. CASE Db!NetQuery \/ Db!NetQueryLost
  <2>1. \/ Db!ServerExecutes(0) \/ UNCHANGED <<buffer, durable>>
        \/ Db!ServerEndsTxn(FALSE) \/ Db!LostAfter(0)
    BY <1>8 DEF Db!NetQuery, Db!NetQueryLost, Db!Succeeds, Db!Fails, Db!FailsDead, Db!LostBefore
  <2> QED BY <1>1, <1>2, <1>3, <2>1, DbServer
<1> QED
  BY <1>2, <1>4, <1>5, <1>6, <1>7, <1>8 DEF Db!Next, Db!GameStep, Db!NetStep

\* A transaction that is open grows by its own statements only.
LEMMA DbBufferNext ==
    ASSUME DbTyped, DbControl, DbBuffer, Db!Next
    PROVE  DbBuffer'
<1> USE ConstantsAssumption
<1> SUFFICES ASSUME inTxn'
             PROVE  /\ Db!Members(buffer)' \subseteq Db!Body
                    /\ game' \in {"body", "commit"} =>
                          \A t \in Db!Body \ Unchecked : t < next' => t \in Db!Members(buffer)'
  BY DEF DbBuffer, Db!Body
<1>1. ASSUME UNCHANGED <<inTxn, buffer, next>>, game' = game \/ game' \notin {"body", "commit"}
      PROVE  /\ Db!Members(buffer)' \subseteq Db!Body
             /\ game' \in {"body", "commit"} =>
                   \A t \in Db!Body \ Unchecked : t < next' => t \in Db!Members(buffer)'
  BY <1>1 DEF DbBuffer, Db!Members
<1>2. CASE Db!TxnStarted
  <2>1. buffer' = <<>> /\ next' = 1 /\ game' = "body"
    BY <1>2 DEF Db!TxnStarted, DbControl
  <2>2. Db!Members(buffer)' = {}
    BY <2>1, DbMembers DEF Db!Members
  <2>3. \A t \in Db!Body : ~(t < next')
    BY <2>1 DEF Db!Body
  <2> QED BY <2>2, <2>3
<1>3. CASE Db!TxnStatement
  <2>1. game = "body" /\ alive /\ inTxn /\ next \in Db!Body /\ next' = next + 1
    BY <1>3 DEF Db!TxnStatement, Db!Succeeds, Db!Advance, DbControl
  <2>2. buffer' = Append(buffer, next)
    BY <1>3, <2>1 DEF Db!TxnStatement, Db!Succeeds, Db!ServerExecutes
  <2>3. Db!Members(buffer)' = Db!Members(buffer) \cup {next}
    <3>1. buffer \in Seq(Db!Statements)
      BY DEF DbTyped
    <3>2. Db!Members(Append(buffer, next)) = Db!Members(buffer) \cup {next}
      BY <3>1, DbMembers
    <3>3. Db!Members(buffer)' = Db!Members(buffer')
      BY DEF Db!Members
    <3> QED BY <2>2, <3>2, <3>3
  <2>4. \A t \in Db!Body : t < next' => t < next \/ t = next
    BY <2>1 DEF Db!Body
  <2> QED BY <2>1, <2>3, <2>4 DEF DbBuffer
<1>4. CASE Db!TxnStatementFails
  <2>1. game = "body" /\ next \in Db!Body
    BY <1>4 DEF Db!TxnStatementFails, DbControl
  <2>2. inTxn /\ buffer' = buffer /\ Db!GiveUp
    BY <1>4 DEF Db!TxnStatementFails, Db!Fails, Db!FailsDead, Db!LostBefore, Db!LostAfter, Db!ServerEndsTxn
  <2>3. CASE next \in Unchecked
    <3>1. next' = next + 1
      BY <2>2, <2>3 DEF Db!GiveUp, Db!Advance
    <3>2. \A t \in Db!Body \ Unchecked : t < next' => t < next
      BY <2>1, <2>3, <3>1 DEF Db!Body
    <3> QED BY <2>1, <2>2, <3>2 DEF DbBuffer, Db!Members
  <2>4. CASE next \notin Unchecked
    BY <2>2, <2>4 DEF Db!GiveUp, DbBuffer, Db!Members
  <2> QED BY <2>3, <2>4
<1>5. CASE Db!TxnBegin \/ Db!TxnNotStarted \/ Db!UndoNothing \/ Db!UndoReconnects \/ Db!NetCall \/ Db!NetLock
  <2>1. UNCHANGED <<inTxn, buffer>>
    BY <1>5 DEF Db!TxnBegin, Db!TxnNotStarted, Db!UndoNothing, Db!UndoReconnects, Db!NetCall, Db!NetLock
  <2>2. UNCHANGED next \/ ~inTxn
    BY <1>5 DEF Db!TxnBegin, Db!TxnNotStarted, Db!UndoNothing, Db!UndoReconnects, Db!NetCall, Db!NetLock,
                DbControl, InBody
  <2>3. game' = game \/ game' \notin {"body", "commit"}
    BY <1>5 DEF Db!TxnBegin, Db!TxnNotStarted, Db!UndoNothing, Db!UndoReconnects, Db!NetCall, Db!NetLock
  <2> QED BY <1>1, <2>1, <2>2, <2>3
<1>6. CASE Db!TxnBeginLost \/ Db!LoseIdle \/ Db!Reconnects("game") \/ Db!Reconnects("net") \/ Db!TxnCommit
           \/ Db!TxnRollback \/ Db!NetQueryLost
  <2>1. ~alive => ~inTxn
    BY DEF DbControl
  <2>2. ~inTxn'
    BY <1>6, <2>1 DEF Db!TxnBeginLost, Db!LoseIdle, Db!Reconnects, Db!TxnCommit, Db!TxnRollback, Db!NetQueryLost,
                Db!LostBefore, Db!LostAfter, Db!ServerEndsTxn, Db!FailsDead
  <2> QED BY <2>2
<1>7. CASE Db!NetQuery
  <2>1. ~inTxn
    BY <1>7 DEF Db!NetQuery, DbControl, InBody
  <2>2. ~inTxn'
    BY <1>7, <2>1 DEF Db!NetQuery, Db!Succeeds, Db!ServerExecutes, Db!Fails, Db!FailsDead
  <2> QED BY <2>2
<1> QED
  BY <1>2, <1>3, <1>4, <1>5, <1>6, <1>7 DEF Db!Next, Db!GameStep, Db!NetStep

\* Only a commit makes statements of a transaction permanent, and it takes all of them.
LEMMA DbDurableNext ==
    ASSUME DbInv, Db!Next
    PROVE  DbDurable'
<1> USE ConstantsAssumption
<1>1. ASSUME \A s \in Db!Body : durable'[s] = durable[s]
      PROVE  DbDurable'
  BY <1>1 DEF DbInv, DbDurable, Db!Body
<1>2. Db!Body \subseteq Db!Statements /\ 0 \notin Db!Body /\ 0 \in Db!Statements
  BY DEF Db!Body, Db!Statements
<1>3. ASSUME Db!ServerEndsTxn(FALSE) \/ UNCHANGED durable
      PROVE  DbDurable'
  BY <1>1, <1>3 DEF Db!ServerEndsTxn
<1>4. CASE Db!TxnCommit
  <2>1. CASE Db!ServerEndsTxn(TRUE) /\ alive
    <3> DEFINE d(s) == durable[s] + (IF s \in Db!Members(buffer) THEN 1 ELSE 0)
    <3>1. \A s \in Db!Body : durable'[s] = d(s)
      BY <1>2, <2>1 DEF Db!ServerEndsTxn
    <3>2. inTxn /\ next = TxnLength + 1
      BY <1>4, <2>1 DEF Db!TxnCommit, DbInv, DbControl
    <3>3. \A t \in Db!Body \ Unchecked : t \in Db!Members(buffer)
      BY <1>4, <3>2 DEF Db!TxnCommit, DbInv, DbBuffer, Db!Body
    <3>4. \A s \in Db!Body : durable[s] \in Nat
      BY <1>2 DEF DbInv, DbTyped
    <3>5. ASSUME NEW s \in Db!Body, NEW t \in Db!Body \ Unchecked
          PROVE  d(s) <= d(t) /\ (s \notin Unchecked => d(s) = d(t))
      <4>1. durable[s] \in Nat /\ durable[t] \in Nat /\ durable[s] <= durable[t]
            /\ (s \notin Unchecked => durable[s] = durable[t])
        BY <3>4 DEF DbInv, DbDurable
      <4>2. d(t) = durable[t] + 1
        BY <3>3
      <4>3. d(s) = durable[s] \/ d(s) = durable[s] + 1
        BY <4>1
      <4>4. s \notin Unchecked => d(s) = durable[s] + 1
        BY <3>3
      <4> HIDE DEF d
      <4> QED BY <4>1, <4>2, <4>3, <4>4
    <3> HIDE DEF d
    <3>6. \A s \in Db!Body, t \in Db!Body \ Unchecked :
             durable'[s] <= durable'[t] /\ (s \notin Unchecked => durable'[s] = durable'[t])
      BY <3>1, <3>5
    <3> QED BY <3>6 DEF DbDurable, Db!Body
  <2>2. CASE ~(Db!ServerEndsTxn(TRUE) /\ alive)
    <3>1. Db!ServerEndsTxn(FALSE) \/ UNCHANGED durable
      BY <1>4, <2>2 DEF Db!TxnCommit, Db!LostBefore, Db!FailsDead
    <3> QED BY <1>3, <3>1
  <2> QED BY <2>1, <2>2
<1>5. CASE Db!TxnStatement \/ Db!TxnStatementFails
  <2>1. alive => inTxn
    BY <1>5 DEF Db!TxnStatement, Db!TxnStatementFails, DbInv, DbControl
  <2>2. UNCHANGED durable
    BY <1>5, <2>1 DEF Db!TxnStatement, Db!TxnStatementFails, Db!Succeeds, Db!ServerExecutes, Db!Fails,
                      Db!FailsDead, Db!LostBefore, Db!LostAfter, Db!ServerEndsTxn
  <2> QED BY <1>3, <2>2
<1>6. CASE Db!NetQuery \/ Db!NetQueryLost
  <2>1. durable' = durable \/ durable' = [durable EXCEPT ![0] = @ + 1]
    BY <1>6 DEF Db!NetQuery, Db!NetQueryLost, Db!Succeeds, Db!ServerExecutes, Db!Fails,
                Db!FailsDead, Db!LostBefore, Db!LostAfter, Db!ServerEndsTxn
  <2>2. durable \in [Db!Statements -> Nat]
    BY DEF DbInv, DbTyped
  <2>3. \A s \in Db!Body : durable'[s] = durable[s]
    BY <1>2, <2>1, <2>2
  <2> QED BY <1>1, <2>3
<1>7. CASE Db!TxnBegin \/ Db!TxnNotStarted \/ Db!UndoNothing \/ Db!UndoReconnects \/ Db!NetCall \/ Db!NetLock
           \/ Db!TxnStarted \/ Db!TxnBeginLost \/ Db!LoseIdle \/ Db!Reconnects("game") \/ Db!Reconnects("net")
           \/ Db!TxnRollback
  <2>1. Db!ServerEndsTxn(FALSE) \/ UNCHANGED durable
    BY <1>7 DEF Db!TxnBegin, Db!TxnNotStarted, Db!UndoNothing, Db!UndoReconnects, Db!NetCall, Db!NetLock,
                Db!TxnStarted, Db!TxnBeginLost, Db!LoseIdle, Db!Reconnects, Db!TxnRollback, Db!LostBefore,
                Db!FailsDead
  <2> QED BY <1>3, <2>1
<1> QED
  BY <1>4, <1>5, <1>6, <1>7 DEF Db!Next, Db!GameStep, Db!NetStep

\* The four parts together.
LEMMA DbNext == DbInv /\ Db!Next => DbInv'
BY DbControlNext, DbTypedNext, DbBufferNext, DbDurableNext DEF DbInv

\* The steps of other parts leave the database alone.
LEMMA DbStutters == DbInv /\ UNCHANGED databaseVars => DbInv'
<1> SUFFICES ASSUME DbInv, UNCHANGED databaseVars PROVE DbInv'
  OBVIOUS
<1> USE DEF databaseVars
<1>1. DbTyped'
  BY DEF DbInv, DbTyped, Db!Statements
<1>2. DbControl'
  BY DEF DbInv, DbControl, InBody, Db!Body
<1>3. DbBuffer'
  BY DEF DbInv, DbBuffer, Db!Body, Db!Members
<1>4. DbDurable'
  BY DEF DbInv, DbDurable, Db!Body
<1> QED BY <1>1, <1>2, <1>3, <1>4 DEF DbInv

\* What a save relies on.
LEMMA DbSafe == DbInv => Db!AllOrNothing /\ Db!TxnIsolated
<1> SUFFICES ASSUME DbInv PROVE Db!AllOrNothing /\ Db!TxnIsolated
  OBVIOUS
<1>1. Db!AllOrNothing
  BY DEF DbInv, DbDurable, Db!AllOrNothing
<1>2. Db!TxnIsolated
  <2> SUFFICES ASSUME inTxn PROVE 0 \notin Db!Members(buffer) /\ databaseLock = "game" /\ net # "query"
    BY DEF Db!TxnIsolated
  <2>1. 0 \notin Db!Members(buffer)
    BY DEF DbInv, DbBuffer, Db!Body
  <2>2. databaseLock = "game" /\ net # "query"
    BY DEF DbInv, DbControl, InBody
  <2> QED BY <2>1, <2>2
<1> QED BY <1>1, <1>2

-----------------------------------------------------------------------------
(* The hooks: the Lua stack is given back                                  *)

\* A hook tells protectedCall as many arguments as it has pushed, and takes
\* as many results as it has asked for.
Agrees(h) ==
    /\ h.params = Len(h.pushed) /\ h.params \in Nat
    /\ h.results = h.taken /\ h.results \in Nat

\* Every hook of the engine does, the hooks taken one by one.
LEMMA HooksAgree == \A h \in Re!AllHooks : Agrees(h)
<1> USE DEF Agrees, Re!Asks, Re!Tells, Re!Permits, Re!Counts, Re!Changes, Re!Rolls, Re!Runs, Re!Speaks, Re!Hook
<1>1. Agrees(Re!eventMonsterOnSpawn) /\ Agrees(Re!eventCreatureOnChangeOutfit) /\
      Agrees(Re!eventCreatureOnAreaCombat) /\ Agrees(Re!eventCreatureOnTargetCombat) /\
      Agrees(Re!eventCreatureOnHear) /\ Agrees(Re!eventCreatureOnChangeZone) /\
      Agrees(Re!eventCreatureOnUpdateStorage) /\ Agrees(Re!eventPartyOnJoin) /\
      Agrees(Re!eventPartyOnLeave)
  BY DEF Re!eventMonsterOnSpawn, Re!eventCreatureOnChangeOutfit, Re!eventCreatureOnAreaCombat,
         Re!eventCreatureOnTargetCombat, Re!eventCreatureOnHear, Re!eventCreatureOnChangeZone,
         Re!eventCreatureOnUpdateStorage, Re!eventPartyOnJoin, Re!eventPartyOnLeave
<1>2. Agrees(Re!eventPartyOnDisband) /\ Agrees(Re!eventPartyOnShareExperience) /\
      Agrees(Re!eventPartyOnInvite) /\ Agrees(Re!eventPartyOnRevokeInvitation) /\
      Agrees(Re!eventPartyOnPassLeadership) /\ Agrees(Re!eventPlayerOnLook) /\
      Agrees(Re!eventPlayerOnLookInBattleList) /\ Agrees(Re!eventPlayerOnLookInTrade) /\
      Agrees(Re!eventPlayerOnLookInShop)
  BY DEF Re!eventPartyOnDisband, Re!eventPartyOnShareExperience, Re!eventPartyOnInvite,
         Re!eventPartyOnRevokeInvitation, Re!eventPartyOnPassLeadership, Re!eventPlayerOnLook,
         Re!eventPlayerOnLookInBattleList, Re!eventPlayerOnLookInTrade, Re!eventPlayerOnLookInShop
<1>3. Agrees(Re!eventPlayerOnMoveItem) /\ Agrees(Re!eventPlayerOnItemMoved) /\
      Agrees(Re!eventPlayerOnMoveCreature) /\ Agrees(Re!eventPlayerOnReportRuleViolation) /\
      Agrees(Re!eventPlayerOnReportBug) /\ Agrees(Re!eventPlayerOnTurn) /\
      Agrees(Re!eventPlayerOnTradeRequest) /\ Agrees(Re!eventPlayerOnTradeAccept) /\
      Agrees(Re!eventPlayerOnTradeCompleted)
  BY DEF Re!eventPlayerOnMoveItem, Re!eventPlayerOnItemMoved, Re!eventPlayerOnMoveCreature,
         Re!eventPlayerOnReportRuleViolation, Re!eventPlayerOnReportBug, Re!eventPlayerOnTurn,
         Re!eventPlayerOnTradeRequest, Re!eventPlayerOnTradeAccept, Re!eventPlayerOnTradeCompleted
<1>4. Agrees(Re!eventPlayerOnGainExperience) /\ Agrees(Re!eventPlayerOnLoseExperience) /\
      Agrees(Re!eventPlayerOnGainSkillTries) /\ Agrees(Re!eventPlayerOnNetworkMessage) /\
      Agrees(Re!eventPlayerOnUpdateInventory) /\ Agrees(Re!eventPlayerOnAccountManager) /\
      Agrees(Re!eventPlayerOnRotateItem) /\ Agrees(Re!eventPlayerOnSpellCheck) /\
      Agrees(Re!eventMonsterOnDropLoot)
  BY DEF Re!eventPlayerOnGainExperience, Re!eventPlayerOnLoseExperience, Re!eventPlayerOnGainSkillTries,
         Re!eventPlayerOnNetworkMessage, Re!eventPlayerOnUpdateInventory,
         Re!eventPlayerOnAccountManager, Re!eventPlayerOnRotateItem, Re!eventPlayerOnSpellCheck,
         Re!eventMonsterOnDropLoot
<1>5. Agrees(Re!executeOnLogin) /\ Agrees(Re!executeOnLogout) /\ Agrees(Re!executeOnThink) /\
      Agrees(Re!executeOnPrepareDeath) /\ Agrees(Re!executeOnDeath) /\ Agrees(Re!executeAdvance) /\
      Agrees(Re!executeOnKill) /\ Agrees(Re!executeModalWindow) /\ Agrees(Re!executeTextEdit)
  BY DEF Re!executeOnLogin, Re!executeOnLogout, Re!executeOnThink, Re!executeOnPrepareDeath,
         Re!executeOnDeath, Re!executeAdvance, Re!executeOnKill, Re!executeModalWindow,
         Re!executeTextEdit
<1>6. Agrees(Re!executeHealthChange) /\ Agrees(Re!executeManaChange) /\ Agrees(Re!executeExtendedOpcode) /\
      Agrees(Re!GlobalEvent_executeRecord) /\ Agrees(Re!GlobalEvent_executeEvent) /\
      Agrees(Re!executeUse) /\ Agrees(Re!executeSay) /\ Agrees(Re!executeStep) /\
      Agrees(Re!executeEquip)
  BY DEF Re!executeHealthChange, Re!executeManaChange, Re!executeExtendedOpcode,
         Re!GlobalEvent_executeRecord, Re!GlobalEvent_executeEvent, Re!executeUse, Re!executeSay,
         Re!executeStep, Re!executeEquip
<1>7. Agrees(Re!executeAddRemItem) /\ Agrees(Re!executeUseWeapon) /\ Agrees(Re!Npc_onCreatureAppear) /\
      Agrees(Re!Npc_onCreatureDisappear) /\ Agrees(Re!Npc_onCreatureMove) /\
      Agrees(Re!Npc_onCreatureSay) /\ Agrees(Re!Npc_onPlayerTrade) /\
      Agrees(Re!Npc_onPlayerCloseChannel) /\ Agrees(Re!Npc_onPlayerEndTrade)
  BY DEF Re!executeAddRemItem, Re!executeUseWeapon, Re!Npc_onCreatureAppear, Re!Npc_onCreatureDisappear,
         Re!Npc_onCreatureMove, Re!Npc_onCreatureSay, Re!Npc_onPlayerTrade, Re!Npc_onPlayerCloseChannel,
         Re!Npc_onPlayerEndTrade
<1>8. Agrees(Re!Npc_onThink) /\ Agrees(Re!CombatSpell_executeCastSpell) /\
      Agrees(Re!InstantSpell_executeCastSpell) /\ Agrees(Re!RuneSpell_executeCastSpell) /\
      Agrees(Re!getMinMaxValues) /\ Agrees(Re!onTileCombat) /\ Agrees(Re!onTargetCombat) /\
      Agrees(Re!executeCanJoinEvent) /\ Agrees(Re!executeOnJoinEvent)
  BY DEF Re!Npc_onThink, Re!CombatSpell_executeCastSpell, Re!InstantSpell_executeCastSpell,
         Re!RuneSpell_executeCastSpell, Re!getMinMaxValues, Re!onTileCombat, Re!onTargetCombat,
         Re!executeCanJoinEvent, Re!executeOnJoinEvent
<1>9. Agrees(Re!executeOnLeaveEvent) /\ Agrees(Re!executeOnSpeakEvent) /\
      Agrees(Re!ScriptEvent_executeEvent) /\ Agrees(Re!Monster_onCreatureAppear) /\
      Agrees(Re!Monster_onRemoveCreature) /\ Agrees(Re!Monster_onCreatureMove) /\
      Agrees(Re!Monster_onCreatureSay) /\ Agrees(Re!Monster_onThink)
  BY DEF Re!executeOnLeaveEvent, Re!executeOnSpeakEvent, Re!ScriptEvent_executeEvent,
         Re!Monster_onCreatureAppear, Re!Monster_onRemoveCreature, Re!Monster_onCreatureMove,
         Re!Monster_onCreatureSay, Re!Monster_onThink
<1> HIDE DEF Agrees
<1>10. \A h \in Re!EventHooks : Agrees(h)
  BY <1>1, <1>2, <1>3, <1>4 DEF Re!EventHooks
<1>11. \A h \in Re!HandlerHooks : Agrees(h)
  BY <1>5, <1>6, <1>7, <1>8, <1>9 DEF Re!HandlerHooks
<1> QED BY <1>10, <1>11 DEF Re!AllHooks

\* The height of the stack above a frame.
Above(frame) == frame.below + 1 + Len(frame.hook.pushed)

Frame == [hook : Re!AllHooks, below : Nat]

\* The frames lie on each other without a gap: each hook found what the hooks
\* around it had pushed, and nothing else.
HooksInv ==
    /\ frames \in Seq(Frame)
    /\ \A k \in 1..Len(frames) : frames[k].below = IF k = 1 THEN 0 ELSE Above(frames[k - 1])
    /\ lua = IF frames = <<>> THEN 0 ELSE Above(frames[Len(frames)])
    /\ Re!FailsClosed

\* No hook runs at first.
LEMMA HooksInit == Re!HooksInit => HooksInv
<1> SUFFICES ASSUME Re!HooksInit PROVE HooksInv
  OBVIOUS
<1>1. frames = <<>> /\ Len(frames) = 0
  BY DEF Re!HooksInit
<1>2. frames \in Seq(Frame)
  BY <1>1
<1> QED
  BY <1>1, <1>2 DEF Re!HooksInit, HooksInv, Re!FailsClosed

\* What the engine goes on with when a script was not run to its end.
LEMMA HooksAnswer ==
    ASSUME NEW h, NEW how, NEW value, Re!Answered(h, how, value),
           \/ how = "unset" /\ value = Re!Otherwise(h, how)
           \/ how \in {"refused", "failed"} /\ value = Re!Otherwise(h, how)
           \/ how = "done"
    PROVE  Re!FailsClosed'
<1>1. answer'.how = how /\ answer'.value = value
  BY DEF Re!Answered
<1>2. CASE how = "done"
  BY <1>1, <1>2 DEF Re!FailsClosed
<1>3. CASE how # "done"
  <2>1. value \in {"yes", "no", "NOERROR", "NOTPOSSIBLE", "kept", "nothing"}
    BY <1>3 DEF Re!Otherwise
  <2>2. how # "unset" => value \in {"no", "NOTPOSSIBLE", "kept", "nothing"}
    BY <1>3 DEF Re!Otherwise
  <2>3. how \in {"unset", "refused", "failed"}
    BY <1>3
  <2> QED BY <1>1, <2>1, <2>2, <2>3 DEF Re!FailsClosed
<1> QED BY <1>2, <1>3

\* What is answered fails closed, after each step.
LEMMA HooksFailClosedNext == Re!FailsClosed /\ Re!HooksNext => Re!FailsClosed'
<1> SUFFICES ASSUME Re!FailsClosed, Re!HooksNext PROVE Re!FailsClosed'
  OBVIOUS
<1>1. CASE UNCHANGED answer
  BY <1>1 DEF Re!FailsClosed
<1>2. CASE Re!LoadEvents
  BY <1>1, <1>2 DEF Re!LoadEvents
<1>3. ASSUME NEW h \in Re!AllHooks, Re!Unset(h) PROVE Re!FailsClosed'
  BY <1>3, HooksAnswer DEF Re!Unset
<1>4. ASSUME NEW h \in Re!AllHooks, Re!Refused(h) PROVE Re!FailsClosed'
  BY <1>4, HooksAnswer DEF Re!Refused
<1>5. ASSUME NEW h \in Re!AllHooks, Re!Fire(h) PROVE Re!FailsClosed'
  BY <1>5 DEF Re!Fire, Re!FailsClosed
<1>6. ASSUME NEW failed \in BOOLEAN, NEW value \in Re!Values, Re!Return(failed, value)
      PROVE  Re!FailsClosed'
  <2> DEFINE h == Re!Last(frames).hook
  <2>1. IF failed THEN Re!Answered(h, "failed", Re!Otherwise(h, "failed"))
                  ELSE Re!Answered(h, "done", Re!Reads(h, value))
    BY <1>6 DEF Re!Return
  <2> HIDE DEF h
  <2>2. CASE failed
    BY <2>1, <2>2, HooksAnswer
  <2>3. CASE ~failed
    BY <2>1, <2>3, HooksAnswer
  <2> QED BY <2>2, <2>3
<1> QED
  BY <1>2, <1>3, <1>4, <1>5, <1>6 DEF Re!HooksNext

\* A hook fires on top of the others, and returns to where it began.
LEMMA HooksNext == HooksInv /\ Re!HooksNext => HooksInv'
<1> SUFFICES ASSUME HooksInv, Re!HooksNext PROVE HooksInv'
  OBVIOUS
<1>0. Re!FailsClosed'
  BY HooksFailClosedNext DEF HooksInv
<1> DEFINE n == Len(frames)
<1>1. n \in Nat /\ DOMAIN frames = 1..n /\ frames \in Seq(Frame)
  BY LenProperties DEF HooksInv
<1>2. ASSUME UNCHANGED <<frames, lua>> PROVE HooksInv'
  BY <1>0, <1>2 DEF HooksInv, Above
<1>3. CASE Re!LoadEvents
  BY <1>2, <1>3 DEF Re!LoadEvents
<1>4. ASSUME NEW h \in Re!AllHooks, Re!Unset(h) \/ Re!Refused(h) PROVE HooksInv'
  BY <1>2, <1>4 DEF Re!Unset, Re!Refused
<1>5. ASSUME NEW k \in 1..n
      PROVE  frames[k] \in Frame /\ Above(frames[k]) \in Nat
  <2>1. frames[k] \in Frame
    BY <1>1, ElementOfSeq
  <2>2. Len(frames[k].hook.pushed) \in Nat
    BY <2>1, HooksAgree DEF Frame, Agrees
  <2> QED BY <2>1, <2>2 DEF Frame, Above
<1>6. lua \in Nat
  BY <1>1, <1>5 DEF HooksInv
<1>7. ASSUME NEW h \in Re!AllHooks, Re!Fire(h) PROVE HooksInv'
  <2> DEFINE f == [hook |-> h, below |-> lua]
             s == Append(frames, f)
  <2>1. frames' = s /\ lua' = lua + 1 + Len(h.pushed)
    BY <1>7 DEF Re!Fire
  <2>2. f \in Frame
    BY <1>6 DEF Frame
  <2>3. /\ s \in Seq(Frame) /\ Len(s) = n + 1
        /\ \A k \in 1..n : s[k] = frames[k]
        /\ s[n + 1] = f
    BY <1>1, <2>2, AppendProperties
  <2>4. Above(f) = lua + 1 + Len(h.pushed)
    BY DEF Above
  <2>5. f.below = IF n = 0 THEN 0 ELSE Above(frames[n])
    BY <1>1 DEF HooksInv
  <2> HIDE DEF s, f, n
  <2>6. \A k \in 1..(n + 1) : s[k].below = IF k = 1 THEN 0 ELSE Above(s[k - 1])
    <3> SUFFICES ASSUME NEW k \in 1..(n + 1) PROVE s[k].below = IF k = 1 THEN 0 ELSE Above(s[k - 1])
      OBVIOUS
    <3>1. CASE k = n + 1
      <4>1. n # 0 => k - 1 \in 1..n /\ k - 1 = n
        BY <1>1, <3>1
      <4> QED BY <1>1, <2>3, <2>5, <3>1, <4>1
    <3>2. CASE k # n + 1
      <4>1. k \in 1..n /\ (k # 1 => k - 1 \in 1..n)
        BY <1>1, <3>2
      <4> QED BY <2>3, <4>1 DEF HooksInv, n
    <3> QED BY <3>1, <3>2
  <2>7. s # <<>>
    BY <1>1, <2>3
  <2> QED BY <1>0, <2>1, <2>3, <2>4, <2>6, <2>7 DEF HooksInv, Above
<1>8. ASSUME NEW failed \in BOOLEAN, NEW value \in Re!Values, Re!Return(failed, value)
      PROVE  HooksInv'
  <2> DEFINE t == frames[n]
             s == SubSeq(frames, 1, n - 1)
  <2>1. frames # <<>> /\ frames' = s /\ lua' = Re!Height(t.hook, failed)
    BY <1>8 DEF Re!Return, Re!Running, Re!Last, Re!Front
  <2>2. n \in 1..n /\ n >= 1
    BY <1>1, <2>1, EmptySeq
  <2>3. t \in Frame /\ Agrees(t.hook)
    BY <1>5, <2>2, HooksAgree DEF Frame
  <2>4. lua = t.below + 1 + t.hook.params
    BY <2>1, <2>3 DEF HooksInv, Above, Agrees
  <2>5. Re!Height(t.hook, failed) = t.below
    BY <2>3, <2>4 DEF Re!Height, Agrees, Frame
  <2>6. s \in Seq(Frame) /\ Len(s) = n - 1 /\ \A k \in 1..(n - 1) : s[k] = frames[k]
    <3>1. 1 - 1 <= n - 1 /\ n - 1 \in 1 - 1 .. n
      BY <1>1, <2>2
    <3> QED BY <1>1, <2>2, <3>1, SubSeqProperties
  <2>7. t.below = IF n = 1 THEN 0 ELSE Above(frames[n - 1])
    BY <2>2 DEF HooksInv
  <2> HIDE DEF t, s, n
  <2>8. \A k \in 1..(n - 1) : s[k].below = IF k = 1 THEN 0 ELSE Above(s[k - 1])
    <3> SUFFICES ASSUME NEW k \in 1..(n - 1) PROVE s[k].below = IF k = 1 THEN 0 ELSE Above(s[k - 1])
      OBVIOUS
    <3>1. k \in 1..n /\ (k # 1 => k - 1 \in 1..(n - 1))
      BY <1>1
    <3> QED BY <2>6, <3>1 DEF HooksInv, n
  <2>9. s = <<>> <=> n = 1
    BY <1>1, <2>2, <2>6, EmptySeq
  <2>10. lua' = IF s = <<>> THEN 0 ELSE Above(s[Len(s)])
    <3>1. n # 1 => n - 1 \in 1..(n - 1)
      BY <2>2
    <3> QED BY <2>1, <2>5, <2>6, <2>7, <2>9, <3>1
  <2> QED BY <1>0, <2>1, <2>6, <2>8, <2>10 DEF HooksInv, Above
<1> QED
  BY <1>3, <1>4, <1>7, <1>8 DEF Re!HooksNext

\* The steps of other parts leave the hooks alone.
LEMMA HooksStutters == HooksInv /\ UNCHANGED hookVars => HooksInv'
BY DEF hookVars, HooksInv, Above, Re!FailsClosed

\* What a script relies on.
LEMMA HooksSafe == HooksInv => Re!StackBalanced /\ Re!FailsClosed
BY DEF HooksInv, Above, Re!StackBalanced, Re!Running, Re!Last

-----------------------------------------------------------------------------
(* Transactions and calls into scripts are whole                           *)

WholeInv ==
    /\ focus = "database" => DbInv
    /\ focus = "hooks" => HooksInv

\* The part in focus keeps its invariant, the other parts do not move.
LEMMA WholeNext == WholeInv /\ [Next]_vars => WholeInv'
<1> SUFFICES ASSUME WholeInv, [Next]_vars PROVE WholeInv'
  OBVIOUS
<1>1. ASSUME UNCHANGED focus,
             focus = "database" => Db!Next \/ UNCHANGED databaseVars,
             focus = "hooks" => Re!HooksNext \/ UNCHANGED hookVars
      PROVE  WholeInv'
  BY <1>1, DbNext, DbStutters, HooksNext, HooksStutters DEF WholeInv
<1>2. CASE UNCHANGED vars
  BY <1>1, <1>2 DEF vars
<1>3. CASE Only("database") /\ Db!Next
  BY <1>1, <1>3 DEF Only
<1>4. CASE Only("hooks") /\ Re!HooksNext
  BY <1>1, <1>4 DEF Only
<1>5. CASE Only("scheduler") \/ Only("database tasks") \/ Only("waiting list") \/ Only("spawns")
           \/ Only("raids") \/ Only("registries")
  <2>1. UNCHANGED focus /\ focus \notin {"database", "hooks"}
    BY <1>5 DEF Only
  <2> QED BY <1>1, <2>1
<1> QED
  BY <1>2, <1>3, <1>4, <1>5 DEF Next

\* A player's save is in the database as a whole or not at all and alone in its
\* transaction, whatever is lost on the way (DBTransaction, Database::executeQuery);
\* and however calls into scripts are nested and end, the Lua stack is given back
\* and what fails is refused (LuaScriptInterface::callFunction, the hooks).
THEOREM SavesAndCallsAreWhole == Spec => []TransactionsWhole
<1>1. Init => WholeInv
  BY DbInit, HooksInit DEF Init, WholeInv
<1>2. WholeInv => TransactionsWhole
  BY DbSafe, HooksSafe DEF WholeInv, TransactionsWhole, Of
<1> QED
  BY <1>1, <1>2, WholeNext, PTL DEF Spec

-----------------------------------------------------------------------------
(* The database thread: statements are executed once, nearly in order      *)

\* What a hand does: nothing, run a statement, or hand its callback on.
Busy(h) ==
    LET place == IF h = "worker" THEN pc ELSE call[GameThread]
    IN  IF place \in {"run", "post"} THEN place ELSE "free"

Popped == Len(accepted) - Len(tasks)

Taken == {accepted[i] : i \in 1..Popped}

DtPlaces == DOMAIN call = Callers /\ afterFlush \in {"idle", "notify"}

DtTyped ==
    /\ accepted \in Seq(DbTasks) /\ tasks \in Seq(DbTasks) /\ executed \in Seq(DbTasks)
    /\ inHand \in [Dt!Hands -> DbTasks \cup {NoTask}]
    /\ DtPlaces

\* The queue is what is left of the accepted statements.
DtQueue ==
    /\ Len(tasks) <= Len(accepted)
    /\ \A i \in 1..Len(tasks) : tasks[i] = accepted[Popped + i]
    /\ \A i, j \in 1..Len(accepted) : accepted[i] = accepted[j] => i = j

\* The others are executed or in a hand.
DtTaken == Taken = Dt!Members(executed) \cup Dt!InFlight

DtHands ==
    /\ \A h \in Dt!Hands :
          /\ Busy(h) = "free" <=> inHand[h] = NoTask
          /\ Busy(h) = "run" => inHand[h] \notin Dt!Members(executed)
          /\ Busy(h) = "post" => inHand[h] \in Dt!Members(executed)
    /\ inHand["worker"] = inHand["flush"] => inHand["worker"] = NoTask

\* Statements are executed once: as many as were taken and are not about to be.
Due(h) == IF Busy(h) = "run" THEN 1 ELSE 0

DtCount == Popped = Len(executed) + Due("worker") + Due("flush")

DtInv == DtTyped /\ DtQueue /\ DtTaken /\ DtHands /\ DtCount

\* As DbMembers.
LEMMA DtMembers ==
    ASSUME NEW S, NEW b \in Seq(S), NEW x
    PROVE  /\ Dt!Members(<<>>) = {}
           /\ Dt!Members(Append(b, x)) = Dt!Members(b) \cup {x}
BY DbMembers DEF Db!Members, Dt!Members

\* The numbers behind the queue.
LEMMA DtNumbers ==
    ASSUME DtTyped, DtQueue
    PROVE  /\ Len(accepted) \in Nat /\ Len(tasks) \in Nat /\ Len(executed) \in Nat
           /\ Popped \in Nat /\ Popped <= Len(accepted) /\ Len(accepted) = Popped + Len(tasks)
           /\ \A i \in 1..Len(accepted) : accepted[i] \in DbTasks /\ accepted[i] # NoTask
<1>1. Len(accepted) \in Nat /\ Len(tasks) \in Nat /\ Len(executed) \in Nat
  BY LenProperties DEF DtTyped
<1>2. \A i \in 1..Len(accepted) : accepted[i] \in DbTasks /\ accepted[i] # NoTask
  BY ElementOfSeq, ConstantsAssumption DEF DtTyped
<1> QED BY <1>1, <1>2 DEF DtQueue, Popped

\* Taking the first statement off the queue.
LEMMA DtPopKeeps ==
    ASSUME DtInv, NEW h \in Dt!Hands, Busy(h) = "free", tasks # <<>>,
           Dt!Pop(h), Busy(h)' = "run", \A g \in Dt!Hands \ {h} : Busy(g)' = Busy(g),
           UNCHANGED <<accepted, executed>>, DtPlaces'
    PROVE  DtInv'
<1> DEFINE n == Len(accepted)
           m == Len(tasks)
           k == Popped
           t == Head(tasks)
<1>0. DtTyped /\ DtQueue
  BY DEF DtInv
<1>1. n \in Nat /\ m \in Nat /\ k \in Nat /\ k <= n /\ n = k + m
  BY <1>0, DtNumbers
<1>2. /\ m >= 1 /\ t = tasks[1] /\ t \in DbTasks
      /\ Tail(tasks) \in Seq(DbTasks) /\ Len(Tail(tasks)) = m - 1
      /\ \A i \in 1..(m - 1) : Tail(tasks)[i] = tasks[i + 1]
  <2>1. tasks \in Seq(DbTasks)
    BY DEF DtInv, DtTyped
  <2>2. m >= 1
    BY <1>1, <2>1, EmptySeq
  <2> QED BY <2>1, <2>2, HeadTailProperties
<1>3. t = accepted[k + 1] /\ k + 1 \in 1..n
  BY <1>1, <1>2 DEF DtInv, DtQueue
<1>4. /\ tasks' = Tail(tasks) /\ accepted' = accepted /\ executed' = executed
      /\ inHand' = [inHand EXCEPT ![h] = t]
  BY DEF Dt!Pop
<1> HIDE DEF t
<1>5. Popped' = k + 1
  BY <1>1, <1>2, <1>4 DEF Popped
<1>6. inHand \in [Dt!Hands -> DbTasks \cup {NoTask}] /\ inHand[h] = NoTask /\ t # NoTask
  BY <1>2, ConstantsAssumption DEF DtInv, DtTyped, DtHands
<1>7. inHand'[h] = t /\ \A g \in Dt!Hands \ {h} : inHand'[g] = inHand[g]
  BY <1>4, <1>6
<1>8. DtTyped'
  BY <1>2, <1>4, <1>6 DEF DtInv, DtTyped, Dt!Hands
<1>9. DtQueue'
  <2>1. ASSUME NEW i \in 1..(m - 1)
        PROVE  Tail(tasks)[i] = accepted[(k + 1) + i]
    <3>1. i + 1 \in 1..m /\ k + (i + 1) = (k + 1) + i
      BY <1>1
    <3> QED BY <1>2, <3>1 DEF DtInv, DtQueue
  <2>2. m - 1 <= n
    BY <1>1
  <2> HIDE DEF n, m, k
  <2>3. Len(accepted') = n /\ Len(tasks') = m - 1
    BY <1>2, <1>4 DEF n
  <2>4. \A i, j \in 1..n : accepted[i] = accepted[j] => i = j
    BY DEF DtInv, DtQueue, n
  <2> QED BY <1>4, <1>5, <2>1, <2>2, <2>3, <2>4 DEF DtQueue
<1>10. Taken' = Taken \cup {t} /\ t \notin Taken
  <2>1. 1..(k + 1) = (1..k) \cup {k + 1}
    BY <1>1
  <2>2. Taken' = Taken \cup {t}
    BY <1>3, <1>4, <1>5, <2>1 DEF Taken
  <2>3. ASSUME NEW i \in 1..k, accepted[i] = t PROVE FALSE
    <3>1. i \in 1..n /\ i # k + 1
      BY <1>1
    <3> QED BY <1>3, <2>3, <3>1 DEF DtInv, DtQueue
  <2> QED BY <2>2, <2>3 DEF Taken
<1>11. Dt!InFlight' = Dt!InFlight \cup {t}
  BY <1>6, <1>7 DEF Dt!InFlight
<1>12. Dt!Members(executed)' = Dt!Members(executed)
  BY <1>4 DEF Dt!Members
<1>13. DtTaken'
  BY <1>10, <1>11, <1>12 DEF DtInv, DtTaken
<1>14. t \notin Dt!Members(executed) /\ \A g \in Dt!Hands : inHand[g] # t
  BY <1>6, <1>10 DEF DtInv, DtTaken, Dt!InFlight
<1>15. DtHands'
  BY <1>6, <1>7, <1>12, <1>14 DEF DtInv, DtHands, Dt!Hands
<1>16. DtCount'
  <2>1. Due(h) = 0 /\ Due(h)' = 1 /\ \A g \in Dt!Hands \ {h} : Due(g)' = Due(g)
    BY DEF Due
  <2>2. \A g \in Dt!Hands : Due(g) \in Nat
    BY DEF Due
  <2>3. Len(executed)' = Len(executed) /\ Len(executed) \in Nat
    BY <1>0, <1>4, DtNumbers
  <2>4. k = Len(executed) + Due("worker") + Due("flush")
    BY DEF DtInv, DtCount
  <2>5. Popped' = Len(executed)' + Due("worker")' + Due("flush")'
    <3> HIDE DEF k
    <3>1. CASE h = "worker"
      BY <1>1, <1>5, <2>1, <2>2, <2>3, <2>4, <3>1 DEF Dt!Hands
    <3>2. CASE h = "flush"
      BY <1>1, <1>5, <2>1, <2>2, <2>3, <2>4, <3>2 DEF Dt!Hands
    <3> QED BY <3>1, <3>2 DEF Dt!Hands
  <2> QED BY <2>5 DEF DtCount
<1> QED BY <1>8, <1>9, <1>13, <1>15, <1>16 DEF DtInv

\* Running a statement.
LEMMA DtExecuteKeeps ==
    ASSUME DtInv, NEW h \in Dt!Hands, Busy(h) = "run", Dt!Execute(h), Busy(h)' = "post",
           \A g \in Dt!Hands \ {h} : Busy(g)' = Busy(g),
           UNCHANGED <<accepted, tasks, inHand>>, DtPlaces'
    PROVE  DtInv'
<1> DEFINE t == inHand[h]
<1>1. t \in DbTasks /\ t \notin Dt!Members(executed) /\ t # NoTask
  BY DEF DtInv, DtTyped, DtHands
<1>2. /\ executed' = Append(executed, t) /\ accepted' = accepted /\ tasks' = tasks /\ inHand' = inHand
      /\ executed \in Seq(DbTasks)
  BY DEF Dt!Execute, DtInv, DtTyped
<1>3. executed' \in Seq(DbTasks) /\ Len(executed') = Len(executed) + 1
  BY <1>1, <1>2, AppendProperties
<1>4. Dt!Members(executed') = Dt!Members(executed) \cup {t}
  BY <1>1, <1>2, DtMembers
<1>5. DtTyped'
  BY <1>2, <1>3 DEF DtInv, DtTyped, Dt!Hands
<1>6. DtQueue' /\ Popped' = Popped
  BY <1>2 DEF DtInv, DtQueue, Popped
<1>7. DtTaken'
  <2>1. Taken' = Taken
    BY <1>2, <1>6 DEF Taken
  <2>2. Dt!InFlight' = Dt!InFlight /\ t \in Dt!InFlight
    BY <1>1, <1>2 DEF Dt!InFlight
  <2>3. Dt!Members(executed)' = Dt!Members(executed')
    BY DEF Dt!Members
  <2> QED BY <1>4, <2>1, <2>2, <2>3 DEF DtInv, DtTaken
<1>8. DtHands'
  <2>1. Dt!Members(executed)' = Dt!Members(executed) \cup {t}
    BY <1>4 DEF Dt!Members
  <2>2. \A g \in Dt!Hands \ {h} : inHand[g] # t
    BY <1>1 DEF DtInv, DtHands, Dt!Hands
  <2>3. ASSUME NEW g \in Dt!Hands
        PROVE  /\ Busy(g)' = "free" <=> inHand[g] = NoTask
               /\ Busy(g)' = "run" => inHand[g] \notin Dt!Members(executed)'
               /\ Busy(g)' = "post" => inHand[g] \in Dt!Members(executed)'
    <3>1. CASE g = h
      BY <1>1, <2>1, <3>1
    <3>2. CASE g # h
      <4>1. Busy(g)' = Busy(g)
        BY <3>2
      <4> QED BY <2>1, <2>2, <3>2, <4>1 DEF DtInv, DtHands
    <3> QED BY <3>1, <3>2
  <2>4. inHand["worker"] = inHand["flush"] => inHand["worker"] = NoTask
    BY DEF DtInv, DtHands
  <2> HIDE DEF t
  <2> QED BY <1>2, <2>3, <2>4 DEF DtHands, Dt!Hands
<1>9. DtCount'
  <2>1. Due(h) = 1 /\ Due(h)' = 0 /\ \A g \in Dt!Hands \ {h} : Due(g)' = Due(g)
    BY DEF Due
  <2>2. \A g \in Dt!Hands : Due(g) \in Nat
    BY DEF Due
  <2>3. Len(executed)' = Len(executed) + 1 /\ Len(executed) \in Nat /\ Popped \in Nat
    BY <1>3, DtNumbers DEF DtInv
  <2>4. Popped = Len(executed) + Due("worker") + Due("flush")
    BY DEF DtInv, DtCount
  <2>5. Popped' = Len(executed)' + Due("worker")' + Due("flush")'
    <3>1. CASE h = "worker"
      BY <1>6, <2>1, <2>2, <2>3, <2>4, <3>1 DEF Dt!Hands
    <3>2. CASE h = "flush"
      BY <1>6, <2>1, <2>2, <2>3, <2>4, <3>2 DEF Dt!Hands
    <3> QED BY <3>1, <3>2 DEF Dt!Hands
  <2> QED BY <2>5 DEF DtCount
<1> QED BY <1>5, <1>6, <1>7, <1>8, <1>9 DEF DtInv

\* Letting go of a statement.
LEMMA DtPostKeeps ==
    ASSUME DtInv, NEW h \in Dt!Hands, Busy(h) = "post", Dt!PostCallback(h), Busy(h)' = "free",
           \A g \in Dt!Hands \ {h} : Busy(g)' = Busy(g),
           UNCHANGED <<accepted, tasks, executed>>, DtPlaces'
    PROVE  DtInv'
<1> DEFINE t == inHand[h]
<1>1. /\ inHand' = [inHand EXCEPT ![h] = NoTask] /\ inHand \in [Dt!Hands -> DbTasks \cup {NoTask}]
      /\ accepted' = accepted /\ tasks' = tasks /\ executed' = executed
  BY DEF DtInv, DtTyped, Dt!PostCallback
<1>2. inHand'[h] = NoTask /\ \A g \in Dt!Hands \ {h} : inHand'[g] = inHand[g]
  BY <1>1
<1>3. t \in Dt!Members(executed) /\ Dt!Members(executed)' = Dt!Members(executed)
  BY <1>1 DEF DtInv, DtHands, Dt!Members
<1>4. DtTyped'
  BY <1>1 DEF DtInv, DtTyped, Dt!Hands
<1>5. DtQueue' /\ Popped' = Popped /\ Taken' = Taken
  BY <1>1 DEF DtInv, DtQueue, Popped, Taken
<1>6. DtTaken'
  <2>1. Dt!InFlight' \subseteq Dt!InFlight /\ Dt!InFlight \subseteq Dt!InFlight' \cup {t}
    BY <1>2 DEF Dt!InFlight
  <2> HIDE DEF t
  <2> QED BY <1>3, <1>5, <2>1 DEF DtInv, DtTaken
<1>7. DtHands'
  BY <1>2, <1>3 DEF DtInv, DtHands, Dt!Hands
<1>8. DtCount'
  <2>1. \A g \in Dt!Hands : Due(g)' = Due(g)
    BY DEF Due
  <2>2. Due("worker")' = Due("worker") /\ Due("flush")' = Due("flush")
    BY <2>1 DEF Dt!Hands
  <2> QED BY <1>1, <1>5, <2>2 DEF DtInv, DtCount
<1> QED BY <1>4, <1>5, <1>6, <1>7, <1>8 DEF DtInv

\* A new statement.
LEMMA DtAddKeeps ==
    ASSUME DtInv, NEW t \in DbTasks, t \notin Dt!Members(accepted),
           accepted' = Append(accepted, t), tasks' = Append(tasks, t),
           \A g \in Dt!Hands : Busy(g)' = Busy(g),
           UNCHANGED <<inHand, executed>>, DtPlaces'
    PROVE  DtInv'
<1> DEFINE n == Len(accepted)
           m == Len(tasks)
           k == Popped
           as == Append(accepted, t)
           ts == Append(tasks, t)
<1>1. n \in Nat /\ m \in Nat /\ k \in Nat /\ k <= n /\ n = k + m
  BY DtNumbers DEF DtInv
<1>2. /\ as \in Seq(DbTasks) /\ Len(as) = n + 1 /\ as[n + 1] = t
      /\ \A i \in 1..n : as[i] = accepted[i]
      /\ ts \in Seq(DbTasks) /\ Len(ts) = m + 1 /\ ts[m + 1] = t
      /\ \A i \in 1..m : ts[i] = tasks[i]
  BY AppendProperties DEF DtInv, DtTyped
<1>3. \A i \in 1..n : accepted[i] # t
  <2>1. DOMAIN accepted = 1..n
    BY LenProperties DEF DtInv, DtTyped
  <2> QED BY <2>1 DEF Dt!Members
<1>4. accepted' = as /\ tasks' = ts /\ inHand' = inHand /\ executed' = executed
  OBVIOUS
<1> HIDE DEF as, ts
<1>5. Popped' = k
  <2>1. Popped' = Len(accepted') - Len(tasks')
    BY DEF Popped
  <2>2. Len(accepted') = n + 1 /\ Len(tasks') = m + 1
    BY <1>2, <1>4
  <2> HIDE DEF n, m, k
  <2> QED BY <1>1, <2>1, <2>2
<1>6. Taken' = Taken
  <2>1. \A i \in 1..k : i \in 1..n
    <3> HIDE DEF n, k
    <3> QED BY <1>1
  <2>2. \A i \in 1..k : as[i] = accepted[i]
    BY <1>2, <2>1
  <2> QED BY <1>4, <1>5, <2>2 DEF Taken
<1>7. Dt!InFlight' = Dt!InFlight /\ Dt!Members(executed)' = Dt!Members(executed)
  BY <1>4 DEF Dt!InFlight, Dt!Members
<1>8. DtTyped'
  BY <1>2, <1>4 DEF DtInv, DtTyped, Dt!Hands
<1>9. DtQueue'
  <2>1. ASSUME NEW i \in 1..(m + 1) PROVE ts[i] = as[k + i]
    <3>1. CASE i = m + 1
      <4>1. k + i = n + 1
        BY <1>1, <3>1
      <4> QED BY <1>2, <3>1, <4>1
    <3>2. CASE i # m + 1
      <4>1. i \in 1..m /\ k + i \in 1..n
        BY <1>1, <3>2
      <4> QED BY <1>2, <4>1 DEF DtInv, DtQueue
    <3> QED BY <3>1, <3>2
  <2>2. ASSUME NEW i \in 1..(n + 1), NEW j \in 1..(n + 1), as[i] = as[j] PROVE i = j
    <3>1. CASE i \in 1..n /\ j \in 1..n
      BY <1>2, <2>2, <3>1 DEF DtInv, DtQueue
    <3>2. CASE ~(i \in 1..n /\ j \in 1..n)
      <4>1. (i = n + 1 \/ i \in 1..n) /\ (j = n + 1 \/ j \in 1..n)
        BY <1>1
      <4> HIDE DEF n
      <4> QED BY <1>2, <1>3, <2>2, <3>2, <4>1
    <3> QED BY <3>1, <3>2
  <2>3. m + 1 <= n + 1
    BY <1>1
  <2> HIDE DEF n, m, k
  <2> QED BY <1>2, <1>4, <1>5, <2>1, <2>2, <2>3 DEF DtQueue
<1>10. DtTaken'
  BY <1>6, <1>7 DEF DtInv, DtTaken
<1>11. DtHands'
  BY <1>4, <1>7 DEF DtInv, DtHands, Dt!Hands
<1>12. DtCount'
  <2>1. Due("worker")' = Due("worker") /\ Due("flush")' = Due("flush")
    BY DEF Due, Dt!Hands
  <2> QED BY <1>4, <1>5, <2>1 DEF DtInv, DtCount
<1> QED BY <1>8, <1>9, <1>10, <1>11, <1>12 DEF DtInv

\* A step that touches no statement.
LEMMA DtRestKeeps ==
    ASSUME DtInv, \A g \in Dt!Hands : Busy(g)' = Busy(g),
           UNCHANGED <<accepted, tasks, executed, inHand>>, DtPlaces'
    PROVE  DtInv'
<1>1. DtTyped'
  BY DEF DtInv, DtTyped, Dt!Hands
<1>2. DtQueue' /\ Popped' = Popped /\ Taken' = Taken
  BY DEF DtInv, DtQueue, Popped, Taken
<1>3. Dt!InFlight' = Dt!InFlight /\ Dt!Members(executed)' = Dt!Members(executed)
  BY DEF Dt!InFlight, Dt!Members
<1>4. DtTaken'
  BY <1>2, <1>3 DEF DtInv, DtTaken
<1>5. DtHands'
  BY <1>3 DEF DtInv, DtHands, Dt!Hands
<1>6. DtCount'
  <2>1. Due("worker")' = Due("worker") /\ Due("flush")' = Due("flush")
    BY DEF Due, Dt!Hands
  <2> QED BY <1>2, <2>1 DEF DtInv, DtCount
<1> QED BY <1>1, <1>2, <1>4, <1>5, <1>6 DEF DtInv

\* A caller goes to one place, and flush() returns to where it was called.
LEMMA DtPlacesNext ==
    ASSUME DtPlaces, Dt!Next
    PROVE  /\ DtPlaces'
           /\ \A c \in Callers : \A p : Dt!Goto(c, p) =>
                 call'[c] = p /\ \A d \in Callers \ {c} : call'[d] = call[d]
<1>1. \A c \in Callers : \A p : Dt!Goto(c, p) =>
         call'[c] = p /\ \A d \in Callers \ {c} : call'[d] = call[d]
  BY DEF DtPlaces, Dt!Goto
<1>2. DOMAIN call' = Callers
  BY DEF DtPlaces, Dt!Next, Dt!WorkerStep, Dt!FlushStep, Dt!CheckState, Dt!WaitForSignal, Dt!WorkerPop,
     Dt!WokenForNothing, Dt!WorkerExecute, Dt!WorkerPost, Dt!SpuriousWakeup, Dt!FlushPop, Dt!FlushExecute,
     Dt!FlushPost, Dt!FlushReturn, Dt!Flush, Dt!Stop, Dt!Shutdown, Dt!Signal, Dt!AddTask, Dt!Goto
<1>3. afterFlush' \in {"idle", "notify"}
  BY DEF DtPlaces, Dt!Next, Dt!WorkerStep, Dt!FlushStep, Dt!CheckState, Dt!WaitForSignal, Dt!WorkerPop,
     Dt!WokenForNothing, Dt!WorkerExecute, Dt!WorkerPost, Dt!SpuriousWakeup, Dt!FlushPop, Dt!FlushExecute,
     Dt!FlushPost, Dt!FlushReturn, Dt!Flush, Dt!Stop, Dt!Shutdown, Dt!Signal, Dt!AddTask
<1> QED BY <1>1, <1>2, <1>3 DEF DtPlaces

\* Every step takes a statement, runs it, lets go of it, adds one, or touches none.
LEMMA DtSteps ==
    ASSUME DtPlaces, Dt!Next
    PROVE  \/ \E h \in Dt!Hands :
                 /\ \A g \in Dt!Hands \ {h} : Busy(g)' = Busy(g)
                 /\ \/ /\ Busy(h) = "free" /\ tasks # <<>> /\ Dt!Pop(h) /\ Busy(h)' = "run"
                       /\ UNCHANGED <<accepted, executed>>
                    \/ /\ Busy(h) = "run" /\ Dt!Execute(h) /\ Busy(h)' = "post"
                       /\ UNCHANGED <<accepted, tasks, inHand>>
                    \/ /\ Busy(h) = "post" /\ Dt!PostCallback(h) /\ Busy(h)' = "free"
                       /\ UNCHANGED <<accepted, tasks, executed>>
           \/ /\ \A g \in Dt!Hands : Busy(g)' = Busy(g)
              /\ UNCHANGED <<executed, inHand>>
              /\ \/ \E t \in DbTasks :
                       /\ t \notin Dt!Members(accepted)
                       /\ accepted' = Append(accepted, t) /\ tasks' = Append(tasks, t)
                 \/ UNCHANGED <<accepted, tasks>>
<1> USE ConstantsAssumption, DtPlacesNext DEF Busy, Dt!Hands
<1>1. CASE Dt!WorkerPop
  <2>1. call' = call /\ Busy("worker") = "free" /\ Busy("worker")' = "run"
    BY <1>1 DEF Dt!WorkerPop
  <2> QED BY <1>1, <2>1 DEF Dt!WorkerPop
<1>2. CASE Dt!WorkerExecute
  BY <1>2 DEF Dt!WorkerExecute
<1>3. CASE Dt!WorkerPost
  BY <1>3 DEF Dt!WorkerPost
<1>4. CASE Dt!FlushPop
  <2>1. call[GameThread] = "flush" /\ call'[GameThread] = "run" /\ pc' = pc
    BY <1>4 DEF Dt!FlushPop
  <2> QED BY <1>4, <2>1 DEF Dt!FlushPop
<1>5. CASE Dt!FlushExecute
  <2>1. call[GameThread] = "run" /\ call'[GameThread] = "post" /\ pc' = pc
    BY <1>5 DEF Dt!FlushExecute
  <2> QED BY <1>5, <2>1 DEF Dt!FlushExecute
<1>6. CASE Dt!FlushPost
  <2>1. call[GameThread] = "post" /\ call'[GameThread] = "flush" /\ pc' = pc
    BY <1>6 DEF Dt!FlushPost
  <2> QED BY <1>6, <2>1 DEF Dt!FlushPost
<1>7. CASE Dt!FlushReturn \/ Dt!Flush \/ Dt!Shutdown \/ Dt!Stop
  <2>1. pc' = pc /\ UNCHANGED <<executed, inHand, accepted, tasks>>
    BY <1>7 DEF Dt!FlushReturn, Dt!Flush, Dt!Shutdown, Dt!Stop
  <2>2. call[GameThread] \notin {"run", "post"}
    BY <1>7 DEF Dt!FlushReturn, Dt!Flush, Dt!Shutdown, Dt!Stop
  <2>3. call'[GameThread] \notin {"run", "post"}
    <3>1. CASE Dt!FlushReturn
      <4>1. call'[GameThread] = afterFlush
        BY <3>1 DEF Dt!FlushReturn
      <4> QED BY <4>1 DEF DtPlaces
    <3>2. CASE Dt!Flush \/ Dt!Shutdown
      <4>1. call'[GameThread] = "flush"
        BY <3>2 DEF Dt!Flush, Dt!Shutdown
      <4> QED BY <4>1
    <3>3. CASE Dt!Stop
      BY <3>3 DEF Dt!Stop
    <3> QED BY <1>7, <3>1, <3>2, <3>3
  <2> QED BY <2>1, <2>2, <2>3
<1>8. CASE Dt!CheckState \/ Dt!WaitForSignal \/ Dt!WokenForNothing \/ Dt!SpuriousWakeup
  <2>1. pc \notin {"run", "post"} /\ pc' \notin {"run", "post"} /\ call' = call
    BY <1>8 DEF Dt!CheckState, Dt!WaitForSignal, Dt!WokenForNothing, Dt!SpuriousWakeup
  <2>2. UNCHANGED <<executed, inHand, accepted, tasks>>
    BY <1>8 DEF Dt!CheckState, Dt!WaitForSignal, Dt!WokenForNothing, Dt!SpuriousWakeup
  <2> QED BY <2>1, <2>2
<1>9. ASSUME NEW c \in Callers, Dt!Signal(c)
      PROVE  (\A g \in Dt!Hands : Busy(g)' = Busy(g)) /\ UNCHANGED <<executed, inHand, accepted, tasks>>
  <2>1. pc' = pc \/ (pc = "wait" /\ pc' = "woken")
    BY <1>9 DEF Dt!Signal, Dt!NotifyOne
  <2>2. call'[GameThread] = call[GameThread] \/ {call[GameThread], call'[GameThread]} \cap {"run", "post"} = {}
    BY <1>9 DEF Dt!Signal
  <2> QED BY <1>9, <2>1, <2>2 DEF Dt!Signal
<1>10. ASSUME NEW c \in Callers, NEW t \in DbTasks, Dt!AddTask(c, t)
       PROVE  /\ \A g \in Dt!Hands : Busy(g)' = Busy(g)
              /\ UNCHANGED <<executed, inHand>>
              /\ t \notin Dt!Members(accepted)
              /\ accepted' = Append(accepted, t) /\ tasks' = Append(tasks, t)
  <2>1. pc' = pc
    BY <1>10 DEF Dt!AddTask
  <2>2. call'[GameThread] = call[GameThread] \/ {call[GameThread], call'[GameThread]} \cap {"run", "post"} = {}
    <3>1. call[c] = "idle" /\ call'[c] \in {"signal", "idle"} /\ \A d \in Callers \ {c} : call'[d] = call[d]
      BY <1>10 DEF Dt!AddTask
    <3> QED BY <3>1
  <2> QED BY <1>10, <2>1, <2>2 DEF Dt!AddTask
<1> HIDE DEF Busy, Dt!Hands
<1> QED
  BY <1>1, <1>2, <1>3, <1>4, <1>5, <1>6, <1>7, <1>8, <1>9, <1>10
  DEF Dt!Next, Dt!WorkerStep, Dt!FlushStep

\* The queue is empty at first.
LEMMA DtInit == Dt!Init => DtInv
<1> SUFFICES ASSUME Dt!Init PROVE DtInv
  OBVIOUS
<1> USE ConstantsAssumption DEF Dt!Init
<1>1. Len(accepted) = 0 /\ Len(tasks) = 0 /\ Len(executed) = 0
  OBVIOUS
<1>2. DtTyped
  BY DEF DtTyped, DtPlaces, Dt!Hands
<1>3. Popped = 0
  BY <1>1 DEF Popped
<1>4. DtQueue
  BY <1>1 DEF DtQueue
<1>5. inHand["worker"] = NoTask /\ inHand["flush"] = NoTask
  BY DEF Dt!Hands
<1>6. Busy("worker") = "free" /\ Busy("flush") = "free"
  BY DEF Busy
<1>7. DtTaken
  <2>1. Taken = {} /\ Dt!InFlight = {} /\ Dt!Members(executed) = {}
    <3>1. Taken = {} /\ Dt!InFlight = {}
      BY <1>3, <1>5 DEF Taken, Dt!InFlight, Dt!Hands
    <3>2. executed \in Seq({NoTask}) /\ executed = <<>>
      OBVIOUS
    <3> QED BY <3>1, <3>2, DtMembers
  <2> QED BY <2>1 DEF DtTaken
<1>8. DtHands
  BY <1>5, <1>6 DEF DtHands, Dt!Hands
<1>9. DtCount
  BY <1>1, <1>3, <1>6 DEF DtCount, Due
<1> QED BY <1>2, <1>4, <1>7, <1>8, <1>9 DEF DtInv

\* Each of the five kinds of steps keeps the invariant.
LEMMA DtNext ==
    ASSUME DtInv, Dt!Next \/ UNCHANGED databaseTasksVars
    PROVE  DtInv'
<1>1. CASE UNCHANGED databaseTasksVars
  <2>1. DtPlaces'
    BY <1>1 DEF databaseTasksVars, DtInv, DtTyped, DtPlaces
  <2>2. \A g \in Dt!Hands : Busy(g)' = Busy(g)
    <3>1. pc' = pc /\ call' = call
      BY <1>1 DEF databaseTasksVars
    <3> QED BY <3>1 DEF Busy, Dt!Hands
  <2> QED BY <1>1, <2>1, <2>2, DtRestKeeps DEF databaseTasksVars
<1>2. CASE Dt!Next
  <2>1. DtPlaces'
    BY <1>2, DtPlacesNext DEF DtInv, DtTyped
  <2>2. CASE \E h \in Dt!Hands :
                 /\ \A g \in Dt!Hands \ {h} : Busy(g)' = Busy(g)
                 /\ \/ /\ Busy(h) = "free" /\ tasks # <<>> /\ Dt!Pop(h) /\ Busy(h)' = "run"
                       /\ UNCHANGED <<accepted, executed>>
                    \/ /\ Busy(h) = "run" /\ Dt!Execute(h) /\ Busy(h)' = "post"
                       /\ UNCHANGED <<accepted, tasks, inHand>>
                    \/ /\ Busy(h) = "post" /\ Dt!PostCallback(h) /\ Busy(h)' = "free"
                       /\ UNCHANGED <<accepted, tasks, executed>>
    <3>1. PICK h \in Dt!Hands :
                 /\ \A g \in Dt!Hands \ {h} : Busy(g)' = Busy(g)
                 /\ \/ /\ Busy(h) = "free" /\ tasks # <<>> /\ Dt!Pop(h) /\ Busy(h)' = "run"
                       /\ UNCHANGED <<accepted, executed>>
                    \/ /\ Busy(h) = "run" /\ Dt!Execute(h) /\ Busy(h)' = "post"
                       /\ UNCHANGED <<accepted, tasks, inHand>>
                    \/ /\ Busy(h) = "post" /\ Dt!PostCallback(h) /\ Busy(h)' = "free"
                       /\ UNCHANGED <<accepted, tasks, executed>>
      BY <2>2
    <3> QED BY <2>1, <3>1, DtPopKeeps, DtExecuteKeeps, DtPostKeeps
  <2>3. CASE /\ \A g \in Dt!Hands : Busy(g)' = Busy(g)
             /\ UNCHANGED <<executed, inHand>>
             /\ \/ \E t \in DbTasks :
                      /\ t \notin Dt!Members(accepted)
                      /\ accepted' = Append(accepted, t) /\ tasks' = Append(tasks, t)
                \/ UNCHANGED <<accepted, tasks>>
    BY <2>1, <2>3, DtAddKeeps, DtRestKeeps
  <2> QED BY <1>2, <2>2, <2>3, DtSteps DEF DtInv, DtTyped
<1> QED BY <1>1, <1>2

\* Who is overtaken is in the other hand.
LEMMA DtOvertakes ==
    ASSUME DtInv, Dt!Next,
           NEW i \in DOMAIN accepted, NEW j \in DOMAIN accepted, i < j,
           accepted[j] \in Dt!Members(executed') \ Dt!Members(executed),
           accepted[i] \notin Dt!Members(executed')
    PROVE  accepted[i] \in Dt!InFlight
<1>1. /\ Popped \in Nat /\ Popped <= Len(accepted)
      /\ i \in 1..Len(accepted) /\ j \in 1..Len(accepted)
  BY DtNumbers, LenProperties DEF DtInv, DtTyped
<1>2. executed' # executed
  BY DEF Dt!Members
<1>3. PICK h \in Dt!Hands : Busy(h) = "run" /\ Dt!Execute(h)
  BY <1>2, DtSteps DEF DtInv, DtTyped
<1>4. inHand[h] \in DbTasks /\ inHand[h] # NoTask
  BY <1>3 DEF DtInv, DtTyped, DtHands
<1>5. Dt!Members(executed') = Dt!Members(executed) \cup {inHand[h]}
  BY <1>3, <1>4, DtMembers DEF Dt!Execute, DtInv, DtTyped
<1>6. accepted[j] = inHand[h] /\ inHand[h] \in Taken
  BY <1>4, <1>5 DEF DtInv, DtTaken, Dt!InFlight
<1>7. PICK k \in 1..Popped : accepted[k] = accepted[j]
  BY <1>6 DEF Taken
<1>8. k = j
  <2>1. k \in 1..Len(accepted)
    BY <1>1
  <2> QED BY <1>1, <1>7, <2>1 DEF DtInv, DtQueue
<1>9. i \in 1..Popped
  BY <1>1, <1>7, <1>8
<1> QED BY <1>5, <1>9 DEF DtInv, DtTaken, Taken

\* A statement overtakes an earlier one only while the other thread has that
\* one in hand: DatabaseTasks::flush on the game thread may pass the worker of
\* DatabaseTasks::threadMain, which popped its statement first, and nothing else may.
THEOREM StatementsNearlyInOrder == Spec => BoundedReordering
<1> DEFINE A == \A i, j \in DOMAIN accepted :
                   /\ i < j
                   /\ accepted[j] \in Dt!Members(executed') \ Dt!Members(executed)
                   /\ accepted[i] \notin Dt!Members(executed')
                   => accepted[i] \in Dt!InFlight
<1>1. Init => DtInv
  BY DtInit DEF Init
<1>2. [Next]_vars => Dt!Next \/ UNCHANGED databaseTasksVars
  BY DEF Next, Only, vars
<1>3. DtInv /\ [Next]_vars => DtInv'
  BY <1>2, DtNext
<1>4. DtInv /\ [Next]_vars => [A]_(Dt!vars)
  <2> SUFFICES ASSUME DtInv, [Next]_vars, ~ UNCHANGED Dt!vars PROVE A
    OBVIOUS
  <2>1. Dt!Next
    BY <1>2 DEF databaseTasksVars, Dt!vars
  <2> QED BY <2>1, DtOvertakes
<1> HIDE DEF A
<1>5. Spec => [][A]_(Dt!vars)
  BY <1>1, <1>3, <1>4, PTL DEF Spec
<1> QED
  BY <1>5 DEF A, BoundedReordering, Dt!BoundedReordering

\* The counts of the invariant are those of the property.
LEMMA DtSafe == DtInv => Dt!ExactlyOnce
<1> SUFFICES ASSUME DtInv PROVE Dt!ExactlyOnce
  OBVIOUS
<1> DEFINE S == {h \in Dt!Hands : inHand[h] # NoTask /\ inHand[h] \notin Dt!Members(executed)}
<1>1. \A h \in Dt!Hands : (h \in S) = (Busy(h) = "run")
  <2>1. \A h \in Dt!Hands : Busy(h) \in {"free", "run", "post"}
    BY DEF Busy
  <2> QED BY <2>1 DEF DtInv, DtHands
<1>2. Dt!Cardinality(S) = Due("worker") + Due("flush")
  <2>1. Dt!Cardinality(S) = Cardinality(S)
    BY DEF Dt!Cardinality, Cardinality
  <2>2. Cardinality({}) = 0 /\ Cardinality({"worker"}) = 1 /\ Cardinality({"flush"}) = 1
    BY FS_EmptySet, FS_Singleton
  <2>3. Cardinality({"worker", "flush"}) = 2
    <3>1. IsFiniteSet({"worker"}) /\ "flush" \notin {"worker"}
      BY FS_Singleton
    <3>2. Cardinality({"worker"} \cup {"flush"}) = 1 + 1
      BY <2>2, <3>1, FS_AddElement
    <3>3. {"worker"} \cup {"flush"} = {"worker", "flush"}
      OBVIOUS
    <3> QED BY <3>2, <3>3
  <2>4. \/ S = {} /\ Due("worker") = 0 /\ Due("flush") = 0
        \/ S = {"worker"} /\ Due("worker") = 1 /\ Due("flush") = 0
        \/ S = {"flush"} /\ Due("worker") = 0 /\ Due("flush") = 1
        \/ S = {"worker", "flush"} /\ Due("worker") = 1 /\ Due("flush") = 1
    <3>1. /\ "worker" \in S <=> Busy("worker") = "run"
          /\ "flush" \in S <=> Busy("flush") = "run"
          /\ S \subseteq {"worker", "flush"}
      BY <1>1 DEF Dt!Hands
    <3> HIDE DEF S
    <3>2. \/ S = {} \/ S = {"worker"} \/ S = {"flush"} \/ S = {"worker", "flush"}
      BY <3>1
    <3> QED BY <3>1, <3>2 DEF Due
  <2> HIDE DEF S
  <2> QED BY <2>1, <2>2, <2>3, <2>4
<1>3. Len(accepted) = Len(executed) + Len(tasks) + Dt!Cardinality(S)
  <2>1. Due("worker") \in Nat /\ Due("flush") \in Nat
    BY DEF Due
  <2>2. Popped = Len(executed) + Due("worker") + Due("flush")
    BY DEF DtInv, DtCount
  <2>3. Len(accepted) = Popped + Len(tasks) /\ Len(tasks) \in Nat /\ Len(executed) \in Nat
    BY DtNumbers DEF DtInv
  <2> HIDE DEF S
  <2> QED BY <1>2, <2>1, <2>2, <2>3
<1>4. Dt!Members(accepted) = Dt!Members(executed) \cup Dt!Members(tasks) \cup Dt!InFlight
  <2> DEFINE n == Len(accepted)
             m == Len(tasks)
             k == Popped
  <2>1. n \in Nat /\ m \in Nat /\ k \in Nat /\ n = k + m
    BY DtNumbers DEF DtInv
  <2>2. DOMAIN accepted = 1..n /\ DOMAIN tasks = 1..m
    BY LenProperties DEF DtInv, DtTyped
  <2>3. Dt!Members(tasks) = {accepted[k + i] : i \in 1..m}
    BY <2>2 DEF Dt!Members, DtInv, DtQueue
  <2> HIDE DEF n, m, k
  <2>4. \A i \in 1..n : i \in 1..k \/ \E j \in 1..m : i = k + j
    <3> TAKE i \in 1..n
    <3>1. i \notin 1..k => i - k \in 1..m /\ i = k + (i - k)
      BY <2>1
    <3> QED BY <3>1
  <2>5. \A j \in 1..m : k + j \in 1..n
    BY <2>1
  <2>6. \A i \in 1..k : i \in 1..n
    BY <2>1
  <2>7. {accepted[i] : i \in 1..n} = {accepted[i] : i \in 1..k} \cup {accepted[k + i] : i \in 1..m}
    BY <2>4, <2>5, <2>6
  <2> QED BY <2>2, <2>3, <2>7 DEF Dt!Members, DtInv, DtTaken, Taken, k
<1> QED BY <1>3, <1>4 DEF Dt!ExactlyOnce

\* DatabaseTasks: no statement that addTask took is lost or run twice, although
\* the worker and flush() take from the same queue, in any order of their steps.
THEOREM StatementsOnce == Spec => []Of("database tasks", Dt!ExactlyOnce)
<1>1. Init => DtInv
  BY DtInit DEF Init
<1>2. DtInv /\ [Next]_vars => DtInv'
  <2>1. [Next]_vars => Dt!Next \/ UNCHANGED databaseTasksVars
    BY DEF Next, Only, vars
  <2> QED BY <2>1, DtNext
<1>3. DtInv => Of("database tasks", Dt!ExactlyOnce)
  BY DtSafe DEF Of
<1> QED
  BY <1>1, <1>2, <1>3, PTL DEF Spec

-----------------------------------------------------------------------------
(* The waiting list: nobody waits twice, and nobody enters a full server   *)

\* Every set of numbers has a least one.
LEMMA LeastNat ==
    ASSUME NEW T \in SUBSET Nat, T # {}
    PROVE  \E x \in T : \A y \in T : x <= y
<1> DEFINE R == OpToRel(<, Nat)
<1>1. IsWellFoundedOn(R, Nat)
  BY NatLessThanWellFounded
<1>2. \A x, y \in Nat : <<y, x>> \in R <=> y < x
  BY DEF OpToRel
<1> HIDE DEF R
<1>3. PICK x \in T : \A y \in T : ~ (<<y, x>> \in R)
  BY <1>1, WFMin
<1>4. \A y \in T : ~(y < x)
  BY <1>2, <1>3, Zenon
<1>5. \A y \in T : x <= y
  BY <1>4
<1> QED
  BY <1>5

\* A set of numbers has a member of every rank.
LEMMA Ranks ==
    ASSUME NEW n \in Nat, NEW F \in SUBSET (1..n), NEW k \in 1..Cardinality(F)
    PROVE  \E i \in F : Cardinality({j \in F : j <= i}) = k
<1> DEFINE upto(m) == {j \in F : j <= m}
           T == {m \in Nat : k <= Cardinality(upto(m))}
<1>0. \A j \in F : j \in Nat /\ 1 <= j /\ j <= n
  OBVIOUS
<1>1. IsFiniteSet(F)
  <2>1. IsFiniteSet(1..n)
    BY FS_Interval
  <2> QED BY <2>1, FS_Subset
<1>2. ASSUME NEW m PROVE IsFiniteSet(upto(m)) /\ Cardinality(upto(m)) \in Nat
  BY <1>1, FS_Subset, FS_CardinalityType
<1>3. Cardinality(F) \in Nat
  BY <1>1, FS_CardinalityType
<1>4. n \in T
  <2>1. upto(n) = F
    BY <1>0
  <2> HIDE DEF upto
  <2> QED BY <1>3, <2>1
<1>5. PICK m \in T : \A y \in T : m <= y
  <2>1. T \in SUBSET Nat /\ T # {}
    BY <1>4
  <2> HIDE DEF T
  <2> QED BY <2>1, LeastNat
<1>6. m \in Nat /\ k <= Cardinality(upto(m))
  OBVIOUS
<1>7. m # 0
  <2>1. upto(0) = {}
    <3>1. \A j \in F : ~(j <= 0)
      BY <1>0
    <3> QED BY <3>1
  <2>2. Cardinality(upto(0)) = 0
    BY <2>1, FS_EmptySet
  <2> HIDE DEF upto, T
  <2> QED BY <1>3, <1>6, <2>2
<1>8. m - 1 \in Nat /\ ~(m <= m - 1)
  BY <1>6, <1>7
<1>9. Cardinality(upto(m - 1)) < k
  <2>1. m - 1 \notin T
    <3> HIDE DEF T
    <3> QED BY <1>5, <1>8
  <2>2. ~(k <= Cardinality(upto(m - 1)))
    BY <1>8, <2>1
  <2> HIDE DEF upto, T
  <2> QED BY <1>2, <1>3, <2>2
<1>10. m \in F
  <2> SUFFICES ASSUME m \notin F PROVE FALSE
    OBVIOUS
  <2>1. \A j \in F : j <= m <=> j <= m - 1
    BY <1>0, <1>6
  <2>2. upto(m) = upto(m - 1)
    BY <2>1
  <2> HIDE DEF upto, T
  <2> QED BY <1>2, <1>3, <1>6, <1>9, <2>2
<1>11. Cardinality(upto(m)) = Cardinality(upto(m - 1)) + 1
  <2>1. upto(m) = upto(m - 1) \cup {m} /\ m \notin upto(m - 1)
    <3>1. \A j \in F : j <= m <=> (j <= m - 1 \/ j = m)
      BY <1>0, <1>6
    <3>2. ~(m <= m - 1) /\ m <= m
      BY <1>6
    <3> QED BY <1>10, <3>1, <3>2
  <2> HIDE DEF upto, T
  <2> QED BY <1>2, <2>1, FS_AddElement
<1>12. Cardinality(upto(m)) = k
  <2> HIDE DEF upto, T
  <2> QED BY <1>2, <1>3, <1>6, <1>9, <1>11
<1> QED BY <1>10, <1>12

\* The waiting list counts as the library does.
LEMMA WlCardinality == ASSUME NEW S PROVE Wl!Cardinality(S) = Cardinality(S)
BY DEF Wl!Cardinality, Cardinality

\* A list of which every entry is, once, an entry of another list, or nobody's.
Within(some, all) ==
    \E f \in [DOMAIN some -> DOMAIN all] :
        /\ \A k \in DOMAIN some : some[k].guid \in {all[f[k]].guid, Nobody}
        /\ \A j, k \in DOMAIN some : f[j] = f[k] => j = k

\* A cleanup leaves entries out and repeats none.
LEMMA WlCleaned ==
    ASSUME NEW l \in Seq(Wl!Entry)
    PROVE  Wl!cleanupList(l) \in Seq(Wl!Entry) /\ Within(Wl!cleanupList(l), l)
<1> DEFINE fresh == {i \in DOMAIN l : l[i].timeout > now}
           rank(i) == Cardinality({j \in fresh : j <= i})
           nth(k) == CHOOSE i \in fresh : rank(i) = k
           c == Cardinality(fresh)
           f == [k \in 1..c |-> nth(k)]
           s == [k \in 1..c |-> l[nth(k)]]
<1>1. Len(l) \in Nat /\ DOMAIN l = 1..Len(l) /\ \A i \in DOMAIN l : l[i] \in Wl!Entry
  BY LenProperties, ElementOfSeq
<1>2. c \in Nat
  <2>1. IsFiniteSet(1..Len(l)) /\ fresh \subseteq 1..Len(l)
    BY <1>1, FS_Interval
  <2> HIDE DEF fresh
  <2> QED BY <2>1, FS_Subset, FS_CardinalityType
<1>3. Wl!cleanupList(l) = s
  BY DEF Wl!cleanupList, Wl!Cardinality, Cardinality
<1>4. ASSUME NEW k \in 1..c PROVE nth(k) \in fresh /\ rank(nth(k)) = k
  <2>1. fresh \in SUBSET (1..Len(l))
    BY <1>1
  <2>2. \E i \in fresh : rank(i) = k
    <3> HIDE DEF fresh
    <3> QED BY <1>1, <2>1, Ranks
  <2> HIDE DEF fresh, rank
  <2> QED BY <2>2
<1>5. fresh \subseteq DOMAIN l
  OBVIOUS
<1> HIDE DEF fresh, rank, nth, c
<1>6. s \in Seq(Wl!Entry)
  BY <1>1, <1>2, <1>4, <1>5
<1>7. f \in [DOMAIN s -> DOMAIN l] /\ \A k \in DOMAIN s : s[k] = l[f[k]]
  BY <1>4, <1>5
<1>8. \A j, k \in DOMAIN s : f[j] = f[k] => j = k
  BY <1>4
<1> HIDE DEF f, s
<1> QED BY <1>3, <1>6, <1>7, <1>8 DEF Within

\* A player waits in one place.
Unique(l) == \A i, j \in DOMAIN l : l[i].guid = l[j].guid /\ l[i].guid \in Players => i = j

Apart(prio, wait) ==
    /\ Unique(prio) /\ Unique(wait)
    /\ \A i \in DOMAIN prio, j \in DOMAIN wait : prio[i].guid = wait[j].guid => prio[i].guid \notin Players

\* Leaving entries out, or giving them to nobody, makes no player wait twice.
LEMMA WithinApart ==
    ASSUME NEW prio, NEW wait, NEW p, NEW w, Apart(prio, wait), Within(p, prio), Within(w, wait)
    PROVE  Apart(p, w)
<1> USE ConstantsAssumption
<1>1. PICK f \in [DOMAIN p -> DOMAIN prio] :
         /\ \A k \in DOMAIN p : p[k].guid \in {prio[f[k]].guid, Nobody}
         /\ \A j, k \in DOMAIN p : f[j] = f[k] => j = k
  BY DEF Within
<1>2. PICK g \in [DOMAIN w -> DOMAIN wait] :
         /\ \A k \in DOMAIN w : w[k].guid \in {wait[g[k]].guid, Nobody}
         /\ \A j, k \in DOMAIN w : g[j] = g[k] => j = k
  BY DEF Within
<1>3. Unique(p)
  BY <1>1 DEF Unique, Apart
<1>4. Unique(w)
  BY <1>2 DEF Unique, Apart
<1>5. \A i \in DOMAIN p, j \in DOMAIN w : p[i].guid = w[j].guid => p[i].guid \notin Players
  BY <1>1, <1>2 DEF Apart
<1> QED BY <1>3, <1>4, <1>5 DEF Apart

\* A list has its own entries.
LEMMA WithinItself == ASSUME NEW l PROVE Within(l, l)
<1> DEFINE f == [k \in DOMAIN l |-> k]
<1>1. /\ f \in [DOMAIN l -> DOMAIN l]
      /\ \A k \in DOMAIN l : l[k].guid \in {l[f[k]].guid, Nobody}
      /\ \A j, k \in DOMAIN l : f[j] = f[k] => j = k
  OBVIOUS
<1> QED BY <1>1 DEF Within

\* Taking an entry out leaves the others.
LEMMA WlErased ==
    ASSUME NEW l \in Seq(Wl!Entry), NEW i \in DOMAIN l
    PROVE  Wl!Erase(l, i) \in Seq(Wl!Entry) /\ Within(Wl!Erase(l, i), l)
<1> DEFINE n == Len(l)
           a == SubSeq(l, 1, i - 1)
           b == SubSeq(l, i + 1, n)
           f == [k \in 1..(n - 1) |-> IF k < i THEN k ELSE k + 1]
<1>1. n \in Nat /\ DOMAIN l = 1..n /\ i \in 1..n /\ \A k \in 1..n : l[k] \in Wl!Entry
  BY LenProperties, ElementOfSeq
<1> HIDE DEF n
<1>2. /\ a \in Seq(Wl!Entry) /\ Len(a) = i - 1
      /\ \A k \in 1..(i - 1) : a[k] = l[k]
  <2>1. i - 1 \in Int /\ \A k \in 1..(i - 1) : l[k] \in Wl!Entry
    BY <1>1
  <2>2. /\ a \in Seq(Wl!Entry) /\ Len(a) = IF 1 <= i - 1 THEN (i - 1) - 1 + 1 ELSE 0
        /\ \A k \in 1..((i - 1) - 1 + 1) : a[k] = l[1 + k - 1]
    BY <2>1, SubSeqProperties
  <2> HIDE DEF a
  <2> QED BY <1>1, <2>2
<1>3. /\ b \in Seq(Wl!Entry) /\ Len(b) = n - i
      /\ \A k \in 1..(n - i) : b[k] = l[i + k]
  <2>1. i + 1 \in Int /\ n \in Int /\ \A k \in (i + 1)..n : l[k] \in Wl!Entry
    BY <1>1
  <2>2. /\ b \in Seq(Wl!Entry) /\ Len(b) = IF i + 1 <= n THEN n - (i + 1) + 1 ELSE 0
        /\ \A k \in 1..(n - (i + 1) + 1) : b[k] = l[(i + 1) + k - 1]
    BY <2>1, SubSeqProperties
  <2> HIDE DEF b
  <2>3. n - (i + 1) + 1 = n - i /\ \A k \in 1..(n - i) : (i + 1) + k - 1 = i + k
    BY <1>1
  <2>4. Len(b) = n - i
    BY <1>1, <2>2
  <2> QED BY <2>2, <2>3, <2>4
<1> DEFINE s == a \o b
<1>4. Wl!Erase(l, i) = s
  BY DEF Wl!Erase, n
<1> HIDE DEF a, b
<1>5. /\ s \in Seq(Wl!Entry) /\ Len(s) = Len(a) + Len(b)
      /\ \A k \in 1..(Len(a) + Len(b)) : s[k] = IF k <= Len(a) THEN a[k] ELSE b[k - Len(a)]
  BY <1>2, <1>3, ConcatProperties
<1> HIDE DEF s
<1>6. Len(s) = n - 1 /\ DOMAIN s = 1..(n - 1)
  <2>1. Len(s) = n - 1
    BY <1>1, <1>2, <1>3, <1>5
  <2> QED BY <1>5, <2>1, LenProperties
<1>7. ASSUME NEW k \in 1..(n - 1) PROVE s[k] = l[f[k]] /\ f[k] \in 1..n
  <2>1. CASE k < i
    BY <1>1, <1>2, <1>3, <1>5, <2>1
  <2>2. CASE ~(k < i)
    <3>1. k - (i - 1) \in 1..(n - i) /\ i + (k - (i - 1)) = k + 1 /\ ~(k <= i - 1)
      BY <1>1, <2>2
    <3>2. Len(a) = i - 1 /\ k \in 1..(Len(a) + Len(b))
      BY <1>1, <1>2, <1>3
    <3>3. s[k] = b[k - (i - 1)]
      BY <1>5, <3>1, <3>2
    <3>4. b[k - (i - 1)] = l[k + 1]
      <4> DEFINE j == k - (i - 1)
      <4>1. j \in 1..(n - i) /\ i + j = k + 1
        BY <3>1
      <4> HIDE DEF j
      <4>2. b[j] = l[i + j]
        BY <1>3, <4>1
      <4> QED BY <4>1, <4>2 DEF j
    <3> QED BY <1>1, <2>2, <3>3, <3>4
  <2> QED BY <2>1, <2>2
<1>8. \A j, k \in 1..(n - 1) : f[j] = f[k] => j = k
  BY <1>1
<1> HIDE DEF f
<1>9. f \in [DOMAIN s -> DOMAIN l]
  BY <1>1, <1>6, <1>7 DEF f
<1>10. \A k \in DOMAIN s : s[k].guid \in {l[f[k]].guid, Nobody}
  BY <1>6, <1>7
<1>11. \A j, k \in DOMAIN s : f[j] = f[k] => j = k
  BY <1>6, <1>8
<1> QED BY <1>4, <1>5, <1>9, <1>10, <1>11 DEF Within

\* The retry of a client that stays outside gives its entry to nobody.
LEMMA WlMarked ==
    ASSUME NEW l \in Seq(Wl!Entry), NEW i \in DOMAIN l
    PROVE  /\ [l EXCEPT ![i].guid = Nobody] \in Seq(Wl!Entry)
           /\ Within([l EXCEPT ![i].guid = Nobody], l)
<1> DEFINE e == [l[i] EXCEPT !.guid = Nobody]
           s == [l EXCEPT ![i] = e]
           f == [k \in DOMAIN l |-> k]
<1>1. Len(l) \in Nat /\ DOMAIN l = 1..Len(l) /\ l \in [1..Len(l) -> Wl!Entry] /\ l[i] \in Wl!Entry
  BY LenProperties, ElementOfSeq
<1>2. [l EXCEPT ![i].guid = Nobody] = s
  OBVIOUS
<1>3. e \in Wl!Entry /\ e.guid = Nobody
  BY <1>1 DEF Wl!Entry
<1> HIDE DEF e
<1>4. /\ s \in [1..Len(l) -> Wl!Entry] /\ DOMAIN s = DOMAIN l
      /\ \A k \in DOMAIN l : s[k] = IF k = i THEN e ELSE l[k]
  BY <1>1, <1>3
<1> HIDE DEF s
<1>5. s \in Seq(Wl!Entry)
  BY <1>1, <1>4
<1>6. /\ f \in [DOMAIN s -> DOMAIN l]
      /\ \A k \in DOMAIN s : s[k].guid \in {l[f[k]].guid, Nobody}
      /\ \A j, k \in DOMAIN s : f[j] = f[k] => j = k
  BY <1>3, <1>4
<1>7. Within(s, l)
  <2> HIDE DEF f
  <2> QED BY <1>6 DEF Within
<1> QED BY <1>2, <1>5, <1>7

\* A place in the list counts from its end.
LEMMA WlFound ==
    ASSUME NEW l \in Seq(Wl!Entry), NEW p, Wl!Indices(l, p) # {}
    PROVE  /\ Wl!First(Wl!Indices(l, p)) \in DOMAIN l
           /\ Wl!ToEnd(l, Wl!First(Wl!Indices(l, p))) \in Nat
<1> DEFINE I == Wl!Indices(l, p)
<1>1. Len(l) \in Nat /\ DOMAIN l = 1..Len(l)
  BY LenProperties
<1>2. I \in SUBSET Nat /\ I # {} /\ I \subseteq DOMAIN l
  BY <1>1 DEF Wl!Indices
<1> HIDE DEF I
<1>3. \E i \in I : \A j \in I : i <= j
  BY <1>2, LeastNat
<1>4. Wl!First(I) \in I
  BY <1>3 DEF Wl!First
<1>5. Wl!First(I) \in DOMAIN l
  BY <1>2, <1>4
<1>6. Wl!ToEnd(l, Wl!First(I)) \in Nat
  <2> DEFINE i == Wl!First(I)
  <2>1. i \in 1..Len(l)
    BY <1>1, <1>5
  <2> HIDE DEF i
  <2>2. Wl!ToEnd(l, i) \in Nat
    BY <1>1, <2>1 DEF Wl!ToEnd
  <2> QED BY <2>2 DEF i
<1> QED BY <1>5, <1>6 DEF I

\* A retry lets in when there is room for all before.
LEMMA WlRetried ==
    ASSUME NEW l \in Seq(Wl!Entry), NEW found, found.index \in DOMAIN l, found.slot \in Nat \ {0}
    PROVE  /\ Wl!Retry(l, found).list \in Seq(Wl!Entry)
           /\ Within(Wl!Retry(l, found).list, l)
           /\ Wl!Retry(l, found).slot = 0 => Cardinality(online) + found.slot <= MaxPlayers
<1> DEFINE room == Wl!Cardinality(online) + found.slot <= MaxPlayers
<1>1. CASE room
  <2>1. Wl!Retry(l, found).list = Wl!Erase(l, found.index)
    BY <1>1 DEF Wl!Retry
  <2> QED BY <1>1, <2>1, WlErased, WlCardinality
<1>2. CASE ~room
  <2> DEFINE marked == [l EXCEPT ![found.index].guid = Nobody]
  <2>1. Wl!Retry(l, found) = [list |-> marked, slot |-> found.slot]
    BY <1>2 DEF Wl!Retry
  <2>2. marked \in Seq(Wl!Entry) /\ Within(marked, l)
    BY WlMarked
  <2> HIDE DEF marked
  <2> QED BY <2>1, <2>2
<1> QED BY <1>1, <1>2

\* A new entry, for a player that is on neither list.
LEMMA WlQueued ==
    ASSUME NEW l \in Seq(Wl!Entry), NEW slot \in Nat \ {0}, NEW p \in Players, now \in Nat,
           Wl!Indices(l, p) = {}, Unique(l)
    PROVE  /\ Wl!Queued(l, slot, p).list \in Seq(Wl!Entry)
           /\ Wl!Queued(l, slot, p).slot # 0
           /\ Unique(Wl!Queued(l, slot, p).list)
           /\ \A m : (Wl!Indices(m, p) = {} /\
                      \A i \in DOMAIN l, j \in DOMAIN m : l[i].guid = m[j].guid => l[i].guid \notin Players) =>
                  LET q == Wl!Queued(l, slot, p).list
                  IN  \A i \in DOMAIN q, j \in DOMAIN m : q[i].guid = m[j].guid => q[i].guid \notin Players
<1> DEFINE n == Len(l)
           e == [timeout |-> now + Wl!getTimeout(slot), guid |-> p]
           q == Append(l, e)
<1>1. n \in Nat /\ DOMAIN l = 1..n
  BY LenProperties
<1>2. Wl!Queued(l, slot, p) = [list |-> q, slot |-> slot]
  BY DEF Wl!Queued
<1>3. e \in Wl!Entry /\ e.guid = p
  <2>1. Wl!getWaitTime(slot) \in Nat
    BY DEF Wl!getWaitTime
  <2>2. now + Wl!getTimeout(slot) \in Nat
    BY <2>1 DEF Wl!getTimeout
  <2> QED BY <2>2 DEF Wl!Entry
<1> HIDE DEF e
<1>4. /\ q \in Seq(Wl!Entry) /\ Len(q) = n + 1
      /\ \A i \in 1..n : q[i] = l[i]
      /\ q[n + 1] = e
  BY <1>3, AppendProperties
<1> HIDE DEF q
<1>5. DOMAIN q = 1..(n + 1)
  BY <1>4, LenProperties
<1> HIDE DEF n
<1>6. \A i \in 1..n : l[i].guid # p
  BY <1>1 DEF Wl!Indices
<1>7. \A i \in 1..(n + 1) : i \in 1..n \/ i = n + 1
  BY <1>1
<1>8. Unique(q)
  <2> SUFFICES ASSUME NEW i \in 1..(n + 1), NEW j \in 1..(n + 1), q[i].guid = q[j].guid,
                      q[i].guid \in Players
               PROVE  i = j
    BY <1>5 DEF Unique
  <2>1. CASE i \in 1..n /\ j \in 1..n
    BY <1>1, <1>4, <2>1 DEF Unique
  <2>2. CASE i = n + 1 /\ j \in 1..n
    BY <1>3, <1>4, <1>6, <2>2
  <2>3. CASE i \in 1..n /\ j = n + 1
    BY <1>3, <1>4, <1>6, <2>3
  <2> QED BY <1>7, <2>1, <2>2, <2>3
<1>9. ASSUME NEW m, Wl!Indices(m, p) = {},
             \A i \in DOMAIN l, j \in DOMAIN m : l[i].guid = m[j].guid => l[i].guid \notin Players,
             NEW i \in DOMAIN q, NEW j \in DOMAIN m, q[i].guid = m[j].guid
      PROVE  q[i].guid \notin Players
  <2>1. m[j].guid # p
    BY <1>9 DEF Wl!Indices
  <2>2. i \in 1..n /\ q[i] = l[i]
    BY <1>3, <1>4, <1>5, <1>7, <1>9, <2>1
  <2> QED BY <1>1, <1>9, <2>2
<1> QED BY <1>2, <1>4, <1>8, <1>9

WlInv ==
    /\ priorityWaitList \in Seq(Wl!Entry) /\ waitList \in Seq(Wl!Entry) /\ now \in Nat
    /\ online \subseteq Players /\ IsFiniteSet(online)
    /\ Apart(priorityWaitList, waitList)

\* What clientLogin makes of the lists, and when it gives slot 0.
LEMMA WlClientLogin ==
    ASSUME WlInv, NEW p \in Players, NEW r, r = Wl!clientLogin(p)
    PROVE  /\ r.prio \in Seq(Wl!Entry) /\ r.wait \in Seq(Wl!Entry) /\ Apart(r.prio, r.wait)
           /\ r.slot = 0 /\ p \notin AlwaysLogin /\ MaxPlayers > 0 => Cardinality(online) + 1 <= MaxPlayers
<1> DEFINE P == Wl!cleanupList(priorityWaitList)
           W == Wl!cleanupList(waitList)
<1>1. P \in Seq(Wl!Entry) /\ Within(P, priorityWaitList) /\ W \in Seq(Wl!Entry) /\ Within(W, waitList)
  BY WlCleaned DEF WlInv
<1>2. Apart(P, W)
  <2> HIDE DEF P, W
  <2> QED BY <1>1, WithinApart DEF WlInv
<1>3. Cardinality(online) \in Nat /\ MaxPlayers \in Nat
  BY FS_CardinalityType, ConstantsAssumption DEF WlInv
<1>4. Len(P) \in Nat /\ Len(W) \in Nat
  <2> HIDE DEF P, W
  <2> QED BY <1>1, LenProperties
<1>5. CASE p \in AlwaysLogin
  <2>1. r = [prio |-> priorityWaitList, wait |-> waitList, slot |-> 0]
    BY <1>5 DEF Wl!clientLogin
  <2> QED BY <1>5, <2>1 DEF WlInv
<1>6. CASE p \notin AlwaysLogin /\ Wl!NobodyAhead(P, W)
  <2>1. r = [prio |-> P, wait |-> W, slot |-> 0]
    BY <1>6 DEF Wl!clientLogin
  <2>2. MaxPlayers > 0 => Cardinality(online) < MaxPlayers
    <3> HIDE DEF P, W
    <3> QED BY <1>3, <1>6, WlCardinality DEF Wl!NobodyAhead
  <2> HIDE DEF P, W
  <2> QED BY <1>1, <1>2, <1>3, <2>1, <2>2
<1>7. ASSUME NEW found, found.slot \in Nat \ {0}, NEW x, x.slot = 0 => Cardinality(online) + found.slot <= MaxPlayers
      PROVE  x.slot = 0 => Cardinality(online) + 1 <= MaxPlayers
  BY <1>3, <1>7
<1>8. CASE p \notin AlwaysLogin /\ ~ Wl!NobodyAhead(P, W) /\ Wl!Indices(P, p) # {}
  <2> DEFINE found == Wl!FoundPriority(P, p)
             x == Wl!Retry(P, found)
  <2>1. r = [prio |-> x.list, wait |-> W, slot |-> x.slot]
    BY <1>8 DEF Wl!clientLogin
  <2> HIDE DEF P, W
  <2>2. found.index \in DOMAIN P /\ found.slot \in Nat \ {0}
    BY <1>1, <1>8, WlFound DEF Wl!FoundPriority
  <2> HIDE DEF found
  <2>3. /\ x.list \in Seq(Wl!Entry) /\ Within(x.list, P)
        /\ x.slot = 0 => Cardinality(online) + found.slot <= MaxPlayers
    BY <1>1, <2>2, WlRetried
  <2> HIDE DEF x
  <2>4. Apart(x.list, W)
    BY <1>2, <2>3, WithinApart, WithinItself
  <2>5. x.slot = 0 => Cardinality(online) + 1 <= MaxPlayers
    BY <1>7, <2>2, <2>3
  <2> QED BY <1>1, <2>1, <2>3, <2>4, <2>5
<1>9. CASE p \notin AlwaysLogin /\ ~ Wl!NobodyAhead(P, W) /\ Wl!Indices(P, p) = {} /\ Wl!Indices(W, p) # {}
  <2> DEFINE found == Wl!FoundNormal(P, W, p)
             x == Wl!Retry(W, found)
  <2>1. r = [prio |-> P, wait |-> x.list, slot |-> x.slot]
    BY <1>9 DEF Wl!clientLogin
  <2> HIDE DEF P, W
  <2>2. found.index \in DOMAIN W /\ found.slot \in Nat \ {0}
    BY <1>1, <1>4, <1>9, WlFound DEF Wl!FoundNormal
  <2> HIDE DEF found
  <2>3. /\ x.list \in Seq(Wl!Entry) /\ Within(x.list, W)
        /\ x.slot = 0 => Cardinality(online) + found.slot <= MaxPlayers
    BY <1>1, <2>2, WlRetried
  <2> HIDE DEF x
  <2>4. Apart(P, x.list)
    BY <1>2, <2>3, WithinApart, WithinItself
  <2>5. x.slot = 0 => Cardinality(online) + 1 <= MaxPlayers
    BY <1>7, <2>2, <2>3
  <2> QED BY <1>1, <2>1, <2>3, <2>4, <2>5
<1>10. CASE /\ p \notin AlwaysLogin /\ ~ Wl!NobodyAhead(P, W)
            /\ Wl!Indices(P, p) = {} /\ Wl!Indices(W, p) = {} /\ p \in Premium
  <2> DEFINE slot == Len(P) + 1
             x == Wl!Queued(P, slot, p)
  <2>1. r = [prio |-> x.list, wait |-> W, slot |-> x.slot]
    BY <1>10 DEF Wl!clientLogin
  <2> HIDE DEF P, W
  <2>2. slot \in Nat \ {0}
    BY <1>4
  <2> HIDE DEF slot
  <2>3. /\ x.list \in Seq(Wl!Entry) /\ x.slot # 0 /\ Unique(x.list)
        /\ \A i \in DOMAIN x.list, j \in DOMAIN W : x.list[i].guid = W[j].guid => x.list[i].guid \notin Players
    BY <1>1, <1>2, <1>10, <2>2, WlQueued DEF Apart, WlInv
  <2> HIDE DEF x
  <2> QED BY <1>1, <1>2, <2>1, <2>3 DEF Apart
<1>11. CASE /\ p \notin AlwaysLogin /\ ~ Wl!NobodyAhead(P, W)
            /\ Wl!Indices(P, p) = {} /\ Wl!Indices(W, p) = {} /\ p \notin Premium
  <2> DEFINE slot == Len(P) + Len(W) + 1
             x == Wl!Queued(W, slot, p)
  <2>1. r = [prio |-> P, wait |-> x.list, slot |-> x.slot]
    BY <1>11 DEF Wl!clientLogin
  <2> HIDE DEF P, W
  <2>2. slot \in Nat \ {0}
    BY <1>4
  <2> HIDE DEF slot
  <2>3. \A i \in DOMAIN W, j \in DOMAIN P : W[i].guid = P[j].guid => W[i].guid \notin Players
    BY <1>2 DEF Apart
  <2>4. /\ x.list \in Seq(Wl!Entry) /\ x.slot # 0 /\ Unique(x.list)
        /\ \A i \in DOMAIN x.list, j \in DOMAIN P : x.list[i].guid = P[j].guid => x.list[i].guid \notin Players
    BY <1>1, <1>2, <1>11, <2>2, <2>3, WlQueued DEF Apart, WlInv
  <2> HIDE DEF x
  <2> QED BY <1>1, <1>2, <2>1, <2>4 DEF Apart
<1> QED BY <1>5, <1>6, <1>8, <1>9, <1>10, <1>11

\* Both lists are empty at first.
LEMMA WlInit == Wl!Init => WlInv
<1> SUFFICES ASSUME Wl!Init PROVE WlInv
  OBVIOUS
<1>1. priorityWaitList = <<>> /\ waitList = <<>> /\ online = {} /\ now = 0
  BY DEF Wl!Init
<1>2. Apart(<<>>, <<>>)
  BY DEF Apart, Unique
<1>3. IsFiniteSet({})
  BY FS_EmptySet
<1> QED BY <1>1, <1>2, <1>3 DEF WlInv

\* Each step keeps the invariant and lets nobody into a full server.
LEMMA WlNext ==
    ASSUME WlInv, Wl!Next \/ UNCHANGED waitingListVars
    PROVE  /\ WlInv'
           /\ \A p \in Players \ AlwaysLogin :
                 p \in online' \ online /\ MaxPlayers > 0 => Wl!Cardinality(online') <= MaxPlayers
<1>1. CASE UNCHANGED waitingListVars
  BY <1>1 DEF waitingListVars, WlInv
<1>2. CASE Wl!Tick
  <2>1. UNCHANGED <<priorityWaitList, waitList, online>> /\ now' \in Nat
    BY <1>2, ConstantsAssumption DEF Wl!Tick, WlInv
  <2> QED BY <2>1 DEF WlInv
<1>3. ASSUME NEW p \in Players, Wl!Logout(p)
      PROVE  WlInv' /\ online' \subseteq online
  <2>1. UNCHANGED <<priorityWaitList, waitList, now>> /\ online' = online \ {p}
    BY <1>3 DEF Wl!Logout
  <2>2. IsFiniteSet(online')
    <3>1. online' \in SUBSET online
      BY <2>1
    <3> QED BY <3>1, FS_Subset DEF WlInv
  <2> QED BY <2>1, <2>2 DEF WlInv
<1>4. ASSUME NEW p \in Players, Wl!Login(p)
      PROVE  /\ WlInv'
             /\ \A q \in Players \ AlwaysLogin :
                   q \in online' \ online /\ MaxPlayers > 0 => Wl!Cardinality(online') <= MaxPlayers
  <2> DEFINE r == Wl!clientLogin(p)
  <2>1. /\ p \notin online /\ now' = now
        /\ priorityWaitList' = r.prio /\ waitList' = r.wait
        /\ online' = IF r.slot = 0 THEN online \cup {p} ELSE online
    BY <1>4 DEF Wl!Login
  <2>2. /\ r.prio \in Seq(Wl!Entry) /\ r.wait \in Seq(Wl!Entry) /\ Apart(r.prio, r.wait)
        /\ r.slot = 0 /\ p \notin AlwaysLogin /\ MaxPlayers > 0 => Cardinality(online) + 1 <= MaxPlayers
    BY WlClientLogin
  <2> HIDE DEF r
  <2>3. /\ IsFiniteSet(online \cup {p})
        /\ Cardinality(online \cup {p}) = Cardinality(online) + 1
    BY <2>1, FS_AddElement DEF WlInv
  <2>4. WlInv'
    BY <2>1, <2>2, <2>3 DEF WlInv, Apart, Unique
  <2>5. ASSUME NEW q \in Players \ AlwaysLogin, q \in online' \ online, MaxPlayers > 0
        PROVE  Wl!Cardinality(online') <= MaxPlayers
    <3>1. r.slot = 0 /\ q = p
      BY <2>1, <2>5
    <3>2. online' = online \cup {p}
      BY <2>1, <3>1
    <3>3. Cardinality(online') <= MaxPlayers
      BY <2>2, <2>3, <2>5, <3>1, <3>2
    <3> QED BY <3>3, WlCardinality
  <2> QED BY <2>4, <2>5
<1> QED
  BY <1>1, <1>2, <1>3, <1>4 DEF Wl!Next, Wl!Tick

\* One place on the two lists together.
LEMMA WlSafe == WlInv => Wl!QueuedOnce
<1> SUFFICES ASSUME WlInv, NEW p \in Players
             PROVE  Wl!Cardinality(Wl!Indices(priorityWaitList, p))
                       + Wl!Cardinality(Wl!Indices(waitList, p)) <= 1
  BY DEF Wl!QueuedOnce
<1> DEFINE I == Wl!Indices(priorityWaitList, p)
           J == Wl!Indices(waitList, p)
<1>1. \A i, j \in I : i = j
  BY DEF Wl!Indices, WlInv, Apart, Unique
<1>2. \A i, j \in J : i = j
  BY DEF Wl!Indices, WlInv, Apart, Unique
<1>3. I = {} \/ J = {}
  BY DEF Wl!Indices, WlInv, Apart
<1> HIDE DEF I, J
<1>4. ASSUME NEW S, \A i, j \in S : i = j
      PROVE  Cardinality(S) \in {0, 1}
  <2>1. CASE S = {}
    BY <2>1, FS_EmptySet
  <2>2. CASE S # {}
    <3>1. PICK x : x \in S
      BY <2>2
    <3>2. S = {x}
      BY <1>4, <3>1
    <3> QED BY <3>2, FS_Singleton
  <2> QED BY <2>1, <2>2
<1>5. Cardinality(I) + Cardinality(J) <= 1
  <2>1. Cardinality({}) = 0
    BY FS_EmptySet
  <2>2. Cardinality(I) \in {0, 1} /\ Cardinality(J) \in {0, 1}
    BY <1>1, <1>2, <1>4
  <2> QED BY <1>3, <2>1, <2>2
<1> QED
  <2>1. Wl!Cardinality(I) = Cardinality(I) /\ Wl!Cardinality(J) = Cardinality(J)
    BY WlCardinality
  <2> QED BY <1>5, <2>1 DEF I, J

\* The waiting list moves by its own steps only.
LEMMA WlSteps == [Next]_vars => Wl!Next \/ UNCHANGED waitingListVars
BY DEF Next, Only, vars

\* ProtocolGame::login and the waiting list: whoever is let in and has no right
\* to enter at any time finds a free place, whether he waited or not.
THEOREM NobodyOverfills == Spec => CapacityRespected
<1> DEFINE A == \A p \in Players \ AlwaysLogin :
                   p \in online' \ online /\ MaxPlayers > 0 => Wl!Cardinality(online') <= MaxPlayers
<1>1. Init => WlInv
  BY WlInit DEF Init
<1>2. WlInv /\ [Next]_vars => WlInv' /\ A
  BY WlSteps, WlNext
<1> HIDE DEF A
<1>3. Spec => [][A]_(Wl!vars)
  BY <1>1, <1>2, PTL DEF Spec
<1> QED
  BY <1>3 DEF A, CapacityRespected, Wl!CapacityRespected

\* The waiting list: however players come, retry, leave and let their time run
\* out, nobody has two places on the two lists.
THEOREM NobodyWaitsTwice == Spec => []Of("waiting list", Wl!QueuedOnce)
<1>1. Init => WlInv
  BY WlInit DEF Init
<1>2. WlInv /\ [Next]_vars => WlInv'
  BY WlSteps, WlNext
<1>3. WlInv => Of("waiting list", Wl!QueuedOnce)
  BY WlSafe DEF Of
<1> QED
  BY <1>1, <1>2, <1>3, PTL DEF Spec

-----------------------------------------------------------------------------
(* The scheduler: every task object has one owner                          *)

One(S) == \E x : S = {x}

\* Where in a queue something of C is.
Spots(q, C) == {j \in DOMAIN q : q[j] \in C}

\* The places of a task in a queue with one more task at its end,
LEMMA SpotsAppend ==
    ASSUME NEW S, NEW q \in Seq(S), NEW x \in S, NEW C
    PROVE  /\ x \notin C => Spots(Append(q, x), C) = Spots(q, C)
           /\ x \in C /\ Spots(q, C) = {} => One(Spots(Append(q, x), C))
<1> DEFINE a == Append(q, x)
           n == Len(q)
<1>1. n \in Nat /\ DOMAIN q = 1..n
  BY LenProperties
<1>2. a \in Seq(S) /\ Len(a) = n + 1 /\ (\A j \in 1..n : a[j] = q[j]) /\ a[n + 1] = x
  BY AppendProperties
<1>3. DOMAIN a = 1..(n + 1)
  BY <1>2, LenProperties
<1> HIDE DEF a, n
<1>4. \A j \in 1..(n + 1) : j = n + 1 \/ j \in 1..n
  BY <1>1
<1>5. n + 1 \in 1..(n + 1) /\ n + 1 \notin 1..n /\ 1..n \subseteq 1..(n + 1)
  BY <1>1
<1>6. Spots(a, C) = Spots(q, C) \cup {j \in {n + 1} : x \in C}
  BY <1>1, <1>2, <1>3, <1>4, <1>5 DEF Spots
<1>7. x \in C /\ Spots(q, C) = {} => Spots(a, C) = {n + 1}
  BY <1>6
<1> QED
  BY <1>6, <1>7 DEF One, a

\* in a queue without its first,
LEMMA SpotsTail ==
    ASSUME NEW S, NEW q \in Seq(S), q # <<>>, NEW C
    PROVE  /\ Head(q) \in C /\ One(Spots(q, C)) => Spots(Tail(q), C) = {}
           /\ Spots(q, C) = {} => Spots(Tail(q), C) = {} /\ Head(q) \notin C
           /\ Head(q) \notin C /\ One(Spots(q, C)) => One(Spots(Tail(q), C))
<1> DEFINE t == Tail(q)
           n == Len(t)
<1>1. t \in Seq(S) /\ Len(t) = Len(q) - 1 /\ (\A i \in 1..n : t[i] = q[i + 1]) /\ Head(q) = q[1]
  BY HeadTailProperties
<1>2. n \in Nat /\ Len(q) = n + 1 /\ DOMAIN t = 1..n /\ DOMAIN q = 1..(n + 1)
  <2>1. n \in Nat /\ DOMAIN t = 1..n
    BY <1>1, LenProperties
  <2>2. Len(q) \in Nat /\ DOMAIN q = 1..Len(q)
    BY LenProperties
  <2> QED BY <1>1, <2>1, <2>2
<1> HIDE DEF t, n
<1>3. /\ \A i \in 1..n : i + 1 \in 1..(n + 1) /\ i + 1 # 1
      /\ \A i \in 1..(n + 1) : i # 1 => i - 1 \in 1..n /\ (i - 1) + 1 = i
      /\ 1 \in 1..(n + 1)
  BY <1>2
<1>4. /\ \A i \in Spots(t, C) : i \in 1..n /\ i + 1 \in Spots(q, C) /\ i + 1 # 1
      /\ \A i \in Spots(q, C) : i # 1 => i - 1 \in Spots(t, C) /\ (i - 1) + 1 = i
  <2>1. ASSUME NEW i \in Spots(q, C), i # 1 PROVE i - 1 \in Spots(t, C) /\ (i - 1) + 1 = i
    <3>1. i - 1 \in 1..n /\ (i - 1) + 1 = i
      BY <1>2, <1>3, <2>1 DEF Spots
    <3> QED BY <1>1, <1>2, <2>1, <3>1 DEF Spots
  <2> QED BY <1>1, <1>2, <1>3, <2>1 DEF Spots
<1>5. Head(q) \in C <=> 1 \in Spots(q, C)
  BY <1>1, <1>2, <1>3 DEF Spots
<1>6. ASSUME Head(q) \notin C, NEW x, Spots(q, C) = {x} PROVE Spots(t, C) = {x - 1}
  <2>1. x # 1 /\ x - 1 \in Spots(t, C) /\ x \in Nat
    BY <1>2, <1>4, <1>5, <1>6 DEF Spots
  <2>2. \A i \in Spots(t, C) : i = x - 1
    <3> TAKE i \in Spots(t, C)
    <3>1. i + 1 = x /\ i \in 1..n
      BY <1>4, <1>6
    <3> QED BY <1>2, <2>1, <3>1
  <2> QED BY <2>1, <2>2
<1>7. ASSUME Head(q) \in C, NEW x, Spots(q, C) = {x} PROVE Spots(t, C) = {}
  BY <1>4, <1>5, <1>7
<1> QED
  BY <1>4, <1>5, <1>6, <1>7 DEF One, t

\* and in two queues one after the other.
LEMMA SpotsConcat ==
    ASSUME NEW S, NEW q \in Seq(S), NEW r \in Seq(S), NEW C
    PROVE  /\ Spots(r, C) = {} => Spots(q \o r, C) = Spots(q, C)
           /\ Spots(q, C) = {} /\ One(Spots(r, C)) => One(Spots(q \o r, C))
<1> DEFINE a == q \o r
           m == Len(q)
           n == Len(r)
<1>1. m \in Nat /\ n \in Nat /\ DOMAIN q = 1..m /\ DOMAIN r = 1..n
  BY LenProperties
<1>2. /\ a \in Seq(S) /\ Len(a) = m + n
      /\ \A i \in 1..(m + n) : a[i] = IF i <= m THEN q[i] ELSE r[i - m]
  BY ConcatProperties
<1>3. DOMAIN a = 1..(m + n)
  BY <1>2, LenProperties
<1> HIDE DEF a, m, n
<1>4. /\ \A i \in 1..(m + n) : (i <= m => i \in 1..m) /\ (~(i <= m) => i - m \in 1..n /\ i = m + (i - m))
      /\ \A i \in 1..m : i \in 1..(m + n) /\ i <= m
      /\ \A j \in 1..n : m + j \in 1..(m + n) /\ ~(m + j <= m) /\ (m + j) - m = j
  BY <1>1
<1>5. Spots(a, C) = Spots(q, C) \cup {m + j : j \in Spots(r, C)}
  <2>1. ASSUME NEW i \in Spots(a, C) PROVE i \in Spots(q, C) \/ \E j \in Spots(r, C) : i = m + j
    <3>1. i \in 1..(m + n) /\ a[i] \in C
      BY <1>3 DEF Spots
    <3>2. CASE i <= m
      BY <1>1, <1>2, <1>4, <3>1, <3>2 DEF Spots
    <3>3. CASE ~(i <= m)
      <4>1. i - m \in 1..n /\ i = m + (i - m) /\ r[i - m] \in C
        BY <1>2, <1>4, <3>1, <3>3
      <4>2. i - m \in Spots(r, C)
        BY <1>1, <4>1 DEF Spots
      <4> QED BY <4>1, <4>2
    <3> QED BY <3>2, <3>3
  <2>2. \A i \in Spots(q, C) : i \in Spots(a, C)
    BY <1>1, <1>2, <1>3, <1>4 DEF Spots
  <2>3. \A j \in Spots(r, C) : m + j \in Spots(a, C)
    BY <1>1, <1>2, <1>3, <1>4 DEF Spots
  <2> QED BY <2>1, <2>2, <2>3
<1>6. ASSUME Spots(q, C) = {}, NEW x, Spots(r, C) = {x} PROVE Spots(a, C) = {m + x}
  BY <1>5, <1>6
<1>7. ASSUME Spots(r, C) = {} PROVE Spots(a, C) = Spots(q, C)
  BY <1>5, <1>7
<1>8. Spots(q, C) = {} /\ One(Spots(r, C)) => One(Spots(a, C))
  BY <1>6 DEF One
<1> QED
  BY <1>7, <1>8 DEF a

\* What there is of the task of e in the io_context's queue.
Codes(e) == {"add", "fired", "aborted"} \X {e}

Armed(e) == {i \in DOMAIN timers : timers[i] = e}

Waits(ids) == {timers[i] : i \in ids \cap DOMAIN timers} \ {NoEvent}

\* The cancelled waits are queued, each once.
LEMMA SeAborts ==
    ASSUME Se!TypeOK, NEW ids, IsFiniteSet(ids)
    PROVE  /\ Se!Aborts(ids) \in Seq(Se!Posted)
           /\ \A e \in Waits(ids) : One(Spots(Se!Aborts(ids), Codes(e)))
           /\ \A e \in Events \ Waits(ids) : Spots(Se!Aborts(ids), Codes(e)) = {}
<1> DEFINE D == ids \cap DOMAIN timers
           W == Waits(ids)
           V == {<<"aborted", e>> : e \in W}
           n == Cardinality(W)
           All == {timers[i] : i \in D}
<1>1. W \subseteq Events
  BY DEF Waits, Se!TypeOK
<1>2. IsFiniteSet(W)
  <2>1. IsFiniteSet(D)
    BY FS_Subset
  <2> DEFINE f == [i \in D |-> timers[i]]
  <2>2. f \in Surjection(D, All)
    BY DEF Surjection
  <2>3. IsFiniteSet(All)
    BY <2>1, <2>2, FS_Surjection
  <2>4. W \in SUBSET All
    BY DEF Waits
  <2> QED BY <2>3, <2>4, FS_Subset
<1>3. n \in Nat /\ ExistsBijection(1..n, W)
  BY <1>2, FS_CardinalityType
<1>4. Se!Cardinality(W) = n
  BY DEF Se!Cardinality, Cardinality
<1>5. IsFiniteSet(V) /\ Cardinality(V) = n
  <2> DEFINE g == [e \in W |-> <<"aborted", e>>]
  <2>1. g \in Bijection(W, V)
    BY DEF Bijection, Injection, Surjection, IsInjective
  <2> QED BY <1>2, <2>1, FS_Bijection DEF ExistsBijection
<1> DEFINE Good(s) == s \in [1..n -> V] /\ \A i, j \in DOMAIN s : s[i] = s[j] => i = j
<1>6. \E s : Good(s)
  <2>1. IsFiniteSet(1..n) /\ Cardinality(1..n) = n
    BY <1>3, FS_Interval
  <2>2. ExistsBijection(1..n, V)
    BY <1>5, <2>1, FS_SameCardinalityBij
  <2>3. PICK s : s \in Bijection(1..n, V)
    BY <2>2 DEF ExistsBijection
  <2> QED BY <2>3 DEF Bijection, Injection, IsInjective
<1> DEFINE a == Se!Aborts(ids)
<1>7. a = CHOOSE s \in [1..n -> V] : \A i, j \in DOMAIN s : s[i] = s[j] => i = j
  BY <1>4 DEF Se!Aborts, Waits
<1>8. Good(a)
  <2> HIDE DEF V, n, a
  <2> QED BY <1>6, <1>7
<1>9. a \in Seq(V) /\ DOMAIN a = 1..n
  <2> HIDE DEF V, n, a
  <2> QED BY <1>3, <1>8
<1>10. V \subseteq Se!Posted
  BY <1>1 DEF Se!Posted
<1>11. a \in Seq(Se!Posted)
  <2> HIDE DEF V, n, a
  <2> QED BY <1>9, <1>10, SeqMonotonic
<1>12. ASSUME NEW e \in Events, e \notin W PROVE Spots(a, Codes(e)) = {}
  <2>1. V \cap Codes(e) = {}
    BY <1>12 DEF Codes
  <2> HIDE DEF V, n, a, W
  <2> QED BY <1>8, <1>9, <2>1 DEF Spots
<1>13. ASSUME NEW e \in Events, e \in W PROVE One(Spots(a, Codes(e)))
  <2>1. a \in Injection(1..n, V)
    BY <1>8 DEF Injection, IsInjective
  <2>2. IsFiniteSet(1..n) /\ Cardinality(1..n) = n
    BY <1>3, FS_Interval
  <2>3. a \in Surjection(1..n, V)
    <3> HIDE DEF V, n, a
    <3> QED BY <1>5, <2>1, <2>2, FS_Injection
  <2>4. <<"aborted", e>> \in V
    BY <1>13
  <2>5. PICK k \in 1..n : a[k] = <<"aborted", e>>
    <3> HIDE DEF V, n, a
    <3> QED BY <2>3, <2>4 DEF Surjection
  <2>6. \A v \in V : v \in Codes(e) => v = <<"aborted", e>>
    BY DEF Codes
  <2>7. <<"aborted", e>> \in Codes(e)
    BY DEF Codes
  <2>8. Spots(a, Codes(e)) = {k}
    <3> HIDE DEF V, n, a
    <3> QED BY <1>8, <1>9, <2>5, <2>6, <2>7 DEF Spots
  <2> QED BY <2>8 DEF One
<1> QED
  BY <1>1, <1>11, <1>12, <1>13

\* Where the task of e can be, and where it is.
Nowhere(e) ==
    /\ Spots(ready, Codes(e)) = {} /\ Armed(e) = {} /\ handing # e /\ Spots(taskList, {e}) = {}

Somewhere(e) ==
    \/ One(Spots(ready, Codes(e))) /\ Armed(e) = {} /\ handing # e /\ Spots(taskList, {e}) = {}
    \/ Spots(ready, Codes(e)) = {} /\ One(Armed(e)) /\ handing # e /\ Spots(taskList, {e}) = {}
    \/ Spots(ready, Codes(e)) = {} /\ Armed(e) = {} /\ handing = e /\ Spots(taskList, {e}) = {}
    \/ Spots(ready, Codes(e)) = {} /\ Armed(e) = {} /\ handing # e /\ One(Spots(taskList, {e}))

Held(e) == IF owner[e] \in {"scheduler", "dispatcher"} THEN Somewhere(e) ELSE Nowhere(e)

SeInv == Se!TypeOK /\ \A e \in Events : Held(e)

\* The next handler, if it is one of a task.
LEMMA SeHead ==
    ASSUME SeInv, ready # <<>>
    PROVE  /\ Head(ready) \in Se!Posted
           /\ Head(ready)[1] \in {"add", "fired", "aborted"} =>
                 Head(ready)[2] \in Events /\ Head(ready) \in Codes(Head(ready)[2])
           /\ \A e \in Events : Head(ready) \in Codes(e) =>
                 e = Head(ready)[2] /\ Head(ready)[1] \in {"add", "fired", "aborted"}
<1>1. Head(ready) \in Se!Posted
  BY HeadTailProperties DEF SeInv, Se!TypeOK
<1> QED BY <1>1 DEF Se!Posted, Codes

\* A handler that cancels waits, for the tasks that are not its own.
LEMMA SeOthers ==
    ASSUME SeInv, ready # <<>>, NEW ids, IsFiniteSet(ids), ready' = Tail(ready) \o Se!Aborts(ids),
           NEW e \in Events, Head(ready) \notin Codes(e), Armed(e)' = Armed(e) \ ids,
           handing' = e <=> handing = e, taskList' = taskList, owner'[e] = owner[e]
    PROVE  Held(e)'
<1> DEFINE R == Spots(ready, Codes(e))
           t == Tail(ready)
           a == Se!Aborts(ids)
           A == Armed(e)
<1>1. ready \in Seq(Se!Posted)
  BY DEF SeInv, Se!TypeOK
<1>2. t \in Seq(Se!Posted) /\ (R = {} => Spots(t, Codes(e)) = {}) /\ (One(R) => One(Spots(t, Codes(e))))
  BY <1>1, SpotsTail, HeadTailProperties
<1>3. /\ a \in Seq(Se!Posted)
      /\ e \in Waits(ids) => One(Spots(a, Codes(e)))
      /\ e \notin Waits(ids) => Spots(a, Codes(e)) = {}
  <2>1. Se!TypeOK
    BY DEF SeInv
  <2>2. a \in Seq(Se!Posted)
    BY <2>1, SeAborts
  <2>3. e \in Waits(ids) => One(Spots(a, Codes(e)))
    BY <2>1, SeAborts
  <2>4. e \notin Waits(ids) => Spots(a, Codes(e)) = {}
    BY <2>1, SeAborts
  <2> QED BY <2>2, <2>3, <2>4
<1>4. e \in Waits(ids) <=> A \cap ids # {}
  BY ConstantsAssumption DEF Waits, Armed
<1>5. One(A) => IF A \cap ids # {} THEN A \ ids = {} ELSE A \ ids = A
  BY DEF One
<1>6. A = {} => A \ ids = {} /\ A \cap ids = {}
  OBVIOUS
<1> DEFINE r == t \o a
           R2 == Spots(r, Codes(e))
<1>7. e \notin Waits(ids) => R2 = Spots(t, Codes(e))
  BY <1>2, <1>3, SpotsConcat
<1>8. e \in Waits(ids) /\ Spots(t, Codes(e)) = {} => One(R2)
  BY <1>2, <1>3, SpotsConcat
<1>9. Spots(ready, Codes(e))' = R2 /\ Spots(taskList, {e})' = Spots(taskList, {e})
  OBVIOUS
<1>10. Held(e)
  BY DEF SeInv
<1>11. ~(R = {} /\ R # {}) /\ (One(R) => R # {}) /\ (One(A) => A # {})
  BY DEF One
<1> HIDE DEF R, A, R2, t, a, r
<1>12. Armed(e)' = A \ ids
  BY DEF A
<1>13. Nowhere(e) => Nowhere(e)'
  BY <1>2, <1>4, <1>6, <1>7, <1>9, <1>12 DEF Nowhere, R, A
<1>14. Somewhere(e) => Somewhere(e)'
  <2>1. CASE One(R) /\ A = {} /\ handing # e /\ Spots(taskList, {e}) = {}
    BY <1>2, <1>4, <1>6, <1>7, <1>9, <1>12, <2>1 DEF Somewhere
  <2>2. CASE R = {} /\ One(A) /\ handing # e /\ Spots(taskList, {e}) = {}
    BY <1>2, <1>4, <1>5, <1>7, <1>8, <1>9, <1>12, <2>2 DEF Somewhere
  <2>3. CASE R = {} /\ A = {} /\ handing = e /\ Spots(taskList, {e}) = {}
    BY <1>2, <1>4, <1>6, <1>7, <1>9, <1>12, <2>3 DEF Somewhere
  <2>4. CASE R = {} /\ A = {} /\ handing # e /\ One(Spots(taskList, {e}))
    BY <1>2, <1>4, <1>6, <1>7, <1>9, <1>12, <2>4 DEF Somewhere
  <2> QED BY <2>1, <2>2, <2>3, <2>4 DEF Somewhere, R, A
<1> QED
  BY <1>10, <1>13, <1>14 DEF Held

\* The task whose handler runs: it was nowhere else, and is gone from the queue.
LEMMA SeOwn ==
    ASSUME SeInv, ready # <<>>, NEW ids, IsFiniteSet(ids), ready' = Tail(ready) \o Se!Aborts(ids),
           NEW e \in Events, Head(ready) \in Codes(e)
    PROVE  /\ Spots(ready', Codes(e)) = {} /\ Armed(e) = {} /\ handing # e /\ Spots(taskList, {e}) = {}
           /\ owner[e] \in {"scheduler", "dispatcher"}
<1> DEFINE R == Spots(ready, Codes(e))
           t == Tail(ready)
           a == Se!Aborts(ids)
<1>1. ready \in Seq(Se!Posted)
  BY DEF SeInv, Se!TypeOK
<1>2. R # {}
  BY <1>1, SpotsTail
<1>3. Held(e)
  BY DEF SeInv
<1>4. One(R) /\ Armed(e) = {} /\ handing # e /\ Spots(taskList, {e}) = {} /\ owner[e] \in {"scheduler", "dispatcher"}
  BY <1>2, <1>3 DEF Held, Somewhere, Nowhere
<1>5. t \in Seq(Se!Posted) /\ Spots(t, Codes(e)) = {}
  BY <1>1, <1>4, SpotsTail, HeadTailProperties
<1>6. e \notin Waits(ids)
  BY <1>4 DEF Waits, Armed
<1>7. a \in Seq(Se!Posted) /\ Spots(a, Codes(e)) = {}
  BY <1>6, SeAborts DEF SeInv
<1>8. Spots(t \o a, Codes(e)) = {}
  BY <1>5, <1>7, SpotsConcat
<1> QED
  BY <1>4, <1>8

\* An action that leaves the task of e where it is.
LEMMA SeKept ==
    ASSUME NEW e \in Events, Held(e), owner'[e] = owner[e],
           Spots(ready, Codes(e))' = Spots(ready, Codes(e)), Armed(e)' = Armed(e),
           handing' = e <=> handing = e, Spots(taskList, {e})' = Spots(taskList, {e})
    PROVE  Held(e)'
BY DEF Held, Somewhere, Nowhere

\* Nothing is scheduled at first.
LEMMA SeInit == Se!Init => SeInv
<1> SUFFICES ASSUME Se!Init PROVE SeInv
  OBVIOUS
<1>1. Se!TypeOK
  <2>1. 0 \in Se!Ids
    BY ConstantsAssumption DEF Se!Ids
  <2>2. <<>> \in Seq(Se!Posted) /\ <<>> \in Seq(Events)
    OBVIOUS
  <2>3. DOMAIN timers = {}
    BY DEF Se!Init
  <2> QED BY <2>1, <2>2, <2>3 DEF Se!Init, Se!TypeOK
<1>2. \A e \in Events : Spots(ready, Codes(e)) = {} /\ Armed(e) = {} /\ Spots(taskList, {e}) = {}
  <2>1. DOMAIN ready = {} /\ DOMAIN timers = {} /\ DOMAIN taskList = {}
    BY DEF Se!Init
  <2> QED BY <2>1 DEF Spots, Armed
<1>3. \A e \in Events : owner[e] = "caller" /\ handing # e
  BY ConstantsAssumption DEF Se!Init
<1> QED
  BY <1>1, <1>2, <1>3 DEF SeInv, Held, Nowhere

\* The calls: one handler more in the queue.
LEMMA SeCalls ==
    ASSUME SeInv,
           \/ \E e \in Events : Se!AddEvent(e)
           \/ \E e \in Stoppable : Se!StopEvent(e)
           \/ Se!Stop \/ Se!Shutdown
    PROVE  SeInv'
<1> USE DEF SeInv
<1>0. ready \in Seq(Se!Posted)
  BY DEF Se!TypeOK
<1>1. ASSUME NEW e \in Events, Se!AddEvent(e) PROVE SeInv'
  <2>1. <<"add", e>> \in Se!Posted /\ <<"add", e>> \in Codes(e)
    BY DEF Se!Posted, Codes
  <2>2. \A f \in Events \ {e} : <<"add", e>> \notin Codes(f)
    BY DEF Codes
  <2>3. ready' = Append(ready, <<"add", e>>) /\ owner' = [owner EXCEPT ![e] = "scheduler"]
        /\ UNCHANGED <<threadState, timers, handing, ioStopped, stopAsked, dispatcherOpen, taskList>>
        /\ owner[e] = "caller"
    BY <1>1 DEF Se!AddEvent, Se!Give
  <2>4. lastEventId' \in Se!Ids /\ eventId' \in [Events -> Se!Ids]
    <3>1. (lastEventId + 1) % IdMod \in Se!Ids
      BY ConstantsAssumption DEF Se!Ids, Se!TypeOK
    <3> QED BY <1>1, <3>1 DEF Se!AddEvent, Se!TypeOK
  <2>5. Se!TypeOK'
    <3>1. ready' \in Seq(Se!Posted)
      BY <1>0, <2>1, <2>3, AppendProperties
    <3>2. owner' \in [Events -> {"caller", "scheduler", "dispatcher", "executed", "deleted"}]
      BY <2>3 DEF Se!TypeOK
    <3> QED BY <2>3, <2>4, <3>1, <3>2 DEF Se!TypeOK
  <2>6. ASSUME NEW f \in Events PROVE Held(f)'
    <3>1. Armed(f)' = Armed(f) /\ Spots(taskList, {f})' = Spots(taskList, {f})
      BY <2>3 DEF Armed
    <3>2. CASE f = e
      <4>1. Nowhere(e)
        BY <2>3 DEF Held
      <4>2. One(Spots(ready', Codes(e)))
        BY <1>0, <2>1, <2>3, <4>1, SpotsAppend DEF Nowhere
      <4>3. owner'[e] = "scheduler"
        BY <2>3 DEF Se!TypeOK
      <4> QED BY <2>3, <3>1, <3>2, <4>1, <4>2, <4>3 DEF Held, Somewhere, Nowhere
    <3>3. CASE f # e
      <4>1. Spots(ready', Codes(f)) = Spots(ready, Codes(f))
        BY <1>0, <2>1, <2>2, <2>3, <3>3, SpotsAppend
      <4>2. owner'[f] = owner[f] /\ Held(f)
        BY <2>3, <3>3 DEF Se!TypeOK
      <4> QED BY <2>3, <3>1, <4>1, <4>2, SeKept
    <3> QED BY <3>2, <3>3
  <2> QED BY <2>5, <2>6
<1>2. ASSUME NEW h \in Se!Posted, h[1] \notin {"add", "fired", "aborted"},
             ready' = Append(ready, h) \/ ready' = ready,
             UNCHANGED <<timers, handing, owner, taskList>>
      PROVE  ready' \in Seq(Se!Posted) /\ \A f \in Events : Held(f)'
  <2>1. \A f \in Events : h \notin Codes(f)
    BY <1>2 DEF Codes
  <2>2. \A f \in Events : Spots(ready', Codes(f)) = Spots(ready, Codes(f))
    <3> TAKE f \in Events
    <3>1. CASE ready' = ready
      BY <3>1
    <3>2. CASE ready' = Append(ready, h)
      BY <1>0, <2>1, <3>2, SpotsAppend
    <3> QED BY <1>2, <3>1, <3>2
  <2>3. \A f \in Events : Armed(f)' = Armed(f) /\ Spots(taskList, {f})' = Spots(taskList, {f})
    BY <1>2 DEF Armed
  <2>4. ASSUME NEW f \in Events PROVE Held(f)'
    <3>1. Held(f) /\ owner'[f] = owner[f] /\ (handing' = f <=> handing = f)
      BY <1>2
    <3> QED BY <2>2, <2>3, <3>1, SeKept
  <2>5. ready' \in Seq(Se!Posted)
    BY <1>0, <1>2, AppendProperties
  <2> QED BY <2>4, <2>5
<1>3. ASSUME NEW e \in Stoppable, Se!StopEvent(e) PROVE SeInv'
  <2>1. e \in Events
    BY ConstantsAssumption
  <2>2. <<"stop", eventId[e]>> \in Se!Posted
    BY <2>1 DEF Se!Posted, Se!TypeOK
  <2>3. (ready' = Append(ready, <<"stop", eventId[e]>>) \/ ready' = ready)
        /\ UNCHANGED <<timers, handing, owner, taskList>>
    BY <1>3 DEF Se!StopEvent
  <2>4. <<"stop", eventId[e]>>[1] \notin {"add", "fired", "aborted"}
    OBVIOUS
  <2>5. ready' \in Seq(Se!Posted) /\ \A f \in Events : Held(f)'
    BY <1>2, <2>2, <2>3, <2>4
  <2>6. Se!TypeOK'
    BY <1>3, <2>1, <2>5 DEF Se!StopEvent, Se!TypeOK
  <2> QED BY <2>5, <2>6
<1>4. CASE Se!Stop
  <2>1. <<"shutdown", 0>> \in Se!Posted
    BY DEF Se!Posted
  <2>2. ready' \in Seq(Se!Posted) /\ \A f \in Events : Held(f)'
    BY <1>2, <1>4, <2>1 DEF Se!Stop
  <2>3. Se!TypeOK'
    BY <1>4, <2>2 DEF Se!Stop, Se!TypeOK
  <2> QED BY <2>2, <2>3
<1>5. CASE Se!Shutdown
  <2>1. <<"shutdown", 0>> \in Se!Posted
    BY DEF Se!Posted
  <2>2. ready' \in Seq(Se!Posted) /\ \A f \in Events : Held(f)'
    BY <1>2, <1>5, <2>1 DEF Se!Shutdown
  <2>3. Se!TypeOK'
    BY <1>5, <2>2 DEF Se!Shutdown, Se!TypeOK
  <2> QED BY <2>2, <2>3
<1> QED
  BY <1>1, <1>3, <1>4, <1>5

\* Timers whose waits are taken off.
LEMMA SeOff ==
    ASSUME NEW ids, timers' = [j \in DOMAIN timers |-> IF j \in ids THEN NoEvent ELSE timers[j]]
                 \/ timers' = [j \in DOMAIN timers \ ids |-> timers[j]]
    PROVE  /\ DOMAIN timers' \subseteq DOMAIN timers
           /\ \A j \in DOMAIN timers' : timers'[j] \in {timers[j], NoEvent}
           /\ \A e \in Events : Armed(e)' = Armed(e) \ ids
BY ConstantsAssumption DEF Armed

\* What is left of the queue and what is added are handlers.
LEMMA SeQueue ==
    ASSUME Se!TypeOK, ready # <<>>, NEW ids, IsFiniteSet(ids)
    PROVE  Tail(ready) \o Se!Aborts(ids) \in Seq(Se!Posted)
<1>1. Tail(ready) \in Seq(Se!Posted)
  BY HeadTailProperties DEF Se!TypeOK
<1>2. Se!Aborts(ids) \in Seq(Se!Posted)
  BY SeAborts
<1> QED
  BY <1>1, <1>2, ConcatProperties

\* The armed timers are finitely many.
LEMMA SeTimersFinite == Se!TypeOK => IsFiniteSet(DOMAIN timers)
<1>1. IsFiniteSet(0 .. IdMod - 1)
  BY ConstantsAssumption, FS_Interval
<1> QED
  BY <1>1, FS_Subset DEF Se!TypeOK, Se!Ids

\* Scheduler::addEvent on the I/O thread: the event becomes the timer's.
LEMMA SeRunAdd ==
    ASSUME SeInv, Se!RunAdd
    PROVE  SeInv'
<1>1. ready # <<>> /\ Head(ready)[1] = "add"
  BY DEF Se!RunAdd, Se!NextHandler
<1>2. PICK e \in Events : /\ e = Head(ready)[2] /\ Head(ready) \in Codes(e)
                          /\ \A f \in Events : Head(ready) \in Codes(f) => f = e
  BY <1>1, SeHead
<1>3. PICK i \in Se!Ids : i = eventId[e]
  BY <1>2 DEF SeInv, Se!TypeOK
<1>4. /\ timers' = [j \in DOMAIN timers \cup {i} |-> IF j = i THEN e ELSE timers[j]]
      /\ ready' = Tail(ready) \o Se!Aborts({i})
      /\ UNCHANGED <<threadState, lastEventId, eventId, handing, ioStopped, stopAsked, owner,
                     dispatcherOpen, taskList>>
  BY <1>2, <1>3 DEF Se!RunAdd
<1>5. IsFiniteSet({i})
  BY FS_Singleton
<1>6. Se!TypeOK'
  <2>1. ready' \in Seq(Se!Posted)
    BY <1>1, <1>4, <1>5, SeQueue DEF SeInv
  <2>2. DOMAIN timers' \subseteq Se!Ids /\ \A j \in DOMAIN timers' : timers'[j] \in Events \cup {NoEvent}
    BY <1>2, <1>3, <1>4 DEF SeInv, Se!TypeOK
  <2> QED BY <1>4, <2>1, <2>2 DEF SeInv, Se!TypeOK
<1>7. ASSUME NEW f \in Events PROVE Held(f)'
  <2>1. CASE f = e
    <3>1. /\ Spots(ready', Codes(e)) = {} /\ Armed(e) = {} /\ handing # e /\ Spots(taskList, {e}) = {}
          /\ owner[e] \in {"scheduler", "dispatcher"}
      BY <1>1, <1>2, <1>4, <1>5, SeOwn
    <3>2. Armed(e)' = {i}
      BY <1>4, <3>1 DEF Armed
    <3> QED BY <1>4, <2>1, <3>1, <3>2 DEF Held, Somewhere, One
  <2>2. CASE f # e
    <3>1. Armed(f)' = Armed(f) \ {i}
      BY <1>4, <2>2 DEF Armed
    <3>2. Head(ready) \notin Codes(f)
      BY <1>2, <2>2
    <3> QED BY <1>1, <1>4, <1>5, <3>1, <3>2, SeOthers
  <2> QED BY <2>1, <2>2
<1> QED
  BY <1>6, <1>7 DEF SeInv

\* Handlers of stopEvent and shutdown, which have no task.
LEMMA SeRunStop ==
    ASSUME SeInv, Se!RunStop \/ Se!RunShutdown
    PROVE  SeInv'
<1>1. /\ ready # <<>> /\ Head(ready)[1] \in {"stop", "shutdown"}
      /\ UNCHANGED <<threadState, lastEventId, eventId, handing, stopAsked, owner, dispatcherOpen, taskList>>
      /\ ioStopped' \in BOOLEAN
  BY DEF Se!RunStop, Se!RunShutdown, Se!NextHandler, SeInv, Se!TypeOK
<1>2. \A f \in Events : Head(ready) \notin Codes(f)
  BY <1>1, SeHead
<1>3. PICK ids : /\ IsFiniteSet(ids) /\ ready' = Tail(ready) \o Se!Aborts(ids)
                 /\ timers' = [j \in DOMAIN timers |-> IF j \in ids THEN NoEvent ELSE timers[j]]
  <2>1. CASE Se!RunStop
    <3> DEFINE i == Head(ready)[2]
    <3>1. IsFiniteSet({i})
      BY FS_Singleton
    <3>2. ready' = Tail(ready) \o Se!Aborts({i})
          /\ timers' = [j \in DOMAIN timers |-> IF j \in {i} THEN NoEvent ELSE timers[j]]
      BY <2>1 DEF Se!RunStop, Se!Disarm
    <3> HIDE DEF i
    <3> QED BY <3>1, <3>2
  <2>2. CASE Se!RunShutdown
    <3>1. IsFiniteSet(DOMAIN timers)
      BY SeTimersFinite DEF SeInv
    <3>2. ready' = Tail(ready) \o Se!Aborts(DOMAIN timers)
          /\ timers' = [j \in DOMAIN timers |-> IF j \in DOMAIN timers THEN NoEvent ELSE timers[j]]
      BY <2>2 DEF Se!RunShutdown, Se!Disarm
    <3> QED BY <3>1, <3>2
  <2> QED BY <2>1, <2>2
<1>4. /\ DOMAIN timers' \subseteq DOMAIN timers
      /\ \A j \in DOMAIN timers' : timers'[j] \in {timers[j], NoEvent}
      /\ \A e \in Events : Armed(e)' = Armed(e) \ ids
  BY <1>3, SeOff
<1>5. Se!TypeOK'
  <2>1. ready' \in Seq(Se!Posted)
    BY <1>1, <1>3, SeQueue DEF SeInv
  <2> QED BY <1>1, <1>4, <2>1 DEF SeInv, Se!TypeOK
<1>6. ASSUME NEW f \in Events PROVE Held(f)'
  <2>1. (handing' = f <=> handing = f) /\ owner'[f] = owner[f] /\ taskList' = taskList
    BY <1>1
  <2> QED BY <1>1, <1>2, <1>3, <1>4, <2>1, SeOthers
<1> QED
  BY <1>5, <1>6 DEF SeInv

\* The completion of a wait: the task is freed, or goes to the dispatcher.
LEMMA SeRunDone ==
    ASSUME SeInv, Se!RunAborted \/ Se!RunFired
    PROVE  SeInv'
<1>0. ready # <<>> /\ Head(ready)[1] \in {"aborted", "fired"} /\ handing = NoEvent
  BY DEF Se!RunAborted, Se!RunFired, Se!NextHandler, Se!Idle
<1>2. PICK e \in Events : /\ e = Head(ready)[2] /\ Head(ready) \in Codes(e)
                          /\ \A f \in Events : Head(ready) \in Codes(f) => f = e
  BY <1>0, SeHead
<1> DEFINE i == eventId[e]
<1>1. /\ ready # <<>> /\ Head(ready)[1] \in {"aborted", "fired"} /\ handing = NoEvent
      /\ UNCHANGED <<threadState, lastEventId, eventId, ioStopped, stopAsked, dispatcherOpen, taskList>>
      /\ \/ owner' = [owner EXCEPT ![e] = "deleted"] /\ UNCHANGED handing
         \/ UNCHANGED owner /\ handing' = e
  BY <1>0, <1>2 DEF Se!RunAborted, Se!RunFired, Se!Give
<1>3. /\ ready' = Tail(ready) \o Se!Aborts({i})
      /\ timers' = [j \in DOMAIN timers \ {i} |-> timers[j]]
  BY <1>2 DEF Se!RunAborted, Se!RunFired, Se!Erase
<1>4. IsFiniteSet({i})
  BY FS_Singleton
<1>5. /\ DOMAIN timers' \subseteq DOMAIN timers
      /\ \A j \in DOMAIN timers' : timers'[j] \in {timers[j], NoEvent}
      /\ \A f \in Events : Armed(f)' = Armed(f) \ {i}
  BY <1>3, SeOff
<1>6. Se!TypeOK'
  <2>1. ready' \in Seq(Se!Posted)
    BY <1>1, <1>3, <1>4, SeQueue DEF SeInv
  <2>2. owner' \in [Events -> {"caller", "scheduler", "dispatcher", "executed", "deleted"}]
        /\ handing' \in Events \cup {NoEvent}
    BY <1>1, <1>2 DEF SeInv, Se!TypeOK
  <2> QED BY <1>1, <1>5, <2>1, <2>2 DEF SeInv, Se!TypeOK
<1>7. ASSUME NEW f \in Events PROVE Held(f)'
  <2>1. CASE f = e
    <3>1. /\ Spots(ready', Codes(e)) = {} /\ Armed(e) = {} /\ handing # e /\ Spots(taskList, {e}) = {}
          /\ owner[e] \in {"scheduler", "dispatcher"}
      BY <1>1, <1>2, <1>3, <1>4, SeOwn
    <3>2. Armed(e)' = {} /\ Spots(taskList, {e})' = {}
      BY <1>1, <1>2, <1>5, <3>1
    <3>3. CASE owner' = [owner EXCEPT ![e] = "deleted"] /\ UNCHANGED handing
      <4>1. owner'[e] = "deleted"
        BY <1>2, <3>3 DEF SeInv, Se!TypeOK
      <4> QED BY <2>1, <3>1, <3>2, <3>3, <4>1 DEF Held, Nowhere
    <3>4. CASE UNCHANGED owner /\ handing' = e
      BY <2>1, <3>1, <3>2, <3>4 DEF Held, Somewhere
    <3> QED BY <1>1, <3>3, <3>4
  <2>2. CASE f # e
    <3>1. Armed(f)' = Armed(f) \ {i} /\ Head(ready) \notin Codes(f)
      BY <1>2, <1>5, <2>2
    <3>2. (handing' = f <=> handing = f) /\ owner'[f] = owner[f] /\ taskList' = taskList
      BY <1>1, <2>2, ConstantsAssumption DEF SeInv, Se!TypeOK
    <3> QED BY <1>1, <1>3, <1>4, <3>1, <3>2, SeOthers
  <2> QED BY <2>1, <2>2
<1> QED
  BY <1>6, <1>7 DEF SeInv

\* A timer expires: its handler is queued and has the event.
LEMMA SeExpire ==
    ASSUME SeInv, NEW i \in DOMAIN timers, Se!Expire(i)
    PROVE  SeInv'
<1>1. PICK e \in Events : e = timers[i]
  BY DEF Se!Expire, SeInv, Se!TypeOK
<1>2. /\ timers' = [j \in DOMAIN timers |-> IF j \in {i} THEN NoEvent ELSE timers[j]]
      /\ ready' = Append(ready, <<"fired", e>>) /\ handing = NoEvent
      /\ UNCHANGED <<threadState, lastEventId, eventId, handing, ioStopped, stopAsked, owner,
                     dispatcherOpen, taskList>>
  BY <1>1 DEF Se!Expire, Se!Disarm, Se!Idle
<1>3. /\ DOMAIN timers' \subseteq DOMAIN timers
      /\ \A j \in DOMAIN timers' : timers'[j] \in {timers[j], NoEvent}
      /\ \A f \in Events : Armed(f)' = Armed(f) \ {i}
  BY <1>2, SeOff
<1>4. ready \in Seq(Se!Posted) /\ <<"fired", e>> \in Se!Posted /\ <<"fired", e>> \in Codes(e)
  BY DEF SeInv, Se!TypeOK, Se!Posted, Codes
<1>5. Se!TypeOK'
  <2>1. ready' \in Seq(Se!Posted)
    BY <1>2, <1>4, AppendProperties
  <2> QED BY <1>2, <1>3, <2>1 DEF SeInv, Se!TypeOK
<1>6. ASSUME NEW f \in Events PROVE Held(f)'
  <2>0. Held(f) /\ Spots(taskList, {f})' = Spots(taskList, {f})
        /\ (handing' = f <=> handing = f) /\ owner'[f] = owner[f]
    BY <1>2 DEF SeInv
  <2>1. CASE f = e
    <3>1. i \in Armed(e)
      BY <1>1 DEF Armed
    <3>2. /\ Spots(ready, Codes(e)) = {} /\ One(Armed(e)) /\ handing # e /\ Spots(taskList, {e}) = {}
          /\ owner[e] \in {"scheduler", "dispatcher"}
      BY <2>0, <2>1, <3>1 DEF Held, Somewhere, Nowhere
    <3>3. One(Spots(ready', Codes(e)))
      BY <1>2, <1>4, <3>2, SpotsAppend
    <3>4. Armed(e)' = {}
      BY <1>3, <3>1, <3>2 DEF One
    <3> QED BY <2>0, <2>1, <3>2, <3>3, <3>4 DEF Held, Somewhere
  <2>2. CASE f # e
    <3>1. i \notin Armed(f)
      BY <1>1, <2>2 DEF Armed
    <3>2. Armed(f)' = Armed(f)
      BY <1>3, <3>1
    <3>3. <<"fired", e>> \notin Codes(f)
      BY <2>2 DEF Codes
    <3>4. Spots(ready', Codes(f)) = Spots(ready, Codes(f))
      BY <1>2, <1>4, <3>3, SpotsAppend
    <3> QED BY <2>0, <3>2, <3>4, SeKept
  <2> QED BY <2>1, <2>2
<1> QED
  BY <1>5, <1>6 DEF SeInv

\* What the dispatcher is handed, and what it runs.
LEMMA SeHandOver ==
    ASSUME SeInv, Se!HandOver
    PROVE  SeInv'
<1>1. PICK e \in Events : e = handing
  BY DEF Se!HandOver, SeInv, Se!TypeOK
<1>2. /\ handing' = NoEvent /\ owner' = [owner EXCEPT ![e] = IF dispatcherOpen THEN "dispatcher" ELSE "deleted"]
      /\ taskList' = IF dispatcherOpen THEN Append(taskList, e) ELSE taskList
      /\ UNCHANGED <<threadState, lastEventId, eventId, ready, timers, ioStopped, stopAsked, dispatcherOpen>>
  BY <1>1 DEF Se!HandOver, Se!Give
<1>3. taskList \in Seq(Events) /\ dispatcherOpen \in BOOLEAN
      /\ owner \in [Events -> {"caller", "scheduler", "dispatcher", "executed", "deleted"}]
  BY DEF SeInv, Se!TypeOK
<1>4. Se!TypeOK'
  <2>1. taskList' \in Seq(Events)
    BY <1>2, <1>3, AppendProperties
  <2>2. owner' \in [Events -> {"caller", "scheduler", "dispatcher", "executed", "deleted"}]
    BY <1>2, <1>3
  <2> QED BY <1>2, <2>1, <2>2 DEF SeInv, Se!TypeOK
<1>5. ASSUME NEW f \in Events PROVE Held(f)'
  <2>0. Held(f) /\ Spots(ready, Codes(f))' = Spots(ready, Codes(f)) /\ Armed(f)' = Armed(f) /\ handing' # f
    BY <1>2, ConstantsAssumption DEF SeInv, Armed
  <2>1. CASE f = e
    <3>1. Spots(ready, Codes(e)) = {} /\ Armed(e) = {} /\ Spots(taskList, {e}) = {}
      BY <1>1, <2>0, <2>1 DEF Held, Somewhere, Nowhere
    <3>2. CASE dispatcherOpen
      <4>1. One(Spots(taskList', {e}))
        BY <1>2, <1>3, <3>1, <3>2, SpotsAppend
      <4>2. owner'[e] = "dispatcher"
        BY <1>2, <1>3, <3>2
      <4> QED BY <2>0, <2>1, <3>1, <4>1, <4>2 DEF Held, Somewhere
    <3>3. CASE ~dispatcherOpen
      <4>1. taskList' = taskList /\ owner'[e] = "deleted"
        BY <1>2, <1>3, <3>3
      <4> QED BY <2>0, <2>1, <3>1, <4>1 DEF Held, Nowhere
    <3> QED BY <3>2, <3>3
  <2>2. CASE f # e
    <3>1. owner'[f] = owner[f] /\ handing # f
      BY <1>1, <1>2, <1>3, <2>2
    <3>2. CASE dispatcherOpen
      <4>1. Spots(taskList', {f}) = Spots(taskList, {f})
        BY <1>2, <1>3, <2>2, <3>2, SpotsAppend
      <4> QED BY <2>0, <3>1, <4>1, SeKept
    <3>3. CASE ~dispatcherOpen
      BY <1>2, <2>0, <3>1, <3>3, SeKept
    <3> QED BY <3>2, <3>3
  <2> QED BY <2>1, <2>2
<1> QED
  BY <1>4, <1>5 DEF SeInv

\* The dispatcher runs a list of tasks.
LEMMA SeDispatcherRun ==
    ASSUME SeInv, Se!DispatcherRun
    PROVE  SeInv'
<1>1. taskList \in Seq(Events) /\ taskList # <<>>
      /\ owner \in [Events -> {"caller", "scheduler", "dispatcher", "executed", "deleted"}]
  BY DEF SeInv, Se!TypeOK, Se!DispatcherRun
<1>2. PICK e \in Events : e = Head(taskList)
  BY <1>1, HeadTailProperties
<1>3. /\ owner' = [owner EXCEPT ![e] = "executed"] /\ taskList' = Tail(taskList)
      /\ UNCHANGED <<threadState, lastEventId, eventId, ready, timers, handing, ioStopped,
                     stopAsked, dispatcherOpen>>
  BY <1>2 DEF Se!DispatcherRun, Se!Give
<1>4. Se!TypeOK'
  <2>1. taskList' \in Seq(Events)
    BY <1>1, <1>3, HeadTailProperties
  <2> QED BY <1>1, <1>3, <2>1 DEF SeInv, Se!TypeOK
<1>5. ASSUME NEW f \in Events PROVE Held(f)'
  <2>0. /\ Held(f) /\ Spots(ready, Codes(f))' = Spots(ready, Codes(f)) /\ Armed(f)' = Armed(f)
        /\ handing' = handing
    BY <1>3 DEF SeInv, Armed
  <2>1. CASE f = e
    <3>1. Spots(taskList, {e}) # {}
      BY <1>1, <1>2, SpotsTail
    <3>2. Spots(ready, Codes(e)) = {} /\ Armed(e) = {} /\ handing # e /\ One(Spots(taskList, {e}))
      BY <2>0, <2>1, <3>1 DEF Held, Somewhere, Nowhere
    <3>3. Spots(taskList', {e}) = {}
      BY <1>1, <1>2, <1>3, <3>2, SpotsTail
    <3>4. owner'[e] = "executed"
      BY <1>1, <1>3
    <3> QED BY <2>0, <2>1, <3>2, <3>3, <3>4 DEF Held, Nowhere
  <2>2. CASE f # e
    <3>1. owner'[f] = owner[f]
      BY <1>1, <1>3, <2>2
    <3>2. /\ Spots(taskList, {f}) = {} => Spots(taskList', {f}) = {}
          /\ One(Spots(taskList, {f})) => One(Spots(taskList', {f}))
      BY <1>1, <1>2, <1>3, <2>2, SpotsTail
    <3>3. Nowhere(f) => Nowhere(f)'
      BY <2>0, <3>2 DEF Nowhere
    <3>4. Somewhere(f) => Somewhere(f)'
      BY <2>0, <3>2 DEF Somewhere
    <3> QED BY <2>0, <3>1, <3>3, <3>4 DEF Held
  <2> QED BY <2>1, <2>2
<1> QED
  BY <1>4, <1>5 DEF SeInv

\* Every step of the scheduler keeps the invariant.
LEMMA SeNext == SeInv /\ (Se!Next \/ UNCHANGED schedulerVars) => SeInv'
<1>1. ASSUME SeInv, UNCHANGED schedulerVars PROVE SeInv'
  <2>1. Se!TypeOK'
    BY <1>1 DEF SeInv, Se!TypeOK, schedulerVars
  <2>2. \A e \in Events : Held(e)'
    BY <1>1 DEF SeInv, schedulerVars, Held, Somewhere, Nowhere, Armed
  <2> QED BY <2>1, <2>2 DEF SeInv
<1>2. ASSUME SeInv, Se!Next PROVE SeInv'
  BY <1>2, SeCalls, SeRunAdd, SeRunStop, SeRunDone, SeExpire, SeHandOver, SeDispatcherRun
     DEF Se!Next, Se!IoStep
<1> QED
  BY <1>1, <1>2

\* One place is a count of one.
LEMMA SeSafe == SeInv => Se!OwnedOnce
<1> SUFFICES ASSUME SeInv, NEW e \in Events
             PROVE  Se!Cardinality(Se!Holders(e)) = IF owner[e] \in {"scheduler", "dispatcher"} THEN 1 ELSE 0
  BY DEF Se!OwnedOnce
<1>1. Se!Holders(e) = {<<"ready", i>> : i \in Spots(ready, Codes(e))}
                      \cup {<<"timer", i>> : i \in Armed(e)}
                      \cup {<<"handing", 0>> : x \in {handing} \cap {e}}
                      \cup {<<"taskList", i>> : i \in Spots(taskList, {e})}
  <2>1. {j \in DOMAIN taskList : taskList[j] = e} = Spots(taskList, {e})
    BY DEF Spots
  <2> QED BY <2>1 DEF Se!Holders, Spots, Codes, Armed
<1>2. Nowhere(e) => Se!Holders(e) = {}
  BY <1>1 DEF Nowhere
<1>3. ASSUME Somewhere(e) PROVE \E h : Se!Holders(e) = {h}
  <2>1. ASSUME NEW x, Spots(ready, Codes(e)) = {x}, Armed(e) = {}, handing # e, Spots(taskList, {e}) = {}
        PROVE  Se!Holders(e) = {<<"ready", x>>}
    BY <1>1, <2>1
  <2>2. ASSUME NEW x, Spots(ready, Codes(e)) = {}, Armed(e) = {x}, handing # e, Spots(taskList, {e}) = {}
        PROVE  Se!Holders(e) = {<<"timer", x>>}
    BY <1>1, <2>2
  <2>3. ASSUME Spots(ready, Codes(e)) = {}, Armed(e) = {}, handing = e, Spots(taskList, {e}) = {}
        PROVE  Se!Holders(e) = {<<"handing", 0>>}
    BY <1>1, <2>3
  <2>4. ASSUME NEW x, Spots(ready, Codes(e)) = {}, Armed(e) = {}, handing # e, Spots(taskList, {e}) = {x}
        PROVE  Se!Holders(e) = {<<"taskList", x>>}
    BY <1>1, <2>4
  <2> QED BY <1>3, <2>1, <2>2, <2>3, <2>4 DEF Somewhere, One
<1>4. Se!Cardinality(Se!Holders(e)) = Cardinality(Se!Holders(e))
  BY DEF Se!Cardinality, Cardinality
<1>5. Held(e)
  BY DEF SeInv
<1> QED
  BY <1>2, <1>3, <1>4, <1>5, FS_EmptySet, FS_Singleton DEF Held

\* Scheduler: a task object that was handed over and not freed is in one place, and a
\* freed or executed one in none, whatever the order of expiry, stopEvent, reuse of an
\* id and shutdown; for any events, and any number of ids.
THEOREM TasksHaveOneOwner == Spec => []Of("scheduler", Se!OwnedOnce)
<1>1. Init => SeInv
  BY SeInit DEF Init
<1>2. SeInv /\ [Next]_vars => SeInv'
  <2>1. [Next]_vars => Se!Next \/ UNCHANGED schedulerVars
    BY DEF Next, Only, vars
  <2> QED BY <2>1, SeNext
<1>3. SeInv => Of("scheduler", Se!OwnedOnce)
  BY SeSafe DEF Of
<1> QED
  BY <1>1, <1>2, <1>3, PTL DEF Spec

-----------------------------------------------------------------------------
(* Raids: what runs has an event to come                                   *)

\* No raid is at its end while it waits, and one without events is at its first.
RaInRange(nextEvent) == \A r \in Sw!RaidObjects : nextEvent[r] = 0 \/ nextEvent[r] < NumEvents[r[1]]
RaTyped ==
    /\ raids \in [raidList : SUBSET Sw!RaidObjects, running : Sw!RaidObjects \cup {None}, started : BOOLEAN]
    /\ raidState \in [nextEvent : [Sw!RaidObjects -> Nat],
                       event : [Sw!RaidObjects -> {"none", "waits", "posted"}]]
    /\ RaInRange(raidState.nextEvent)
    /\ reloads \in Nat /\ reloads <= MaxReloads /\ ghosts \in BOOLEAN

\* The pending checks are one chain and those that a reload could not stop.
RaChecks ==
    /\ checks \in [waiting : Nat, posted : Nat]
    /\ checks.waiting + checks.posted <= MaxChecks
    /\ raids.started <=> checks.waiting + checks.posted > 0

RaRunning ==
    raids.running # None => raidState.event[raids.running] # "none" \/ NumEvents[raids.running[1]] = 0

RaInv == RaTyped /\ RaChecks /\ RaRunning

\* What the bounds say in numbers.
LEMMA RaNumbers ==
    /\ \A r \in Sw!RaidObjects : NumEvents[r[1]] \in Nat
    /\ MaxReloads \in Nat
    /\ MaxChecks \in Nat /\ MaxChecks >= 1 /\ None \notin Sw!RaidObjects
    /\ \A n \in Nat : n <= MaxReloads => Sw!Loaded(n) \subseteq Sw!RaidObjects
<1>1. None \notin Sw!RaidObjects
  BY SpawnsAndRaidsAssumption DEF Sw!RaidObjects
<1>2. ASSUME NEW n \in Nat, n <= MaxReloads PROVE Sw!Loaded(n) \subseteq Sw!RaidObjects
  <2>1. n \in 0..MaxReloads
    BY <1>2, SpawnsAndRaidsAssumption
  <2> QED BY <2>1 DEF Sw!Loaded, Sw!RaidObjects
<1>3. \A r \in Sw!RaidObjects : NumEvents[r[1]] \in Nat
  BY SpawnsAndRaidsAssumption DEF Sw!RaidObjects
<1> QED
  BY <1>1, <1>2, <1>3, SpawnsAndRaidsAssumption

\* The first raids are those of raids.xml, and no check is pending.
LEMMA RaInit == Sw!RaidsInit => RaInv
<1> SUFFICES ASSUME Sw!RaidsInit PROVE RaInv
  OBVIOUS
<1>1. Sw!Loaded(0) \subseteq Sw!RaidObjects
  BY RaNumbers
<1>2. RaTyped
  <2>1. raids \in [raidList : SUBSET Sw!RaidObjects, running : Sw!RaidObjects \cup {None}, started : BOOLEAN]
    BY <1>1 DEF Sw!RaidsInit
  <2>2. raidState \in [nextEvent : [Sw!RaidObjects -> Nat],
                       event : [Sw!RaidObjects -> {"none", "waits", "posted"}]]
    <3>1. raidState = [nextEvent |-> [r \in Sw!RaidObjects |-> 0],
                       event |-> [r \in Sw!RaidObjects |-> "none"]]
      BY DEF Sw!RaidsInit
    <3> QED BY <3>1
  <2>4. RaInRange(raidState.nextEvent)
    BY DEF Sw!RaidsInit, RaInRange
  <2>3. reloads \in Nat /\ reloads <= MaxReloads /\ ghosts \in BOOLEAN
    <3>1. reloads = 0 /\ ghosts = FALSE
      BY DEF Sw!RaidsInit
    <3>2. MaxReloads \in Nat
      BY RaNumbers
    <3>3. reloads \in Nat /\ reloads <= MaxReloads
      BY <3>1, <3>2
    <3>4. ghosts \in BOOLEAN
      BY <3>1
    <3> QED BY <3>3, <3>4
  <2> QED BY <2>1, <2>2, <2>3, <2>4 DEF RaTyped
<1>3. RaChecks
  BY RaNumbers DEF RaChecks, Sw!RaidsInit
<1>4. RaRunning
  BY DEF RaRunning, Sw!RaidsInit
<1> QED BY <1>2, <1>3, <1>4 DEF RaInv

\* Raid::startRaid: the raid that becomes the running one waits for its first event, if it
\* has one.
LEMMA RaStart ==
    ASSUME RaTyped, NEW r \in raids.raidList, NEW list \in SUBSET raids.raidList,
           raids' = [raidList |-> list, running |-> r, started |-> raids.started],
           raidState' = Sw!StartRaid(raidState, r), UNCHANGED <<reloads, ghosts>>
    PROVE  RaTyped' /\ RaRunning' /\ raids'.started = raids.started
<1>1. /\ r \in Sw!RaidObjects /\ raidState.nextEvent[r] \in Nat /\ NumEvents[r[1]] \in Nat
      /\ raidState.nextEvent[r] = 0 \/ raidState.nextEvent[r] < NumEvents[r[1]]
  BY RaNumbers DEF RaTyped, RaInRange
<1>2. \/ raidState' = [raidState EXCEPT !.event[r] = "waits"]
      \/ raidState' = raidState /\ NumEvents[r[1]] = 0
  BY <1>1 DEF Sw!StartRaid
<1>3. raidState'.event[r] = "waits" \/ NumEvents[r[1]] = 0
  BY <1>1, <1>2 DEF RaTyped
<1>4. /\ raidState' \in [nextEvent : [Sw!RaidObjects -> Nat],
                         event : [Sw!RaidObjects -> {"none", "waits", "posted"}]]
      /\ raidState'.nextEvent = raidState.nextEvent
  BY <1>1, <1>2 DEF RaTyped
<1>5. raids' \in [raidList : SUBSET Sw!RaidObjects, running : Sw!RaidObjects \cup {None}, started : BOOLEAN]
  BY <1>1 DEF RaTyped
<1> QED
  BY <1>3, <1>4, <1>5 DEF RaTyped, RaRunning

\* Each step keeps the invariant.
LEMMA RaNext == RaInv /\ (Sw!RaidsNext \/ UNCHANGED raidVars) => RaInv'
<1> SUFFICES ASSUME RaInv, Sw!RaidsNext \/ UNCHANGED raidVars PROVE RaInv'
  OBVIOUS
<1>0. RaTyped /\ RaChecks /\ RaRunning
  BY DEF RaInv
<1>1. CASE UNCHANGED raidVars
  BY <1>1 DEF RaInv, RaTyped, RaChecks, RaRunning, raidVars
<1>2. CASE Sw!StartRaids
  <2>1. RaTyped'
    BY <1>0, <1>2 DEF RaTyped, Sw!StartRaids
  <2>2. RaChecks'
    BY <1>0, <1>2, RaNumbers DEF RaTyped, RaChecks, Sw!StartRaids
  <2>3. RaRunning'
    BY <1>0, <1>2 DEF RaTyped, RaRunning, Sw!StartRaids
  <2> QED BY <2>1, <2>2, <2>3 DEF RaInv
<1>3. CASE Sw!PostCheck
  <2>1. RaTyped' /\ RaRunning'
    BY <1>0, <1>3 DEF RaTyped, RaRunning, Sw!PostCheck
  <2>2. RaChecks'
    BY <1>0, <1>3 DEF RaChecks, Sw!PostCheck
  <2> QED BY <2>1, <2>2 DEF RaInv
<1>4. CASE Sw!CheckRaids
  <2>1. raids'.started = raids.started => RaChecks'
    <3>1. checks.waiting \in Nat /\ checks.posted \in Nat /\ checks.posted > 0
      BY <1>0, <1>4 DEF RaChecks, Sw!CheckRaids
    <3>2. checks' = [waiting |-> checks.waiting + 1, posted |-> checks.posted - 1]
      BY <1>4 DEF Sw!CheckRaids
    <3>3. /\ checks' \in [waiting : Nat, posted : Nat]
          /\ checks'.waiting + checks'.posted = checks.waiting + checks.posted
      BY <3>1, <3>2
    <3> QED BY <1>0, <3>3 DEF RaChecks
  <2>2. CASE UNCHANGED <<raids, raidState>>
    <3>1. RaTyped' /\ RaRunning'
      BY <1>0, <1>4, <2>2 DEF RaTyped, RaRunning, Sw!CheckRaids
    <3> QED BY <2>1, <2>2, <3>1 DEF RaInv
  <2>3. ASSUME NEW r \in raids.raidList,
               raids' = [raids EXCEPT !.running = r, !.raidList = IF r[1] \in Repeated THEN @ ELSE @ \ {r}],
               raidState' = Sw!StartRaid(raidState, r)
        PROVE  RaInv'
    <3>1. PICK list \in SUBSET raids.raidList :
             raids' = [raidList |-> list, running |-> r, started |-> raids.started]
      BY <1>0, <2>3 DEF RaTyped
    <3>2. UNCHANGED <<reloads, ghosts>>
      BY <1>4 DEF Sw!CheckRaids
    <3>3. RaTyped' /\ RaRunning' /\ raids'.started = raids.started
      BY <1>0, <2>3, <3>1, <3>2, RaStart
    <3> QED BY <2>1, <3>3 DEF RaInv
  <2> QED BY <1>4, <2>2, <2>3 DEF Sw!CheckRaids
<1>5. ASSUME NEW r \in Sw!RaidObjects, Sw!PostEvent(r) PROVE RaInv'
  <2>1. RaTyped' /\ RaRunning'
    BY <1>0, <1>5, RaNumbers DEF RaTyped, RaRunning, Sw!PostEvent
  <2>2. RaChecks'
    BY <1>0, <1>5 DEF RaChecks, Sw!PostEvent
  <2> QED BY <2>1, <2>2 DEF RaInv
<1>6. ASSUME NEW r \in Sw!RaidObjects, Sw!LuaStartRaid(r) PROVE RaInv'
  <2>1. raids' = [raidList |-> raids.raidList, running |-> r, started |-> raids.started]
    BY <1>0, <1>6 DEF Sw!LuaStartRaid, RaTyped
  <2>2. /\ r \in raids.raidList /\ raidState' = Sw!StartRaid(raidState, r)
        /\ UNCHANGED <<reloads, ghosts, checks>>
    BY <1>6 DEF Sw!LuaStartRaid
  <2>3. RaTyped' /\ RaRunning' /\ raids'.started = raids.started
    BY <1>0, <2>1, <2>2, RaStart
  <2>4. RaChecks'
    BY <1>0, <2>2, <2>3 DEF RaChecks
  <2> QED BY <2>3, <2>4 DEF RaInv
<1>7. ASSUME NEW r \in Sw!RaidObjects, Sw!ExecuteRaidEvent(r) PROVE RaInv'
  <2>1. RaChecks'
    BY <1>0, <1>7 DEF RaTyped, RaChecks, Sw!ExecuteRaidEvent, Sw!ResetRaid
  <2>2. CASE Sw!ResetRaid(r)
    <3>1. /\ raidState' \in [nextEvent : [Sw!RaidObjects -> Nat],
                            event : [Sw!RaidObjects -> {"none", "waits", "posted"}]]
          /\ raidState'.nextEvent = [raidState.nextEvent EXCEPT ![r] = 0]
      BY <1>0, <2>2 DEF RaTyped, Sw!ResetRaid
    <3>2. RaInRange(raidState'.nextEvent)
      BY <1>0, <3>1 DEF RaTyped, RaInRange
    <3>3. raids' \in [raidList : SUBSET Sw!RaidObjects, running : Sw!RaidObjects \cup {None}, started : BOOLEAN]
          /\ raids'.running = None
      BY <1>0, <2>2 DEF RaTyped, Sw!ResetRaid
    <3>4. RaTyped' /\ RaRunning'
      BY <1>0, <1>7, <3>1, <3>2, <3>3 DEF RaTyped, RaRunning, Sw!ExecuteRaidEvent
    <3> QED BY <2>1, <3>4 DEF RaInv
  <2>3. ASSUME NEW n \in Nat, n < NumEvents[r[1]], UNCHANGED raids,
               raidState' = [raidState EXCEPT !.nextEvent[r] = n, !.event[r] = "waits"]
        PROVE  RaInv'
    <3>1. RaTyped'
      <4>1. raidState' \in [nextEvent : [Sw!RaidObjects -> Nat],
                            event : [Sw!RaidObjects -> {"none", "waits", "posted"}]]
        BY <1>0, <2>3 DEF RaTyped
      <4>2. RaInRange(raidState'.nextEvent)
        BY <1>0, <1>7, <2>3 DEF RaTyped, RaInRange
      <4> QED BY <1>0, <1>7, <2>3, <4>1, <4>2 DEF RaTyped, Sw!ExecuteRaidEvent
    <3>2. RaRunning'
      BY <1>0, <2>3, RaNumbers DEF RaTyped, RaRunning
    <3> QED BY <2>1, <3>1, <3>2 DEF RaInv
  <2>4. raidState.nextEvent[r] + 1 \in Nat
    BY <1>0 DEF RaTyped
  <2> QED BY <1>7, <2>2, <2>3, <2>4 DEF Sw!ExecuteRaidEvent
<1>8. CASE Sw!Reload
  <2>1. /\ reloads' \in Nat /\ reloads' <= MaxReloads /\ ghosts' \in BOOLEAN
        /\ raids' = [raidList |-> Sw!Loaded(reloads'), running |-> None, started |-> TRUE]
    BY <1>0, <1>8, RaNumbers DEF RaTyped, Sw!Reload
  <2>2. Sw!Loaded(reloads') \subseteq Sw!RaidObjects
    BY <2>1, RaNumbers
  <2>3. raidState' \in [nextEvent : [Sw!RaidObjects -> Nat],
                        event : [Sw!RaidObjects -> {"none", "waits", "posted"}]]
    BY <1>0, <1>8 DEF RaTyped, Sw!Reload
  <2>4. RaTyped'
    <3>1. raidState'.nextEvent = raidState.nextEvent
      BY <1>0, <1>8 DEF RaTyped, Sw!Reload
    <3> QED BY <1>0, <2>1, <2>2, <2>3, <3>1 DEF RaTyped
  <2>5. RaChecks'
    BY <1>0, <1>8, <2>1, RaNumbers DEF RaChecks, Sw!Reload
  <2>6. RaRunning'
    BY <2>1 DEF RaRunning
  <2> QED BY <2>4, <2>5, <2>6 DEF RaInv
<1> QED
  BY <1>1, <1>2, <1>3, <1>4, <1>5, <1>6, <1>7, <1>8 DEF Sw!RaidsNext

\* What the invariant is for.
LEMMA RaSafe == RaInv => Sw!RaidsTypeOK /\ Sw!RaidsGoOn
<1> SUFFICES ASSUME RaInv PROVE Sw!RaidsTypeOK /\ Sw!RaidsGoOn
  OBVIOUS
<1>1. checks \in [waiting : 0..MaxChecks, posted : 0..MaxChecks]
  BY RaNumbers DEF RaInv, RaChecks
<1>2. /\ raidState.nextEvent \in [Sw!RaidObjects -> Nat]
      /\ \A r \in Sw!RaidObjects : raidState.nextEvent[r] <= NumEvents[r[1]]
  BY RaNumbers DEF RaInv, RaTyped, RaInRange
<1>3. reloads \in 0..MaxReloads /\ ghosts \in BOOLEAN
  BY RaNumbers DEF RaInv, RaTyped
<1>4. /\ raids.raidList \subseteq Sw!RaidObjects /\ raids.running \in Sw!RaidObjects \cup {None}
      /\ raids.started \in BOOLEAN /\ raidState.event \in [Sw!RaidObjects -> {"none", "waits", "posted"}]
  BY DEF RaInv, RaTyped
<1>5. Sw!RaidsGoOn
  BY DEF RaInv, RaChecks, RaRunning, Sw!RaidsGoOn
<1> QED
  BY <1>1, <1>2, <1>3, <1>4, <1>5 DEF Sw!RaidsTypeOK

\* Raids: a running raid has an event to come unless its file has none, and after the start
\* of the server a check always comes: no reload, script or failed event stops raids for
\* good, only a raid that Raid::loadFromXml took without an event.
THEOREM RaidsNeverStop == Spec => []Of("raids", Sw!RaidsGoOn)
<1>1. Init => RaInv
  BY RaInit DEF Init
<1>2. RaInv /\ [Next]_vars => RaInv'
  <2>1. [Next]_vars => Sw!RaidsNext \/ UNCHANGED raidVars
    BY DEF Next, Only, vars
  <2> QED BY <2>1, RaNext
<1>3. RaInv => Of("raids", Sw!RaidsGoOn)
  BY RaSafe DEF Of
<1> QED
  BY <1>1, <1>2, <1>3, PTL DEF Spec

-----------------------------------------------------------------------------
(* Spawns: each monster has the references that its places stand for        *)

Places == {0, Sw!Unfiled} \cup Sw!Blocks

\* The reference counts with the entries filed of spawnedMap: one for the game while it
\* is in it, one for its entry; only a filed monster points to the Spawn, and the entries
\* of a block are one.
SpCounted(filed, ms) ==
    /\ filed \in [Spawned -> Places]
    /\ ms \in [at : [Spawned -> {"freed", "zone", "outside", "removed"}],
               spawn : [Spawned -> BOOLEAN], refs : [Spawned -> Nat]]
    /\ \A m \in Spawned :
          /\ ms.refs[m] = (IF filed[m] # Sw!Unfiled THEN 1 ELSE 0)
                          + (IF ms.at[m] \in {"zone", "outside"} THEN 1 ELSE 0)
          /\ ms.at[m] = "freed" <=> ms.refs[m] = 0
          /\ ms.spawn[m] <=> filed[m] # Sw!Unfiled
    /\ \A m1, m2 \in Spawned :
          m1 # m2 /\ filed[m1] # Sw!Unfiled /\ filed[m1] = filed[m2] => filed[m1] = 0

\* Nothing is there before the start, and checks are for a started Spawn.
SpPhase ==
    /\ spawn.phase = "loaded" => \A m \in Spawned : spawn.filed[m] = Sw!Unfiled
    /\ spawn.phase = "loaded" => \A m \in Spawned : monsters.refs[m] = 0
    /\ spawn.phase # "started" => ~spawn.check

SpChecked == \A m \in Spawned : spawn.filed[m] # Sw!Unfiled /\ monsters.at[m] = "removed" => spawn.check

SpInv ==
    /\ spawn \in [phase : {"loaded", "started", "cleared"}, filed : [Spawned -> Places], check : BOOLEAN]
    /\ SpCounted(spawn.filed, monsters) /\ SpPhase /\ SpChecked

\* A set with no more elements fits into another one.
LEMMA Fits ==
    ASSUME NEW S, NEW T, IsFiniteSet(S), IsFiniteSet(T), Cardinality(S) <= Cardinality(T)
    PROVE  \E f \in [S -> T] : \A x, y \in S : f[x] = f[y] => x = y
<1> DEFINE k == Cardinality(S)
           n == Cardinality(T)
<1>1. k \in Nat /\ n \in Nat /\ k <= n
  BY FS_CardinalityType
<1>2. PICK g \in [1..k -> S] : (\A x \in S : \E i \in 1..k : g[i] = x)
  BY FS_CardinalityType DEF ExistsBijection, Bijection, Surjection, Injection, IsInjective
<1>3. PICK h \in [1..n -> T] : (\A i, j \in 1..n : h[i] = h[j] => i = j)
  BY FS_CardinalityType DEF ExistsBijection, Bijection, Surjection, Injection, IsInjective
<1> HIDE DEF k, n
<1> DEFINE at == [x \in S |-> CHOOSE i \in 1..k : g[i] = x]
           f == [x \in S |-> h[at[x]]]
<1>4. \A x \in S : at[x] \in 1..k /\ g[at[x]] = x
  BY <1>2
<1> HIDE DEF at
<1>5. \A x \in S : at[x] \in 1..n
  BY <1>1, <1>4
<1>6. f \in [S -> T]
  BY <1>3, <1>5
<1>7. \A x, y \in S : f[x] = f[y] => x = y
  <2> SUFFICES ASSUME NEW x \in S, NEW y \in S, f[x] = f[y] PROVE x = y
    OBVIOUS
  <2>1. h[at[x]] = h[at[y]]
    OBVIOUS
  <2>2. at[x] = at[y]
    BY <1>3, <1>5, <2>1
  <2> QED BY <1>4, <2>2
<1> QED BY <1>6, <1>7

\* The monsters f of the blocks bs are new, the others as they were.
SpFilled(s, ms, bs, f) ==
    /\ \A b \in bs : ms.refs[f[b]] = 0
    /\ \A b \in bs, m \in Spawned : f[b] = m =>
          /\ Sw!Fill(s, ms, bs).filed[m] = b /\ Sw!Fill(s, ms, bs).at[m] = "zone"
          /\ Sw!Fill(s, ms, bs).spawn[m] = TRUE /\ Sw!Fill(s, ms, bs).refs[m] = 2
    /\ \A m \in Spawned : (\A b \in bs : f[b] # m) =>
          /\ Sw!Fill(s, ms, bs).filed[m] = s.filed[m] /\ Sw!Fill(s, ms, bs).at[m] = ms.at[m]
          /\ Sw!Fill(s, ms, bs).spawn[m] = ms.spawn[m] /\ Sw!Fill(s, ms, bs).refs[m] = ms.refs[m]

\* spawnMonster for the blocks bs: each gets a monster of its own that was free.
LEMMA SpFill ==
    ASSUME NEW s, NEW ms, SpCounted(s.filed, ms), NEW bs \in SUBSET Sw!Blocks,
           Sw!Cardinality(bs) <= Sw!Cardinality({m \in Spawned : ms.refs[m] = 0})
    PROVE  \E f \in [bs -> Spawned] : SpFilled(s, ms, bs, f)
<1> DEFINE Free == {m \in Spawned : ms.refs[m] = 0}
           new == CHOOSE f \in [bs -> Free] : \A b1, b2 \in bs : f[b1] = f[b2] => b1 = b2
           isNew(m) == \E b \in bs : new[b] = m
<1>1. new \in [bs -> Free] /\ \A b1, b2 \in bs : new[b1] = new[b2] => b1 = b2
  <2>1. IsFiniteSet(bs)
    <3>1. NumBlocks \in Int /\ 1 \in Int
      BY SpawnsAndRaidsAssumption
    <3>2. IsFiniteSet(1..NumBlocks)
      BY <3>1, FS_Interval
    <3> QED BY <3>2, FS_Subset DEF Sw!Blocks
  <2>2. IsFiniteSet(Free)
    BY SpawnsAndRaidsAssumption, FS_Subset
  <2>3. Cardinality(bs) <= Cardinality(Free)
    BY DEF Sw!Cardinality, Cardinality
  <2> HIDE DEF Free
  <2>4. \E f \in [bs -> Free] : \A x, y \in bs : f[x] = f[y] => x = y
    BY <2>1, <2>2, <2>3, Fits
  <2> QED BY <2>4
<1>2. /\ Sw!Fill(s, ms, bs).filed = [m \in Spawned |-> IF isNew(m) THEN CHOOSE b \in bs : new[b] = m ELSE s.filed[m]]
      /\ Sw!Fill(s, ms, bs).at = [m \in Spawned |-> IF isNew(m) THEN "zone" ELSE ms.at[m]]
      /\ Sw!Fill(s, ms, bs).spawn = [m \in Spawned |-> isNew(m) \/ ms.spawn[m]]
      /\ Sw!Fill(s, ms, bs).refs = [m \in Spawned |-> IF isNew(m) THEN 2 ELSE ms.refs[m]]
  BY DEF Sw!Fill
<1> HIDE DEF new
<1>3. \A m \in Spawned : ms.spawn[m] \in BOOLEAN
  BY DEF SpCounted
<1>4. new \in [bs -> Spawned] /\ \A b \in bs : ms.refs[new[b]] = 0
  BY <1>1
<1>5. ASSUME NEW b \in bs, NEW m \in Spawned, new[b] = m
      PROVE  /\ Sw!Fill(s, ms, bs).filed[m] = b /\ Sw!Fill(s, ms, bs).at[m] = "zone"
             /\ Sw!Fill(s, ms, bs).spawn[m] = TRUE /\ Sw!Fill(s, ms, bs).refs[m] = 2
  <2>1. isNew(m)
    BY <1>5
  <2>2. (CHOOSE c \in bs : new[c] = m) = b
    BY <1>1, <1>5
  <2> QED BY <1>2, <2>1, <2>2
<1>6. ASSUME NEW m \in Spawned, \A b \in bs : new[b] # m
      PROVE  /\ Sw!Fill(s, ms, bs).filed[m] = s.filed[m] /\ Sw!Fill(s, ms, bs).at[m] = ms.at[m]
             /\ Sw!Fill(s, ms, bs).spawn[m] = ms.spawn[m] /\ Sw!Fill(s, ms, bs).refs[m] = ms.refs[m]
  <2>1. ~isNew(m)
    BY <1>6
  <2> QED BY <1>2, <1>3, <2>1
<1> QED
  BY <1>4, <1>5, <1>6 DEF SpFilled

\* Startup and checkSpawn: the filled blocks were empty, and nothing else changes.
LEMMA SpPlace ==
    ASSUME NEW s, NEW ms, SpCounted(s.filed, ms), NEW bs \in SUBSET Sw!Blocks,
           \A b \in bs, m \in Spawned : s.filed[m] # b,
           Sw!Cardinality(bs) <= Sw!Cardinality({m \in Spawned : ms.refs[m] = 0}),
           NEW after, after = [at |-> Sw!Fill(s, ms, bs).at, spawn |-> Sw!Fill(s, ms, bs).spawn,
                               refs |-> Sw!Fill(s, ms, bs).refs]
    PROVE  /\ SpCounted(Sw!Fill(s, ms, bs).filed, after)
           /\ \A m \in Spawned : after.at[m] = "removed" =>
                 ms.at[m] = "removed" /\ Sw!Fill(s, ms, bs).filed[m] = s.filed[m]
<1> DEFINE F == Sw!Fill(s, ms, bs)
           filed == F.filed
<1>1. PICK f \in [bs -> Spawned] : SpFilled(s, ms, bs, f)
  BY SpFill
<1>2. /\ DOMAIN F.filed = Spawned /\ F.filed = [m \in Spawned |-> F.filed[m]]
      /\ F.at = [m \in Spawned |-> F.at[m]] /\ F.spawn \in [Spawned -> BOOLEAN]
      /\ F.refs = [m \in Spawned |-> F.refs[m]]
  BY DEF Sw!Fill
<1> HIDE DEF F
<1>3. \A m \in Spawned :
         \/ \E b \in bs : /\ f[b] = m /\ ms.refs[m] = 0 /\ filed[m] = b /\ after.at[m] = "zone"
                          /\ after.spawn[m] = TRUE /\ after.refs[m] = 2
         \/ /\ filed[m] = s.filed[m] /\ after.at[m] = ms.at[m]
            /\ after.spawn[m] = ms.spawn[m] /\ after.refs[m] = ms.refs[m]
  BY <1>1 DEF SpFilled, F
<1>4. \A b \in bs : b \in Places /\ b # Sw!Unfiled /\ b # 0
  BY SpawnsAndRaidsAssumption DEF Places, Sw!Unfiled, Sw!Blocks
<1>5. filed \in [Spawned -> Places]
  BY <1>2, <1>3, <1>4 DEF SpCounted
<1>6. after \in [at : [Spawned -> {"freed", "zone", "outside", "removed"}],
                 spawn : [Spawned -> BOOLEAN], refs : [Spawned -> Nat]]
  <2>1. after.at \in [Spawned -> {"freed", "zone", "outside", "removed"}]
    BY <1>2, <1>3 DEF SpCounted, F
  <2>2. after.spawn \in [Spawned -> BOOLEAN]
    BY <1>2 DEF F
  <2>3. after.refs \in [Spawned -> Nat]
    BY <1>2, <1>3 DEF SpCounted, F
  <2> QED BY <2>1, <2>2, <2>3
<1>7. ASSUME NEW m \in Spawned
      PROVE  /\ after.refs[m] = (IF filed[m] # Sw!Unfiled THEN 1 ELSE 0)
                                + (IF after.at[m] \in {"zone", "outside"} THEN 1 ELSE 0)
             /\ after.at[m] = "freed" <=> after.refs[m] = 0
             /\ after.spawn[m] <=> filed[m] # Sw!Unfiled
  BY <1>3, <1>4 DEF SpCounted
<1>8. ASSUME NEW m1 \in Spawned, NEW m2 \in Spawned, m1 # m2, filed[m1] # Sw!Unfiled, filed[m1] = filed[m2]
      PROVE  filed[m1] = 0
  BY <1>3, <1>8 DEF SpCounted
<1>9. SpCounted(filed, after)
  BY <1>5, <1>6, <1>7, <1>8 DEF SpCounted
<1>10. \A m \in Spawned : after.at[m] = "removed" => ms.at[m] = "removed" /\ filed[m] = s.filed[m]
  BY <1>3
<1> QED
  BY <1>9, <1>10 DEF F

\* decrementReferenceCounter, monster by monster.
LEMMA SpRelease ==
    ASSUME NEW ms \in [at : [Spawned -> {"freed", "zone", "outside", "removed"}],
                       spawn : [Spawned -> BOOLEAN], refs : [Spawned -> Nat]],
           NEW dropped \in SUBSET Spawned, \A m \in dropped : ms.refs[m] > 0
    PROVE  /\ Sw!Release(ms, dropped) \in [at : [Spawned -> {"freed", "zone", "outside", "removed"}],
                                           spawn : [Spawned -> BOOLEAN], refs : [Spawned -> Nat]]
           /\ \A m \in Spawned :
                 /\ Sw!Release(ms, dropped).refs[m] = IF m \in dropped THEN ms.refs[m] - 1 ELSE ms.refs[m]
                 /\ Sw!Release(ms, dropped).at[m] = IF Sw!Release(ms, dropped).refs[m] = 0 THEN "freed" ELSE ms.at[m]
                 /\ Sw!Release(ms, dropped).spawn[m] <=> Sw!Release(ms, dropped).refs[m] > 0 /\ ms.spawn[m]
<1> DEFINE refs == [m \in Spawned |-> IF m \in dropped THEN ms.refs[m] - 1 ELSE ms.refs[m]]
           at == [m \in Spawned |-> IF refs[m] = 0 THEN "freed" ELSE ms.at[m]]
           sp == [m \in Spawned |-> refs[m] > 0 /\ ms.spawn[m]]
<1>1. Sw!Release(ms, dropped) = [ms EXCEPT !.refs = refs, !.at = at, !.spawn = sp]
  BY DEF Sw!Release
<1>2. Sw!Release(ms, dropped) = [at |-> at, spawn |-> sp, refs |-> refs]
  BY <1>1
<1>3. refs \in [Spawned -> Nat]
  OBVIOUS
<1>4. \A m \in Spawned : sp[m] <=> refs[m] > 0 /\ ms.spawn[m]
  OBVIOUS
<1>5. sp \in [Spawned -> BOOLEAN]
  OBVIOUS
<1>6. at \in [Spawned -> {"freed", "zone", "outside", "removed"}]
  OBVIOUS
<1>7. \A m \in Spawned : refs[m] = IF m \in dropped THEN ms.refs[m] - 1 ELSE ms.refs[m]
  OBVIOUS
<1>8. \A m \in Spawned : at[m] = IF refs[m] = 0 THEN "freed" ELSE ms.at[m]
  OBVIOUS
<1> HIDE DEF refs, at, sp
<1> QED
  BY <1>2, <1>3, <1>4, <1>5, <1>6, <1>7, <1>8

\* Before the start there is no monster.
LEMMA SpInit == Sw!SpawnsInit => SpInv
<1> SUFFICES ASSUME Sw!SpawnsInit PROVE SpInv
  OBVIOUS
<1>1. spawn = [phase |-> "loaded", filed |-> [m \in Spawned |-> Sw!Unfiled], check |-> FALSE]
  BY DEF Sw!SpawnsInit
<1>2. monsters = [at |-> [m \in Spawned |-> "freed"], spawn |-> [m \in Spawned |-> FALSE],
                  refs |-> [m \in Spawned |-> 0]]
  BY DEF Sw!SpawnsInit
<1>3. Sw!Unfiled \in Places
  BY DEF Places
<1>4. SpCounted(spawn.filed, monsters)
  BY <1>1, <1>2, <1>3 DEF SpCounted
<1>5. SpPhase /\ SpChecked
  BY <1>1, <1>2 DEF SpPhase, SpChecked
<1>6. spawn \in [phase : {"loaded", "started", "cleared"}, filed : [Spawned -> Places], check : BOOLEAN]
  BY <1>1, <1>3
<1> QED BY <1>4, <1>5, <1>6 DEF SpInv

\* Spawn::startup
LEMMA SpStartup == SpInv /\ Sw!Startup => SpInv'
<1> SUFFICES ASSUME SpInv, Sw!Startup PROVE SpInv'
  OBVIOUS
<1>1. PICK bs \in SUBSET Sw!Blocks :
         /\ Sw!Placed(spawn, monsters, bs)
         /\ spawn' = [spawn EXCEPT !.phase = "started", !.filed = Sw!Fill(spawn, monsters, bs).filed]
  BY DEF Sw!Startup
<1>2. spawn.phase = "loaded"
  BY DEF Sw!Startup
<1>3. \A b \in bs, m \in Spawned : spawn.filed[m] # b
  BY <1>2, SpawnsAndRaidsAssumption DEF SpInv, SpPhase, Sw!Unfiled, Sw!Blocks
<1>4. SpCounted(spawn.filed, monsters)
  BY DEF SpInv
<1>5. /\ SpCounted(Sw!Fill(spawn, monsters, bs).filed, monsters')
      /\ \A m \in Spawned : monsters'.at[m] = "removed" =>
            monsters.at[m] = "removed" /\ Sw!Fill(spawn, monsters, bs).filed[m] = spawn.filed[m]
  BY <1>1, <1>3, <1>4, SpPlace DEF Sw!Placed
<1>6. spawn' = [phase |-> "started", filed |-> Sw!Fill(spawn, monsters, bs).filed, check |-> spawn.check]
  BY <1>1 DEF SpInv
<1>7. Sw!Fill(spawn, monsters, bs).filed \in [Spawned -> Places]
  BY <1>5 DEF SpCounted
<1>8. spawn' \in [phase : {"loaded", "started", "cleared"}, filed : [Spawned -> Places], check : BOOLEAN]
  BY <1>6, <1>7 DEF SpInv
<1>9. SpCounted(spawn.filed, monsters)'
  BY <1>5, <1>6
<1>10. SpPhase'
  BY <1>6 DEF SpPhase
<1>11. SpChecked'
  BY <1>2, <1>5, <1>6 DEF SpChecked, SpInv, SpPhase
<1> QED BY <1>8, <1>9, <1>10, <1>11 DEF SpInv

\* A monster walks in and out of its area.
LEMMA SpWander == ASSUME SpInv, NEW m \in Spawned, Sw!Wander(m) PROVE SpInv'
<1>1. PICK place \in {"zone", "outside"} : monsters' = [monsters EXCEPT !.at[m] = place]
  BY DEF Sw!Wander
<1>2. UNCHANGED spawn /\ spawn.phase = "started" /\ monsters.at[m] \in {"zone", "outside"}
  BY DEF Sw!Wander, Sw!Alive
<1>3. SpCounted(spawn.filed, monsters)'
  BY <1>1, <1>2 DEF SpInv, SpCounted
<1>4. SpPhase' /\ SpChecked'
  BY <1>1, <1>2 DEF SpInv, SpCounted, SpPhase, SpChecked
<1> QED BY <1>2, <1>3, <1>4 DEF SpInv

\* Monster::onRemoveCreature: the entry stays, for the check that is asked for.
LEMMA SpRemove == ASSUME SpInv, NEW m \in Spawned, Sw!RemoveMonster(m) PROVE SpInv'
<1> DEFINE gone == [monsters EXCEPT !.at[m] = "removed"]
           R == Sw!Release(gone, {m})
<1>1. /\ monsters' = R /\ spawn' = [spawn EXCEPT !.check = @ \/ monsters.spawn[m]]
      /\ spawn.phase = "started" /\ monsters.at[m] \in {"zone", "outside"}
  BY DEF Sw!RemoveMonster, Sw!Alive
<1>2. /\ gone \in [at : [Spawned -> {"freed", "zone", "outside", "removed"}],
                   spawn : [Spawned -> BOOLEAN], refs : [Spawned -> Nat]]
      /\ gone.refs = monsters.refs /\ gone.spawn = monsters.spawn
      /\ \A n \in Spawned : gone.at[n] = IF n = m THEN "removed" ELSE monsters.at[n]
  BY DEF SpInv, SpCounted
<1>3. monsters.refs[m] > 0
  BY <1>1 DEF SpInv, SpCounted
<1> HIDE DEF gone
<1>4. /\ R \in [at : [Spawned -> {"freed", "zone", "outside", "removed"}],
                spawn : [Spawned -> BOOLEAN], refs : [Spawned -> Nat]]
      /\ \A n \in Spawned :
            /\ R.refs[n] = IF n \in {m} THEN gone.refs[n] - 1 ELSE gone.refs[n]
            /\ R.at[n] = IF R.refs[n] = 0 THEN "freed" ELSE gone.at[n]
            /\ R.spawn[n] <=> R.refs[n] > 0 /\ gone.spawn[n]
  BY <1>2, <1>3, SpRelease
<1> HIDE DEF R
<1>5. \A n \in Spawned \ {m} : /\ R.refs[n] = monsters.refs[n] /\ R.at[n] = monsters.at[n]
                               /\ R.spawn[n] <=> monsters.spawn[n]
  BY <1>2, <1>4 DEF SpInv, SpCounted
<1>6. /\ R.refs[m] = IF spawn.filed[m] # Sw!Unfiled THEN 1 ELSE 0
      /\ R.at[m] = IF spawn.filed[m] # Sw!Unfiled THEN "removed" ELSE "freed"
      /\ R.spawn[m] <=> spawn.filed[m] # Sw!Unfiled
  BY <1>1, <1>2, <1>4 DEF SpInv, SpCounted
<1>7. spawn.filed \in [Spawned -> Places] /\ spawn'.filed = spawn.filed
      /\ spawn'.phase = spawn.phase /\ (spawn.check => spawn'.check) /\ (monsters.spawn[m] => spawn'.check)
      /\ spawn' \in [phase : {"loaded", "started", "cleared"}, filed : [Spawned -> Places], check : BOOLEAN]
  BY <1>1 DEF SpInv, SpCounted
<1>8. SpCounted(spawn.filed, R)
  BY <1>4, <1>5, <1>6 DEF SpInv, SpCounted
<1>9. SpPhase'
  BY <1>1, <1>7 DEF SpPhase
<1>10. SpChecked'
  <2> SUFFICES ASSUME NEW n \in Spawned, spawn.filed[n] # Sw!Unfiled, R.at[n] = "removed"
               PROVE  spawn'.check
    BY <1>1, <1>7 DEF SpChecked
  <2>1. CASE n = m
    BY <1>7, <2>1 DEF SpInv, SpCounted
  <2>2. CASE n # m
    BY <1>5, <1>7, <2>2 DEF SpInv, SpChecked
  <2> QED BY <2>1, <2>2
<1> QED BY <1>1, <1>7, <1>8, <1>9, <1>10 DEF SpInv

\* Spawn::checkSpawn: what was removed is let go, and empty blocks are filled.
LEMMA SpCheck == SpInv /\ Sw!CheckSpawn => SpInv'
<1> SUFFICES ASSUME SpInv, Sw!CheckSpawn PROVE SpInv'
  OBVIOUS
<1> DEFINE C == Sw!Cleanup
           R == Sw!Release(monsters, Sw!Removed)
<1>1. PICK bs \in SUBSET (Sw!Empty(C) \ {spawn.filed[m] : m \in Sw!Removed}) :
         /\ Sw!Placed(C, R, bs)
         /\ spawn' = [[C EXCEPT !.filed = Sw!Fill(C, R, bs).filed] EXCEPT !.check =
                        Sw!Cardinality(Sw!SpawnedMap([C EXCEPT !.filed = Sw!Fill(C, R, bs).filed])) < NumBlocks]
  BY DEF Sw!CheckSpawn
<1>2. spawn.check /\ spawn.phase = "started"
  BY DEF Sw!CheckSpawn, SpInv, SpPhase
<1>3. \A m \in Spawned : m \in Sw!Removed <=> spawn.filed[m] # Sw!Unfiled /\ monsters.at[m] = "removed"
  BY DEF Sw!Removed, Sw!SpawnedMap
<1>4. Sw!Removed \in SUBSET Spawned
  BY DEF Sw!Removed, Sw!SpawnedMap
<1>5. C.phase = spawn.phase /\ C.check = spawn.check /\ C.filed \in [Spawned -> Places]
      /\ C = [phase |-> spawn.phase, filed |-> C.filed, check |-> spawn.check]
      /\ \A m \in Spawned : C.filed[m] =
            IF m \in Sw!Removed THEN Sw!Unfiled
            ELSE IF spawn.filed[m] # Sw!Unfiled /\ monsters.at[m] = "outside" THEN 0 ELSE spawn.filed[m]
  <2> DEFINE filed == [m \in Spawned |-> IF m \in Sw!Removed THEN Sw!Unfiled
                          ELSE IF spawn.filed[m] # Sw!Unfiled /\ monsters.at[m] = "outside" THEN 0
                          ELSE spawn.filed[m]]
  <2>1. C = [phase |-> spawn.phase, filed |-> filed, check |-> spawn.check]
    BY DEF Sw!Cleanup, SpInv
  <2>2. filed \in [Spawned -> Places]
    BY DEF SpInv, Places
  <2> QED BY <2>1, <2>2
<1>6. /\ R \in [at : [Spawned -> {"freed", "zone", "outside", "removed"}],
                spawn : [Spawned -> BOOLEAN], refs : [Spawned -> Nat]]
      /\ \A n \in Spawned :
            /\ R.refs[n] = IF n \in Sw!Removed THEN monsters.refs[n] - 1 ELSE monsters.refs[n]
            /\ R.at[n] = IF R.refs[n] = 0 THEN "freed" ELSE monsters.at[n]
            /\ R.spawn[n] <=> R.refs[n] > 0 /\ monsters.spawn[n]
  <2>1. \A m \in Sw!Removed : monsters.refs[m] > 0
    BY <1>3, <1>4 DEF SpInv, SpCounted
  <2> QED BY <1>4, <2>1, SpRelease DEF SpInv, SpCounted
<1> HIDE DEF C, R
<1>7. \A m \in Spawned : m \in Sw!Removed => R.refs[m] = 0 /\ R.at[m] = "freed" /\ ~R.spawn[m]
  BY <1>3, <1>6 DEF SpInv, SpCounted
<1>8. \A m \in Spawned : m \notin Sw!Removed =>
          R.refs[m] = monsters.refs[m] /\ R.at[m] = monsters.at[m] /\ (R.spawn[m] <=> monsters.spawn[m])
  BY <1>6 DEF SpInv, SpCounted
<1>9. Sw!Unfiled # 0 /\ Sw!Unfiled \notin Sw!Blocks
  BY SpawnsAndRaidsAssumption DEF Sw!Unfiled, Sw!Blocks
<1>10. SpCounted(C.filed, R)
  <2>1. ASSUME NEW m \in Spawned
        PROVE  /\ R.refs[m] = (IF C.filed[m] # Sw!Unfiled THEN 1 ELSE 0)
                              + (IF R.at[m] \in {"zone", "outside"} THEN 1 ELSE 0)
               /\ R.at[m] = "freed" <=> R.refs[m] = 0
               /\ R.spawn[m] <=> C.filed[m] # Sw!Unfiled
    <3>1. CASE m \in Sw!Removed
      BY <1>5, <1>7, <3>1
    <3>2. CASE m \notin Sw!Removed
      BY <1>5, <1>8, <1>9, <3>2 DEF SpInv, SpCounted
    <3> QED BY <3>1, <3>2
  <2>2. ASSUME NEW m1 \in Spawned, NEW m2 \in Spawned, m1 # m2,
               C.filed[m1] # Sw!Unfiled, C.filed[m1] = C.filed[m2]
        PROVE  C.filed[m1] = 0
    BY <1>5, <1>9, <2>2 DEF SpInv, SpCounted
  <2> QED BY <1>5, <1>6, <2>1, <2>2 DEF SpCounted
<1>11. bs \in SUBSET Sw!Blocks /\ \A b \in bs, m \in Spawned : C.filed[m] # b
  BY DEF Sw!Empty
<1>12. /\ SpCounted(Sw!Fill(C, R, bs).filed, monsters')
       /\ \A m \in Spawned : monsters'.at[m] = "removed" =>
             R.at[m] = "removed" /\ Sw!Fill(C, R, bs).filed[m] = C.filed[m]
  BY <1>1, <1>10, <1>11, SpPlace DEF Sw!Placed
<1>13. PICK go \in BOOLEAN : spawn' = [phase |-> spawn.phase, filed |-> Sw!Fill(C, R, bs).filed, check |-> go]
  <2> DEFINE go == Sw!Cardinality(Sw!SpawnedMap([C EXCEPT !.filed = Sw!Fill(C, R, bs).filed])) < NumBlocks
  <2>1. go \in BOOLEAN
    OBVIOUS
  <2>2. spawn' = [[C EXCEPT !.filed = Sw!Fill(C, R, bs).filed] EXCEPT !.check = go]
    BY <1>1
  <2> HIDE DEF go
  <2> QED BY <1>5, <2>1, <2>2
<1>14. Sw!Fill(C, R, bs).filed \in [Spawned -> Places]
  BY <1>12 DEF SpCounted
<1>15. spawn' \in [phase : {"loaded", "started", "cleared"}, filed : [Spawned -> Places], check : BOOLEAN]
  BY <1>13, <1>14 DEF SpInv
<1>16. SpCounted(spawn.filed, monsters)'
  BY <1>12, <1>13
<1>17. SpPhase'
  BY <1>2, <1>13 DEF SpPhase
<1>18. SpChecked'
  <2> SUFFICES ASSUME NEW m \in Spawned, spawn'.filed[m] # Sw!Unfiled, monsters'.at[m] = "removed"
               PROVE  FALSE
    BY DEF SpChecked
  <2>1. R.at[m] = "removed" /\ C.filed[m] # Sw!Unfiled
    BY <1>12, <1>13
  <2>2. m \notin Sw!Removed
    BY <1>7, <2>1
  <2>3. spawn.filed[m] # Sw!Unfiled /\ monsters.at[m] = "removed"
    BY <1>5, <1>8, <2>1, <2>2
  <2> QED BY <1>3, <2>2, <2>3
<1> QED BY <1>15, <1>16, <1>17, <1>18 DEF SpInv

\* Spawns::clear and ~Spawn let every monster of the map go.
LEMMA SpClear == SpInv /\ Sw!Clear => SpInv'
<1> SUFFICES ASSUME SpInv, Sw!Clear PROVE SpInv'
  OBVIOUS
<1> DEFINE M == Sw!SpawnedMap(spawn)
           cut == [monsters EXCEPT !.spawn = [m \in Spawned |-> @[m] /\ m \notin M]]
           R == Sw!Release(cut, M)
<1>1. /\ spawn' = [phase |-> "cleared", filed |-> [m \in Spawned |-> Sw!Unfiled], check |-> FALSE]
      /\ monsters' = R
  BY DEF Sw!Clear
<1>2. \A m \in Spawned : m \in M <=> spawn.filed[m] # Sw!Unfiled
  BY DEF Sw!SpawnedMap
<1>3. M \in SUBSET Spawned
  BY DEF Sw!SpawnedMap
<1> HIDE DEF M
<1>4. /\ cut \in [at : [Spawned -> {"freed", "zone", "outside", "removed"}],
                  spawn : [Spawned -> BOOLEAN], refs : [Spawned -> Nat]]
      /\ cut.refs = monsters.refs /\ cut.at = monsters.at
      /\ \A m \in Spawned : cut.spawn[m] <=> monsters.spawn[m] /\ m \notin M
  <2> DEFINE sp == [m \in Spawned |-> monsters.spawn[m] /\ m \notin M]
  <2>1. cut = [at |-> monsters.at, spawn |-> sp, refs |-> monsters.refs]
    BY DEF SpInv, SpCounted
  <2>2. sp \in [Spawned -> BOOLEAN]
    OBVIOUS
  <2>3. \A m \in Spawned : sp[m] <=> monsters.spawn[m] /\ m \notin M
    OBVIOUS
  <2> HIDE DEF sp
  <2> QED BY <2>1, <2>2, <2>3 DEF SpInv, SpCounted
<1> HIDE DEF cut
<1>5. /\ R \in [at : [Spawned -> {"freed", "zone", "outside", "removed"}],
                spawn : [Spawned -> BOOLEAN], refs : [Spawned -> Nat]]
      /\ \A n \in Spawned :
            /\ R.refs[n] = IF n \in M THEN cut.refs[n] - 1 ELSE cut.refs[n]
            /\ R.at[n] = IF R.refs[n] = 0 THEN "freed" ELSE cut.at[n]
            /\ R.spawn[n] <=> R.refs[n] > 0 /\ cut.spawn[n]
  <2>1. \A m \in M : cut.refs[m] > 0
    BY <1>2, <1>3, <1>4 DEF SpInv, SpCounted
  <2> QED BY <1>3, <1>4, <2>1, SpRelease
<1> HIDE DEF R
<1>6. ASSUME NEW m \in Spawned
      PROVE  /\ R.refs[m] = IF R.at[m] \in {"zone", "outside"} THEN 1 ELSE 0
             /\ R.at[m] = "freed" <=> R.refs[m] = 0
             /\ ~R.spawn[m]
  BY <1>2, <1>4, <1>5 DEF SpInv, SpCounted
<1>7. \A m \in Spawned : spawn'.filed[m] = Sw!Unfiled
  BY <1>1
<1>8. spawn' \in [phase : {"loaded", "started", "cleared"}, filed : [Spawned -> Places], check : BOOLEAN]
  BY <1>1 DEF Places
<1>9. SpCounted(spawn.filed, monsters)'
  BY <1>1, <1>5, <1>6, <1>7, <1>8 DEF SpCounted
<1>10. SpPhase' /\ SpChecked'
  BY <1>1, <1>7 DEF SpPhase, SpChecked
<1> QED BY <1>8, <1>9, <1>10 DEF SpInv

\* Each step keeps the invariant.
LEMMA SpNext == SpInv /\ (Sw!SpawnsNext \/ UNCHANGED spawnVars) => SpInv'
<1>1. SpInv /\ UNCHANGED spawnVars => SpInv'
  BY DEF SpInv, SpCounted, SpPhase, SpChecked, spawnVars
<1>2. SpInv /\ Sw!SpawnsNext => SpInv'
  BY SpStartup, SpCheck, SpClear, SpWander, SpRemove DEF Sw!SpawnsNext
<1> QED BY <1>1, <1>2

\* What the invariant is for.
LEMMA SpSafe == SpInv => Sw!SpawnsTypeOK /\ Sw!SpawnReferences /\ Sw!RemovalChecked
<1> SUFFICES ASSUME SpInv PROVE Sw!SpawnsTypeOK /\ Sw!SpawnReferences /\ Sw!RemovalChecked
  OBVIOUS
<1>1. \A m \in Spawned : m \in Sw!SpawnedMap(spawn) <=> spawn.filed[m] # Sw!Unfiled
  BY DEF Sw!SpawnedMap
<1>2. \A m \in Spawned : monsters.refs[m] \in 0..2
  BY DEF SpInv, SpCounted
<1>3. Sw!SpawnsTypeOK
  BY <1>2 DEF SpInv, SpCounted, Sw!SpawnsTypeOK, Places
<1>4. ASSUME NEW m \in Spawned
      PROVE  Sw!Cardinality({m} \cap Sw!SpawnedMap(spawn)) = IF spawn.filed[m] # Sw!Unfiled THEN 1 ELSE 0
  <2>1. Sw!Cardinality({m} \cap Sw!SpawnedMap(spawn)) = Cardinality({m} \cap Sw!SpawnedMap(spawn))
    BY DEF Sw!Cardinality, Cardinality
  <2>2. CASE spawn.filed[m] # Sw!Unfiled
    <3>1. {m} \cap Sw!SpawnedMap(spawn) = {m}
      BY <1>1, <2>2
    <3> QED BY <2>1, <2>2, <3>1, FS_Singleton
  <2>3. CASE spawn.filed[m] = Sw!Unfiled
    <3>1. {m} \cap Sw!SpawnedMap(spawn) = {}
      BY <1>1, <2>3
    <3> QED BY <2>1, <2>3, <3>1, FS_EmptySet
  <2> QED BY <2>2, <2>3
<1>5. \A m \in Spawned :
         monsters.refs[m] = Sw!Cardinality({m} \cap Sw!SpawnedMap(spawn)) + (IF Sw!Alive(m) THEN 1 ELSE 0)
  BY <1>4 DEF SpInv, SpCounted, Sw!Alive
<1>6. Sw!SpawnReferences
  <2>1. Sw!SpawnedMap(spawn) \subseteq Spawned
    BY DEF Sw!SpawnedMap
  <2> QED BY <1>1, <1>5, <2>1 DEF SpInv, SpCounted, Sw!SpawnReferences
<1>7. Sw!RemovalChecked
  BY DEF SpInv, SpChecked, Sw!RemovalChecked, Sw!Removed, Sw!SpawnedMap
<1> QED BY <1>3, <1>6, <1>7

\* Spawn: spawnedMap keeps alive what it names and nothing else, a monster that left the
\* game has a check to let it go, and no block gets a second monster; for any number of
\* monsters and blocks, whatever wanders, dies or finds no place.
THEOREM SpawnsCountTheirMonsters == Spec => []Of("spawns", Sw!SpawnReferences /\ Sw!RemovalChecked)
<1>1. Init => SpInv
  BY SpInit DEF Init
<1>2. SpInv /\ [Next]_vars => SpInv'
  <2>1. [Next]_vars => Sw!SpawnsNext \/ UNCHANGED spawnVars
    BY DEF Next, Only, vars
  <2> QED BY <2>1, SpNext
<1>3. SpInv => Of("spawns", Sw!SpawnReferences /\ Sw!RemovalChecked)
  BY SpSafe DEF Of
<1> QED
  BY <1>1, <1>2, <1>3, PTL DEF Spec

-----------------------------------------------------------------------------
(* Registries: reloading gives back the handlers that the files declare     *)

Origins == {"xml", "lua"}
XmlOf(k) == Re!Declared(k, "xml")
LuaOf(k) == Re!Declared(k, "lua")

\* The entries of a key are all or one, and of files that declare it.
RgEntries(k, e) ==
    /\ e \in [Re!Entry -> Nat]
    /\ KindOf[k] # "move" => e = Re!Nothing \/ \E x \in Re!Entry : e = Re!One(x)
    /\ \A o \in Origins : e[o] > 0 => Re!Declared(k, o)

RgStates ==
    [reg   : [Re!Keys -> [Re!Entry -> Nat]],
     list  : [Watchers -> [has : SUBSET Re!CreatureEvents, lost : SUBSET Re!CreatureEvents]],
     spell : [DOMAIN Learners -> [has : SUBSET Re!Keys, lost : SUBSET Re!Keys]],
     ge    : [id : [Re!Chains -> Re!Ids \cup {0, Re!Stale}],
              pending : [Re!Ids -> {"none", "think", "timer"}]]]

RgGood(s) == s \in RgStates /\ \A k \in Re!Keys : RgEntries(k, s.reg[k])

\* A step of a reload that leaves the events of the creatures where they are.
RgKept(s, t) ==
    /\ RgGood(t) /\ t.list = s.list
    /\ \A k \in Re!CreatureEvents : s.reg[k] # Re!Nothing => t.reg[k] # Re!Nothing

\* What a key whose files load has at the start.
Home(k) ==
    IF KindOf[k] = "move" THEN [e \in Re!Entry |-> IF e \in Origins /\ Re!Declared(k, e) THEN 1 ELSE 0]
    ELSE IF KindOf[k] = "weapon" THEN
             IF LuaOf(k) THEN Re!One("lua") ELSE IF XmlOf(k) THEN Re!One("xml")
             ELSE IF k \in HasDefault THEN Re!One("default") ELSE Re!Nothing
    ELSE IF XmlOf(k) THEN Re!One("xml") ELSE IF LuaOf(k) THEN Re!One("lua") ELSE Re!Nothing

\* The entries of one script.
LEMMA RgOne ==
    /\ Re!Nothing \in [Re!Entry -> Nat] /\ \A e \in Re!Entry : Re!Nothing[e] = 0
    /\ \A x \in Re!Entry : /\ Re!One(x) \in [Re!Entry -> Nat]
                           /\ \A e \in Re!Entry : Re!One(x)[e] = IF e = x THEN 1 ELSE 0
                           /\ Re!One(x) # Re!Nothing
    /\ \A x, y \in Re!Entry : Re!One(x) = Re!One(y) => x = y
<1>1. Re!Nothing \in [Re!Entry -> Nat] /\ \A e \in Re!Entry : Re!Nothing[e] = 0
  BY DEF Re!Nothing
<1>2. ASSUME NEW x \in Re!Entry
      PROVE  /\ Re!One(x) \in [Re!Entry -> Nat]
             /\ \A e \in Re!Entry : Re!One(x)[e] = IF e = x THEN 1 ELSE 0
  BY <1>1 DEF Re!One
<1>3. \A x \in Re!Entry : Re!One(x)[x] = 1 /\ Re!One(x) # Re!Nothing
  BY <1>1, <1>2
<1>4. ASSUME NEW x \in Re!Entry, NEW y \in Re!Entry, Re!One(x) = Re!One(y) PROVE x = y
  <2>1. Re!One(y)[x] = 1
    BY <1>3, <1>4
  <2> QED BY <1>2, <2>1
<1> QED BY <1>1, <1>2, <1>3, <1>4

\* clear, on the entries of one key.
LEMMA RgWithout ==
    ASSUME NEW o \in Origins
    PROVE  /\ Re!Without(Re!Nothing, o) = Re!Nothing
           /\ \A x \in Re!Entry : Re!Without(Re!One(x), o) =
                 IF x = o \/ (x = "default" /\ o = "xml") THEN Re!Nothing ELSE Re!One(x)
<1>1. \A e : Re!Without(e, o) \in [Re!Entry -> {0} \cup {e[x] : x \in Re!Entry}]
  BY DEF Re!Without
<1>2. Re!Without(Re!Nothing, o) = Re!Nothing
  BY RgOne DEF Re!Without, Re!Nothing
<1>3. ASSUME NEW x \in Re!Entry, x = o \/ (x = "default" /\ o = "xml")
      PROVE  Re!Without(Re!One(x), o) = Re!Nothing
  <2>1. \A e \in Re!Entry : Re!Without(Re!One(x), o)[e] = 0
    BY <1>3, RgOne DEF Re!Without
  <2>2. Re!Without(Re!One(x), o) = [e \in Re!Entry |-> Re!Without(Re!One(x), o)[e]]
    BY DEF Re!Without
  <2>3. Re!Without(Re!One(x), o) = [e \in Re!Entry |-> 0]
    BY <2>1, <2>2
  <2> QED BY <2>3 DEF Re!Nothing
<1>4. ASSUME NEW x \in Re!Entry, ~(x = o \/ (x = "default" /\ o = "xml"))
      PROVE  Re!Without(Re!One(x), o) = Re!One(x)
  <2>1. \A e \in Re!Entry : Re!Without(Re!One(x), o)[e] = Re!One(x)[e]
    BY <1>4, RgOne DEF Re!Without
  <2>2. Re!Without(Re!One(x), o) = [e \in Re!Entry |-> Re!Without(Re!One(x), o)[e]]
    BY DEF Re!Without
  <2>3. Re!One(x) = [e \in Re!Entry |-> Re!One(x)[e]]
    BY RgOne
  <2>4. [e \in Re!Entry |-> Re!Without(Re!One(x), o)[e]] = [e \in Re!Entry |-> Re!One(x)[e]]
    BY <2>1
  <2> QED BY <2>2, <2>3, <2>4
<1> QED BY <1>2, <1>3, <1>4

\* clear and register keep the entries of a key what they may be.
LEMMA RgEntryKept ==
    ASSUME NEW k \in Re!Keys, NEW e, RgEntries(k, e), NEW o \in Origins
    PROVE  /\ RgEntries(k, Re!Without(e, o))
           /\ Re!Declared(k, o) => RgEntries(k, Re!Register(k, e, o))
           /\ e # Re!Nothing => Re!Register(k, e, o) # Re!Nothing
<1>1. Re!Without(e, o) \in [Re!Entry -> Nat]
  BY DEF RgEntries, Re!Without
<1>2. \A x \in Origins : Re!Without(e, o)[x] > 0 => Re!Declared(k, x)
  BY DEF RgEntries, Re!Without, Origins, Re!Entry
<1>3. KindOf[k] # "move" =>
         Re!Without(e, o) = Re!Nothing \/ \E x \in Re!Entry : Re!Without(e, o) = Re!One(x)
  BY RgWithout DEF RgEntries
<1>4. o \in Re!Entry /\ "lua" \in Re!Entry /\ "xml" \in Re!Entry
  BY DEF Origins, Re!Entry
<1>5. Re!Declared(k, o) => RgEntries(k, Re!One(o))
  BY <1>4, RgOne DEF RgEntries, Origins, Re!Entry
<1>6. CASE KindOf[k] = "move"
  <2>1. Re!Register(k, e, o) = [e EXCEPT ![o] = @ + 1]
    BY <1>6 DEF Re!Register, Re!RegisterLuaMove, Re!RegisterMove, Re!AddEvent, Origins
  <2>2. e \in [Re!Entry -> Nat]
    BY DEF RgEntries
  <2>3. Re!Register(k, e, o) \in [Re!Entry -> Nat] /\ Re!Register(k, e, o)[o] = e[o] + 1
    BY <1>4, <2>1, <2>2
  <2>4. Re!Register(k, e, o) # Re!Nothing
    BY <1>4, <2>2, <2>3, RgOne
  <2>5. ASSUME Re!Declared(k, o), NEW x \in Origins, Re!Register(k, e, o)[x] > 0 PROVE Re!Declared(k, x)
    BY <1>4, <2>1, <2>2, <2>5 DEF RgEntries, Origins
  <2> QED BY <1>1, <1>2, <1>3, <1>6, <2>3, <2>4, <2>5 DEF RgEntries
<1>7. CASE KindOf[k] # "move"
  <2>1. Re!Register(k, e, o) \in {e, Re!One(o)}
    BY <1>7 DEF Re!Register, Re!RegisterEvent, Re!RegisterWeapon, Re!RegisterAction, Re!RegisterLuaAction,
                Re!RegisterFirst, Origins
  <2> QED BY <1>1, <1>2, <1>3, <1>4, <1>5, <2>1, RgOne DEF RgEntries
<1> QED BY <1>6, <1>7

\* A record of the state with one field changed.
LEMMA RgRecord ==
    ASSUME NEW s \in RgStates, NEW x
    PROVE  /\ [s EXCEPT !.reg = x] = [reg |-> x, list |-> s.list, spell |-> s.spell, ge |-> s.ge]
           /\ [s EXCEPT !.list = x] = [reg |-> s.reg, list |-> x, spell |-> s.spell, ge |-> s.ge]
           /\ [s EXCEPT !.spell = x] = [reg |-> s.reg, list |-> s.list, spell |-> x, ge |-> s.ge]
           /\ [s EXCEPT !.ge = x] = [reg |-> s.reg, list |-> s.list, spell |-> s.spell, ge |-> x]
BY DEF RgStates

\* clearMap
LEMMA RgClearMap ==
    ASSUME NEW s, RgGood(s), NEW kind, NEW o \in Origins
    PROVE  /\ RgGood(Re!ClearMap(s, kind, o))
           /\ kind # "creature" => RgKept(s, Re!ClearMap(s, kind, o))
           /\ Re!ClearMap(s, kind, o).list = s.list
           /\ Re!ClearMap(s, kind, o).spell = s.spell
           /\ Re!ClearMap(s, kind, o).ge = s.ge
           /\ \A k \in Re!Keys : Re!ClearMap(s, kind, o).reg[k] =
                 IF KindOf[k] = kind THEN Re!Without(s.reg[k], o) ELSE s.reg[k]
<1> DEFINE reg == [k \in Re!Keys |-> IF KindOf[k] = kind THEN Re!Without(s.reg[k], o) ELSE s.reg[k]]
           t == Re!ClearMap(s, kind, o)
<1>1. t = [reg |-> reg, list |-> s.list, spell |-> s.spell, ge |-> s.ge]
  <2>1. t = [s EXCEPT !.reg = reg]
    BY DEF Re!ClearMap
  <2> HIDE DEF t, reg
  <2> QED BY <2>1, RgRecord DEF RgGood
<1>2. \A k \in Re!Keys : RgEntries(k, reg[k])
  BY RgEntryKept DEF RgGood
<1>3. reg \in [Re!Keys -> [Re!Entry -> Nat]]
  BY <1>2 DEF RgEntries
<1>4. \A k \in Re!Keys : reg[k] = IF KindOf[k] = kind THEN Re!Without(s.reg[k], o) ELSE s.reg[k]
  OBVIOUS
<1> HIDE DEF reg, t
<1>5. RgGood(t)
  BY <1>1, <1>2, <1>3 DEF RgGood, RgStates
<1>6. kind # "creature" => \A k \in Re!CreatureEvents : s.reg[k] # Re!Nothing => t.reg[k] # Re!Nothing
  BY <1>1, <1>4 DEF Re!CreatureEvents, Re!Of1
<1> QED
  BY <1>1, <1>4, <1>5, <1>6 DEF t, RgKept

\* CreatureEvents::clear
LEMMA RgClearEvents ==
    ASSUME NEW s, RgGood(s), NEW o \in Origins
    PROVE  /\ RgKept(s, Re!ClearEvents(s, o))
           /\ Re!ClearEvents(s, o).spell = s.spell
           /\ Re!ClearEvents(s, o).ge = s.ge
           /\ \A k \in Re!Keys : Re!ClearEvents(s, o).reg[k] =
                 IF KindOf[k] = "creature" /\ s.reg[k] = Re!One(o) THEN Re!One("cleared") ELSE s.reg[k]
<1> DEFINE reg == [k \in Re!Keys |-> IF k \in Re!CreatureEvents /\ s.reg[k] = Re!One(o) THEN Re!One("cleared")
                                     ELSE s.reg[k]]
           t == Re!ClearEvents(s, o)
<1>1. t = [reg |-> reg, list |-> s.list, spell |-> s.spell, ge |-> s.ge]
  <2>1. t = [s EXCEPT !.reg = reg]
    BY DEF Re!ClearEvents
  <2> HIDE DEF t, reg
  <2> QED BY <2>1, RgRecord DEF RgGood
<1>2. \A k \in Re!Keys : RgEntries(k, Re!One("cleared"))
  BY RgOne DEF RgEntries, Origins, Re!Entry
<1>3. \A k \in Re!Keys : RgEntries(k, reg[k])
  BY <1>2 DEF RgGood
<1>4. reg \in [Re!Keys -> [Re!Entry -> Nat]]
  BY <1>3 DEF RgEntries
<1>5. \A k \in Re!Keys : reg[k] =
         IF KindOf[k] = "creature" /\ s.reg[k] = Re!One(o) THEN Re!One("cleared") ELSE s.reg[k]
  BY DEF Re!CreatureEvents, Re!Of1
<1> HIDE DEF reg, t
<1>6. RgGood(t)
  BY <1>1, <1>3, <1>4 DEF RgGood, RgStates
<1>7. \A k \in Re!CreatureEvents : s.reg[k] # Re!Nothing => t.reg[k] # Re!Nothing
  <2>1. Re!One("cleared") # Re!Nothing
    BY RgOne DEF Re!Entry
  <2> QED BY <1>1, <1>5, <2>1 DEF Re!CreatureEvents, Re!Of1
<1> QED
  BY <1>1, <1>5, <1>6, <1>7 DEF t, RgKept

\* Spells::clear: pointers to the erased spells are lost.
LEMMA RgClearSpells ==
    ASSUME NEW s, RgGood(s), NEW o \in Origins
    PROVE  /\ RgKept(s, Re!ClearSpells(s, o))
           /\ Re!ClearSpells(s, o).ge = s.ge
           /\ \A k \in Re!Keys : Re!ClearSpells(s, o).reg[k] =
                 IF KindOf[k] = "spell" THEN Re!Without(s.reg[k], o) ELSE s.reg[k]
           /\ \A m \in DOMAIN Learners : \A k \in Re!ClearSpells(s, o).spell[m].lost :
                 k \in s.spell[m].lost \/ Re!Declared(k, o)
<1> DEFINE lost == {k \in Re!Of1("spell") : s.reg[k] = Re!One(o)}
           c == Re!ClearMap(s, "spell", o)
           sp == [m \in DOMAIN Learners |->
                    [has |-> c.spell[m].has \ lost, lost |-> c.spell[m].lost \cup (c.spell[m].has \cap lost)]]
           t == Re!ClearSpells(s, o)
<1>1. /\ RgGood(c) /\ RgKept(s, c) /\ c.spell = s.spell /\ c.ge = s.ge
      /\ \A k \in Re!Keys : c.reg[k] = IF KindOf[k] = "spell" THEN Re!Without(s.reg[k], o) ELSE s.reg[k]
  BY RgClearMap
<1>2. t = [c EXCEPT !.spell = sp]
  BY DEF Re!ClearSpells, Re!LoseSpells
<1>3. \A k \in lost : k \in Re!Keys /\ Re!Declared(k, o)
  BY RgOne DEF RgGood, RgEntries, Re!Of1, Origins, Re!Entry
<1> HIDE DEF lost, c
<1>4. \A m \in DOMAIN Learners : c.spell[m].has \subseteq Re!Keys /\ c.spell[m].lost \subseteq Re!Keys
  BY <1>1 DEF RgGood, RgStates
<1>5. sp \in [DOMAIN Learners -> [has : SUBSET Re!Keys, lost : SUBSET Re!Keys]]
  BY <1>4
<1>6. \A m \in DOMAIN Learners : \A k \in sp[m].lost : k \in s.spell[m].lost \/ Re!Declared(k, o)
  BY <1>1, <1>3
<1> HIDE DEF sp
<1>7. t = [reg |-> c.reg, list |-> c.list, spell |-> sp, ge |-> c.ge]
  BY <1>1, <1>2, RgRecord DEF RgGood
<1> HIDE DEF t
<1>8. RgGood(t)
  BY <1>1, <1>5, <1>7 DEF RgGood, RgStates
<1>9. RgKept(s, t)
  BY <1>1, <1>7, <1>8 DEF RgKept
<1> QED BY <1>1, <1>6, <1>7, <1>9 DEF t

\* Weapons::loadDefaults
LEMMA RgDefaults ==
    ASSUME NEW s, RgGood(s)
    PROVE  /\ RgKept(s, Re!LoadDefaults(s))
           /\ Re!LoadDefaults(s).spell = s.spell
           /\ Re!LoadDefaults(s).ge = s.ge
           /\ \A k \in Re!Keys : Re!LoadDefaults(s).reg[k] =
                 IF k \in HasDefault /\ s.reg[k] = Re!Nothing THEN Re!One("default") ELSE s.reg[k]
<1> DEFINE reg == [k \in Re!Keys |-> IF k \in HasDefault /\ s.reg[k] = Re!Nothing THEN Re!One("default")
                                     ELSE s.reg[k]]
           t == Re!LoadDefaults(s)
<1>1. t = [reg |-> reg, list |-> s.list, spell |-> s.spell, ge |-> s.ge]
  <2>1. t = [s EXCEPT !.reg = reg]
    BY DEF Re!LoadDefaults
  <2> HIDE DEF t, reg
  <2> QED BY <2>1, RgRecord DEF RgGood
<1>2. \A k \in Re!Keys : RgEntries(k, Re!One("default"))
  BY RgOne DEF RgEntries, Origins, Re!Entry
<1>3. \A k \in Re!Keys : RgEntries(k, reg[k])
  BY <1>2 DEF RgGood
<1>4. reg \in [Re!Keys -> [Re!Entry -> Nat]]
  BY <1>3 DEF RgEntries
<1>5. \A k \in Re!Keys : reg[k] = IF k \in HasDefault /\ s.reg[k] = Re!Nothing THEN Re!One("default") ELSE s.reg[k]
  OBVIOUS
<1> HIDE DEF reg, t
<1>6. RgGood(t)
  BY <1>1, <1>3, <1>4 DEF RgGood, RgStates
<1>7. \A k \in Re!CreatureEvents : s.reg[k] # Re!Nothing => t.reg[k] # Re!Nothing
  BY <1>1, <1>5 DEF Re!CreatureEvents, Re!Of1
<1> QED
  BY <1>1, <1>5, <1>6, <1>7 DEF t, RgKept

\* Monsters::reload
LEMMA RgMonsters ==
    ASSUME NEW s, RgGood(s)
    PROVE  /\ RgKept(s, Re!ReloadMonsters(s))
           /\ Re!ReloadMonsters(s).reg = s.reg /\ Re!ReloadMonsters(s).ge = s.ge
           /\ \A m \in DOMAIN Learners : Re!ReloadMonsters(s).spell[m].lost = {}
<1> DEFINE sp == [m \in DOMAIN Learners |-> [has |-> {k \in Learners[m] : s.reg[k] # Re!Nothing}, lost |-> {}]]
           t == Re!ReloadMonsters(s)
<1>1. t = [reg |-> s.reg, list |-> s.list, spell |-> sp, ge |-> s.ge]
  <2>1. t = [s EXCEPT !.spell = sp]
    BY DEF Re!ReloadMonsters
  <2> HIDE DEF t, sp
  <2> QED BY <2>1, RgRecord DEF RgGood
<1>2. \A m \in DOMAIN Learners : Learners[m] \subseteq Re!Keys
  BY RegistriesAssumption DEF Re!Keys
<1>3. sp \in [DOMAIN Learners -> [has : SUBSET Re!Keys, lost : SUBSET Re!Keys]]
  BY <1>2
<1>4. \A m \in DOMAIN Learners : sp[m].lost = {}
  OBVIOUS
<1> HIDE DEF sp, t
<1>5. RgGood(t)
  BY <1>1, <1>3 DEF RgGood, RgStates
<1> QED
  BY <1>1, <1>4, <1>5 DEF t, RgKept

\* Two different ids are free, one for each chain that has none.
HasRoom(ge) ==
    \E i, j \in Re!Ids : /\ i # j
                         /\ ge.id["think"] = 0 => ge.pending[i] = "none"
                         /\ ge.id["timer"] = 0 => ge.pending[j] = "none"

Idle(ge) == {i \in Re!Ids : ge.pending[i] = "none"}

RgChains == [id : [Re!Chains -> Re!Ids \cup {0, Re!Stale}], pending : [Re!Ids -> {"none", "think", "timer"}]]

\* Schedule, of an id that is free.
LEMMA RgSchedule ==
    ASSUME NEW ge \in RgChains, Idle(ge) # {}, NEW what \in Re!Chains, NEW member \in Re!Chains
    PROVE  \E f \in Re!Ids :
              /\ ge.pending[f] = "none" /\ Re!Schedule(ge, what, member) \in RgChains
              /\ Re!Schedule(ge, what, member).id = [ge.id EXCEPT ![member] = f]
              /\ Re!Schedule(ge, what, member).pending = [ge.pending EXCEPT ![f] = what]
<1> DEFINE f == Re!FreeId(ge)
           id == [ge.id EXCEPT ![member] = f]
           pending == [ge.pending EXCEPT ![f] = what]
<1>1. f \in Re!Ids /\ ge.pending[f] = "none"
  BY DEF Re!FreeId, Idle
<1>2. Re!Schedule(ge, what, member) = [id |-> id, pending |-> pending]
  BY DEF Re!Schedule
<1> HIDE DEF f
<1>3. id \in [Re!Chains -> Re!Ids \cup {0, Re!Stale}]
  BY <1>1 DEF RgChains
<1>4. pending \in [Re!Ids -> {"none", "think", "timer"}]
  BY <1>1 DEF RgChains, Re!Chains
<1>5. [id |-> id, pending |-> pending] \in RgChains
  <2> HIDE DEF id, pending
  <2> QED BY <1>3, <1>4 DEF RgChains
<1> HIDE DEF id, pending
<1>6. Re!Schedule(ge, what, member).id = id /\ Re!Schedule(ge, what, member).pending = pending
  BY <1>2
<1> QED
  BY <1>1, <1>2, <1>5, <1>6 DEF id, pending

\* GlobalEvents: the chain of a kind begins, and that of the other one is left alone.
LEMMA RgBegin ==
    ASSUME NEW ge \in RgChains, HasRoom(ge), NEW kind \in Re!Chains, NEW begins \in BOOLEAN
    PROVE  /\ Re!RegisterGlobal(ge, kind, begins) \in RgChains
           /\ HasRoom(Re!RegisterGlobal(ge, kind, begins))
           /\ \A c \in Re!Chains \ {kind} : Re!RegisterGlobal(ge, kind, begins).id[c] = ge.id[c]
           /\ \A i \in Re!Ids : Re!RegisterGlobal(ge, kind, begins).pending[i] # ge.pending[i] =>
                 Re!RegisterGlobal(ge, kind, begins).id[kind] = i /\ ge.pending[i] = "none"
           /\ Re!RegisterGlobal(ge, kind, begins).id[kind] # ge.id[kind] => ge.id[kind] = 0
           /\ begins /\ ge.id[kind] = 0 =>
                 \E i \in Re!Ids : Re!RegisterGlobal(ge, kind, begins).pending[i] = kind
<1> DEFINE g == Re!RegisterGlobal(ge, kind, begins)
<1>1. CASE ~(begins /\ ge.id[kind] = 0)
  <2>1. g = ge
    BY <1>1 DEF Re!RegisterGlobal
  <2> QED BY <1>1, <2>1
<1>2. CASE begins /\ ge.id[kind] = 0
  <2>1. g = Re!Schedule(ge, kind, kind)
    BY <1>2 DEF Re!RegisterGlobal
  <2> HIDE DEF g
  <2>2. PICK i \in Re!Ids, j \in Re!Ids :
           /\ i # j
           /\ ge.id["think"] = 0 => ge.pending[i] = "none"
           /\ ge.id["timer"] = 0 => ge.pending[j] = "none"
    BY DEF HasRoom
  <2>3. Idle(ge) # {}
    BY <1>2, <2>2 DEF Idle, Re!Chains
  <2>4. PICK f \in Re!Ids :
              /\ ge.pending[f] = "none" /\ Re!Schedule(ge, kind, kind) \in RgChains
              /\ Re!Schedule(ge, kind, kind).id = [ge.id EXCEPT ![kind] = f]
              /\ Re!Schedule(ge, kind, kind).pending = [ge.pending EXCEPT ![f] = kind]
    BY <2>3, RgSchedule
  <2>5. /\ g.id[kind] = f /\ g.pending[f] = kind /\ f # 0
        /\ \A c \in Re!Chains \ {kind} : g.id[c] = ge.id[c]
        /\ \A n \in Re!Ids \ {f} : g.pending[n] = ge.pending[n]
    <3>1. DOMAIN ge.id = Re!Chains /\ DOMAIN ge.pending = Re!Ids
      BY DEF RgChains
    <3>2. ge.id \in [Re!Chains -> Re!Ids \cup {0, Re!Stale}] /\ ge.pending \in [Re!Ids -> {"none", "think", "timer"}]
      BY DEF RgChains
    <3>3. f # 0
      BY DEF Re!Ids
    <3>4. g.id = [ge.id EXCEPT ![kind] = f] /\ g.pending = [ge.pending EXCEPT ![f] = kind]
      BY <2>1, <2>4
    <3> QED BY <3>2, <3>3, <3>4
  <2>6. HasRoom(g)
    <3>1. CASE kind = "think"
      <4>1. ge.pending[i] = "none" /\ g.id["think"] # 0 /\ g.id["timer"] = ge.id["timer"]
        BY <1>2, <2>2, <2>5, <3>1 DEF Re!Chains
      <4>2. CASE f # j
        BY <2>2, <2>5, <4>1, <4>2 DEF HasRoom
      <4>3. CASE f = j
        <5>1. g.pending[i] = "none"
          BY <2>2, <2>5, <4>1, <4>3
        <5> QED BY <2>2, <4>1, <5>1 DEF HasRoom
      <4> QED BY <4>2, <4>3
    <3>2. CASE kind = "timer"
      <4>1. ge.pending[j] = "none" /\ g.id["timer"] # 0 /\ g.id["think"] = ge.id["think"]
        BY <1>2, <2>2, <2>5, <3>2 DEF Re!Chains
      <4>2. CASE f # i
        BY <2>2, <2>5, <4>1, <4>2 DEF HasRoom
      <4>3. CASE f = i
        <5>1. g.pending[j] = "none"
          BY <2>2, <2>5, <4>1, <4>3
        <5> QED BY <2>2, <4>1, <5>1 DEF HasRoom
      <4> QED BY <4>2, <4>3
    <3> QED BY <3>1, <3>2 DEF Re!Chains
  <2> QED
    BY <1>2, <2>1, <2>4, <2>5, <2>6 DEF g
<1> QED BY <1>1, <1>2

\* An id that is free, or that GlobalEvents::clear frees; and two of them.
Freed(ge, i) == ge.pending[i] = "none" \/ \E c \in Re!Chains : ge.id[c] = i
Spare(ge) == \E i, j \in Re!Ids : i # j /\ Freed(ge, i) /\ Freed(ge, j)

\* BaseEvents::loadFromXml and Scripts::loadScripts
LEMMA RgLoad ==
    ASSUME NEW s, RgGood(s), HasRoom(s.ge), NEW kinds, NEW o \in Origins, NEW bad
    PROVE  LET t == Re!Load(s, kinds, o, bad)
               keys == {k \in Re!Keys : KindOf[k] \in kinds /\ Re!Declared(k, o) /\ k \notin bad}
           IN  /\ RgKept(s, t) /\ t.spell = s.spell /\ HasRoom(t.ge)
               /\ \A k \in Re!Keys : t.reg[k] = IF k \in keys THEN Re!Register(k, s.reg[k], o) ELSE s.reg[k]
               /\ Spare(s.ge) => Spare(t.ge)
               /\ \A i \in Re!Ids : s.ge.pending[i] # "none" => t.ge.pending[i] = s.ge.pending[i]
               /\ \A c \in Re!Chains :
                     s.ge.id[c] = 0 /\ (\E k \in keys : KindOf[k] = c /\ s.reg[k] = Re!Nothing)
                     => \E i \in Re!Ids : t.ge.pending[i] = c
<1> DEFINE t == Re!Load(s, kinds, o, bad)
           keys == {k \in Re!Keys : KindOf[k] \in kinds /\ Re!Declared(k, o) /\ k \notin bad}
           begins(kind) == \E k \in keys : KindOf[k] = kind /\ s.reg[k] = Re!Nothing
           g == Re!RegisterGlobal(s.ge, "think", begins("think"))
           h == Re!RegisterGlobal(g, "timer", begins("timer"))
           reg == [k \in Re!Keys |-> IF k \in keys THEN Re!Register(k, s.reg[k], o) ELSE s.reg[k]]
<1>1. t = [s EXCEPT !.reg = reg, !.ge = h]
  BY DEF Re!Load
<1>2. \A kind : begins(kind) \in BOOLEAN
  OBVIOUS
<1>3. \A k \in keys : k \in Re!Keys /\ Re!Declared(k, o)
  OBVIOUS
<1>4. \A k \in Re!Keys : reg[k] = IF k \in keys THEN Re!Register(k, s.reg[k], o) ELSE s.reg[k]
  OBVIOUS
<1>5. \A k \in Re!Keys : RgEntries(k, reg[k]) /\ (s.reg[k] # Re!Nothing => reg[k] # Re!Nothing)
  BY RgEntryKept DEF RgGood
<1>6. reg \in [Re!Keys -> [Re!Entry -> Nat]]
  BY <1>5 DEF RgEntries
<1>7. s.ge \in RgChains /\ "think" \in Re!Chains /\ "timer" \in Re!Chains /\ Re!Chains = {"think", "timer"}
  BY DEF RgGood, RgStates, RgChains, Re!Chains
<1> HIDE DEF reg, t, begins
<1>8. /\ g \in RgChains /\ HasRoom(g)
      /\ \A c \in Re!Chains \ {"think"} : g.id[c] = s.ge.id[c]
      /\ \A i \in Re!Ids : g.pending[i] # s.ge.pending[i] => g.id["think"] = i /\ s.ge.pending[i] = "none"
      /\ g.id["think"] # s.ge.id["think"] => s.ge.id["think"] = 0
      /\ begins("think") /\ s.ge.id["think"] = 0 => \E i \in Re!Ids : g.pending[i] = "think"
      /\ \A i \in Re!Ids : g.pending[i] # s.ge.pending[i] => s.ge.id["think"] = 0
  <2>1. s.ge.id["think"] # 0 => g = s.ge
    BY DEF Re!RegisterGlobal
  <2> HIDE DEF g
  <2> QED BY <1>2, <1>7, <2>1, RgBegin DEF g
<1> HIDE DEF g
<1>9. /\ h \in RgChains /\ HasRoom(h)
      /\ \A c \in Re!Chains \ {"timer"} : h.id[c] = g.id[c]
      /\ \A i \in Re!Ids : h.pending[i] # g.pending[i] => h.id["timer"] = i /\ g.pending[i] = "none"
      /\ h.id["timer"] # g.id["timer"] => g.id["timer"] = 0
      /\ begins("timer") /\ g.id["timer"] = 0 => \E i \in Re!Ids : h.pending[i] = "timer"
      /\ \A i \in Re!Ids : h.pending[i] # g.pending[i] => g.id["timer"] = 0
  <2>1. g.id["timer"] # 0 => h = g
    BY DEF Re!RegisterGlobal
  <2> HIDE DEF h
  <2>2. begins("timer") \in BOOLEAN
    BY <1>2
  <2>3. "timer" \in Re!Chains /\ g \in RgChains /\ HasRoom(g)
    BY <1>7, <1>8
  <2>4. h = Re!RegisterGlobal(g, "timer", begins("timer"))
    BY DEF h
  <2>5. /\ h \in RgChains /\ HasRoom(h)
        /\ \A c \in Re!Chains \ {"timer"} : h.id[c] = g.id[c]
        /\ \A i \in Re!Ids : h.pending[i] # g.pending[i] => h.id["timer"] = i /\ g.pending[i] = "none"
        /\ h.id["timer"] # g.id["timer"] => g.id["timer"] = 0
        /\ begins("timer") /\ g.id["timer"] = 0 => \E i \in Re!Ids : h.pending[i] = "timer"
    BY ONLY <2>2, <2>3, <2>4, RgBegin
  <2> QED BY <2>1, <2>5
<1> HIDE DEF h
<1>10. t = [reg |-> reg, list |-> s.list, spell |-> s.spell, ge |-> h]
  BY <1>1 DEF RgGood, RgStates
<1>11. RgGood(t)
  BY <1>5, <1>6, <1>9, <1>10 DEF RgGood, RgStates, RgChains
<1>12. RgKept(s, t)
  BY <1>5, <1>10, <1>11 DEF RgKept, Re!CreatureEvents, Re!Of1
<1>13. \A i \in Re!Ids : h.pending[i] # s.ge.pending[i] =>
          s.ge.pending[i] = "none" /\ \E c \in Re!Chains : h.id[c] = i /\ s.ge.id[c] = 0
  BY <1>7, <1>8, <1>9
<1>14. \A c \in Re!Chains : h.id[c] # s.ge.id[c] => s.ge.id[c] = 0
  BY <1>7, <1>8, <1>9
<1>15. \A c \in Re!Chains : s.ge.id[c] = 0 /\ begins(c) => \E i \in Re!Ids : h.pending[i] = c
  <2>1. s.ge.id["timer"] = 0 /\ begins("timer") => \E i \in Re!Ids : h.pending[i] = "timer"
    BY <1>7, <1>8, <1>9
  <2>2. ASSUME s.ge.id["think"] = 0, begins("think") PROVE \E i \in Re!Ids : h.pending[i] = "think"
    <3>1. PICK i \in Re!Ids : g.pending[i] = "think"
      BY <1>8, <2>2
    <3>2. h.pending[i] = "think"
      BY <1>9, <3>1
    <3> QED BY <3>2
  <2> QED BY <1>7, <2>1, <2>2
<1>16. ASSUME Spare(s.ge) PROVE Spare(h)
  <2>1. \A i \in Re!Ids : i # 0
    BY DEF Re!Ids
  <2>2. \A i \in Re!Ids : Freed(s.ge, i) => Freed(h, i)
    BY <1>13, <1>14, <2>1 DEF Freed
  <2> QED BY <1>16, <2>2 DEF Spare
<1> QED
  BY <1>4, <1>9, <1>10, <1>12, <1>13, <1>15, <1>16 DEF t, begins

\* GlobalEvents::clear
LEMMA RgClearGlobals ==
    ASSUME NEW s, RgGood(s), NEW o \in Origins
    PROVE  LET t == Re!ClearGlobals(s, o)
           IN  /\ RgKept(s, t) /\ t.spell = s.spell
               /\ \A c \in Re!Chains : t.ge.id[c] = 0
               /\ Spare(s.ge) => Spare(t.ge) /\ HasRoom(t.ge)
               /\ \A k \in Re!Keys :
                     t.reg[k] = IF KindOf[k] \in Re!Chains THEN Re!Without(s.reg[k], o) ELSE s.reg[k]
<1> DEFINE t == Re!ClearGlobals(s, o)
           id == [c \in Re!Chains |-> 0]
           stopped == [i \in Re!Ids |-> IF \E c \in Re!Chains : s.ge.id[c] = i THEN "none" ELSE s.ge.pending[i]]
           ge == [id |-> id, pending |-> stopped]
           u == [s EXCEPT !.ge = ge]
           v == Re!ClearMap(u, "think", o)
<1>1. t = Re!ClearMap(v, "timer", o)
  BY DEF Re!ClearGlobals
<1>2. id \in [Re!Chains -> Re!Ids \cup {0, Re!Stale}] /\ \A c \in Re!Chains : id[c] = 0
  OBVIOUS
<1>3. /\ stopped \in [Re!Ids -> {"none", "think", "timer"}]
      /\ \A i \in Re!Ids : Freed(s.ge, i) => stopped[i] = "none"
  BY DEF RgGood, RgStates, Freed
<1> HIDE DEF t, id, stopped
<1>4. ge.id = id /\ ge.pending = stopped /\
      ge \in [id : [Re!Chains -> Re!Ids \cup {0, Re!Stale}], pending : [Re!Ids -> {"none", "think", "timer"}]]
  BY <1>2, <1>3
<1> HIDE DEF ge
<1>5. u = [reg |-> s.reg, list |-> s.list, spell |-> s.spell, ge |-> ge]
  BY RgRecord DEF RgGood
<1> HIDE DEF u
<1>6. RgGood(u)
  BY <1>4, <1>5 DEF RgGood, RgStates
<1>7. /\ RgKept(u, v) /\ v.spell = s.spell /\ v.ge = ge
      /\ \A k \in Re!Keys : v.reg[k] = IF KindOf[k] = "think" THEN Re!Without(s.reg[k], o) ELSE s.reg[k]
  BY <1>5, <1>6, RgClearMap
<1> HIDE DEF v
<1>8. /\ RgKept(v, t) /\ t.spell = s.spell /\ t.ge = ge
      /\ \A k \in Re!Keys : t.reg[k] = IF KindOf[k] = "timer" THEN Re!Without(v.reg[k], o) ELSE v.reg[k]
  BY <1>1, <1>7, RgClearMap DEF RgKept
<1>9. RgKept(s, t)
  BY <1>5, <1>7, <1>8 DEF RgKept
<1>10. ASSUME Spare(s.ge) PROVE Spare(t.ge) /\ HasRoom(t.ge)
  <2>1. PICK i \in Re!Ids, j \in Re!Ids : i # j /\ Freed(s.ge, i) /\ Freed(s.ge, j)
    BY <1>10 DEF Spare
  <2>2. t.ge.pending[i] = "none" /\ t.ge.pending[j] = "none"
    BY <1>3, <1>4, <1>8, <2>1
  <2> QED BY <2>1, <2>2 DEF Spare, HasRoom, Freed
<1>11. \A k \in Re!Keys : t.reg[k] = IF KindOf[k] \in Re!Chains THEN Re!Without(s.reg[k], o) ELSE s.reg[k]
  BY <1>7, <1>8 DEF Re!Chains
<1> QED
  BY <1>2, <1>4, <1>8, <1>9, <1>10, <1>11 DEF t

\* CreatureEvents::removeInvalidEvents: only an event without a script is erased,
\* and the creatures that have it lose it.
LEMMA RgRemove ==
    ASSUME NEW s, RgGood(s)
    PROVE  LET t == Re!RemoveInvalidEvents(s)
           IN  /\ RgGood(t) /\ t.spell = s.spell /\ t.ge = s.ge
               /\ \A k \in Re!Keys : t.reg[k] = IF KindOf[k] = "creature" /\ s.reg[k] = Re!One("cleared")
                                                THEN Re!Nothing ELSE s.reg[k]
               /\ \A c \in Watchers :
                     /\ \A k \in t.list[c].has : k \in s.list[c].has /\ t.reg[k] = s.reg[k]
                     /\ \A k \in t.list[c].lost : k \in s.list[c].lost \/ s.reg[k] = Re!One("cleared")
<1> DEFINE t == Re!RemoveInvalidEvents(s)
           invalid == {k \in Re!CreatureEvents : s.reg[k] = Re!One("cleared")}
           reg == [k \in Re!Keys |-> IF k \in invalid THEN Re!Nothing ELSE s.reg[k]]
           list == [c \in Watchers |-> [has |-> s.list[c].has \ invalid,
                                        lost |-> s.list[c].lost \cup (s.list[c].has \cap invalid)]]
<1>1. t = [s EXCEPT !.reg = reg, !.list = list]
  BY DEF Re!RemoveInvalidEvents
<1>2. \A k \in Re!Keys : k \in invalid <=> KindOf[k] = "creature" /\ s.reg[k] = Re!One("cleared")
  BY DEF Re!CreatureEvents, Re!Of1
<1>3. invalid \subseteq Re!CreatureEvents /\ \A k \in invalid : s.reg[k] = Re!One("cleared")
  OBVIOUS
<1>4. \A c \in Watchers : s.list[c] \in [has : SUBSET Re!CreatureEvents, lost : SUBSET Re!CreatureEvents]
  BY DEF RgGood, RgStates
<1>5. \A k \in Re!CreatureEvents : k \in Re!Keys
  BY DEF Re!CreatureEvents, Re!Of1
<1> HIDE DEF invalid
<1>6. \A k \in Re!Keys : RgEntries(k, Re!Nothing)
  BY RgOne DEF RgEntries, Origins, Re!Entry
<1>7. \A k \in Re!Keys : reg[k] = (IF k \in invalid THEN Re!Nothing ELSE s.reg[k]) /\ RgEntries(k, reg[k])
  BY <1>6 DEF RgGood
<1>8. reg \in [Re!Keys -> [Re!Entry -> Nat]]
  BY <1>7 DEF RgEntries
<1>9. list \in [Watchers -> [has : SUBSET Re!CreatureEvents, lost : SUBSET Re!CreatureEvents]]
  BY <1>3, <1>4
<1>10. \A c \in Watchers : /\ list[c].has = s.list[c].has \ invalid
                           /\ list[c].lost = s.list[c].lost \cup (s.list[c].has \cap invalid)
  OBVIOUS
<1> HIDE DEF reg, list, t
<1>11. t = [reg |-> reg, list |-> list, spell |-> s.spell, ge |-> s.ge]
  BY <1>1 DEF RgGood, RgStates
<1>12. RgGood(t)
  BY <1>7, <1>8, <1>9, <1>11 DEF RgGood, RgStates
<1>13. ASSUME NEW c \in Watchers
       PROVE  /\ \A k \in list[c].has : k \in s.list[c].has /\ reg[k] = s.reg[k]
              /\ \A k \in list[c].lost : k \in s.list[c].lost \/ s.reg[k] = Re!One("cleared")
  BY <1>3, <1>4, <1>5, <1>7, <1>10
<1> QED
  BY <1>2, <1>7, <1>11, <1>12, <1>13 DEF t

\* What reading the files of an origin makes of the entries of a key.
Read(k, e, o) == IF Re!Declared(k, o) THEN Re!Register(k, e, o) ELSE e
Default(k, e) == IF k \in HasDefault /\ e = Re!Nothing THEN Re!One("default") ELSE e

\* Home, by the kind of the key.
LEMMA RgHome ==
    ASSUME NEW k \in Re!Keys
    PROVE  /\ Home(k) \in [Re!Entry -> Nat] /\ Home(k) # Re!One("cleared")
           /\ KindOf[k] # "move" => \/ Home(k) = Re!Nothing /\ ~XmlOf(k) /\ ~LuaOf(k)
                                    \/ Home(k) = Re!One("xml") /\ XmlOf(k)
                                    \/ Home(k) = Re!One("lua") /\ LuaOf(k)
                                    \/ Home(k) = Re!One("default") /\ KindOf[k] = "weapon" /\ ~XmlOf(k) /\ ~LuaOf(k)
<1>1. {"xml", "lua", "cleared", "default"} = Re!Entry
  BY DEF Re!Entry
<1>2. CASE KindOf[k] = "move"
  <2>1. Home(k) \in [Re!Entry -> Nat] /\ Home(k)["cleared"] = 0
    BY <1>1, <1>2 DEF Home, Origins
  <2> QED BY <1>1, <1>2, <2>1, RgOne
<1>3. CASE KindOf[k] # "move"
  <2>1. Home(k) \in {Re!Nothing, Re!One("xml"), Re!One("lua"), Re!One("default")}
    BY <1>3 DEF Home
  <2> QED BY <1>1, <1>3, <2>1, RgOne DEF Home
<1> QED BY <1>2, <1>3

\* Of a movement.
LEMMA RgHomeMove ==
    ASSUME NEW k \in Re!Keys, KindOf[k] = "move"
    PROVE  /\ \A o \in Origins : Read(k, Re!Without(Home(k), o), o) = Home(k)
           /\ Read(k, Read(k, Re!Nothing, "xml"), "lua") = Home(k)
<1>1. /\ Home(k) = [e \in Re!Entry |-> IF e \in Origins /\ Re!Declared(k, e) THEN 1 ELSE 0]
      /\ Home(k) \in [Re!Entry -> Nat]
  BY RgHome DEF Home
<1>2. \A e \in [Re!Entry -> Nat], o \in Origins :
         Read(k, e, o) = IF Re!Declared(k, o) THEN [e EXCEPT ![o] = @ + 1] ELSE e
  BY DEF Read, XmlOf, LuaOf, Re!Register, Re!RegisterLuaMove, Re!RegisterMove, Re!AddEvent, Origins
<1>3. Origins \subseteq Re!Entry /\ "default" \notin Origins
  BY DEF Origins, Re!Entry
<1>4. ASSUME NEW o \in Origins PROVE Read(k, Re!Without(Home(k), o), o) = Home(k)
  <2> DEFINE w == Re!Without(Home(k), o)
  <2>1. w = [e \in Re!Entry |-> IF e = o \/ (e = "default" /\ o = "xml") THEN 0 ELSE Home(k)[e]]
    BY DEF Re!Without
  <2>2. w \in [Re!Entry -> Nat] /\ \A e \in Re!Entry : w[e] = IF e = o THEN 0 ELSE Home(k)[e]
    BY <1>1, <1>3, <2>1
  <2> HIDE DEF w
  <2>3. Read(k, w, o) \in [Re!Entry -> Nat]
    BY <1>2, <1>3, <2>2
  <2>4. \A e \in Re!Entry : Read(k, w, o)[e] = Home(k)[e]
    <3>1. CASE Re!Declared(k, o)
      <4>1. Read(k, w, o) = [w EXCEPT ![o] = @ + 1]
        BY <1>2, <2>2, <3>1
      <4>2. Home(k)[o] = 1
        BY <1>1, <1>3, <3>1
      <4> QED BY <1>3, <2>2, <4>1, <4>2
    <3>2. CASE ~Re!Declared(k, o)
      <4>1. Read(k, w, o) = w
        BY <1>2, <2>2, <3>2
      <4>2. Home(k)[o] = 0
        BY <1>1, <1>3, <3>2
      <4> QED BY <2>2, <4>1, <4>2
    <3> QED BY <3>1, <3>2
  <2> QED BY <1>1, <2>3, <2>4 DEF w
<1>5. Read(k, Read(k, Re!Nothing, "xml"), "lua") = Home(k)
  <2> DEFINE x == Read(k, Re!Nothing, "xml")
  <2>1. /\ x \in [Re!Entry -> Nat]
        /\ \A e \in Re!Entry : x[e] = IF e = "xml" /\ XmlOf(k) THEN 1 ELSE 0
    BY <1>2, <1>3, RgOne DEF Origins, XmlOf
  <2> HIDE DEF x
  <2>2. /\ Read(k, x, "lua") \in [Re!Entry -> Nat]
        /\ \A e \in Re!Entry : Read(k, x, "lua")[e] = IF e = "lua" /\ LuaOf(k) THEN x[e] + 1 ELSE x[e]
    BY <1>2, <1>3, <2>1 DEF Origins, LuaOf
  <2>3. \A e \in Re!Entry : Read(k, x, "lua")[e] = Home(k)[e]
    BY <1>1, <2>1, <2>2 DEF Origins, XmlOf, LuaOf
  <2> QED BY <1>1, <2>2, <2>3 DEF x
<1> QED BY <1>4, <1>5

\* reload: clear and loadFromXml give back the entries of a key that is not edited.
LEMMA RgXmlBack ==
    ASSUME NEW k \in Re!Keys
    PROVE  /\ KindOf[k] \notin {"creature", "weapon"} => Read(k, Re!Without(Home(k), "xml"), "xml") = Home(k)
           /\ KindOf[k] = "creature" =>
                 Read(k, IF Home(k) = Re!One("xml") THEN Re!One("cleared") ELSE Home(k), "xml") = Home(k)
           /\ KindOf[k] = "weapon" => /\ Default(k, Read(k, Re!Without(Home(k), "xml"), "xml")) = Home(k)
                                      /\ LuaOf(k) \/ XmlOf(k) => Read(k, Re!Without(Home(k), "xml"), "xml") = Home(k)
<1>0. "xml" \in Origins /\ "lua" \in Origins /\ {"xml", "lua", "cleared", "default"} = Re!Entry
  BY DEF Origins, Re!Entry
<1>1. CASE KindOf[k] = "move"
  BY <1>0, <1>1, RgHomeMove
<1>2. CASE KindOf[k] = "creature"
  <2>1. \A e : Read(k, e, "xml") = IF XmlOf(k) /\ e \in {Re!Nothing, Re!One("cleared")} THEN Re!One("xml") ELSE e
    BY <1>2 DEF Read, XmlOf, LuaOf, Re!Register, Re!RegisterEvent
  <2>2. Home(k) = IF XmlOf(k) THEN Re!One("xml") ELSE IF LuaOf(k) THEN Re!One("lua") ELSE Re!Nothing
    BY <1>2 DEF Home
  <2> QED BY <1>0, <1>2, <2>1, <2>2, RgOne
<1>3. CASE KindOf[k] = "weapon"
  <2>1. \A e : Read(k, e, "xml") = IF XmlOf(k) /\ e = Re!Nothing THEN Re!One("xml") ELSE e
    BY <1>3 DEF Read, XmlOf, LuaOf, Re!Register, Re!RegisterWeapon
  <2>2. Home(k) = IF LuaOf(k) THEN Re!One("lua") ELSE IF XmlOf(k) THEN Re!One("xml")
                  ELSE IF k \in HasDefault THEN Re!One("default") ELSE Re!Nothing
    BY <1>3 DEF Home
  <2>3. /\ Re!Without(Re!One("lua"), "xml") = Re!One("lua") /\ Re!Without(Re!One("xml"), "xml") = Re!Nothing
        /\ Re!Without(Re!One("default"), "xml") = Re!Nothing /\ Re!Without(Re!Nothing, "xml") = Re!Nothing
    BY <1>0, RgWithout
  <2> QED BY <1>0, <1>3, <2>1, <2>2, <2>3, RgOne DEF Default
<1>4. CASE KindOf[k] \notin {"move", "creature", "weapon"}
  <2>1. \A e : Read(k, e, "xml") = IF XmlOf(k) /\ e = Re!Nothing THEN Re!One("xml") ELSE e
    BY <1>4 DEF Read, XmlOf, LuaOf, Re!Register, Re!RegisterAction, Re!RegisterFirst
  <2>2. Home(k) = IF XmlOf(k) THEN Re!One("xml") ELSE IF LuaOf(k) THEN Re!One("lua") ELSE Re!Nothing
    BY <1>4 DEF Home
  <2>3. /\ Re!Without(Re!One("lua"), "xml") = Re!One("lua") /\ Re!Without(Re!One("xml"), "xml") = Re!Nothing
        /\ Re!Without(Re!Nothing, "xml") = Re!Nothing
    BY <1>0, RgWithout
  <2> QED BY <1>0, <1>4, <2>1, <2>2, <2>3, RgOne
<1> QED BY <1>1, <1>2, <1>3, <1>4

\* Scripts: clear and loadScripts do as well; and a weapon of a script takes its place.
LEMMA RgLuaBack ==
    ASSUME NEW k \in Re!Keys
    PROVE  /\ KindOf[k] \notin {"creature", "weapon"} => Read(k, Re!Without(Home(k), "lua"), "lua") = Home(k)
           /\ KindOf[k] = "creature" =>
                 Read(k, IF Home(k) = Re!One("lua") THEN Re!One("cleared") ELSE Home(k), "lua") = Home(k)
           /\ KindOf[k] = "weapon" =>
                 /\ LuaOf(k) => \A e : Read(k, e, "lua") = Home(k)
                 /\ ~LuaOf(k) => /\ Re!Without(Home(k), "lua") = Home(k) /\ Re!Without(Re!Nothing, "lua") = Re!Nothing
                                 /\ Default(k, Home(k)) = Home(k)
                                 /\ \A e : Read(k, e, "lua") = e
<1>0. "xml" \in Origins /\ "lua" \in Origins /\ {"xml", "lua", "cleared", "default"} = Re!Entry
  BY DEF Origins, Re!Entry
<1>1. CASE KindOf[k] = "move"
  BY <1>0, <1>1, RgHomeMove
<1>2. CASE KindOf[k] = "creature"
  <2>1. \A e : Read(k, e, "lua") = IF LuaOf(k) /\ e \in {Re!Nothing, Re!One("cleared")} THEN Re!One("lua") ELSE e
    BY <1>2 DEF Read, XmlOf, LuaOf, Re!Register, Re!RegisterEvent
  <2>2. Home(k) = IF XmlOf(k) THEN Re!One("xml") ELSE IF LuaOf(k) THEN Re!One("lua") ELSE Re!Nothing
    BY <1>2 DEF Home
  <2> QED BY <1>0, <1>2, <2>1, <2>2, RgOne
<1>3. CASE KindOf[k] = "weapon"
  <2>1. \A e : Read(k, e, "lua") = IF LuaOf(k) THEN Re!One("lua") ELSE e
    BY <1>3 DEF Read, XmlOf, LuaOf, Re!Register, Re!RegisterWeapon
  <2>2. Home(k) = IF LuaOf(k) THEN Re!One("lua") ELSE IF XmlOf(k) THEN Re!One("xml")
                  ELSE IF k \in HasDefault THEN Re!One("default") ELSE Re!Nothing
    BY <1>3 DEF Home
  <2>3. /\ Re!Without(Re!One("xml"), "lua") = Re!One("xml")
        /\ Re!Without(Re!One("default"), "lua") = Re!One("default") /\ Re!Without(Re!Nothing, "lua") = Re!Nothing
    BY <1>0, RgWithout
  <2> QED BY <1>0, <1>3, <2>1, <2>2, <2>3, RgOne DEF Default
<1>4. CASE KindOf[k] \notin {"move", "creature", "weapon"}
  <2>1. \A e : Read(k, e, "lua") = IF LuaOf(k) /\ e = Re!Nothing THEN Re!One("lua") ELSE e
    BY <1>4 DEF Read, XmlOf, LuaOf, Re!Register, Re!RegisterLuaAction, Re!RegisterFirst
  <2>2. Home(k) = IF XmlOf(k) THEN Re!One("xml") ELSE IF LuaOf(k) THEN Re!One("lua") ELSE Re!Nothing
    BY <1>4 DEF Home
  <2>3. /\ Re!Without(Re!One("xml"), "lua") = Re!One("xml") /\ Re!Without(Re!One("lua"), "lua") = Re!Nothing
        /\ Re!Without(Re!Nothing, "lua") = Re!Nothing
    BY <1>0, RgWithout
  <2> QED BY <1>0, <1>4, <2>1, <2>2, <2>3, RgOne
<1> QED BY <1>1, <1>2, <1>3, <1>4

\* The start: the XML files, the defaults, the scripts.
LEMMA RgStart ==
    ASSUME NEW k \in Re!Keys
    PROVE  Read(k, Default(k, Read(k, Re!Nothing, "xml")), "lua") = Home(k)
<1>0. {"xml", "lua", "cleared", "default"} = Re!Entry
  BY DEF Re!Entry
<1>1. KindOf[k] # "weapon" => k \notin HasDefault
  BY RegistriesAssumption
<1>2. CASE KindOf[k] = "move"
  BY <1>1, <1>2, RgHomeMove DEF Default
<1>3. CASE KindOf[k] # "move"
  BY <1>0, <1>1, <1>3, RgOne DEF Home, Read, XmlOf, LuaOf, Default, Re!Register, Re!RegisterEvent, Re!RegisterWeapon, Re!RegisterFirst,
     Re!RegisterAction, Re!RegisterLuaAction
<1> QED BY <1>2, <1>3

\* The files of bad are being edited.
Edited(bad) == \A k \in bad : ~Re!Solid(k)

\* A chain goes on for each kind of which each origin has an event of its own.
Twice(kind) == \A o \in Origins : \E k \in Re!Of1(kind) : Re!Own(k, o)
Going(s) == \A kind \in Re!Chains : Twice(kind) => \E i \in Re!Ids : s.ge.pending[i] = kind

\* Keys that are not edited are as at the start, spells that are lost are of scripts, and
\* creatures have events that there are.
Settled(s) == \A k \in Re!Keys : Re!Solid(k) => s.reg[k] = Home(k)
LostLua(s) == \A m \in DOMAIN Learners : \A k \in s.spell[m].lost : LuaOf(k)
ListLive(s) == \A c \in Watchers : /\ \A k \in s.list[c].has : s.reg[k] # Re!Nothing
                                   /\ \A k \in s.list[c].lost : ~Re!Solid(k)

RgFine(s) == RgGood(s) /\ Settled(s) /\ Going(s) /\ LostLua(s) /\ ListLive(s)

\* In the middle of a reload.
RgMid(s) == RgGood(s) /\ HasRoom(s.ge) /\ Spare(s.ge) /\ LostLua(s) /\ ListLive(s)

\* Erasing no event leaves the lists of the creatures right.
LEMMA RgKeptLive ==
    ASSUME NEW s, NEW t, RgGood(s), RgKept(s, t), ListLive(s)
    PROVE  ListLive(t)
<1>1. \A c \in Watchers : \A k \in s.list[c].has : k \in Re!CreatureEvents
  BY DEF RgGood, RgStates
<1> QED BY <1>1 DEF RgKept, ListLive

\* The steps that clear.
LEMMA RgClears ==
    ASSUME NEW s, RgMid(s), NEW o \in Origins
    PROVE  /\ \A kind : kind # "creature" => RgMid(Re!ClearMap(s, kind, o))
           /\ RgMid(Re!ClearEvents(s, o))
           /\ RgMid(Re!ClearGlobals(s, o))
           /\ RgMid(Re!LoadDefaults(s))
           /\ RgMid(Re!ClearSpells(s, "lua"))
           /\ RgMid(Re!ReloadMonsters(s))
<1>1. RgGood(s) /\ ListLive(s) /\ HasRoom(s.ge) /\ Spare(s.ge) /\ LostLua(s) /\ "lua" \in Origins
  BY DEF RgMid, Origins
<1>2. ASSUME NEW kind, kind # "creature" PROVE RgMid(Re!ClearMap(s, kind, o))
  <2>1. RgKept(s, Re!ClearMap(s, kind, o)) /\ Re!ClearMap(s, kind, o).spell = s.spell /\ Re!ClearMap(s, kind, o).ge = s.ge
    BY <1>1, <1>2, RgClearMap
  <2> QED BY <1>1, <2>1, RgKeptLive DEF RgMid, RgKept, LostLua
<1>3. RgMid(Re!ClearEvents(s, o))
  <2>1. RgKept(s, Re!ClearEvents(s, o)) /\ Re!ClearEvents(s, o).spell = s.spell /\ Re!ClearEvents(s, o).ge = s.ge
    BY <1>1, RgClearEvents
  <2> QED BY <1>1, <2>1, RgKeptLive DEF RgMid, RgKept, LostLua
<1>4. RgMid(Re!ClearGlobals(s, o))
  <2>1. /\ RgKept(s, Re!ClearGlobals(s, o)) /\ Re!ClearGlobals(s, o).spell = s.spell
        /\ Spare(Re!ClearGlobals(s, o).ge) /\ HasRoom(Re!ClearGlobals(s, o).ge)
    BY <1>1, RgClearGlobals
  <2> QED BY <1>1, <2>1, RgKeptLive DEF RgMid, RgKept, LostLua
<1>5. RgMid(Re!LoadDefaults(s))
  <2>1. RgKept(s, Re!LoadDefaults(s)) /\ Re!LoadDefaults(s).spell = s.spell /\ Re!LoadDefaults(s).ge = s.ge
    BY <1>1, RgDefaults
  <2> QED BY <1>1, <2>1, RgKeptLive DEF RgMid, RgKept, LostLua
<1>6. RgMid(Re!ClearSpells(s, "lua"))
  <2>1. /\ RgKept(s, Re!ClearSpells(s, "lua")) /\ Re!ClearSpells(s, "lua").ge = s.ge
        /\ \A m \in DOMAIN Learners : \A k \in Re!ClearSpells(s, "lua").spell[m].lost : k \in s.spell[m].lost \/ LuaOf(k)
    BY <1>1, RgClearSpells DEF LuaOf
  <2> QED BY <1>1, <2>1, RgKeptLive DEF RgMid, RgKept, LostLua
<1>7. RgMid(Re!ReloadMonsters(s))
  <2>1. /\ RgKept(s, Re!ReloadMonsters(s)) /\ Re!ReloadMonsters(s).ge = s.ge
        /\ \A m \in DOMAIN Learners : Re!ReloadMonsters(s).spell[m].lost = {}
    BY <1>1, RgMonsters
  <2> QED BY <1>1, <2>1, RgKeptLive DEF RgMid, RgKept, LostLua
<1> QED BY <1>2, <1>3, <1>4, <1>5, <1>6, <1>7

\* What loading makes of a key whose files load.
LEMMA RgRead ==
    ASSUME NEW s, RgGood(s), HasRoom(s.ge), NEW kinds, NEW o \in Origins, NEW bad
    PROVE  \A k \in Re!Keys : k \notin bad =>
              Re!Load(s, kinds, o, bad).reg[k] = IF KindOf[k] \in kinds THEN Read(k, s.reg[k], o) ELSE s.reg[k]
<1> DEFINE t == Re!Load(s, kinds, o, bad)
           keys == {k \in Re!Keys : KindOf[k] \in kinds /\ Re!Declared(k, o) /\ k \notin bad}
<1>1. \A k \in Re!Keys : t.reg[k] = IF k \in keys THEN Re!Register(k, s.reg[k], o) ELSE s.reg[k]
  BY RgLoad
<1>2. \A k \in Re!Keys : k \in keys <=> KindOf[k] \in kinds /\ Re!Declared(k, o) /\ k \notin bad
  OBVIOUS
<1> HIDE DEF t, keys
<1> QED BY <1>1, <1>2 DEF Read, t

\* The chains go on, or begin again where there is an event that was not there.
LEMMA RgLoads ==
    ASSUME NEW s, RgGood(s), HasRoom(s.ge), Spare(s.ge), NEW kinds, NEW o \in Origins, NEW bad, Edited(bad)
    PROVE  LET t == Re!Load(s, kinds, o, bad)
           IN  /\ RgKept(s, t) /\ HasRoom(t.ge) /\ Spare(t.ge) /\ t.spell = s.spell
               /\ RgMid(s) => RgMid(t)
               /\ \A k \in Re!Keys : Re!Solid(k) =>
                     t.reg[k] = IF KindOf[k] \in kinds THEN Read(k, s.reg[k], o) ELSE s.reg[k]
               /\ Going(s) => Going(t)
               /\ (\A c \in Re!Chains : s.ge.id[c] = 0) /\ (\A k \in Re!Keys :
                     KindOf[k] \in Re!Chains /\ Re!Own(k, o) => KindOf[k] \in kinds /\ s.reg[k] = Re!Nothing)
                  => Going(t)
<1> DEFINE t == Re!Load(s, kinds, o, bad)
           keys == {k \in Re!Keys : KindOf[k] \in kinds /\ Re!Declared(k, o) /\ k \notin bad}
<1>1. /\ RgKept(s, t) /\ t.spell = s.spell /\ HasRoom(t.ge)
      /\ \A k \in Re!Keys : t.reg[k] = IF k \in keys THEN Re!Register(k, s.reg[k], o) ELSE s.reg[k]
      /\ Spare(s.ge) => Spare(t.ge)
      /\ \A i \in Re!Ids : s.ge.pending[i] # "none" => t.ge.pending[i] = s.ge.pending[i]
      /\ \A c \in Re!Chains :
            s.ge.id[c] = 0 /\ (\E k \in keys : KindOf[k] = c /\ s.reg[k] = Re!Nothing)
            => \E i \in Re!Ids : t.ge.pending[i] = c
  BY RgLoad
<1>2. \A k \in Re!Keys : Re!Solid(k) => k \notin bad
  BY DEF Edited
<1>3. \A k \in Re!Keys : k \in keys <=> KindOf[k] \in kinds /\ Re!Declared(k, o) /\ k \notin bad
  OBVIOUS
<1> HIDE DEF t, keys
<1>4. RgMid(s) => RgMid(t)
  BY <1>1, RgKeptLive DEF RgMid, RgKept, LostLua
<1>5. \A k \in Re!Keys : Re!Solid(k) => t.reg[k] = IF KindOf[k] \in kinds THEN Read(k, s.reg[k], o) ELSE s.reg[k]
  BY <1>1, <1>2, <1>3 DEF Read
<1>6. "think" # "none" /\ "timer" # "none" /\ Re!Chains = {"think", "timer"}
  BY DEF Re!Chains
<1>7. Going(s) => Going(t)
  BY <1>1, <1>6 DEF Going
<1>8. ASSUME \A c \in Re!Chains : s.ge.id[c] = 0,
             \A k \in Re!Keys :
                KindOf[k] \in Re!Chains /\ Re!Own(k, o) => KindOf[k] \in kinds /\ s.reg[k] = Re!Nothing,
             NEW kind \in Re!Chains, Twice(kind)
      PROVE  \E i \in Re!Ids : t.ge.pending[i] = kind
  <2>1. PICK k \in Re!Of1(kind) : Re!Own(k, o)
    BY <1>8 DEF Twice
  <2>2. k \in Re!Keys /\ KindOf[k] = kind /\ Re!Solid(k) /\ Re!Declared(k, o)
    BY <2>1 DEF Re!Of1, Re!Own, Origins
  <2>3. k \in keys /\ s.reg[k] = Re!Nothing
    BY <1>2, <1>3, <1>8, <2>1, <2>2
  <2> QED BY <1>1, <1>8, <2>2, <2>3
<1> QED
  BY <1>1, <1>4, <1>5, <1>7, <1>8 DEF t, Going
RgWhole(s) == RgMid(s) /\ Going(s) /\ Settled(s)

\* Weapons of scripts may be out of place, the scripts put them back.
Primed(s) == \A k \in Re!Keys : Re!Solid(k) /\ ~(KindOf[k] = "weapon" /\ LuaOf(k)) => s.reg[k] = Home(k)

\* What RegistriesAssumption says of one handler.
LEMMA RgKinds ==
    /\ "xml" \in Origins /\ "lua" \in Origins
    /\ \A k \in Re!Keys : /\ KindOf[k] \in Re!Kinds
                          /\ KindOf[k] \in {"action", "talk", "move", "weapon", "creature", "spell", "think", "timer"}
                          /\ KindOf[k] # "weapon" => k \notin HasDefault
BY RegistriesAssumption DEF Re!Kinds, Re!Keys, Origins

\* BaseEvents::reload of actions, talkactions, movements and weapons
LEMMA RgReloadMap ==
    ASSUME NEW s, RgWhole(s), NEW kind \in {"action", "talk", "move", "weapon"}, NEW bad, Edited(bad)
    PROVE  LET t == Re!ReloadMap(s, kind, bad)
           IN  /\ RgMid(t) /\ Going(t)
               /\ kind # "weapon" => RgWhole(t)
               /\ \A k \in Re!Keys : Re!Solid(k) =>
                     /\ KindOf[k] # "weapon" \/ LuaOf(k) \/ XmlOf(k) => t.reg[k] = Home(k)
                     /\ Default(k, t.reg[k]) = Home(k)
<1> DEFINE u == Re!ClearMap(s, kind, "xml")
           t == Re!ReloadMap(s, kind, bad)
<1>1. RgGood(s) /\ kind # "creature"
  BY DEF RgWhole, RgMid
<1>2. /\ RgMid(u) /\ u.ge = s.ge
      /\ \A k \in Re!Keys : u.reg[k] = IF KindOf[k] = kind THEN Re!Without(s.reg[k], "xml") ELSE s.reg[k]
  BY <1>1, RgKinds, RgClears, RgClearMap DEF RgWhole
<1>3. t = Re!Load(u, {kind}, "xml", bad)
  BY DEF Re!ReloadMap
<1> HIDE DEF u, t
<1>4. Going(u)
  BY <1>2 DEF RgWhole, Going
<1>5. /\ RgMid(t) /\ Going(t)
      /\ \A k \in Re!Keys : Re!Solid(k) =>
            t.reg[k] = IF KindOf[k] \in {kind} THEN Read(k, u.reg[k], "xml") ELSE u.reg[k]
  <2>1. RgGood(u) /\ HasRoom(u.ge) /\ Spare(u.ge)
    BY <1>2 DEF RgMid
  <2>2. "xml" \in Origins
    BY RgKinds
  <2>3. RgMid(t) /\ Going(t)
    BY <1>2, <1>3, <1>4, <2>1, <2>2, RgLoads
  <2>4. \A k \in Re!Keys : Re!Solid(k) =>
           t.reg[k] = IF KindOf[k] \in {kind} THEN Read(k, u.reg[k], "xml") ELSE u.reg[k]
    BY <1>3, <2>1, <2>2, RgRead DEF Edited
  <2> QED BY <2>3, <2>4
<1>6. ASSUME NEW k \in Re!Keys, Re!Solid(k)
      PROVE  /\ KindOf[k] # "weapon" \/ LuaOf(k) \/ XmlOf(k) => t.reg[k] = Home(k)
             /\ Default(k, t.reg[k]) = Home(k)
  <2>1. s.reg[k] = Home(k)
    BY <1>6 DEF RgWhole, Settled
  <2>2. Home(k) = Re!Nothing => k \notin HasDefault
    BY RgOne, RgKinds DEF Home, Re!Entry
  <2>3. Default(k, Home(k)) = Home(k)
    BY <2>2 DEF Default
  <2>4. CASE KindOf[k] # kind
    BY <1>2, <1>5, <1>6, <2>1, <2>3, <2>4
  <2>5. CASE KindOf[k] = kind
    <3>1. t.reg[k] = Read(k, Re!Without(Home(k), "xml"), "xml")
      BY <1>2, <1>5, <1>6, <2>1, <2>5
    <3> QED BY <1>1, <2>3, <2>5, <3>1, RgXmlBack
  <2> QED BY <2>4, <2>5
<1>7. kind # "weapon" => Settled(t)
  <2>1. ASSUME kind # "weapon", NEW k \in Re!Keys, Re!Solid(k), KindOf[k] = "weapon" PROVE t.reg[k] = Home(k)
    BY <1>2, <1>5, <2>1 DEF RgWhole, Settled
  <2> QED BY <1>6, <2>1 DEF Settled
<1> QED
  BY <1>5, <1>6, <1>7 DEF t, RgWhole

\* of weapons, with the defaults
LEMMA RgReloadWeapons ==
    ASSUME NEW s, RgWhole(s), NEW bad, Edited(bad)
    PROVE  RgWhole(Re!ReloadWeapons(s, bad))
<1> DEFINE u == Re!ReloadMap(s, "weapon", bad)
           t == Re!LoadDefaults(u)
<1>1. /\ RgMid(u) /\ Going(u)
      /\ \A k \in Re!Keys : Re!Solid(k) => Default(k, u.reg[k]) = Home(k)
  BY RgReloadMap
<1>2. Re!ReloadWeapons(s, bad) = t
  BY DEF Re!ReloadWeapons
<1> HIDE DEF u
<1>3. RgMid(t) /\ t.ge = u.ge
  BY <1>1, RgKinds, RgClears, RgDefaults DEF RgMid
<1>4. \A k \in Re!Keys : t.reg[k] = Default(k, u.reg[k])
  BY <1>1, RgDefaults DEF RgMid, Default
<1> HIDE DEF t
<1> QED
  BY <1>1, <1>2, <1>3, <1>4 DEF RgWhole, Going, Settled

\* of the events of creatures
LEMMA RgReloadEvents ==
    ASSUME NEW s, RgWhole(s), NEW bad, Edited(bad)
    PROVE  RgWhole(Re!ReloadEvents(s, bad))
<1> DEFINE u == Re!ClearEvents(s, "xml")
           t == Re!ReloadEvents(s, bad)
<1>1. RgGood(s)
  BY DEF RgWhole, RgMid
<1>2. /\ RgMid(u) /\ u.ge = s.ge
      /\ \A k \in Re!Keys : u.reg[k] = IF KindOf[k] = "creature" /\ s.reg[k] = Re!One("xml") THEN Re!One("cleared")
                                       ELSE s.reg[k]
  BY <1>1, RgKinds, RgClears, RgClearEvents DEF RgWhole
<1>3. t = Re!Load(u, {"creature"}, "xml", bad)
  BY DEF Re!ReloadEvents
<1> HIDE DEF u, t
<1>4. Going(u)
  BY <1>2 DEF RgWhole, Going
<1>5. /\ RgMid(t) /\ Going(t)
      /\ \A k \in Re!Keys : Re!Solid(k) =>
            t.reg[k] = IF KindOf[k] \in {"creature"} THEN Read(k, u.reg[k], "xml") ELSE u.reg[k]
  <2>1. RgGood(u) /\ HasRoom(u.ge) /\ Spare(u.ge)
    BY <1>2 DEF RgMid
  <2>2. "xml" \in Origins
    BY RgKinds
  <2>3. RgMid(t) /\ Going(t)
    BY <1>2, <1>3, <1>4, <2>1, <2>2, RgLoads
  <2>4. \A k \in Re!Keys : Re!Solid(k) =>
           t.reg[k] = IF KindOf[k] \in {"creature"} THEN Read(k, u.reg[k], "xml") ELSE u.reg[k]
    BY <1>3, <2>1, <2>2, RgRead DEF Edited
  <2> QED BY <2>3, <2>4
<1>6. ASSUME NEW k \in Re!Keys, Re!Solid(k) PROVE t.reg[k] = Home(k)
  <2>1. s.reg[k] = Home(k)
    BY <1>6 DEF RgWhole, Settled
  <2> QED BY <1>2, <1>5, <1>6, <2>1, RgXmlBack
<1> QED
  BY <1>5, <1>6 DEF t, RgWhole, Settled

\* of the global events: their chains begin again.
LEMMA RgReloadGlobals ==
    ASSUME NEW s, RgMid(s), Primed(s), NEW bad, Edited(bad)
    PROVE  LET t == Re!ReloadGlobals(s, bad)
           IN  RgMid(t) /\ Going(t) /\ Primed(t) /\ (Settled(s) => Settled(t))
<1> DEFINE u == Re!ClearGlobals(s, "xml")
           t == Re!ReloadGlobals(s, bad)
<1>1. RgGood(s) /\ Re!Chains = {"think", "timer"}
  BY DEF RgMid, Re!Chains
<1>2. /\ RgMid(u) /\ \A c \in Re!Chains : u.ge.id[c] = 0
      /\ \A k \in Re!Keys : u.reg[k] = IF KindOf[k] \in Re!Chains THEN Re!Without(s.reg[k], "xml") ELSE s.reg[k]
  BY <1>1, RgKinds, RgClears, RgClearGlobals
<1>3. t = Re!Load(u, Re!Chains, "xml", bad)
  BY DEF Re!ReloadGlobals
<1> HIDE DEF u, t
<1>4. \A k \in Re!Keys : KindOf[k] \in Re!Chains /\ Re!Own(k, "xml") =>
         KindOf[k] \in Re!Chains /\ u.reg[k] = Re!Nothing
  <2>1. ASSUME NEW k \in Re!Keys, KindOf[k] \in Re!Chains, Re!Own(k, "xml") PROVE u.reg[k] = Re!Nothing
    <3>1. Re!Solid(k) /\ XmlOf(k)
      BY <2>1 DEF Re!Own, XmlOf
    <3>2. s.reg[k] = Re!One("xml")
      BY <1>1, <2>1, <3>1 DEF Primed, Home
    <3> QED BY <1>2, <2>1, <3>2, RgWithout DEF Origins, Re!Entry
  <2> QED BY <2>1
<1>5. /\ RgMid(t) /\ Going(t)
      /\ \A k \in Re!Keys : Re!Solid(k) =>
            t.reg[k] = IF KindOf[k] \in Re!Chains THEN Read(k, u.reg[k], "xml") ELSE u.reg[k]
  <2>1. RgGood(u) /\ HasRoom(u.ge) /\ Spare(u.ge)
    BY <1>2 DEF RgMid
  <2>2. "xml" \in Origins
    BY RgKinds
  <2>3. RgMid(t)
    BY <1>2, <1>3, <2>1, <2>2, RgLoads
  <2>4. Going(t)
    BY <1>2, <1>3, <1>4, <2>1, <2>2, RgLoads
  <2>5. \A k \in Re!Keys : Re!Solid(k) =>
           t.reg[k] = IF KindOf[k] \in Re!Chains THEN Read(k, u.reg[k], "xml") ELSE u.reg[k]
    BY <1>3, <2>1, <2>2, RgRead DEF Edited
  <2> QED BY <2>3, <2>4, <2>5
<1>6. ASSUME NEW k \in Re!Keys, Re!Solid(k), s.reg[k] = Home(k) PROVE t.reg[k] = Home(k)
  BY <1>1, <1>2, <1>5, <1>6, RgXmlBack
<1> QED
  BY <1>5, <1>6 DEF t, Primed, Settled

\* of spells, and with them the monsters.
LEMMA RgReloadSpells ==
    ASSUME NEW s, RgWhole(s), NEW bad, Edited(bad)
    PROVE  RgWhole(Re!ReloadSpells(s, bad))
<1> DEFINE u == Re!ClearSpells(s, "xml")
           v == Re!Load(u, {"spell"}, "xml", bad)
           t == Re!ReloadSpells(s, bad)
<1>1. RgGood(s) /\ ListLive(s) /\ HasRoom(s.ge) /\ Spare(s.ge)
  BY DEF RgWhole, RgMid
<1>2. /\ RgKept(s, u) /\ u.ge = s.ge
      /\ \A k \in Re!Keys : u.reg[k] = IF KindOf[k] = "spell" THEN Re!Without(s.reg[k], "xml") ELSE s.reg[k]
  BY <1>1, RgKinds, RgClearSpells
<1>3. t = Re!ReloadMonsters(v)
  BY DEF Re!ReloadSpells
<1> HIDE DEF u, t
<1>4. Going(u) /\ RgGood(u) /\ ListLive(u)
  BY <1>1, <1>2, RgKeptLive DEF RgWhole, Going, RgKept
<1>5. /\ RgKept(u, v) /\ HasRoom(v.ge) /\ Spare(v.ge) /\ Going(v)
      /\ \A k \in Re!Keys : Re!Solid(k) =>
            v.reg[k] = IF KindOf[k] \in {"spell"} THEN Read(k, u.reg[k], "xml") ELSE u.reg[k]
  <2>1. "xml" \in Origins /\ HasRoom(u.ge) /\ Spare(u.ge)
    BY <1>1, <1>2, RgKinds
  <2>2. RgKept(u, v) /\ HasRoom(v.ge) /\ Spare(v.ge) /\ Going(v)
    BY <1>4, <2>1, RgLoads
  <2>3. \A k \in Re!Keys : Re!Solid(k) =>
           v.reg[k] = IF KindOf[k] \in {"spell"} THEN Read(k, u.reg[k], "xml") ELSE u.reg[k]
    BY <1>4, <2>1, RgRead DEF Edited
  <2> QED BY <2>2, <2>3
<1> HIDE DEF v
<1>6. RgGood(v) /\ ListLive(v)
  BY <1>4, <1>5, RgKeptLive DEF RgKept
<1>7. /\ RgKept(v, t) /\ t.reg = v.reg /\ t.ge = v.ge
      /\ \A m \in DOMAIN Learners : t.spell[m].lost = {}
  BY <1>3, <1>6, RgMonsters
<1>8. RgMid(t) /\ Going(t)
  BY <1>5, <1>6, <1>7, RgKeptLive DEF RgMid, LostLua, Going, RgKept
<1>9. ASSUME NEW k \in Re!Keys, Re!Solid(k) PROVE t.reg[k] = Home(k)
  <2>1. s.reg[k] = Home(k)
    BY <1>9 DEF RgWhole, Settled
  <2> QED BY <1>2, <1>5, <1>7, <1>9, <2>1, RgXmlBack
<1> QED
  BY <1>8, <1>9 DEF t, RgWhole, Settled

\* CreatureEvents::removeInvalidEvents, at the end of a reload
LEMMA RgRemoveFine ==
    ASSUME NEW s, RgWhole(s)
    PROVE  RgFine(Re!RemoveInvalidEvents(s))
<1> DEFINE t == Re!RemoveInvalidEvents(s)
<1>1. RgGood(s) /\ Going(s) /\ Settled(s) /\ LostLua(s) /\ ListLive(s)
  BY DEF RgWhole, RgMid
<1>2. /\ RgGood(t) /\ t.spell = s.spell /\ t.ge = s.ge
      /\ \A k \in Re!Keys : t.reg[k] = IF KindOf[k] = "creature" /\ s.reg[k] = Re!One("cleared")
                                       THEN Re!Nothing ELSE s.reg[k]
      /\ \A c \in Watchers :
            /\ \A k \in t.list[c].has : k \in s.list[c].has /\ t.reg[k] = s.reg[k]
            /\ \A k \in t.list[c].lost : k \in s.list[c].lost \/ s.reg[k] = Re!One("cleared")
  BY <1>1, RgRemove
<1> HIDE DEF t
<1>3. \A k \in Re!Keys : Re!Solid(k) => s.reg[k] = Home(k) /\ s.reg[k] # Re!One("cleared")
  BY <1>1, RgHome DEF Settled
<1>4. Settled(t)
  BY <1>2, <1>3 DEF Settled
<1>5. ListLive(t)
  <2>1. \A c \in Watchers : \A k \in t.list[c].lost : k \in Re!Keys
    BY <1>2 DEF RgGood, RgStates, Re!CreatureEvents, Re!Of1
  <2> QED BY <1>1, <1>2, <1>3, <2>1 DEF ListLive
<1> QED
  BY <1>1, <1>2, <1>4, <1>5 DEF t, RgFine, Going, LostLua

\* The weapons of scripts are cleared, and the defaults take their place.
LEMMA RgWeapons ==
    ASSUME NEW s, RgMid(s),
           \A k \in Re!Keys : Re!Solid(k) => /\ KindOf[k] # "weapon" \/ LuaOf(k) \/ XmlOf(k) => s.reg[k] = Home(k)
                                             /\ Default(k, s.reg[k]) = Home(k)
    PROVE  LET t == Re!LoadDefaults(Re!ClearMap(s, "weapon", "lua"))
           IN  /\ RgMid(t) /\ Primed(t)
               /\ \A k \in Re!Keys : KindOf[k] # "weapon" => t.reg[k] = s.reg[k]
<1> DEFINE u == Re!ClearMap(s, "weapon", "lua")
           t == Re!LoadDefaults(u)
<1>1. RgGood(s)
  BY DEF RgMid
<1>2. /\ RgMid(u)
      /\ \A k \in Re!Keys : u.reg[k] = IF KindOf[k] = "weapon" THEN Re!Without(s.reg[k], "lua") ELSE s.reg[k]
  BY <1>1, RgKinds, RgClears, RgClearMap
<1> HIDE DEF u
<1>3. RgMid(t) /\ \A k \in Re!Keys : t.reg[k] = Default(k, u.reg[k])
  BY <1>2, RgKinds, RgClears, RgDefaults DEF RgMid, Default
<1> HIDE DEF t
<1>4. \A k \in Re!Keys : KindOf[k] # "weapon" => t.reg[k] = s.reg[k]
  BY <1>2, <1>3, RgKinds DEF Default
<1>5. ASSUME NEW k \in Re!Keys, Re!Solid(k), KindOf[k] = "weapon", ~LuaOf(k) PROVE t.reg[k] = Home(k)
  <2>1. s.reg[k] = Home(k) \/ s.reg[k] = Re!Nothing
    <3>1. CASE XmlOf(k)
      BY <1>5, <3>1
    <3>2. CASE ~XmlOf(k)
      BY <1>5, <3>2 DEF Default
    <3> QED BY <3>1, <3>2
  <2>2. Re!Without(s.reg[k], "lua") = s.reg[k]
    BY <1>5, <2>1, RgLuaBack
  <2> QED BY <1>2, <1>3, <1>5, <2>2
<1> QED
  BY <1>3, <1>4, <1>5 DEF t, u, Primed

\* Scripts: clear of every registry but spells and weapons
LEMMA RgClearLua ==
    ASSUME NEW s, RgMid(s)
    PROVE  LET t == Re!ClearLua(s)
           IN  /\ RgMid(t) /\ \A c \in Re!Chains : t.ge.id[c] = 0
               /\ \A k \in Re!Keys :
                     t.reg[k] = IF KindOf[k] = "creature"
                                THEN IF s.reg[k] = Re!One("lua") THEN Re!One("cleared") ELSE s.reg[k]
                                ELSE IF KindOf[k] \in {"action", "move", "talk", "think", "timer"}
                                THEN Re!Without(s.reg[k], "lua") ELSE s.reg[k]
<1> DEFINE a == Re!ClearEvents(s, "lua")
           b == Re!ClearMap(a, "action", "lua")
           c == Re!ClearMap(b, "move", "lua")
           d == Re!ClearMap(c, "talk", "lua")
           t == Re!ClearLua(s)
<1>1. t = Re!ClearGlobals(d, "lua")
  BY DEF Re!ClearLua
<1>2. /\ RgMid(a)
      /\ \A k \in Re!Keys : a.reg[k] = IF KindOf[k] = "creature" /\ s.reg[k] = Re!One("lua") THEN Re!One("cleared")
                                       ELSE s.reg[k]
  BY RgKinds, RgClears, RgClearEvents DEF RgMid
<1> HIDE DEF a
<1>3. /\ RgMid(b)
      /\ \A k \in Re!Keys : b.reg[k] = IF KindOf[k] = "action" THEN Re!Without(a.reg[k], "lua") ELSE a.reg[k]
  BY <1>2, RgKinds, RgClears, RgClearMap DEF RgMid
<1> HIDE DEF b
<1>4. /\ RgMid(c)
      /\ \A k \in Re!Keys : c.reg[k] = IF KindOf[k] = "move" THEN Re!Without(b.reg[k], "lua") ELSE b.reg[k]
  BY <1>3, RgKinds, RgClears, RgClearMap DEF RgMid
<1> HIDE DEF c
<1>5. /\ RgMid(d)
      /\ \A k \in Re!Keys : d.reg[k] = IF KindOf[k] = "talk" THEN Re!Without(c.reg[k], "lua") ELSE c.reg[k]
  BY <1>4, RgKinds, RgClears, RgClearMap DEF RgMid
<1> HIDE DEF d, t
<1>6. RgMid(t)
  BY <1>1, <1>5, RgKinds, RgClears
<1>7. /\ \A e \in Re!Chains : t.ge.id[e] = 0
      /\ \A k \in Re!Keys : t.reg[k] = IF KindOf[k] \in Re!Chains THEN Re!Without(d.reg[k], "lua") ELSE d.reg[k]
  <2>1. RgGood(d)
    BY <1>5 DEF RgMid
  <2> QED BY <1>1, <2>1, RgKinds, RgClearGlobals
<1>8. ASSUME NEW k \in Re!Keys
      PROVE  t.reg[k] = IF KindOf[k] = "creature"
                        THEN IF s.reg[k] = Re!One("lua") THEN Re!One("cleared") ELSE s.reg[k]
                        ELSE IF KindOf[k] \in {"action", "move", "talk", "think", "timer"}
                        THEN Re!Without(s.reg[k], "lua") ELSE s.reg[k]
  BY <1>2, <1>3, <1>4, <1>5, <1>7 DEF Re!Chains
<1> QED
  BY <1>6, <1>7, <1>8 DEF t

\* Scripts::loadScripts, after all that was of scripts is cleared
LEMMA RgLoadScripts ==
    ASSUME NEW s, RgMid(s), \A c \in Re!Chains : s.ge.id[c] = 0, NEW bad, Edited(bad),
           \A k \in Re!Keys : Re!Solid(k) =>
              /\ KindOf[k] = "creature" => s.reg[k] = IF Home(k) = Re!One("lua") THEN Re!One("cleared") ELSE Home(k)
              /\ KindOf[k] \in {"action", "move", "talk", "think", "timer"} => s.reg[k] = Re!Without(Home(k), "lua")
              /\ KindOf[k] = "spell" \/ (KindOf[k] = "weapon" /\ ~LuaOf(k)) => s.reg[k] = Home(k)
    PROVE  RgWhole(Re!Load(Re!ClearSpells(s, "lua"), Re!Kinds, "lua", bad))
<1> DEFINE u == Re!ClearSpells(s, "lua")
           t == Re!Load(u, Re!Kinds, "lua", bad)
<1>1. RgGood(s) /\ "lua" \in Origins
  BY RgKinds DEF RgMid
<1>2. /\ RgMid(u) /\ u.ge = s.ge
      /\ \A k \in Re!Keys : u.reg[k] = IF KindOf[k] = "spell" THEN Re!Without(s.reg[k], "lua") ELSE s.reg[k]
  BY <1>1, RgClears, RgClearSpells
<1> HIDE DEF u
<1>3. ASSUME NEW k \in Re!Keys, KindOf[k] \in Re!Chains, Re!Own(k, "lua")
      PROVE  KindOf[k] \in Re!Kinds /\ u.reg[k] = Re!Nothing
  <2>1. Re!Solid(k) /\ LuaOf(k) /\ ~XmlOf(k) /\ KindOf[k] \in {"think", "timer"}
    BY <1>3 DEF Re!Own, Re!Chains, LuaOf, XmlOf
  <2>2. Home(k) = Re!One("lua")
    BY <2>1 DEF Home
  <2>3. u.reg[k] = Re!Without(Re!One("lua"), "lua")
    BY <1>2, <1>3, <2>1, <2>2
  <2> QED BY <1>3, <2>3, RgKinds, RgWithout DEF Origins, Re!Entry
<1>4. RgGood(u) /\ HasRoom(u.ge) /\ Spare(u.ge) /\ \A c \in Re!Chains : u.ge.id[c] = 0
  BY <1>2 DEF RgMid
<1>5. RgMid(t)
  BY <1>1, <1>2, <1>4, RgLoads
<1>6. Going(t)
  BY <1>1, <1>3, <1>4, RgLoads
<1>7. \A k \in Re!Keys : Re!Solid(k) => t.reg[k] = IF KindOf[k] \in Re!Kinds THEN Read(k, u.reg[k], "lua") ELSE u.reg[k]
  BY <1>1, <1>4, RgRead DEF Edited
<1> HIDE DEF t
<1>8. ASSUME NEW k \in Re!Keys, Re!Solid(k) PROVE t.reg[k] = Home(k)
  <2>1. t.reg[k] = Read(k, u.reg[k], "lua")
    BY <1>7, <1>8, RgKinds
  <2>2. CASE KindOf[k] = "creature"
    BY <1>2, <1>8, <2>1, <2>2, RgLuaBack
  <2>3. CASE KindOf[k] = "weapon"
    BY <1>2, <1>8, <2>1, <2>3, RgLuaBack
  <2>4. CASE KindOf[k] \in {"action", "move", "talk", "think", "timer", "spell"}
    <3>1. u.reg[k] = Re!Without(Home(k), "lua")
      BY <1>2, <1>8, <2>4
    <3> QED BY <2>1, <2>4, <3>1, RgLuaBack
  <2> QED BY <2>2, <2>3, <2>4, RgKinds
<1> QED
  BY <1>5, <1>6, <1>8 DEF t, u, RgWhole, Settled

\* RELOAD_TYPE_SCRIPTS
LEMMA RgReloadScripts ==
    ASSUME NEW s, RgWhole(s), NEW bad, Edited(bad)
    PROVE  RgFine(Re!ReloadScripts(s, bad))
<1> DEFINE u == Re!ClearLua(s)
           v == Re!LoadDefaults(Re!ClearMap(u, "weapon", "lua"))
           w == Re!Load(Re!ClearSpells(v, "lua"), Re!Kinds, "lua", bad)
<1>1. Re!ReloadScripts(s, bad) = Re!RemoveInvalidEvents(w)
  BY DEF Re!ReloadScripts
<1>2. RgMid(s) /\ Settled(s)
  BY DEF RgWhole
<1>3. /\ RgMid(u) /\ \A c \in Re!Chains : u.ge.id[c] = 0
      /\ \A k \in Re!Keys :
            u.reg[k] = IF KindOf[k] = "creature" THEN IF s.reg[k] = Re!One("lua") THEN Re!One("cleared") ELSE s.reg[k]
                       ELSE IF KindOf[k] \in {"action", "move", "talk", "think", "timer"}
                       THEN Re!Without(s.reg[k], "lua") ELSE s.reg[k]
  BY <1>2, RgClearLua
<1> DEFINE x == Re!ClearMap(u, "weapon", "lua")
<1> HIDE DEF u
<1>4. /\ RgMid(x) /\ x.ge = u.ge
      /\ \A k \in Re!Keys : x.reg[k] = IF KindOf[k] = "weapon" THEN Re!Without(u.reg[k], "lua") ELSE u.reg[k]
  BY <1>3, RgKinds, RgClears, RgClearMap DEF RgMid
<1> HIDE DEF x
<1>5. /\ RgMid(v) /\ v.ge = u.ge
      /\ \A k \in Re!Keys : v.reg[k] = Default(k, x.reg[k])
  BY <1>4, RgKinds, RgClears, RgDefaults DEF RgMid, Default, x
<1>6. ASSUME NEW k \in Re!Keys, Re!Solid(k)
      PROVE  /\ KindOf[k] = "creature" => v.reg[k] = IF Home(k) = Re!One("lua") THEN Re!One("cleared") ELSE Home(k)
             /\ KindOf[k] \in {"action", "move", "talk", "think", "timer"} => v.reg[k] = Re!Without(Home(k), "lua")
             /\ KindOf[k] = "spell" \/ (KindOf[k] = "weapon" /\ ~LuaOf(k)) => v.reg[k] = Home(k)
  <2> HIDE DEF v
  <2>1. s.reg[k] = Home(k)
    BY <1>2, <1>6 DEF Settled
  <2>2. KindOf[k] # "weapon" => v.reg[k] = u.reg[k]
    BY <1>4, <1>5, RgKinds DEF Default
  <2>3. CASE KindOf[k] # "weapon"
    BY <1>3, <2>1, <2>2, <2>3
  <2>4. CASE KindOf[k] = "weapon" /\ ~LuaOf(k)
    <3>1. x.reg[k] = Home(k)
      BY <1>3, <1>4, <2>1, <2>4, RgLuaBack
    <3> QED BY <1>5, <2>4, <3>1, RgLuaBack
  <2> QED BY <2>3, <2>4
<1> HIDE DEF v
<1>7. RgWhole(w)
  BY <1>3, <1>5, <1>6, RgLoadScripts
<1> QED BY <1>1, <1>7, RgRemoveFine

\* RELOAD_TYPE_ALL
LEMMA RgReloadAll ==
    ASSUME NEW s, RgWhole(s), NEW bad, Edited(bad)
    PROVE  RgFine(Re!ReloadAll(s, bad))
<1> DEFINE a == Re!ReloadSpells(s, bad)
           b == Re!ReloadMap(a, "action", bad)
           c == Re!ReloadEvents(b, bad)
           d == Re!ReloadMap(c, "move", bad)
           e == Re!ReloadMap(d, "talk", bad)
           f == Re!ReloadMap(e, "weapon", bad)
           g == Re!LoadDefaults(Re!ClearMap(f, "weapon", "lua"))
           h == Re!ReloadGlobals(g, bad)
           u == Re!ClearLua(h)
           w == Re!Load(Re!ClearSpells(u, "lua"), Re!Kinds, "lua", bad)
<1>1. Re!ReloadAll(s, bad) = Re!RemoveInvalidEvents(w)
  BY DEF Re!ReloadAll
<1>2. RgWhole(a)
  BY RgReloadSpells
<1> HIDE DEF a
<1>3. RgWhole(b)
  BY <1>2, RgReloadMap
<1> HIDE DEF b
<1>4. RgWhole(c)
  BY <1>3, RgReloadEvents
<1> HIDE DEF c
<1>5. RgWhole(d)
  BY <1>4, RgReloadMap
<1> HIDE DEF d
<1>6. RgWhole(e)
  BY <1>5, RgReloadMap
<1> HIDE DEF e
<1>7. /\ RgMid(f)
      /\ \A k \in Re!Keys : Re!Solid(k) => /\ KindOf[k] # "weapon" \/ LuaOf(k) \/ XmlOf(k) => f.reg[k] = Home(k)
                                           /\ Default(k, f.reg[k]) = Home(k)
  BY <1>6, RgReloadMap
<1> HIDE DEF f
<1>8. RgMid(g) /\ Primed(g)
  BY <1>7, RgWeapons
<1> HIDE DEF g
<1>9. RgMid(h) /\ Primed(h)
  BY <1>8, RgReloadGlobals
<1> HIDE DEF h
<1>10. /\ RgMid(u) /\ \A x \in Re!Chains : u.ge.id[x] = 0
       /\ \A k \in Re!Keys :
             u.reg[k] = IF KindOf[k] = "creature" THEN IF h.reg[k] = Re!One("lua") THEN Re!One("cleared") ELSE h.reg[k]
                        ELSE IF KindOf[k] \in {"action", "move", "talk", "think", "timer"}
                        THEN Re!Without(h.reg[k], "lua") ELSE h.reg[k]
  BY <1>9, RgClearLua
<1> HIDE DEF u
<1>11. ASSUME NEW k \in Re!Keys, Re!Solid(k)
       PROVE  /\ KindOf[k] = "creature" => u.reg[k] = IF Home(k) = Re!One("lua") THEN Re!One("cleared") ELSE Home(k)
              /\ KindOf[k] \in {"action", "move", "talk", "think", "timer"} => u.reg[k] = Re!Without(Home(k), "lua")
              /\ KindOf[k] = "spell" \/ (KindOf[k] = "weapon" /\ ~LuaOf(k)) => u.reg[k] = Home(k)
  BY <1>9, <1>10, <1>11 DEF Primed
<1>12. RgWhole(w)
  BY <1>10, <1>11, RgLoadScripts
<1> QED BY <1>1, <1>12, RgRemoveFine

\* Game::reload: every registry with the files that are there gives back what they declare.
LEMMA RgReload ==
    ASSUME NEW s, RgWhole(s), NEW what \in Re!Commands, NEW bad, Edited(bad)
    PROVE  RgFine(Re!Reload(s, what, bad))
<1>1. \A t : RgWhole(t) => RgFine(t)
  BY DEF RgWhole, RgFine, RgMid
<1>2. what \in {"actions", "talkactions", "movements", "weapons", "creaturescripts", "globalevents",
                "spells", "monsters", "scripts", "all"}
  BY DEF Re!Commands
<1>3. CASE what = "actions"
  <2>1. RgWhole(Re!ReloadMap(s, "action", bad))
    BY RgReloadMap
  <2> QED BY <1>1, <1>3, <2>1 DEF Re!Reload
<1>4. CASE what = "talkactions"
  <2>1. RgWhole(Re!ReloadMap(s, "talk", bad))
    BY RgReloadMap
  <2> QED BY <1>1, <1>4, <2>1 DEF Re!Reload
<1>5. CASE what = "movements"
  <2>1. RgWhole(Re!ReloadMap(s, "move", bad))
    BY RgReloadMap
  <2> QED BY <1>1, <1>5, <2>1 DEF Re!Reload
<1>6. CASE what = "weapons"
  BY <1>1, <1>6, RgReloadWeapons DEF Re!Reload
<1>7. CASE what = "creaturescripts"
  <2>1. RgFine(Re!RemoveInvalidEvents(Re!ReloadEvents(s, bad)))
    BY RgReloadEvents, RgRemoveFine
  <2> QED BY <1>7, <2>1 DEF Re!Reload
<1>8. CASE what = "globalevents"
  <2>1. RgMid(s) /\ Primed(s) /\ Settled(s)
    BY DEF RgWhole, Primed, Settled
  <2>2. RgWhole(Re!ReloadGlobals(s, bad))
    BY <2>1, RgReloadGlobals DEF RgWhole
  <2> QED BY <1>1, <1>8, <2>2 DEF Re!Reload
<1>9. CASE what = "spells"
  BY <1>1, <1>9, RgReloadSpells DEF Re!Reload
<1>10. CASE what = "monsters"
  <2> DEFINE t == Re!ReloadMonsters(s)
  <2>1. RgMid(t) /\ t.reg = s.reg /\ t.ge = s.ge
    BY RgKinds, RgClears, RgMonsters DEF RgWhole, RgMid
  <2> HIDE DEF t
  <2>2. RgWhole(t)
    BY <2>1 DEF RgWhole, Going, Settled
  <2>3. Re!Reload(s, what, bad) = t
    BY <1>10 DEF Re!Reload, t
  <2> QED BY <1>1, <2>2, <2>3
<1>11. CASE what = "scripts"
  BY <1>11, RgReloadScripts DEF Re!Reload
<1>12. CASE what = "all"
  BY <1>12, RgReloadAll DEF Re!Reload
<1> QED BY <1>2, <1>3, <1>4, <1>5, <1>6, <1>7, <1>8, <1>9, <1>10, <1>11, <1>12

\* ScriptingManager::loadScriptSystems
LEMMA RgStartUp ==
    /\ RgFine(Re!StartUp)
    /\ \A k \in Re!Keys : Re!StartUp.reg[k] = Home(k)
<1> DEFINE a == Re!Load(Re!Empty, Re!Kinds, "xml", {})
           b == Re!LoadDefaults(a)
           c == Re!Load(b, Re!Kinds, "lua", {})
<1>1. Re!StartUp = Re!ReloadMonsters(c)
  BY DEF Re!StartUp
<1>2. Edited({}) /\ "xml" \in Origins /\ "lua" \in Origins
  BY RgKinds DEF Edited
<1>3. /\ RgGood(Re!Empty) /\ \A k \in Re!Keys : Re!Empty.reg[k] = Re!Nothing
      /\ \A e \in Re!Chains : Re!Empty.ge.id[e] = 0
      /\ HasRoom(Re!Empty.ge) /\ Spare(Re!Empty.ge) /\ ListLive(Re!Empty)
  <2>1. Re!Empty \in RgStates
    BY RgOne DEF Re!Empty, RgStates
  <2>2. \A k \in Re!Keys : Re!Empty.reg[k] = Re!Nothing
    BY DEF Re!Empty
  <2>3. \A k \in Re!Keys : RgEntries(k, Re!Nothing)
    BY RgOne DEF RgEntries, Origins, Re!Entry
  <2>4. /\ \A e \in Re!Chains : Re!Empty.ge.id[e] = 0
        /\ \A i \in Re!Ids : Re!Empty.ge.pending[i] = "none"
    BY DEF Re!Empty
  <2>5. 1 \in Re!Ids /\ 2 \in Re!Ids
    BY RegistriesAssumption DEF Re!Ids
  <2>6. ListLive(Re!Empty)
    BY DEF Re!Empty, ListLive
  <2>7. HasRoom(Re!Empty.ge) /\ Spare(Re!Empty.ge)
    BY <2>4, <2>5 DEF HasRoom, Spare, Freed
  <2> QED BY <2>1, <2>2, <2>3, <2>4, <2>6, <2>7 DEF RgGood
<1>4. \A k \in Re!Keys : KindOf[k] \in Re!Chains /\ Re!Own(k, "xml") =>
         KindOf[k] \in Re!Kinds /\ Re!Empty.reg[k] = Re!Nothing
  BY <1>3, RgKinds
<1>5. /\ RgKept(Re!Empty, a) /\ HasRoom(a.ge) /\ Spare(a.ge)
  BY <1>2, <1>3, RgLoads
<1>6. Going(a)
  BY <1>2, <1>3, <1>4, RgLoads
<1>7. \A k \in Re!Keys : a.reg[k] = Read(k, Re!Nothing, "xml")
  <2>1. \A k \in Re!Keys :
           a.reg[k] = IF KindOf[k] \in Re!Kinds THEN Read(k, Re!Empty.reg[k], "xml") ELSE Re!Empty.reg[k]
    BY <1>2, <1>3, RgRead
  <2> HIDE DEF a
  <2> QED BY <1>3, <2>1, RgKinds
<1> HIDE DEF a
<1>8. /\ RgKept(a, b) /\ b.ge = a.ge /\ \A k \in Re!Keys : b.reg[k] = Default(k, a.reg[k])
  BY <1>5, RgDefaults DEF RgKept, Default
<1> HIDE DEF b
<1>9. RgGood(b) /\ HasRoom(b.ge) /\ Spare(b.ge) /\ Going(b)
  BY <1>5, <1>6, <1>8 DEF RgKept, Going
<1>10. RgKept(b, c) /\ Going(c)
  BY <1>2, <1>9, RgLoads
<1>11. \A k \in Re!Keys : c.reg[k] = Read(k, b.reg[k], "lua")
  <2>1. \A k \in Re!Keys : c.reg[k] = IF KindOf[k] \in Re!Kinds THEN Read(k, b.reg[k], "lua") ELSE b.reg[k]
    BY <1>2, <1>9, RgRead
  <2> HIDE DEF c
  <2> QED BY <2>1, RgKinds
<1> HIDE DEF c
<1>12. \A k \in Re!Keys : c.reg[k] = Home(k)
  BY <1>7, <1>8, <1>11, RgStart
<1> DEFINE t == Re!ReloadMonsters(c)
<1>13. /\ RgKept(c, t) /\ t.reg = c.reg /\ t.ge = c.ge /\ \A m \in DOMAIN Learners : t.spell[m].lost = {}
  BY <1>10, RgMonsters DEF RgKept
<1> HIDE DEF t
<1>14. ListLive(a)
  BY <1>3, <1>5, RgKeptLive
<1>15. ListLive(b)
  BY <1>5, <1>8, <1>14, RgKeptLive DEF RgKept
<1>16. ListLive(c)
  BY <1>9, <1>10, <1>15, RgKeptLive DEF RgKept
<1>17. ListLive(t)
  BY <1>10, <1>13, <1>16, RgKeptLive DEF RgKept
<1>18. RgFine(t)
  BY <1>10, <1>12, <1>13, <1>17 DEF RgFine, Settled, Going, LostLua, RgKept
<1> QED BY <1>1, <1>12, <1>13, <1>18 DEF t

RgInv == RgFine(Re!Now)

\* An event of a chain runs, and the chain of its kind goes on.
LEMMA RgGoesOn ==
    ASSUME NEW s, RgFine(s), NEW i \in Re!Ids, NEW kind \in Re!Chains, s.ge.pending[i] = kind, NEW member \in Re!Chains,
           NEW u, RgGood(u), Settled(u), ListLive(u), LostLua(u),
           u.ge.pending = [s.ge.pending EXCEPT ![i] = "none"]
    PROVE  RgFine(IF Re!Alive(u, kind) = {} THEN u ELSE [u EXCEPT !.ge = Re!Schedule(@, kind, member)])
<1>1. /\ u.ge \in RgChains /\ s.ge \in RgChains /\ Re!Chains = {"think", "timer"}
      /\ s.ge.pending \in [Re!Ids -> {"none", "think", "timer"}]
  BY DEF RgGood, RgStates, RgChains, RgFine, Re!Chains
<1>2. \A other \in Re!Chains \ {kind} : Twice(other) => \E j \in Re!Ids : u.ge.pending[j] = other
  BY <1>1 DEF RgFine, Going
<1>3. ASSUME Twice(kind) PROVE Re!Alive(u, kind) # {}
  <2>1. PICK k \in Re!Of1(kind) : Re!Own(k, "xml")
    BY <1>3, RgKinds DEF Twice
  <2>2. k \in Re!Keys /\ KindOf[k] = kind /\ Re!Solid(k) /\ XmlOf(k)
    BY <2>1 DEF Re!Of1, Re!Own, XmlOf
  <2>3. u.reg[k] = Re!One("xml")
    BY <1>1, <2>2 DEF Settled, Home
  <2>4. u.reg[k] # Re!Nothing
    BY <2>3, RgOne DEF Re!Entry
  <2> QED BY <2>2, <2>4 DEF Re!Alive
<1>4. CASE Re!Alive(u, kind) = {}
  <2>1. Going(u)
    BY <1>2, <1>3, <1>4 DEF Going
  <2> QED BY <1>4, <2>1 DEF RgFine
<1>5. CASE Re!Alive(u, kind) # {}
  <2> DEFINE g == Re!Schedule(u.ge, kind, member)
             t == [u EXCEPT !.ge = g]
  <2>1. Idle(u.ge) # {}
    <3>1. u.ge.pending[i] = "none"
      BY <1>1
    <3> QED BY <3>1 DEF Idle
  <2>2. PICK f \in Re!Ids :
           /\ u.ge.pending[f] = "none" /\ Re!Schedule(u.ge, kind, member) \in RgChains
           /\ Re!Schedule(u.ge, kind, member).id = [u.ge.id EXCEPT ![member] = f]
           /\ Re!Schedule(u.ge, kind, member).pending = [u.ge.pending EXCEPT ![f] = kind]
    BY <1>1, <2>1, RgSchedule
  <2> HIDE DEF g
  <2>3. g \in RgChains /\ g.pending = [u.ge.pending EXCEPT ![f] = kind]
    BY <2>2 DEF g
  <2>4. t = [reg |-> u.reg, list |-> u.list, spell |-> u.spell, ge |-> g]
    BY RgRecord DEF RgGood
  <2>5. [u EXCEPT !.ge = Re!Schedule(@, kind, member)] = t
    BY DEF g
  <2> HIDE DEF t
  <2>6. RgGood(t)
    BY <2>3, <2>4 DEF RgGood, RgStates, RgChains
  <2>7. ASSUME NEW other \in Re!Chains, Twice(other) PROVE \E j \in Re!Ids : g.pending[j] = other
    <3>1. CASE other = kind
      <4>1. g.pending[f] = kind
        BY <1>1, <2>3 DEF RgChains
      <4> QED BY <3>1, <4>1
    <3>2. CASE other # kind
      <4>1. PICK j \in Re!Ids : u.ge.pending[j] = other
        BY <1>2, <2>7, <3>2
      <4>2. j # f
        BY <1>1, <2>2, <2>7, <4>1
      <4>3. g.pending[j] = other
        BY <1>1, <2>3, <4>1, <4>2 DEF RgChains
      <4> QED BY <4>3
    <3> QED BY <3>1, <3>2
  <2>8. RgFine(t)
    BY <2>4, <2>6, <2>7 DEF RgFine, Settled, Going, LostLua, ListLive
  <2> QED BY <1>5, <2>5, <2>8
<1> QED BY <1>4, <1>5

\* An event leaves the scheduler.
LEMMA RgFired ==
    ASSUME NEW s, RgFine(s), NEW i \in Re!Ids
    PROVE  LET u == Re!Fired(s, i)
           IN  /\ RgFine(s) => RgGood(u)
               /\ u.reg = s.reg /\ u.list = s.list /\ u.spell = s.spell
               /\ u.ge.pending = [s.ge.pending EXCEPT ![i] = "none"]
               /\ Settled(u) /\ LostLua(u) /\ ListLive(u)
<1> DEFINE id == [c \in Re!Chains |-> IF s.ge.id[c] = i THEN Re!Stale ELSE s.ge.id[c]]
           pending == [s.ge.pending EXCEPT ![i] = "none"]
           u == Re!Fired(s, i)
           g == [id |-> id, pending |-> pending]
<1>1. RgGood(s) /\ s.ge \in RgChains
  BY DEF RgFine, RgGood, RgStates, RgChains
<1>2. id \in [Re!Chains -> Re!Ids \cup {0, Re!Stale}]
  BY <1>1 DEF RgChains
<1>3. pending \in [Re!Ids -> {"none", "think", "timer"}]
  BY <1>1 DEF RgChains
<1>4. u = [s EXCEPT !.ge = g]
  BY DEF Re!Fired
<1> HIDE DEF id, u
<1>5. g.pending = pending /\ g \in RgChains
  <2> HIDE DEF pending
  <2> QED BY <1>2, <1>3 DEF RgChains
<1> HIDE DEF g
<1>6. u = [reg |-> s.reg, list |-> s.list, spell |-> s.spell, ge |-> g]
  BY <1>1, <1>4, RgRecord DEF RgGood
<1>7. RgGood(u)
  BY <1>1, <1>5, <1>6 DEF RgGood, RgStates, RgChains
<1> QED
  BY <1>5, <1>6, <1>7 DEF u, RgFine, Settled, LostLua, ListLive

\* The state that a step leaves.
LEMMA RgBecome ==
    ASSUME NEW s, RgFine(s), Re!Become(s)
    PROVE  RgInv'
<1>1. s \in RgStates
  BY DEF RgFine, RgGood
<1>2. s = [reg |-> s.reg, list |-> s.list, spell |-> s.spell, ge |-> s.ge]
  BY <1>1 DEF RgStates
<1>3. Re!Now' = s
  BY <1>2 DEF Re!Become, Re!Now
<1> QED BY <1>3 DEF RgInv

\* RELOAD_TYPE_...
LEMMA RgLuaReload == RgInv /\ Re!LuaReload => RgInv'
<1> SUFFICES ASSUME RgInv, Re!LuaReload PROVE RgInv'
  OBVIOUS
<1>1. PICK s : s = Re!Now
  OBVIOUS
<1>2. PICK what \in Re!Commands, bad \in SUBSET {h.key : h \in {x \in Handlers : Re!Fragile(x)}} :
         Re!Room /\ Re!Become(Re!Reload(Re!Now, what, bad))
  BY DEF Re!LuaReload
<1>3. RgFine(s) /\ s.ge = globals
  BY <1>1 DEF RgInv, Re!Now
<1>4. Edited(bad)
  <2>1. ASSUME NEW k \in bad PROVE ~Re!Solid(k)
    <3>1. PICK h \in Handlers : Re!Fragile(h) /\ h.key = k
      BY <1>2, <2>1
    <3> QED BY <3>1 DEF Re!Solid
  <2> QED BY <2>1 DEF Edited
<1> DEFINE S == Idle(s.ge)
<1>5. \E i, j \in S : i # j
  <2>1. Cardinality(S) >= 2
    <3>1. Re!Cardinality(S) = Cardinality(S)
      BY DEF Re!Cardinality, Cardinality
    <3>2. Re!Cardinality(S) >= 2
      BY <1>2, <1>3 DEF Re!Room, Idle
    <3> QED BY <3>1, <3>2
  <2> HIDE DEF S
  <2>2. S # {}
    <3>1. IsFiniteSet({}) /\ Cardinality({}) = 0
      BY FS_EmptySet
    <3> QED BY <2>1, <3>1
  <2>3. PICK i \in S : TRUE
    BY <2>2
  <2>4. S # {i}
    BY <2>1, FS_Singleton
  <2> QED BY <2>3, <2>4
<1>6. HasRoom(s.ge) /\ Spare(s.ge)
  <2>1. PICK i \in S, j \in S : i # j
    BY <1>5
  <2>2. i \in Re!Ids /\ j \in Re!Ids /\ s.ge.pending[i] = "none" /\ s.ge.pending[j] = "none"
    BY DEF Idle
  <2> QED BY <2>1, <2>2 DEF HasRoom, Spare, Freed
<1>7. RgWhole(s)
  BY <1>3, <1>6 DEF RgWhole, RgMid, RgFine
<1>8. PICK t : t = Re!Reload(s, what, bad)
  OBVIOUS
<1>9. RgFine(t)
  BY <1>4, <1>7, <1>8, RgReload
<1>10. Re!Become(t)
  BY <1>1, <1>2, <1>8
<1> QED BY <1>9, <1>10, RgBecome

\* GlobalEvents::think
LEMMA RgThink == RgInv /\ Re!Think => RgInv'
<1> SUFFICES ASSUME RgInv, Re!Think PROVE RgInv'
  OBVIOUS
<1>1. PICK s : s = Re!Now
  OBVIOUS
<1>2. RgFine(s) /\ s.ge = globals
  BY <1>1 DEF RgInv, Re!Now
<1>3. PICK i \in Re!Ids :
         /\ s.ge.pending[i] = "think"
         /\ LET u == Re!Fired(s, i)
            IN  Re!Become(IF Re!Alive(u, "think") = {} THEN u ELSE [u EXCEPT !.ge = Re!Schedule(@, "think", "timer")])
  BY <1>1, <1>2 DEF Re!Think
<1>4. PICK u : u = Re!Fired(s, i)
  OBVIOUS
<1>5. /\ RgGood(u) /\ Settled(u) /\ LostLua(u) /\ ListLive(u)
      /\ u.ge.pending = [s.ge.pending EXCEPT ![i] = "none"]
  BY <1>2, <1>4, RgFired
<1>6. PICK t : t = IF Re!Alive(u, "think") = {} THEN u ELSE [u EXCEPT !.ge = Re!Schedule(@, "think", "timer")]
  OBVIOUS
<1>7. "think" \in Re!Chains /\ "timer" \in Re!Chains
  BY DEF Re!Chains
<1>8. RgFine(t)
  BY <1>2, <1>3, <1>5, <1>6, <1>7, RgGoesOn
<1>9. Re!Become(t)
  BY <1>3, <1>4, <1>6
<1> QED BY <1>8, <1>9, RgBecome

\* GlobalEvents::timer: those that are erased are of files that are edited.
LEMMA RgTimer == RgInv /\ Re!Timer => RgInv'
<1> SUFFICES ASSUME RgInv, Re!Timer PROVE RgInv'
  OBVIOUS
<1>1. PICK s : s = Re!Now
  OBVIOUS
<1>2. RgFine(s) /\ s.ge = globals /\ s.reg = handler
  BY <1>1 DEF RgInv, Re!Now
<1>3. PICK i \in Re!Ids, failing \in SUBSET {k \in Re!Alive(s, "timer") : ~Re!Solid(k)} :
         /\ s.ge.pending[i] = "timer"
         /\ LET u == [Re!Fired(s, i) EXCEPT !.reg = [k \in Re!Keys |-> IF k \in failing THEN Re!Nothing ELSE s.reg[k]]]
            IN  Re!Become(IF Re!Alive(u, "timer") = {} THEN u ELSE [u EXCEPT !.ge = Re!Schedule(@, "timer", "think")])
  BY <1>1, <1>2 DEF Re!Timer
<1>4. PICK v : v = Re!Fired(s, i)
  OBVIOUS
<1>5. /\ RgGood(v) /\ Settled(v) /\ LostLua(v) /\ ListLive(v) /\ v.reg = s.reg
      /\ v.ge.pending = [s.ge.pending EXCEPT ![i] = "none"]
  BY <1>2, <1>4, RgFired
<1>6. PICK reg : reg = [k \in Re!Keys |-> IF k \in failing THEN Re!Nothing ELSE s.reg[k]]
  OBVIOUS
<1>7. PICK u : u = [v EXCEPT !.reg = reg]
  OBVIOUS
<1>8. u = [reg |-> reg, list |-> v.list, spell |-> v.spell, ge |-> v.ge]
  BY <1>5, <1>7, RgRecord DEF RgGood
<1>9. \A k \in failing : k \in Re!Keys /\ KindOf[k] = "timer" /\ ~Re!Solid(k)
  BY DEF Re!Alive
<1>10. \A k \in Re!Keys : reg[k] = IF k \in failing THEN Re!Nothing ELSE v.reg[k]
  BY <1>5, <1>6
<1>11. RgGood(u)
  <2>1. \A k \in Re!Keys : RgEntries(k, Re!Nothing)
    BY RgOne DEF RgEntries, Origins, Re!Entry
  <2>2. \A k \in Re!Keys : RgEntries(k, reg[k])
    BY <1>5, <1>10, <2>1 DEF RgGood
  <2>3. reg \in [Re!Keys -> [Re!Entry -> Nat]]
    BY <1>6, <2>2 DEF RgEntries
  <2> QED BY <1>5, <1>8, <2>2, <2>3 DEF RgGood, RgStates
<1>12. Settled(u) /\ LostLua(u)
  BY <1>5, <1>8, <1>9, <1>10 DEF Settled, LostLua
<1>13. ListLive(u)
  <2>1. \A c \in Watchers : \A k \in v.list[c].has : k \in Re!Keys /\ KindOf[k] = "creature"
    BY <1>5 DEF RgGood, RgStates, Re!CreatureEvents, Re!Of1
  <2> QED BY <1>5, <1>8, <1>9, <1>10, <2>1 DEF ListLive
<1>14. u.ge.pending = [s.ge.pending EXCEPT ![i] = "none"]
  BY <1>5, <1>8
<1>15. PICK t : t = IF Re!Alive(u, "timer") = {} THEN u ELSE [u EXCEPT !.ge = Re!Schedule(@, "timer", "think")]
  OBVIOUS
<1>16. "think" \in Re!Chains /\ "timer" \in Re!Chains
  BY DEF Re!Chains
<1>17. RgFine(t)
  BY <1>2, <1>3, <1>11, <1>12, <1>13, <1>14, <1>15, <1>16, RgGoesOn
<1>18. Re!Become(t)
  BY <1>3, <1>4, <1>6, <1>7, <1>15
<1> QED BY <1>17, <1>18, RgBecome

\* Creature::registerCreatureEvent and unregisterCreatureEvent
LEMMA RgRegister ==
    ASSUME RgInv, NEW c \in Watchers, NEW k \in Re!CreatureEvents,
           Re!RegisterCreatureEvent(c, k) \/ Re!UnregisterCreatureEvent(c, k)
    PROVE  RgInv'
<1>1. PICK s : s = Re!Now
  OBVIOUS
<1>2. RgFine(s) /\ s.reg = handler /\ s.list = eventsList /\ s.spell = learnt /\ s.ge = globals
  BY <1>1 DEF RgInv, Re!Now
<1>3. /\ s.reg[k] # Re!Nothing
      /\ \E new \in SUBSET Re!CreatureEvents :
            eventsList' = [s.list EXCEPT ![c].has = new] /\ \A x \in new : x \in s.list[c].has \/ x = k
      /\ handler' = s.reg /\ learnt' = s.spell /\ globals' = s.ge
  <2>1. s.list[c].has \subseteq Re!CreatureEvents
    BY <1>2 DEF RgFine, RgGood, RgStates
  <2>2. CASE Re!RegisterCreatureEvent(c, k)
    BY <1>2, <2>1, <2>2 DEF Re!RegisterCreatureEvent
  <2>3. CASE Re!UnregisterCreatureEvent(c, k)
    BY <1>2, <2>1, <2>3 DEF Re!UnregisterCreatureEvent
  <2> QED BY <2>2, <2>3
<1>4. PICK new \in SUBSET Re!CreatureEvents :
         eventsList' = [s.list EXCEPT ![c].has = new] /\ \A x \in new : x \in s.list[c].has \/ x = k
  BY <1>3
<1>5. PICK list : list = [s.list EXCEPT ![c].has = new]
  OBVIOUS
<1>6. s.list \in [Watchers -> [has : SUBSET Re!CreatureEvents, lost : SUBSET Re!CreatureEvents]]
  BY <1>2 DEF RgFine, RgGood, RgStates
<1>7. /\ list \in [Watchers -> [has : SUBSET Re!CreatureEvents, lost : SUBSET Re!CreatureEvents]]
      /\ \A w \in Watchers : list[w].lost = s.list[w].lost /\ \A x \in list[w].has : x \in s.list[w].has \/ x = k
  BY <1>4, <1>5, <1>6
<1>8. PICK t : t = [reg |-> s.reg, list |-> list, spell |-> s.spell, ge |-> s.ge]
  OBVIOUS
<1>9. RgGood(t)
  BY <1>2, <1>7, <1>8 DEF RgFine, RgGood, RgStates
<1>10. RgFine(t)
  BY <1>2, <1>3, <1>7, <1>8, <1>9 DEF RgFine, Settled, Going, LostLua, ListLive
<1>11. Re!Become(t)
  BY <1>3, <1>4, <1>5, <1>8 DEF Re!Become
<1> QED BY <1>10, <1>11, RgBecome

\* Each step keeps the invariant.
LEMMA RgNext == RgInv /\ (Re!RegistriesNext \/ UNCHANGED registryVars) => RgInv'
<1>1. RgInv /\ UNCHANGED registryVars => RgInv'
  BY DEF RgInv, Re!Now, registryVars
<1>2. RgInv /\ Re!RegistriesNext => RgInv'
  BY RgLuaReload, RgThink, RgTimer, RgRegister DEF Re!RegistriesNext
<1> QED BY <1>1, <1>2

\* The first load of the registries.
LEMMA RgInit == Re!RegistriesInit => RgInv
<1> SUFFICES ASSUME Re!RegistriesInit PROVE RgInv
  OBVIOUS
<1>1. RgFine(Re!StartUp) /\ Re!StartUp \in RgStates
  BY RgStartUp DEF RgFine, RgGood
<1>2. Re!StartUp = [reg |-> Re!StartUp.reg, list |-> Re!StartUp.list, spell |-> Re!StartUp.spell, ge |-> Re!StartUp.ge]
  BY <1>1 DEF RgStates
<1>3. Re!Now = Re!StartUp
  BY <1>2 DEF Re!RegistriesInit, Re!Now
<1> QED BY <1>1, <1>3 DEF RgInv

\* What the invariant is for.
LEMMA RgSafe == RgInv => Re!SameHandler /\ Re!PointersLive /\ Re!ChainsRun
<1> SUFFICES ASSUME RgInv PROVE Re!SameHandler /\ Re!PointersLive /\ Re!ChainsRun
  OBVIOUS
<1>1. PICK s : s = Re!Now
  OBVIOUS
<1>2. RgFine(s) /\ s.reg = handler /\ s.list = eventsList /\ s.spell = learnt /\ s.ge = globals
  BY <1>1 DEF RgInv, Re!Now
<1>3. Re!SameHandler
  BY <1>2, RgStartUp DEF Re!SameHandler, RgFine, Settled
<1>4. Re!PointersLive
  BY <1>2 DEF Re!PointersLive, RgFine, ListLive, LostLua, LuaOf
<1>5. Re!ChainsRun
  BY <1>2 DEF Re!ChainsRun, RgFine, Going, Twice, Origins
<1> QED BY <1>3, <1>4, <1>5

\* Game::reload: whatever registries are read again, in any order and with any of the files
\* that are being edited broken, every key of the other files has the handler it had at the
\* start, nobody points at an erased entry, and the chains of the global events go on.
THEOREM ReloadsLoseNothing ==
    Spec => []Of("registries", Re!SameHandler /\ Re!PointersLive /\ Re!ChainsRun)
<1>1. Init => RgInv
  BY RgInit DEF Init
<1>2. RgInv /\ [Next]_vars => RgInv'
  <2>1. [Next]_vars => Re!RegistriesNext \/ UNCHANGED registryVars
    BY DEF Next, Only, vars
  <2> QED BY <2>1, RgNext
<1>3. RgInv => Of("registries", Re!SameHandler /\ Re!PointersLive /\ Re!ChainsRun)
  BY RgSafe DEF Of
<1> QED
  BY <1>1, <1>2, <1>3, PTL DEF Spec

-----------------------------------------------------------------------------
(* The types of the parts                                                   *)

\* Of the database, besides what DbTyped says.
DbKinds ==
    /\ databaseLock \in {"none", "game", "net"}
    /\ retryQueries \in BOOLEAN /\ alive \in BOOLEAN /\ inTxn \in BOOLEAN
    /\ game \in {"idle", "begin", "body", "commit", "rollback", "undo"}
    /\ next \in 1 .. TxnLength + 1
    /\ net \in {"idle", "wait", "query"}
    /\ losses \in 0 .. MaxLosses /\ txns \in 0 .. MaxTxns /\ statements \in 0 .. MaxStatements

\* Every step of the database keeps them.
LEMMA DbKindsNext == DbInv /\ DbKinds /\ (Db!Next \/ UNCHANGED databaseVars) => DbKinds'
<1> SUFFICES ASSUME DbInv, DbKinds, Db!Next \/ UNCHANGED databaseVars PROVE DbKinds'
  OBVIOUS
<1> USE ConstantsAssumption DEF DbKinds
<1>1. CASE UNCHANGED databaseVars
  BY <1>1 DEF databaseVars
<1>2. game = "body" => next \in 1..TxnLength
  BY DEF DbInv, DbControl, Db!Body
<1>3. Db!Lose => losses' \in 0..MaxLosses /\ alive' = FALSE
  BY DEF Db!Lose
<1>4. \A b \in BOOLEAN : Db!ServerEndsTxn(b) => inTxn' = FALSE
  BY DEF Db!ServerEndsTxn
<1>5. \A x : /\ Db!ServerExecutes(x) => inTxn' = inTxn
             /\ Db!LostAfter(x) => losses' \in 0..MaxLosses /\ alive' = FALSE /\ inTxn' = FALSE
             /\ Db!Succeeds(x) => alive' = alive /\ losses' = losses /\ inTxn' = inTxn
  BY <1>3 DEF Db!ServerExecutes, Db!LostAfter, Db!Succeeds
<1>6. /\ Db!LostBefore => losses' \in 0..MaxLosses /\ alive' = FALSE /\ inTxn' = FALSE
      /\ Db!Fails => alive' = alive /\ losses' = losses /\ inTxn' = inTxn
      /\ Db!FailsDead => alive' = alive /\ losses' = losses /\ inTxn' = inTxn
  BY <1>3, <1>4 DEF Db!LostBefore, Db!Fails, Db!FailsDead
<1>7. game = "body" /\ Db!GiveUp => game' \in {"body", "commit", "rollback"} /\ next' \in 1 .. TxnLength + 1
  BY <1>2 DEF Db!GiveUp, Db!Advance
<1>8. ASSUME Db!LoseIdle \/ Db!Reconnects("game") \/ Db!Reconnects("net") \/ Db!TxnBegin \/ Db!TxnStarted
      PROVE  DbKinds'
  <2>1. CASE Db!LoseIdle
    BY <1>3, <1>4, <2>1 DEF Db!LoseIdle
  <2>2. ASSUME Db!Reconnects("game") \/ Db!Reconnects("net") PROVE DbKinds'
    BY <2>2 DEF Db!Reconnects
  <2>3. CASE Db!TxnBegin
    BY <2>3 DEF Db!TxnBegin
  <2>4. CASE Db!TxnStarted
    BY <2>4 DEF Db!TxnStarted
  <2> QED BY <1>8, <2>1, <2>2, <2>3, <2>4
<1>9. ASSUME Db!TxnNotStarted \/ Db!TxnBeginLost \/ Db!UndoNothing \/ Db!UndoReconnects PROVE DbKinds'
  BY <1>6, <1>9 DEF Db!TxnNotStarted, Db!TxnBeginLost, Db!UndoNothing, Db!UndoReconnects
<1>10. CASE Db!TxnStatement
  BY <1>2, <1>5, <1>10 DEF Db!TxnStatement, Db!Advance
<1>11. CASE Db!TxnStatementFails
  BY <1>5, <1>6, <1>7, <1>11 DEF Db!TxnStatementFails
<1>12. ASSUME Db!TxnCommit \/ Db!TxnRollback PROVE DbKinds'
  BY <1>3, <1>4, <1>6, <1>12 DEF Db!TxnCommit, Db!TxnRollback, Db!TxnUnlock
<1>13. ASSUME Db!NetCall \/ Db!NetLock \/ Db!NetQuery \/ Db!NetQueryLost PROVE DbKinds'
  <2>1. ASSUME Db!NetCall \/ Db!NetLock PROVE DbKinds'
    BY <2>1 DEF Db!NetCall, Db!NetLock
  <2>2. CASE Db!NetQuery
    BY <1>5, <1>6, <2>2 DEF Db!NetQuery
  <2>3. CASE Db!NetQueryLost
    BY <1>5, <1>6, <2>3 DEF Db!NetQueryLost
  <2> QED BY <1>13, <2>1, <2>2, <2>3
<1> QED
  BY <1>1, <1>8, <1>9, <1>10, <1>11, <1>12, <1>13 DEF Db!Next, Db!GameStep, Db!NetStep

\* With the invariant of Database they are its type invariant.
LEMMA DbTypes == DbInv /\ DbKinds => Db!TypeOK
BY DEF DbInv, DbTyped, DbKinds, Db!TypeOK

\* Of the statements' queue.
DtKinds ==
    /\ workerState \in {"RUNNING", "CLOSING", "TERMINATED"}
    /\ pc \in {"check", "lock", "wait", "woken", "run", "post", "done"}
    /\ call \in [Callers -> {"idle", "signal", "flush", "run", "post", "notify"}]
    /\ afterFlush \in {"idle", "notify"}
    /\ callbacks \in Seq(DbTasks)

\* Every step of the queue keeps them.
LEMMA DtKindsNext == DtInv /\ DtKinds /\ (Dt!Next \/ UNCHANGED databaseTasksVars) => DtKinds'
<1> SUFFICES ASSUME DtInv, DtKinds, Dt!Next \/ UNCHANGED databaseTasksVars PROVE DtKinds'
  OBVIOUS
<1> USE ConstantsAssumption
<1>1. CASE UNCHANGED databaseTasksVars
  BY <1>1 DEF databaseTasksVars, DtKinds
<1>2. \A h \in Dt!Hands : Dt!PostCallback(h) => callbacks' \in Seq(DbTasks)
  BY AppendProperties DEF Dt!PostCallback, DtKinds
<1>3. \A c \in Callers, place \in {"idle", "signal", "flush", "run", "post", "notify"} :
         Dt!Goto(c, place) => call' \in [Callers -> {"idle", "signal", "flush", "run", "post", "notify"}]
  BY DEF Dt!Goto, DtKinds
<1>4. "worker" \in Dt!Hands /\ "flush" \in Dt!Hands
  BY DEF Dt!Hands
<1> USE DEF DtKinds
<1>5. ASSUME NEW c \in Callers, NEW t \in DbTasks, Dt!AddTask(c, t) PROVE DtKinds'
  BY <1>3, <1>5 DEF Dt!AddTask
<1>6. ASSUME NEW c \in Callers, Dt!Signal(c) PROVE DtKinds'
  BY <1>3, <1>6 DEF Dt!Signal, Dt!NotifyOne
<1>7. ASSUME Dt!Stop \/ Dt!Flush \/ Dt!Shutdown PROVE DtKinds'
  BY <1>3, <1>7 DEF Dt!Stop, Dt!Flush, Dt!Shutdown
<1>8. ASSUME Dt!FlushPop \/ Dt!FlushExecute \/ Dt!FlushReturn PROVE DtKinds'
  BY <1>3, <1>8 DEF Dt!FlushPop, Dt!FlushExecute, Dt!FlushReturn
<1>9. CASE Dt!FlushPost
  BY <1>2, <1>3, <1>4, <1>9 DEF Dt!FlushPost
<1>10. CASE Dt!WorkerPost
  BY <1>2, <1>4, <1>10 DEF Dt!WorkerPost
<1>11. ASSUME \/ Dt!CheckState \/ Dt!WaitForSignal \/ Dt!SpuriousWakeup \/ Dt!WorkerPop
              \/ Dt!WokenForNothing \/ Dt!WorkerExecute
       PROVE  DtKinds'
  BY <1>11 DEF Dt!CheckState, Dt!WaitForSignal, Dt!SpuriousWakeup, Dt!WorkerPop, Dt!WokenForNothing, Dt!WorkerExecute
<1> QED
  BY <1>1, <1>5, <1>6, <1>7, <1>8, <1>9, <1>10, <1>11 DEF Dt!Next, Dt!WorkerStep, Dt!FlushStep

\* With the invariant of DatabaseTasks they are its type invariant.
LEMMA DtTypes == DtInv /\ DtKinds => Dt!TypeOK
BY DEF DtInv, DtTyped, DtKinds, Dt!TypeOK

\* Of the hooks: every hook that runs has an environment.
HookKinds ==
    /\ missing \subseteq Optional
    /\ envs \in 0..(MaxEnvs + MaxRefused) /\ Len(frames) <= envs
    /\ answer = None \/ answer.how \in {"unset", "refused", "failed", "done"}

\* The height of the Lua stack is a natural number.
LEMMA HooksNat == HooksInv => lua \in Nat /\ \A k \in DOMAIN frames : frames[k] \in Frame
<1> SUFFICES ASSUME HooksInv PROVE lua \in Nat /\ \A k \in DOMAIN frames : frames[k] \in Frame
  OBVIOUS
<1>1. Len(frames) \in Nat /\ DOMAIN frames = 1..Len(frames) /\ frames \in Seq(Frame)
  BY LenProperties DEF HooksInv
<1>2. ASSUME NEW k \in 1..Len(frames)
      PROVE  frames[k] \in Frame /\ Above(frames[k]) \in Nat
  <2>1. frames[k] \in Frame
    BY <1>1, ElementOfSeq
  <2>2. Len(frames[k].hook.pushed) \in Nat
    BY <2>1, HooksAgree DEF Frame, Agrees
  <2> QED BY <2>1, <2>2 DEF Frame, Above
<1> QED BY <1>1, <1>2 DEF HooksInv

\* Without its last element a sequence is shorter by one.
LEMMA FrontLength ==
    ASSUME NEW S, NEW list \in Seq(S), list # <<>>
    PROVE  Len(list) >= 1 /\ Len(SubSeq(list, 1, Len(list) - 1)) = Len(list) - 1
<1> DEFINE n == Len(list)
<1>1. n \in Nat /\ n >= 1
  BY EmptySeq, LenProperties
<1>2. \A i \in 1 .. n - 1 : list[i] \in S
  BY <1>1, ElementOfSeq
<1> HIDE DEF n
<1>3. 1 \in Int /\ n - 1 \in Int
  BY <1>1
<1>4. Len(SubSeq(list, 1, n - 1)) = IF 1 <= n - 1 THEN n - 1 - 1 + 1 ELSE 0
  BY <1>2, <1>3, SubSeqProperties
<1>5. Len(SubSeq(list, 1, n - 1)) = n - 1
  <2> DEFINE l == Len(SubSeq(list, 1, n - 1))
  <2>1. l = IF 1 <= n - 1 THEN n - 1 - 1 + 1 ELSE 0
    BY <1>4
  <2> HIDE DEF l
  <2>2. l = n - 1
    BY <1>1, <2>1
  <2> QED BY <2>2 DEF l
<1> QED BY <1>1, <1>5, Zenon DEF n

\* Every step of a hook keeps them.
LEMMA HookKindsNext == HooksInv /\ HookKinds /\ (Re!HooksNext \/ UNCHANGED hookVars) => HookKinds'
<1> SUFFICES ASSUME HooksInv, HookKinds, Re!HooksNext \/ UNCHANGED hookVars PROVE HookKinds'
  OBVIOUS
<1> USE HooksAssumption
<1>1. CASE UNCHANGED hookVars
  BY <1>1 DEF hookVars, HookKinds
<1>2. frames \in Seq(Frame) /\ Len(frames) \in Nat /\ envs \in Int
  BY LenProperties DEF HooksInv, HookKinds
<1>3. CASE Re!LoadEvents
  BY <1>3 DEF Re!LoadEvents, HookKinds
<1>4. \A h, how, value : Re!Answered(h, how, value) => answer'.how = how
  BY DEF Re!Answered
<1>5. ASSUME NEW h \in Re!AllHooks, Re!Unset(h) PROVE HookKinds'
  BY <1>4, <1>5 DEF Re!Unset, HookKinds
<1>6. ASSUME NEW h \in Re!AllHooks, Re!Refused(h) PROVE HookKinds'
  BY <1>2, <1>4, <1>6 DEF Re!Refused, HookKinds
<1>7. ASSUME NEW h \in Re!AllHooks, Re!Fire(h) PROVE HookKinds'
  <2>1. [hook |-> h, below |-> lua] \in Frame
    <3>1. lua \in Nat
      BY HooksNat
    <3> QED BY <1>7, <3>1 DEF Frame
  <2>2. Len(frames') = Len(frames) + 1
    BY <1>2, <1>7, <2>1, AppendProperties DEF Re!Fire
  <2> QED BY <1>2, <1>7, <2>2 DEF Re!Fire, HookKinds
<1>8. ASSUME NEW failed \in BOOLEAN, NEW value \in Re!Values, Re!Return(failed, value) PROVE HookKinds'
  <2>1. frames # <<>> /\ frames' = Re!Front(frames)
    BY <1>8 DEF Re!Return, Re!Running
  <2>2. Len(frames') = Len(frames) - 1 /\ Len(frames) >= 1
    <3>1. frames' = SubSeq(frames, 1, Len(frames) - 1)
      BY <2>1 DEF Re!Front
    <3> QED BY <1>2, <2>1, <3>1, FrontLength
  <2>3. answer'.how \in {"failed", "done"}
    BY <1>4, <1>8 DEF Re!Return
  <2> QED BY <1>2, <1>8, <2>2, <2>3 DEF Re!Return, HookKinds
<1> QED
  BY <1>1, <1>3, <1>5, <1>6, <1>7, <1>8 DEF Re!HooksNext

\* With the invariant of the hooks they are their type invariant.
LEMMA HookTypes == HooksInv /\ HookKinds => Re!HooksTypeOK
BY HooksNat DEF Frame, HookKinds, Re!HooksTypeOK

\* Of the registries.
LEMMA RgTypes == RgInv => Re!RegistriesTypeOK
<1> SUFFICES ASSUME RgInv PROVE Re!RegistriesTypeOK
  OBVIOUS
<1>1. PICK s : s = Re!Now
  OBVIOUS
<1>2. RgGood(s) /\ s.reg = handler /\ s.list = eventsList /\ s.ge = globals
  BY <1>1 DEF RgInv, RgFine, Re!Now
<1>3. \A k \in Re!Keys : KindOf[k] # "move" => handler[k] = Re!Nothing \/ \E e \in Re!Entry : handler[k] = Re!One(e)
  BY <1>2 DEF RgGood, RgEntries
<1> QED BY <1>2, <1>3 DEF RgGood, RgStates, Re!RegistriesTypeOK

-----------------------------------------------------------------------------
(* The parts together                                                      *)

PartsInv ==
    /\ SeInv /\ WlInv /\ RaInv /\ SpInv /\ RgInv /\ now \in 0..MaxTime
    /\ DbInv /\ DbKinds /\ DtInv /\ DtKinds /\ HooksInv /\ HookKinds

\* All parts at first.
LEMMA PartsInit == Init => PartsInv
<1> SUFFICES ASSUME Init PROVE PartsInv
  OBVIOUS
<1>1. SeInv /\ WlInv /\ RaInv /\ SpInv /\ RgInv /\ DbInv /\ DtInv /\ HooksInv
  BY SeInit, WlInit, RaInit, SpInit, RgInit, DbInit, DtInit, HooksInit DEF Init
<1>0. Wl!Init /\ Db!Init /\ Dt!Init /\ Re!HooksInit
  BY DEF Init
<1>2. now \in 0..MaxTime
  BY <1>0, ConstantsAssumption DEF Wl!Init
<1>3. DbKinds
  <2>1. next \in 1 .. TxnLength + 1 /\ losses \in 0..MaxLosses /\ txns \in 0..MaxTxns /\ statements \in 0..MaxStatements
    BY <1>0, ConstantsAssumption DEF Db!Init
  <2>2. retryQueries \in BOOLEAN /\ alive \in BOOLEAN /\ inTxn \in BOOLEAN
    BY <1>0 DEF Db!Init
  <2>3. databaseLock = "none" /\ game = "idle" /\ net = "idle"
    BY <1>0 DEF Db!Init
  <2> QED BY <2>1, <2>2, <2>3 DEF DbKinds
<1>4. DtKinds
  BY <1>0 DEF Dt!Init, DtKinds
<1>5. HookKinds
  BY <1>0, HooksAssumption DEF Re!HooksInit, HookKinds
<1> QED BY <1>1, <1>2, <1>3, <1>4, <1>5 DEF PartsInv

\* Every step is one of a part and leaves the others alone.
LEMMA PartsNext == PartsInv /\ [Next]_vars => PartsInv'
<1> SUFFICES ASSUME PartsInv, [Next]_vars PROVE PartsInv'
  OBVIOUS
<1>1. /\ Se!Next \/ UNCHANGED schedulerVars
      /\ Dt!Next \/ UNCHANGED databaseTasksVars
      /\ Db!Next \/ UNCHANGED databaseVars
      /\ Wl!Next \/ UNCHANGED waitingListVars
      /\ Sw!SpawnsNext \/ UNCHANGED spawnVars
      /\ Sw!RaidsNext \/ UNCHANGED raidVars
      /\ Re!RegistriesNext \/ UNCHANGED registryVars
      /\ Re!HooksNext \/ UNCHANGED hookVars
  BY DEF Next, Only, vars
<1>2. SeInv' /\ RaInv' /\ SpInv' /\ RgInv'
  BY <1>1, SeNext, RaNext, SpNext, RgNext DEF PartsInv
<1>3. WlInv'
  BY <1>1, WlNext DEF PartsInv
<1>4. now' \in 0..MaxTime
  <2>1. now \in 0..MaxTime
    BY DEF PartsInv
  <2>2. Wl!Tick => now' \in 0..MaxTime
    BY <2>1, ConstantsAssumption DEF Wl!Tick
  <2>3. \A p \in Players : Wl!Login(p) \/ Wl!Logout(p) => now' = now
    BY DEF Wl!Login, Wl!Logout
  <2>4. UNCHANGED waitingListVars => now' = now
    BY DEF waitingListVars
  <2> QED BY <1>1, <2>1, <2>2, <2>3, <2>4 DEF Wl!Next
<1>5. DbInv' /\ DbKinds'
  BY <1>1, DbNext, DbStutters, DbKindsNext DEF PartsInv
<1>6. DtInv' /\ DtKinds'
  BY <1>1, DtNext, DtKindsNext DEF PartsInv
<1>7. HooksInv' /\ HookKinds'
  BY <1>1, HooksNext, HooksStutters, HookKindsNext DEF PartsInv
<1> QED BY <1>2, <1>3, <1>4, <1>5, <1>6, <1>7 DEF PartsInv

\* Scheduler, DatabaseTasks, Database, WaitingList, Spawn, Raids, the registries and the calls
\* into scripts stay within their types; among them: a transaction never has more statements
\* than its caller sends, and no hook runs without an environment (reserveScriptEnv).
THEOREM TypesKept == Spec => []TypeOK
<1>1. PartsInv => TypeOK
  <2> SUFFICES ASSUME PartsInv PROVE TypeOK
    OBVIOUS
  <2>1. Se!TypeOK /\ Dt!TypeOK /\ Db!TypeOK
    BY DbTypes, DtTypes DEF PartsInv, SeInv
  <2>2. Wl!TypeOK
    BY DEF PartsInv, WlInv, Wl!TypeOK
  <2>3. Sw!SpawnsTypeOK /\ Sw!RaidsTypeOK
    BY RaSafe, SpSafe DEF PartsInv
  <2>4. Re!RegistriesTypeOK /\ Re!HooksTypeOK
    BY RgTypes, HookTypes DEF PartsInv
  <2> QED BY <2>1, <2>2, <2>3, <2>4 DEF TypeOK, Of
<1> QED
  BY <1>1, PartsInit, PartsNext, PTL DEF Spec

\* Scheduler::addEvent, DatabaseTasks::flush, WaitingList::clientLogin, Raids, Spawn and
\* Game::reload: what each part hands over is handled once and nothing of it is lost, for any
\* number of tasks, statements, players, monsters and handlers.
THEOREM HandledOnceAlways == Spec => []HandledOnce
<1>1. PartsInv => HandledOnce
  <2> SUFFICES ASSUME PartsInv PROVE HandledOnce
    OBVIOUS
  <2>1. Se!OwnedOnce /\ Dt!ExactlyOnce /\ Wl!QueuedOnce
    BY SeSafe, DtSafe, WlSafe DEF PartsInv
  <2>2. Sw!RaidsGoOn /\ Sw!SpawnReferences /\ Sw!RemovalChecked
    BY RaSafe, SpSafe DEF PartsInv
  <2>3. Re!SameHandler /\ Re!PointersLive /\ Re!ChainsRun
    BY RgSafe DEF PartsInv
  <2> QED BY <2>1, <2>2, <2>3 DEF HandledOnce, Of
<1> QED
  BY <1>1, PartsInit, PartsNext, PTL DEF Spec
=============================================================================
