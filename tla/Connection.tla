----------------------------- MODULE Connection -----------------------------
(***************************************************************************)
(* One client connection (connection.h, connection.cpp), used by the       *)
(* network thread, which runs the completion handlers, and by the game     *)
(* thread, which sends and closes.  Every member function holds            *)
(* connectionLock, so that each is one step; what two threads interleave   *)
(* is the completion of an operation and the run of its handler.           *)
(*                                                                         *)
(* conn.read and conn.write are the outstanding async operation and, once  *)
(* it completed, its outcome ("...Ok", "...Err") until the handler runs.   *)
(* A timer is armed or not; lateTimeout says that the handler of an        *)
(* expired timer is queued, which cancel() no longer stops.  boost::asio   *)
(* and the peer are external; its timers and async operations report       *)
(* errors to the handlers and never throw, so that the catch blocks around *)
(* them are not reached.                                                   *)
(***************************************************************************)
EXTENDS Naturals

CONSTANTS MaxQueue    \* a bound on messageQueue

ASSUME ConstantsAssumption == MaxQueue \in Nat \ {0}

VARIABLES conn,      \* the Connection object
          peerUp     \* FALSE once the TCP connection has failed

vars == <<conn, peerUp>>

Pending == {"header", "body"}

Reads == {"none", "header", "body", "headerOk", "bodyOk", "headerErr", "bodyErr"}

Writes == {"none", "pending", "ok", "err"}

TypeOK ==
    /\ conn \in [open : BOOLEAN, closed : BOOLEAN, managed : BOOLEAN, accepted : BOOLEAN,
                 protocol : BOOLEAN, receivedFirst : BOOLEAN, queue : 0 .. MaxQueue,
                 read : Reads, write : Writes, readTimer : BOOLEAN, writeTimer : BOOLEAN,
                 lateTimeout : BOOLEAN, releases : 0 .. 2]
    /\ peerUp \in BOOLEAN

\* ConnectionManager::createConnection, and a socket accepted from the peer.
Init ==
    /\ conn = [open |-> TRUE, closed |-> FALSE, managed |-> TRUE, accepted |-> FALSE,
               protocol |-> FALSE, receivedFirst |-> FALSE, queue |-> 0,
               read |-> "none", write |-> "none", readTimer |-> FALSE, writeTimer |-> FALSE,
               lateTimeout |-> FALSE, releases |-> 0]
    /\ peerUp = TRUE

\* Shared pointers keep the object: the manager's and those of the handlers.
Alive(c) == c.managed \/ c.read # "none" \/ c.write # "none"

-----------------------------------------------------------------------------
(* The member functions, as functions of the object                        *)

AbortRead(r) == CASE r = "header" -> "headerErr" [] r = "body" -> "bodyErr" [] OTHER -> r

AbortWrite(w) == IF w = "pending" THEN "err" ELSE w

CloseSocket(c) ==
    IF c.open
    THEN [c EXCEPT !.open = FALSE, !.readTimer = FALSE, !.writeTimer = FALSE,
                   !.read = AbortRead(@), !.write = AbortWrite(@)]
    ELSE c

\* Seeded fault: close() without the test of closed.
Close_Again(c, force) ==
    LET marked == [c EXCEPT !.managed = FALSE, !.closed = TRUE,
                            !.releases = IF c.protocol THEN @ + 1 ELSE @]
    IN  IF c.queue = 0 \/ force THEN CloseSocket(marked)
        ELSE marked

\* close(): the protocol's release() is a task for the dispatcher.
Close(c, force) ==
    LET marked == [c EXCEPT !.managed = FALSE, !.closed = TRUE,
                            !.releases = IF c.protocol THEN @ + 1 ELSE @]
    IN  IF c.closed THEN [c EXCEPT !.managed = FALSE]
        ELSE IF c.queue = 0 \/ force THEN CloseSocket(marked)
        ELSE marked

\* Seeded fault: A read without its timer.
StartRead_NoTimer(c, what) ==
    [c EXCEPT !.read = IF c.open /\ peerUp THEN what ELSE AbortRead(what)]

\* Arming the read timer and starting async_read.  On a socket that is closed
\* the operation completes with an error.
StartRead(c, what) ==
    [c EXCEPT !.readTimer = TRUE,
              !.read = IF c.open /\ peerUp THEN what ELSE AbortRead(what)]

InternalSend(c) ==
    [c EXCEPT !.writeTimer = TRUE,
              !.write = IF c.open /\ peerUp THEN "pending" ELSE "err"]

Send(c) ==
    LET queued == [c EXCEPT !.queue = @ + 1]
    IN  IF c.closed THEN c
        ELSE IF c.queue = 0 THEN InternalSend(queued)
        ELSE queued

-----------------------------------------------------------------------------
(* The network thread                                                      *)

\* ServicePort::onAccept hands the connection to accept(), with a protocol
\* when the server sends first.
Accept(serverFirst) ==
    /\ ~conn.accepted /\ ~conn.closed
    /\ conn' = StartRead([conn EXCEPT !.accepted = TRUE, !.protocol = serverFirst],
                         "header")
    /\ UNCHANGED peerUp

\* ServicePort::onAccept refuses the address.
Refuse ==
    /\ ~conn.accepted /\ ~conn.closed
    /\ conn' = Close([conn EXCEPT !.accepted = TRUE], TRUE)
    /\ UNCHANGED peerUp

\* parseHeader and parsePacket begin alike: the timer is cancelled, an error
\* closes, and a connection closed meanwhile is left alone.
Handled(c) == [c EXCEPT !.read = "none", !.readTimer = FALSE]

ReadFailed ==
    /\ conn.read \in {"headerErr", "bodyErr"}
    /\ conn' = Close(Handled(conn), TRUE)
    /\ UNCHANGED peerUp

ReadAfterClose ==
    /\ conn.read \in {"headerOk", "bodyOk"} /\ conn.closed
    /\ conn' = Handled(conn)
    /\ UNCHANGED peerUp

\* parseHeader: too many packets close gently, a bad size closes at once.
ParseHeader ==
    /\ conn.read = "headerOk" /\ ~conn.closed
    /\ \/ conn' = Close(Handled(conn), FALSE)
       \/ conn' = Close(Handled(conn), TRUE)
       \/ conn' = StartRead(Handled(conn), "body")
    /\ UNCHANGED peerUp

\* parsePacket found no protocol for the first message.
NoProtocol ==
    /\ conn.read = "bodyOk" /\ ~conn.closed
    /\ ~conn.receivedFirst /\ ~conn.protocol
    /\ conn' = Close([Handled(conn) EXCEPT !.receivedFirst = TRUE], TRUE)
    /\ UNCHANGED peerUp

\* Seeded fault: parsePacket without the test of closed.
ParsePacket_AfterClose(answers, disconnects) ==
    /\ conn.read = "bodyOk"
    /\ conn.queue < MaxQueue
    /\ LET entered == [Handled(conn) EXCEPT !.receivedFirst = TRUE, !.protocol = TRUE]
           answered == IF answers THEN Send(entered) ELSE entered
           left == IF disconnects THEN Close(answered, FALSE) ELSE answered
       IN  conn' = StartRead(left, "header")
    /\ UNCHANGED peerUp

\* parsePacket runs the protocol, which may answer and may then disconnect;
\* the next read is started in any case.
ParsePacket(answers, disconnects) ==
    /\ conn.read = "bodyOk" /\ ~conn.closed
    /\ conn.queue < MaxQueue
    /\ LET entered == [Handled(conn) EXCEPT !.receivedFirst = TRUE, !.protocol = TRUE]
           answered == IF answers THEN Send(entered) ELSE entered
           left == IF disconnects THEN Close(answered, FALSE) ELSE answered
       IN  conn' = StartRead(left, "header")
    /\ UNCHANGED peerUp

\* Seeded fault: The last write does not close the socket.
OnWriteOperation_StaysOpen ==
    /\ conn.write \in {"ok", "err"}
    /\ LET popped == [conn EXCEPT !.write = "none", !.writeTimer = FALSE, !.queue = @ - 1]
       IN  conn' = IF conn.write = "err" THEN Close([popped EXCEPT !.queue = 0], TRUE)
                   ELSE IF popped.queue > 0 THEN InternalSend(popped)
                   ELSE popped
    /\ UNCHANGED peerUp

OnWriteOperation ==
    /\ conn.write \in {"ok", "err"}
    /\ LET popped == [conn EXCEPT !.write = "none", !.writeTimer = FALSE, !.queue = @ - 1]
       IN  conn' = IF conn.write = "err" THEN Close([popped EXCEPT !.queue = 0], TRUE)
                   ELSE IF popped.queue > 0 THEN InternalSend(popped)
                   ELSE IF popped.closed THEN CloseSocket(popped)
                   ELSE popped
    /\ UNCHANGED peerUp

\* Time passes: the handler of an armed timer is queued.
ReadTimerExpires ==
    /\ conn.readTimer
    /\ conn' = [conn EXCEPT !.readTimer = FALSE, !.lateTimeout = TRUE]
    /\ UNCHANGED peerUp

WriteTimerExpires ==
    /\ conn.writeTimer
    /\ conn' = [conn EXCEPT !.writeTimer = FALSE, !.lateTimeout = TRUE]
    /\ UNCHANGED peerUp

\* handleTimeout: the weak pointer keeps nothing alive.
HandleTimeout ==
    /\ conn.lateTimeout
    /\ LET c == [conn EXCEPT !.lateTimeout = FALSE]
       IN  conn' = IF Alive(c) THEN Close(c, TRUE) ELSE c
    /\ UNCHANGED peerUp

\* The last shared pointer is gone and the destructor runs.
Destroy ==
    /\ ~Alive(conn) /\ conn.open
    /\ conn' = CloseSocket(conn)
    /\ UNCHANGED peerUp

-----------------------------------------------------------------------------
(* The game thread, which locks the protocol's weak pointer first          *)

GameSend ==
    /\ Alive(conn) /\ conn.protocol
    /\ conn.queue < MaxQueue
    /\ conn' = Send(conn)
    /\ UNCHANGED peerUp

\* Protocol::disconnect.
GameDisconnect ==
    /\ Alive(conn) /\ conn.protocol
    /\ conn' = Close(conn, FALSE)
    /\ UNCHANGED peerUp

\* ConnectionManager::closeAll closes the socket behind the object's back.
CloseAll ==
    /\ conn.managed /\ conn.accepted
    /\ conn' = [conn EXCEPT !.managed = FALSE, !.open = FALSE,
                            !.read = AbortRead(@), !.write = AbortWrite(@)]
    /\ UNCHANGED peerUp

-----------------------------------------------------------------------------
(* The peer                                                                *)

PeerSends ==
    /\ conn.read \in Pending /\ conn.open /\ peerUp
    /\ conn' = [conn EXCEPT !.read = IF @ = "header" THEN "headerOk" ELSE "bodyOk"]
    /\ UNCHANGED peerUp

\* End of file on the peer's side of the stream.
PeerFinishes ==
    /\ conn.read \in Pending
    /\ conn' = [conn EXCEPT !.read = AbortRead(@)]
    /\ UNCHANGED peerUp

\* The peer reads what was written.
PeerReceives ==
    /\ conn.write = "pending" /\ conn.open /\ peerUp
    /\ conn' = [conn EXCEPT !.write = "ok"]
    /\ UNCHANGED peerUp

\* The TCP connection fails, for both directions.
PeerFails ==
    /\ peerUp
    /\ peerUp' = FALSE
    /\ conn' = [conn EXCEPT !.read = AbortRead(@), !.write = AbortWrite(@)]

Handlers ==
    \/ ReadFailed \/ ReadAfterClose \/ NoProtocol \/ HandleTimeout \/ Destroy
    \/ ParseHeader \/ OnWriteOperation
    \/ \E answers, disconnects \in BOOLEAN : ParsePacket(answers, disconnects)

Next ==
    \/ Handlers
    \/ ReadTimerExpires \/ WriteTimerExpires
    \/ Refuse \/ GameSend \/ GameDisconnect \/ CloseAll
    \/ \E serverFirst \in BOOLEAN : Accept(serverFirst)
    \/ PeerSends \/ PeerFinishes \/ PeerReceives \/ PeerFails

\* Queued handlers run and time passes.  The peer owes nothing.
Spec ==
    /\ Init /\ [][Next]_vars
    /\ WF_vars(ReadFailed) /\ WF_vars(ReadAfterClose) /\ WF_vars(HandleTimeout)
    /\ WF_vars(Destroy) /\ WF_vars(OnWriteOperation)
    /\ WF_vars(Handlers)
    /\ WF_vars(ReadTimerExpires) /\ WF_vars(WriteTimerExpires)

\* A peer that keeps receiving.
ReceivingPeerSpec == Spec /\ WF_vars(PeerReceives)

-----------------------------------------------------------------------------
(* Properties                                                              *)

\* The protocol's release() is queued exactly once, when the connection
\* closes, however many timeouts, errors and disconnects close it.
ReleasedOnce == conn.releases = IF conn.closed /\ conn.protocol THEN 1 ELSE 0

\* The protocol is never entered, and no message accepted, after close():
\* release() may already be running on the game thread.
ProtocolLeftAlone ==
    [][conn.closed => /\ conn'.receivedFirst = conn.receivedFirst
                      /\ conn'.protocol = conn.protocol
                      /\ conn'.queue <= conn.queue]_vars

\* A peer that falls silent is dropped: a read cannot stay pending for ever
\* on a connection that has not been closed.
SilentPeerDropped ==
    (conn.read \in Pending /\ ~conn.closed) ~> (conn.read \notin Pending \/ conn.closed)

\* After close() the socket is closed as well, as close() says of the case
\* that messages are still queued: it "will be closed by the destructor or
\* onWriteOperation".
ClosedMeansSocketCloses == conn.closed ~> ~conn.open
=============================================================================
