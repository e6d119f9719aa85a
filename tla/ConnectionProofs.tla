-------------------------- MODULE ConnectionProofs --------------------------
(***************************************************************************)
(* Theorems about Connection for a message queue of any length.  The       *)
(* invariants are stated of a Connection object, since its member          *)
(* functions call each other in states that no other thread sees.          *)
(***************************************************************************)
EXTENDS Connection, TLAPS

Objects ==
    [open : BOOLEAN, closed : BOOLEAN, managed : BOOLEAN, accepted : BOOLEAN,
     protocol : BOOLEAN, receivedFirst : BOOLEAN, queue : 0 .. MaxQueue,
     read : Reads, write : Writes, readTimer : BOOLEAN, writeTimer : BOOLEAN,
     lateTimeout : BOOLEAN, releases : 0 .. 2]

\* ReleasedOnce, of an object.
Released(c) == c.releases = IF c.closed /\ c.protocol THEN 1 ELSE 0

\* messageQueue is not empty exactly while a write of its first message is outstanding.
Drains(c) == c.write = "none" <=> c.queue = 0

\* Only an open socket of a connection that has not failed has operations pending.
PendingOpen(c) ==
    /\ c.read \in Pending => c.open /\ peerUp
    /\ c.write = "pending" => c.open /\ peerUp
    /\ c.write = "err" => ~c.open \/ ~peerUp

\* close() leaves a socket open only if a write will follow, or the connection failed.
Waits(c) == c.closed /\ c.open => c.queue > 0 \/ ~peerUp

Sound(c) == c \in Objects /\ Released(c) /\ PendingOpen(c) /\ Waits(c)

IInv == Sound(conn) /\ Drains(conn) /\ peerUp \in BOOLEAN

-----------------------------------------------------------------------------
(* The member functions                                                    *)

LEMMA CloseSocketSound ==
    ASSUME NEW c \in Objects, Released(c), PendingOpen(c)
    PROVE  /\ Sound(CloseSocket(c)) /\ ~CloseSocket(c).open
           /\ Drains(c) => Drains(CloseSocket(c))
<1>1. CASE ~c.open
  BY <1>1 DEF CloseSocket, Sound, Waits
<1>2. CASE c.open
  <2> DEFINE d == CloseSocket(c)
  <2>1. d = [c EXCEPT !.open = FALSE, !.readTimer = FALSE, !.writeTimer = FALSE,
                      !.read = AbortRead(c.read), !.write = AbortWrite(c.write)]
    BY <1>2 DEF CloseSocket
  <2>2. /\ c.read \in Reads /\ c.write \in Writes
        /\ AbortRead(c.read) \in Reads \ Pending
        /\ AbortWrite(c.write) \in Writes \ {"pending"}
        /\ AbortWrite(c.write) = "none" <=> c.write = "none"
    BY DEF AbortRead, AbortWrite, Objects, Reads, Writes, Pending
  <2>3. d \in Objects
    BY <2>1, <2>2 DEF Objects
  <2>4. /\ d.open = FALSE /\ d.queue = c.queue /\ d.closed = c.closed
        /\ d.protocol = c.protocol /\ d.releases = c.releases
        /\ d.read = AbortRead(c.read) /\ d.write = AbortWrite(c.write)
    BY <2>1 DEF Objects
  <2> HIDE DEF d
  <2>5. Released(d) /\ PendingOpen(d) /\ Waits(d) /\ ~d.open /\ (Drains(c) => Drains(d))
    BY <2>2, <2>4 DEF Released, PendingOpen, Waits, Drains, Pending
  <2> QED
    BY <2>3, <2>5 DEF Sound, d
<1> QED
  BY <1>1, <1>2

LEMMA CloseSound ==
    ASSUME NEW c \in Objects, Released(c), PendingOpen(c), Waits(c), NEW force \in BOOLEAN
    PROVE  Sound(Close(c, force)) /\ (Drains(c) => Drains(Close(c, force)))
<1> DEFINE marked == [c EXCEPT !.managed = FALSE, !.closed = TRUE,
                               !.releases = IF c.protocol THEN @ + 1 ELSE @]
<1>1. CASE c.closed
  BY <1>1 DEF Close, Objects, Sound, Released, PendingOpen, Waits, Drains
<1>2. CASE ~c.closed
  <2> DEFINE r == IF c.protocol THEN c.releases + 1 ELSE c.releases
  <2>a. c.releases = 0
    BY <1>2 DEF Objects, Released
  <2>b. r \in 0 .. 2 /\ r = (IF c.protocol THEN 1 ELSE 0)
    BY <2>a
  <2>c. marked = [c EXCEPT !.managed = FALSE, !.closed = TRUE, !.releases = r]
    OBVIOUS
  <2> HIDE DEF r
  <2>d. marked \in Objects
    BY <2>b, <2>c DEF Objects
  <2>e. /\ marked.open = c.open /\ marked.queue = c.queue /\ marked.closed = TRUE
        /\ marked.protocol = c.protocol /\ marked.releases = r
        /\ marked.read = c.read /\ marked.write = c.write
    BY <2>c DEF Objects
  <2>1. /\ marked \in Objects /\ Released(marked) /\ PendingOpen(marked)
        /\ marked.queue = c.queue /\ marked.closed /\ (Drains(c) => Drains(marked))
    <3> HIDE DEF marked
    <3> QED
      BY <2>b, <2>d, <2>e DEF Released, PendingOpen, Drains
  <2>2. CASE c.queue = 0 \/ force
    BY <1>2, <2>1, <2>2, CloseSocketSound DEF Close
  <2>3. CASE ~(c.queue = 0 \/ force)
    BY <1>2, <2>1, <2>3 DEF Close, Sound, Waits, Objects
  <2> QED
    BY <2>2, <2>3
<1> QED
  BY <1>1, <1>2

LEMMA StartReadSound ==
    ASSUME NEW c \in Objects, Sound(c), NEW what \in Pending
    PROVE  Sound(StartRead(c, what)) /\ (Drains(c) => Drains(StartRead(c, what)))
<1> DEFINE d == StartRead(c, what)
           r == IF c.open /\ peerUp THEN what ELSE AbortRead(what)
<1>1. r \in Reads /\ (r \in Pending => c.open /\ peerUp)
  BY DEF AbortRead, Reads, Pending
<1>2. d = [c EXCEPT !.readTimer = TRUE, !.read = r]
  BY DEF StartRead
<1> HIDE DEF r
<1>3. d \in Objects
  BY <1>1, <1>2 DEF Objects
<1>4. /\ d.open = c.open /\ d.queue = c.queue /\ d.closed = c.closed /\ d.write = c.write
      /\ d.protocol = c.protocol /\ d.releases = c.releases /\ d.read = r
  BY <1>2 DEF Objects
<1> HIDE DEF d
<1>5. Sound(d) /\ (Drains(c) => Drains(d))
  BY <1>1, <1>3, <1>4 DEF Sound, Released, PendingOpen, Waits, Drains
<1> QED
  BY <1>5 DEF d

\* A message at the head of the queue is written.
LEMMA InternalSendSound ==
    ASSUME NEW c \in Objects, Sound(c), c.queue > 0
    PROVE  Sound(InternalSend(c)) /\ Drains(InternalSend(c))
<1> DEFINE d == InternalSend(c)
           w == IF c.open /\ peerUp THEN "pending" ELSE "err"
<1>1. /\ w \in Writes \ {"none"} /\ (w = "pending" => c.open /\ peerUp)
      /\ w = "err" => ~c.open \/ ~peerUp
  BY DEF Writes
<1>2. d = [c EXCEPT !.writeTimer = TRUE, !.write = w]
  BY DEF InternalSend
<1> HIDE DEF w
<1>3. d \in Objects
  BY <1>1, <1>2 DEF Objects
<1>4. /\ d.open = c.open /\ d.queue = c.queue /\ d.closed = c.closed /\ d.write = w
      /\ d.protocol = c.protocol /\ d.releases = c.releases /\ d.read = c.read
  BY <1>2 DEF Objects
<1> HIDE DEF d
<1>5. Sound(d) /\ Drains(d)
  BY <1>1, <1>3, <1>4 DEF Sound, Released, PendingOpen, Waits, Drains, Objects
<1> QED
  BY <1>5 DEF d

LEMMA SendSound ==
    ASSUME NEW c \in Objects, Sound(c), Drains(c), c.queue < MaxQueue
    PROVE  Sound(Send(c)) /\ Drains(Send(c))
<1> DEFINE q == [c EXCEPT !.queue = c.queue + 1]
<1>1. c.queue + 1 \in 1 .. MaxQueue
  BY ConstantsAssumption DEF Objects
<1>2. q \in Objects
  BY <1>1 DEF Objects
<1>3. /\ q.open = c.open /\ q.queue = c.queue + 1 /\ q.closed = c.closed /\ q.write = c.write
      /\ q.protocol = c.protocol /\ q.releases = c.releases /\ q.read = c.read
  BY DEF Objects
<1>4. Send(c) = IF c.closed THEN c ELSE IF c.queue = 0 THEN InternalSend(q) ELSE q
  BY DEF Send
<1> HIDE DEF q
<1>5. Sound(q) /\ q.queue > 0
  BY <1>1, <1>2, <1>3 DEF Sound, Released, PendingOpen, Waits
<1>6. c.queue # 0 => Drains(q)
  BY <1>1, <1>3 DEF Drains
<1> QED
  BY <1>2, <1>4, <1>5, <1>6, InternalSendSound

\* What is changed has no part in the invariants, or ends an operation.
LEMMA Ended ==
    ASSUME NEW c \in Objects, Sound(c), NEW d \in Objects,
           d.open = c.open, d.queue = c.queue, d.closed = c.closed,
           d.protocol = c.protocol, d.releases = c.releases, d.write = c.write,
           d.read = c.read \/ d.read \notin Pending
    PROVE  Sound(d) /\ (Drains(c) => Drains(d))
BY DEF Sound, Released, PendingOpen, Waits, Drains

LEMMA HandledSound ==
    ASSUME NEW c \in Objects, Sound(c)
    PROVE  /\ Handled(c) \in Objects /\ Sound(Handled(c)) /\ (Drains(c) => Drains(Handled(c)))
           /\ Handled(c).closed = c.closed /\ Handled(c).protocol = c.protocol
           /\ Handled(c).queue = c.queue
<1> DEFINE d == Handled(c)
<1>1. d \in Objects
  BY DEF Handled, Objects, Reads
<1>2. /\ d.open = c.open /\ d.queue = c.queue /\ d.closed = c.closed /\ d.write = c.write
      /\ d.protocol = c.protocol /\ d.releases = c.releases /\ d.read = "none"
  BY DEF Handled, Objects
<1> HIDE DEF d
<1>3. Sound(d) /\ (Drains(c) => Drains(d))
  BY <1>1, <1>2, Ended DEF Pending
<1> QED
  BY <1>1, <1>2, <1>3 DEF d

\* A first message, or a server that speaks first, gives an open connection its protocol.
LEMMA Begun ==
    ASSUME NEW c \in Objects, Sound(c), ~c.closed, NEW d \in Objects,
           d.open = c.open, d.queue = c.queue, d.closed = c.closed,
           d.releases = c.releases, d.write = c.write, d.read = c.read
    PROVE  Sound(d) /\ (Drains(c) => Drains(d))
BY DEF Sound, Released, PendingOpen, Waits, Drains

-----------------------------------------------------------------------------
(* The steps                                                               *)

LEMMA Stepped ==
    ASSUME NEW d, Sound(d), Drains(d), conn' = d, peerUp \in BOOLEAN, UNCHANGED peerUp
    PROVE  IInv'
BY DEF IInv, Sound, Released, PendingOpen, Waits, Drains

LEMMA InitIInv == Init => IInv
<1> DEFINE d == [open |-> TRUE, closed |-> FALSE, managed |-> TRUE, accepted |-> FALSE,
                 protocol |-> FALSE, receivedFirst |-> FALSE, queue |-> 0,
                 read |-> "none", write |-> "none", readTimer |-> FALSE,
                 writeTimer |-> FALSE, lateTimeout |-> FALSE, releases |-> 0]
<1>1. d \in Objects
  BY ConstantsAssumption DEF Objects, Reads, Writes
<1>2. /\ ~d.closed /\ d.releases = 0 /\ d.read = "none" /\ d.write = "none" /\ d.queue = 0
  OBVIOUS
<1>3. Init => conn = d /\ peerUp = TRUE
  BY DEF Init
<1> HIDE DEF d
<1>4. Sound(d) /\ Drains(d)
  BY <1>1, <1>2 DEF Sound, Released, PendingOpen, Waits, Drains, Pending
<1> QED
  BY <1>3, <1>4 DEF IInv

LEMMA AcceptIInv ==
    ASSUME IInv, NEW serverFirst \in BOOLEAN, Accept(serverFirst)
    PROVE  IInv'
<1> DEFINE d == [conn EXCEPT !.accepted = TRUE, !.protocol = serverFirst]
<1>1. conn \in Objects /\ Sound(conn) /\ Drains(conn) /\ peerUp \in BOOLEAN
  BY DEF IInv, Sound
<1>2. d \in Objects
  BY <1>1 DEF Objects
<1>3. /\ d.open = conn.open /\ d.queue = conn.queue /\ d.closed = conn.closed
      /\ d.releases = conn.releases /\ d.write = conn.write /\ d.read = conn.read
  BY <1>1 DEF Objects
<1>4. ~conn.closed /\ conn' = StartRead(d, "header") /\ UNCHANGED peerUp
  BY DEF Accept
<1> HIDE DEF d
<1>5. Sound(d) /\ Drains(d)
  BY <1>1, <1>2, <1>3, <1>4, Begun
<1>6. Sound(StartRead(d, "header")) /\ Drains(StartRead(d, "header"))
  BY <1>2, <1>5, StartReadSound DEF Pending
<1> QED
  BY <1>1, <1>4, <1>6, Stepped

LEMMA ParsePacketIInv ==
    ASSUME IInv, NEW answers \in BOOLEAN, NEW disconnects \in BOOLEAN,
           ParsePacket(answers, disconnects)
    PROVE  IInv'
<1> DEFINE entered == [Handled(conn) EXCEPT !.receivedFirst = TRUE, !.protocol = TRUE]
           answered == IF answers THEN Send(entered) ELSE entered
           left == IF disconnects THEN Close(answered, FALSE) ELSE answered
<1>1. conn \in Objects /\ Sound(conn) /\ Drains(conn) /\ peerUp \in BOOLEAN
  BY DEF IInv, Sound
<1>2. ~conn.closed /\ conn.queue < MaxQueue /\ UNCHANGED peerUp
      /\ conn' = StartRead(left, "header")
  BY DEF ParsePacket
<1>3. /\ Handled(conn) \in Objects /\ Sound(Handled(conn)) /\ Drains(Handled(conn))
      /\ ~Handled(conn).closed /\ Handled(conn).queue < MaxQueue
  BY <1>1, <1>2, HandledSound
<1>4. entered \in Objects
  BY <1>3 DEF Objects
<1>5. LET c == Handled(conn)
      IN  /\ entered.open = c.open /\ entered.queue = c.queue /\ entered.closed = c.closed
          /\ entered.releases = c.releases /\ entered.write = c.write
          /\ entered.read = c.read
  BY <1>3 DEF Objects
<1> HIDE DEF entered
<1>6. Sound(entered) /\ Drains(entered) /\ entered.queue < MaxQueue
  BY <1>3, <1>4, <1>5, Begun
<1>7. Sound(answered) /\ Drains(answered)
  BY <1>4, <1>6, SendSound
<1> HIDE DEF answered
<1>8. Sound(left) /\ Drains(left)
  <2>1. /\ answered \in Objects /\ Released(answered)
        /\ PendingOpen(answered) /\ Waits(answered)
    BY <1>7 DEF Sound
  <2> QED
    BY <1>7, <2>1, CloseSound
<1> HIDE DEF left
<1>9. Sound(StartRead(left, "header")) /\ Drains(StartRead(left, "header"))
  BY <1>8, StartReadSound DEF Pending, Sound
<1> QED
  BY <1>1, <1>2, <1>9, Stepped

LEMMA NoProtocolIInv == IInv /\ NoProtocol => IInv'
<1> SUFFICES ASSUME IInv, NoProtocol PROVE IInv'
  OBVIOUS
<1> DEFINE d == [Handled(conn) EXCEPT !.receivedFirst = TRUE]
<1>1. conn \in Objects /\ Sound(conn) /\ Drains(conn) /\ peerUp \in BOOLEAN
  BY DEF IInv, Sound
<1>2. conn' = Close(d, TRUE) /\ UNCHANGED peerUp
  BY DEF NoProtocol
<1>3. Handled(conn) \in Objects /\ Sound(Handled(conn)) /\ Drains(Handled(conn))
  BY <1>1, HandledSound
<1>4. d \in Objects
  BY <1>3 DEF Objects
<1>5. LET c == Handled(conn)
      IN  /\ d.open = c.open /\ d.queue = c.queue /\ d.closed = c.closed
          /\ d.protocol = c.protocol /\ d.releases = c.releases
          /\ d.write = c.write /\ d.read = c.read
  BY <1>3 DEF Objects
<1> HIDE DEF d
<1>6. Sound(d) /\ Drains(d)
  BY <1>3, <1>4, <1>5, Ended
<1> QED
  BY <1>1, <1>2, <1>6, CloseSound, Stepped DEF Sound

\* The completion of a read whose connection failed or closed, or a header.
LEMMA ReadIInv == IInv /\ (ReadFailed \/ ReadAfterClose \/ ParseHeader) => IInv'
<1> SUFFICES ASSUME IInv, ReadFailed \/ ReadAfterClose \/ ParseHeader PROVE IInv'
  OBVIOUS
<1> DEFINE d == Handled(conn)
<1>1. Sound(conn) /\ Drains(conn) /\ peerUp \in BOOLEAN
  BY DEF IInv
<1>2. d \in Objects /\ Sound(d) /\ Drains(d)
  BY <1>1, HandledSound DEF Sound
<1>3. /\ UNCHANGED peerUp
      /\ conn' \in {Close(d, TRUE), Close(d, FALSE), d, StartRead(d, "body")}
  BY DEF ReadFailed, ReadAfterClose, ParseHeader
<1> HIDE DEF d
<1>4. Sound(conn') /\ Drains(conn')
  <2>1. Sound(Close(d, TRUE)) /\ Drains(Close(d, TRUE))
    BY <1>2, CloseSound DEF Sound
  <2>2. Sound(Close(d, FALSE)) /\ Drains(Close(d, FALSE))
    BY <1>2, CloseSound DEF Sound
  <2>3. Sound(StartRead(d, "body")) /\ Drains(StartRead(d, "body"))
    BY <1>2, StartReadSound DEF Pending
  <2> QED
    BY <1>2, <1>3, <2>1, <2>2, <2>3
<1> QED
  BY <1>1, <1>3, <1>4, Stepped

\* The written message leaves the queue; the next one, or the close, follows.
LEMMA OnWriteOperationIInv == IInv /\ OnWriteOperation => IInv'
<1> SUFFICES ASSUME IInv, OnWriteOperation PROVE IInv'
  OBVIOUS
<1> DEFINE q == conn.queue - 1
           popped == [conn EXCEPT !.write = "none", !.writeTimer = FALSE, !.queue = q]
           failed == [popped EXCEPT !.queue = 0]
<1>1. conn \in Objects /\ Sound(conn) /\ Drains(conn) /\ peerUp \in BOOLEAN
  BY DEF IInv, Sound
<1>2. /\ conn.write \in {"ok", "err"} /\ UNCHANGED peerUp
      /\ conn' = IF conn.write = "err" THEN Close(failed, TRUE)
                 ELSE IF popped.queue > 0 THEN InternalSend(popped)
                 ELSE IF popped.closed THEN CloseSocket(popped)
                 ELSE popped
  BY DEF OnWriteOperation
<1>3. q \in 0 .. MaxQueue
  BY <1>1, <1>2, ConstantsAssumption DEF Drains, Objects
<1>4. popped \in Objects
  BY <1>1, <1>3 DEF Objects, Writes
<1>5. /\ popped.open = conn.open /\ popped.closed = conn.closed
      /\ popped.protocol = conn.protocol /\ popped.releases = conn.releases
      /\ popped.read = conn.read /\ popped.write = "none" /\ popped.queue = q
  BY <1>1 DEF Objects
<1> HIDE DEF q, popped
<1>6. failed \in Objects
  BY <1>4, ConstantsAssumption DEF Objects
<1>7. /\ failed.open = popped.open /\ failed.closed = popped.closed
      /\ failed.protocol = popped.protocol /\ failed.releases = popped.releases
      /\ failed.read = popped.read /\ failed.write = popped.write /\ failed.queue = 0
  BY <1>4 DEF Objects
<1> HIDE DEF failed
<1>8. Released(popped) /\ PendingOpen(popped)
  BY <1>1, <1>5 DEF Sound, Released, PendingOpen
<1>9. CASE conn.write = "err"
  <2>1. Released(failed) /\ PendingOpen(failed) /\ Drains(failed)
    BY <1>5, <1>7, <1>8 DEF Released, PendingOpen, Drains
  <2>2. Waits(failed)
    BY <1>1, <1>5, <1>7, <1>9 DEF Sound, PendingOpen, Waits
  <2> QED
    BY <1>1, <1>2, <1>6, <1>9, <2>1, <2>2, CloseSound, Stepped
<1>10. CASE conn.write # "err" /\ popped.queue > 0
  <2>1. Sound(popped)
    BY <1>4, <1>8, <1>10 DEF Sound, Waits
  <2> QED
    BY <1>1, <1>2, <1>4, <1>10, <2>1, InternalSendSound, Stepped
<1>11. CASE conn.write # "err" /\ ~(popped.queue > 0) /\ popped.closed
  <2>1. Drains(popped)
    BY <1>3, <1>5, <1>11 DEF Drains
  <2> QED
    BY <1>1, <1>2, <1>4, <1>8, <1>11, <2>1, CloseSocketSound, Stepped
<1>12. CASE conn.write # "err" /\ ~(popped.queue > 0) /\ ~popped.closed
  <2>1. Sound(popped) /\ Drains(popped)
    BY <1>3, <1>4, <1>5, <1>8, <1>12 DEF Sound, Waits, Drains
  <2> QED
    BY <1>1, <1>2, <1>12, <2>1, Stepped
<1> QED
  BY <1>9, <1>10, <1>11, <1>12

\* Timers and flags, which the invariants do not read, and operations that end.
LEMMA MarkIInv ==
    ASSUME IInv, ReadTimerExpires \/ WriteTimerExpires \/ PeerFinishes
    PROVE  IInv'
<1> DEFINE r == AbortRead(conn.read)
<1>1. conn \in Objects /\ Sound(conn) /\ Drains(conn) /\ peerUp \in BOOLEAN
  BY DEF IInv, Sound
<1>2. UNCHANGED peerUp
  BY DEF ReadTimerExpires, WriteTimerExpires, PeerFinishes
<1>3. r \in Reads \ Pending
  BY <1>1 DEF AbortRead, Objects, Reads, Pending
<1>4. /\ conn' \in Objects
      /\ conn'.open = conn.open /\ conn'.queue = conn.queue /\ conn'.closed = conn.closed
      /\ conn'.protocol = conn.protocol /\ conn'.releases = conn.releases
      /\ conn'.write = conn.write /\ (conn'.read = conn.read \/ conn'.read = r)
  <2>1. CASE ReadTimerExpires
    BY <1>1, <2>1 DEF ReadTimerExpires, Objects
  <2>2. CASE WriteTimerExpires
    BY <1>1, <2>2 DEF WriteTimerExpires, Objects
  <2>3. CASE PeerFinishes
    <3>1. conn' = [conn EXCEPT !.read = r]
      BY <2>3 DEF PeerFinishes
    <3> HIDE DEF r
    <3> QED
      BY <1>1, <1>3, <3>1 DEF Objects
  <2> QED
    BY <2>1, <2>2, <2>3
<1> HIDE DEF r
<1>5. Sound(conn') /\ Drains(conn')
  BY <1>1, <1>3, <1>4, Ended
<1> QED
  BY <1>1, <1>2, <1>5, Stepped

LEMMA HandleTimeoutIInv == IInv /\ HandleTimeout => IInv'
<1> SUFFICES ASSUME IInv, HandleTimeout PROVE IInv'
  OBVIOUS
<1> DEFINE d == [conn EXCEPT !.lateTimeout = FALSE]
<1>1. conn \in Objects /\ Sound(conn) /\ Drains(conn) /\ peerUp \in BOOLEAN
  BY DEF IInv, Sound
<1>2. UNCHANGED peerUp /\ conn' \in {Close(d, TRUE), d}
  BY DEF HandleTimeout
<1>3. d \in Objects
  BY <1>1 DEF Objects
<1>4. /\ d.open = conn.open /\ d.queue = conn.queue /\ d.closed = conn.closed
      /\ d.protocol = conn.protocol /\ d.releases = conn.releases
      /\ d.write = conn.write /\ d.read = conn.read
  BY <1>1 DEF Objects
<1> HIDE DEF d
<1>5. Sound(d) /\ Drains(d)
  BY <1>1, <1>3, <1>4, Ended
<1>6. Sound(Close(d, TRUE)) /\ Drains(Close(d, TRUE))
  BY <1>3, <1>5, CloseSound DEF Sound
<1> QED
  BY <1>1, <1>2, <1>5, <1>6, Stepped

LEMMA RefuseIInv == IInv /\ Refuse => IInv'
<1> SUFFICES ASSUME IInv, Refuse PROVE IInv'
  OBVIOUS
<1> DEFINE d == [conn EXCEPT !.accepted = TRUE]
<1>1. conn \in Objects /\ Sound(conn) /\ Drains(conn) /\ peerUp \in BOOLEAN
  BY DEF IInv, Sound
<1>2. UNCHANGED peerUp /\ conn' = Close(d, TRUE)
  BY DEF Refuse
<1>3. d \in Objects
  BY <1>1 DEF Objects
<1>4. /\ d.open = conn.open /\ d.queue = conn.queue /\ d.closed = conn.closed
      /\ d.protocol = conn.protocol /\ d.releases = conn.releases
      /\ d.write = conn.write /\ d.read = conn.read
  BY <1>1 DEF Objects
<1> HIDE DEF d
<1>5. Sound(d) /\ Drains(d)
  BY <1>1, <1>3, <1>4, Ended
<1> QED
  BY <1>1, <1>2, <1>3, <1>5, CloseSound, Stepped DEF Sound

\* The calls of the game thread, and the end of the object.
LEMMA GameIInv == IInv /\ (GameSend \/ GameDisconnect \/ Destroy) => IInv'
<1> SUFFICES ASSUME IInv, GameSend \/ GameDisconnect \/ Destroy PROVE IInv'
  OBVIOUS
<1>1. /\ conn \in Objects /\ Sound(conn) /\ Drains(conn) /\ peerUp \in BOOLEAN
      /\ Released(conn) /\ PendingOpen(conn) /\ Waits(conn)
  BY DEF IInv, Sound
<1>2. CASE GameSend
  BY <1>1, <1>2, SendSound, Stepped DEF GameSend
<1>3. CASE GameDisconnect
  BY <1>1, <1>3, CloseSound, Stepped DEF GameDisconnect
<1>4. CASE Destroy
  BY <1>1, <1>4, CloseSocketSound, Stepped DEF Destroy
<1> QED
  BY <1>2, <1>3, <1>4

\* closeAll leaves the object as a closed socket does, its timers apart.
LEMMA CloseAllIInv == IInv /\ CloseAll => IInv'
<1> SUFFICES ASSUME IInv, CloseAll PROVE IInv'
  OBVIOUS
<1> DEFINE r == AbortRead(conn.read)
           w == AbortWrite(conn.write)
           d == [conn EXCEPT !.managed = FALSE, !.open = FALSE, !.read = r, !.write = w]
<1>1. conn \in Objects /\ Sound(conn) /\ Drains(conn) /\ peerUp \in BOOLEAN
  BY DEF IInv, Sound
<1>2. UNCHANGED peerUp /\ conn' = d
  BY DEF CloseAll
<1>3. /\ r \in Reads \ Pending /\ w \in Writes \ {"pending"}
      /\ w = "none" <=> conn.write = "none"
  BY <1>1 DEF AbortRead, AbortWrite, Objects, Reads, Writes, Pending
<1> HIDE DEF r, w
<1>4. d \in Objects
  BY <1>1, <1>3 DEF Objects
<1>5. /\ ~d.open /\ d.queue = conn.queue /\ d.closed = conn.closed
      /\ d.protocol = conn.protocol /\ d.releases = conn.releases
      /\ d.write = w /\ d.read = r
  BY <1>1 DEF Objects
<1> HIDE DEF d
<1>6. Sound(d) /\ Drains(d)
  BY <1>1, <1>3, <1>4, <1>5 DEF Sound, Released, PendingOpen, Waits, Drains
<1> QED
  BY <1>1, <1>2, <1>6, Stepped

LEMMA PeerIInv == IInv /\ (PeerSends \/ PeerReceives) => IInv'
<1> SUFFICES ASSUME IInv, PeerSends \/ PeerReceives PROVE IInv'
  OBVIOUS
<1> DEFINE r == IF conn.read = "header" THEN "headerOk" ELSE "bodyOk"
<1>1. conn \in Objects /\ Sound(conn) /\ Drains(conn) /\ peerUp \in BOOLEAN
  BY DEF IInv, Sound
<1>2. UNCHANGED peerUp
  BY DEF PeerSends, PeerReceives
<1>3. r \in Reads \ Pending
  BY DEF Reads, Pending
<1>4. CASE PeerSends
  <2>1. conn' = [conn EXCEPT !.read = r]
    BY <1>4 DEF PeerSends
  <2> HIDE DEF r
  <2>2. /\ conn' \in Objects
        /\ conn'.open = conn.open /\ conn'.queue = conn.queue /\ conn'.closed = conn.closed
        /\ conn'.protocol = conn.protocol /\ conn'.releases = conn.releases
        /\ conn'.write = conn.write /\ conn'.read = r
    BY <1>1, <1>3, <2>1 DEF Objects
  <2>3. Sound(conn') /\ Drains(conn')
    BY <1>1, <1>3, <2>2, Ended
  <2> QED
    BY <1>1, <1>2, <2>3, Stepped
<1>5. CASE PeerReceives
  <2>1. /\ conn' \in Objects
        /\ conn'.open = conn.open /\ conn'.queue = conn.queue /\ conn'.closed = conn.closed
        /\ conn'.protocol = conn.protocol /\ conn'.releases = conn.releases
        /\ conn'.write = "ok" /\ conn'.read = conn.read /\ conn.write = "pending"
    BY <1>1, <1>5 DEF PeerReceives, Objects, Writes
  <2>2. Sound(conn') /\ Drains(conn')
    BY <1>1, <2>1 DEF Sound, Released, PendingOpen, Waits, Drains
  <2> QED
    BY <1>1, <1>2, <2>2, Stepped
<1> QED
  BY <1>4, <1>5

\* The failure of the connection ends the operations of both directions.
LEMMA PeerFailsIInv == IInv /\ PeerFails => IInv'
<1> SUFFICES ASSUME IInv, PeerFails PROVE IInv'
  OBVIOUS
<1> DEFINE r == AbortRead(conn.read)
           w == AbortWrite(conn.write)
<1>1. conn \in Objects /\ Sound(conn) /\ Drains(conn)
  BY DEF IInv, Sound
<1>2. conn' = [conn EXCEPT !.read = r, !.write = w] /\ peerUp' = FALSE
  BY DEF PeerFails
<1>3. /\ r \in Reads \ Pending /\ w \in Writes \ {"pending"}
      /\ w = "none" <=> conn.write = "none"
  BY <1>1 DEF AbortRead, AbortWrite, Objects, Reads, Writes, Pending
<1> HIDE DEF r, w
<1>4. /\ conn' \in Objects
      /\ conn'.queue = conn.queue /\ conn'.closed = conn.closed
      /\ conn'.protocol = conn.protocol /\ conn'.releases = conn.releases
      /\ conn'.write = w /\ conn'.read = r
  BY <1>1, <1>2, <1>3 DEF Objects
<1>5. (peerUp \in BOOLEAN)' /\ ~peerUp'
  BY <1>2
<1> QED
  BY <1>1, <1>3, <1>4, <1>5 DEF IInv, Sound, Released, PendingOpen, Waits, Drains

LEMMA NextIInv == IInv /\ [Next]_vars => IInv'
<1> SUFFICES ASSUME IInv, [Next]_vars PROVE IInv'
  OBVIOUS
<1>1. CASE Handlers
  <2>1. ASSUME NEW answers \in BOOLEAN, NEW disconnects \in BOOLEAN,
               ParsePacket(answers, disconnects)
        PROVE  IInv'
    BY <2>1, ParsePacketIInv
  <2> QED
    BY <1>1, <2>1, ReadIInv, NoProtocolIInv, HandleTimeoutIInv, GameIInv,
       OnWriteOperationIInv DEF Handlers
<1>2. ASSUME NEW serverFirst \in BOOLEAN, Accept(serverFirst)
      PROVE  IInv'
  BY <1>2, AcceptIInv
<1>3. CASE UNCHANGED vars
  BY <1>3 DEF vars, IInv, Sound, Released, PendingOpen, Waits, Drains
<1> QED
  BY <1>1, <1>2, <1>3, MarkIInv, RefuseIInv, GameIInv, CloseAllIInv, PeerIInv,
     PeerFailsIInv DEF Next

-----------------------------------------------------------------------------
(* The theorems                                                            *)

\* Of every behaviour: what the lemmas above say of one step.
THEOREM InductiveInvariant == Spec => []IInv
BY InitIInv, NextIInv, PTL DEF Spec

\* The fields of a Connection keep their ranges; in particular onWriteOperation
\* never pops an empty messageQueue.
THEOREM TypeCorrect == Spec => []TypeOK
<1>1. IInv => TypeOK
  BY DEF IInv, Sound, Objects, TypeOK
<1> QED
  BY <1>1, InductiveInvariant, PTL

\* Whatever closes a connection, and however often - timeouts, errors, the
\* protocol, the manager - its protocol's release() is queued exactly once.
THEOREM ReleaseQueuedOnce == Spec => []ReleasedOnce
<1>1. IInv => ReleasedOnce
  BY DEF IInv, Sound, Released, ReleasedOnce
<1> QED
  BY <1>1, InductiveInvariant, PTL

\* After close(), on a connection that has not failed, the socket is closed or
\* the write of a queued message is outstanding, whose completion closes it:
\* the safety half of "will be closed by the destructor or onWriteOperation".
THEOREM CloseIsOwed ==
    Spec => [](conn.closed /\ conn.open /\ peerUp => conn.write \in {"pending", "ok"})
<1>1. IInv => (conn.closed /\ conn.open /\ peerUp => conn.write \in {"pending", "ok"})
  BY DEF IInv, Sound, Drains, PendingOpen, Waits, Objects, Writes
<1> QED
  BY <1>1, InductiveInvariant, PTL

\* What a member function leaves alone.
Kept(c, d) ==
    d.receivedFirst = c.receivedFirst /\ d.protocol = c.protocol /\ d.queue = c.queue

\* The step ProtocolLeftAlone allows.
LeftAlone(c, d) ==
    d.receivedFirst = c.receivedFirst /\ d.protocol = c.protocol /\ d.queue <= c.queue

\* What is left alone by each of two calls is left alone by both.
LEMMA Composed ==
    /\ \A b, c, d : Kept(b, c) /\ Kept(c, d) => Kept(b, d)
    /\ \A b, c, d : LeftAlone(b, c) /\ Kept(c, d) => LeftAlone(b, d)
    /\ \A b, c, d : /\ LeftAlone(b, c) /\ LeftAlone(c, d)
                    /\ {b.queue, c.queue, d.queue} \subseteq Nat
                    => LeftAlone(b, d)
    /\ \A c, d : c.queue \in Nat /\ Kept(c, d) => LeftAlone(c, d)
BY DEF Kept, LeftAlone

LEMMA CloseKeeps ==
    ASSUME NEW c \in Objects, NEW force \in BOOLEAN
    PROVE  /\ Kept(c, CloseSocket(c)) /\ Kept(c, Close(c, force))
           /\ Kept(c, Handled(c)) /\ Kept(c, InternalSend(c))
<1> DEFINE k == IF c.protocol THEN c.releases + 1 ELSE c.releases
           left == [c EXCEPT !.managed = FALSE]
           marked == [c EXCEPT !.managed = FALSE, !.closed = TRUE, !.releases = k]
<1>1. Close(c, force) \in {marked, left, CloseSocket(marked)}
  BY DEF Close
<1> HIDE DEF k
<1>2. ASSUME NEW d \in {c, marked}
      PROVE  Kept(d, CloseSocket(d))
  <2> DEFINE r == AbortRead(d.read)
             w == AbortWrite(d.write)
  <2>1. CloseSocket(d) = IF d.open
                         THEN [d EXCEPT !.open = FALSE, !.readTimer = FALSE,
                                        !.writeTimer = FALSE, !.read = r, !.write = w]
                         ELSE d
    BY DEF CloseSocket
  <2> HIDE DEF r, w
  <2> QED
    BY <2>1 DEF Kept, Objects
<1>3. Kept(c, left) /\ Kept(c, marked)
  BY DEF Kept, Objects
<1>4. Kept(c, Handled(c)) /\ Kept(c, InternalSend(c))
  <2> DEFINE w == IF c.open /\ peerUp THEN "pending" ELSE "err"
  <2>1. InternalSend(c) = [c EXCEPT !.writeTimer = TRUE, !.write = w]
    BY DEF InternalSend
  <2> HIDE DEF w
  <2> QED
    BY <2>1 DEF Kept, Handled, Objects
<1> HIDE DEF left, marked
<1> QED
  BY <1>1, <1>2, <1>3, <1>4 DEF Kept

\* The handlers that may run once the connection is closed.
LEMMA ClosedStep ==
    ASSUME IInv, Next, conn.closed
    PROVE  LeftAlone(conn, conn')
<1>0. conn \in Objects => Kept(conn, conn)
  BY DEF Kept
<1>1. conn \in Objects /\ Sound(conn) /\ Drains(conn) /\ conn.queue \in Nat
  BY DEF IInv, Sound, Objects
<1>2. CASE ReadFailed \/ ReadAfterClose
  <2>1. Handled(conn) \in Objects /\ Kept(conn, Handled(conn))
    BY <1>1, HandledSound, CloseKeeps
  <2>2. Kept(Handled(conn), Close(Handled(conn), TRUE))
    BY <2>1, CloseKeeps
  <2>3. conn' \in {Handled(conn), Close(Handled(conn), TRUE)}
    BY <1>2 DEF ReadFailed, ReadAfterClose
  <2> QED
    BY <1>1, <2>1, <2>2, <2>3, Composed
<1>3. CASE OnWriteOperation
  <2> DEFINE q == conn.queue - 1
             popped == [conn EXCEPT !.write = "none", !.writeTimer = FALSE, !.queue = q]
             failed == [popped EXCEPT !.queue = 0]
  <2>1. conn' \in {Close(failed, TRUE), InternalSend(popped), CloseSocket(popped), popped}
    BY <1>3 DEF OnWriteOperation
  <2>2. q \in 0 .. MaxQueue /\ q <= conn.queue
    BY <1>1, <1>3, ConstantsAssumption DEF OnWriteOperation, Drains, Objects
  <2> HIDE DEF q
  <2>3. popped \in Objects
    BY <1>1, <2>2 DEF Objects, Writes
  <2>4. LeftAlone(conn, popped)
    BY <1>1, <2>2 DEF Objects, LeftAlone
  <2> HIDE DEF popped
  <2>5. failed \in Objects
    BY <2>3, ConstantsAssumption DEF Objects
  <2>6. LeftAlone(popped, failed) /\ popped.queue \in Nat /\ failed.queue \in Nat
    BY <2>3, ConstantsAssumption DEF Objects, LeftAlone
  <2> HIDE DEF failed
  <2>7. LeftAlone(conn, failed)
    BY <1>1, <2>4, <2>6, Composed
  <2>8. Kept(failed, conn') \/ Kept(popped, conn') \/ conn' = popped
    BY <2>1, <2>3, <2>5, CloseKeeps
  <2> QED
    BY <2>4, <2>7, <2>8, Composed
<1>4. CASE HandleTimeout
  <2> DEFINE d == [conn EXCEPT !.lateTimeout = FALSE]
  <2>1. d \in Objects /\ Kept(conn, d) /\ conn' \in {Close(d, TRUE), d}
    BY <1>1, <1>4 DEF HandleTimeout, Objects, Kept
  <2> HIDE DEF d
  <2>2. Kept(d, conn') \/ conn' = d
    BY <2>1, CloseKeeps
  <2> QED
    BY <1>1, <2>1, <2>2, Composed
<1>5. CASE GameSend
  BY <1>0, <1>1, <1>5, Composed DEF GameSend, Send
<1>6. CASE GameDisconnect \/ Destroy
  <2>1. conn' \in {Close(conn, FALSE), CloseSocket(conn)}
    BY <1>6 DEF GameDisconnect, Destroy
  <2>2. Kept(conn, conn')
    BY <1>1, <2>1, CloseKeeps
  <2> QED
    BY <1>1, <2>2, Composed
<1>7. CASE ReadTimerExpires \/ WriteTimerExpires
  <2>1. Kept(conn, conn')
    BY <1>1, <1>7 DEF ReadTimerExpires, WriteTimerExpires, Objects, Kept
  <2> QED
    BY <1>1, <2>1, Composed
<1>8. CASE CloseAll \/ PeerFails \/ PeerFinishes
  <2> DEFINE r == AbortRead(conn.read)
             w == AbortWrite(conn.write)
  <2>1. conn' \in {[conn EXCEPT !.managed = FALSE, !.open = FALSE, !.read = r, !.write = w],
                   [conn EXCEPT !.read = r, !.write = w], [conn EXCEPT !.read = r]}
    BY <1>8 DEF CloseAll, PeerFails, PeerFinishes
  <2> HIDE DEF r, w
  <2>2. Kept(conn, conn')
    BY <1>1, <2>1 DEF Objects, Kept
  <2> QED
    BY <1>1, <2>2, Composed
<1>9. CASE PeerSends \/ PeerReceives
  <2> DEFINE r == IF conn.read = "header" THEN "headerOk" ELSE "bodyOk"
  <2>1. conn' \in {[conn EXCEPT !.read = r], [conn EXCEPT !.write = "ok"]}
    BY <1>9 DEF PeerSends, PeerReceives
  <2> HIDE DEF r
  <2>2. Kept(conn, conn')
    BY <1>1, <2>1 DEF Objects, Kept
  <2> QED
    BY <1>1, <2>2, Composed
<1> QED
  BY <1>2, <1>3, <1>4, <1>5, <1>6, <1>7, <1>8, <1>9
  DEF Next, Handlers, Accept, Refuse, ParseHeader, ParsePacket, NoProtocol

\* Once close() ran, and release() may be running on the game thread, no handler
\* enters the protocol, gives the connection another, or accepts a message.
THEOREM ProtocolNotEntered == Spec => ProtocolLeftAlone
<1> DEFINE Leaves == conn.closed => /\ conn'.receivedFirst = conn.receivedFirst
                                    /\ conn'.protocol = conn.protocol
                                    /\ conn'.queue <= conn.queue
<1>1. IInv /\ [Next]_vars => [Leaves]_vars
  BY ClosedStep DEF LeftAlone
<1> QED
  BY <1>1, InductiveInvariant, PTL DEF Spec, ProtocolLeftAlone
=============================================================================
