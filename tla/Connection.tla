----------------------------- MODULE Connection -----------------------------
(***************************************************************************)
(* The life of one TCP connection, src/src/connection.cpp: reading packets *)
(* under a read timeout, the queue of outgoing messages under a write      *)
(* timeout, and closing, which every error path, both timers, the protocol *)
(* and the dispatcher thread may ask for, in any order.                    *)
(*                                                                         *)
(* All of it runs on the connection's strand: a handler is one action, and *)
(* a call from another thread is posted and runs later.  The connection is *)
(* a record, so that the calls a handler makes compose as the code's do.   *)
(***************************************************************************)
EXTENDS Integers, Sequences, SequencesExt

CONSTANTS
    MaxSends,   \* bound: calls of send
    MaxCloses,  \* bound: calls of close from other threads
    MaxPackets  \* bound: packets the peer sends

ASSUME BoundsAssumption == MaxSends \in Nat /\ MaxCloses \in Nat /\ MaxPackets \in Nat

VARIABLES
    conn,       \* the Connection object
    posted,     \* calls posted to the strand and not run yet
    peer,       \* "up", or "gone" once the peer closed or its host died
    sends,      \* how many sends were called: the n-th sends message n
    closes,     \* how many closes other threads called
    packets,    \* how many packets the peer sent
    taken,      \* history: the messages put on messageQueue
    delivered,  \* history: the messages written in full
    cut         \* history: something other than a graceful close ended it

vars == <<conn, posted, peer, sends, closes, packets, taken, delivered, cut>>

Message == 1..MaxSends
Timer == SUBSET {"armed", "fired"}      \* "fired": its handler is queued, too late to cancel

ConnectionState ==
    [closed : BOOLEAN,          \* Connection::closed
     open : BOOLEAN,            \* socket.is_open()
     managed : BOOLEAN,         \* in ConnectionManager::connections
     destroyed : BOOLEAN,       \* the last shared_ptr is gone
     queue : Seq(Message),      \* Connection::messageQueue
     writing : Nat,             \* async_writes outstanding
     reading : {"none", "header", "body"},
     ready : SUBSET {"read", "write"},  \* completed without error, handler queued
     readTimer : Timer,
     writeTimer : Timer,
     protocol : BOOLEAN,        \* Connection::protocol is set
     releases : Nat]            \* tasks posted to run protocol->release()

Call == [kind : {"send"}, msg : Message] \cup [kind : {"close"}]

TypeOK ==
    /\ conn \in ConnectionState
    /\ posted \in Seq(Call)
    /\ peer \in {"up", "gone"}
    /\ sends \in 0..MaxSends
    /\ closes \in 0..MaxCloses
    /\ packets \in 0..MaxPackets
    /\ taken \in Seq(Message)
    /\ delivered \in Seq(Message)
    /\ cut \in BOOLEAN

-----------------------------------------------------------------------------
(* What the handlers are made of, each from the connection before to the   *)
(* connection after.                                                       *)

Arm(timer) == timer \cup {"armed"}
Cancel(timer) == timer \ {"armed"}

\* closeSocket: the timers are cancelled and the socket is closed; what is
\* outstanding on it completes with an error.
CloseSocket(c) ==
    IF c.open
    THEN [c EXCEPT !.open = FALSE, !.readTimer = Cancel(@), !.writeTimer = Cancel(@)]
    ELSE c

\* Mutant: release() is posted before the test for an earlier close.
CloseReleasesTwice(c, force) ==
    LET r == [c EXCEPT !.releases = IF c.protocol THEN @ + 1 ELSE @] IN
    IF c.closed THEN r
    ELSE LET d == [r EXCEPT !.closed = TRUE, !.managed = FALSE] IN
         IF c.queue = <<>> \/ force THEN CloseSocket(d) ELSE d

\* Mutant: the socket is closed at once, pending messages or not.
CloseAlwaysForced(c, force) ==
    IF c.closed THEN c
    ELSE CloseSocket([c EXCEPT !.closed = TRUE, !.managed = FALSE,
                               !.releases = IF c.protocol THEN @ + 1 ELSE @])

\* close, on the strand.  With messages pending and no force the socket is left
\* to onWriteOperation.
Close(c, force) ==
    IF c.closed THEN c
    ELSE LET d == [c EXCEPT !.closed = TRUE, !.managed = FALSE,
                            !.releases = IF c.protocol THEN @ + 1 ELSE @]
         IN  IF c.queue = <<>> \/ force THEN CloseSocket(d) ELSE d

\* internalSend: the write timer is armed and the write starts.  Its catch is left
\* out: an error of a write is reported to onWriteOperation.
InternalSend(c) == [c EXCEPT !.writing = @ + 1, !.writeTimer = Arm(@)]

\* Mutant: every message is written at once, behind a write outstanding or not.
SendAtOnce(c, m) ==
    IF c.closed THEN c
    ELSE InternalSend([c EXCEPT !.queue = Append(@, m)])

\* send, on the strand.
Send(c, m) ==
    IF c.closed THEN c
    ELSE LET d == [c EXCEPT !.queue = Append(@, m)] IN
         IF c.queue = <<>> THEN InternalSend(d) ELSE d

\* Mutant: the read timer is not armed again.
StartReadUntimed(c, what) == [c EXCEPT !.reading = what]

\* The read timer is armed and the next async_read starts.
StartRead(c, what) == [c EXCEPT !.reading = what, !.readTimer = Arm(@)]

-----------------------------------------------------------------------------

\* A connection ServicePort::accept made, its socket accepted, before onAccept.
Init ==
    /\ conn = [closed |-> FALSE, open |-> TRUE, managed |-> TRUE, destroyed |-> FALSE,
               queue |-> <<>>, writing |-> 0, reading |-> "none", ready |-> {},
               readTimer |-> {}, writeTimer |-> {}, protocol |-> FALSE, releases |-> 0]
    /\ posted = <<>>
    /\ peer = "up"
    /\ sends = 0
    /\ closes = 0
    /\ packets = 0
    /\ taken = <<>>
    /\ delivered = <<>>
    /\ cut = FALSE

\* onAccept has not handled the new connection yet.
NotAccepted == conn.reading = "none" /\ ~conn.closed /\ packets = 0 /\ conn.readTimer = {}

others == <<posted, peer, sends, closes, packets, taken, delivered>>

\* ServicePort::onAccept: a single-socket service brings its protocol along.
Accept ==
    /\ NotAccepted
    /\ \E p \in BOOLEAN : conn' = StartRead([conn EXCEPT !.protocol = p], "header")
    /\ UNCHANGED <<others, cut>>

\* ServicePort::onAccept: the address is banned or connects too often.
Reject ==
    /\ NotAccepted
    /\ conn' = Close(conn, TRUE)
    /\ cut' = TRUE
    /\ UNCHANGED others

-----------------------------------------------------------------------------
(* Reading.                                                                *)

\* What the peer sent completes the read: its handler is queued, and a close
\* that comes first finds it so.
ReadArrives ==
    /\ conn.reading # "none"
    /\ "read" \notin conn.ready
    /\ conn.open
    /\ conn.reading = "header" => packets < MaxPackets
    /\ packets' = IF conn.reading = "header" THEN packets + 1 ELSE packets
    /\ conn' = [conn EXCEPT !.ready = @ \cup {"read"}]
    /\ UNCHANGED <<posted, peer, sends, closes, taken, delivered, cut>>

\* What every handler of a read does first.
EndRead(c) ==
    [c EXCEPT !.reading = "none", !.ready = @ \ {"read"}, !.readTimer = Cancel(@)]

\* parseHeader, without error.  The header may break the rate limit, or name a
\* size no packet has; a read that cannot be started (the catch) ends as that does.
ParseHeader ==
    /\ conn.reading = "header"
    /\ "read" \in conn.ready
    /\ LET c == EndRead(conn) IN
       \/ /\ conn.closed
          /\ conn' = c
          /\ UNCHANGED cut
       \/ /\ ~conn.closed
          /\ conn' = Close(c, FALSE)
          /\ UNCHANGED cut
       \/ /\ ~conn.closed
          /\ conn' = Close(c, TRUE)
          /\ cut' = TRUE
       \/ /\ ~conn.closed
          /\ conn' = StartRead(c, "body")
          /\ UNCHANGED cut
    /\ UNCHANGED others

\* parsePacket, without error: the first packet may make a protocol or fail to;
\* the protocol may disconnect, with a message sent before or without one, inline
\* on the strand, after which the handler starts the next read all the same; or
\* the next read cannot be started (the catch).
ParsePacket ==
    /\ conn.reading = "body"
    /\ "read" \in conn.ready
    /\ LET c == EndRead(conn)
           d == [c EXCEPT !.protocol = TRUE] IN
       \/ /\ conn.closed
          /\ conn' = c
          /\ UNCHANGED <<sends, taken, cut>>
       \/ /\ ~conn.closed /\ ~conn.protocol
          /\ conn' = Close(c, TRUE)
          /\ cut' = TRUE
          /\ UNCHANGED <<sends, taken>>
       \/ /\ ~conn.closed
          /\ conn' = Close(d, TRUE)
          /\ cut' = TRUE
          /\ UNCHANGED <<sends, taken>>
       \/ /\ ~conn.closed
          /\ conn' \in {StartRead(d, "header"), StartRead(Close(d, FALSE), "header")}
          /\ UNCHANGED <<sends, taken, cut>>
       \/ /\ ~conn.closed
          /\ sends < MaxSends
          /\ sends' = sends + 1
          /\ taken' = Append(taken, sends + 1)
          /\ conn' = StartRead(Close(Send(d, sends + 1), FALSE), "header")
          /\ UNCHANGED cut
    /\ UNCHANGED <<posted, peer, closes, packets, delivered>>

\* A read completes with an error: the peer is gone or the socket was closed.
ReadFails ==
    /\ conn.reading # "none"
    /\ "read" \notin conn.ready
    /\ peer = "gone" \/ ~conn.open
    /\ conn' = Close(EndRead(conn), TRUE)
    /\ cut' = (cut \/ peer = "gone")
    /\ UNCHANGED others

-----------------------------------------------------------------------------
(* Writing.                                                                *)

\* Mutant: onWriteOperation leaves the socket open once the queue drained.
AfterWriteLeaks(c) == IF c.queue # <<>> THEN InternalSend(c) ELSE c

\* What onWriteOperation does after it popped the message it had written.
AfterWrite(c) ==
    IF c.queue # <<>> THEN InternalSend(c)
    ELSE IF c.closed THEN CloseSocket(c)
    ELSE c

\* The peer takes the bytes: the write completes and its handler is queued.
WriteCompletes ==
    /\ conn.writing > 0
    /\ "write" \notin conn.ready
    /\ conn.open
    /\ peer = "up"
    /\ conn' = [conn EXCEPT !.ready = @ \cup {"write"}]
    /\ UNCHANGED <<others, cut>>

\* What the handler of a write does first.
EndWrite(c, rest) ==
    [c EXCEPT !.writing = @ - 1, !.ready = @ \ {"write"}, !.writeTimer = Cancel(@), !.queue = rest]

\* onWriteOperation, without error.
WriteDone ==
    /\ "write" \in conn.ready
    /\ delivered' = Append(delivered, Head(conn.queue))
    /\ conn' = AfterWrite(EndWrite(conn, Tail(conn.queue)))
    /\ UNCHANGED <<posted, peer, sends, closes, packets, taken, cut>>

\* onWriteOperation, with an error.
WriteFails ==
    /\ conn.writing > 0
    /\ "write" \notin conn.ready
    /\ peer = "gone" \/ ~conn.open
    /\ conn' = Close(EndWrite(conn, <<>>), TRUE)
    /\ cut' = (cut \/ peer = "gone")
    /\ UNCHANGED others

-----------------------------------------------------------------------------
(* Timers, other threads, the peer.                                        *)

\* A timer expires: its handler is queued and can no longer be cancelled.
ReadTimerExpires ==
    /\ "armed" \in conn.readTimer
    /\ conn' = [conn EXCEPT !.readTimer = {"fired"}]
    /\ UNCHANGED <<others, cut>>

WriteTimerExpires ==
    /\ "armed" \in conn.writeTimer
    /\ conn' = [conn EXCEPT !.writeTimer = {"fired"}]
    /\ UNCHANGED <<others, cut>>

\* handleTimeout.
ReadTimeout ==
    /\ "fired" \in conn.readTimer
    /\ conn' = Close([conn EXCEPT !.readTimer = @ \ {"fired"}], TRUE)
    /\ cut' = (cut \/ ~conn.closed)
    /\ UNCHANGED others

WriteTimeout ==
    /\ "fired" \in conn.writeTimer
    /\ conn' = Close([conn EXCEPT !.writeTimer = @ \ {"fired"}], TRUE)
    /\ cut' = (cut \/ ~conn.closed)
    /\ UNCHANGED others

\* Another thread calls send or close: Protocol has a weak_ptr, which yields
\* the connection as long as it exists.  send needs the protocol.
CallSend ==
    /\ conn.protocol /\ ~conn.destroyed
    /\ sends < MaxSends
    /\ sends' = sends + 1
    /\ posted' = Append(posted, [kind |-> "send", msg |-> sends + 1])
    /\ UNCHANGED <<conn, peer, closes, packets, taken, delivered, cut>>

CallClose ==
    /\ ~conn.destroyed
    /\ closes < MaxCloses
    /\ closes' = closes + 1
    /\ posted' = Append(posted, [kind |-> "close"])
    /\ UNCHANGED <<conn, peer, sends, packets, taken, delivered, cut>>

\* The strand runs the oldest posted call.
RunPosted ==
    /\ posted # <<>>
    /\ posted' = Tail(posted)
    /\ \/ /\ Head(posted).kind = "send"
          /\ conn' = Send(conn, Head(posted).msg)
          /\ taken' = IF conn.closed THEN taken ELSE Append(taken, Head(posted).msg)
       \/ /\ Head(posted).kind = "close"
          /\ conn' = Close(conn, FALSE)
          /\ UNCHANGED taken
    /\ UNCHANGED <<peer, sends, closes, packets, delivered, cut>>

\* ConnectionManager::closeAll at shutdown: the socket is closed under the
\* strand's feet, and nothing else of the connection changes.
CloseAll ==
    /\ conn.managed
    /\ conn' = [conn EXCEPT !.open = FALSE, !.managed = FALSE]
    /\ cut' = TRUE
    /\ UNCHANGED others

PeerGone ==
    /\ peer = "up"
    /\ peer' = "gone"
    /\ UNCHANGED <<conn, posted, sends, closes, packets, taken, delivered, cut>>

\* ~Connection: nobody holds the connection, neither the manager nor a handler.
\* A timer's handler holds a weak_ptr only.
Destroy ==
    /\ ~conn.managed /\ ~conn.destroyed
    /\ conn.reading = "none" /\ conn.writing = 0 /\ posted = <<>>
    /\ ~NotAccepted
    /\ conn' = [CloseSocket(conn) EXCEPT !.destroyed = TRUE, !.readTimer = {}, !.writeTimer = {}]
    /\ UNCHANGED <<others, cut>>

\* What the network thread does by itself, once it can.
Handlers ==
    \/ ParseHeader \/ ParsePacket \/ ReadFails
    \/ WriteDone \/ WriteFails
    \/ ReadTimeout \/ WriteTimeout \/ RunPosted \/ Destroy

Next ==
    \/ Accept \/ Reject
    \/ ReadArrives \/ WriteCompletes
    \/ ReadTimerExpires \/ WriteTimerExpires
    \/ CallSend \/ CallClose
    \/ CloseAll \/ PeerGone
    \/ Handlers

\* The network thread runs what is ready, and timers expire.  The peer owes
\* nothing: it may never send and never read.
Fairness ==
    /\ WF_vars(Accept \/ Reject)
    /\ WF_vars(ParseHeader) /\ WF_vars(ParsePacket) /\ WF_vars(ReadFails)
    /\ WF_vars(WriteDone) /\ WF_vars(WriteFails)
    /\ WF_vars(ReadTimeout) /\ WF_vars(WriteTimeout)
    /\ WF_vars(RunPosted) /\ WF_vars(Destroy)
    /\ WF_vars(ReadTimerExpires) /\ WF_vars(WriteTimerExpires)

Spec == Init /\ [][Next]_vars /\ Fairness

-----------------------------------------------------------------------------
(* Properties.                                                             *)

\* However many of the timers, errors and callers close the connection, its
\* protocol is released once, and not before it is closed.
ReleasedOnce == conn.releases = IF conn.closed /\ conn.protocol THEN 1 ELSE 0

\* One write is outstanding exactly while messages are queued: onWriteOperation
\* never pops an empty list, no two writes mix their bytes, and no message is
\* left on the queue of a connection that writes nothing.
OneWritePerQueue == conn.writing = IF conn.queue = <<>> THEN 0 ELSE 1

\* The peer gets the messages in the order in which they were sent, without a gap.
DeliveredInOrder == IsPrefix(delivered, taken)

\* A graceful close, from the rate limit, the protocol or another thread, loses
\* no message: unless the connection was cut, it is destroyed with all delivered.
GracefulCloseDelivers == conn.destroyed /\ ~cut => delivered = taken

\* As long as the connection is not closed, a read and a write never wait
\* without a running timeout.
AlwaysTimed ==
    ~conn.closed /\ conn.open =>
        /\ conn.reading # "none" => conn.readTimer # {}
        /\ conn.writing > 0 => conn.writeTimer # {}

\* A peer that neither sends nor leaves is disconnected: a connection waiting
\* for a read either gets it or is closed.
SilentPeerDropped == conn.reading = "header" ~> (conn.reading # "header" \/ conn.closed)

\* The socket of a closed connection is closed in the end (connection.cpp:73:
\* "else closeSocket() called from onWriteOperation once queue drains") if the
\* peer keeps reading what it is sent; a peer that stops keeps the socket open.
PeerReads == WF_vars(WriteCompletes)
ClosedSocketCloses == PeerReads => (conn.closed ~> ~conn.open)

=============================================================================
