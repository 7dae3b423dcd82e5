-------------------------- MODULE ConnectionProofs --------------------------
(***************************************************************************)
(* Proofs about Connection, for any number of sends, closes and packets.   *)
(* The invariant Inv speaks of the connection alone (Sound) and of the     *)
(* messages (Accounted).  The lemmas say what the functions that the       *)
(* handlers are made of, Close, Send and the others, keep of Sound.        *)
(*                                                                         *)
(* And about WaitList, where a client waits when the server is full, for   *)
(* any clients: the invariant is WaitListInv, and a step of it keeps the   *)
(* order of the entries and leaves room for those ahead (SoundAnswer).     *)
(***************************************************************************)
EXTENDS Connection, WaitList, SequenceTheorems, FiniteSetTheorems, WellFoundedInduction,
        TLAPS

Released(c) == c.releases = IF c.closed /\ c.protocol THEN 1 ELSE 0
OneWrite(c) == c.writing = IF c.queue = <<>> THEN 0 ELSE 1
Timed(c) ==
    ~c.closed /\ c.open =>
        /\ c.reading # "none" => c.readTimer # {}
        /\ c.writing > 0 => c.writeTimer # {}
ReadyIsWriting(c) == "write" \in c.ready => c.writing > 0

Sound(c) ==
    /\ c \in ConnectionState
    /\ Released(c)
    /\ OneWrite(c)
    /\ Timed(c)
    /\ ReadyIsWriting(c)

\* Where the messages are: written, queued, or dropped by a cut.
Accounted ==
    /\ IsPrefix(delivered \o conn.queue, taken)
    /\ ~conn.closed \/ ~cut => taken = delivered \o conn.queue
    /\ ~cut /\ ~conn.open => conn.closed /\ conn.queue = <<>>

\* A connection that is not closed reads, once it was accepted.
AlwaysReading == conn.reading = "none" /\ ~conn.closed => packets = 0 /\ conn.readTimer = {}

Quiet == conn.destroyed => conn.closed /\ conn.writing = 0

Inv ==
    /\ TypeOK
    /\ Sound(conn)
    /\ Accounted
    /\ AlwaysReading
    /\ Quiet

-----------------------------------------------------------------------------
(* The functions the handlers are made of.                                 *)

LEMMA TimersAreTimers ==
    ASSUME NEW t \in Timer
    PROVE  Arm(t) \in Timer /\ Arm(t) # {} /\ Cancel(t) \in Timer
BY DEF Timer, Arm, Cancel

\* closeSocket closes the socket and keeps everything but the timers.
LEMMA CloseSocketSound ==
    ASSUME NEW c \in ConnectionState
    PROVE  /\ CloseSocket(c) \in ConnectionState
           /\ ~CloseSocket(c).open
           /\ CloseSocket(c).closed = c.closed
           /\ CloseSocket(c).protocol = c.protocol
           /\ CloseSocket(c).releases = c.releases
           /\ CloseSocket(c).queue = c.queue
           /\ CloseSocket(c).writing = c.writing
           /\ CloseSocket(c).ready = c.ready
           /\ CloseSocket(c).reading = c.reading
           /\ CloseSocket(c).destroyed = c.destroyed
<1>1. CASE c.open
  <2>. DEFINE x == Cancel(c.readTimer)
              y == Cancel(c.writeTimer)
  <2>1. x \in Timer /\ y \in Timer
    BY TimersAreTimers DEF ConnectionState
  <2>2. CloseSocket(c) = [c EXCEPT !.open = FALSE, !.readTimer = x, !.writeTimer = y]
    BY <1>1 DEF CloseSocket
  <2>. HIDE DEF x, y
  <2>. QED
    BY <2>1, <2>2 DEF ConnectionState
<1>2. CASE ~c.open
  BY <1>2 DEF CloseSocket
<1>. QED
  BY <1>1, <1>2

\* close, forced or not, keeps a sound connection sound and leaves it closed.
LEMMA CloseSound ==
    ASSUME NEW c, Sound(c), NEW force \in BOOLEAN
    PROVE  /\ Sound(Close(c, force))
           /\ Close(c, force).closed
           /\ c.closed => Close(c, force) = c
           /\ ~Close(c, FALSE).open => c.queue = <<>> \/ ~c.open
           /\ Close(c, force).queue = c.queue
           /\ Close(c, force).writing = c.writing
           /\ Close(c, force).ready = c.ready
           /\ Close(c, force).reading = c.reading
           /\ Close(c, force).destroyed = c.destroyed
           /\ Close(c, force).protocol = c.protocol
<1>1. CASE c.closed
  BY <1>1 DEF Close
<1>2. CASE ~c.closed
  <2>. DEFINE n == IF c.protocol THEN c.releases + 1 ELSE c.releases
              e == [c EXCEPT !.closed = TRUE, !.managed = FALSE, !.releases = n]
  <2>1. n \in Nat /\ n = IF c.protocol THEN 1 ELSE 0
    BY <1>2 DEF Sound, Released, ConnectionState
  <2>2. /\ Close(c, force) = IF c.queue = <<>> \/ force THEN CloseSocket(e) ELSE e
        /\ Close(c, FALSE) = IF c.queue = <<>> THEN CloseSocket(e) ELSE e
    BY <1>2 DEF Close, Sound, ConnectionState
  <2>. HIDE DEF n
  <2>3. /\ e \in ConnectionState
        /\ e.closed /\ e.protocol = c.protocol /\ e.releases = n
        /\ e.queue = c.queue /\ e.writing = c.writing /\ e.ready = c.ready
        /\ e.reading = c.reading /\ e.destroyed = c.destroyed /\ e.open = c.open
    BY <2>1 DEF Sound, ConnectionState
  <2>. HIDE DEF e
  <2>4. OneWrite(c) /\ ReadyIsWriting(c)
    BY DEF Sound
  <2>7. ~Close(c, FALSE).open => c.queue = <<>> \/ ~c.open
    BY <2>2, <2>3
  <2>5. CASE c.queue = <<>> \/ force
    <3>. DEFINE d == CloseSocket(e)
    <3>1. /\ d \in ConnectionState
          /\ d.closed /\ d.protocol = c.protocol /\ d.releases = n
          /\ d.queue = c.queue /\ d.writing = c.writing /\ d.ready = c.ready
          /\ d.reading = c.reading /\ d.destroyed = c.destroyed
      BY <2>3, CloseSocketSound
    <3>2. Close(c, force) = d
      BY <2>2, <2>5
    <3>. HIDE DEF d
    <3>. QED
      BY <1>2, <2>1, <2>4, <2>7, <3>1, <3>2 DEF Sound, Released, OneWrite, Timed, ReadyIsWriting
  <2>6. CASE ~(c.queue = <<>> \/ force)
    BY <1>2, <2>1, <2>2, <2>3, <2>4, <2>6, <2>7 DEF Sound, Released, OneWrite, Timed, ReadyIsWriting
  <2>. QED
    BY <2>5, <2>6
<1>. QED
  BY <1>1, <1>2

\* internalSend, on a connection that writes nothing and has a message queued.
LEMMA InternalSendSound ==
    ASSUME NEW c \in ConnectionState, Released(c), c.writing = 0, c.queue # <<>>,
           "write" \notin c.ready,
           ~c.closed /\ c.open => (c.reading # "none" => c.readTimer # {})
    PROVE  /\ Sound(InternalSend(c))
           /\ InternalSend(c).queue = c.queue
           /\ InternalSend(c).closed = c.closed
           /\ InternalSend(c).protocol = c.protocol
           /\ InternalSend(c).reading = c.reading
           /\ InternalSend(c).ready = c.ready
           /\ InternalSend(c).open = c.open
           /\ InternalSend(c).readTimer = c.readTimer
           /\ InternalSend(c).destroyed = c.destroyed
<1>. DEFINE t == Arm(c.writeTimer)
            d == [c EXCEPT !.writing = 1, !.writeTimer = t]
<1>1. t \in Timer /\ t # {}
  BY TimersAreTimers DEF ConnectionState
<1>2. InternalSend(c) = d
  BY DEF InternalSend, ConnectionState
<1>. HIDE DEF t
<1>3. /\ d \in ConnectionState
      /\ d.closed = c.closed /\ d.protocol = c.protocol /\ d.releases = c.releases
      /\ d.queue = c.queue /\ d.writing = 1 /\ d.ready = c.ready
      /\ d.reading = c.reading /\ d.destroyed = c.destroyed /\ d.open = c.open
      /\ d.readTimer = c.readTimer /\ d.writeTimer = t
  BY <1>1 DEF ConnectionState
<1>. HIDE DEF d
<1>. QED
  BY <1>1, <1>2, <1>3 DEF Sound, Released, OneWrite, Timed, ReadyIsWriting

\* send queues its message, unless the connection is closed.
LEMMA SendSound ==
    ASSUME NEW c, Sound(c), NEW m \in Message
    PROVE  /\ Sound(Send(c, m))
           /\ c.closed => Send(c, m) = c
           /\ ~c.closed => Send(c, m).queue = Append(c.queue, m)
           /\ Send(c, m).closed = c.closed
           /\ Send(c, m).protocol = c.protocol
           /\ Send(c, m).reading = c.reading
           /\ Send(c, m).readTimer = c.readTimer
           /\ Send(c, m).ready = c.ready
           /\ Send(c, m).open = c.open
           /\ Send(c, m).destroyed = c.destroyed
<1>1. CASE c.closed
  BY <1>1 DEF Send
<1>2. CASE ~c.closed
  <2>. DEFINE q == Append(c.queue, m)
              d == [c EXCEPT !.queue = q]
  <2>1. q \in Seq(Message) /\ q # <<>> /\ c.queue \in Seq(Message)
    BY AppendProperties DEF Sound, ConnectionState
  <2>2. Send(c, m) = IF c.queue = <<>> THEN InternalSend(d) ELSE d
    BY <1>2 DEF Send, Sound, ConnectionState
  <2>. HIDE DEF q
  <2>3. /\ d \in ConnectionState
        /\ d.closed = c.closed /\ d.protocol = c.protocol /\ d.releases = c.releases
        /\ d.queue = q /\ d.writing = c.writing /\ d.ready = c.ready
        /\ d.reading = c.reading /\ d.destroyed = c.destroyed /\ d.open = c.open
        /\ d.readTimer = c.readTimer /\ d.writeTimer = c.writeTimer
    BY <2>1 DEF Sound, ConnectionState
  <2>. HIDE DEF d
  <2>4. Released(c) /\ OneWrite(c) /\ Timed(c) /\ ReadyIsWriting(c)
    BY DEF Sound
  <2>5. CASE c.queue = <<>>
    <3>1. /\ d.writing = 0 /\ d.queue # <<>> /\ "write" \notin d.ready /\ Released(d)
          /\ ~d.closed /\ d.open => (d.reading # "none" => d.readTimer # {})
      BY <2>1, <2>3, <2>4, <2>5 DEF OneWrite, ReadyIsWriting, Timed, Released
    <3>. DEFINE e == InternalSend(d)
    <3>2. /\ Sound(e)
          /\ e.queue = q /\ e.closed = c.closed /\ e.protocol = c.protocol
          /\ e.reading = c.reading /\ e.readTimer = c.readTimer /\ e.ready = c.ready
          /\ e.open = c.open /\ e.destroyed = c.destroyed
      BY <2>3, <3>1, InternalSendSound
    <3>3. Send(c, m) = e
      BY <2>2, <2>5
    <3>. HIDE DEF e
    <3>. QED
      BY <1>2, <3>2, <3>3 DEF q
  <2>6. CASE c.queue # <<>>
    <3>1. Sound(d)
      BY <2>1, <2>3, <2>4, <2>6 DEF Sound, Released, OneWrite, Timed, ReadyIsWriting
    <3>. QED
      BY <1>2, <2>2, <2>3, <2>6, <3>1 DEF q
  <2>. QED
    BY <2>5, <2>6
<1>. QED
  BY <1>1, <1>2

\* The next read starts with its timer armed.
LEMMA StartReadSound ==
    ASSUME NEW c, Sound(c), NEW what \in {"header", "body"}
    PROVE  /\ Sound(StartRead(c, what))
           /\ StartRead(c, what).reading = what
           /\ StartRead(c, what).queue = c.queue
           /\ StartRead(c, what).writing = c.writing
           /\ StartRead(c, what).closed = c.closed
           /\ StartRead(c, what).open = c.open
           /\ StartRead(c, what).destroyed = c.destroyed
<1>. DEFINE t == Arm(c.readTimer)
            d == [c EXCEPT !.reading = what, !.readTimer = t]
<1>1. t \in Timer /\ t # {}
  BY TimersAreTimers DEF Sound, ConnectionState
<1>2. StartRead(c, what) = d
  BY DEF StartRead, Sound, ConnectionState
<1>. HIDE DEF t
<1>3. /\ d \in ConnectionState
      /\ d.closed = c.closed /\ d.protocol = c.protocol /\ d.releases = c.releases
      /\ d.queue = c.queue /\ d.writing = c.writing /\ d.ready = c.ready
      /\ d.reading = what /\ d.destroyed = c.destroyed /\ d.open = c.open
      /\ d.readTimer = t /\ d.writeTimer = c.writeTimer
  BY <1>1 DEF Sound, ConnectionState
<1>. HIDE DEF d
<1>. QED
  BY <1>1, <1>2, <1>3 DEF Sound, Released, OneWrite, Timed, ReadyIsWriting

\* A read that ended leaves a connection that reads nothing.
LEMMA EndReadSound ==
    ASSUME NEW c, Sound(c)
    PROVE  /\ Sound(EndRead(c))
           /\ EndRead(c).reading = "none"
           /\ EndRead(c).queue = c.queue
           /\ EndRead(c).writing = c.writing
           /\ EndRead(c).closed = c.closed
           /\ EndRead(c).protocol = c.protocol
           /\ EndRead(c).open = c.open
           /\ EndRead(c).destroyed = c.destroyed
<1>. DEFINE t == Cancel(c.readTimer)
            r == c.ready \ {"read"}
            d == [c EXCEPT !.reading = "none", !.ready = r, !.readTimer = t]
<1>1. /\ t \in Timer /\ r \in SUBSET {"read", "write"}
      /\ "write" \in r => "write" \in c.ready
  BY TimersAreTimers DEF Sound, ConnectionState
<1>2. EndRead(c) = d
  BY DEF EndRead, Sound, ConnectionState
<1>. HIDE DEF t, r
<1>3. /\ d \in ConnectionState
      /\ d.closed = c.closed /\ d.protocol = c.protocol /\ d.releases = c.releases
      /\ d.queue = c.queue /\ d.writing = c.writing /\ d.ready = r
      /\ d.reading = "none" /\ d.destroyed = c.destroyed /\ d.open = c.open
      /\ d.writeTimer = c.writeTimer
  BY <1>1 DEF Sound, ConnectionState
<1>. HIDE DEF d
<1>. QED
  BY <1>1, <1>2, <1>3 DEF Sound, Released, OneWrite, Timed, ReadyIsWriting

\* The end of a write: one write fewer, and the queue that is left.
LEMMA EndWriteKeeps ==
    ASSUME NEW c, Sound(c), c.writing > 0, NEW rest \in Seq(Message)
    PROVE  /\ EndWrite(c, rest) \in ConnectionState
           /\ Released(EndWrite(c, rest))
           /\ EndWrite(c, rest).writing = 0
           /\ EndWrite(c, rest).queue = rest
           /\ "write" \notin EndWrite(c, rest).ready
           /\ EndWrite(c, rest).reading = c.reading
           /\ EndWrite(c, rest).readTimer = c.readTimer
           /\ EndWrite(c, rest).closed = c.closed
           /\ EndWrite(c, rest).protocol = c.protocol
           /\ EndWrite(c, rest).open = c.open
           /\ EndWrite(c, rest).destroyed = c.destroyed
<1>. DEFINE t == Cancel(c.writeTimer)
            r == c.ready \ {"write"}
            d == [c EXCEPT !.writing = 0, !.ready = r, !.writeTimer = t, !.queue = rest]
<1>1. t \in Timer /\ r \in SUBSET {"read", "write"} /\ "write" \notin r
  BY TimersAreTimers DEF Sound, ConnectionState
<1>2. c.writing - 1 = 0
  BY DEF Sound, OneWrite
<1>3. EndWrite(c, rest) = d
  BY <1>2 DEF EndWrite, Sound, ConnectionState
<1>. HIDE DEF t, r
<1>4. /\ d \in ConnectionState
      /\ d.closed = c.closed /\ d.protocol = c.protocol /\ d.releases = c.releases
      /\ d.queue = rest /\ d.writing = 0 /\ d.ready = r
      /\ d.reading = c.reading /\ d.readTimer = c.readTimer
      /\ d.destroyed = c.destroyed /\ d.open = c.open
  BY <1>1 DEF Sound, ConnectionState
<1>. HIDE DEF d
<1>. QED
  BY <1>1, <1>3, <1>4 DEF Sound, Released

-----------------------------------------------------------------------------
(* Sequences of messages.                                                  *)

LEMMA AppendMoves ==
    ASSUME NEW S, NEW a \in Seq(S), NEW b \in Seq(S), NEW m \in S
    PROVE  a \o Append(b, m) = Append(a \o b, m)
<1>1. a \o b \in Seq(S) /\ <<m>> \in Seq(S)
  BY ConcatProperties
<1>2. Append(b, m) = b \o <<m>> /\ Append(a \o b, m) = (a \o b) \o <<m>>
  BY <1>1, AppendIsConcat
<1>. QED
  BY <1>1, <1>2, ConcatAssociative

LEMMA HeadMoves ==
    ASSUME NEW S, NEW a \in Seq(S), NEW b \in Seq(S), b # <<>>
    PROVE  Append(a, Head(b)) \o Tail(b) = a \o b
<1>1. Head(b) \in S /\ Tail(b) \in Seq(S) /\ <<Head(b)>> \in Seq(S)
  BY HeadTailProperties
<1>2. b = <<Head(b)>> \o Tail(b)
  <2>1. Len(b) \in Nat /\ Len(b) > 0
    BY EmptySeq, LenProperties
  <2>2. SubSeq(b, 1, Len(b)) = <<b[1]>> \o SubSeq(b, 2, Len(b))
    BY <2>1, SubSeqRecursiveFirst
  <2>3. SubSeq(b, 1, Len(b)) = b /\ SubSeq(b, 2, Len(b)) = Tail(b) /\ Head(b) = b[1]
    BY SubSeqFull, TailIsSubSeq
  <2>. QED
    BY <2>2, <2>3
<1>3. Append(a, Head(b)) = a \o <<Head(b)>>
  BY <1>1, AppendIsConcat
<1>4. (a \o <<Head(b)>>) \o Tail(b) = a \o (<<Head(b)>> \o Tail(b))
  BY <1>1, ConcatAssociative
<1>. QED
  BY <1>2, <1>3, <1>4

LEMMA PrefixOfItself ==
    ASSUME NEW S, NEW a \in Seq(S)
    PROVE  IsPrefix(a, a)
BY LenProperties DEF IsPrefix

\* Less than a prefix is a prefix.
LEMMA PrefixShortened ==
    ASSUME NEW S, NEW a \in Seq(S), NEW b \in Seq(S), NEW t \in Seq(S), IsPrefix(a \o b, t)
    PROVE  IsPrefix(a, t)
<1>1. /\ Len(a) \in Nat /\ Len(b) \in Nat /\ Len(t) \in Nat
      /\ a \o b \in Seq(S) /\ Len(a \o b) = Len(a) + Len(b)
  BY LenProperties, ConcatProperties
<1>2. Len(a) + Len(b) <= Len(t) /\ SubSeq(a \o b, 1, Len(a) + Len(b)) = SubSeq(t, 1, Len(a) + Len(b))
  BY <1>1 DEF IsPrefix
<1>3. SubSeq(a \o b, 1, Len(a) + Len(b)) = a \o b
  BY <1>1, SubSeqFull
<1>4. \A i \in 1..Len(a) : a[i] = t[i]
  <2>1. SUFFICES ASSUME NEW i \in 1..Len(a) PROVE a[i] = t[i]
    OBVIOUS
  <2>2. i \in 1..(Len(a) + Len(b)) /\ i <= Len(a)
    BY <1>1
  <2>3. (a \o b)[i] = a[i]
    BY <2>2, ConcatProperties
  <2>4. SubSeq(t, 1, Len(a) + Len(b))[i] = t[i]
    BY <1>1, <1>2, <2>2, SubSeqProperties
  <2>. QED
    BY <1>2, <1>3, <2>3, <2>4
<1>5. SubSeq(a, 1, Len(a)) = a
  BY SubSeqFull
<1>6. a = SubSeq(t, 1, Len(a))
  <2>1. /\ SubSeq(t, 1, Len(a)) \in Seq(S)
        /\ Len(SubSeq(t, 1, Len(a))) = Len(a)
        /\ \A i \in 1..Len(a) : SubSeq(t, 1, Len(a))[i] = t[i]
    BY <1>1, <1>2, SubSeqProperties
  <2>. QED
    BY <1>4, <2>1, SeqEqual
<1>. QED
  BY <1>1, <1>2, <1>5, <1>6 DEF IsPrefix

-----------------------------------------------------------------------------
(* The invariant.                                                          *)

LEMMA Initially == Init => Inv
<1>. SUFFICES ASSUME Init PROVE Inv
  OBVIOUS
<1>1. <<>> \in Seq(Message) /\ <<>> \in Seq(Call)
  BY EmptySeq
<1>2. conn \in ConnectionState
  BY <1>1 DEF Init, ConnectionState, Timer
<1>3. /\ conn.releases = 0 /\ conn.protocol = FALSE /\ conn.closed = FALSE
      /\ conn.writing = 0 /\ conn.queue = <<>> /\ conn.ready = {} /\ conn.reading = "none"
      /\ conn.open = TRUE /\ conn.destroyed = FALSE /\ conn.readTimer = {}
  BY DEF Init
<1>4. TypeOK
  <2>1. /\ posted = <<>> /\ peer = "up" /\ sends = 0 /\ closes = 0 /\ packets = 0
        /\ taken = <<>> /\ delivered = <<>> /\ cut = FALSE
    BY DEF Init
  <2>2. 0 \in 0..MaxSends /\ 0 \in 0..MaxCloses /\ 0 \in 0..MaxPackets
    BY BoundsAssumption
  <2>. QED
    BY <1>1, <1>2, <2>1, <2>2, Zenon DEF TypeOK
<1>5. Sound(conn)
  BY <1>2, <1>3 DEF Sound, Released, OneWrite, Timed, ReadyIsWriting
<1>6. delivered \o conn.queue = <<>> /\ taken = <<>>
  BY <1>1, <1>3, ConcatEmptySeq DEF Init
<1>7. Accounted
  BY <1>1, <1>3, <1>6, PrefixOfItself DEF Accounted
<1>. QED
  BY <1>3, <1>4, <1>5, <1>7 DEF Inv, AlwaysReading, Quiet, Init

\* A step that leaves the messages alone, closes for good and cuts for good.
LEMMA CalmStep ==
    ASSUME Accounted,
           UNCHANGED <<taken, delivered>>, conn'.queue = conn.queue,
           conn.closed => conn'.closed, cut => cut',
           ~cut' /\ ~conn'.open => conn'.closed /\ conn.queue = <<>>
    PROVE  Accounted'
BY DEF Accounted

LEMMA AcceptStep ==
    ASSUME Inv, Accept \/ Reject
    PROVE  Inv'
<1>1. CASE Accept
  <2>1. PICK p \in BOOLEAN : conn' = StartRead([conn EXCEPT !.protocol = p], "header")
    BY <1>1 DEF Accept
  <2>. DEFINE c == [conn EXCEPT !.protocol = p]
  <2>2. Sound(conn) /\ ~conn.closed /\ conn.reading = "none"
    BY <1>1 DEF Inv, Accept, NotAccepted
  <2>3. /\ c \in ConnectionState /\ c.releases = conn.releases /\ c.closed = conn.closed
        /\ c.queue = conn.queue /\ c.writing = conn.writing /\ c.ready = conn.ready
        /\ c.open = conn.open /\ c.reading = conn.reading /\ c.destroyed = conn.destroyed
        /\ c.readTimer = conn.readTimer /\ c.writeTimer = conn.writeTimer
    BY <2>2 DEF Sound, ConnectionState
  <2>4. conn' = StartRead(c, "header")
    BY <2>1
  <2>. HIDE DEF c
  <2>5. Sound(c)
    BY <2>2, <2>3 DEF Sound, Released, OneWrite, Timed, ReadyIsWriting
  <2>6. /\ Sound(conn') /\ conn'.reading = "header" /\ conn'.queue = conn.queue
        /\ conn'.writing = conn.writing /\ conn'.closed = conn.closed
        /\ conn'.open = conn.open /\ conn'.destroyed = conn.destroyed
    BY <2>3, <2>4, <2>5, StartReadSound
  <2>7. UNCHANGED <<posted, peer, sends, closes, packets, taken, delivered, cut>>
    BY <1>1 DEF Accept, others
  <2>8. Accounted'
    BY <2>6, <2>7, CalmStep DEF Inv, Accounted
  <2>. QED
    BY <2>6, <2>7, <2>8 DEF Inv, TypeOK, Sound, AlwaysReading, Quiet
<1>2. CASE Reject
  <2>1. conn' = Close(conn, TRUE) /\ cut' = TRUE
    BY <1>2 DEF Reject
  <2>2. /\ Sound(conn') /\ conn'.closed /\ conn'.queue = conn.queue
        /\ conn'.writing = conn.writing /\ conn'.destroyed = conn.destroyed
    BY <2>1, CloseSound DEF Inv
  <2>3. UNCHANGED <<posted, peer, sends, closes, packets, taken, delivered>>
    BY <1>2 DEF Reject, others
  <2>4. Accounted'
    BY <2>1, <2>2, <2>3, CalmStep DEF Inv
  <2>. QED
    BY <2>1, <2>2, <2>3, <2>4 DEF Inv, TypeOK, Sound, AlwaysReading, Quiet
<1>. QED
  BY <1>1, <1>2

\* The connection after the handler of a read has begun.
LEMMA AfterEndRead ==
    ASSUME Inv, conn.reading # "none"
    PROVE  /\ Sound(EndRead(conn))
           /\ EndRead(conn).reading = "none"
           /\ EndRead(conn).queue = conn.queue
           /\ EndRead(conn).writing = conn.writing
           /\ EndRead(conn).closed = conn.closed
           /\ EndRead(conn).protocol = conn.protocol
           /\ EndRead(conn).open = conn.open
           /\ EndRead(conn).destroyed = conn.destroyed
BY EndReadSound DEF Inv

LEMMA ReadArrivesStep ==
    ASSUME Inv, ReadArrives
    PROVE  Inv'
<1>. DEFINE r == conn.ready \cup {"read"}
<1>1. /\ Sound(conn) /\ r \in SUBSET {"read", "write"}
      /\ "write" \in r => "write" \in conn.ready
  BY DEF Inv, Sound, ConnectionState
<1>2. conn' = [conn EXCEPT !.ready = r]
  BY DEF ReadArrives
<1>. HIDE DEF r
<1>3. /\ conn' \in ConnectionState
      /\ conn'.closed = conn.closed /\ conn'.protocol = conn.protocol /\ conn'.releases = conn.releases
      /\ conn'.queue = conn.queue /\ conn'.writing = conn.writing /\ conn'.ready = r
      /\ conn'.reading = conn.reading /\ conn'.destroyed = conn.destroyed /\ conn'.open = conn.open
      /\ conn'.readTimer = conn.readTimer /\ conn'.writeTimer = conn.writeTimer
  BY <1>1, <1>2 DEF Sound, ConnectionState
<1>4. Sound(conn')
  BY <1>1, <1>3 DEF Sound, Released, OneWrite, Timed, ReadyIsWriting
<1>5. /\ UNCHANGED <<posted, peer, sends, closes, taken, delivered, cut>>
      /\ conn.reading # "none"
      /\ packets' \in 0..MaxPackets
  BY BoundsAssumption DEF ReadArrives, Inv, TypeOK
<1>6. Accounted'
  BY <1>3, <1>5, CalmStep DEF Inv, Accounted
<1>. QED
  BY <1>3, <1>4, <1>5, <1>6 DEF Inv, TypeOK, AlwaysReading, Quiet

LEMMA ParseHeaderStep ==
    ASSUME Inv, ParseHeader
    PROVE  Inv'
<1>. DEFINE c == EndRead(conn)
<1>1. /\ Sound(c) /\ c.reading = "none" /\ c.queue = conn.queue /\ c.writing = conn.writing
      /\ c.closed = conn.closed /\ c.open = conn.open /\ c.destroyed = conn.destroyed
  BY AfterEndRead DEF ParseHeader
<1>2. UNCHANGED <<posted, peer, sends, closes, packets, taken, delivered>>
  BY DEF ParseHeader, others
<1>3. \/ conn.closed /\ conn' = c /\ cut' = cut
      \/ ~conn.closed /\ conn' = Close(c, FALSE) /\ cut' = cut
      \/ ~conn.closed /\ conn' = Close(c, TRUE) /\ cut' = TRUE
      \/ ~conn.closed /\ conn' = StartRead(c, "body") /\ cut' = cut
  BY DEF ParseHeader
<1>. HIDE DEF c
<1>4. /\ Sound(conn') /\ conn'.queue = conn.queue /\ conn'.writing = conn.writing
      /\ conn'.destroyed = conn.destroyed /\ (conn.closed => conn'.closed)
      /\ conn'.closed \/ conn'.reading # "none"
      /\ (~cut' /\ ~conn'.open => conn'.closed /\ conn.queue = <<>>)
      /\ (cut => cut') /\ cut' \in BOOLEAN
  <2>1. CASE conn.closed /\ conn' = c /\ cut' = cut
    BY <1>1, <2>1 DEF Inv, TypeOK, Accounted
  <2>2. CASE ~conn.closed /\ conn' = Close(c, FALSE) /\ cut' = cut
    <3>1. ~conn'.open => c.queue = <<>> \/ ~c.open
      BY <1>1, <2>2, CloseSound
    <3>2. /\ Sound(conn') /\ conn'.closed /\ conn'.queue = c.queue
          /\ conn'.writing = c.writing /\ conn'.destroyed = c.destroyed
      BY <1>1, <2>2, CloseSound
    <3>. QED
      BY <1>1, <2>2, <3>1, <3>2 DEF Inv, TypeOK, Accounted
  <2>3. CASE ~conn.closed /\ conn' = Close(c, TRUE) /\ cut' = TRUE
    <3>1. /\ Sound(conn') /\ conn'.closed /\ conn'.queue = c.queue
          /\ conn'.writing = c.writing /\ conn'.destroyed = c.destroyed
      BY <1>1, <2>3, CloseSound
    <3>. QED
      BY <1>1, <2>3, <3>1
  <2>4. CASE ~conn.closed /\ conn' = StartRead(c, "body") /\ cut' = cut
    <3>1. /\ Sound(conn') /\ conn'.reading = "body" /\ conn'.queue = c.queue
          /\ conn'.writing = c.writing /\ conn'.closed = c.closed
          /\ conn'.open = c.open /\ conn'.destroyed = c.destroyed
      BY <1>1, <2>4, StartReadSound
    <3>. QED
      BY <1>1, <2>4, <3>1 DEF Inv, TypeOK, Accounted
  <2>. QED
    BY <1>3, <2>1, <2>2, <2>3, <2>4
<1>5. Accounted'
  BY <1>2, <1>4, CalmStep DEF Inv
<1>. QED
  BY <1>2, <1>4, <1>5 DEF Inv, TypeOK, Sound, AlwaysReading, Quiet

LEMMA ParsePacketStep ==
    ASSUME Inv, ParsePacket
    PROVE  Inv'
<1>. DEFINE c == EndRead(conn)
            d == [c EXCEPT !.protocol = TRUE]
            m == sends + 1
<1>1. /\ Sound(c) /\ c.reading = "none" /\ c.queue = conn.queue /\ c.writing = conn.writing
      /\ c.closed = conn.closed /\ c.open = conn.open /\ c.destroyed = conn.destroyed
  BY AfterEndRead DEF ParsePacket
<1>2. UNCHANGED <<posted, peer, closes, packets, delivered>>
  BY DEF ParsePacket
<1>3. \/ conn.closed /\ conn' = c /\ UNCHANGED <<sends, taken, cut>>
      \/ ~conn.closed /\ conn' = Close(c, TRUE) /\ cut' = TRUE /\ UNCHANGED <<sends, taken>>
      \/ ~conn.closed /\ conn' = Close(d, TRUE) /\ cut' = TRUE /\ UNCHANGED <<sends, taken>>
      \/ ~conn.closed /\ conn' = StartRead(d, "header") /\ UNCHANGED <<sends, taken, cut>>
      \/ /\ ~conn.closed /\ conn' = StartRead(Close(d, FALSE), "header")
         /\ UNCHANGED <<sends, taken, cut>>
      \/ /\ ~conn.closed /\ sends < MaxSends /\ sends' = m /\ taken' = Append(taken, m)
         /\ conn' = StartRead(Close(Send(d, m), FALSE), "header") /\ UNCHANGED cut
  BY DEF ParsePacket
<1>. HIDE DEF c
<1>4. /\ d \in ConnectionState /\ d.releases = c.releases /\ d.closed = c.closed
      /\ d.queue = c.queue /\ d.writing = c.writing /\ d.ready = c.ready
      /\ d.open = c.open /\ d.reading = c.reading /\ d.destroyed = c.destroyed
      /\ d.readTimer = c.readTimer /\ d.writeTimer = c.writeTimer
  BY <1>1 DEF Sound, ConnectionState
<1>. HIDE DEF d
<1>5. ~conn.closed => Sound(d)
  BY <1>1, <1>4 DEF Sound, Released, OneWrite, Timed, ReadyIsWriting
<1>6. CASE conn.closed /\ conn' = c /\ UNCHANGED <<sends, taken, cut>>
  <2>1. Accounted'
    BY <1>1, <1>2, <1>6, CalmStep DEF Inv, Accounted
  <2>. QED
    BY <1>1, <1>2, <1>6, <2>1 DEF Inv, TypeOK, Sound, AlwaysReading, Quiet
<1>7. CASE /\ ~conn.closed
           /\ conn' = Close(c, TRUE) \/ conn' = Close(d, TRUE)
           /\ cut' = TRUE /\ UNCHANGED <<sends, taken>>
  <2>1. /\ Sound(conn') /\ conn'.closed /\ conn'.queue = c.queue
        /\ conn'.writing = c.writing /\ conn'.destroyed = c.destroyed
    <3>1. Sound(d) /\ d.queue = c.queue /\ d.writing = c.writing /\ d.destroyed = c.destroyed
      BY <1>4, <1>5, <1>7
    <3>2. CASE conn' = Close(c, TRUE)
      BY <1>1, <3>2, CloseSound
    <3>3. CASE conn' = Close(d, TRUE)
      BY <3>1, <3>3, CloseSound
    <3>. QED
      BY <1>7, <3>2, <3>3
  <2>2. Accounted'
    BY <1>1, <1>2, <1>7, <2>1, CalmStep DEF Inv
  <2>. QED
    BY <1>1, <1>2, <1>7, <2>1, <2>2 DEF Inv, TypeOK, Sound, AlwaysReading, Quiet
<1>8. CASE ~conn.closed /\ conn' = StartRead(d, "header") /\ UNCHANGED <<sends, taken, cut>>
  <2>1. /\ Sound(conn') /\ conn'.reading = "header" /\ conn'.queue = d.queue
        /\ conn'.writing = d.writing /\ conn'.closed = d.closed
        /\ conn'.open = d.open /\ conn'.destroyed = d.destroyed
    BY <1>5, <1>8, StartReadSound
  <2>2. Accounted'
    BY <1>1, <1>2, <1>4, <1>8, <2>1, CalmStep DEF Inv, Accounted
  <2>. QED
    BY <1>1, <1>2, <1>4, <1>8, <2>1, <2>2 DEF Inv, TypeOK, Sound, AlwaysReading, Quiet
<1>9. CASE /\ ~conn.closed /\ sends < MaxSends /\ sends' = m /\ taken' = Append(taken, m)
           /\ conn' = StartRead(Close(Send(d, m), FALSE), "header") /\ UNCHANGED cut
  <2>1. m \in Message /\ m \in 0..MaxSends
    BY <1>9, BoundsAssumption DEF Inv, TypeOK, Message
  <2>. DEFINE e == Send(d, m)
              f == Close(e, FALSE)
  <2>2. /\ Sound(e) /\ e.queue = Append(d.queue, m) /\ e.open = d.open
        /\ e.destroyed = d.destroyed
    BY <1>1, <1>4, <1>5, <1>9, <2>1, SendSound
  <2>3. conn' = StartRead(f, "header")
    BY <1>9
  <2>. HIDE DEF e
  <2>4. /\ Sound(f) /\ f.closed /\ f.queue = e.queue /\ f.destroyed = e.destroyed
        /\ ~f.open => e.queue = <<>> \/ ~e.open
    BY <2>2, CloseSound
  <2>. HIDE DEF f
  <2>5. /\ Sound(conn') /\ conn'.reading = "header" /\ conn'.queue = f.queue
        /\ conn'.closed = f.closed /\ conn'.open = f.open /\ conn'.destroyed = f.destroyed
    BY <2>3, <2>4, StartReadSound
  <2>6. conn.queue \in Seq(Message) /\ delivered \in Seq(Message) /\ taken \in Seq(Message)
    BY DEF Inv, TypeOK, ConnectionState
  <2>7. Append(conn.queue, m) # <<>> /\ taken' \in Seq(Message)
    BY <1>9, <2>1, <2>6, AppendProperties
  <2>8. conn'.queue = Append(conn.queue, m)
    BY <1>1, <1>4, <2>2, <2>4, <2>5
  <2>9. taken' = delivered' \o conn'.queue
    <3>1. taken = delivered \o conn.queue
      BY <1>9 DEF Inv, Accounted
    <3>2. delivered \o Append(conn.queue, m) = Append(delivered \o conn.queue, m)
      BY <2>1, <2>6, AppendMoves
    <3>. QED
      BY <1>2, <1>9, <2>8, <3>1, <3>2
  <2>10. IsPrefix(delivered' \o conn'.queue, taken')
    BY <2>7, <2>9, PrefixOfItself
  <2>11. ~cut' => conn'.open
    BY <1>1, <1>4, <1>9, <2>2, <2>4, <2>5, <2>7 DEF Inv, Accounted
  <2>12. Accounted'
    BY <2>9, <2>10, <2>11 DEF Accounted
  <2>13. ~conn'.destroyed
    BY <1>1, <1>4, <1>9, <2>2, <2>4, <2>5 DEF Inv, Quiet
  <2>. QED
    BY <1>2, <1>9, <2>1, <2>5, <2>7, <2>12, <2>13 DEF Inv, TypeOK, Sound, AlwaysReading, Quiet
<1>10. CASE /\ ~conn.closed /\ conn' = StartRead(Close(d, FALSE), "header")
            /\ UNCHANGED <<sends, taken, cut>>
  <2>. DEFINE f == Close(d, FALSE)
  <2>1. conn' = StartRead(f, "header")
    BY <1>10
  <2>2. /\ Sound(f) /\ f.closed /\ f.queue = d.queue /\ f.writing = d.writing
        /\ f.destroyed = d.destroyed /\ (~f.open => d.queue = <<>> \/ ~d.open)
    BY <1>5, <1>10, CloseSound
  <2>. HIDE DEF f
  <2>3. /\ Sound(conn') /\ conn'.reading = "header" /\ conn'.queue = f.queue
        /\ conn'.writing = f.writing /\ conn'.closed = f.closed
        /\ conn'.open = f.open /\ conn'.destroyed = f.destroyed
    BY <2>1, <2>2, StartReadSound
  <2>4. /\ conn'.queue = conn.queue /\ conn'.writing = conn.writing /\ conn'.closed
        /\ conn'.destroyed = conn.destroyed
    BY <1>1, <1>4, <2>2, <2>3
  <2>5. taken' = delivered' \o conn'.queue
    BY <1>2, <1>10, <2>4 DEF Inv, Accounted
  <2>6. IsPrefix(delivered' \o conn'.queue, taken')
    BY <1>2, <1>10, <2>4 DEF Inv, Accounted
  <2>7. ~cut' /\ ~conn'.open => conn'.queue = <<>>
    BY <1>1, <1>4, <1>10, <2>2, <2>3, <2>4 DEF Inv, Accounted
  <2>8. Accounted'
    BY <2>4, <2>5, <2>6, <2>7 DEF Accounted
  <2>. QED
    BY <1>1, <1>2, <1>10, <2>3, <2>4, <2>8 DEF Inv, TypeOK, Sound, AlwaysReading, Quiet
<1>. QED
  BY <1>3, <1>6, <1>7, <1>8, <1>9, <1>10

LEMMA ReadFailsStep ==
    ASSUME Inv, ReadFails
    PROVE  Inv'
<1>. DEFINE c == EndRead(conn)
<1>1. /\ Sound(c) /\ c.reading = "none" /\ c.queue = conn.queue /\ c.writing = conn.writing
      /\ c.closed = conn.closed /\ c.open = conn.open /\ c.destroyed = conn.destroyed
  BY AfterEndRead DEF ReadFails
<1>2. /\ UNCHANGED <<posted, peer, sends, closes, packets, taken, delivered>>
      /\ conn' = Close(c, TRUE)
      /\ cut' = (cut \/ peer = "gone") /\ (peer = "gone" \/ ~conn.open)
  BY DEF ReadFails, others
<1>. HIDE DEF c
<1>3. /\ Sound(conn') /\ conn'.closed /\ conn'.queue = c.queue
      /\ conn'.writing = c.writing /\ conn'.destroyed = c.destroyed
  BY <1>1, <1>2, CloseSound
<1>4. Accounted'
  BY <1>1, <1>2, <1>3, CalmStep DEF Inv, Accounted
<1>5. cut' \in BOOLEAN
  BY <1>2
<1>. QED
  BY <1>1, <1>2, <1>3, <1>4, <1>5 DEF Inv, TypeOK, Sound, AlwaysReading, Quiet

LEMMA WriteCompletesStep ==
    ASSUME Inv, WriteCompletes
    PROVE  Inv'
<1>. DEFINE r == conn.ready \cup {"write"}
<1>1. Sound(conn) /\ r \in SUBSET {"read", "write"} /\ conn.writing > 0
  BY DEF Inv, Sound, ConnectionState, WriteCompletes
<1>2. conn' = [conn EXCEPT !.ready = r]
  BY DEF WriteCompletes
<1>. HIDE DEF r
<1>3. /\ conn' \in ConnectionState
      /\ conn'.closed = conn.closed /\ conn'.protocol = conn.protocol /\ conn'.releases = conn.releases
      /\ conn'.queue = conn.queue /\ conn'.writing = conn.writing
      /\ conn'.reading = conn.reading /\ conn'.destroyed = conn.destroyed /\ conn'.open = conn.open
      /\ conn'.readTimer = conn.readTimer /\ conn'.writeTimer = conn.writeTimer
  BY <1>1, <1>2 DEF Sound, ConnectionState
<1>4. Sound(conn')
  BY <1>1, <1>3 DEF Sound, Released, OneWrite, Timed, ReadyIsWriting
<1>5. UNCHANGED <<posted, peer, sends, closes, packets, taken, delivered, cut>>
  BY DEF WriteCompletes, others
<1>6. Accounted'
  BY <1>3, <1>5, CalmStep DEF Inv, Accounted
<1>. QED
  BY <1>3, <1>4, <1>5, <1>6 DEF Inv, TypeOK, AlwaysReading, Quiet

\* A written message moves from the queue to the delivered ones.
LEMMA WriteDoneStep ==
    ASSUME Inv, WriteDone
    PROVE  Inv'
<1>. DEFINE q == Tail(conn.queue)
            c == EndWrite(conn, q)
<1>1. Sound(conn) /\ conn.writing > 0 /\ conn.queue # <<>>
  BY DEF Inv, WriteDone, Sound, ReadyIsWriting, OneWrite
<1>2. /\ conn.queue \in Seq(Message) /\ q \in Seq(Message) /\ Head(conn.queue) \in Message
      /\ delivered \in Seq(Message)
  BY <1>1, HeadTailProperties DEF Inv, TypeOK, ConnectionState
<1>3. /\ UNCHANGED <<posted, peer, sends, closes, packets, taken, cut>>
      /\ delivered' = Append(delivered, Head(conn.queue))
      /\ conn' = AfterWrite(c)
  BY DEF WriteDone
<1>4. delivered' \in Seq(Message) /\ delivered' \o q = delivered \o conn.queue
  BY <1>1, <1>2, <1>3, AppendProperties, HeadMoves
<1>. HIDE DEF q
<1>5. /\ c \in ConnectionState /\ Released(c) /\ c.writing = 0 /\ c.queue = q
      /\ "write" \notin c.ready /\ c.reading = conn.reading /\ c.readTimer = conn.readTimer
      /\ c.closed = conn.closed /\ c.protocol = conn.protocol /\ c.open = conn.open
      /\ c.destroyed = conn.destroyed
  BY <1>1, <1>2, EndWriteKeeps
<1>. HIDE DEF c
<1>6. ~c.closed /\ c.open => (c.reading # "none" => c.readTimer # {})
  BY <1>1, <1>5 DEF Sound, Timed
<1>7. ~conn.destroyed
  BY <1>1 DEF Inv, Quiet
<1>8. /\ Sound(conn') /\ conn'.queue = q /\ conn'.closed = conn.closed
      /\ conn'.reading = conn.reading /\ conn'.destroyed = conn.destroyed
      /\ ~conn'.closed => conn'.readTimer = conn.readTimer
      /\ ~conn'.open => ~conn.open \/ (conn.closed /\ q = <<>>)
  <2>1. CASE q # <<>>
    <3>1. conn' = InternalSend(c)
      BY <1>3, <1>5, <2>1 DEF AfterWrite
    <3>2. /\ Sound(conn') /\ conn'.queue = c.queue /\ conn'.closed = c.closed
          /\ conn'.reading = c.reading /\ conn'.destroyed = c.destroyed
          /\ conn'.readTimer = c.readTimer /\ conn'.open = c.open
      BY <1>5, <1>6, <2>1, <3>1, InternalSendSound
    <3>. QED
      BY <1>5, <3>2
  <2>2. CASE q = <<>> /\ c.closed
    <3>1. conn' = CloseSocket(c)
      BY <1>3, <1>5, <2>2 DEF AfterWrite
    <3>2. /\ conn' \in ConnectionState /\ ~conn'.open /\ conn'.closed = c.closed
          /\ conn'.protocol = c.protocol /\ conn'.releases = c.releases
          /\ conn'.queue = c.queue /\ conn'.writing = c.writing /\ conn'.ready = c.ready
          /\ conn'.reading = c.reading /\ conn'.destroyed = c.destroyed
      BY <1>5, <3>1, CloseSocketSound
    <3>. QED
      BY <1>5, <2>2, <3>2 DEF Sound, Released, OneWrite, Timed, ReadyIsWriting
  <2>3. CASE q = <<>> /\ ~c.closed
    <3>1. conn' = c
      BY <1>3, <1>5, <2>3 DEF AfterWrite
    <3>. QED
      BY <1>5, <1>6, <2>3, <3>1 DEF Sound, Released, OneWrite, Timed, ReadyIsWriting
  <2>. QED
    BY <2>1, <2>2, <2>3
<1>9. Accounted'
  BY <1>1, <1>3, <1>4, <1>8 DEF Inv, Accounted
<1>. QED
  BY <1>3, <1>4, <1>7, <1>8, <1>9 DEF Inv, TypeOK, Sound, AlwaysReading, Quiet

\* A failed write drops the queue, of a connection that is cut.
LEMMA WriteFailsStep ==
    ASSUME Inv, WriteFails
    PROVE  Inv'
<1>. DEFINE c == EndWrite(conn, <<>>)
<1>1. /\ Sound(conn) /\ conn.writing > 0 /\ conn.queue # <<>>
  BY DEF Inv, WriteFails, Sound, OneWrite
<1>2. /\ UNCHANGED <<posted, peer, sends, closes, packets, taken, delivered>>
      /\ conn' = Close(c, TRUE)
      /\ cut' = (cut \/ peer = "gone") /\ (peer = "gone" \/ ~conn.open)
  BY DEF WriteFails, others
<1>3. <<>> \in Seq(Message)
  BY EmptySeq
<1>4. /\ c \in ConnectionState /\ Released(c) /\ c.writing = 0 /\ c.queue = <<>>
      /\ "write" \notin c.ready /\ c.reading = conn.reading /\ c.readTimer = conn.readTimer
      /\ c.closed = conn.closed /\ c.open = conn.open /\ c.destroyed = conn.destroyed
  BY <1>1, <1>3, EndWriteKeeps
<1>. HIDE DEF c
<1>5. Sound(c)
  BY <1>1, <1>4 DEF Sound, OneWrite, Timed, ReadyIsWriting
<1>6. /\ Sound(conn') /\ conn'.closed /\ conn'.queue = <<>>
      /\ conn'.writing = 0 /\ conn'.destroyed = conn.destroyed
  <2>1. /\ Sound(conn') /\ conn'.closed /\ conn'.queue = c.queue
        /\ conn'.writing = c.writing /\ conn'.destroyed = c.destroyed
    BY <1>2, <1>5, CloseSound
  <2>. QED
    BY <1>4, <2>1
<1>7. cut'
  BY <1>1, <1>2 DEF Inv, Accounted
<1>8. cut' \in BOOLEAN
  BY <1>2
<1>9. /\ conn.queue \in Seq(Message) /\ delivered \in Seq(Message) /\ taken \in Seq(Message)
  BY DEF Inv, TypeOK, ConnectionState
<1>10. IsPrefix(delivered, taken) /\ delivered \o <<>> = delivered
  BY <1>9, PrefixShortened, ConcatEmptySeq DEF Inv, Accounted
<1>11. Accounted'
  BY <1>2, <1>6, <1>7, <1>10 DEF Accounted
<1>. QED
  BY <1>2, <1>6, <1>8, <1>11 DEF Inv, TypeOK, Sound, AlwaysReading, Quiet

\* A step that changes a timer only.
LEMMA TimerStep ==
    ASSUME Inv, NEW r \in Timer, NEW w \in Timer,
           conn' = [conn EXCEPT !.readTimer = r, !.writeTimer = w],
           conn.readTimer # {} => r # {}, conn.writeTimer # {} => w # {},
           conn.readTimer = {} => r = {},
           UNCHANGED <<posted, peer, sends, closes, packets, taken, delivered, cut>>
    PROVE  Inv'
<1>1. Sound(conn)
  BY DEF Inv
<1>2. /\ conn' \in ConnectionState
      /\ conn'.closed = conn.closed /\ conn'.protocol = conn.protocol /\ conn'.releases = conn.releases
      /\ conn'.queue = conn.queue /\ conn'.writing = conn.writing /\ conn'.ready = conn.ready
      /\ conn'.reading = conn.reading /\ conn'.destroyed = conn.destroyed /\ conn'.open = conn.open
      /\ conn'.readTimer = r /\ conn'.writeTimer = w
  BY <1>1 DEF Sound, ConnectionState
<1>3. Sound(conn')
  BY <1>1, <1>2 DEF Sound, Released, OneWrite, Timed, ReadyIsWriting
<1>4. Accounted'
  BY <1>2, CalmStep DEF Inv, Accounted
<1>. QED
  BY <1>2, <1>3, <1>4 DEF Inv, TypeOK, AlwaysReading, Quiet

LEMMA ExpiryStep ==
    ASSUME Inv, ReadTimerExpires \/ WriteTimerExpires
    PROVE  Inv'
<1>1. conn \in ConnectionState /\ conn.readTimer \in Timer /\ conn.writeTimer \in Timer
  BY DEF Inv, TypeOK, ConnectionState
<1>2. {"fired"} \in Timer
  BY DEF Timer
<1>3. CASE ReadTimerExpires
  <2>1. conn' = [conn EXCEPT !.readTimer = {"fired"}, !.writeTimer = conn.writeTimer]
    BY <1>1, <1>3 DEF ReadTimerExpires, ConnectionState
  <2>. QED
    BY <1>1, <1>2, <1>3, <2>1, TimerStep DEF ReadTimerExpires, others
<1>4. CASE WriteTimerExpires
  <2>1. conn' = [conn EXCEPT !.readTimer = conn.readTimer, !.writeTimer = {"fired"}]
    BY <1>1, <1>4 DEF WriteTimerExpires, ConnectionState
  <2>. QED
    BY <1>1, <1>2, <1>4, <2>1, TimerStep DEF WriteTimerExpires, others
<1>. QED
  BY <1>3, <1>4

\* A timeout that was handled leaves the connection closed, so it may lose its timer.
LEMMA TimeoutStep ==
    ASSUME Inv, ReadTimeout \/ WriteTimeout
    PROVE  Inv'
<1>. DEFINE r == IF ReadTimeout THEN conn.readTimer \ {"fired"} ELSE conn.readTimer
            w == IF ReadTimeout THEN conn.writeTimer ELSE conn.writeTimer \ {"fired"}
            c == [conn EXCEPT !.readTimer = r, !.writeTimer = w]
<1>1. r \in Timer /\ w \in Timer
  BY DEF Inv, TypeOK, ConnectionState, Timer
<1>2. /\ conn' = Close(c, TRUE)
      /\ cut' = (cut \/ ~conn.closed)
      /\ UNCHANGED <<posted, peer, sends, closes, packets, taken, delivered>>
  BY DEF ReadTimeout, WriteTimeout, others, Inv, TypeOK, ConnectionState
<1>. HIDE DEF r, w
<1>3. /\ c \in ConnectionState
      /\ c.closed = conn.closed /\ c.protocol = conn.protocol /\ c.releases = conn.releases
      /\ c.queue = conn.queue /\ c.writing = conn.writing /\ c.ready = conn.ready
      /\ c.reading = conn.reading /\ c.destroyed = conn.destroyed /\ c.open = conn.open
  BY <1>1 DEF Inv, TypeOK, ConnectionState
<1>. HIDE DEF c
<1>4. CASE conn.closed
  <2>1. Sound(c)
    BY <1>3, <1>4 DEF Inv, Sound, Released, OneWrite, Timed, ReadyIsWriting
  <2>2. conn' = c
    BY <1>2, <1>3, <1>4 DEF Close
  <2>3. cut' = cut
    BY <1>2, <1>4 DEF Inv, TypeOK
  <2>4. Accounted'
    BY <1>2, <1>3, <2>2, <2>3, CalmStep DEF Inv, Accounted
  <2>. QED
    BY <1>2, <1>3, <1>4, <2>1, <2>2, <2>3, <2>4 DEF Inv, TypeOK, Sound, AlwaysReading, Quiet
<1>5. CASE ~conn.closed
  <2>. DEFINE n == IF c.protocol THEN c.releases + 1 ELSE c.releases
              e == [c EXCEPT !.closed = TRUE, !.managed = FALSE, !.releases = n]
  <2>1. n \in Nat /\ n = IF c.protocol THEN 1 ELSE 0
    BY <1>3, <1>5 DEF Inv, Sound, Released, ConnectionState
  <2>2. conn' = CloseSocket(e)
    BY <1>2, <1>3, <1>5 DEF Close, ConnectionState
  <2>. HIDE DEF n
  <2>3. /\ e \in ConnectionState
        /\ e.closed /\ e.protocol = c.protocol /\ e.releases = n
        /\ e.queue = c.queue /\ e.writing = c.writing /\ e.ready = c.ready
        /\ e.reading = c.reading /\ e.destroyed = c.destroyed
    BY <1>3, <2>1 DEF ConnectionState
  <2>. HIDE DEF e
  <2>4. /\ conn' \in ConnectionState
        /\ conn'.closed /\ conn'.protocol = c.protocol /\ conn'.releases = n
        /\ conn'.queue = c.queue /\ conn'.writing = c.writing /\ conn'.ready = c.ready
        /\ conn'.reading = c.reading /\ conn'.destroyed = c.destroyed
    BY <2>2, <2>3, CloseSocketSound
  <2>5. Sound(conn')
    BY <1>3, <2>1, <2>4 DEF Inv, Sound, Released, OneWrite, Timed, ReadyIsWriting
  <2>6. cut' = TRUE
    BY <1>2, <1>5
  <2>7. Accounted'
    BY <1>2, <1>3, <2>4, <2>6, CalmStep DEF Inv
  <2>. QED
    BY <1>2, <1>3, <2>4, <2>5, <2>6, <2>7 DEF Inv, TypeOK, AlwaysReading, Quiet
<1>. QED
  BY <1>4, <1>5

\* A call from another thread, or the loss of the peer, does not touch the connection.
LEMMA OutsideStep ==
    ASSUME Inv, CallSend \/ CallClose \/ PeerGone
    PROVE  Inv'
<1>1. UNCHANGED <<conn, packets, taken, delivered, cut>>
  BY DEF CallSend, CallClose, PeerGone
<1>2. /\ posted' \in Seq(Call) /\ peer' \in {"up", "gone"}
      /\ sends' \in 0..MaxSends /\ closes' \in 0..MaxCloses
  <2>1. posted \in Seq(Call) /\ peer \in {"up", "gone"} /\ sends \in 0..MaxSends /\ closes \in 0..MaxCloses
    BY DEF Inv, TypeOK
  <2>2. CASE CallSend
    <3>1. sends + 1 \in 1..MaxSends /\ sends' = sends + 1 /\ UNCHANGED <<peer, closes>>
      BY <2>1, <2>2, BoundsAssumption DEF CallSend
    <3>. DEFINE k == [kind |-> "send", msg |-> sends + 1]
    <3>2. k \in Call
      BY <3>1 DEF Call, Message
    <3>3. posted' = Append(posted, k)
      BY <2>2 DEF CallSend
    <3>. HIDE DEF k
    <3>. QED
      BY <2>1, <3>1, <3>2, <3>3, AppendProperties
  <2>3. CASE CallClose
    <3>1. closes' \in 0..MaxCloses /\ UNCHANGED <<peer, sends>>
      BY <2>1, <2>3, BoundsAssumption DEF CallClose
    <3>. DEFINE k == [kind |-> "close"]
    <3>2. k \in Call
      BY DEF Call
    <3>3. posted' = Append(posted, k)
      BY <2>3 DEF CallClose
    <3>. HIDE DEF k
    <3>. QED
      BY <2>1, <3>1, <3>2, <3>3, AppendProperties
  <2>4. CASE PeerGone
    BY <2>1, <2>4 DEF PeerGone
  <2>. QED
    BY <2>2, <2>3, <2>4
<1>. QED
  BY <1>1, <1>2 DEF Inv, TypeOK, Accounted, AlwaysReading, Quiet

LEMMA RunPostedStep ==
    ASSUME Inv, RunPosted
    PROVE  Inv'
<1>1. /\ posted \in Seq(Call) /\ posted # <<>> /\ posted' = Tail(posted)
      /\ UNCHANGED <<peer, sends, closes, packets, delivered, cut>>
  BY DEF Inv, TypeOK, RunPosted
<1>2. Head(posted) \in Call /\ posted' \in Seq(Call)
  BY <1>1, HeadTailProperties
<1>3. Sound(conn)
  BY DEF Inv
<1>4. CASE Head(posted).kind = "close"
  <2>1. conn' = Close(conn, FALSE) /\ taken' = taken
    BY <1>4 DEF RunPosted
  <2>2. /\ Sound(conn') /\ conn'.closed /\ conn'.queue = conn.queue
        /\ conn'.writing = conn.writing /\ conn'.destroyed = conn.destroyed
        /\ ~conn'.open => conn.queue = <<>> \/ ~conn.open
    BY <1>3, <2>1, CloseSound
  <2>3. Accounted'
    BY <1>1, <2>1, <2>2, CalmStep DEF Inv, Accounted
  <2>. QED
    BY <1>1, <1>2, <2>1, <2>2, <2>3 DEF Inv, TypeOK, Sound, AlwaysReading, Quiet
<1>5. CASE Head(posted).kind = "send"
  <2>. DEFINE m == Head(posted).msg
  <2>1. m \in Message
    BY <1>2, <1>5 DEF Call
  <2>2. /\ conn' = Send(conn, m)
        /\ taken' = IF conn.closed THEN taken ELSE Append(taken, m)
    BY <1>5 DEF RunPosted
  <2>. HIDE DEF m
  <2>3. /\ Sound(conn')
        /\ conn.closed => conn' = conn
        /\ ~conn.closed => conn'.queue = Append(conn.queue, m)
        /\ conn'.closed = conn.closed /\ conn'.reading = conn.reading
        /\ conn'.readTimer = conn.readTimer /\ conn'.open = conn.open
        /\ conn'.destroyed = conn.destroyed
    BY <1>3, <2>1, <2>2, SendSound
  <2>4. /\ conn.queue \in Seq(Message) /\ delivered \in Seq(Message) /\ taken \in Seq(Message)
    BY DEF Inv, TypeOK, ConnectionState
  <2>5. CASE conn.closed
    BY <1>1, <1>2, <2>2, <2>3, <2>5 DEF Inv, TypeOK, Accounted, AlwaysReading, Quiet
  <2>6. CASE ~conn.closed
    <3>1. taken' \in Seq(Message) /\ taken' = Append(taken, m)
      BY <2>1, <2>2, <2>4, <2>6, AppendProperties
    <3>2. taken = delivered \o conn.queue
      BY <2>6 DEF Inv, Accounted
    <3>3. delivered \o Append(conn.queue, m) = Append(delivered \o conn.queue, m)
      BY <2>1, <2>4, AppendMoves
    <3>4. taken' = delivered' \o conn'.queue
      BY <1>1, <2>3, <2>6, <3>1, <3>2, <3>3
    <3>5. IsPrefix(delivered' \o conn'.queue, taken')
      BY <3>1, <3>4, PrefixOfItself
    <3>6. ~cut' => conn'.open
      BY <1>1, <2>3, <2>6 DEF Inv, Accounted
    <3>7. Accounted'
      BY <3>4, <3>5, <3>6 DEF Accounted
    <3>. QED
      BY <1>1, <1>2, <2>3, <2>6, <3>1, <3>7 DEF Inv, TypeOK, Sound, AlwaysReading, Quiet
  <2>. QED
    BY <2>5, <2>6
<1>. QED
  BY <1>4, <1>5 DEF RunPosted

LEMMA CloseAllStep ==
    ASSUME Inv, CloseAll
    PROVE  Inv'
<1>1. /\ conn' = [conn EXCEPT !.open = FALSE, !.managed = FALSE]
      /\ cut' = TRUE
      /\ UNCHANGED <<posted, peer, sends, closes, packets, taken, delivered>>
  BY DEF CloseAll, others
<1>2. Sound(conn)
  BY DEF Inv
<1>3. /\ conn' \in ConnectionState
      /\ conn'.closed = conn.closed /\ conn'.protocol = conn.protocol /\ conn'.releases = conn.releases
      /\ conn'.queue = conn.queue /\ conn'.writing = conn.writing /\ conn'.ready = conn.ready
      /\ conn'.reading = conn.reading /\ conn'.destroyed = conn.destroyed /\ ~conn'.open
      /\ conn'.readTimer = conn.readTimer
  BY <1>1, <1>2 DEF Sound, ConnectionState
<1>4. Sound(conn')
  BY <1>2, <1>3 DEF Sound, Released, OneWrite, Timed, ReadyIsWriting
<1>5. Accounted'
  BY <1>1, <1>3, CalmStep DEF Inv
<1>. QED
  BY <1>1, <1>3, <1>4, <1>5 DEF Inv, TypeOK, AlwaysReading, Quiet

LEMMA DestroyStep ==
    ASSUME Inv, Destroy
    PROVE  Inv'
<1>. DEFINE c == CloseSocket(conn)
<1>1. /\ c \in ConnectionState /\ ~c.open /\ c.closed = conn.closed /\ c.protocol = conn.protocol
      /\ c.releases = conn.releases /\ c.queue = conn.queue /\ c.writing = conn.writing
      /\ c.ready = conn.ready /\ c.reading = conn.reading
  BY CloseSocketSound DEF Inv, Sound
<1>2. conn' = [c EXCEPT !.destroyed = TRUE, !.readTimer = {}, !.writeTimer = {}]
  BY DEF Destroy
<1>3. {} \in Timer
  BY DEF Timer
<1>. HIDE DEF c
<1>4. /\ conn' \in ConnectionState
      /\ ~conn'.open /\ conn'.closed = c.closed /\ conn'.protocol = c.protocol
      /\ conn'.releases = c.releases /\ conn'.queue = c.queue /\ conn'.writing = c.writing
      /\ conn'.ready = c.ready /\ conn'.reading = c.reading
  BY <1>1, <1>2, <1>3 DEF ConnectionState
<1>5. Sound(conn')
  BY <1>1, <1>4 DEF Inv, Sound, Released, OneWrite, Timed, ReadyIsWriting
<1>6. /\ conn.writing = 0 /\ conn.queue = <<>> /\ conn.closed
  BY DEF Destroy, NotAccepted, Inv, Sound, OneWrite, AlwaysReading
<1>7. UNCHANGED <<posted, peer, sends, closes, packets, taken, delivered, cut>>
  BY DEF Destroy, others
<1>8. Accounted'
  BY <1>1, <1>4, <1>6, <1>7, CalmStep DEF Inv
<1>. QED
  BY <1>1, <1>4, <1>5, <1>6, <1>7, <1>8 DEF Inv, TypeOK, AlwaysReading, Quiet

\* Every step of the specification keeps the invariant.
LEMMA Inductive ==
    ASSUME Inv, [Next]_vars
    PROVE  Inv'
<1>1. CASE UNCHANGED vars
  BY <1>1 DEF vars, Inv, TypeOK, Accounted, AlwaysReading, Quiet
<1>2. CASE Accept \/ Reject
  BY <1>2, AcceptStep
<1>3. CASE ReadArrives
  BY <1>3, ReadArrivesStep
<1>4. CASE WriteCompletes
  BY <1>4, WriteCompletesStep
<1>5. CASE ReadTimerExpires \/ WriteTimerExpires
  BY <1>5, ExpiryStep
<1>6. CASE CallSend \/ CallClose \/ PeerGone
  BY <1>6, OutsideStep
<1>7. CASE CloseAll
  BY <1>7, CloseAllStep
<1>8. CASE Handlers
  BY <1>8, ParseHeaderStep, ParsePacketStep, ReadFailsStep, WriteDoneStep, WriteFailsStep,
     TimeoutStep, RunPostedStep, DestroyStep DEF Handlers
<1>. QED
  BY <1>1, <1>2, <1>3, <1>4, <1>5, <1>6, <1>7, <1>8 DEF Next

LEMMA Invariance == Spec => []Inv
BY Initially, Inductive, PTL DEF Spec

-----------------------------------------------------------------------------
(* The theorems.                                                           *)

\* The variables of Connection always have their types.
THEOREM TypeCorrect == Spec => []TypeOK
<1>1. Inv => TypeOK
  BY DEF Inv
<1>. QED
  BY <1>1, Invariance, PTL

\* Timers, errors and callers may all close the connection: close() posts the
\* release of the protocol exactly once.
THEOREM ProtocolReleasedOnce == Spec => []ReleasedOnce
<1>1. Inv => ReleasedOnce
  BY DEF Inv, Sound, Released, ReleasedOnce
<1>. QED
  BY <1>1, Invariance, PTL

\* send() and onWriteOperation() keep one write outstanding exactly while
\* messages are queued, so the unconditional pop never meets an empty queue.
THEOREM WritesAreSerial == Spec => []OneWritePerQueue
<1>1. Inv => OneWritePerQueue
  BY DEF Inv, Sound, OneWrite, OneWritePerQueue
<1>. QED
  BY <1>1, Invariance, PTL

\* The peer reads a prefix of what was sent, whatever ends the connection.
THEOREM StreamOrdered == Spec => []DeliveredInOrder
<1>1. Inv => DeliveredInOrder
  <2>1. SUFFICES ASSUME Inv PROVE IsPrefix(delivered, taken)
    BY DEF DeliveredInOrder
  <2>2. delivered \in Seq(Message) /\ conn.queue \in Seq(Message) /\ taken \in Seq(Message)
    BY <2>1 DEF Inv, TypeOK, ConnectionState
  <2>3. IsPrefix(delivered \o conn.queue, taken)
    BY <2>1 DEF Inv, Accounted
  <2>. QED
    BY <2>2, <2>3, PrefixShortened
<1>. QED
  BY <1>1, Invariance, PTL

\* A close without force loses no message unless something else cuts the connection.
THEOREM GracefulCloseLosesNothing == Spec => []GracefulCloseDelivers
<1>1. Inv => GracefulCloseDelivers
  <2>1. SUFFICES ASSUME Inv, conn.destroyed, ~cut PROVE delivered = taken
    BY DEF GracefulCloseDelivers
  <2>2. delivered \in Seq(Message) /\ conn.queue = <<>>
    BY <2>1 DEF Inv, TypeOK, Quiet, Sound, OneWrite
  <2>3. taken = delivered \o conn.queue
    BY <2>1 DEF Inv, Accounted
  <2>. QED
    BY <2>2, <2>3, ConcatEmptySeq
<1>. QED
  BY <1>1, Invariance, PTL

\* No read and no write of an open connection ever waits without its timer.
THEOREM WaitsAreTimed == Spec => []AlwaysTimed
<1>1. Inv => AlwaysTimed
  BY DEF Inv, Sound, Timed, AlwaysTimed
<1>. QED
  BY <1>1, Invariance, PTL

-----------------------------------------------------------------------------
(* The waiting list.  The entries of a new list are those of the old one,  *)
(* each at its rank among the places that are kept, so that the lemmas     *)
(* count places.                                                           *)

\* A set of numbers up to N that has one has a least one.
LEMMA LeastOf ==
    ASSUME NEW N \in Nat, NEW S \in SUBSET (0..N), S # {}
    PROVE  \E n \in S : \A m \in 0..N : m < n => m \notin S
<1>1. IsWellFoundedOn(OpToRel(<, Nat), Nat)
  BY NatLessThanWellFounded
<1>2. PICK n \in S : \A m \in S : <<m, n>> \notin OpToRel(<, Nat)
  <2>1. S \subseteq Nat
    OBVIOUS
  <2>. QED
    BY <1>1, <2>1, WFMin
<1>3. ASSUME NEW m \in 0..N, m < n, m \in S PROVE FALSE
  <2>1. <<m, n>> \in OpToRel(<, Nat)
    BY <1>2, <1>3 DEF OpToRel
  <2>. QED
    BY <1>2, <1>3, <2>1
<1>. QED
  BY <1>2, <1>3

\* How many of the places S there are up to i
Rank(S, i) == Cardinality(S \cap (1..i))

LEMMA RankGrows ==
    ASSUME NEW n \in Nat, NEW S \in SUBSET (1..n)
    PROVE  /\ IsFiniteSet(S) /\ Cardinality(S) \in 0..n
           /\ Rank(S, n) = Cardinality(S) /\ Rank(S, 0) = 0
           /\ \A i \in 0..n : Rank(S, i) \in 0..Cardinality(S)
           /\ \A i \in 1..n : Rank(S, i) = IF i \in S THEN Rank(S, i - 1) + 1 ELSE Rank(S, i - 1)
           /\ \A i, j \in 0..n : i <= j => Rank(S, i) <= Rank(S, j)
<1>1. IsFiniteSet(1..n) /\ Cardinality(1..n) = n
  BY FS_Interval
<1>2. IsFiniteSet(S) /\ Cardinality(S) <= n
  BY <1>1, FS_Subset
<1>3. Cardinality(S) \in 0..n
  BY <1>2, FS_CardinalityType
<1>4. Rank(S, n) = Cardinality(S)
  <2>1. S \cap (1..n) = S
    OBVIOUS
  <2>. QED
    BY <2>1 DEF Rank
<1>5. Rank(S, 0) = 0
  <2>1. S \cap (1..0) = {}
    OBVIOUS
  <2>. QED
    BY <2>1, FS_EmptySet DEF Rank
<1>6. ASSUME NEW i \in 0..n PROVE IsFiniteSet(S \cap (1..i)) /\ Rank(S, i) \in 0..Cardinality(S)
  <2>1. S \cap (1..i) \in SUBSET S
    OBVIOUS
  <2>2. IsFiniteSet(S \cap (1..i)) /\ Cardinality(S \cap (1..i)) <= Cardinality(S)
    BY <1>2, <2>1, FS_Subset
  <2>3. Cardinality(S \cap (1..i)) \in Nat
    BY <2>2, FS_CardinalityType
  <2>. QED
    BY <1>3, <2>2, <2>3 DEF Rank
<1>7. ASSUME NEW i \in 1..n
      PROVE  Rank(S, i) = IF i \in S THEN Rank(S, i - 1) + 1 ELSE Rank(S, i - 1)
  <2>1. CASE i \in S
    <3>1. S \cap (1..i) = (S \cap (1..(i - 1))) \cup {i}
      BY <2>1
    <3>2. i \notin S \cap (1..(i - 1)) /\ i - 1 \in 0..n
      OBVIOUS
    <3>3. IsFiniteSet(S \cap (1..(i - 1)))
      BY <1>6, <3>2
    <3>4. Cardinality((S \cap (1..(i - 1))) \cup {i}) = Cardinality(S \cap (1..(i - 1))) + 1
      BY <3>2, <3>3, FS_AddElement
    <3>. QED
      BY <2>1, <3>1, <3>4 DEF Rank
  <2>2. CASE i \notin S
    <3>1. S \cap (1..i) = S \cap (1..(i - 1))
      BY <2>2
    <3>. QED
      BY <2>2, <3>1 DEF Rank
  <2>. QED
    BY <2>1, <2>2
<1>8. ASSUME NEW i \in 0..n, NEW j \in 0..n, i <= j PROVE Rank(S, i) <= Rank(S, j)
  <2>1. S \cap (1..i) \in SUBSET (S \cap (1..j))
    BY <1>8
  <2>. QED
    BY <1>6, <2>1, FS_Subset DEF Rank
<1>. QED
  BY <1>2, <1>3, <1>4, <1>5, <1>6, <1>7, <1>8

LEMMA RankOfPlaces ==
    ASSUME NEW n \in Nat, NEW S \in SUBSET (1..n)
    PROVE  /\ \A i \in S : Rank(S, i) \in 1..Cardinality(S)
           /\ \A i, j \in S : i < j => Rank(S, i) < Rank(S, j)
           /\ \A k \in 1..Cardinality(S) : \E i \in S : Rank(S, i) = k
<1>. DEFINE r(i) == Rank(S, i)
            c == Cardinality(S)
<1>1. /\ c \in 0..n /\ r(n) = c /\ r(0) = 0
      /\ \A i \in 0..n : r(i) \in 0..c
      /\ \A i \in 1..n : r(i) = IF i \in S THEN r(i - 1) + 1 ELSE r(i - 1)
      /\ \A i, j \in 0..n : i <= j => r(i) <= r(j)
  BY RankGrows
<1>. HIDE DEF r, c
<1>2. ASSUME NEW i \in S PROVE r(i) \in 1..c
  <2>1. i \in 1..n /\ i - 1 \in 0..n /\ i \in 0..n
    OBVIOUS
  <2>2. r(i) = r(i - 1) + 1 /\ r(i - 1) \in 0..c /\ r(i) \in 0..c
    BY <1>1, <2>1
  <2>. QED
    BY <1>1, <2>2
<1>3. ASSUME NEW i \in S, NEW j \in S, i < j PROVE r(i) < r(j)
  <2>1. i \in 0..n /\ j \in 1..n /\ j - 1 \in 0..n /\ i <= j - 1
    BY <1>3
  <2>2. r(j) = r(j - 1) + 1 /\ r(i) <= r(j - 1) /\ r(i) \in 0..c /\ r(j - 1) \in 0..c
    BY <1>1, <2>1
  <2>. QED
    BY <1>1, <2>2
<1>4. ASSUME NEW k \in 1..c PROVE \E i \in S : r(i) = k
  <2>. DEFINE T == {i \in 0..n : r(i) >= k}
  <2>1. n \in T
    BY <1>1
  <2>2. PICK i \in T : \A m \in 0..n : m < i => m \notin T
    <3>1. T \in SUBSET (0..n) /\ T # {}
      BY <2>1
    <3>. HIDE DEF T
    <3>. QED
      BY <3>1, LeastOf
  <2>3. i # 0
    BY <1>1, <2>2
  <2>4. i \in 1..n /\ i - 1 \in 0..n /\ i - 1 < i /\ i \in 0..n
    BY <2>2, <2>3
  <2>5. ~(r(i - 1) >= k) /\ r(i) >= k
    BY <2>2, <2>4
  <2>6. r(i) = IF i \in S THEN r(i - 1) + 1 ELSE r(i - 1)
    BY <1>1, <2>4
  <2>7. r(i) \in 0..c /\ r(i - 1) \in 0..c
    BY <1>1, <2>4
  <2>8. i \in S
    BY <1>1, <2>5, <2>6, <2>7
  <2>9. r(i) = k
    BY <1>1, <2>5, <2>6, <2>7, <2>8
  <2>. QED
    BY <2>8, <2>9
<1>. QED
  BY <1>2, <1>3, <1>4 DEF r, c

-----------------------------------------------------------------------------

IsFresh(list) == {i \in DOMAIN list : Fresh(list[i])}
OncePerGuid(list) == \A i, j \in DOMAIN list : list[i].guid = list[j].guid => i = j

\* The clients that have a fresh entry in a list keep their order in the new one.
InOrder(list, new) ==
    \A i, j \in DOMAIN list, k, l \in DOMAIN new :
        /\ i < j
        /\ list[i].guid = new[k].guid
        /\ list[j].guid = new[l].guid
        /\ ~list[i].stale /\ ~list[j].stale
        => k < l

\* They all are in the new one, which has no other clients and no stale entries.
SameFresh(list, new) ==
    /\ \A i \in IsFresh(list) : \E k \in DOMAIN new : new[k].guid = list[i].guid
    /\ \A k \in DOMAIN new : ~new[k].stale /\ \E i \in IsFresh(list) : new[k].guid = list[i].guid

\* What FreshEntries returns: the entry at place k is the one with rank k.
LEMMA FreshRanked ==
    ASSUME NEW list \in Seq(Entry)
    PROVE  LET S == IsFresh(list)
               new == FreshEntries(list)
           IN  /\ S \in SUBSET (1..Len(list))
               /\ new \in Seq(Entry) /\ Len(new) = Cardinality(S)
               /\ \A k \in DOMAIN new : \E i \in S : Rank(S, i) = k /\ new[k] = list[i]
               /\ \A i \in S : Rank(S, i) \in DOMAIN new /\ new[Rank(S, i)] = list[i]
<1>. DEFINE S == IsFresh(list)
            new == FreshEntries(list)
            n == Len(list)
            c == Cardinality(S)
            at(k) == CHOOSE i \in S : Rank(S, i) = k
<1>1. n \in Nat /\ DOMAIN list = 1..n /\ \A i \in 1..n : list[i] \in Entry
  BY LenProperties
<1>2. S \in SUBSET (1..n)
  BY <1>1 DEF IsFresh
<1>3. new = [k \in 1..c |-> list[at(k)]]
  BY DEF FreshEntries, IsFresh, Rank
<1>4. c \in Nat
  <2>. HIDE DEF S
  <2>. QED
    BY <1>1, <1>2, RankGrows
<1>5. /\ \A i \in S : Rank(S, i) \in 1..c
      /\ \A i, j \in S : i < j => Rank(S, i) < Rank(S, j)
      /\ \A k \in 1..c : \E i \in S : Rank(S, i) = k
  <2>. HIDE DEF S, n
  <2>. QED
    BY <1>1, <1>2, RankOfPlaces
<1>. HIDE DEF S, n, c, new
<1>6. ASSUME NEW k \in 1..c PROVE at(k) \in S /\ Rank(S, at(k)) = k
  BY <1>5, <1>6
<1>7. ASSUME NEW i \in S PROVE at(Rank(S, i)) = i
  <2>1. at(Rank(S, i)) \in S /\ Rank(S, at(Rank(S, i))) = Rank(S, i)
    BY <1>5, <1>6
  <2>. DEFINE a == at(Rank(S, i))
  <2>2. a \in S /\ Rank(S, a) = Rank(S, i) /\ i \in 1..n /\ a \in 1..n
    BY <1>2, <2>1
  <2>. HIDE DEF a
  <2>3. ~(a < i) /\ ~(i < a)
    BY <1>4, <1>5, <2>2
  <2>. QED
    BY <1>1, <2>2, <2>3 DEF a
<1>. HIDE DEF at
<1>8. \A k \in 1..c : list[at(k)] \in Entry
  BY <1>1, <1>2, <1>6
<1>9. new \in Seq(Entry) /\ Len(new) = c /\ DOMAIN new = 1..c
  <2>1. new \in [1..c -> Entry]
    BY <1>3, <1>8
  <2>. QED
    BY <1>4, <2>1
<1>10. \A k \in DOMAIN new : \E i \in S : Rank(S, i) = k /\ new[k] = list[i]
  BY <1>3, <1>6, <1>9
<1>11. \A i \in S : Rank(S, i) \in DOMAIN new /\ new[Rank(S, i)] = list[i]
  BY <1>3, <1>5, <1>7, <1>9
<1>. QED
  BY <1>2, <1>9, <1>10, <1>11 DEF S, n, c, new

\* Erasing the stale entries keeps the others and their order.
LEMMA PurgedList ==
    ASSUME NEW list \in Seq(Entry), OncePerGuid(list)
    PROVE  LET new == FreshEntries(list)
           IN  /\ new \in Seq(Entry)
               /\ Len(new) = Cardinality(IsFresh(list))
               /\ OncePerGuid(new)
               /\ InOrder(list, new)
               /\ SameFresh(list, new)
<1>. DEFINE S == IsFresh(list)
            new == FreshEntries(list)
            n == Len(list)
<1>1. n \in Nat /\ DOMAIN list = 1..n
  BY LenProperties
<1>2. /\ S \in SUBSET (1..n)
      /\ new \in Seq(Entry) /\ Len(new) = Cardinality(S)
      /\ \A k \in DOMAIN new : \E i \in S : Rank(S, i) = k /\ new[k] = list[i]
      /\ \A i \in S : Rank(S, i) \in DOMAIN new /\ new[Rank(S, i)] = list[i]
  BY FreshRanked
<1>3. \A i, j \in S : i < j => Rank(S, i) < Rank(S, j)
  <2>. HIDE DEF S, n
  <2>. QED
    BY <1>1, <1>2, RankOfPlaces
<1>4. \A i, j \in 1..n : list[i].guid = list[j].guid => i = j
  BY <1>1 DEF OncePerGuid
<1>5. \A i \in 1..n : i \in S <=> ~list[i].stale
  BY <1>1 DEF IsFresh, Fresh
<1>. HIDE DEF S, n, new
<1>6. OncePerGuid(new)
  BY <1>2, <1>4 DEF OncePerGuid
<1>7. InOrder(list, new)
  <2>. SUFFICES ASSUME NEW i \in DOMAIN list, NEW j \in DOMAIN list,
                       NEW k \in DOMAIN new, NEW l \in DOMAIN new, i < j,
                       list[i].guid = new[k].guid, list[j].guid = new[l].guid,
                       ~list[i].stale, ~list[j].stale
                PROVE  k < l
    BY DEF InOrder
  <2>1. i \in S /\ j \in S
    BY <1>1, <1>5
  <2>2. PICK a \in S : Rank(S, a) = k /\ new[k] = list[a]
    BY <1>2
  <2>3. PICK b \in S : Rank(S, b) = l /\ new[l] = list[b]
    BY <1>2
  <2>4. a = i /\ b = j
    BY <1>1, <1>2, <1>4, <2>2, <2>3
  <2>. QED
    BY <1>3, <2>1, <2>2, <2>3, <2>4
<1>8. SameFresh(list, new)
  BY <1>1, <1>2, <1>5 DEF SameFresh, S
<1>. QED
  BY <1>2, <1>6, <1>7, <1>8 DEF new, S

LEMMA Removed ==
    ASSUME NEW list \in Seq(Entry), NEW i \in 1..Len(list)
    PROVE  LET new == RemoveAt(list, i)
           IN  /\ new \in Seq(Entry) /\ Len(new) = Len(list) - 1
               /\ \A k \in 1..Len(list) - 1 : new[k] = list[IF k < i THEN k ELSE k + 1]
<1>. DEFINE n == Len(list)
            A == SubSeq(list, 1, i - 1)
            B == SubSeq(list, i + 1, n)
            new == RemoveAt(list, i)
<1>1. n \in Nat /\ i \in 1..n /\ \A k \in 1..n : list[k] \in Entry
  BY LenProperties
<1>2. A \in Seq(Entry) /\ Len(A) = i - 1 /\ \A k \in 1..(i - 1) : A[k] = list[k]
  <2>1. /\ 1 \in Int /\ i - 1 \in Int /\ \A k \in 1..(i - 1) : list[k] \in Entry
        /\ i - 1 - 1 + 1 = i - 1
    BY <1>1
  <2>2. /\ A \in Seq(Entry)
        /\ Len(A) = IF 1 <= i - 1 THEN i - 1 - 1 + 1 ELSE 0
        /\ \A k \in 1..(i - 1 - 1 + 1) : A[k] = list[1 + k - 1]
    BY <2>1, SubSeqProperties
  <2>. HIDE DEF A
  <2>. QED
    BY <1>1, <2>1, <2>2
<1>3. B \in Seq(Entry) /\ Len(B) = n - i /\ \A k \in 1..(n - i) : B[k] = list[k + i]
  <2>1. /\ i + 1 \in Int /\ n \in Int /\ \A k \in (i + 1)..n : list[k] \in Entry
        /\ n - (i + 1) + 1 = n - i
    BY <1>1
  <2>2. /\ B \in Seq(Entry)
        /\ Len(B) = IF i + 1 <= n THEN n - (i + 1) + 1 ELSE 0
        /\ \A k \in 1..(n - (i + 1) + 1) : B[k] = list[(i + 1) + k - 1]
    <3>. HIDE DEF n
    <3>. QED
      BY <2>1, SubSeqProperties
  <2>. HIDE DEF B, n
  <2>. QED
    BY <1>1, <2>1, <2>2
<1>4. new = A \o B
  BY DEF RemoveAt
<1>. HIDE DEF A, B, n, new
<1>5. /\ A \o B \in Seq(Entry) /\ Len(A \o B) = Len(A) + Len(B)
      /\ \A k \in 1..Len(A) + Len(B) : (A \o B)[k] = IF k <= Len(A) THEN A[k] ELSE B[k - Len(A)]
  BY <1>2, <1>3, ConcatProperties
<1>6. Len(new) = n - 1
  BY <1>1, <1>2, <1>3, <1>4, <1>5
<1>7. ASSUME NEW k \in 1..n - 1 PROVE new[k] = list[IF k < i THEN k ELSE k + 1]
  <2>1. new[k] = IF k <= i - 1 THEN A[k] ELSE B[k - (i - 1)]
    BY <1>1, <1>2, <1>3, <1>4, <1>5
  <2>2. CASE k < i
    BY <1>1, <1>2, <2>1, <2>2
  <2>3. CASE ~(k < i)
    <3>. DEFINE m == k - (i - 1)
    <3>1. m \in 1..(n - i) /\ m + i = k + 1 /\ ~(k <= i - 1)
      BY <1>1, <2>3
    <3>2. new[k] = B[m]
      BY <2>1, <3>1
    <3>. HIDE DEF m
    <3>3. B[m] = list[m + i]
      BY <1>3, <3>1
    <3>. QED
      BY <2>3, <3>1, <3>2, <3>3
  <2>. QED
    BY <2>2, <2>3
<1>. QED
  BY <1>4, <1>5, <1>6, <1>7 DEF new, n

LEMMA Inserted ==
    ASSUME NEW list \in Seq(Entry), NEW i \in 1..Len(list) + 1, NEW e \in Entry
    PROVE  LET new == InsertAt(list, i, e)
           IN  /\ new \in Seq(Entry) /\ Len(new) = Len(list) + 1
               /\ new[i] = e
               /\ \A k \in 1..Len(list) + 1 :
                      k # i => new[k] = list[IF k < i THEN k ELSE k - 1]
<1>. DEFINE n == Len(list)
            A == SubSeq(list, 1, i - 1)
            E == <<e>>
            B == SubSeq(list, i, n)
            new == InsertAt(list, i, e)
<1>1. n \in Nat /\ i \in 1..n + 1 /\ \A k \in 1..n : list[k] \in Entry
  BY LenProperties
<1>2. A \in Seq(Entry) /\ Len(A) = i - 1 /\ \A k \in 1..(i - 1) : A[k] = list[k]
  <2>1. /\ 1 \in Int /\ i - 1 \in Int /\ \A k \in 1..(i - 1) : list[k] \in Entry
        /\ i - 1 - 1 + 1 = i - 1
    BY <1>1
  <2>2. /\ A \in Seq(Entry)
        /\ Len(A) = IF 1 <= i - 1 THEN i - 1 - 1 + 1 ELSE 0
        /\ \A k \in 1..(i - 1 - 1 + 1) : A[k] = list[1 + k - 1]
    BY <2>1, SubSeqProperties
  <2>. HIDE DEF A
  <2>. QED
    BY <1>1, <2>1, <2>2
<1>3. B \in Seq(Entry) /\ Len(B) = n - i + 1 /\ \A k \in 1..(n - i + 1) : B[k] = list[i + k - 1]
  <2>1. i \in Int /\ n \in Int /\ \A k \in i..n : list[k] \in Entry
    BY <1>1
  <2>2. /\ B \in Seq(Entry)
        /\ Len(B) = IF i <= n THEN n - i + 1 ELSE 0
        /\ \A k \in 1..(n - i + 1) : B[k] = list[i + k - 1]
    <3>. HIDE DEF n
    <3>. QED
      BY <2>1, SubSeqProperties
  <2>. HIDE DEF B, n
  <2>. QED
    BY <1>1, <2>1, <2>2
<1>4. E \in Seq(Entry) /\ Len(E) = 1 /\ E[1] = e
  OBVIOUS
<1>5. new = (A \o E) \o B
  BY DEF InsertAt
<1>. HIDE DEF A, B, E, n, new
<1>6. /\ A \o E \in Seq(Entry) /\ Len(A \o E) = i
      /\ \A k \in 1..i : (A \o E)[k] = IF k < i THEN A[k] ELSE e
  <2>1. /\ A \o E \in Seq(Entry) /\ Len(A \o E) = Len(A) + Len(E)
        /\ \A k \in 1..Len(A) + Len(E) : (A \o E)[k] = IF k <= Len(A) THEN A[k] ELSE E[k - Len(A)]
    BY <1>2, <1>4, ConcatProperties
  <2>2. Len(A) + Len(E) = i
    BY <1>1, <1>2, <1>4
  <2>3. ASSUME NEW k \in 1..i PROVE (A \o E)[k] = IF k < i THEN A[k] ELSE e
    <3>1. (A \o E)[k] = IF k <= i - 1 THEN A[k] ELSE E[k - (i - 1)]
      BY <1>2, <2>1, <2>2
    <3>2. CASE k < i
      BY <1>1, <3>1, <3>2
    <3>3. CASE k = i
      <4>1. k - (i - 1) = 1 /\ ~(k <= i - 1)
        BY <1>1, <3>3
      <4>. QED
        BY <1>4, <3>1, <3>3, <4>1
    <3>4. k < i \/ k = i
      BY <1>1
    <3>. QED
      BY <3>2, <3>3, <3>4
  <2>. QED
    BY <2>1, <2>2, <2>3
<1>. DEFINE C == A \o E
<1>61. C \in Seq(Entry)
  BY <1>6
<1>. HIDE DEF C
<1>7. /\ C \o B \in Seq(Entry) /\ Len(C \o B) = Len(C) + Len(B)
      /\ \A k \in 1..Len(C) + Len(B) : (C \o B)[k] = IF k <= Len(C) THEN C[k] ELSE B[k - Len(C)]
  BY <1>3, <1>61, ConcatProperties
<1>8. new = C \o B /\ Len(C) = i /\ \A k \in 1..i : C[k] = IF k < i THEN A[k] ELSE e
  BY <1>5, <1>6 DEF C
<1>9. new \in Seq(Entry) /\ Len(new) = n + 1 /\ Len(C) + Len(B) = n + 1
  BY <1>1, <1>3, <1>7, <1>8
<1>10. ASSUME NEW k \in 1..n + 1 PROVE new[k] = IF k <= i THEN C[k] ELSE B[k - i]
  BY <1>7, <1>8, <1>9
<1>11. new[i] = e
  BY <1>1, <1>8, <1>10
<1>12. ASSUME NEW k \in 1..n + 1, k # i PROVE new[k] = list[IF k < i THEN k ELSE k - 1]
  <2>1. CASE k < i
    <3>1. new[k] = A[k] /\ k \in 1..(i - 1)
      BY <1>1, <1>8, <1>10, <2>1
    <3>. QED
      BY <1>2, <2>1, <3>1
  <2>2. CASE k > i
    <3>. DEFINE m == k - i
    <3>1. m \in 1..(n - i + 1) /\ i + m - 1 = k - 1 /\ ~(k <= i) /\ ~(k < i)
      BY <1>1, <2>2
    <3>2. new[k] = B[m]
      BY <1>10, <3>1
    <3>. HIDE DEF m
    <3>3. B[m] = list[i + m - 1]
      BY <1>3, <3>1
    <3>. QED
      BY <3>1, <3>2, <3>3
  <2>. QED
    BY <1>1, <1>12, <2>1, <2>2
<1>. QED
  BY <1>9, <1>11, <1>12 DEF new, n

\* The order is kept by what follows, one entry fewer or one more.
LEMMA RemovedKeeps ==
    ASSUME NEW list \in Seq(Entry), OncePerGuid(list), NEW i \in 1..Len(list)
    PROVE  OncePerGuid(RemoveAt(list, i)) /\ InOrder(list, RemoveAt(list, i))
<1>. DEFINE n == Len(list)
            new == RemoveAt(list, i)
            from(k) == IF k < i THEN k ELSE k + 1
<1>1. n \in Nat /\ DOMAIN list = 1..n /\ i \in 1..n
  BY LenProperties
<1>2. new \in Seq(Entry) /\ Len(new) = n - 1 /\ \A k \in 1..n - 1 : new[k] = list[from(k)]
  BY Removed
<1>3. DOMAIN new = 1..n - 1
  BY <1>2, LenProperties
<1>4. ASSUME NEW k \in 1..n - 1, NEW l \in 1..n - 1
      PROVE  from(k) \in 1..n /\ (from(k) < from(l) => k < l) /\ (from(k) = from(l) => k = l)
  BY <1>1
<1>5. \A a, b \in 1..n : list[a].guid = list[b].guid => a = b
  BY <1>1 DEF OncePerGuid
<1>. HIDE DEF n, new, from
<1>6. OncePerGuid(new)
  <2>. SUFFICES ASSUME NEW k \in DOMAIN new, NEW l \in DOMAIN new, new[k].guid = new[l].guid
                PROVE  k = l
    BY DEF OncePerGuid
  <2>1. new[k] = list[from(k)] /\ new[l] = list[from(l)] /\ from(k) \in 1..n /\ from(l) \in 1..n
    BY <1>2, <1>3, <1>4
  <2>2. from(k) = from(l)
    BY <1>5, <2>1
  <2>. QED
    BY <1>3, <1>4, <2>2
<1>7. InOrder(list, new)
  <2>. SUFFICES ASSUME NEW a \in DOMAIN list, NEW b \in DOMAIN list,
                       NEW k \in DOMAIN new, NEW l \in DOMAIN new, a < b,
                       list[a].guid = new[k].guid, list[b].guid = new[l].guid
                PROVE  k < l
    BY DEF InOrder
  <2>1. new[k] = list[from(k)] /\ new[l] = list[from(l)] /\ from(k) \in 1..n /\ from(l) \in 1..n
    BY <1>2, <1>3, <1>4
  <2>2. from(k) = a /\ from(l) = b
    BY <1>1, <1>5, <2>1
  <2>. QED
    BY <1>3, <1>4, <2>2
<1>. QED
  BY <1>6, <1>7 DEF new

LEMMA InsertedKeeps ==
    ASSUME NEW list \in Seq(Entry), OncePerGuid(list), NEW i \in 1..Len(list) + 1,
           NEW e \in Entry, \A k \in DOMAIN list : list[k].guid # e.guid
    PROVE  OncePerGuid(InsertAt(list, i, e)) /\ InOrder(list, InsertAt(list, i, e))
<1>. DEFINE n == Len(list)
            new == InsertAt(list, i, e)
            from(k) == IF k < i THEN k ELSE k - 1
<1>1. n \in Nat /\ DOMAIN list = 1..n /\ i \in 1..n + 1
  BY LenProperties
<1>2. /\ new \in Seq(Entry) /\ Len(new) = n + 1 /\ new[i] = e
      /\ \A k \in 1..n + 1 : k # i => new[k] = list[from(k)]
  BY Inserted
<1>3. DOMAIN new = 1..n + 1
  BY <1>2, LenProperties
<1>4. ASSUME NEW k \in 1..n + 1, NEW l \in 1..n + 1, k # i, l # i
      PROVE  from(k) \in 1..n /\ (from(k) < from(l) => k < l) /\ (from(k) = from(l) => k = l)
  BY <1>1, <1>4
<1>5. /\ \A a, b \in 1..n : list[a].guid = list[b].guid => a = b
      /\ \A a \in 1..n : list[a].guid # e.guid
  BY <1>1 DEF OncePerGuid
<1>. HIDE DEF n, new, from
<1>6. OncePerGuid(new)
  <2>. SUFFICES ASSUME NEW k \in DOMAIN new, NEW l \in DOMAIN new, new[k].guid = new[l].guid
                PROVE  k = l
    BY DEF OncePerGuid
  <2>1. CASE k # i /\ l # i
    <3>1. new[k] = list[from(k)] /\ new[l] = list[from(l)] /\ from(k) \in 1..n /\ from(l) \in 1..n
      BY <1>2, <1>3, <1>4, <2>1
    <3>2. from(k) = from(l)
      BY <1>5, <3>1
    <3>. QED
      BY <1>3, <1>4, <2>1, <3>2
  <2>2. CASE k = i /\ l # i
    BY <1>2, <1>3, <1>4, <1>5, <2>2
  <2>3. CASE l = i /\ k # i
    BY <1>2, <1>3, <1>4, <1>5, <2>3
  <2>. QED
    BY <2>1, <2>2, <2>3
<1>7. InOrder(list, new)
  <2>. SUFFICES ASSUME NEW a \in DOMAIN list, NEW b \in DOMAIN list,
                       NEW k \in DOMAIN new, NEW l \in DOMAIN new, a < b,
                       list[a].guid = new[k].guid, list[b].guid = new[l].guid
                PROVE  k < l
    BY DEF InOrder
  <2>1. k # i /\ l # i
    BY <1>1, <1>2, <1>5
  <2>2. new[k] = list[from(k)] /\ new[l] = list[from(l)] /\ from(k) \in 1..n /\ from(l) \in 1..n
    BY <1>2, <1>3, <1>4, <2>1
  <2>3. from(k) = a /\ from(l) = b
    BY <1>1, <1>5, <2>2
  <2>. QED
    BY <1>3, <1>4, <2>1, <2>3
<1>. QED
  BY <1>6, <1>7 DEF new

\* Appending is inserting at the end.
LEMMA AppendInserts ==
    ASSUME NEW list \in Seq(Entry), NEW e \in Entry
    PROVE  /\ Append(list, e) = InsertAt(list, Len(list) + 1, e)
           /\ Len(list) + 1 \in 1..Len(list) + 1
<1>. DEFINE n == Len(list)
            new == InsertAt(list, n + 1, e)
<1>1. n \in Nat /\ n + 1 \in 1..n + 1
  BY LenProperties
<1>2. /\ new \in Seq(Entry) /\ Len(new) = n + 1 /\ new[n + 1] = e
      /\ \A k \in 1..n + 1 : k # n + 1 => new[k] = list[IF k < n + 1 THEN k ELSE k - 1]
  <2>. DEFINE at == n + 1
  <2>1. at \in 1..n + 1
    BY <1>1
  <2>. HIDE DEF at
  <2>2. LET s == InsertAt(list, at, e)
        IN  /\ s \in Seq(Entry) /\ Len(s) = n + 1 /\ s[at] = e
            /\ \A k \in 1..n + 1 : k # at => s[k] = list[IF k < at THEN k ELSE k - 1]
    BY <2>1, Inserted
  <2>. QED
    BY <2>2 DEF at
<1>3. /\ Append(list, e) \in Seq(Entry) /\ Len(Append(list, e)) = n + 1
      /\ Append(list, e)[n + 1] = e /\ \A k \in 1..n : Append(list, e)[k] = list[k]
  BY AppendProperties
<1>. HIDE DEF n, new
<1>4. \A k \in 1..n + 1 : Append(list, e)[k] = new[k]
  <2>. SUFFICES ASSUME NEW k \in 1..n + 1 PROVE Append(list, e)[k] = new[k]
    OBVIOUS
  <2>1. CASE k = n + 1
    BY <1>2, <1>3, <2>1
  <2>2. CASE k # n + 1
    <3>1. k \in 1..n /\ k < n + 1
      BY <1>1, <2>2
    <3>. QED
      BY <1>2, <1>3, <2>2, <3>1
  <2>. QED
    BY <2>1, <2>2
<1>5. Append(list, e) = new
  BY <1>2, <1>3, <1>4, SeqEqual
<1>. QED
  BY <1>1, <1>5 DEF new, n

LEMMA InOrderThroughPurge ==
    ASSUME NEW list, NEW purged, NEW new,
           InOrder(list, purged), SameFresh(list, purged), InOrder(purged, new)
    PROVE  InOrder(list, new)
<1>. SUFFICES ASSUME NEW i \in DOMAIN list, NEW j \in DOMAIN list,
                     NEW k \in DOMAIN new, NEW l \in DOMAIN new, i < j,
                     list[i].guid = new[k].guid, list[j].guid = new[l].guid,
                     ~list[i].stale, ~list[j].stale
              PROVE  k < l
  BY DEF InOrder
<1>1. i \in IsFresh(list) /\ j \in IsFresh(list)
  BY DEF IsFresh, Fresh
<1>2. PICK a \in DOMAIN purged : purged[a].guid = list[i].guid
  BY <1>1 DEF SameFresh
<1>3. PICK b \in DOMAIN purged : purged[b].guid = list[j].guid
  BY <1>1 DEF SameFresh
<1>4. a < b
  BY <1>2, <1>3 DEF InOrder
<1>5. ~purged[a].stale /\ ~purged[b].stale
  BY DEF SameFresh
<1>. QED
  BY <1>2, <1>3, <1>4, <1>5 DEF InOrder

-----------------------------------------------------------------------------
(* The iterator.                                                           *)

\* It is invalid, at an entry, or at the end of an empty list.
ValidEnd(list, end) == end \in 0..Len(list) \/ (list = <<>> /\ end = 1)

LEMMA EndStaysValid ==
    ASSUME NEW list \in Seq(Entry), NEW end, ValidEnd(list, end), NEW S \in SUBSET (1..Len(list)),
           NEW new \in Seq(Entry), Len(new) = Len(list) - Cardinality(S)
    PROVE  ValidEnd(new, EndAfterErase(list, end, S))
<1>. DEFINE n == Len(list)
            front == CHOOSE a \in 0..n : 1..a \subseteq S /\ a + 1 \notin S
            m == Len(new)
            c == Cardinality(S)
<1>1. n \in Nat /\ m \in Nat /\ S \in SUBSET (1..n)
  BY LenProperties
<1>2. IsFiniteSet(S) /\ c \in 0..n /\ m = n - c
  <2>. HIDE DEF n, m
  <2>1. IsFiniteSet(S) /\ c \in 0..n
    BY <1>1, RankGrows
  <2>. QED
    BY <1>1, <2>1 DEF n, m
<1>3. front \in 0..n /\ 1..front \subseteq S /\ front + 1 \notin S
  <2>. DEFINE T == {a \in 0..n : a + 1 \notin S}
  <2>1. n \in T
    BY <1>1
  <2>2. PICK a \in T : \A b \in 0..n : b < a => b \notin T
    <3>1. T \in SUBSET (0..n) /\ T # {}
      BY <2>1
    <3>. HIDE DEF T, n
    <3>. QED
      BY <1>1, <3>1, LeastOf
  <2>3. ASSUME NEW i \in 1..a PROVE i \in S
    <3>1. i - 1 \in 0..n /\ i - 1 < a /\ i - 1 + 1 = i
      BY <1>1, <2>2
    <3>. QED
      BY <2>2, <3>1
  <2>4. a \in 0..n /\ 1..a \subseteq S /\ a + 1 \notin S
    BY <2>2, <2>3
  <2>. QED
    BY <2>4
<1>4. EndAfterErase(list, end, S) =
        IF S = {} THEN end
        ELSE IF end \in S \/ end = 0 \/ ~(S \subseteq (1..front) \cup {n}) THEN 0
        ELSE end - front
  BY DEF EndAfterErase
<1>5. end \in 0..n \/ (n = 0 /\ end = 1)
  BY DEF ValidEnd
<1>6. n = 0 => list = <<>>
  BY <1>1, EmptySeq
<1>7. m = 0 => new = <<>>
  BY <1>1, EmptySeq
<1>. DEFINE after == EndAfterErase(list, end, S)
<1>. HIDE DEF front, n, m, c, after
<1>8. after \in 0..m \/ (m = 0 /\ after = 1)
  <2>1. CASE S = {}
    <3>1. c = 0
      BY <2>1, FS_EmptySet DEF c
    <3>2. after = end /\ m = n
      BY <1>1, <1>2, <1>4, <2>1, <3>1 DEF after
    <3>. QED
      BY <1>5, <3>2
  <2>2. CASE S # {} /\ (end \in S \/ end = 0 \/ ~(S \subseteq (1..front) \cup {n}))
    <3>1. after = 0
      BY <1>4, <2>2 DEF after
    <3>. QED
      BY <1>1, <3>1
  <2>3. CASE S # {} /\ end \notin S /\ end # 0 /\ S \subseteq (1..front) \cup {n}
    <3>1. after = end - front
      BY <1>4, <2>3 DEF after
    <3>2. n # 0
      <4>1. PICK x \in S : TRUE
        BY <2>3
      <4>2. x \in 1..n
        BY <1>1
      <4>. QED
        BY <1>1, <4>2
    <3>3. end \in 1..n /\ end > front
      <4>1. end \in 1..n
        BY <1>1, <1>5, <2>3, <3>2
      <4>2. front \in Nat
        BY <1>1, <1>3
      <4>3. end \notin 1..front
        BY <1>3, <2>3
      <4>. QED
        BY <1>1, <4>1, <4>2, <4>3
    <3>4. IsFiniteSet(1..front) /\ Cardinality(1..front) = front
      BY <1>3, FS_Interval
    <3>5. CASE n \in S /\ n > front
      <4>1. n \notin 1..front
        BY <1>1, <1>3, <3>5
      <4>2. /\ IsFiniteSet((1..front) \cup {n})
            /\ Cardinality((1..front) \cup {n}) = front + 1
        BY <3>4, <4>1, FS_AddElement
      <4>3. c <= front + 1
        <5>. DEFINE U == (1..front) \cup {n}
        <5>1. S \in SUBSET U /\ IsFiniteSet(U) /\ Cardinality(U) = front + 1
          BY <2>3, <4>2
        <5>. HIDE DEF U
        <5>2. Cardinality(S) <= Cardinality(U)
          BY <5>1, FS_Subset
        <5>. QED
          BY <5>1, <5>2 DEF c
      <4>4. end # n
        BY <2>3, <3>5
      <4>. QED
        BY <1>1, <1>2, <1>3, <3>1, <3>3, <4>3, <4>4
    <3>6. CASE ~(n \in S /\ n > front)
      <4>1. S \in SUBSET (1..front)
        BY <1>1, <1>3, <2>3, <3>2, <3>6
      <4>2. c <= front
        BY <3>4, <4>1, FS_Subset DEF c
      <4>. QED
        BY <1>1, <1>2, <1>3, <3>1, <3>3, <4>2
    <3>. QED
      BY <3>5, <3>6
  <2>. QED
    BY <2>1, <2>2, <2>3
<1>. QED
  BY <1>7, <1>8 DEF ValidEnd, m, after

-----------------------------------------------------------------------------
(* The answers of clientLogin.                                             *)

SoundList(list, end) ==
    /\ list \in Seq(Entry)
    /\ OncePerGuid(list)
    /\ ValidEnd(list, end)

WaitListInv ==
    /\ SoundList(waitList, priorityEnd)
    /\ online \in SUBSET Client
    /\ IsFiniteSet(online)

\* What is left of the list after a purge.
LEMMA PurgeSound ==
    ASSUME SoundList(waitList, priorityEnd)
    PROVE  /\ SoundList(Purge.list, Purge.end)
           /\ InOrder(waitList, Purge.list)
           /\ SameFresh(waitList, Purge.list)
<1>. DEFINE n == Len(waitList)
            old == {i \in DOMAIN waitList : waitList[i].stale}
            S == IsFresh(waitList)
            new == FreshEntries(waitList)
<1>1. waitList \in Seq(Entry) /\ OncePerGuid(waitList) /\ ValidEnd(waitList, priorityEnd)
  BY DEF SoundList
<1>2. n \in Nat /\ DOMAIN waitList = 1..n /\ \A i \in 1..n : waitList[i] \in Entry
  BY <1>1, LenProperties
<1>3. Purge.list = new /\ Purge.end = EndAfterErase(waitList, priorityEnd, old)
  BY DEF Purge
<1>4. /\ new \in Seq(Entry) /\ Len(new) = Cardinality(S) /\ OncePerGuid(new)
      /\ InOrder(waitList, new) /\ SameFresh(waitList, new)
  BY <1>1, PurgedList
<1>5. S = (1..n) \ old /\ old \in SUBSET (1..n)
  BY <1>2 DEF IsFresh, Fresh
<1>6. Cardinality(S) = n - Cardinality(old)
  <2>. HIDE DEF n, old, S
  <2>1. IsFiniteSet(1..n) /\ Cardinality(1..n) = n
    BY <1>2, FS_Interval
  <2>2. IsFiniteSet(old) /\ Cardinality(old) \in 0..n
    BY <1>2, <1>5, RankGrows
  <2>3. Cardinality((1..n) \ old) = Cardinality(1..n) - Cardinality((1..n) \cap old)
    BY <2>1, FS_Difference
  <2>4. (1..n) \cap old = old
    BY <1>5
  <2>. QED
    BY <1>5, <2>1, <2>3, <2>4
<1>7. ValidEnd(new, EndAfterErase(waitList, priorityEnd, old))
  <2>1. Len(new) = n - Cardinality(old)
    BY <1>4, <1>6
  <2>. HIDE DEF new, old
  <2>. QED
    BY <1>1, <1>4, <1>5, <2>1, EndStaysValid
<1>. QED
  BY <1>3, <1>4, <1>7 DEF SoundList

\* A client that is let in from place slot, c itself stale or fresh before, had
\* fewer than slot fresh entries ahead.
AheadOf(list, c) ==
    {i \in DOMAIN list : ~list[i].stale /\ \A j \in 1..i : list[j].guid # c}

LEMMA FewAhead ==
    ASSUME SoundList(waitList, priorityEnd), NEW c, NEW slot \in PlacesOf(Purge.list, c)
    PROVE  /\ IsFiniteSet(AheadOf(waitList, c))
           /\ Cardinality(AheadOf(waitList, c)) \in Nat
           /\ Cardinality(AheadOf(waitList, c)) + 1 <= slot
<1>. DEFINE n == Len(waitList)
            S == IsFresh(waitList)
            new == FreshEntries(waitList)
            A == AheadOf(waitList, c)
<1>1. waitList \in Seq(Entry)
  BY DEF SoundList
<1>2. n \in Nat /\ DOMAIN waitList = 1..n
  BY <1>1, LenProperties
<1>3. slot \in DOMAIN new /\ new[slot].guid = c
  BY DEF Purge, PlacesOf
<1>4. /\ S \in SUBSET (1..n)
      /\ \A k \in DOMAIN new : \E i \in S : Rank(S, i) = k /\ new[k] = waitList[i]
  BY <1>1, FreshRanked
<1>5. PICK i \in S : Rank(S, i) = slot /\ waitList[i].guid = c
  BY <1>3, <1>4
<1>6. A \in SUBSET (S \cap (1..(i - 1)))
  <2>. SUFFICES ASSUME NEW a \in A PROVE a \in S /\ a \in 1..(i - 1)
    OBVIOUS
  <2>1. a \in 1..n /\ ~waitList[a].stale /\ \A j \in 1..a : waitList[j].guid # c
    BY <1>2 DEF AheadOf
  <2>2. i \in 1..n
    BY <1>4
  <2>3. ~(i <= a)
    BY <1>5, <2>1, <2>2
  <2>. QED
    BY <1>2, <2>1, <2>2, <2>3 DEF IsFresh, Fresh
<1>. HIDE DEF S, n, new, A
<1>7. i \in 1..n /\ i - 1 \in 0..n
  BY <1>2, <1>4
<1>8. /\ Rank(S, i) = Rank(S, i - 1) + 1 /\ Rank(S, i - 1) \in Nat
      /\ IsFiniteSet(S)
  <2>1. /\ IsFiniteSet(S) /\ Cardinality(S) \in 0..n
        /\ \A j \in 0..n : Rank(S, j) \in 0..Cardinality(S)
        /\ \A j \in 1..n : Rank(S, j) = IF j \in S THEN Rank(S, j - 1) + 1 ELSE Rank(S, j - 1)
    BY <1>2, <1>4, RankGrows
  <2>2. Rank(S, i) = Rank(S, i - 1) + 1
    BY <1>5, <1>7, <2>1
  <2>3. Rank(S, i - 1) \in 0..Cardinality(S)
    BY <1>7, <2>1
  <2>. QED
    BY <2>1, <2>2, <2>3
<1>9. IsFiniteSet(S \cap (1..(i - 1)))
  BY <1>8, FS_Intersection
<1>10. IsFiniteSet(A) /\ Cardinality(A) <= Rank(S, i - 1)
  BY <1>6, <1>9, FS_Subset DEF Rank
<1>11. Cardinality(A) \in Nat
  BY <1>10, FS_CardinalityType
<1>. QED
  BY <1>5, <1>8, <1>10, <1>11 DEF A

LEMMA SameListInOrder ==
    ASSUME NEW list, NEW new, OncePerGuid(list), DOMAIN new = DOMAIN list,
           \A i \in DOMAIN list : new[i].guid = list[i].guid
    PROVE  InOrder(list, new) /\ OncePerGuid(new)
BY DEF OncePerGuid, InOrder

\* There is room for one more and for all that are ahead of c.
RoomFor(c) ==
    /\ Cardinality(AheadOf(waitList, c)) \in Nat
    /\ Cardinality(online) + 1 + Cardinality(AheadOf(waitList, c)) <= MaxPlayers

SoundAnswer(c, answer) ==
    /\ SoundList(answer.list, answer.end)
    /\ InOrder(waitList, answer.list)
    /\ answer.slot = 0 /\ c \notin Privileged \cup Premium /\ MaxPlayers # 0 => RoomFor(c)

LEMMA AtOnceSound ==
    ASSUME WaitListInv, NEW c, EntersAtOnce(c)
    PROVE  SoundAnswer(c, [list |-> waitList, end |-> priorityEnd, slot |-> 0])
<1>1. SoundList(waitList, priorityEnd) /\ Cardinality(online) \in Nat /\ MaxPlayers \in Nat
  BY FS_CardinalityType, MaxPlayersAssumption DEF WaitListInv
<1>2. InOrder(waitList, waitList)
  BY <1>1, SameListInOrder DEF SoundList
<1>3. ASSUME c \notin Privileged \cup Premium, MaxPlayers # 0 PROVE RoomFor(c)
  <2>1. waitList = <<>> /\ Cardinality(online) < MaxPlayers
    BY <1>3 DEF EntersAtOnce
  <2>2. AheadOf(waitList, c) = {}
    BY <2>1 DEF AheadOf
  <2>3. Cardinality(AheadOf(waitList, c)) = 0
    BY <2>2, FS_EmptySet
  <2>. QED
    BY <1>1, <2>1, <2>3 DEF RoomFor
<1>. QED
  BY <1>1, <1>2, <1>3 DEF SoundAnswer

LEMMA ReturningSound ==
    ASSUME WaitListInv, NEW c, NEW answer \in Returning(Purge.list, Purge.end, c)
    PROVE  SoundAnswer(c, answer)
<1>. DEFINE list == Purge.list
            end == Purge.end
            ahead == Cardinality(AheadOf(waitList, c))
<1>1. /\ SoundList(waitList, priorityEnd)
      /\ Cardinality(online) \in Nat /\ MaxPlayers \in Nat
  BY FS_CardinalityType, MaxPlayersAssumption DEF WaitListInv
<1>2. /\ SoundList(list, end) /\ InOrder(waitList, list) /\ SameFresh(waitList, list)
  BY <1>1, PurgeSound
<1>3. PICK slot \in PlacesOf(list, c) :
         answer = IF HasRoom(slot)
                  THEN [list |-> RemoveAt(list, slot),
                        end |-> EndAfterErase(list, end, {slot}), slot |-> 0]
                  ELSE [list |-> list, end |-> end, slot |-> slot]
  BY DEF Returning
<1>4. ahead \in Nat /\ ahead + 1 <= slot
  BY <1>1, <1>3, FewAhead
<1>. HIDE DEF list, end, ahead
<1>5. /\ list \in Seq(Entry) /\ OncePerGuid(list) /\ ValidEnd(list, end)
      /\ slot \in 1..Len(list) /\ Len(list) \in Nat
  <2>1. list \in Seq(Entry) /\ OncePerGuid(list) /\ ValidEnd(list, end)
    BY <1>2 DEF SoundList
  <2>2. DOMAIN list = 1..Len(list) /\ Len(list) \in Nat
    BY <2>1, LenProperties
  <2>. QED
    BY <1>3, <2>1, <2>2 DEF PlacesOf
<1>6. CASE HasRoom(slot)
  <2>. DEFINE new == RemoveAt(list, slot)
              S == {slot}
  <2>1. new \in Seq(Entry) /\ Len(new) = Len(list) - 1
    BY <1>5, Removed
  <2>2. OncePerGuid(new) /\ InOrder(list, new)
    BY <1>5, RemovedKeeps
  <2>3. S \in SUBSET (1..Len(list)) /\ Cardinality(S) = 1
    BY <1>5, FS_Singleton
  <2>. HIDE DEF new, S
  <2>4. ValidEnd(new, EndAfterErase(list, end, S))
    BY <1>5, <2>1, <2>3, EndStaysValid
  <2>5. InOrder(waitList, new)
    BY <1>2, <2>2, InOrderThroughPurge
  <2>6. Cardinality(online) + slot <= MaxPlayers
    BY <1>6 DEF HasRoom
  <2>7. RoomFor(c)
    <3>1. Cardinality(online) + 1 + ahead <= MaxPlayers
      BY <1>1, <1>4, <1>5, <2>6
    <3>. QED
      BY <1>4, <3>1 DEF RoomFor, ahead
  <2>8. answer.list = new /\ answer.end = EndAfterErase(list, end, S)
    BY <1>3, <1>6 DEF new, S
  <2>. QED
    BY <2>1, <2>2, <2>4, <2>5, <2>7, <2>8 DEF SoundAnswer, SoundList
<1>7. CASE ~HasRoom(slot)
  <2>1. answer.list = list /\ answer.end = end /\ answer.slot = slot
    BY <1>3, <1>7
  <2>2. answer.slot # 0
    BY <1>5, <2>1
  <2>. QED
    BY <1>2, <2>1, <2>2 DEF SoundAnswer
<1>. QED
  BY <1>6, <1>7

LEMMA ArrivingSound ==
    ASSUME WaitListInv, NEW c \in Client, c \notin Guids(Purge.list),
           NEW answer \in Arriving(Purge.list, Purge.end, c)
    PROVE  SoundAnswer(c, answer)
<1>. DEFINE list == Purge.list
            end == Purge.end
            e == NewEntry(c)
<1>1. SoundList(waitList, priorityEnd)
  BY DEF WaitListInv
<1>2. /\ SoundList(list, end) /\ InOrder(waitList, list) /\ SameFresh(waitList, list)
  BY <1>1, PurgeSound
<1>3. e \in Entry /\ e.guid = c
  BY DEF NewEntry, Entry
<1>4. \A k \in DOMAIN list : list[k].guid # e.guid
  BY <1>3 DEF Guids
<1>. HIDE DEF list, end, e
<1>5. /\ list \in Seq(Entry) /\ OncePerGuid(list) /\ ValidEnd(list, end)
      /\ DOMAIN list = 1..Len(list) /\ Len(list) \in Nat
  <2>1. list \in Seq(Entry) /\ OncePerGuid(list) /\ ValidEnd(list, end)
    BY <1>2 DEF SoundList
  <2>. QED
    BY <2>1, LenProperties
<1>6. ASSUME NEW at \in 1..Len(list) + 1
      PROVE  LET new == InsertAt(list, at, e)
             IN  /\ new \in Seq(Entry) /\ Len(new) = Len(list) + 1
                 /\ OncePerGuid(new) /\ InOrder(waitList, new)
  <2>. DEFINE new == InsertAt(list, at, e)
  <2>1. new \in Seq(Entry) /\ Len(new) = Len(list) + 1
    BY <1>3, <1>5, Inserted
  <2>2. OncePerGuid(new) /\ InOrder(list, new)
    BY <1>3, <1>4, <1>5, InsertedKeeps
  <2>. HIDE DEF new
  <2>3. InOrder(waitList, new)
    BY <1>2, <2>2, InOrderThroughPurge
  <2>. QED
    BY <2>1, <2>2, <2>3 DEF new
<1>7. CASE c \in Premium
  <2>1. PICK at \in EmplacePlaces(list, end) :
           answer = [list |-> InsertAt(list, at, e), end |-> at, slot |-> at - 1]
    BY <1>7 DEF Arriving, list, end, e
  <2>2. at \in 1..Len(list) + 1
    <3>1. list = <<>> => Len(list) = 0
      BY EmptySeq
    <3>. QED
      BY <1>5, <2>1, <3>1 DEF EmplacePlaces, ValidEnd
  <2>. DEFINE new == InsertAt(list, at, e)
  <2>3. /\ new \in Seq(Entry) /\ Len(new) = Len(list) + 1
        /\ OncePerGuid(new) /\ InOrder(waitList, new)
    BY <1>6, <2>2
  <2>4. answer.list = new /\ answer.end = at
    BY <2>1
  <2>. HIDE DEF new
  <2>5. ValidEnd(new, at)
    BY <1>5, <2>2, <2>3 DEF ValidEnd
  <2>. QED
    BY <1>7, <2>3, <2>4, <2>5 DEF SoundAnswer, SoundList
<1>8. CASE c \notin Premium
  <2>. DEFINE at == Len(list) + 1
              new == InsertAt(list, at, e)
  <2>1. Append(list, e) = new /\ at \in 1..Len(list) + 1
    BY <1>3, <1>5, AppendInserts
  <2>2. answer = [list |-> new, end |-> 0, slot |-> Len(list) + 1]
    BY <1>8, <2>1 DEF Arriving, list, e
  <2>. HIDE DEF at
  <2>3. /\ new \in Seq(Entry) /\ Len(new) = Len(list) + 1
        /\ OncePerGuid(new) /\ InOrder(waitList, new)
    BY <1>6, <2>1
  <2>. HIDE DEF new
  <2>4. answer.list = new /\ answer.end = 0 /\ answer.slot = Len(list) + 1
    BY <2>2
  <2>5. ValidEnd(new, 0) /\ answer.slot # 0
    BY <1>5, <2>3, <2>4 DEF ValidEnd
  <2>. QED
    BY <2>3, <2>4, <2>5 DEF SoundAnswer, SoundList
<1>. QED
  BY <1>7, <1>8

LEMMA ClientLoginSound ==
    ASSUME WaitListInv, NEW c \in Client, NEW answer \in ClientLogin(c)
    PROVE  SoundAnswer(c, answer)
<1>1. CASE EntersAtOnce(c)
  <2>1. answer = [list |-> waitList, end |-> priorityEnd, slot |-> 0]
    BY <1>1 DEF ClientLogin
  <2>. QED
    BY <1>1, <2>1, AtOnceSound
<1>2. CASE ~EntersAtOnce(c) /\ c \in Guids(Purge.list)
  BY <1>2, ReturningSound DEF ClientLogin
<1>3. CASE ~EntersAtOnce(c) /\ c \notin Guids(Purge.list)
  BY <1>3, ArrivingSound DEF ClientLogin
<1>. QED
  BY <1>1, <1>2, <1>3

-----------------------------------------------------------------------------
(* The steps, each of which keeps the invariant and everyone's turn.       *)

LEMMA LoginInTurn ==
    ASSUME WaitListInv, NEW c \in Client, Login(c)
    PROVE  WaitListInv' /\ NobodyOvertaken /\ InOrder(waitList, waitList')
<1>1. PICK answer \in ClientLogin(c) :
         /\ waitList' = answer.list
         /\ priorityEnd' = answer.end
         /\ IF answer.slot = 0
            THEN online' \in {online, online \cup {c}}
            ELSE UNCHANGED online
  BY DEF Login
<1>2. SoundAnswer(c, answer)
  BY ClientLoginSound
<1>3. online \in SUBSET Client /\ IsFiniteSet(online) /\ c \notin online
  BY DEF WaitListInv, Login
<1>4. /\ IsFiniteSet(online \cup {c}) /\ Cardinality(online \cup {c}) = Cardinality(online) + 1
      /\ Cardinality(online) \in Nat
  BY <1>3, FS_AddElement, FS_CardinalityType
<1>5. online' = online \/ (answer.slot = 0 /\ online' = online \cup {c})
  BY <1>1
<1>6. WaitListInv'
  BY <1>1, <1>2, <1>3, <1>4, <1>5 DEF WaitListInv, SoundAnswer
<1>7. NobodyOvertaken
  <2>. SUFFICES ASSUME NEW d \in (online' \ online) \ (Privileged \cup Premium), MaxPlayers # 0
                PROVE  Cardinality(online') + Cardinality(AheadOf(waitList, d)) <= MaxPlayers
    BY DEF NobodyOvertaken, AheadOf
  <2>1. d = c /\ answer.slot = 0 /\ online' = online \cup {c}
    BY <1>5
  <2>2. RoomFor(c)
    BY <1>2, <2>1 DEF SoundAnswer
  <2>3. Cardinality(online') = Cardinality(online) + 1
    BY <1>4, <2>1
  <2>. QED
    BY <1>4, <2>1, <2>2, <2>3 DEF RoomFor
<1>. QED
  BY <1>1, <1>2, <1>6, <1>7 DEF SoundAnswer

LEMMA LeaveInTurn ==
    ASSUME WaitListInv, NEW c \in Client, Leave(c)
    PROVE  WaitListInv' /\ NobodyOvertaken /\ InOrder(waitList, waitList')
<1>1. waitList' = waitList /\ priorityEnd' = priorityEnd /\ online' = online \ {c}
  BY DEF Leave
<1>2. IsFiniteSet(online \ {c})
  BY FS_RemoveElement DEF WaitListInv
<1>3. WaitListInv'
  BY <1>1, <1>2 DEF WaitListInv
<1>4. NobodyOvertaken
  BY <1>1 DEF NobodyOvertaken
<1>5. InOrder(waitList, waitList')
  BY <1>1, SameListInOrder DEF WaitListInv, SoundList
<1>. QED
  BY <1>3, <1>4, <1>5

LEMMA ExpireInTurn ==
    ASSUME WaitListInv, NEW i \in DOMAIN waitList, Expire(i)
    PROVE  WaitListInv' /\ NobodyOvertaken /\ InOrder(waitList, waitList')
<1>. DEFINE new == [waitList EXCEPT ![i].stale = TRUE]
            n == Len(waitList)
<1>1. waitList' = new /\ priorityEnd' = priorityEnd /\ online' = online
  BY DEF Expire
<1>2. waitList \in Seq(Entry) /\ OncePerGuid(waitList) /\ ValidEnd(waitList, priorityEnd)
  BY DEF WaitListInv, SoundList
<1>3. n \in Nat /\ DOMAIN waitList = 1..n /\ \A k \in 1..n : waitList[k] \in Entry
  BY <1>2, LenProperties
<1>4. [waitList[i] EXCEPT !.stale = TRUE] \in Entry
  BY <1>3 DEF Entry
<1>5. new \in Seq(Entry) /\ Len(new) = n
  BY <1>2, <1>3, <1>4, ExceptSeq
<1>6. DOMAIN new = DOMAIN waitList /\ \A k \in DOMAIN waitList : new[k].guid = waitList[k].guid
  BY <1>3 DEF Entry
<1>. HIDE DEF new
<1>7. InOrder(waitList, new) /\ OncePerGuid(new)
  BY <1>2, <1>6, SameListInOrder
<1>8. ValidEnd(new, priorityEnd)
  <2>1. n # 0
    BY <1>3
  <2>2. waitList # <<>>
    BY <2>1, EmptySeq
  <2>. QED
    BY <1>2, <1>5, <2>2 DEF ValidEnd
<1>9. WaitListInv'
  BY <1>1, <1>5, <1>7, <1>8 DEF WaitListInv, SoundList
<1>10. NobodyOvertaken
  BY <1>1 DEF NobodyOvertaken
<1>. QED
  BY <1>1, <1>7, <1>9, <1>10

LEMMA WaitListInvInit ==
    WaitListInit => WaitListInv
<1>. SUFFICES ASSUME WaitListInit PROVE WaitListInv
  OBVIOUS
<1>1. waitList = <<>> /\ priorityEnd = 1 /\ online = {}
  BY DEF WaitListInit
<1>2. waitList \in Seq(Entry) /\ OncePerGuid(waitList)
  BY <1>1 DEF OncePerGuid
<1>3. IsFiniteSet(online)
  BY <1>1, FS_EmptySet
<1>. QED
  BY <1>1, <1>2, <1>3 DEF WaitListInv, SoundList, ValidEnd

LEMMA WaitListStep ==
    WaitListInv /\ [WaitListNext]_waitListVars
        => WaitListInv' /\ NobodyOvertaken /\ InOrder(waitList, waitList')
<1>. SUFFICES ASSUME WaitListInv, [WaitListNext]_waitListVars
              PROVE  WaitListInv' /\ NobodyOvertaken /\ InOrder(waitList, waitList')
  OBVIOUS
<1>1. ASSUME NEW c \in Client, Login(c)
      PROVE  WaitListInv' /\ NobodyOvertaken /\ InOrder(waitList, waitList')
  BY <1>1, LoginInTurn
<1>2. ASSUME NEW c \in Client, Leave(c)
      PROVE  WaitListInv' /\ NobodyOvertaken /\ InOrder(waitList, waitList')
  BY <1>2, LeaveInTurn
<1>3. ASSUME NEW i \in DOMAIN waitList, Expire(i)
      PROVE  WaitListInv' /\ NobodyOvertaken /\ InOrder(waitList, waitList')
  BY <1>3, ExpireInTurn
<1>4. CASE UNCHANGED waitListVars
  <2>1. waitList' = waitList /\ priorityEnd' = priorityEnd /\ online' = online
    BY <1>4 DEF waitListVars
  <2>2. InOrder(waitList, waitList')
    BY <2>1, SameListInOrder DEF WaitListInv, SoundList
  <2>3. WaitListInv'
    BY <2>1 DEF WaitListInv
  <2>. QED
    BY <2>1, <2>2, <2>3 DEF NobodyOvertaken
<1>. QED
  BY <1>1, <1>2, <1>3, <1>4 DEF WaitListNext

LEMMA WaitListInvariant ==
    WaitListSpec => []WaitListInv
<1>1. WaitListInv /\ [WaitListNext]_waitListVars => WaitListInv'
  BY WaitListStep
<1>. QED
  BY <1>1, WaitListInvInit, PTL DEF WaitListSpec

\* The waiting list is one of clients, and its iterator is invalid, at an entry or
\* at the end, however entries expire, go and come.  clientLogin of
\* protocolgame.cpp.
THEOREM WaitListTypeCorrect ==
    WaitListSpec => []WaitListTypeOK
<1>1. WaitListInv => WaitListTypeOK
  <2>. SUFFICES ASSUME WaitListInv PROVE WaitListTypeOK
    OBVIOUS
  <2>1. /\ waitList \in Seq(Entry) /\ ValidEnd(waitList, priorityEnd)
        /\ online \in SUBSET Client
    BY DEF WaitListInv, SoundList
  <2>2. Len(waitList) \in Nat /\ Len(<<>>) = 0
    BY <2>1, LenProperties, EmptySeq
  <2>. QED
    BY <2>1, <2>2 DEF WaitListTypeOK, ValidEnd
<1>. QED
  BY <1>1, WaitListInvariant, PTL

\* A regular client that is let in takes no place from those ahead of it, and the
\* clients that wait keep their order, wherever the invalid iterator inserts.
\* clientLogin of protocolgame.cpp.
THEOREM TurnsAreKept ==
    WaitListSpec => TurnsKept
<1>1. WaitListInv /\ [WaitListNext]_waitListVars
        => [NobodyOvertaken /\ OrderKept]_waitListVars
  <2>1. InOrder(waitList, waitList') => OrderKept
    BY DEF InOrder, OrderKept
  <2>. QED
    BY <2>1, WaitListStep
<1>. QED
  BY <1>1, WaitListInvariant, PTL DEF WaitListSpec, TurnsKept

=============================================================================
