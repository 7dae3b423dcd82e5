---------------------------- MODULE SessionProofs ----------------------------
(***************************************************************************)
(* Proofs about Session, for any number of protocols, characters and       *)
(* accounts.  None of the properties is inductive: they need to know       *)
(* which tasks of a protocol can be queued together, that a protocol whose *)
(* login has not run yet has touched nothing, and that a stopped           *)
(* dispatcher has the shutdown before it or behind it.                     *)
(***************************************************************************)
EXTENDS Session, SequenceTheorems, FiniteSetTheorems, TLAPS

Queued(run, p, i) == i \in 1..Len(tasks) /\ tasks[i].run = run /\ tasks[i].of = p

\* TypeOK without the bound of sendAlls, which needs counting.
Types ==
    /\ conn \in [Protocol -> {"none", "open", "closed", "expired"}]
    /\ {closing, authenticating, parsing, loggedOut, acceptPackets} \subseteq SUBSET Protocol
    /\ {players, removed, isConnecting, released} \subseteq SUBSET Protocol
    /\ tasks \in Seq(Task)
    /\ dispatcher \in {"running", "stopping", "closed", "terminated"}
    /\ gameState \in {"NORMAL"} \cup States
    /\ player \in [Protocol -> Maybe(Protocol)]
    /\ eventConnect \in [Protocol -> Maybe(Protocol)]
    /\ client \in [Protocol -> Maybe(Protocol)]
    /\ character \in [Protocol -> Maybe(Character)]
    /\ autosend \in Seq(Protocol)
    /\ sendAlls \in Nat

\* A protocol whose login is to come: it has no player, and its player is
\* nowhere.
Unstarted(p) ==
    character[p] = None \/ p \in authenticating \/ \E i \in 1..Len(tasks) : Queued("login", p, i)
Fresh(p) ==
    /\ player[p] = None /\ client[p] = None /\ eventConnect[p] = None
    /\ p \notin players
    /\ \A k \in 1..Len(autosend) : autosend[k] # p
UnstartedFresh == \A p \in Protocol : Unstarted(p) => Fresh(p)

\* One login task per protocol, of a protocol with a character.
LoginsOnce ==
    \A p \in Protocol, i \in 1..Len(tasks) : Queued("login", p, i) =>
        character[p] # None /\ \A j \in 1..Len(tasks) : Queued("login", p, j) => i = j

\* A connect task comes from the one event of its protocol, which is still set
\* when the task runs, and a protocol that waits has no player.
ConnectsOnce ==
    \A p \in Protocol, i \in 1..Len(tasks) : Queued("connect", p, i) =>
        eventConnect[p] # None /\ \A j \in 1..Len(tasks) : Queued("connect", p, j) => i = j
WaitingHaveNone == \A p \in Protocol : eventConnect[p] # None => player[p] = None

\* A release is posted when the connection closes, behind the login; a packet is
\* parsed on a connection that is open, the first one before any other.
ReleasesLast ==
    /\ \A p \in Protocol, i \in 1..Len(tasks) : Queued("release", p, i) =>
        /\ conn[p] \in {"closed", "expired"}
        /\ \A j \in 1..Len(tasks) : Queued("login", p, j) => j < i
    /\ \A p \in released :
        /\ conn[p] \in {"closed", "expired"}
        /\ \A j \in 1..Len(tasks) : ~Queued("login", p, j)
ParsingOpen == \A p \in parsing \cup authenticating : conn[p] = "open"
AuthenticatingNew ==
    \A p \in authenticating : character[p] # None /\ \A i \in 1..Len(tasks) : ~Queued("login", p, i)
OpenedFirst == \A p \in Protocol : conn[p] = "none" => character[p] = None

\* The dispatcher is stopped by a shutdown of the game alone, and then the task of
\* the shutdown is still queued or has cut off everybody.
ShutdownQueued == \E i \in 1..Len(tasks) : Queued("shutdown", None, i)
CutOff == \A p \in Protocol : character[p] # None /\ conn[p] = "open" => p \in closing
EndQueued ==
    \E i \in 1..Len(tasks) : Queued("shutdown", None, i) \/ Queued("terminate", None, i)
Ending ==
    /\ dispatcher # "running" => gameState = "SHUTDOWN" /\ (ShutdownQueued \/ CutOff)
    /\ EndQueued => dispatcher # "running"

Inv ==
    /\ Types
    /\ UnstartedFresh /\ LoginsOnce /\ ConnectsOnce /\ WaitingHaveNone
    /\ ReleasesLast /\ ParsingOpen /\ AuthenticatingNew /\ OpenedFirst
    /\ Ending
    /\ ClientAndPlayerAgree
    /\ ReleasedNotAutosent
    /\ AnswerOnItsWay
-----------------------------------------------------------------------------
(* The queue and the auto-send list.                                       *)

\* A task taken: the others move up.
LEMMA TakenTask ==
    ASSUME Types, NEW run, NEW p, Takes(run, p)
    PROVE  /\ tasks' \in Seq(Task)
           /\ Queued(run, p, 1)
           /\ \A r, q : Queued(r, q, 1) => r = run /\ q = p
           /\ \A r, q, i : Queued(r, q, i)' => i \in Nat \ {0} /\ Queued(r, q, i + 1)
           /\ \A r, q, i : Queued(r, q, i) /\ i # 1 => Queued(r, q, i - 1)'
<1>1. /\ Len(tasks) \in Nat \ {0} /\ tasks' \in Seq(Task) /\ Len(tasks') = Len(tasks) - 1
      /\ \A i \in 1..(Len(tasks) - 1) : tasks'[i] = tasks[i + 1]
      /\ Head(tasks) = tasks[1]
  BY EmptySeq, LenProperties, HeadTailProperties DEF Types, Takes
<1>2. tasks[1].run = run /\ tasks[1].of = p
  BY <1>1 DEF Takes
<1>3. ASSUME NEW r, NEW q, NEW i, Queued(r, q, i)'
      PROVE  i \in Nat \ {0} /\ Queued(r, q, i + 1)
  <2>1. i \in 1..(Len(tasks) - 1) /\ tasks'[i].run = r /\ tasks'[i].of = q
    BY <1>1, <1>3 DEF Queued
  <2>. QED
    BY <1>1, <2>1 DEF Queued
<1>4. ASSUME NEW r, NEW q, NEW i, Queued(r, q, i), i # 1
      PROVE  Queued(r, q, i - 1)'
  <2>1. i - 1 \in 1..(Len(tasks) - 1) /\ (i - 1) + 1 = i /\ tasks[i].run = r /\ tasks[i].of = q
    BY <1>1, <1>4 DEF Queued
  <2>2. tasks'[i - 1] = tasks[i]
    BY <1>1, <2>1
  <2>. QED
    BY <1>1, <2>1, <2>2 DEF Queued
<1>5. Queued(run, p, 1) /\ \A r, q : Queued(r, q, 1) => r = run /\ q = p
  BY <1>1, <1>2 DEF Queued
<1>. QED
  BY <1>1, <1>3, <1>4, <1>5

\* A task pushed: it is the last one.
LEMMA PushedTask ==
    ASSUME Types, NEW run, NEW p, NEW o, [run |-> run, of |-> p, for |-> o] \in Task,
           Push(run, p, o)
    PROVE  /\ tasks' \in Seq(Task)
           /\ Len(tasks) \in Nat
           /\ \A r, q, i : Queued(r, q, i)' <=> \/ Queued(r, q, i)
                                                \/ r = run /\ q = p /\ i = Len(tasks) + 1
           /\ \A r, q, i : Queued(r, q, i) => i \in 1..Len(tasks)
<1>. DEFINE t == [run |-> run, of |-> p, for |-> o]
<1>1. /\ Len(tasks) \in Nat /\ tasks' \in Seq(Task) /\ Len(tasks') = Len(tasks) + 1
      /\ \A i \in 1..Len(tasks) : tasks'[i] = tasks[i]
      /\ tasks'[Len(tasks) + 1] = t
  BY LenProperties, AppendProperties DEF Types, Push
<1>2. t.run = run /\ t.of = p
  OBVIOUS
<1>. QED
  BY <1>1, <1>2 DEF Queued

\* What is posted is pushed, or deleted; the tasks of before are where they were.
Posts(run, p) ==
    /\ Len(tasks) \in Nat /\ tasks' \in Seq(Task)
    /\ \A r, q, i : Queued(r, q, i)' <=> \/ Queued(r, q, i)
                                         \/ Accepts /\ r = run /\ q = p /\ i = Len(tasks) + 1
    /\ \A r, q, i : Queued(r, q, i) => i \in 1..Len(tasks)

LEMMA PostedTask ==
    ASSUME Types, NEW run \in {"login", "logout", "connect", "release"},
           NEW p \in Protocol, NEW o \in Maybe(Protocol), Post(run, p, o)
    PROVE  Posts(run, p)
<1>1. CASE Accepts
  <2>1. [run |-> run, of |-> p, for |-> o] \in Task
    BY DEF Task
  <2>. QED
    BY <1>1, <2>1, PushedTask DEF Post, Posts
<1>2. CASE ~Accepts
  BY <1>2, LenProperties DEF Post, Posts, Queued, Types
<1>. QED
  BY <1>1, <1>2

\* Nothing else can be said of a queue that is left alone.
LEMMA SameTasks ==
    ASSUME tasks' = tasks
    PROVE  \A r, q, i : Queued(r, q, i)' <=> Queued(r, q, i)
BY DEF Queued

\* The places of a protocol on the list.
Sends(k, p) == k \in 1..Len(autosend) /\ autosend[k] = p

LEMMA ListPlaces ==
    ASSUME Types
    PROVE  /\ \A p : p \in ToSet(autosend) <=> \E k \in 1..Len(autosend) : Sends(k, p)
           /\ IsInjective(autosend) <=>
                \A k, l \in 1..Len(autosend) : autosend[k] = autosend[l] => k = l
           /\ Len(autosend) \in Nat /\ DOMAIN autosend = 1..Len(autosend)
BY LenProperties DEF Types, ToSet, IsInjective, Sends

LEMMA AddedToList ==
    ASSUME Types, NEW p \in Protocol, AddToAutosend(p)
    PROVE  /\ autosend' \in Seq(Protocol)
           /\ Len(autosend) \in Nat /\ Len(autosend') = Len(autosend) + 1
           /\ \A k \in 1..Len(autosend) : autosend'[k] = autosend[k]
           /\ autosend'[Len(autosend) + 1] = p
BY LenProperties, AppendProperties DEF Types, AddToAutosend

\* The protocol released is off the list, if it was on it once, and the others
\* are on it as they were.
LEMMA RemovedFromList ==
    ASSUME Types, NEW p \in Protocol, IsInjective(autosend), RemoveFromAutosend(p)
    PROVE  /\ autosend' \in Seq(Protocol)
           /\ IsInjective(autosend')
           /\ ToSet(autosend') = ToSet(autosend) \ {p}
<1>. DEFINE n == Len(autosend)
            places == {i \in DOMAIN autosend : autosend[i] = p}
<1>1. /\ n \in Nat /\ DOMAIN autosend = 1..n
      /\ \A k, l \in 1..n : autosend[k] = autosend[l] => k = l
      /\ \A q : q \in ToSet(autosend) <=> \E k \in 1..n : autosend[k] = q
  BY ListPlaces DEF Sends
<1>. HIDE DEF n
<1>2. CASE places = {}
  <2>1. autosend' = autosend
    BY <1>2 DEF RemoveFromAutosend
  <2>2. p \notin ToSet(autosend)
    BY <1>1, <1>2
  <2>. QED
    BY <2>1, <2>2 DEF Types
<1>3. CASE places # {}
  <2>. DEFINE i == CHOOSE j \in places : TRUE
              moved == [autosend EXCEPT ![i] = Last(autosend)]
  <2>1. i \in 1..n /\ autosend[i] = p
    BY <1>1, <1>3
  <2>2. Last(autosend) = autosend[n]
    BY DEF Last, n
  <2>3. autosend \in [1..n -> Protocol]
    BY LenProperties DEF Types, n
  <2>. HIDE DEF i
  <2>4. /\ moved \in [1..n -> Protocol]
        /\ moved[i] = autosend[n]
        /\ \A k \in 1..n : k # i => moved[k] = autosend[k]
    BY <1>1, <2>1, <2>2, <2>3
  <2>. HIDE DEF moved
  <2>5. moved \in Seq(Protocol) /\ Len(moved) = n
    BY <1>1, <2>4, SeqDef, LenProperties
  <2>6. autosend' = SubSeq(moved, 1, n - 1)
    <3>1. autosend' = Front(moved)
      BY <1>3 DEF RemoveFromAutosend, moved, i
    <3>. QED
      BY <2>5, <3>1 DEF Front
  <2>7. /\ autosend' \in Seq(Protocol) /\ DOMAIN autosend' = 1..(n - 1)
        /\ \A k \in 1..(n - 1) : autosend'[k] = moved[k]
    <3>1. n - 1 \in Nat /\ \A k \in 1..(n - 1) : moved[k] \in Protocol /\ 1 + k - 1 = k
      BY <1>1, <2>1, <2>4
    <3>2. /\ autosend' \in Seq(Protocol)
          /\ Len(autosend') = IF 1 <= n - 1 THEN (n - 1) - 1 + 1 ELSE 0
          /\ \A k \in 1..((n - 1) - 1 + 1) : autosend'[k] = moved[1 + k - 1]
      BY <2>6, <3>1, SubSeqProperties
    <3>3. Len(autosend') = n - 1
      BY <1>1, <2>1, <3>2
    <3>4. DOMAIN autosend' = 1..(n - 1)
      BY <3>2, <3>3, LenProperties
    <3>. QED
      BY <1>1, <3>1, <3>2, <3>4
  <2>8. IsInjective(autosend')
    BY <1>1, <2>1, <2>4, <2>7 DEF IsInjective
  <2>9. ASSUME NEW q PROVE q \in ToSet(autosend') <=> q \in ToSet(autosend) /\ q # p
    <3>1. q \in ToSet(autosend') <=> \E k \in 1..(n - 1) : moved[k] = q
      BY <2>7 DEF ToSet
    <3>2. ASSUME NEW k \in 1..(n - 1), moved[k] = q
          PROVE  q \in ToSet(autosend) /\ q # p
      BY <1>1, <2>1, <2>4, <3>2
    <3>3. ASSUME NEW k \in 1..n, autosend[k] = q, q # p
          PROVE  \E l \in 1..(n - 1) : moved[l] = q
      <4>1. k # i
        BY <2>1, <3>3
      <4>2. CASE k = n
        BY <1>1, <2>1, <2>4, <3>3, <4>1, <4>2
      <4>3. CASE k # n
        BY <1>1, <2>4, <3>3, <4>1, <4>3
      <4>. QED
        BY <4>2, <4>3
    <3>. QED
      BY <1>1, <3>1, <3>2, <3>3
  <2>. QED
    BY <2>7, <2>8, <2>9
<1>. QED
  BY <1>2, <1>3

-----------------------------------------------------------------------------
(* The types.                                                              *)

LEMMA DisconnectTypes ==
    ASSUME Types, NEW S, Disconnect(S)
    PROVE  /\ closing' \in SUBSET Protocol \/ ~(S \subseteq Protocol)
           /\ closing \subseteq closing'
           /\ \A p \in S : conn[p] = "open" => p \in closing'
BY DEF Types, Disconnect

LEMMA RemoveTypes ==
    ASSUME Types, NEW S, RemoveCreature(S)
    PROVE  /\ players' \in SUBSET Protocol /\ removed' \in SUBSET Protocol
           /\ players' \subseteq players
BY DEF Types, RemoveCreature

LEMMA KickTypes ==
    ASSUME Types, NEW S \in SUBSET Protocol, Kick(S)
    PROVE  /\ closing' \in SUBSET Protocol /\ closing \subseteq closing'
           /\ players' \in SUBSET Protocol /\ removed' \in SUBSET Protocol
           /\ players' \subseteq players
<1>. DEFINE clients == {client[o] : o \in S} \ {None}
            C == {p \in clients : player[p] # None}
            R == {o \in S : client[o] = None} \cup {player[p] : p \in clients}
<1>1. Disconnect(C) /\ RemoveCreature(R)
  BY DEF Kick
<1>2. C \subseteq Protocol
  BY DEF Types, Maybe
<1>. HIDE DEF C, R
<1>. QED
  BY <1>1, <1>2, DisconnectTypes, RemoveTypes

LEMMA AutosendTypes ==
    ASSUME Types, NEW p \in Protocol, AddToAutosend(p)
    PROVE  autosend' \in Seq(Protocol) /\ sendAlls' \in Nat
<1>1. sendAlls' \in Nat
  BY DEF Types, AddToAutosend
<1>. QED
  BY <1>1, AddedToList

LEMMA ConnectTypes ==
    ASSUME Types, NEW p \in Protocol, NEW o, Connect(p, o)
    PROVE  /\ player' \in [Protocol -> Maybe(Protocol)]
           /\ client' \in [Protocol -> Maybe(Protocol)]
           /\ eventConnect' \in [Protocol -> Maybe(Protocol)]
           /\ {isConnecting', acceptPackets', closing'} \subseteq SUBSET Protocol
<1>1. eventConnect' \in [Protocol -> Maybe(Protocol)]
  BY DEF Types, Connect, Maybe
<1>2. closing' \in SUBSET Protocol
  BY DisconnectTypes DEF Types, Connect
<1>3. CASE UNCHANGED <<player, client, isConnecting, acceptPackets>>
  BY <1>1, <1>2, <1>3 DEF Types
<1>4. CASE /\ o \in players
           /\ player' = [player EXCEPT ![p] = o]
           /\ client' = [client EXCEPT ![o] = p]
           /\ isConnecting' = isConnecting \ {o}
           /\ acceptPackets' = acceptPackets \cup {p}
  <2>1. o \in Protocol
    BY <1>4 DEF Types
  <2>. QED
    BY <1>1, <1>2, <1>4, <2>1 DEF Types, Maybe
<1>. QED
  BY <1>3, <1>4 DEF Connect

\* What a login may change, but for the types.
LEMMA LoginTypes ==
    ASSUME Types, NEW p \in Protocol, Login(p)
    PROVE  Types'
<1>1. /\ tasks' \in Seq(Task)
      /\ UNCHANGED <<conn, reading, serving, character, released>>
  BY TakenTask DEF Login
<1>. DEFINE T == /\ player' \in [Protocol -> Maybe(Protocol)]
                 /\ client' \in [Protocol -> Maybe(Protocol)]
                 /\ eventConnect' \in [Protocol -> Maybe(Protocol)]
                 /\ {isConnecting', acceptPackets', closing'} \subseteq SUBSET Protocol
                 /\ {players', removed'} \subseteq SUBSET Protocol
                 /\ autosend' \in Seq(Protocol) /\ sendAlls' \in Nat
<1>2. ASSUME LoginNew(p) PROVE T
  <2>1. /\ player' \in [Protocol -> Maybe(Protocol)] /\ client' \in [Protocol -> Maybe(Protocol)]
        /\ UNCHANGED <<eventConnect, isConnecting>>
    BY <1>2 DEF LoginNew, Types, Maybe
  <2>2. closing' \in SUBSET Protocol
    <3>1. UNCHANGED closing \/ Disconnect({p})
      BY <1>2 DEF LoginNew
    <3>. QED
      BY <3>1, DisconnectTypes DEF Types
  <2>3. autosend' \in Seq(Protocol) /\ sendAlls' \in Nat
    <3>1. UNCHANGED sending \/ AddToAutosend(p)
      BY <1>2 DEF LoginNew
    <3>. QED
      BY <3>1, AutosendTypes DEF Types, sending
  <2>4. {acceptPackets', players', removed'} \subseteq SUBSET Protocol
    BY <1>2 DEF LoginNew, Types
  <2>. QED
    BY <2>1, <2>2, <2>3, <2>4 DEF Types
<1>3. ASSUME NEW o \in players, LoginTakeover(p, o) PROVE T
  <2>1. o \in Protocol /\ UNCHANGED <<players, removed>>
    BY <1>3 DEF Types, LoginTakeover
  <2>2. CASE /\ Disconnect({p})
             /\ UNCHANGED <<player, acceptPackets, eventConnect, isConnecting, client, sending>>
    <3>1. closing' \in SUBSET Protocol
      BY <2>2, DisconnectTypes
    <3>. QED
      BY <2>1, <2>2, <3>1 DEF Types, sending
  <2>3. CASE /\ client[o] # None
             /\ Disconnect({client[o]})
             /\ isConnecting' = isConnecting \cup {o}
             /\ eventConnect' = [eventConnect EXCEPT ![p] = o]
             /\ AddToAutosend(p)
             /\ UNCHANGED <<player, acceptPackets, client>>
    <3>1. closing' \in SUBSET Protocol
      <4>1. {client[o]} \subseteq Protocol
        BY <2>1, <2>3 DEF Types, Maybe
      <4>. QED
        BY <2>3, <4>1, DisconnectTypes
    <3>2. eventConnect' \in [Protocol -> Maybe(Protocol)]
      BY <2>1, <2>3 DEF Types, Maybe
    <3>. QED
      BY <2>1, <2>3, <3>1, <3>2, AutosendTypes DEF Types
  <2>4. CASE Connect(p, o) /\ AddToAutosend(p)
    BY <2>1, <2>4, ConnectTypes, AutosendTypes DEF Types
  <2>. QED
    BY <1>3, <2>2, <2>3, <2>4 DEF LoginTakeover
<1>4. T
  BY <1>2, <1>3 DEF Login, InGame
<1>. QED
  BY <1>1, <1>4 DEF Types, reading, serving

-----------------------------------------------------------------------------
(* The steps, by what they do to the queue.                                *)

Gone(p) == conn[p] \in {"closed", "expired"}

\* The places in the queue move by d, and nothing is posted but by the shutdown.
OfProtocols == {"login", "logout", "connect", "release"}
Moves(d) == \A r \in OfProtocols : \A q, i : Queued(r, q, i)' => i \in Nat \ {0} /\ Queued(r, q, i + d)

LEMMA TasksMove ==
    ASSUME Types, NEW run, NEW p, UNCHANGED tasks \/ Takes(run, p)
    PROVE  /\ tasks' \in Seq(Task)
           /\ \E d \in {0, 1} : Moves(d)
           /\ \A r, q, i : Queued(r, q, i) /\ r # run => \E j : Queued(r, q, j)'
<1>1. CASE UNCHANGED tasks
  <2>1. \A r, q, i : Queued(r, q, i)' <=> Queued(r, q, i)
    BY <1>1, SameTasks
  <2>2. \A r, q, i : Queued(r, q, i) => i \in Nat \ {0} /\ i + 0 = i
    BY LenProperties DEF Queued, Types
  <2>3. Moves(0)
    BY <2>1, <2>2 DEF Moves, OfProtocols
  <2>. QED
    BY <1>1, <2>1, <2>3 DEF Types
<1>2. CASE Takes(run, p)
  <2>1. Moves(1)
    BY <1>2, TakenTask DEF Moves
  <2>2. ASSUME NEW r, NEW q, NEW i, Queued(r, q, i), r # run
        PROVE  \E j : Queued(r, q, j)'
    <3>1. i # 1
      BY <1>2, <2>2, TakenTask
    <3>. QED
      BY <1>2, <2>2, <3>1, TakenTask
  <2>. QED
    BY <1>2, <2>1, <2>2, TakenTask
<1>. QED
  BY <1>1, <1>2

\* What is queued stays in order when nothing is posted.
LEMMA QueueKept ==
    ASSUME Inv, NEW d \in {0, 1}, Moves(d),
           \A q \in Protocol : character[q] # None => character'[q] # None,
           \A q \in Protocol : Gone(q) => Gone(q)',
           \A q \in Protocol : \A i : Queued("connect", q, i)' => eventConnect'[q] # None,
           \A q \in released' \ released : Gone(q)' /\ \A j : ~Queued("login", q, j)',
           released' \in SUBSET Protocol
    PROVE  LoginsOnce' /\ ConnectsOnce' /\ ReleasesLast'
<1>1. \A r \in {"login", "connect", "release"} : \A q, i :
        Queued(r, q, i)' => i \in Nat \ {0} /\ Queued(r, q, i + d)
  BY DEF Moves, OfProtocols
<1>2. \A r, q, i : Queued(r, q, i) => i \in 1..Len(tasks)
  BY DEF Queued
<1>3. LoginsOnce'
  <2>1. ASSUME NEW q \in Protocol, NEW i, NEW j, Queued("login", q, i)', Queued("login", q, j)'
        PROVE  character'[q] # None /\ i = j
    <3>1. i \in Nat /\ j \in Nat /\ Queued("login", q, i + d) /\ Queued("login", q, j + d)
      BY <1>1, <2>1
    <3>2. character[q] # None /\ i + d = j + d
      BY <1>2, <3>1 DEF Inv, LoginsOnce
    <3>. QED
      BY <3>1, <3>2
  <2>. QED
    BY <2>1 DEF LoginsOnce
<1>4. ConnectsOnce'
  <2>1. ASSUME NEW q \in Protocol, NEW i, NEW j, Queued("connect", q, i)', Queued("connect", q, j)'
        PROVE  i = j
    <3>1. i \in Nat /\ j \in Nat /\ Queued("connect", q, i + d) /\ Queued("connect", q, j + d)
      BY <1>1, <2>1
    <3>2. i + d = j + d
      BY <1>2, <3>1 DEF Inv, ConnectsOnce
    <3>. QED
      BY <3>1, <3>2
  <2>. QED
    BY <2>1 DEF ConnectsOnce
<1>5. ASSUME NEW q \in Protocol, NEW i, Queued("release", q, i)'
      PROVE  Gone(q)' /\ \A j : Queued("login", q, j)' => j < i
  <2>1. i \in Nat /\ Queued("release", q, i + d)
    BY <1>1, <1>5
  <2>2. Gone(q) /\ \A j : Queued("login", q, j) => j < i + d
    BY <1>2, <2>1 DEF Inv, ReleasesLast, Gone
  <2>3. ASSUME NEW j, Queued("login", q, j)' PROVE j < i
    <3>1. j \in Nat /\ Queued("login", q, j + d)
      BY <1>1, <2>3
    <3>2. j + d < i + d
      BY <2>2, <3>1
    <3>. QED
      BY <2>1, <3>1, <3>2
  <2>. QED
    BY <2>2, <2>3
<1>6. ASSUME NEW q \in released'
      PROVE  Gone(q)' /\ \A j : ~Queued("login", q, j)'
  <2>1. CASE q \in released
    <3>1. q \in Protocol /\ Gone(q) /\ \A j : ~Queued("login", q, j)
      BY <1>2, <2>1 DEF Inv, ReleasesLast, Gone, Types
    <3>. QED
      BY <1>1, <3>1
  <2>. QED
    BY <2>1
<1>7. ReleasesLast'
  BY <1>5, <1>6 DEF ReleasesLast, Gone
<1>. QED
  BY <1>3, <1>4, <1>7

\* A protocol that has not started stays fresh if the step is not its login.
LEMMA FreshKept ==
    ASSUME Inv, NEW d \in {0, 1}, Moves(d), UNCHANGED <<character, authenticating>>,
           \A q \in Protocol : Fresh(q) /\ Unstarted(q)' => Fresh(q)'
    PROVE  UnstartedFresh'
<1>1. ASSUME NEW q \in Protocol, Unstarted(q)' PROVE Unstarted(q)
  <2>1. \A i : Queued("login", q, i)' => Queued("login", q, i + d)
    BY DEF Moves, OfProtocols
  <2>2. \A i : Queued("login", q, i) => i \in 1..Len(tasks)
    BY DEF Queued
  <2>3. CASE character'[q] = None \/ q \in authenticating'
    BY <2>3 DEF Unstarted
  <2>4. CASE \E i \in 1..Len(tasks') : Queued("login", q, i)'
    BY <2>1, <2>2, <2>4 DEF Unstarted
  <2>. QED
    BY <1>1, <2>3, <2>4 DEF Unstarted
<1>. QED
  BY <1>1 DEF Inv, UnstartedFresh

\* An answer is on its way, in the terms of Queued.
Answered(p) ==
    \/ p \in acceptPackets \cup closing \cup authenticating
    \/ eventConnect[p] # None /\ Accepts
    \/ \E i : Queued("login", p, i) \/ Queued("connect", p, i)
    \/ \E i : Queued("shutdown", None, i)

\* ... before a step and after it.
LEMMA AnswerQueued ==
    /\ Types => (AnswerOnItsWay <=>
            \A p \in Protocol : character[p] # None /\ conn[p] = "open" => Answered(p))
    /\ Types' => (AnswerOnItsWay' <=>
            \A p \in Protocol : character'[p] # None /\ conn'[p] = "open" => Answered(p)')
<1>1. Types => DOMAIN tasks = 1..Len(tasks) /\ \A i \in 1..Len(tasks) : tasks[i] \in Task
  BY LenProperties, ElementOfSeq DEF Types
<1>2. Types' => DOMAIN tasks' = 1..Len(tasks') /\ \A i \in 1..Len(tasks') : tasks'[i] \in Task
  BY LenProperties, ElementOfSeq DEF Types
<1>3. \A t \in Task : t.run = "shutdown" => t.of = None
  BY DEF Task
<1>4. ASSUME Types, NEW p
      PROVE  /\ (\E i \in DOMAIN tasks : tasks[i].of = p /\ tasks[i].run \in {"login", "connect"})
                   <=> \E i : Queued("login", p, i) \/ Queued("connect", p, i)
             /\ (\E i \in DOMAIN tasks : tasks[i].run = "shutdown")
                   <=> \E i : Queued("shutdown", None, i)
  BY <1>1, <1>3, <1>4 DEF Queued
<1>5. ASSUME Types', NEW p
      PROVE  /\ (\E i \in DOMAIN tasks' : tasks'[i].of = p /\ tasks'[i].run \in {"login", "connect"})
                   <=> \E i : (Queued("login", p, i) \/ Queued("connect", p, i))'
             /\ (\E i \in DOMAIN tasks' : tasks'[i].run = "shutdown")
                   <=> \E i : Queued("shutdown", None, i)'
  BY <1>2, <1>3, <1>5 DEF Queued
<1>. QED
  BY <1>4, <1>5 DEF AnswerOnItsWay, Answered

\* A task taken or posted is none of the shutdown's.
LEMMA EndMoved ==
    ASSUME Types, NEW run, NEW p,
           UNCHANGED tasks \/ (Takes(run, p) /\ run # "shutdown")
             \/ (Posts(run, p) /\ run \in OfProtocols)
    PROVE  (ShutdownQueued => ShutdownQueued') /\ (EndQueued' => EndQueued)
<1>1. CASE UNCHANGED tasks
  BY <1>1 DEF ShutdownQueued, EndQueued, Queued
<1>2. CASE Takes(run, p) /\ run # "shutdown"
  <2>1. /\ \A r, q, i : Queued(r, q, i)' => Queued(r, q, i + 1)
        /\ \A r, q, i : Queued(r, q, i) /\ r # run => \E j : Queued(r, q, j)'
    BY <1>2, TakenTask, TasksMove
  <2>2. \A r, q, i : Queued(r, q, i) => i \in 1..Len(tasks)
    BY DEF Queued
  <2>3. \A r, q, i : Queued(r, q, i)' => i \in 1..Len(tasks')
    BY DEF Queued
  <2>. QED
    BY <1>2, <2>1, <2>2, <2>3 DEF ShutdownQueued, EndQueued
<1>3. CASE Posts(run, p) /\ run \in OfProtocols
  <2>1. \A r \in {"shutdown", "terminate"} : \A q, i : Queued(r, q, i)' <=> Queued(r, q, i)
    BY <1>3 DEF Posts, OfProtocols
  <2>2. \A r, q, i : Queued(r, q, i) => i \in 1..Len(tasks)
    BY DEF Queued
  <2>3. \A r, q, i : Queued(r, q, i)' => i \in 1..Len(tasks')
    BY DEF Queued
  <2>. QED
    BY <2>1, <2>2, <2>3 DEF ShutdownQueued, EndQueued
<1>. QED
  BY <1>1, <1>2, <1>3

\* Nobody is authenticated twice.
LEMMA AuthenticatingKept ==
    ASSUME Inv, NEW d \in {0, 1}, Moves(d), authenticating' \subseteq authenticating,
           UNCHANGED character
    PROVE  AuthenticatingNew'
<1>1. \A q, i : Queued("login", q, i)' => Queued("login", q, i + d)
  BY DEF Moves, OfProtocols
<1>2. \A q, i : Queued("login", q, i) => i \in 1..Len(tasks)
  BY DEF Queued
<1>. QED
  BY <1>1, <1>2 DEF Inv, AuthenticatingNew

\* While the dispatcher goes on as it did, and the connections cut off are no fewer.
LEMMA EndingKept ==
    ASSUME Inv, UNCHANGED <<dispatcher, gameState>>, ShutdownQueued => ShutdownQueued',
           EndQueued' => EndQueued,
           \A q \in Protocol : character'[q] # None /\ conn'[q] = "open" =>
                /\ character[q] # None /\ conn[q] = "open"
                /\ q \in closing => q \in closing'
    PROVE  Ending'
BY DEF Inv, Ending, CutOff

-----------------------------------------------------------------------------
(* Players leave the game, and connections are asked to close.             *)

Removes ==
    /\ UNCHANGED <<conn, authenticating, parsing, loggedOut, player, client, eventConnect,
                   isConnecting, acceptPackets, character, autosend, released>>
    /\ closing' \in SUBSET Protocol /\ closing \subseteq closing'
    /\ players' \in SUBSET Protocol /\ removed' \in SUBSET Protocol
    /\ players' \subseteq players
    /\ sendAlls' \in Nat

LEMMA LogoutRemoves ==
    ASSUME Types, NEW p \in Protocol, Logout(p)
    PROVE  Removes /\ Takes("logout", p) /\ UNCHANGED serving
<1>1. /\ Takes("logout", p)
      /\ UNCHANGED <<conn, reading, serving, session, client, sending, released>>
  BY DEF Logout
<1>2. CASE UNCHANGED <<closing, players, removed>>
  BY <1>1, <1>2 DEF Removes, reading, serving, session, sending, Types
<1>3. CASE Disconnect({p}) /\ RemoveCreature({player[p]})
  <2>1. closing' \in SUBSET Protocol /\ closing \subseteq closing'
    BY <1>3, DisconnectTypes
  <2>. QED
    BY <1>1, <1>3, <2>1, RemoveTypes DEF Removes, reading, serving, session, sending, Types
<1>. QED
  BY <1>2, <1>3 DEF Logout

LEMMA PingTimeoutRemoves ==
    ASSUME Types, NEW o \in Protocol, PingTimeout(o)
    PROVE  Removes /\ UNCHANGED <<tasks, serving>>
<1>. DEFINE p == client[o]
<1>1. UNCHANGED <<conn, reading, tasks, serving, session, client, sending, released>>
  BY DEF PingTimeout
<1>2. CASE p = None
  <2>1. UNCHANGED closing /\ RemoveCreature({o})
    BY <1>2 DEF PingTimeout
  <2>. QED
    BY <1>1, <2>1, RemoveTypes DEF Removes, reading, serving, session, sending, Types
<1>3. CASE p # None
  <2>1. Disconnect(IF player[p] = None THEN {} ELSE {p}) /\ RemoveCreature({o, player[p]})
    BY <1>3 DEF PingTimeout
  <2>2. p \in Protocol
    BY <1>3 DEF Types, Maybe
  <2>3. closing' \in SUBSET Protocol /\ closing \subseteq closing'
    BY <2>1, <2>2, DisconnectTypes
  <2>4. /\ players' \in SUBSET Protocol /\ removed' \in SUBSET Protocol
        /\ players' \subseteq players
    BY <2>1, RemoveTypes
  <2>. QED
    BY <1>1, <2>3, <2>4 DEF Removes, reading, serving, session, sending, Types
<1>. QED
  BY <1>2, <1>3

LEMMA KickPlayerRemoves ==
    ASSUME Types, NEW o \in Protocol, KickPlayer(o)
    PROVE  Removes /\ UNCHANGED <<tasks, serving>>
<1>1. Kick({o}) /\ {o} \in SUBSET Protocol
  BY DEF KickPlayer
<1>. QED
  BY <1>1, KickTypes DEF KickPlayer, Removes, reading, serving, session, sending, Types

LEMMA DeathRemoves ==
    ASSUME Types, NEW o \in Protocol, Death(o)
    PROVE  Removes /\ UNCHANGED <<tasks, serving>>
<1>1. RemoveCreature({o})
  BY DEF Death
<1>. QED
  BY <1>1, RemoveTypes DEF Death, Removes, reading, serving, session, sending, network, Types

LEMMA SetGameStateRemoves ==
    ASSUME Types, NEW s \in States \cup {"NORMAL"}, SetGameState(s)
    PROVE  Removes
<1>1. KickedBy(s) \in SUBSET Protocol
  BY StatesAssumption DEF KickedBy, Types
<1>2. Kick(KickedBy(s))
  BY DEF SetGameState
<1>. QED
  BY <1>1, <1>2, KickTypes DEF SetGameState, Removes, reading, session, sending, Types

LEMMA ShutdownRemoves ==
    ASSUME Types, Stop \/ Shutdown \/ Terminate
    PROVE  Removes
<1>1. CASE Shutdown
  <2>1. Disconnect(Protocol)
    BY <1>1 DEF Shutdown
  <2>2. closing' \in SUBSET Protocol /\ closing \subseteq closing'
    BY <2>1, DisconnectTypes
  <2>. QED
    BY <1>1, <2>2 DEF Shutdown, Removes, reading, session, world, sending, Types
<1>2. CASE Stop \/ Terminate
  BY <1>2 DEF Stop, Terminate, Removes, network, reading, session, world, sending, Types
<1>. QED
  BY <1>1, <1>2

LEMMA SendAllRemoves ==
    ASSUME Types, SendAll
    PROVE  Removes /\ UNCHANGED <<tasks, serving>>
BY DEF SendAll, Removes, reading, serving, session, sending, network, world, Types

\* The tasks that answer a login stay in the queue, and the shutdown, if it has
\* begun, goes on.
Answers == \A r \in {"login", "connect"} : \A q, i : Queued(r, q, i) => \E j : Queued(r, q, j)'
EndGoesOn == Ending' /\ (ShutdownQueued => ShutdownQueued' \/ CutOff')

LEMMA RemovesInv ==
    ASSUME Inv, Removes, Types', NEW d \in {0, 1}, Moves(d), Answers, EndGoesOn
    PROVE  Inv'
<1>1. Types
  BY DEF Inv
<1>2. LoginsOnce' /\ ConnectsOnce' /\ ReleasesLast'
  <2>1. \A q \in Protocol : \A i : Queued("connect", q, i)' => eventConnect'[q] # None
    <3>1. \A q, i : Queued("connect", q, i)' => Queued("connect", q, i + d)
      BY DEF Moves, OfProtocols
    <3>2. \A q, i : Queued("connect", q, i) => i \in 1..Len(tasks)
      BY DEF Queued
    <3>. QED
      BY <3>1, <3>2 DEF Inv, ConnectsOnce, Removes
  <2>2. released' \in SUBSET Protocol /\ released' = released
    BY <1>1 DEF Removes, Types
  <2>. QED
    BY <2>1, <2>2, QueueKept DEF Removes, Gone
<1>3. UnstartedFresh' /\ AuthenticatingNew'
  BY FreshKept, AuthenticatingKept DEF Removes, Fresh
<1>4. /\ WaitingHaveNone' /\ ParsingOpen' /\ OpenedFirst'
      /\ ClientAndPlayerAgree' /\ ReleasedNotAutosent'
  BY DEF Inv, Removes, WaitingHaveNone, ParsingOpen, OpenedFirst, ClientAndPlayerAgree,
         ReleasedNotAutosent
<1>5. AnswerOnItsWay'
  <2>1. \A q \in Protocol : character[q] # None /\ conn[q] = "open" => Answered(q)
    BY <1>1, AnswerQueued DEF Inv
  <2>2. ASSUME NEW q \in Protocol, character[q] # None, conn[q] = "open"
        PROVE  Answered(q)'
    <3>1. CASE q \in acceptPackets \cup closing \cup authenticating
      BY <3>1 DEF Removes, Answered
    <3>2. CASE ShutdownQueued' \/ CutOff'
      BY <2>2, <3>2 DEF Removes, ShutdownQueued, CutOff, Answered
    <3>3. CASE eventConnect[q] # None /\ Accepts
      <4>1. Accepts' \/ ShutdownQueued' \/ CutOff'
        BY <1>1 DEF EndGoesOn, Ending, Accepts
      <4>2. eventConnect'[q] # None
        BY <3>3 DEF Removes
      <4>. QED
        BY <3>2, <4>1, <4>2 DEF Answered
    <3>4. CASE \E i : Queued("login", q, i) \/ Queued("connect", q, i)
      BY <3>4 DEF Answers, Answered
    <3>5. CASE ShutdownQueued
      BY <3>2, <3>5 DEF EndGoesOn
    <3>. QED
      BY <2>1, <2>2, <3>1, <3>3, <3>4, <3>5 DEF Answered, ShutdownQueued, Queued
  <2>. QED
    BY <2>2, AnswerQueued DEF Removes
<1>. QED
  BY <1>2, <1>3, <1>4, <1>5 DEF Inv, EndGoesOn

\* What the dispatcher does in the midst of the game.
LEMMA RunningInv ==
    ASSUME Inv, Removes, UNCHANGED serving, NEW p, UNCHANGED tasks \/ Takes("logout", p)
    PROVE  Inv'
<1>1. Types /\ Types'
  BY TasksMove DEF Inv, Removes, Types, serving
<1>2. PICK d \in {0, 1} : Moves(d)
  BY <1>1, TasksMove
<1>3. \A r, q, i : Queued(r, q, i) /\ r # "logout" => \E j : Queued(r, q, j)'
  <2>1. CASE UNCHANGED tasks
    BY <2>1, SameTasks
  <2>2. CASE Takes("logout", p)
    BY <1>1, <2>2, TasksMove
  <2>. QED
    BY <2>1, <2>2
<1>4. Answers
  BY <1>3 DEF Answers
<1>5. (ShutdownQueued => ShutdownQueued') /\ (EndQueued' => EndQueued)
  BY <1>1, EndMoved
<1>6. EndGoesOn
  BY <1>5, EndingKept DEF EndGoesOn, Removes, serving
<1>. QED
  BY <1>1, <1>2, <1>4, <1>6, RemovesInv

\* setGameState: a shutdown is pushed to the queue.
LEMMA SetGameStateInv ==
    ASSUME Inv, NEW s \in States \cup {"NORMAL"}, SetGameState(s)
    PROVE  Inv'
<1>1. Types /\ Removes /\ dispatcher = "running" /\ gameState' = s
  BY SetGameStateRemoves DEF Inv, SetGameState, Runs, Ending
<1>2. CASE s = "SHUTDOWN"
  <2>1. Push("shutdown", None, None) /\ dispatcher' = "stopping"
    BY <1>2 DEF SetGameState
  <2>2. [run |-> "shutdown", of |-> None, for |-> None] \in Task
    BY DEF Task
  <2>3. /\ tasks' \in Seq(Task) /\ Len(tasks) \in Nat
        /\ \A r, q, i : Queued(r, q, i)' <=>
             Queued(r, q, i) \/ (r = "shutdown" /\ q = None /\ i = Len(tasks) + 1)
        /\ \A r, q, i : Queued(r, q, i) => i \in 1..Len(tasks)
    BY <1>1, <2>1, <2>2, PushedTask
  <2>4. Types'
    BY <1>1, <2>1, <2>3 DEF Types, Removes
  <2>5. Moves(0)
    <3>1. \A i \in 1..Len(tasks) : i \in Nat \ {0} /\ i + 0 = i
      BY <2>3
    <3>2. \A r \in OfProtocols : \A q, i : Queued(r, q, i)' => Queued(r, q, i)
      BY <2>3 DEF OfProtocols
    <3>. QED
      BY <2>3, <3>1, <3>2 DEF Moves
  <2>6. Answers
    BY <2>3 DEF Answers
  <2>7. ShutdownQueued'
    <3>1. PICK n : n = Len(tasks) + 1
      OBVIOUS
    <3>2. Queued("shutdown", None, n)'
      BY <2>3, <3>1
    <3>3. n \in 1..Len(tasks')
      BY <3>2 DEF Queued
    <3>. QED
      BY <3>2, <3>3 DEF ShutdownQueued
  <2>8. EndGoesOn
    BY <1>1, <1>2, <2>1, <2>7 DEF EndGoesOn, Ending
  <2>. QED
    BY <1>1, <2>4, <2>5, <2>6, <2>8, RemovesInv
<1>3. CASE s # "SHUTDOWN"
  <2>1. UNCHANGED <<tasks, dispatcher>>
    BY <1>3 DEF SetGameState
  <2>2. Types'
    BY <1>1, <2>1 DEF Types, Removes
  <2>3. /\ \E d \in {0, 1} : Moves(d)
        /\ \A r, q, i : Queued(r, q, i)' <=> Queued(r, q, i)
    BY <1>1, <2>1, TasksMove, SameTasks
  <2>4. Answers
    BY <2>3 DEF Answers
  <2>5. (ShutdownQueued => ShutdownQueued') /\ (EndQueued' => EndQueued)
    BY <1>1, <2>1, EndMoved
  <2>6. EndGoesOn
    BY <1>1, <2>1, <2>5 DEF EndGoesOn, Inv, Ending
  <2>. QED
    BY <1>1, <2>2, <2>3, <2>4, <2>6, RemovesInv
<1>. QED
  BY <1>2, <1>3

\* The dispatcher is stopped, and at last ends.
LEMMA StopInv ==
    ASSUME Inv, Stop \/ Terminate
    PROVE  Inv'
<1>1. /\ Types /\ Removes
      /\ dispatcher \in {"stopping", "closed"} \/ Takes("terminate", None)
      /\ dispatcher' \in {"closed", "terminated"}
      /\ UNCHANGED <<gameState, closing, conn, character>>
      /\ UNCHANGED tasks \/ Takes("terminate", None)
  BY ShutdownRemoves DEF Inv, Stop, Terminate, network, session
<1>2. /\ tasks' \in Seq(Task)
      /\ \E d \in {0, 1} : Moves(d)
      /\ \A r, q, i : Queued(r, q, i) /\ r # "terminate" => \E j : Queued(r, q, j)'
  BY <1>1, TasksMove
<1>3. Types'
  BY <1>1, <1>2 DEF Types, Removes
<1>4. Answers
  BY <1>2 DEF Answers
<1>5. ShutdownQueued => ShutdownQueued'
  BY <1>1, EndMoved
<1>6. dispatcher # "running"
  <2>1. CASE Stop
    BY <2>1 DEF Stop
  <2>2. CASE Terminate
    <3>1. Queued("terminate", None, 1) /\ 1 \in 1..Len(tasks)
      BY <1>1, <2>2, TakenTask DEF Terminate, Queued
    <3>. QED
      BY <3>1 DEF Inv, Ending, EndQueued
  <2>. QED
    BY <2>1, <2>2
<1>7. EndGoesOn
  BY <1>1, <1>5, <1>6 DEF EndGoesOn, Inv, Ending, CutOff
<1>. QED
  BY <1>1, <1>2, <1>3, <1>4, <1>7, RemovesInv

\* Game::shutdown cuts off everybody.
LEMMA ShutdownInv ==
    ASSUME Inv, Shutdown
    PROVE  Inv'
<1>1. /\ Types /\ Removes
      /\ tasks # <<>> /\ Head(tasks).run = "shutdown"
      /\ tasks' = Append(Tail(tasks), [run |-> "terminate", of |-> None, for |-> None])
      /\ Disconnect(Protocol)
      /\ UNCHANGED <<conn, character, serving>>
  BY ShutdownRemoves DEF Inv, Shutdown, session
<1>2. /\ Len(tasks) \in Nat \ {0} /\ tasks' \in Seq(Task) /\ Len(tasks') = Len(tasks)
      /\ \A i \in 1..(Len(tasks) - 1) : tasks'[i] = tasks[i + 1]
      /\ tasks'[Len(tasks)].run = "terminate"
      /\ tasks[1].run = "shutdown" /\ tasks[1] \in Task
  <2>1. /\ Len(tasks) \in Nat \ {0} /\ Tail(tasks) \in Seq(Task)
        /\ Len(Tail(tasks)) = Len(tasks) - 1
        /\ \A i \in 1..(Len(tasks) - 1) : Tail(tasks)[i] = tasks[i + 1]
        /\ Head(tasks) = tasks[1] /\ tasks[1] \in Task
    BY <1>1, EmptySeq, LenProperties, HeadTailProperties, ElementOfSeq DEF Types
  <2>2. [run |-> "terminate", of |-> None, for |-> None] \in Task
    BY DEF Task
  <2>3. /\ tasks' \in Seq(Task) /\ Len(tasks') = (Len(tasks) - 1) + 1
        /\ \A i \in 1..(Len(tasks) - 1) : tasks'[i] = Tail(tasks)[i]
        /\ tasks'[(Len(tasks) - 1) + 1] = [run |-> "terminate", of |-> None, for |-> None]
    BY <1>1, <2>1, <2>2, AppendProperties
  <2>. QED
    BY <1>1, <2>1, <2>3
<1>3. ASSUME NEW run \in OfProtocols, NEW q, NEW i, Queued(run, q, i)'
      PROVE  i \in Nat \ {0} /\ Queued(run, q, i + 1)
  <2>1. i \in 1..Len(tasks) /\ i # Len(tasks)
    BY <1>2, <1>3 DEF Queued, OfProtocols
  <2>2. i \in 1..(Len(tasks) - 1) /\ tasks'[i] = tasks[i + 1]
    BY <1>2, <2>1
  <2>. QED
    BY <1>2, <1>3, <2>2 DEF Queued
<1>4. Moves(1)
  BY <1>3 DEF Moves
<1>5. ASSUME NEW run \in {"login", "connect"}, NEW q, NEW i, Queued(run, q, i)
      PROVE  \E j : Queued(run, q, j)'
  <2>1. i \in 1..Len(tasks) /\ i # 1
    BY <1>2, <1>5 DEF Queued
  <2>2. i - 1 \in 1..(Len(tasks) - 1) /\ (i - 1) + 1 = i
    BY <1>2, <2>1
  <2>3. tasks'[i - 1] = tasks[i] /\ i - 1 \in 1..Len(tasks')
    BY <1>2, <2>2
  <2>4. Queued(run, q, i - 1)'
    BY <1>5, <2>3 DEF Queued
  <2>. QED
    BY <2>4
<1>6. Answers
  BY <1>5 DEF Answers
<1>7. Types'
  BY <1>1, <1>2 DEF Types, Removes, serving
<1>8. CutOff'
  BY <1>1, DisconnectTypes DEF CutOff
<1>9. dispatcher # "running"
  <2>1. tasks[1].of = None
    BY <1>2 DEF Task
  <2>2. Queued("shutdown", None, 1) /\ 1 \in 1..Len(tasks)
    BY <1>2, <2>1 DEF Queued
  <2>. QED
    BY <2>2 DEF Inv, Ending, EndQueued
<1>10. EndGoesOn
  BY <1>1, <1>8, <1>9 DEF EndGoesOn, Inv, Ending, serving
<1>. QED
  BY <1>1, <1>4, <1>6, <1>7, <1>10, RemovesInv

-----------------------------------------------------------------------------
(* The network thread.                                                     *)

\* A step that posts nothing: a connection is made or expires, or a packet is
\* looked at.
LEMMA NetworkInv ==
    ASSUME Inv, NEW p \in Protocol, Accept(p) \/ ParsePacket(p) \/ Expire(p)
    PROVE  Inv'
<1>1. /\ UNCHANGED <<closing, authenticating, tasks, serving, session, world, sending, released>>
      /\ conn' \in [Protocol -> {"none", "open", "closed", "expired"}]
      /\ loggedOut' \in SUBSET Protocol /\ parsing' \in SUBSET Protocol
      /\ \A q \in Protocol : Gone(q) => Gone(q)'
      /\ \A q \in parsing' : conn'[q] = "open" /\ player[q] # None
      /\ \A q \in authenticating : conn[q] = "open" => conn'[q] = "open"
      /\ \A q \in Protocol : /\ conn'[q] = "open" => conn[q] = "open" \/ character[q] = None
                             /\ conn'[q] = "none" => conn[q] = "none"
  <2>1. CASE Accept(p)
    BY <2>1 DEF Accept, reading, Inv, Types, Gone, ParsingOpen, OpenedFirst, ClientAndPlayerAgree
  <2>2. CASE ParsePacket(p)
    BY <2>2 DEF ParsePacket, Inv, Types, Gone, ParsingOpen, ClientAndPlayerAgree
  <2>3. CASE Expire(p)
    BY <2>3 DEF Expire, reading, Inv, Types, Gone, ParsingOpen, ClientAndPlayerAgree
  <2>. QED
    BY <2>1, <2>2, <2>3
<1>2. Types /\ Types'
  BY <1>1 DEF Inv, Types, serving, session, world, sending
<1>3. \A r, q, i : Queued(r, q, i)' <=> Queued(r, q, i)
  BY <1>1, SameTasks
<1>4. PICK d \in {0, 1} : Moves(d)
  BY <1>1, <1>2, TasksMove
<1>5. LoginsOnce' /\ ConnectsOnce' /\ ReleasesLast'
  <2>1. \A q \in Protocol : \A i : Queued("connect", q, i)' => eventConnect'[q] # None
    BY <1>1, <1>3 DEF Inv, ConnectsOnce, Queued, session
  <2>2. /\ released' \in SUBSET Protocol /\ released' = released /\ character' = character
        /\ \A q \in Protocol : Gone(q) => Gone(q)'
    BY <1>1, <1>2 DEF Types, session
  <2>. QED
    BY <1>4, <2>1, <2>2, QueueKept
<1>6. UnstartedFresh'
  <2>1. \A q \in Protocol : Fresh(q) => Fresh(q)'
    BY <1>1 DEF session, world, sending, Fresh
  <2>. QED
    BY <1>1, <1>4, <2>1, FreshKept DEF session
<1>7. WaitingHaveNone' /\ ClientAndPlayerAgree' /\ ReleasedNotAutosent'
  BY <1>1 DEF Inv, WaitingHaveNone, ClientAndPlayerAgree, ReleasedNotAutosent, session, world, sending
<1>8. ParsingOpen' /\ OpenedFirst' /\ AuthenticatingNew' /\ Ending'
  <2>1. ParsingOpen' /\ OpenedFirst'
    BY <1>1 DEF Inv, ParsingOpen, OpenedFirst, session
  <2>2. AuthenticatingNew'
    BY <1>1, <1>4, AuthenticatingKept DEF session
  <2>3. (ShutdownQueued => ShutdownQueued') /\ (EndQueued' => EndQueued)
    BY <1>1, <1>2, EndMoved
  <2>. QED
    BY <1>1, <2>1, <2>2, <2>3, EndingKept DEF session, serving
<1>9. AnswerOnItsWay'
  <2>1. \A q : Answered(q) => Answered(q)'
    BY <1>1, <1>3 DEF Answered, Accepts, session, serving
  <2>2. \A q \in Protocol : character[q] # None /\ conn[q] = "open" => Answered(q)
    BY <1>2, AnswerQueued DEF Inv
  <2>3. \A q \in Protocol : character'[q] # None /\ conn'[q] = "open" => Answered(q)'
    BY <1>1, <2>1, <2>2 DEF session
  <2>. QED
    BY <1>2, <2>3, AnswerQueued
<1>. QED
  BY <1>2, <1>5, <1>6, <1>7, <1>8, <1>9 DEF Inv

LEMMA OnRecvFirstMessageInv ==
    ASSUME Inv, NEW p \in Protocol, NEW c \in Character, OnRecvFirstMessage(p, c)
    PROVE  Inv'
<1>1. /\ character[p] = None /\ conn[p] = "open" /\ gameState # "SHUTDOWN"
      /\ character' = [character EXCEPT ![p] = c]
      /\ authenticating' = authenticating \cup {p}
      /\ UNCHANGED <<conn, closing, parsing, loggedOut, tasks, dispatcher, gameState, player,
                     acceptPackets, eventConnect, isConnecting, client, players, removed,
                     autosend, sendAlls, released>>
  BY DEF OnRecvFirstMessage, serving, world, sending
<1>2. \A r, q, i : Queued(r, q, i)' <=> Queued(r, q, i)
  BY <1>1, SameTasks
<1>3. Types /\ Types'
  BY <1>1 DEF Inv, Types, Maybe
<1>4. /\ \A q \in Protocol : q # p => character'[q] = character[q]
      /\ character'[p] = c /\ c # None
      /\ Fresh(p)
      /\ \A i : ~Queued("login", p, i)
  BY <1>1, NoneAssumption DEF Inv, Types, UnstartedFresh, Unstarted, LoginsOnce, Queued
<1>5. LoginsOnce' /\ ConnectsOnce' /\ ReleasesLast'
  <2>1. \A q \in Protocol : \A i : Queued("connect", q, i)' => eventConnect'[q] # None
    BY <1>1, <1>2 DEF Inv, ConnectsOnce, Queued
  <2>2. released' \in SUBSET Protocol /\ released' = released
    BY <1>1, <1>3 DEF Types
  <2>3. \A q \in Protocol : /\ Gone(q) => Gone(q)'
                            /\ character[q] # None => character'[q] # None
    BY <1>1, <1>4 DEF Gone
  <2>4. PICK d \in {0, 1} : Moves(d)
    BY <1>1, <1>3, TasksMove
  <2>. QED
    BY <2>1, <2>2, <2>3, <2>4, QueueKept
<1>6. UnstartedFresh'
  <2>1. ASSUME NEW q \in Protocol, q # p, Unstarted(q)' PROVE Unstarted(q)
    BY <1>1, <1>2, <1>4, <2>1 DEF Unstarted
  <2>2. \A q : Fresh(q) => Fresh(q)'
    BY <1>1 DEF Fresh
  <2>. QED
    BY <1>4, <2>1, <2>2 DEF Inv, UnstartedFresh
<1>7. AuthenticatingNew'
  <2>1. \A q, i : Queued("login", q, i)' <=> Queued("login", q, i)
    BY <1>2
  <2>. QED
    BY <1>1, <1>3, <1>4, <2>1 DEF Inv, Types, AuthenticatingNew, Queued
<1>8. Ending'
  <2>1. EndQueued' => EndQueued
    BY <1>1, <1>3, EndMoved
  <2>. QED
    BY <1>1, <2>1 DEF Inv, Ending
<1>9. WaitingHaveNone' /\ ParsingOpen' /\ OpenedFirst' /\ ClientAndPlayerAgree' /\ ReleasedNotAutosent'
  BY <1>1, <1>4 DEF Inv, WaitingHaveNone, ParsingOpen, OpenedFirst, ClientAndPlayerAgree,
              ReleasedNotAutosent
<1>10. AnswerOnItsWay'
  <2>1. \A q \in Protocol : character[q] # None /\ conn[q] = "open" => Answered(q)
    BY <1>3, AnswerQueued DEF Inv
  <2>2. \A q : Answered(q) => Answered(q)'
    BY <1>1, <1>2 DEF Answered, Accepts
  <2>3. Answered(p)'
    BY <1>1 DEF Answered
  <2>4. \A q \in Protocol : character'[q] # None /\ conn'[q] = "open" => Answered(q)'
    BY <1>1, <1>4, <2>1, <2>2, <2>3
  <2>. QED
    BY <1>3, <2>4, AnswerQueued
<1>. QED
  BY <1>3, <1>5, <1>6, <1>7, <1>8, <1>9, <1>10 DEF Inv

\* The login is posted, or is deleted because the dispatcher is stopped.
LEMMA PostLoginInv ==
    ASSUME Inv, NEW p \in Protocol, PostLogin(p)
    PROVE  Inv'
<1>1. /\ p \in authenticating
      /\ authenticating' = authenticating \ {p}
      /\ UNCHANGED <<conn, closing, parsing, loggedOut, dispatcher, gameState, player,
                     acceptPackets, eventConnect, isConnecting, character, client, players,
                     removed, autosend, sendAlls, released>>
  BY DEF PostLogin, serving, session, world, sending
<1>2. Posts("login", p)
  BY PostedTask DEF PostLogin, Inv, Maybe
<1>3. Types /\ Types'
  BY <1>1, <1>2 DEF Inv, Types, Posts
<1>4. /\ character[p] # None /\ conn[p] = "open"
      /\ Fresh(p)
      /\ \A i : ~Queued("login", p, i)
      /\ p \notin released /\ \A i : ~Queued("release", p, i)
  <2>1. character[p] # None /\ conn[p] = "open" /\ Fresh(p)
    BY <1>1 DEF Inv, AuthenticatingNew, ParsingOpen, UnstartedFresh, Unstarted
  <2>2. \A i : ~Queued("login", p, i)
    BY <1>1 DEF Inv, AuthenticatingNew, Queued
  <2>3. p \notin released /\ \A i : ~Queued("release", p, i)
    BY <2>1 DEF Inv, ReleasesLast, Queued
  <2>. QED
    BY <2>1, <2>2, <2>3
<1>5. LoginsOnce' /\ AuthenticatingNew'
  <2>1. ASSUME NEW q \in Protocol, NEW i, Queued("login", q, i)'
        PROVE  /\ character'[q] # None /\ q \notin authenticating'
               /\ \A j : Queued("login", q, j)' => i = j
    <3>1. CASE q = p
      BY <1>1, <1>2, <1>4, <2>1, <3>1 DEF Posts
    <3>2. CASE q # p
      BY <1>1, <1>2, <2>1, <3>2 DEF Posts, Inv, LoginsOnce, AuthenticatingNew
    <3>. QED
      BY <3>1, <3>2
  <2>2. \A q \in authenticating' : q \in Protocol /\ character'[q] # None
    BY <1>1 DEF Inv, AuthenticatingNew, Types
  <2>. QED
    BY <2>1, <2>2 DEF LoginsOnce, AuthenticatingNew
<1>6. ConnectsOnce'
  <2>1. \A q, i : Queued("connect", q, i)' <=> Queued("connect", q, i)
    BY <1>2 DEF Posts
  <2>2. \A q, i : Queued("connect", q, i) => i \in 1..Len(tasks)
    BY <1>2 DEF Posts
  <2>. QED
    BY <1>1, <2>1, <2>2 DEF Inv, ConnectsOnce
<1>7. ReleasesLast'
  <2>1. ASSUME NEW q \in Protocol, NEW i, Queued("release", q, i)'
        PROVE  Gone(q)' /\ \A j : Queued("login", q, j)' => j < i
    <3>1. Queued("release", q, i) /\ q # p
      BY <1>2, <1>4, <2>1 DEF Posts
    <3>. QED
      BY <1>1, <1>2, <3>1 DEF Posts, Inv, ReleasesLast, Gone
  <2>2. ASSUME NEW q \in released' PROVE Gone(q)' /\ \A j : ~Queued("login", q, j)'
    <3>1. q \in released /\ q # p
      BY <1>1, <1>4, <2>2
    <3>. QED
      BY <1>1, <1>2, <3>1 DEF Posts, Inv, ReleasesLast, Gone
  <2>. QED
    BY <2>1, <2>2 DEF ReleasesLast, Gone
<1>8. UnstartedFresh'
  <2>1. ASSUME NEW q \in Protocol, q # p, Unstarted(q)' PROVE Unstarted(q)
    BY <1>1, <1>2, <2>1 DEF Posts, Unstarted
  <2>2. \A q : Fresh(q) => Fresh(q)'
    BY <1>1 DEF Fresh
  <2>. QED
    BY <1>4, <2>1, <2>2 DEF Inv, UnstartedFresh
<1>9. WaitingHaveNone' /\ ParsingOpen' /\ OpenedFirst' /\ ClientAndPlayerAgree' /\ ReleasedNotAutosent'
  BY <1>1 DEF Inv, WaitingHaveNone, ParsingOpen, OpenedFirst, ClientAndPlayerAgree,
              ReleasedNotAutosent
<1>10. Ending'
  <2>1. (ShutdownQueued => ShutdownQueued') /\ (EndQueued' => EndQueued)
    BY <1>2, <1>3, EndMoved DEF OfProtocols
  <2>. QED
    BY <1>1, <2>1, EndingKept
<1>11. AnswerOnItsWay'
  <2>1. \A q \in Protocol : character[q] # None /\ conn[q] = "open" => Answered(q)
    BY <1>3, AnswerQueued DEF Inv
  <2>2. \A q : q # p /\ Answered(q) => Answered(q)'
    BY <1>1, <1>2 DEF Posts, Answered, Accepts
  <2>3. Answered(p)'
    <3>1. CASE Accepts
      BY <1>2, <3>1 DEF Posts, Answered
    <3>2. CASE ~Accepts
      <4>1. ShutdownQueued' \/ CutOff'
        BY <1>1, <1>10, <3>2 DEF Ending, Accepts
      <4>. QED
        BY <1>1, <1>4, <4>1 DEF ShutdownQueued, CutOff, Answered
    <3>. QED
      BY <3>1, <3>2
  <2>4. \A q \in Protocol : character'[q] # None /\ conn'[q] = "open" => Answered(q)'
    BY <1>1, <2>1, <2>2, <2>3
  <2>. QED
    BY <1>3, <2>4, AnswerQueued
<1>. QED
  BY <1>3, <1>5, <1>6, <1>7, <1>8, <1>9, <1>10, <1>11 DEF Inv

\* The other posts: of a logout, of a connect that is due, and of the release
\* when the connection closes.
LEMMA PostingInv ==
    ASSUME Inv, NEW p \in Protocol, PostLogout(p) \/ ConnectDue(p) \/ Close(p)
    PROVE  Inv'
<1>1. PICK run \in {"logout", "connect", "release"} :
        /\ Posts(run, p)
        /\ run = "connect" => eventConnect[p] # None /\ \A i : ~Queued("connect", p, i)
        /\ run = "release" => Gone(p)'
  <2>1. CASE PostLogout(p)
    <3>1. Posts("logout", p)
      BY <2>1, PostedTask DEF PostLogout, Inv, Maybe
    <3>. QED
      BY <3>1
  <2>2. CASE ConnectDue(p)
    <3>1. eventConnect[p] \in Maybe(Protocol)
      BY DEF Inv, Types
    <3>2. Posts("connect", p)
      BY <2>2, <3>1, PostedTask DEF ConnectDue, Inv
    <3>3. \A i : ~Queued("connect", p, i)
      BY <2>2, LenProperties DEF ConnectDue, Queued, Inv, Types
    <3>. QED
      BY <2>2, <3>2, <3>3 DEF ConnectDue
  <2>3. CASE Close(p)
    <3>1. Posts("release", p)
      BY <2>3, PostedTask DEF Close, Inv, Maybe
    <3>2. Gone(p)'
      BY <2>3 DEF Close, Gone, Inv, Types
    <3>. QED
      BY <3>1, <3>2
  <2>. QED
    BY <2>1, <2>2, <2>3
<1>2. /\ UNCHANGED <<serving, session, world, sending, released>>
      /\ conn' \in [Protocol -> {"none", "open", "closed", "expired"}]
      /\ closing' \in SUBSET Protocol /\ loggedOut' \in SUBSET Protocol
      /\ parsing' \in SUBSET parsing /\ authenticating' \in SUBSET authenticating
      /\ \A q \in Protocol : Gone(q) => Gone(q)'
      /\ \A q \in Protocol : /\ conn'[q] = "open" => conn[q] = "open" 
                                    /\ (q \in closing => q \in closing')
                                    /\ (q \in authenticating => q \in authenticating')
                             /\ conn'[q] = "none" => conn[q] = "none"
      /\ \A q \in parsing' \cup authenticating' : conn'[q] = conn[q]
  <2>1. CASE PostLogout(p)
    BY <2>1 DEF PostLogout, Inv, Types, Gone
  <2>2. CASE ConnectDue(p)
    BY <2>2 DEF ConnectDue, network, reading, Inv, Types, Gone
  <2>3. CASE Close(p)
    BY <2>3 DEF Close, Inv, Types, Gone
  <2>. QED
    BY <2>1, <2>2, <2>3
<1>3. Types /\ Types'
  BY <1>1, <1>2 DEF Inv, Types, Posts, serving, session, world, sending
<1>4. /\ \A q, i : Queued("login", q, i)' <=> Queued("login", q, i)
      /\ \A q, i : Queued("login", q, i) => i \in 1..Len(tasks)
      /\ Len(tasks) \in Nat
  BY <1>1 DEF Posts
<1>5. LoginsOnce'
  BY <1>2, <1>4 DEF Inv, LoginsOnce, session
<1>6. ConnectsOnce'
  <2>1. ASSUME NEW q \in Protocol, NEW i, Queued("connect", q, i)'
        PROVE  eventConnect[q] # None /\ \A j : Queued("connect", q, j)' => i = j
    <3>1. CASE q = p /\ run = "connect"
      BY <1>1, <2>1, <3>1 DEF Posts
    <3>2. CASE ~(q = p /\ run = "connect")
      BY <1>1, <2>1, <3>2 DEF Posts, Inv, ConnectsOnce
    <3>. QED
      BY <3>1, <3>2
  <2>. QED
    BY <1>2, <2>1 DEF ConnectsOnce, session
<1>7. ReleasesLast'
  <2>1. ASSUME NEW q \in Protocol, NEW i, Queued("release", q, i)'
        PROVE  Gone(q)' /\ \A j : Queued("login", q, j)' => j < i
    <3>1. CASE Queued("release", q, i)
      BY <1>1, <1>2, <1>4, <3>1 DEF Posts, Inv, ReleasesLast, Gone
    <3>2. CASE run = "release" /\ q = p /\ i = Len(tasks) + 1
      BY <1>1, <1>4, <3>2
    <3>. QED
      BY <1>1, <2>1, <3>1, <3>2 DEF Posts
  <2>2. ASSUME NEW q \in released' PROVE Gone(q)' /\ \A j : ~Queued("login", q, j)'
    <3>1. q \in released /\ q \in Protocol
      BY <1>2, <2>2 DEF Inv, Types
    <3>. QED
      BY <1>2, <1>4, <3>1 DEF Inv, ReleasesLast, Gone
  <2>. QED
    BY <2>1, <2>2 DEF ReleasesLast, Gone
<1>8. UnstartedFresh'
  <2>1. ASSUME NEW q \in Protocol, Unstarted(q)' PROVE Unstarted(q)
    BY <1>2, <1>4, <2>1 DEF Unstarted, session
  <2>2. \A q : Fresh(q) => Fresh(q)'
    BY <1>2 DEF Fresh, session, world, sending
  <2>. QED
    BY <2>1, <2>2 DEF Inv, UnstartedFresh
<1>9. WaitingHaveNone' /\ ReleasedNotAutosent'
  BY <1>2 DEF Inv, WaitingHaveNone, ReleasedNotAutosent,
              session, world, sending
<1>10. ParsingOpen' /\ OpenedFirst' /\ AuthenticatingNew' /\ ClientAndPlayerAgree'
  BY <1>2, <1>4 DEF AuthenticatingNew, Inv, ParsingOpen, OpenedFirst, ClientAndPlayerAgree, session, world
<1>11. AnswerOnItsWay'
  <2>1. \A q \in Protocol : character[q] # None /\ conn[q] = "open" => Answered(q)
    BY <1>3, AnswerQueued DEF Inv
  <2>2. \A q, i : /\ Queued("login", q, i) => Queued("login", q, i)'
                  /\ Queued("connect", q, i) => Queued("connect", q, i)'
                  /\ Queued("shutdown", q, i) => Queued("shutdown", q, i)'
    BY <1>1 DEF Posts
  <2>3. \A q \in Protocol : conn'[q] = "open" /\ Answered(q) => Answered(q)'
    BY <1>2, <2>2 DEF Answered, Accepts, serving, session
  <2>4. \A q \in Protocol : character'[q] # None /\ conn'[q] = "open" => Answered(q)'
    BY <1>2, <2>1, <2>3 DEF session
  <2>. QED
    BY <1>3, <2>4, AnswerQueued
<1>12. Ending'
  <2>1. (ShutdownQueued => ShutdownQueued') /\ (EndQueued' => EndQueued)
    BY <1>1, <1>3, EndMoved DEF OfProtocols
  <2>. QED
    BY <1>2, <2>1, EndingKept DEF serving, session
<1>. QED
  BY <1>3, <1>5, <1>6, <1>7, <1>8, <1>9, <1>10, <1>11, <1>12 DEF Inv
-----------------------------------------------------------------------------
(* Login, connect and release.                                             *)

\* A protocol that is not on the list goes to the end of it.
OnList(q) == \E k \in 1..Len(autosend) : autosend[k] = q

LEMMA AddedOnce ==
    ASSUME Types, ReleasedNotAutosent, NEW p \in Protocol, ~OnList(p), p \notin released,
           AddToAutosend(p), UNCHANGED released
    PROVE  ReleasedNotAutosent' /\ \A q : OnList(q)' => OnList(q) \/ q = p
<1>1. /\ Len(autosend) \in Nat
      /\ \A q : q \in ToSet(autosend) <=> OnList(q)
      /\ \A k, l \in 1..Len(autosend) : autosend[k] = autosend[l] => k = l
  BY ListPlaces DEF ReleasedNotAutosent, OnList, Sends
<1>2. /\ Len(autosend') = Len(autosend) + 1
      /\ DOMAIN autosend' = 1..Len(autosend')
      /\ \A k \in 1..Len(autosend) : autosend'[k] = autosend[k]
      /\ autosend'[Len(autosend) + 1] = p
  BY AddedToList, LenProperties
<1>3. \A k \in 1..Len(autosend') : k \in 1..Len(autosend) \/ k = Len(autosend) + 1
  BY <1>1, <1>2
<1>4. \A k \in 1..Len(autosend) : autosend[k] # p
  BY DEF OnList
<1>5. \A k, l \in 1..Len(autosend') : autosend'[k] = autosend'[l] => k = l
  BY <1>1, <1>2, <1>3, <1>4
<1>6. IsInjective(autosend')
  BY <1>2, <1>5 DEF IsInjective
<1>7. \A q : OnList(q)' => OnList(q) \/ q = p
  BY <1>2, <1>3 DEF OnList
<1>8. \A q \in ToSet(autosend') : OnList(q)'
  BY <1>2 DEF ToSet, OnList
<1>9. \A q \in released' : q \notin ToSet(autosend')
  BY <1>1, <1>7, <1>8 DEF ReleasedNotAutosent
<1>. QED
  BY <1>6, <1>7, <1>9 DEF ReleasedNotAutosent

LEMMA ConnectAgrees ==
    ASSUME Inv, NEW p \in Protocol, NEW o, player[p] = None, Connect(p, o), UNCHANGED parsing
    PROVE  /\ ClientAndPlayerAgree' /\ WaitingHaveNone'
           /\ eventConnect'[p] = None
           /\ \A q \in Protocol : q # p =>
                player'[q] = player[q] /\ eventConnect'[q] = eventConnect[q]
           /\ \A q \in Protocol : q \notin players => client'[q] = client[q]
           /\ acceptPackets \subseteq acceptPackets' /\ closing \subseteq closing'
           /\ conn[p] = "open" => p \in acceptPackets' \cup closing'
<1>. DEFINE Refused == /\ UNCHANGED <<player, client, isConnecting, acceptPackets>>
                       /\ Disconnect({p}) \/ (conn[p] = "expired" /\ UNCHANGED closing)
            Given == /\ o \in players /\ client[o] = None
                     /\ player' = [player EXCEPT ![p] = o]
                     /\ client' = [client EXCEPT ![o] = p]
                     /\ acceptPackets' = acceptPackets \cup {p}
                     /\ UNCHANGED closing
<1>1. Types
  BY DEF Inv
<1>2. /\ eventConnect'[p] = None
      /\ \A q \in Protocol : q # p => eventConnect'[q] = eventConnect[q]
  BY <1>1 DEF Connect, Types
<1>3. CASE Refused
  <2>1. closing \subseteq closing' /\ (conn[p] = "open" => p \in closing')
    BY <1>1, <1>3, DisconnectTypes
  <2>2. ClientAndPlayerAgree'
    BY <1>3 DEF Inv, ClientAndPlayerAgree
  <2>3. WaitingHaveNone'
    BY <1>2, <1>3 DEF Inv, WaitingHaveNone
  <2>. QED
    BY <1>2, <1>3, <2>1, <2>2, <2>3
<1>4. CASE Given
  <2>1. o \in Protocol /\ o # None
    BY <1>1, <1>4, NoneAssumption DEF Types
  <2>2. /\ player'[p] = o /\ client'[o] = p
        /\ \A q \in Protocol : q # p => player'[q] = player[q]
        /\ \A q \in Protocol : q # o => client'[q] = client[q]
    BY <1>1, <1>4, <2>1 DEF Types
  <2>3. \A q \in Protocol : player[q] # o /\ client[q] # p
    BY <1>4, <2>1, NoneAssumption DEF Inv, ClientAndPlayerAgree
  <2>4. ASSUME NEW q \in Protocol, NEW r \in Protocol
        PROVE  client'[r] = q <=> player'[q] = r
    BY <2>1, <2>2, <2>3, <2>4 DEF Inv, ClientAndPlayerAgree
  <2>5. \A q \in parsing' : player'[q] # None
    BY <1>1, <2>1, <2>2 DEF Inv, ClientAndPlayerAgree, Types
  <2>6. ClientAndPlayerAgree'
    BY <2>4, <2>5 DEF ClientAndPlayerAgree
  <2>7. WaitingHaveNone'
    BY <1>2, <2>2 DEF Inv, WaitingHaveNone
  <2>. QED
    BY <1>2, <1>4, <2>2, <2>6, <2>7
<1>5. Refused \/ Given
  BY DEF Connect
<1>. HIDE DEF Refused, Given
<1>. QED
  BY <1>3, <1>4, <1>5

\* What a login may do to the session, given that its protocol is fresh.
LoginEffect(p) ==
    /\ ClientAndPlayerAgree' /\ WaitingHaveNone' /\ ReleasedNotAutosent'
    /\ \A q \in Protocol : q # p => player'[q] = player[q] /\ eventConnect'[q] = eventConnect[q]
    /\ \A q \in Protocol : q # p /\ q \notin players => client'[q] = client[q]
    /\ players' \subseteq players \cup {p}
    /\ \A q : OnList(q)' => OnList(q) \/ q = p
    /\ acceptPackets \subseteq acceptPackets' /\ closing \subseteq closing'
    /\ conn[p] = "open" => p \in acceptPackets' \cup closing' \/ eventConnect'[p] # None

LEMMA LoginNewEffect ==
    ASSUME Inv, NEW p \in Protocol, Fresh(p), p \notin released,
           LoginNew(p), UNCHANGED <<parsing, character, released>>
    PROVE  LoginEffect(p)
<1>1. Types /\ p # None /\ ~OnList(p)
  BY NoneAssumption DEF Inv, Fresh, OnList
<1>2. /\ player'[p] = p /\ client'[p] = p /\ UNCHANGED eventConnect
      /\ \A q \in Protocol : q # p => player'[q] = player[q] /\ client'[q] = client[q]
  BY <1>1 DEF LoginNew, Types
<1>3. ClientAndPlayerAgree'
  <2>1. \A q \in Protocol : player[q] # p /\ client[q] # p
    BY <1>1, NoneAssumption DEF Inv, ClientAndPlayerAgree, Fresh
  <2>2. ASSUME NEW q \in Protocol, NEW r \in Protocol
        PROVE  client'[r] = q <=> player'[q] = r
    BY <1>2, <2>1, <2>2 DEF Inv, ClientAndPlayerAgree
  <2>3. \A q \in parsing' : player'[q] # None
    BY <1>1, <1>2 DEF Inv, ClientAndPlayerAgree, Types
  <2>. QED
    BY <2>2, <2>3 DEF ClientAndPlayerAgree
<1>4. WaitingHaveNone'
  BY <1>2 DEF Inv, WaitingHaveNone, Fresh
<1>5. /\ ReleasedNotAutosent'
      /\ players' \subseteq players \cup {p}
      /\ \A q : OnList(q)' => OnList(q) \/ q = p
      /\ acceptPackets \subseteq acceptPackets' /\ closing \subseteq closing'
      /\ conn[p] = "open" => p \in acceptPackets' \cup closing'
  <2>1. CASE /\ Disconnect({p})
             /\ UNCHANGED <<acceptPackets, players, removed, sending>>
    <3>1. closing \subseteq closing' /\ (conn[p] = "open" => p \in closing')
      BY <1>1, <2>1, DisconnectTypes
    <3>2. ReleasedNotAutosent'
      BY <2>1 DEF Inv, ReleasedNotAutosent, sending
    <3>. QED
      BY <2>1, <3>1, <3>2 DEF OnList, sending
  <2>2. CASE /\ acceptPackets' = acceptPackets \cup {p}
             /\ AddToAutosend(p)
             /\ \/ players' = players \cup {p} /\ UNCHANGED <<removed, closing>>
                \/ Disconnect({p}) /\ UNCHANGED players
    <3>1. ReleasedNotAutosent' /\ \A q : OnList(q)' => OnList(q) \/ q = p
      BY <1>1, <2>2, AddedOnce DEF Inv
    <3>2. closing \subseteq closing'
      BY <1>1, <2>2, DisconnectTypes
    <3>. QED
      BY <2>2, <3>1, <3>2
  <2>. QED
    BY <2>1, <2>2 DEF LoginNew
<1>. QED
  BY <1>2, <1>3, <1>4, <1>5 DEF LoginEffect

LEMMA LoginTakeoverEffect ==
    ASSUME Inv, NEW p \in Protocol, Fresh(p), p \notin released, NEW o \in players,
           LoginTakeover(p, o), UNCHANGED <<parsing, character, released>>
    PROVE  LoginEffect(p)
<1>1. Types /\ o \in Protocol /\ o # None /\ ~OnList(p)
  BY NoneAssumption DEF Inv, Fresh, OnList, Types
<1>2. players' = players
  BY DEF LoginTakeover, Inv
<1>3. CASE /\ Disconnect({p})
           /\ UNCHANGED <<player, acceptPackets, eventConnect, isConnecting, client, sending>>
  <2>1. closing \subseteq closing' /\ (conn[p] = "open" => p \in closing')
    BY <1>1, <1>3, DisconnectTypes
  <2>2. ClientAndPlayerAgree' /\ WaitingHaveNone' /\ ReleasedNotAutosent'
    BY <1>3 DEF Inv, ClientAndPlayerAgree, WaitingHaveNone, ReleasedNotAutosent, sending
  <2>. QED
    BY <1>2, <1>3, <2>1, <2>2 DEF LoginEffect, OnList, sending
<1>4. CASE /\ Disconnect({client[o]})
           /\ eventConnect' = [eventConnect EXCEPT ![p] = o]
           /\ AddToAutosend(p)
           /\ UNCHANGED <<player, acceptPackets, client>>
  <2>1. closing \subseteq closing'
    BY <1>1, <1>4, DisconnectTypes
  <2>2. ReleasedNotAutosent' /\ \A q : OnList(q)' => OnList(q) \/ q = p
    BY <1>1, <1>4, AddedOnce DEF Inv
  <2>3. ClientAndPlayerAgree'
    BY <1>4 DEF Inv, ClientAndPlayerAgree
  <2>4. eventConnect'[p] = o /\ \A q \in Protocol : q # p => eventConnect'[q] = eventConnect[q]
    BY <1>1, <1>4 DEF Types
  <2>5. WaitingHaveNone'
    BY <1>4, <2>4 DEF Inv, WaitingHaveNone, Fresh
  <2>. QED
    BY <1>1, <1>2, <1>4, <2>1, <2>2, <2>3, <2>4, <2>5 DEF LoginEffect
<1>5. CASE Connect(p, o) /\ AddToAutosend(p)
  <2>1. ReleasedNotAutosent' /\ \A q : OnList(q)' => OnList(q) \/ q = p
    BY <1>1, <1>5, AddedOnce DEF Inv
  <2>. QED
    BY <1>2, <1>5, <2>1, ConnectAgrees DEF LoginEffect, Fresh
<1>. QED
  BY <1>3, <1>4, <1>5 DEF LoginTakeover

LEMMA LoginInv ==
    ASSUME Inv, NEW p \in Protocol, Login(p)
    PROVE  Inv'
<1>1. /\ Takes("login", p)
      /\ UNCHANGED <<conn, reading, serving, character, released>>
  BY DEF Login
<1>2. Types /\ Types' /\ Moves(1)
  BY <1>1, LoginTypes, TakenTask DEF Inv, Moves
<1>3. /\ Queued("login", p, 1)
      /\ \A i : Queued("login", p, i) => i = 1
      /\ character[p] # None /\ Fresh(p) /\ p \notin released /\ p \notin authenticating
      /\ \A i : ~Queued("connect", p, i)
  <2>1. Queued("login", p, 1) /\ 1 \in 1..Len(tasks)
    BY <1>1, <1>2, TakenTask DEF Queued
  <2>2. /\ character[p] # None
        /\ \A i : Queued("login", p, i) => i = 1
        /\ p \notin released /\ p \notin authenticating
    BY <2>1 DEF Inv, LoginsOnce, ReleasesLast, AuthenticatingNew, Queued
  <2>3. Fresh(p)
    BY <2>1 DEF Inv, UnstartedFresh, Unstarted
  <2>4. \A i : ~Queued("connect", p, i)
    BY <2>3 DEF Inv, ConnectsOnce, Fresh, Queued
  <2>. QED
    BY <2>1, <2>2, <2>3, <2>4
<1>4. LoginEffect(p)
  <2>1. CASE LoginNew(p)
    BY <1>1, <1>3, <2>1, LoginNewEffect DEF reading
  <2>2. ASSUME NEW o \in InGame(character[p]), LoginTakeover(p, o) PROVE LoginEffect(p)
    BY <1>1, <1>3, <2>2, LoginTakeoverEffect DEF InGame, reading
  <2>. QED
    BY <2>1, <2>2 DEF Login
<1>5. /\ \A q, i : Queued("connect", q, i)' => Queued("connect", q, i + 1)
      /\ \A i : ~Queued("login", p, i)'
  BY <1>2, <1>3 DEF Moves, OfProtocols
<1>6. LoginsOnce' /\ ConnectsOnce' /\ ReleasesLast'
  <2>1. ASSUME NEW q \in Protocol, NEW i, Queued("connect", q, i)' PROVE eventConnect'[q] # None
    <3>1. Queued("connect", q, i + 1) /\ q # p
      BY <1>3, <1>5, <2>1
    <3>2. eventConnect[q] # None
      BY <3>1 DEF Inv, ConnectsOnce, Queued
    <3>. QED
      BY <1>4, <3>1, <3>2 DEF LoginEffect
  <2>2. released' \in SUBSET Protocol
    BY <1>2 DEF Types
  <2>3. \A q \in Protocol : Gone(q) => Gone(q)'
    BY <1>1 DEF Gone
  <2>. QED
    BY <1>1, <1>2, <2>1, <2>2, <2>3, QueueKept
<1>7. UnstartedFresh'
  <2>1. ASSUME NEW q \in Protocol, Fresh(q), Unstarted(q)' PROVE Fresh(q)'
    <3>1. q # p
      BY <1>1, <1>3, <1>5, <2>1 DEF Unstarted, reading
    <3>2. /\ player'[q] = None /\ eventConnect'[q] = None
          /\ q \notin players' /\ client'[q] = None
      BY <1>4, <2>1, <3>1 DEF LoginEffect, Fresh
    <3>3. ~OnList(q)
      BY <2>1 DEF Fresh, OnList
    <3>4. ~OnList(q)'
      BY <1>4, <3>1, <3>3 DEF LoginEffect
    <3>. QED
      BY <3>2, <3>4 DEF Fresh, OnList
  <2>. QED
    BY <1>1, <1>2, <2>1, FreshKept DEF reading
<1>8. ParsingOpen' /\ OpenedFirst' /\ AuthenticatingNew' /\ Ending'
  <2>1. ParsingOpen' /\ OpenedFirst'
    BY <1>1 DEF Inv, ParsingOpen, OpenedFirst, reading
  <2>2. AuthenticatingNew'
    BY <1>1, <1>2, AuthenticatingKept DEF reading
  <2>3. (ShutdownQueued => ShutdownQueued') /\ (EndQueued' => EndQueued)
    BY <1>1, <1>2, EndMoved
  <2>. QED
    BY <1>1, <1>4, <2>1, <2>2, <2>3, EndingKept DEF LoginEffect, serving
<1>9. AnswerOnItsWay'
  <2>1. \A q \in Protocol : character[q] # None /\ conn[q] = "open" => Answered(q)
    BY <1>2, AnswerQueued DEF Inv
  <2>2. \A r, q, i : Queued(r, q, i) /\ r # "login" => \E j : Queued(r, q, j)'
    BY <1>1, <1>2, TasksMove
  <2>3. \A q, i : Queued("login", q, i) /\ q # p => \E j : Queued("login", q, j)'
    BY <1>1, <1>2, TakenTask
  <2>4. ASSUME NEW q \in Protocol, character[q] # None, conn[q] = "open"
        PROVE  Answered(q)'
    <3>1. CASE q = p
      <4>1. CASE Accepts'
        BY <1>4, <2>4, <3>1, <4>1 DEF LoginEffect, Answered
      <4>2. CASE ~Accepts'
        <5>1. ShutdownQueued' \/ CutOff'
          BY <1>8, <4>2 DEF Ending, Accepts
        <5>. QED
          BY <1>1, <2>4, <5>1 DEF ShutdownQueued, CutOff, Answered
      <4>. QED
        BY <4>1, <4>2
    <3>2. CASE q # p
      <4>1. CASE \E i : Queued("login", q, i) \/ Queued("connect", q, i)
        BY <2>2, <2>3, <3>2, <4>1 DEF Answered
      <4>2. CASE \/ q \in acceptPackets \cup closing \cup authenticating
                 \/ eventConnect[q] # None /\ Accepts
        BY <1>1, <1>4, <3>2, <4>2 DEF LoginEffect, Answered, Accepts, reading, serving
      <4>3. CASE \E i : Queued("shutdown", None, i)
        BY <2>2, <4>3 DEF Answered
      <4>. QED
        BY <2>1, <2>4, <4>1, <4>2, <4>3 DEF Answered
    <3>. QED
      BY <3>1, <3>2
  <2>. QED
    BY <1>1, <1>2, <2>4, AnswerQueued
<1>. QED
  BY <1>2, <1>4, <1>6, <1>7, <1>8, <1>9 DEF Inv, LoginEffect

LEMMA RunConnectInv ==
    ASSUME Inv, NEW p \in Protocol, RunConnect(p)
    PROVE  Inv'
<1>. DEFINE o == Head(tasks).for
<1>1. /\ Takes("connect", p) /\ Connect(p, o)
      /\ UNCHANGED <<conn, reading, serving, character, players, removed,
                     autosend, sendAlls, released>>
  BY DEF RunConnect, sending
<1>. HIDE DEF o
<1>2. Types /\ Types' /\ Moves(1)
  <2>1. Moves(1) /\ tasks' \in Seq(Task)
    BY <1>1, TakenTask DEF Inv, Moves
  <2>. QED
    BY <1>1, <2>1, ConnectTypes DEF Inv, Types, reading, serving
<1>3. /\ eventConnect[p] # None /\ player[p] = None
      /\ \A i : Queued("connect", p, i) => i = 1
  <2>1. Queued("connect", p, 1) /\ 1 \in 1..Len(tasks)
    BY <1>1, <1>2, TakenTask DEF Queued
  <2>. QED
    BY <2>1 DEF Inv, ConnectsOnce, WaitingHaveNone, Queued
<1>4. /\ ClientAndPlayerAgree' /\ WaitingHaveNone'
      /\ \A q \in Protocol : q # p =>
            player'[q] = player[q] /\ eventConnect'[q] = eventConnect[q]
      /\ \A q \in Protocol : q \notin players => client'[q] = client[q]
      /\ acceptPackets \subseteq acceptPackets' /\ closing \subseteq closing'
      /\ conn[p] = "open" => p \in acceptPackets' \cup closing'
  BY <1>1, <1>3, ConnectAgrees DEF reading
<1>5. /\ \A q, i : Queued("connect", q, i)' => Queued("connect", q, i + 1)
      /\ \A i : ~Queued("connect", p, i)'
  BY <1>2, <1>3 DEF Moves, OfProtocols
<1>6. LoginsOnce' /\ ConnectsOnce' /\ ReleasesLast'
  <2>1. ASSUME NEW q \in Protocol, NEW i, Queued("connect", q, i)' PROVE eventConnect'[q] # None
    <3>1. Queued("connect", q, i + 1) /\ q # p
      BY <1>5, <2>1
    <3>2. eventConnect[q] # None
      BY <3>1 DEF Inv, ConnectsOnce, Queued
    <3>. QED
      BY <1>4, <3>1, <3>2
  <2>2. released' \in SUBSET Protocol
    BY <1>2 DEF Types
  <2>3. \A q \in Protocol : Gone(q) => Gone(q)'
    BY <1>1 DEF Gone
  <2>. QED
    BY <1>1, <1>2, <2>1, <2>2, <2>3, QueueKept
<1>7. UnstartedFresh'
  <2>1. ASSUME NEW q \in Protocol, Fresh(q) PROVE Fresh(q)'
    <3>1. q # p
      BY <1>3, <2>1 DEF Fresh
    <3>. QED
      BY <1>1, <1>4, <2>1, <3>1 DEF Fresh
  <2>. QED
    BY <1>1, <1>2, <2>1, FreshKept DEF reading
<1>8. ParsingOpen' /\ OpenedFirst' /\ ReleasedNotAutosent' /\ AuthenticatingNew' /\ Ending'
  <2>1. ParsingOpen' /\ OpenedFirst' /\ ReleasedNotAutosent'
    BY <1>1 DEF Inv, ParsingOpen, OpenedFirst, ReleasedNotAutosent, reading
  <2>2. AuthenticatingNew'
    BY <1>1, <1>2, AuthenticatingKept DEF reading
  <2>3. (ShutdownQueued => ShutdownQueued') /\ (EndQueued' => EndQueued)
    BY <1>1, <1>2, EndMoved
  <2>. QED
    BY <1>1, <1>4, <2>1, <2>2, <2>3, EndingKept DEF serving
<1>9. AnswerOnItsWay'
  <2>1. \A q \in Protocol : character[q] # None /\ conn[q] = "open" => Answered(q)
    BY <1>2, AnswerQueued DEF Inv
  <2>2. \A r, q, i : Queued(r, q, i) /\ r # "connect" => \E j : Queued(r, q, j)'
    BY <1>1, <1>2, TasksMove
  <2>3. \A q, i : Queued("connect", q, i) /\ q # p => \E j : Queued("connect", q, j)'
    BY <1>1, <1>2, TakenTask
  <2>4. ASSUME NEW q \in Protocol, character[q] # None, conn[q] = "open"
        PROVE  Answered(q)'
    <3>1. CASE q = p
      BY <1>4, <2>4, <3>1 DEF Answered
    <3>2. CASE q # p
      <4>1. CASE \E i : Queued("login", q, i) \/ Queued("connect", q, i)
        BY <2>2, <2>3, <3>2, <4>1 DEF Answered
      <4>2. CASE \/ q \in acceptPackets \cup closing \cup authenticating
                 \/ eventConnect[q] # None /\ Accepts
        BY <1>1, <1>4, <3>2, <4>2 DEF Answered, Accepts, reading, serving
      <4>3. CASE \E i : Queued("shutdown", None, i)
        BY <2>2, <4>3 DEF Answered
      <4>. QED
        BY <2>1, <2>4, <4>1, <4>2, <4>3 DEF Answered
    <3>. QED
      BY <3>1, <3>2
  <2>. QED
    BY <1>1, <1>2, <2>4, AnswerQueued
<1>. QED
  BY <1>2, <1>4, <1>6, <1>7, <1>8, <1>9 DEF Inv

LEMMA ReleaseInv ==
    ASSUME Inv, NEW p \in Protocol, Release(p)
    PROVE  Inv'
<1>1. /\ Takes("release", p) /\ RemoveFromAutosend(p)
      /\ released' = released \cup {p}
      /\ UNCHANGED <<conn, closing, reading, serving, acceptPackets, eventConnect,
                     isConnecting, character, players, removed, sendAlls>>
  BY DEF Release, network
<1>2. /\ autosend' \in Seq(Protocol) /\ IsInjective(autosend')
      /\ ToSet(autosend') = ToSet(autosend) \ {p}
  BY <1>1, RemovedFromList DEF Inv, ReleasedNotAutosent
<1>3. /\ client' \in [Protocol -> Maybe(Protocol)] /\ player' \in [Protocol -> Maybe(Protocol)]
      /\ \A q \in Protocol : client'[q] \in {client[q], None}
      /\ \A q \in Protocol : player'[q] = player[q] \/ (q = p /\ player'[q] = None)
      /\ \A q, r \in Protocol : client'[r] = q <=> player'[q] = r
  <2>1. CASE player[p] # None /\ client[player[p]] = p
    <3>. DEFINE o == player[p]
    <3>1. o \in Protocol
      BY <2>1 DEF Inv, Types, Maybe
    <3>2. /\ client' = [client EXCEPT ![o] = None]
          /\ player' = [player EXCEPT ![p] = None]
      BY <2>1 DEF Release
    <3>. HIDE DEF o
    <3>3. /\ client' \in [Protocol -> Maybe(Protocol)] /\ player' \in [Protocol -> Maybe(Protocol)]
          /\ client'[o] = None /\ player'[p] = None
          /\ \A q \in Protocol : q # o => client'[q] = client[q]
          /\ \A q \in Protocol : q # p => player'[q] = player[q]
      BY <3>1, <3>2 DEF Inv, Types, Maybe
    <3>4. player[p] = o
      BY DEF o
    <3>. QED
      BY <3>1, <3>3, <3>4, NoneAssumption DEF Inv, ClientAndPlayerAgree
  <2>2. CASE ~(player[p] # None /\ client[player[p]] = p)
    BY <2>2 DEF Release, Inv, Types, ClientAndPlayerAgree
  <2>. QED
    BY <2>1, <2>2
<1>4. Types /\ Types' /\ Moves(1)
  BY <1>1, <1>2, <1>3, TakenTask DEF Inv, Types, Moves, reading, serving
<1>5. Gone(p) /\ \A j : ~Queued("login", p, j)
  <2>1. Queued("release", p, 1) /\ 1 \in 1..Len(tasks)
    BY <1>1, <1>4, TakenTask DEF Queued
  <2>2. Gone(p) /\ \A j \in 1..Len(tasks) : Queued("login", p, j) => j < 1
    BY <2>1 DEF Inv, ReleasesLast, Gone
  <2>. QED
    BY <2>2 DEF Queued
<1>6. LoginsOnce' /\ ConnectsOnce' /\ ReleasesLast'
  <2>1. \A q \in Protocol : \A i : Queued("connect", q, i)' => eventConnect'[q] # None
    <3>1. \A q, i : Queued("connect", q, i)' => Queued("connect", q, i + 1)
      BY <1>4 DEF Moves, OfProtocols
    <3>. QED
      BY <1>1, <3>1 DEF Inv, ConnectsOnce, Queued
  <2>2. \A q \in released' \ released : Gone(q)' /\ \A j : ~Queued("login", q, j)'
    BY <1>1, <1>4, <1>5 DEF Gone, Moves, OfProtocols
  <2>3. released' \in SUBSET Protocol
    BY <1>4 DEF Types
  <2>4. \A q \in Protocol : Gone(q) => Gone(q)'
    BY <1>1 DEF Gone
  <2>. QED
    BY <1>1, <1>4, <2>1, <2>2, <2>3, <2>4, QueueKept
<1>7. UnstartedFresh'
  <2>1. ASSUME NEW q \in Protocol, Fresh(q) PROVE Fresh(q)'
    <3>1. q \notin ToSet(autosend')
      BY <1>2, <1>4, <2>1, ListPlaces DEF Fresh, Sends
    <3>2. \A k \in 1..Len(autosend') : autosend'[k] # q
      BY <1>2, <3>1, LenProperties DEF ToSet
    <3>. QED
      BY <1>1, <1>3, <2>1, <3>2 DEF Fresh
  <2>. QED
    BY <1>1, <1>4, <2>1, FreshKept DEF reading
<1>8. ReleasedNotAutosent'
  BY <1>1, <1>2 DEF Inv, ReleasedNotAutosent
<1>9. ClientAndPlayerAgree'
  <2>1. \A q \in parsing : q \in Protocol /\ q # p /\ player[q] # None
    BY <1>5 DEF Inv, ParsingOpen, ClientAndPlayerAgree, Gone, Types
  <2>2. \A q \in parsing' : player'[q] # None
    BY <1>1, <1>3, <2>1 DEF reading
  <2>. QED
    BY <1>3, <2>2 DEF ClientAndPlayerAgree
<1>10. WaitingHaveNone' /\ ParsingOpen' /\ OpenedFirst' /\ AuthenticatingNew' /\ Ending'
  <2>1. WaitingHaveNone' /\ ParsingOpen' /\ OpenedFirst'
    BY <1>1, <1>3 DEF Inv, WaitingHaveNone, ParsingOpen, OpenedFirst, reading
  <2>2. AuthenticatingNew'
    BY <1>1, <1>4, AuthenticatingKept DEF reading
  <2>3. (ShutdownQueued => ShutdownQueued') /\ (EndQueued' => EndQueued)
    BY <1>1, <1>4, EndMoved
  <2>. QED
    BY <1>1, <2>1, <2>2, <2>3, EndingKept DEF serving
<1>11. AnswerOnItsWay'
  <2>1. \A q \in Protocol : character[q] # None /\ conn[q] = "open" => Answered(q)
    BY <1>4, AnswerQueued DEF Inv
  <2>2. \A r, q, i : Queued(r, q, i) /\ r # "release" => \E j : Queued(r, q, j)'
    BY <1>1, <1>4, TasksMove
  <2>3. \A q \in Protocol : Answered(q) => Answered(q)'
    BY <1>1, <2>2 DEF Answered, Accepts, reading, serving
  <2>4. \A q \in Protocol : character'[q] # None /\ conn'[q] = "open" => Answered(q)'
    BY <1>1, <2>1, <2>3
  <2>. QED
    BY <1>4, <2>4, AnswerQueued
<1>. QED
  BY <1>4, <1>6, <1>7, <1>8, <1>9, <1>10, <1>11 DEF Inv

-----------------------------------------------------------------------------
(* The invariant.                                                          *)

LEMMA InitInv == Init => Inv
<1>. SUFFICES ASSUME Init PROVE Inv
  OBVIOUS
<1>1. Len(tasks) = 0 /\ Len(autosend) = 0 /\ tasks = <<>> /\ autosend = <<>>
  BY DEF Init
<1>2. Types
  BY DEF Init, Types, Maybe
<1>3. \A p \in Protocol : /\ character[p] = None /\ player[p] = None /\ client[p] = None
                          /\ eventConnect[p] = None
  BY DEF Init
<1>4. ClientAndPlayerAgree
  BY <1>3, NoneAssumption DEF Init, ClientAndPlayerAgree
<1>5. UnstartedFresh /\ LoginsOnce /\ ConnectsOnce /\ ReleasesLast
  BY <1>1, <1>3 DEF Init, UnstartedFresh, Fresh, LoginsOnce, ConnectsOnce, ReleasesLast
<1>6. WaitingHaveNone /\ ParsingOpen /\ OpenedFirst /\ AuthenticatingNew /\ Ending
      /\ AnswerOnItsWay
  BY <1>1, <1>3 DEF Init, WaitingHaveNone, ParsingOpen, OpenedFirst, AuthenticatingNew, Ending,
                    EndQueued, AnswerOnItsWay
<1>7. ReleasedNotAutosent
  BY <1>1, <1>2, ListPlaces DEF Init, ReleasedNotAutosent
<1>. QED
  BY <1>2, <1>4, <1>5, <1>6, <1>7 DEF Inv

LEMMA StepInv == Inv /\ [Next]_vars => Inv'
<1>. SUFFICES ASSUME Inv, [Next]_vars PROVE Inv'
  OBVIOUS
<1>1. Types
  BY DEF Inv
<1>2. CASE \E p \in Protocol : Accept(p) \/ ParsePacket(p) \/ Expire(p)
  BY <1>2, NetworkInv
<1>3. CASE \E p \in Protocol : PostLogout(p) \/ ConnectDue(p) \/ Close(p)
  BY <1>3, PostingInv
<1>4. CASE \E p \in Protocol : PostLogin(p) \/ \E c \in Character : OnRecvFirstMessage(p, c)
  BY <1>4, PostLoginInv, OnRecvFirstMessageInv
<1>5. CASE \E p \in Protocol : Login(p)
  BY <1>5, LoginInv
<1>6. CASE \E p \in Protocol : RunConnect(p)
  BY <1>6, RunConnectInv
<1>7. CASE \E p \in Protocol : Release(p)
  BY <1>7, ReleaseInv
<1>8. CASE \E p \in Protocol : Logout(p)
  BY <1>1, <1>8, LogoutRemoves, RunningInv
<1>9. CASE \E p \in Protocol : PingTimeout(p) \/ KickPlayer(p) \/ Death(p)
  BY <1>1, <1>9, PingTimeoutRemoves, KickPlayerRemoves, DeathRemoves, RunningInv
<1>10. CASE \E s \in States \cup {"NORMAL"} : SetGameState(s)
  BY <1>10, SetGameStateInv
<1>11. CASE Stop \/ Shutdown \/ Terminate
  BY <1>11, StopInv, ShutdownInv
<1>12. CASE SendAll
  BY <1>1, <1>12, SendAllRemoves, RunningInv
<1>13. CASE UNCHANGED vars
  <2>1. Removes /\ UNCHANGED <<tasks, serving>>
    BY <1>1, <1>13 DEF vars, network, reading, serving, session, world, sending, Removes, Types
  <2>. QED
    BY <2>1, RunningInv
<1>. QED
  BY <1>2, <1>3, <1>4, <1>5, <1>6, <1>7, <1>8, <1>9, <1>10, <1>11, <1>12, <1>13 DEF Next

LEMMA Invariance == Spec => []Inv
BY InitInv, StepInv, PTL DEF Spec

-----------------------------------------------------------------------------
(* The sendAll events, for TypeOK: one was scheduled for each time the     *)
(* list was empty when a protocol came, and a protocol comes once.         *)

\* The protocols that have been on the list: those on it and the released.
Sent == released \cup ToSet(autosend)
SendAllsBounded == sendAlls <= Cardinality(Sent)

LEMMA SentFinite ==
    ASSUME Types
    PROVE  Sent \subseteq Protocol /\ IsFiniteSet(Sent) /\ Cardinality(Sent) \in Nat
<1>1. Sent \subseteq Protocol
  BY DEF Sent, Types, ToSet
<1>. QED
  BY <1>1, ProtocolAssumption, FS_Subset, FS_CardinalityType

\* A protocol new to the list.
LEMMA SentMore ==
    ASSUME Types, Types', SendAllsBounded, NEW p \in Protocol, ~OnList(p), p \notin released,
           AddToAutosend(p), UNCHANGED released
    PROVE  SendAllsBounded'
<1>1. p \notin Sent
  BY ListPlaces DEF Sent, OnList, Sends
<1>2. Sent' = Sent \cup {p}
  <2>1. /\ Len(autosend) \in Nat /\ DOMAIN autosend = 1..Len(autosend)
        /\ Len(autosend') = Len(autosend) + 1 /\ DOMAIN autosend' = 1..Len(autosend')
        /\ \A k \in 1..Len(autosend) : autosend'[k] = autosend[k]
        /\ autosend'[Len(autosend) + 1] = p
    BY AddedToList, ListPlaces, LenProperties
  <2>2. \A q : q \in ToSet(autosend') <=> q \in ToSet(autosend) \/ q = p
    <3>1. \A k \in 1..Len(autosend') : k \in 1..Len(autosend) \/ k = Len(autosend) + 1
      BY <2>1
    <3>2. \A k \in 1..Len(autosend) : k \in 1..Len(autosend')
      BY <2>1
    <3>3. Len(autosend) + 1 \in 1..Len(autosend')
      BY <2>1
    <3>. QED
      BY <2>1, <3>1, <3>2, <3>3 DEF ToSet
  <2>. QED
    BY <2>2 DEF Sent
<1>3. Cardinality(Sent \cup {p}) = Cardinality(Sent) + 1
  BY <1>1, SentFinite, FS_AddElement
<1>4. Cardinality(Sent') = Cardinality(Sent) + 1
  BY <1>2, <1>3, Zenon
<1>5. sendAlls \in Nat /\ sendAlls' \in {sendAlls, sendAlls + 1}
  BY DEF Types, AddToAutosend
<1>. QED
  BY <1>4, <1>5, SentFinite DEF SendAllsBounded

\* A protocol released, and a step after which no more events are there.
LEMMA SentAsMany ==
    ASSUME Types, Types', SendAllsBounded, sendAlls' <= sendAlls, Sent \subseteq Sent'
    PROVE  SendAllsBounded'
<1>1. IsFiniteSet(Sent') /\ Cardinality(Sent') \in Nat
  <2>1. Sent' \subseteq Protocol
    BY DEF Sent, Types, ToSet
  <2>. QED
    BY <2>1, ProtocolAssumption, FS_Subset, FS_CardinalityType
<1>2. Cardinality(Sent) <= Cardinality(Sent')
  BY <1>1, FS_Subset
<1>3. sendAlls \in Nat /\ sendAlls' \in Nat
  BY DEF Types
<1>. QED
  BY <1>1, <1>2, <1>3, SentFinite DEF SendAllsBounded

LEMMA LoginBounded ==
    ASSUME Inv, Types', SendAllsBounded, NEW p \in Protocol, Login(p)
    PROVE  SendAllsBounded'
<1>1. Types /\ Queued("login", p, 1) /\ 1 \in 1..Len(tasks)
  BY TakenTask DEF Login, Inv, Queued
<1>2. ~OnList(p) /\ p \notin released
  BY <1>1 DEF Inv, UnstartedFresh, Unstarted, Fresh, OnList, ReleasesLast
<1>3. UNCHANGED sending \/ AddToAutosend(p)
  BY DEF Login, LoginNew, LoginTakeover
<1>4. CASE UNCHANGED sending
  <2>1. sendAlls' <= sendAlls /\ Sent \subseteq Sent'
    BY <1>1, <1>4 DEF Login, sending, Sent, Types
  <2>. QED
    BY <1>1, <2>1, SentAsMany
<1>. QED
  BY <1>1, <1>2, <1>3, <1>4, SentMore DEF Login

LEMMA StepBounded == Inv /\ SendAllsBounded /\ [Next]_vars => SendAllsBounded'
<1>. SUFFICES ASSUME Inv, SendAllsBounded, [Next]_vars PROVE SendAllsBounded'
  OBVIOUS
<1>1. Types /\ Types'
  BY StepInv DEF Inv
<1>2. CASE \E p \in Protocol : Login(p)
  BY <1>1, <1>2, LoginBounded
<1>3. CASE \E p \in Protocol : Release(p)
  <2>1. PICK p \in Protocol : Release(p)
    BY <1>3
  <2>2. ToSet(autosend') = ToSet(autosend) \ {p} /\ released' = released \cup {p}
    BY <2>1, RemovedFromList DEF Release, Inv, ReleasedNotAutosent
  <2>3. sendAlls' <= sendAlls /\ Sent \subseteq Sent'
    BY <1>1, <2>1, <2>2 DEF Release, Sent, Types
  <2>. QED
    BY <1>1, <2>3, SentAsMany
<1>4. CASE UNCHANGED <<autosend, released>> /\ sendAlls' <= sendAlls
  <2>1. Sent \subseteq Sent'
    BY <1>4 DEF Sent
  <2>. QED
    BY <1>1, <1>4, <2>1, SentAsMany
<1>5. CASE SendAll
  BY <1>1, <1>4, <1>5 DEF SendAll, Types
<1>6. CASE UNCHANGED <<sending, released>>
  BY <1>1, <1>4, <1>6 DEF sending, Types
<1>7. CASE \/ \E p \in Protocol :
                \/ Accept(p) \/ ParsePacket(p) \/ PostLogout(p) \/ Close(p) \/ Expire(p)
                \/ (\E c \in Character : OnRecvFirstMessage(p, c)) \/ PostLogin(p)
                \/ ConnectDue(p) \/ RunConnect(p) \/ Logout(p)
                \/ PingTimeout(p) \/ KickPlayer(p) \/ Death(p)
           \/ \E s \in States \cup {"NORMAL"} : SetGameState(s)
           \/ Stop \/ Shutdown \/ Terminate
  BY <1>6, <1>7 DEF Accept, ParsePacket, PostLogout, Close, Expire, OnRecvFirstMessage, PostLogin,
        Stop, Shutdown, Terminate, ConnectDue, RunConnect, Logout, PingTimeout, KickPlayer, Death, SetGameState
<1>8. CASE UNCHANGED vars
  BY <1>6, <1>8 DEF vars
<1>. QED
  BY <1>2, <1>3, <1>5, <1>7, <1>8 DEF Next

-----------------------------------------------------------------------------
(* The results.                                                            *)

\* Every variable keeps to its values; sendAll is never scheduled more often than
\* there are protocols (outputmessage.cpp, addProtocolToAutosend).
THEOREM TypeCorrect == Spec => []TypeOK
<1>1. Init => SendAllsBounded
  <2>. SUFFICES ASSUME Init PROVE SendAllsBounded
    OBVIOUS
  <2>. QED
    BY InitInv, SentFinite DEF Init, Inv, SendAllsBounded
<1>2. Inv /\ SendAllsBounded => TypeOK
  <2>. SUFFICES ASSUME Inv, SendAllsBounded PROVE TypeOK
    OBVIOUS
  <2>1. Cardinality(Sent) <= Cardinality(Protocol) /\ Cardinality(Protocol) \in Nat
    BY SentFinite, ProtocolAssumption, FS_Subset, FS_CardinalityType DEF Inv
  <2>2. sendAlls \in 0..Cardinality(Protocol)
    BY <2>1, SentFinite DEF Inv, Types, SendAllsBounded
  <2>. QED
    BY <2>2 DEF Inv, Types, TypeOK
<1>. QED
  BY <1>1, <1>2, Invariance, StepBounded, PTL DEF Spec

\* Whoever logs in, takes over, dies, is kicked or loses its connection, a player's
\* client and a protocol's player are each other's, and the network thread finds
\* the player of a packet it has begun to parse (protocolgame.cpp, connect and
\* release).
THEOREM ClientsArePlayersOwn == Spec => []ClientAndPlayerAgree
BY Invariance, PTL DEF Inv

\* removeProtocolFromAutosend leaves nothing of a released protocol on the list,
\* because nothing adds one twice or after its release.
THEOREM ReleasedIsForgotten == Spec => []ReleasedNotAutosent
BY Invariance, PTL DEF Inv

\* No login is left without an answer: a connection has packets accepted or closes,
\* its credentials are looked at, a task is queued or an event due that will be, or
\* the shutdown that is queued cuts it off; although a stopped dispatcher deletes what
\* is posted to it (tasks.cpp, addTask).
THEOREM LoginsAreAnswered == Spec => []AnswerOnItsWay
BY Invariance, PTL DEF Inv

\* closeAll is run once and leaves out no connection that has sent a login, nor can
\* one be sent behind it (game.cpp, setGameState and shutdown).
THEOREM ShutdownLeavesNobody == Spec => []ShutdownCutsEverybody
<1>1. Inv => ShutdownCutsEverybody
  <2>. SUFFICES ASSUME Inv, ~Accepts, \A i \in DOMAIN tasks : tasks[i].run # "shutdown"
                PROVE  CutOff
    BY DEF ShutdownCutsEverybody, CutOff
  <2>1. ~ShutdownQueued
    BY LenProperties DEF Inv, Types, ShutdownQueued, Queued
  <2>. QED
    BY <2>1 DEF Inv, Ending, Accepts
<1>. QED
  BY <1>1, Invariance, PTL

=============================================================================
