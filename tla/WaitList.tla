------------------------------ MODULE WaitList ------------------------------
(***************************************************************************)
(* The waiting list of a full server: clientLogin in                       *)
(* src/src/protocolgame.cpp, which ProtocolGame::login asks whether a      *)
(* character may enter.  0 lets it in; any other answer is its place, and  *)
(* the client asks again later.  An entry has a deadline, renewed at every *)
(* visit; here an entry is `stale' once its deadline has passed.           *)
(*                                                                         *)
(* priorityEnd is an iterator into a deque.  What the list does to itself  *)
(* invalidates it, and inserting at an invalid iterator is undefined: here *)
(* the entry then goes anywhere in the list.                               *)
(***************************************************************************)
EXTENDS Integers, Sequences, FiniteSets, SequencesExt

CONSTANTS
    Client,     \* the characters (guid)
    Premium,    \* those with premium time
    Privileged, \* those that always enter: CanAlwaysLogin, or a gamemaster
    MaxPlayers  \* config max_players; 0 is no limit

ASSUME ClientAssumption == Premium \subseteq Client /\ Privileged \subseteq Client
ASSUME MaxPlayersAssumption == MaxPlayers \in Nat

VARIABLES
    waitList,       \* the deque
    priorityEnd,    \* the place the iterator points to, 0 if it is invalid
    online          \* the characters in Game::players

waitListVars == <<waitList, priorityEnd, online>>

Entry == [guid : Client, stale : BOOLEAN]

WaitListTypeOK ==
    /\ waitList \in Seq(Entry)
    /\ priorityEnd \in 0..Len(waitList) + 1
    /\ online \in SUBSET Client

WaitListInit ==
    /\ waitList = <<>>
    /\ priorityEnd = 1
    /\ online = {}

Guids(list) == {list[i].guid : i \in DOMAIN list}
PlacesOf(list, c) == {i \in DOMAIN list : list[i].guid = c}         \* findClient
Fresh(e) == ~e.stale
NewEntry(c) == [guid |-> c, stale |-> FALSE]

\* The iterator after the entries at places S of a list are erased one by one:
\* an erasure at either end leaves the others' iterators valid, one in the
\* middle leaves none.
EndAfterErase(list, end, S) ==
    LET front == CHOOSE a \in 0..Len(list) : 1..a \subseteq S /\ a + 1 \notin S
    IN  IF S = {} THEN end
        ELSE IF end \in S \/ end = 0 \/ ~(S \subseteq (1..front) \cup {Len(list)}) THEN 0
        ELSE end - front

\* The places where emplace(priorityEnd, ...) may put an entry.
EmplacePlaces(list, end) == IF end = 0 THEN 1..Len(list) + 1 ELSE {end}

-----------------------------------------------------------------------------
(* clientLogin: what it may leave and answer.                              *)

\* Mutant: expired entries stay on the list.
PurgeNothing == [list |-> waitList, end |-> priorityEnd]
\* The fresh entries of a list, in their order: the k-th of them at place k.
FreshEntries(list) ==
    LET fresh == {i \in DOMAIN list : Fresh(list[i])}
    IN  [k \in 1..Cardinality(fresh) |->
            list[CHOOSE i \in fresh : Cardinality(fresh \cap (1..i)) = k]]

\* Expired entries are erased, wherever they are and whoever they belong to.
Purge ==
    [list |-> FreshEntries(waitList),
     end  |-> EndAfterErase(waitList, priorityEnd,
                            {i \in DOMAIN waitList : waitList[i].stale})]

\* Mutant: a client is let in whenever one place is free.
HasRoomForOne(slot) == Cardinality(online) < MaxPlayers
\* There is capacity for the client in this slot and for everyone before it.
HasRoom(slot) == Cardinality(online) + slot <= MaxPlayers

\* A client on the list: it enters, or waits a bit longer.
Returning(list, end, c) ==
    {IF HasRoom(slot)
     THEN [list |-> RemoveAt(list, slot), end |-> EndAfterErase(list, end, {slot}), slot |-> 0]
     ELSE [list |-> list, end |-> end, slot |-> slot] : slot \in PlacesOf(list, c)}

\* A client that is new on the list.  The answer for a premium client is the
\* distance of its entry from the first one: its place minus one.
Arriving(list, end, c) ==
    IF c \in Premium
    THEN {[list |-> InsertAt(list, at, NewEntry(c)), end |-> at, slot |-> at - 1]
              : at \in EmplacePlaces(list, end)}
    ELSE {[list |-> Append(list, NewEntry(c)), end |-> 0, slot |-> Len(list) + 1]}

EntersAtOnce(c) ==
    \/ c \in Privileged
    \/ MaxPlayers = 0
    \/ waitList = <<>> /\ Cardinality(online) < MaxPlayers

ClientLogin(c) ==
    IF EntersAtOnce(c)
    THEN {[list |-> waitList, end |-> priorityEnd, slot |-> 0]}
    ELSE IF c \in Guids(Purge.list) THEN Returning(Purge.list, Purge.end, c)
    ELSE Arriving(Purge.list, Purge.end, c)

-----------------------------------------------------------------------------

\* ProtocolGame::login of a character that is not online.  After the answer 0
\* loading or placing the character may still fail.
Login(c) ==
    /\ c \notin online
    /\ \E answer \in ClientLogin(c) :
        /\ waitList' = answer.list
        /\ priorityEnd' = answer.end
        /\ IF answer.slot = 0
           THEN online' \in {online, online \cup {c}}
           ELSE UNCHANGED online

Leave(c) ==
    /\ c \in online
    /\ online' = online \ {c}
    /\ UNCHANGED <<waitList, priorityEnd>>

\* The deadline of an entry passes: its client did not ask again in time.
Expire(i) ==
    /\ ~waitList[i].stale
    /\ waitList' = [waitList EXCEPT ![i].stale = TRUE]
    /\ UNCHANGED <<priorityEnd, online>>

WaitListNext ==
    \/ \E c \in Client : Login(c) \/ Leave(c)
    \/ \E i \in DOMAIN waitList : Expire(i)

Waiting(c) == \E i \in PlacesOf(waitList, c) : ~waitList[i].stale

\* Clients whose entries are fresh keep asking, and nobody stays for ever.
WaitListFairness ==
    \A c \in Client : WF_waitListVars(Waiting(c) /\ Login(c)) /\ WF_waitListVars(Leave(c))

WaitListSpec == WaitListInit /\ [][WaitListNext]_waitListVars /\ WaitListFairness

-----------------------------------------------------------------------------
(* Properties.                                                             *)

\* A regular client that is let in takes no place from those ahead of it, premium
\* clients or not: all of them could enter next.  (One that was not on the list
\* had the whole list ahead.)
NobodyOvertaken ==
    \A c \in (online' \ online) \ (Privileged \cup Premium) :
        LET ahead == {i \in DOMAIN waitList :
                         /\ ~waitList[i].stale
                         /\ \A j \in 1..i : waitList[j].guid # c}
        IN  MaxPlayers # 0 => Cardinality(online') + Cardinality(ahead) <= MaxPlayers

\* Nobody has two entries, and two clients that keep theirs keep their order,
\* whatever is erased around them and wherever others are inserted.
OrderKept ==
    \A i, j \in DOMAIN waitList : \A k, l \in DOMAIN waitList' :
        /\ i < j
        /\ waitList[i].guid = waitList'[k].guid
        /\ waitList[j].guid = waitList'[l].guid
        /\ ~waitList[i].stale /\ ~waitList[j].stale
        => k < l

\* Clients enter in turn and stay in line, at every step.
TurnsKept == [][NobodyOvertaken /\ OrderKept]_waitListVars

\* A client that keeps asking in time does not wait for ever: it is let in, for
\* entries leave the list in no other way.  That is, unless premium clients keep
\* coming, which are put before it.
PremiumStayAway == <>[](\A c \in Premium \cup Privileged : c \notin online /\ ~Waiting(c))
WaitingEnds == PremiumStayAway => \A c \in Client : Waiting(c) ~> ~Waiting(c)

=============================================================================
