------------------------------ MODULE Session ------------------------------
(***************************************************************************)
(* Logging in and out: ProtocolGame in src/src/protocolgame.cpp, the       *)
(* players of the game it attaches to, and the auto-send list of           *)
(* src/src/outputmessage.cpp.                                              *)
(*                                                                         *)
(* A protocol lives on a connection (network thread); login, connect,      *)
(* logout and release run on the dispatcher, in the order they were posted *)
(* in.  login() is called once per protocol, so the player object a login  *)
(* makes is named after its protocol: `client' and `player' both relate    *)
(* protocols to protocols.                                                 *)
(***************************************************************************)
EXTENDS Integers, Sequences, FiniteSets, SequencesExt

CONSTANTS
    Protocol,       \* the protocols, one per connection; also the players they make
    Character,      \* the characters (guid)
    Account,        \* Account[c]: the account of character c
    AlwaysLogin,    \* the characters with PlayerFlag_CanAlwaysLogin
    Gamemasters,    \* the characters whose account is a gamemaster's when they log in
    States,         \* bound: the states setGameState is called with
    MaxLogouts,     \* bound: the logout packets sent
    MaxTasks,       \* bound: other threads post while fewer tasks are queued
    None

ASSUME ProtocolAssumption == IsFiniteSet(Protocol)
ASSUME NoneAssumption == None \notin Protocol \cup Character
ASSUME AlwaysLoginAssumption == AlwaysLogin \subseteq Character
ASSUME GamemastersAssumption == Gamemasters \subseteq Character
ASSUME BoundsAssumption == {MaxLogouts, MaxTasks} \subseteq Nat
ASSUME StatesAssumption == States \subseteq {"CLOSED", "SHUTDOWN"}

VARIABLES
    \* the network side
    conn,           \* conn[p]: the Connection object of p
    closing,        \* connections whose close() the dispatcher asked for, or whose
                    \* socket it shut
    authenticating, \* protocols in the midst of onRecvFirstMessage, on the network thread
    parsing,        \* protocols in the midst of parsePacket, on the network thread
    loggedOut,      \* protocols that sent a logout packet, once at most
    \* the dispatcher side
    tasks,          \* Dispatcher::taskList, as far as it is about protocols
    dispatcher,     \* the dispatcher: "stopping" while setGameState has still to stop it
    gameState,      \* Game::gameState
    player,         \* player[p]: ProtocolGame::player
    acceptPackets,  \* the protocols with ProtocolGame::acceptPackets
    eventConnect,   \* eventConnect[p]: the player of the connect event the scheduler holds
    client,         \* client[o]: Player::client
    character,      \* character[p]: the character p logs in
    players,        \* Game::players
    removed,        \* players with isRemoved
    isConnecting,   \* players with Player::isConnecting
    autosend,       \* OutputMessagePool::bufferedProtocols
    sendAlls,       \* the sendAll events the scheduler holds
    released        \* history: the protocols whose release() has run

reading == <<authenticating, parsing, loggedOut>>
network == <<conn, closing, reading>>
serving == <<dispatcher, gameState>>
world == <<client, players, removed>>
session == <<player, acceptPackets, eventConnect, isConnecting, character>>
sending == <<autosend, sendAlls>>
vars == <<network, tasks, serving, session, world, sending, released>>

Maybe(S) == S \cup {None}
Task ==
    [run : {"login", "logout", "connect", "release"}, of : Protocol, for : Maybe(Protocol)]
    \cup [run : {"shutdown", "terminate"}, of : {None}, for : {None}]

TypeOK ==
    /\ conn \in [Protocol -> {"none", "open", "closed", "expired"}]
    /\ {closing, authenticating, parsing, loggedOut, acceptPackets} \subseteq SUBSET Protocol
    /\ {players, removed, isConnecting, released} \subseteq SUBSET Protocol
    /\ tasks \in Seq(Task)
    /\ dispatcher \in {"running", "stopping", "closed", "terminated"}
    /\ gameState \in {"NORMAL"} \cup States
    /\ player \in [Protocol -> Maybe(Protocol)]
    /\ eventConnect \in [Protocol -> Maybe(Protocol)]
    /\ client \in [Protocol -> Maybe(Protocol)]
    /\ character \in [Protocol -> Maybe(Character)]
    /\ autosend \in Seq(Protocol)
    /\ sendAlls \in 0..Cardinality(Protocol)

Init ==
    /\ conn = [p \in Protocol |-> "none"]
    /\ closing = {} /\ authenticating = {} /\ parsing = {} /\ loggedOut = {}
    /\ tasks = <<>>
    /\ dispatcher = "running"
    /\ gameState = "NORMAL"
    /\ player = [p \in Protocol |-> None]
    /\ acceptPackets = {}
    /\ eventConnect = [p \in Protocol |-> None]
    /\ client = [p \in Protocol |-> None]
    /\ character = [p \in Protocol |-> None]
    /\ players = {} /\ removed = {} /\ isConnecting = {}
    /\ autosend = <<>>
    /\ sendAlls = 0
    /\ released = {}

\* Dispatcher::addTask: a task added after stop() is deleted.
Accepts == dispatcher \in {"running", "stopping"}
Push(run, p, o) == tasks' = Append(tasks, [run |-> run, of |-> p, for |-> o])
Post(run, p, o) == IF Accepts THEN Push(run, p, o) ELSE UNCHANGED tasks

Room == Len(tasks) < MaxTasks

\* The dispatcher thread is free for a task.  It has tasks after stop() as well,
\* those added before.
Runs == dispatcher \in {"running", "closed"}

-----------------------------------------------------------------------------
(* The network thread.                                                     *)

Accept(p) ==
    /\ conn[p] = "none"
    /\ conn' = [conn EXCEPT ![p] = "open"]
    /\ UNCHANGED <<closing, reading, tasks, serving, session, world, sending, released>>

\* Mutant: the state of the game is not looked at.
FirstMessageAnytime(p, c) ==
    /\ conn[p] = "open" /\ character[p] = None
    /\ character' = [character EXCEPT ![p] = c]
    /\ authenticating' = authenticating \cup {p}
    /\ UNCHANGED <<conn, closing, parsing, loggedOut, tasks, serving, player,
                   acceptPackets, eventConnect, isConnecting, world, sending, released>>
\* onRecvFirstMessage looks at the state of the game, and then at the credentials
\* in the database ...
OnRecvFirstMessage(p, c) ==
    /\ conn[p] = "open" /\ character[p] = None
    /\ gameState # "SHUTDOWN"
    /\ character' = [character EXCEPT ![p] = c]
    /\ authenticating' = authenticating \cup {p}
    /\ UNCHANGED <<conn, closing, parsing, loggedOut, tasks, serving, player,
                   acceptPackets, eventConnect, isConnecting, world, sending, released>>

\* ... and posts the login, if it accepts them.  What it does when it refuses them,
\* or the game is shutting down, is Close.
PostLogin(p) ==
    /\ p \in authenticating /\ Room
    /\ authenticating' = authenticating \ {p}
    /\ Post("login", p, None)
    /\ UNCHANGED <<conn, closing, parsing, loggedOut, serving, session, world,
                   sending, released>>

\* parsePacket looks at acceptPackets and player ...
ParsePacket(p) ==
    /\ conn[p] = "open" /\ p \notin parsing \cup loggedOut
    /\ Cardinality(parsing \cup loggedOut) < MaxLogouts
    /\ p \in acceptPackets /\ gameState # "SHUTDOWN" /\ player[p] # None
    /\ parsing' = parsing \cup {p}
    /\ UNCHANGED <<conn, closing, authenticating, loggedOut, tasks, serving, session, world,
                   sending, released>>

\* ... and uses the player; here the packet is a logout.
PostLogout(p) ==
    /\ p \in parsing /\ Room
    /\ parsing' = parsing \ {p}
    /\ loggedOut' = loggedOut \cup {p}
    /\ Post("logout", p, None)
    /\ UNCHANGED <<conn, closing, authenticating, serving, session, world, sending, released>>

\* Connection::close on the strand, for whatever reason; not while a packet is
\* being parsed there.
Close(p) ==
    /\ conn[p] = "open" /\ p \notin parsing /\ Room
    /\ conn' = [conn EXCEPT ![p] = "closed"]
    /\ closing' = closing \ {p}
    /\ authenticating' = authenticating \ {p}
    /\ Post("release", p, None)
    /\ UNCHANGED <<parsing, loggedOut, serving, session, world, sending, released>>

\* The last handler of a closed connection is done and the object goes.
Expire(p) ==
    /\ conn[p] = "closed"
    /\ conn' = [conn EXCEPT ![p] = "expired"]
    /\ UNCHANGED <<closing, reading, tasks, serving, session, world, sending, released>>

-----------------------------------------------------------------------------
(* Operations of the dispatcher thread.                                    *)

\* Protocol::disconnect of each protocol in S: the close is posted to its strand.
Disconnect(S) == closing' = closing \cup {p \in S : conn[p] = "open"}

\* Game::removeCreature of each player in S; a removed one is left alone.
RemoveCreature(S) ==
    /\ players' = players \ S
    /\ removed' = removed \cup (S \cap players)

\* Player::kickPlayer, and ProtocolGame::logout(forced) if there is a client:
\* the player removed is the client's.
Kick(S) ==
    LET clients == {client[o] : o \in S} \ {None}
    IN  /\ Disconnect({p \in clients : player[p] # None})
        /\ RemoveCreature({o \in S : client[o] = None} \cup {player[p] : p \in clients})

\* addProtocolToAutosend
AddToAutosend(p) ==
    /\ autosend' = Append(autosend, p)
    /\ sendAlls' = IF autosend = <<>> THEN sendAlls + 1 ELSE sendAlls

\* Mutant: the last protocol is dropped, not the one released.
PopFromAutosend(p) == autosend' = IF autosend = <<>> THEN autosend ELSE Front(autosend)
\* removeProtocolFromAutosend: the last protocol takes its place.
RemoveFromAutosend(p) ==
    LET places == {i \in DOMAIN autosend : autosend[i] = p}
    IN  autosend' = IF places = {} THEN autosend
                    ELSE Front([autosend EXCEPT ![CHOOSE i \in places : TRUE] = Last(autosend)])

\* The conditions of login() on the state of the game, with one_player_on_account
\* set.  Bans, the waiting list and what the database says may refuse as well.
MayEnter(p) ==
    /\ gameState = "CLOSED" => character[p] \in AlwaysLogin
    /\ character[p] \notin Gamemasters =>
         \A o \in players : Account[character[o]] # Account[character[p]]

\* login() of a character that is not in the game: a new player for it.  A
\* refusal leaves the player to the protocol.  A script may kick it at once.
LoginNew(p) ==
    /\ player' = [player EXCEPT ![p] = p]
    /\ client' = [client EXCEPT ![p] = p]
    /\ \/ /\ Disconnect({p})
          /\ UNCHANGED <<acceptPackets, players, removed, sending>>
       \/ /\ MayEnter(p)
          /\ acceptPackets' = acceptPackets \cup {p}
          /\ AddToAutosend(p)
          /\ \/ players' = players \cup {p} /\ UNCHANGED <<removed, closing>>
             \/ removed' = removed \cup {p} /\ Disconnect({p}) /\ UNCHANGED players
    /\ UNCHANGED <<eventConnect, isConnecting>>

\* Mutant: the player is given to p whoever has it.
ConnectAnyway(p, o) ==
    /\ eventConnect' = [eventConnect EXCEPT ![p] = None]
    /\ player' = [player EXCEPT ![p] = o]
    /\ client' = [client EXCEPT ![o] = p]
    /\ isConnecting' = isConnecting \ {o}
    /\ acceptPackets' = acceptPackets \cup {p}
    /\ UNCHANGED closing
\* Mutant: a failed connect leaves the client without an answer.
ConnectSilent(p, o) ==
    /\ eventConnect' = [eventConnect EXCEPT ![p] = None]
    /\ IF o \in players /\ client[o] = None /\ conn[p] # "expired"
       THEN /\ player' = [player EXCEPT ![p] = o]
            /\ client' = [client EXCEPT ![o] = p]
            /\ isConnecting' = isConnecting \ {o}
            /\ acceptPackets' = acceptPackets \cup {p}
       ELSE UNCHANGED <<player, client, isConnecting, acceptPackets>>
    /\ UNCHANGED closing
\* ProtocolGame::connect of p to a player of the game.
Connect(p, o) ==
    /\ eventConnect' = [eventConnect EXCEPT ![p] = None]
    /\ \/ /\ o \notin players \/ client[o] # None
          /\ Disconnect({p})
          /\ UNCHANGED <<player, client, isConnecting, acceptPackets>>
       \/ /\ o \in players /\ client[o] = None
          /\ conn[p] = "expired"
          /\ UNCHANGED <<player, client, isConnecting, acceptPackets, closing>>
       \/ /\ o \in players /\ client[o] = None
          /\ conn[p] # "expired"
          /\ player' = [player EXCEPT ![p] = o]
          /\ client' = [client EXCEPT ![o] = p]
          /\ isConnecting' = isConnecting \ {o}
          /\ acceptPackets' = acceptPackets \cup {p}
          /\ UNCHANGED closing

\* login() of a character whose player o is in the game: its client is cut off,
\* and a second later p connects.  Without replace_kick_on_login, which may be
\* reloaded at any time, p is refused.
LoginTakeover(p, o) ==
    /\ \/ /\ Disconnect({p})
          /\ UNCHANGED <<player, acceptPackets, eventConnect, isConnecting, client, sending>>
       \/ /\ client[o] # None
          /\ Disconnect({client[o]})
          /\ isConnecting' = isConnecting \cup {o}
          /\ eventConnect' = [eventConnect EXCEPT ![p] = o]
          /\ AddToAutosend(p)
          /\ UNCHANGED <<player, acceptPackets, client>>
       \/ /\ client[o] = None
          /\ Connect(p, o)
          /\ AddToAutosend(p)
    /\ UNCHANGED <<players, removed>>

-----------------------------------------------------------------------------
(* The dispatcher thread.                                                  *)

Takes(run, p) ==
    /\ Runs
    /\ tasks # <<>> /\ Head(tasks).run = run /\ Head(tasks).of = p
    /\ tasks' = Tail(tasks)

InGame(c) == {o \in players : character[o] = c}     \* getPlayerByGUID

Login(p) ==
    /\ Takes("login", p)
    /\ \/ InGame(character[p]) = {} /\ LoginNew(p)
       \/ \E o \in InGame(character[p]) : LoginTakeover(p, o)
    /\ UNCHANGED <<conn, reading, serving, character, released>>

\* The scheduler's event is due and its task is posted; then connect() runs.
ConnectDue(p) ==
    /\ eventConnect[p] # None /\ Room
    /\ \A i \in DOMAIN tasks : ~(tasks[i].run = "connect" /\ tasks[i].of = p)
    /\ Post("connect", p, eventConnect[p])
    /\ UNCHANGED <<network, serving, session, world, sending, released>>

RunConnect(p) ==
    /\ Takes("connect", p)
    /\ Connect(p, Head(tasks).for)
    /\ UNCHANGED <<conn, reading, serving, character, players, removed,
                   sending, released>>

\* The tile, a fight or a script may forbid it to a player in the game.
Logout(p) ==
    /\ Takes("logout", p)
    /\ \/ /\ player[p] = None \/ player[p] \notin removed
          /\ UNCHANGED <<closing, players, removed>>
       \/ /\ player[p] # None
          /\ Disconnect({p})
          /\ RemoveCreature({player[p]})
    /\ UNCHANGED <<conn, reading, serving, session, client, sending, released>>

Release(p) ==
    /\ Takes("release", p)
    /\ IF player[p] # None /\ client[player[p]] = p
       THEN /\ client' = [client EXCEPT ![player[p]] = None]
            /\ player' = [player EXCEPT ![p] = None]
       ELSE UNCHANGED <<client, player>>
    /\ RemoveFromAutosend(p)
    /\ released' = released \cup {p}
    /\ UNCHANGED <<network, serving, acceptPackets, eventConnect, isConnecting, character,
                   players, removed, sendAlls>>

\* Player::sendPing: no pong for too long.
PingTimeout(o) ==
    /\ Runs /\ o \in players \ isConnecting
    /\ LET p == client[o] IN
       IF p = None THEN UNCHANGED closing /\ RemoveCreature({o})
       ELSE /\ Disconnect(IF player[p] = None THEN {} ELSE {p})
            /\ RemoveCreature({o, player[p]})
    /\ UNCHANGED <<conn, reading, tasks, serving, session, client, sending, released>>

\* A player kicked for being idle or by a god.
KickPlayer(o) ==
    /\ Runs /\ o \in players
    /\ Kick({o})
    /\ UNCHANGED <<conn, reading, tasks, serving, session, client, sending, released>>

\* A dead player leaves the game and keeps its client.
Death(o) ==
    /\ Runs /\ o \in players
    /\ RemoveCreature({o})
    /\ UNCHANGED <<network, tasks, serving, session, client, sending, released>>

KickedBy(s) ==
    CASE s = "NORMAL"   -> {}
      [] s = "CLOSED"   -> {o \in players : character[o] \notin AlwaysLogin}
      [] s = "SHUTDOWN" -> players

\* Game::setGameState.  Its shutdown stops the dispatcher last of all, and what other
\* threads post until then is accepted; what they post while it kicks and saves is
\* behind the task of the shutdown here, and may as well have been posted before it.
SetGameState(s) ==
    /\ Runs
    /\ gameState \notin {"SHUTDOWN", s}
    /\ gameState' = s
    /\ Kick(KickedBy(s))
    /\ IF s = "SHUTDOWN" THEN Push("shutdown", None, None) /\ dispatcher' = "stopping"
                         ELSE UNCHANGED <<tasks, dispatcher>>
    /\ UNCHANGED <<conn, reading, session, client, sending, released>>

Stop ==
    /\ dispatcher = "stopping"
    /\ dispatcher' = "closed"
    /\ UNCHANGED <<network, tasks, gameState, session, world, sending, released>>

\* Game::shutdown closes the sockets of all connections, whose reads then fail, and
\* adds the task that ends the dispatcher although it is stopped.
Shutdown ==
    /\ Runs
    /\ tasks # <<>> /\ Head(tasks).run = "shutdown"
    /\ tasks' = Append(Tail(tasks), [run |-> "terminate", of |-> None, for |-> None])
    /\ Disconnect(Protocol)
    /\ UNCHANGED <<conn, reading, serving, session, world, sending, released>>

Terminate ==
    /\ Takes("terminate", None)
    /\ dispatcher' = "terminated"
    /\ UNCHANGED <<network, gameState, session, world, sending, released>>

\* sendAll schedules itself again unless nobody is left to send for; the task of an
\* event that is due after the stop is deleted.
SendAll ==
    /\ sendAlls > 0
    /\ \/ Runs /\ sendAlls' = IF autosend = <<>> THEN sendAlls - 1 ELSE sendAlls
       \/ ~Accepts /\ sendAlls' = sendAlls - 1
    /\ UNCHANGED <<network, tasks, serving, session, world, autosend, released>>

-----------------------------------------------------------------------------

Next ==
    \/ \E p \in Protocol :
        \/ Accept(p) \/ ParsePacket(p) \/ PostLogout(p) \/ Close(p) \/ Expire(p)
        \/ (\E c \in Character : OnRecvFirstMessage(p, c)) \/ PostLogin(p)
        \/ ConnectDue(p) \/ Login(p) \/ RunConnect(p) \/ Logout(p) \/ Release(p)
        \/ PingTimeout(p) \/ KickPlayer(p) \/ Death(p)
    \/ \E s \in States \cup {"NORMAL"} : SetGameState(s)
    \/ Stop \/ Shutdown \/ Terminate
    \/ SendAll

Spec == Init /\ [][Next]_vars

-----------------------------------------------------------------------------
(* Properties.                                                             *)

\* Player::client and ProtocolGame::player always point at each other, whatever
\* takeovers, deaths and releases did: no player has a client that believes to
\* play another one or none.  Kicking rests on it: kickPlayer() of a player with
\* a client removes the client's player, and the loop of setGameState() repeats
\* until the player it kicks is gone.  And the dispatcher never resets player while
\* the network thread, which tests it in parsePacket and uses it later without a
\* lock, is in between.
ClientAndPlayerAgree ==
    /\ \A p, o \in Protocol : client[o] = p <=> player[p] = o
    /\ \A p \in parsing : player[p] # None

\* A protocol is on the auto-send list at most once, and not after its release:
\* the list would keep it alive for ever.
ReleasedNotAutosent ==
    /\ IsInjective(autosend)
    /\ \A p \in released : p \notin ToSet(autosend)

\* Every login is answered, also one that waits for another connection's character
\* to become free, and one whose answer is deleted because setGameState has stopped
\* the dispatcher: until the client gets to play or is being disconnected, the network
\* thread still has its credentials, a task or an event that may still be posted will
\* answer it, or the shutdown is still to come and will cut it off.
AnswerOnItsWay ==
    \A p \in Protocol : character[p] # None /\ conn[p] = "open" =>
        \/ p \in acceptPackets \cup closing \cup authenticating
        \/ eventConnect[p] # None /\ Accepts
        \/ \E i \in DOMAIN tasks : tasks[i].of = p /\ tasks[i].run \in {"login", "connect"}
        \/ \E i \in DOMAIN tasks : tasks[i].run = "shutdown"

\* Once Game::shutdown has run, every connection that ever sent a login is cut off,
\* whoever of them got into the game behind the kicks of setGameState and whatever
\* the network thread was doing: none can come after closeAll, which is not repeated.
ShutdownCutsEverybody ==
    ~Accepts /\ (\A i \in DOMAIN tasks : tasks[i].run # "shutdown") =>
        \A p \in Protocol : character[p] # None /\ conn[p] = "open" => p \in closing

=============================================================================
