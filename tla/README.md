# Verification of the BlackTek server

TLA+ models of the BlackTek game server (`src/src`, C++), the TLC runs that check them
on small instances, and TLAPS proofs of the properties that matter most. The server is a
fork of The Forgotten Server: one process, a few threads, and a game world that all
players share. `PROJECT.json` lists the components, runs, mutants, hazards and theorems,
and for every definition the lines of the source it models.

## The system

### Threads

| thread | runs | code |
|---|---|---|
| network (main) | `ServiceManager::run`: the io_context of all sockets, connection timers and signals | `server.cpp`, `connection.cpp`, `signals.cpp` |
| dispatcher | every task of game logic, one at a time | `tasks.cpp` |
| scheduler | the timers of delayed tasks; hands them to the dispatcher | `scheduler.cpp` |
| database | asynchronous queries; hands their callbacks to the dispatcher | `databasetasks.cpp` |
| utility | a second dispatcher for one kind of Lua request | `luascript.cpp` |

The game state has no lock. It is safe because only the dispatcher touches it; what the
other threads want done they submit as tasks. Three objects are shared by design and
locked: the queues of the dispatcher and of the database thread, and the manager of
connections. The database connection has a recursive mutex.

### Components, their state and what makes them correct

| component | state | operations | correct when |
|---|---|---|---|
| Dispatcher | `taskList`, the batch being run, `threadState` | `addTask`, `stop`, `shutdown`, the thread | no lost wakeup, nothing lost or repeated, order kept, drained at the end |
| Database tasks | `tasks`, the query in hand, `threadState` | `addTask`, `flush`, `shutdown`, the thread | each query runs once, none is left behind |
| Scheduler | `lastEventId`, `eventIdTimerMap`, posted handlers | `addEvent`, `stopEvent`, expiry, `shutdown` | each task has one owner; a stop reaches only its own event |
| Connection | `closed`, socket, `messageQueue`, two timers, `protocol` | accept, read, send, close, timeouts, `closeAll` | released once, one write at a time, graceful close delivers, silent peers are dropped |
| Session (`ProtocolGame`, auto-send) | `player`, `eventConnect`, `Player::client`, `Player::isConnecting`, the auto-send list | `login`, `connect`, `logout`, `release`, `sendPing`, `setGameState` | player and client name each other, every login is answered, a released protocol has no player, a shutdown cuts everybody off |
| Waiting list | the list, the end of its premium part | `clientLogin`, expiry | the limit is kept, nobody is overtaken, waiting ends |
| Database | the connection, its mutex, the open transaction | `beginTransaction`, `commit`, `rollback`, queries | transactions of two threads do not mix |
| Trade | the two partners, their items and states | request, accept, look, close | both items change hands or none |
| Market | offers in the database, items and money of players | create, cancel, accept, expire | goods and money are conserved, every offer ends |
| Party | leader, members, invitations | invite, join, leave, pass leadership, disband | membership is symmetric, a party has a leader |
| Guild | members online, bank balance | login, logout, `setGuild` | who is counted as online is in the game and in the guild |
| House, bed | owner, access lists, transfer item, rent, sleeper | buy, transfer, kick, rent, sleep, wake | one owner, one sleeper per bed |
| Think cycle | the slots' lists, flags of the creatures | `addCreatureCheck`, `removeCreatureCheck`, the cycle | who is to think is in a list |
| Creatures, monsters | targets, prey, whom to follow, master, asleep or not | place, move, remove, die, think, summon | what each keeps of the others is true |
| Spawn | its monsters, the check event | check, cleanup, startup | a missing monster is looked for |
| Raid | raid events, the raid running | start, next, reset, reload | one raid at a time |
| Chat | channels, their users and guests | open, close, create, invite, exclude, reload | nobody offline in a channel |
| Containers, item movement | items and their parents, stack counts, weights, open windows | `internalMoveItem`, `internalAddItem`, `queryAdd`, `addThing`, `removeThing` | no item is lost or duplicated, sums and limits hold, windows are in reach |
| Player persistence | the player's rows | `loadPlayer`, `savePlayer` | a save is all or nothing |
| Start-up, shutdown | states of the holders, of the game and of the service manager | main, loader task, signals | the process starts serving, and ends |
| Combat, conditions, NPCs, map | positions, conditions, paths | ticks and events | mostly arithmetic and geometry |
| Lua binding | a stack | one function per operation above | a binding layer, no behaviour of its own |

They meet in four ways: tasks on the dispatcher; delayed tasks whose event ids are kept in
fields (`eventWalk`, `eventConnect`, `checkSpawnEvent`, ...) and reset by the task;
callbacks of asynchronous queries; and direct calls between game objects.

### What is hard here

* Wakeups, batches and drains of the two queues, and their order at shutdown.
* Delayed tasks that cannot be stopped any more although their holder believes they can.
* A connection closed from five sides at once, with messages pending.
* Protocol and player objects outliving each other: a login that continues a second later
  on a connection that has closed meanwhile.
* Operations on two players that fail half-way (trade), or on a player and the database,
  which are saved at different times (market).
* Queries of the network thread falling into a transaction of the dispatcher.
* A shutdown that stops the dispatcher while logins are on their way: what is added after it
  is deleted.
* What is kept twice and updated by events: a party and its members, a target and its
  hunters, a master and its summons, a list and the flag that one is on it.
* Answers of asynchronous queries that are out of date when they are used (market).

`PROJECT.json` lists these as hazards, each at the line where it bites.

## Plan

What is done is described in the next section.

1. `TaskQueue`, `Dispatcher`: the queue everything else rests on; proved to implement the
   abstract queue. Done.
2. `DatabaseTasks`: the second queue, drained by two threads; safety proved. Done.
3. `Scheduler`: delayed tasks and cancellation; safety proved. Done.
4. `Connection`: the life of a connection; its safety invariants proved. Done.
5. `Session`, `WaitList`: login, delayed connect, logout, release, ping, auto-send; the
   waiting list of a full server; safety proved. Done.
6. `Database`: transactions on the connection shared by two threads; all or nothing, proved.
   Done.
7. `Trade`, `Market`: goods and money between players; safety proved. Done.
8. `Party`, `Guild`, `Chat`, composed by `Community`; safety proved. Done.
9. `ThinkCycle`, `Creatures`, `Spawn`, composed by `World`; safety proved. Done.
10. `Cylinders`: things, what holds them, and how they are moved. Done for containers, tiles,
    hands and backs; safety proved.
11. `Lifecycle`: start-up and shutdown of all holders together; `House`, `Bed`, `Raid`,
    persistence, walking.

Abstract specifications worth stating next: a mailbox of delayed tasks for the scheduler, a
reliable ordered stream for the connection, atomic exchange for the trade. All
safety properties of the runs are proved; the theorems worth stating next are those of these
refinements.

## The modules

### TaskQueue, Dispatcher, DispatcherProofs

`Dispatcher` models `tasks.cpp`. `taskList` and `tmpTaskList` are the two vectors,
`threadState` is the field of `ThreadHolder`, `worker` says where `threadMain` stands. A
critical section of `taskLock` is one action: `AddTask` (with its two outcomes `Push` and
`Refuse`), `Shutdown`, `Wait`, `TakeBatch`. What happens outside the lock is a step of its
own: the test of the state (`CheckState`), the run of each task (`RunTask`), the
`notify_one` that follows the unlock in `addTask` (`Signal`). A condition variable may wake
for no reason (`SpuriousWake`). A task with an expiration time may be dropped instead of
run; time itself is not modelled.

`TaskQueue` says what a caller may rely on: accepted in some order, handled in that order,
nothing accepted after the close but the stop task. `Dispatcher` implements it with
`open <- threadState = "RUNNING"`.

Run. `dispatcher`: two producers of two tasks each, which is enough for a producer to be
overtaken between unlock and signal by the other one and by the thread, and for a batch to
fill while another runs.
Fairness: the thread is scheduled and a producer that left the lock reaches its
`notify_one`; nobody has to call anything.

Proofs (`DispatcherProofs`), for any set of producers and any `MaxTasks`: `TypeCorrect`,
`WakeupNeverLost`, `NothingEverLost`, `ExitDrained`, `DispatcherImplementsQueue`.
`NoLostWakeup` is not inductive alone: it needs that a producer is signalling only after a
push, that the thread is woken by each signal, and that the batch is empty while the thread
waits. `ExitDrained` rests on the position of the stop task: after `stop()` nothing is
accepted behind it. The refinement uses `NothingLost`: the head of the batch is the element
of `accepted` that follows `handled`. Liveness is model-checked only.
Assumptions: `MaxTasks` is positive, the stop task is no other task.

### DatabaseTasks, DatabaseProofs

The queue of `databasetasks.cpp`, drained by the database thread (one query per turn, run
outside the lock) and by the dispatcher thread in `flush` and `shutdown`. `inHand` holds
the query each of the two has taken; running it (`WorkerQuery`, `FlushQuery`) and posting
its callback (`WorkerPost`, `FlushPost`) are steps of their own. `mustSave`, `accepted`,
`queried` and `posted` are history.

Run. `databasetasks`: the dispatcher thread and one other caller (bans are checked on the
network thread), two queries each. `ExecutedOnce` also says how far `flush` breaks the order
(`OvertakenOnlyInHand`): when it returns, one query may still be in the other thread's hand.
Nothing says that the thread ends, for it may not (see below). Deadlock is not checked: a
stopped server stops.

Proofs (second half of `DatabaseProofs`; the specification is `QueueSpec`), for any set of
callers and any `MaxTasks`: `QueueTypeCorrect`, `QueriesExecutedOnce`, and `FlushLeavesOne`, which says what `Game::saveGameState` gets from
`flush()`: when it returns, every query accepted before is executed but at most one. The
invariant divides `accepted` into what was taken from the list and the rest: the list is the
end of `accepted` (`ListIsRest`), each query before it was executed or is in a hand
(`TakenAreExecuted`), the two hands hold different queries of that part (`HandsAgree`), and
the numbers fit (`CountsAgree`). The last is what makes "once" of "at least once".
Assumptions: `MaxTasks` is positive, the dispatcher thread is one of the callers, no query is
`NoTask`.

### Scheduler, DispatcherProofs

`scheduler.cpp`. `addEvent` and `stopEvent` post handlers (`ops`), which the scheduler
thread runs in order together with the completions of timers. `timers` is
`eventIdTimerMap`; `Expire` is the passing of time, after which a timer's wait cannot be
cancelled any more. `NextId` wraps at `IdCount`, 2^32 in the code: `addEvent` is called
with ids that may still be in use.

Run. `scheduler` with three events and two ids: one event can expire while another is stopped
and the third, whose id collides with that of the first, is armed. `NoForeignStop` counts the
events made, since a stop after the wrap-around may hit the event that got the same id.
Fairness: the thread runs its handlers and delays end.

Proofs (second half of `DispatcherProofs`; the specification is `SchedulerSpec`), for any set of
events and any number of ids: `SchedulerTypeCorrect`, `TasksHaveOneOwner` and `StopsReachTheirOwn`. `OneOwner` is inductive with the types: each
step moves an event from one place to another and leaves the counts of all others, also the
one that takes over the timer of a colliding id, for it queues the completion of the wait it
cancels.
`NoForeignStop` needs more: as long as no more events were made than there are ids, ids
differ (`IdsDiffer`), the timer of an id belongs to the event that got it (`TimersOwn`), a
posted stop bears the id of an event whose owner asked for it (`StopsAsked`), and a cancelled
completion is of such an event (`AbortsAsked`).
Assumptions: `IdCount` is positive, `NoEvent` is no event.

### Connection

`connection.cpp` and `ServicePort::onAccept`. Everything runs on the strand of the
connection, so a handler is one action, and a call from another thread is `posted` and run
later. `conn` is the `Connection` object; `Close`, `Send`, `InternalSend` are functions
from the connection before to the connection after, so that handlers compose them as the
code does: `ParsePacket` has the ends of the handler, among them a protocol that disconnects
on the strand, before the next read is started all the same, with a message sent or without,
and the read that cannot be started (`catch`). The `catch` of `internalSend`, which closes by
force, leads where `WriteFails` does and is left out. `ready` holds the operations that completed although their handler has not run,
`{"fired"}` a timer whose handler is queued. The peer may send, read, stall or vanish.
`closeAll` closes sockets from the dispatcher thread, off the strand; it is modelled as one
step, the data race on the socket object itself is not.

Run. `connection`: three messages, two closes, two packets.
Fairness: the network thread runs what is ready and timers expire; the peer owes nothing.
Only `ClosedSocketCloses` is about a peer that keeps reading, which is its premise.
Deadlock is not checked: a destroyed connection does nothing.

Proofs (`ConnectionProofs`), for any set of messages and any bounds: `TypeCorrect`,
`ProtocolReleasedOnce`, `WritesAreSerial`, `StreamOrdered`, `GracefulCloseLosesNothing`,
`WaitsAreTimed`. One invariant carries them. `Sound` is a predicate on the connection record
alone (types, one release, one write, timers), shown once for `Close`, `Send` and
`InternalSend`, whatever handler composes them. `Accounted` says that delivered and queued
messages together are the ones sent, until a cut drops the rest; it is what makes
`GracefulCloseDelivers` inductive, for a connection is destroyed only with an empty queue.
`AlwaysReading` and `Quiet` say that an accepted connection keeps a read outstanding until
it is closed, and that a destroyed one has nothing outstanding.

### Session, SessionProofs

Logging in and out, `protocolgame.cpp`. The network thread accepts, parses and closes; what
it wants done on the dispatcher it posts to `tasks`, which is the task list of `Dispatcher`
as far as it is about protocols. `login()` runs once per protocol, so the player object it
makes has the protocol's name, and `client` and `player` are both functions from protocols
to protocols. Each task is one action that makes all the calls of the handler: `Login`
(`LoginNew`, or `LoginTakeover` when the character is in the game), `RunConnect`, `Logout`,
`Release`; so are `PingTimeout`, `KickPlayer`, `Death` and `SetGameState`. `ConnectDue` is
the scheduler's event. `Protocol::disconnect` only asks for a close (`closing`), which the
network thread executes later (`Close`); `Expire` is the destruction of the `Connection`
object.

What the network thread reads and uses later is two actions: `OnRecvFirstMessage` looks at the
state of the game, the queries of the credentials follow, and `PostLogin` posts the login;
`ParsePacket` looks at `acceptPackets` and `player`, `PostLogout` uses them. `Post` is
`addTask`, which deletes what is added once the dispatcher is stopped. `SetGameState` to the
shutdown kicks everybody and queues the task of the shutdown; then comes `Stop`, until which
other threads may still post (`dispatcher = "stopping"`); what was queued runs on (`"closed"`);
`Shutdown` closes all sockets and queues the task that ends the thread, which `Dispatcher`
lets in although it is stopped (`Terminate`).

The loop of `setGameState`, which kicks and starts again, is modelled as one kick of
everybody: it ends because a kick removes the very player it was meant for, which is
`ClientAndPlayerAgree`. `one_player_on_account` is taken to be set, from which gamemasters are
exempt (`Gamemasters`); clones and the account manager are left out.

Run. `session`: three connections, so that two takeovers can be pending for one player, two
characters of one account, one of which is a gamemaster's and may always log in, and a game that
closes, opens and shuts down; connections are symmetric. One client may log out (`MaxLogouts`),
and other threads post while fewer than three tasks are queued (`MaxTasks`), one for each
connection: a thread that waits does so with what it has read. `AnswerOnItsWay` is what a
login owes its client: until the client plays or is cut off, its credentials are being looked
at, a task is queued or an event due that will answer it, or, where the stopped dispatcher
deleted its task, the shutdown is still queued. `ShutdownCutsEverybody` is the second half of
that: the shutdown closes the sockets once, and leaves out nobody. Its mutant is an
`onRecvFirstMessage` that does not look at the state of the game: a client then waits, after
the one `closeAll`, for an answer to a task that was deleted. Deadlock is not checked: every
connection may end.

Proofs (`SessionProofs`), for any finite set of connections, any characters and accounts and any
bounds: `TypeCorrect`, `ClientsArePlayersOwn`, `ReleasedIsForgotten`, `LoginsAreAnswered`,
`ShutdownLeavesNobody`. None of the properties is inductive. What they miss is which tasks
of a protocol may be queued together: one login at most (`LoginsOnce`), none while its
credentials are looked at (`AuthenticatingNew`), one connect, and only
while its event is set (`ConnectsOnce`), and a release behind the login and after the close
(`ReleasesLast`); that a protocol whose login has not run has touched nothing
(`UnstartedFresh`); that a protocol that waits to connect has no player
(`WaitingHaveNone`); and that from the stop on the task of the shutdown is queued or everybody
who sent a login is being cut off (`Ending`): nobody can become a case of it later, for the
state of the game never leaves the shutdown. The bound on pending calls of `sendAll`, in the
types, is counted apart: each stands for another protocol that was put on the auto-send list.
Assumptions: the connections are finitely many, `None` is neither a connection nor a
character, `AlwaysLogin` and `Gamemasters` are characters, the bounds are natural numbers.

### WaitList (proofs in ConnectionProofs)

`clientLogin` and its list. An answer is a record of the list, the iterator and the place it
leaves; `ClientLogin` is the set of the possible answers, composed of `Purge`, `Returning`
and `Arriving` as the function is. What `Purge` leaves is stated by place (`FreshEntries`): the
k-th entry is the fresh one with k fresh ones up to it. Deadlines are abstracted: an entry turns stale at any
time (`Expire`), and a visit renews nothing but what the code renews. `priorityEnd` is the
place of the iterator, 0 once an operation of the deque has invalidated it; an insertion at
an invalid iterator, which is undefined, goes anywhere in the list.

Run. `waitlist`: three regular clients, a premium and a privileged one, and a limit of two:
clients wait, expire and are let in out of turn. What holds there holds wherever the iterator
inserts. Regular clients overtake nobody; they do not wait for ever if premium clients do not
keep coming.
Fairness: a client with a fresh entry asks again, and nobody plays for ever.

Proofs (the last part of `ConnectionProofs`), for any clients, premium, privileged or not, and any
limit: `TurnsAreKept`, the action property of the run, and `WaitListTypeCorrect`. An action
property follows from what an invariant says of the state before; here (`WaitListInv`) that no
client has two entries, that the iterator is invalid or at a place of the list or its end, and that
finitely many play. `SoundAnswer` is what each answer of `clientLogin` owes: a sound list, in which
those that stay keep their order, and, if it lets a regular client in, room for all that were ahead.
The order is by rank: `FreshRanked` is that the k-th entry after a purge is the fresh entry of rank
k before it, and `RankGrows` that ranks grow with places, so a purge keeps the order, and what
follows it keeps that (`InOrderThroughPurge`). `FewAhead` is that the entries ahead of a client
are fewer than its place after the purge. `Inserted` and `Removed` say where the others are when
one is put in anywhere or taken out. Assumptions: premium and privileged clients are clients, the
limit is a natural number (0 is none).

### Database, DatabaseProofs

`database.cpp` and `DBTransaction`, between the dispatcher thread that saves and the network
thread that queries. `lock` is the recursive mutex; `game` and `net` say where each thread
stands. A save is `Begin`, `Began`, `LockTransaction`, one `ExecuteQuery` per statement, then
`Commit` or `Rollback`; the lock is given back between `BEGIN` and the transaction, as in the
code. The MySQL session is external: it commits each statement outside a transaction, undoes
the open one when the connection is lost, and the client library reconnects but for once in
a transaction. `Ignored` are the statements whose failure `savePlayer` does not look at.

Run. `database`: three saves of three statements against two queries, with the connection
lost twice, statements failing and `BEGIN` refused. `disturbed` are the saves during which
the connection was lost: such a save may be stored without its beginning although it returns
true, since the statements after the reconnection commit one by one; `SavedIsStored` and
`FailedLeavesNothing` say that no other save is harmed. After a refused `BEGIN` the
destructor rolls back without the lock, on a handle that the network thread may be using.
Deadlock is not checked: the saves and the queries are bounded.
Fairness: both threads go on; the mutex is taken to be fair (SF) to a thread that waits.

Proofs (`DatabaseProofs`), for any number of statements, saves, queries and losses and any
set of ignored statements: `TypeCorrect`, `SavesAreAlone`, `FailedSavesLeaveNothing`,
`SavesAreStored`. `LockHeld` says at which places each thread has the mutex: the dispatcher
not after a refused `BEGIN`, where its rollback does not find itself the owner. With
`PendingIsSave` (the open transaction has writes of the save under way only) it gives
`WritesTogether`. The two properties of the saves need `SaveInTransaction`: until the
connection is lost, nothing of the save under way is stored, its transaction is open on both
sides, and every statement passed is in it or ignored; and `FutureUntouched`, for a new save
must not find writes under its name.

### Trade, TradeProofs

The trade of two players, `game.cpp`, and what closes it, `player.cpp`. `state`, `partner` and
`tradeItem` are the fields of `Player`, `tradeItems` is the registry of `Game`, `parent` where
each item lies. `RequestTrade` is an offer or the counter offer; `AcceptTrade` is the whole
handler, with the exchange when the partner has accepted already. `Exchanged` is the set of
outcomes of its two moves: `Fits` is the test (`internalAddItem`), which merges stacks, `Given`
the move, which does not. Where only one side made an offer and both accepted, the
handler ends the trade, for `internalAddItem` refuses what is missing; but if the offer is the
backpack that its owner wears, it first reads the missing item through a null pointer
(`game.cpp:2973`, `2977`). Such a run stops where that of the model ends the trade. `Disturbed` are the players whose trade a move of an item closes
(`checkTradeState` and the notifications of containers, inventory and tile). A move is the
whole of an item; inventories are places, and weight, slots, distance and scripts may refuse
anything. The players stand around one tile.

Run. `trade`: three players, so that a third one can offer, take or walk into what two are
trading; two bags, one of which fits into the other, and two stacks; two places for a player
and one in a bag, so that room runs out. Players are symmetric, as are the stacks. The run is
of safety only: nobody has to trade. Deadlock is not checked: everybody may leave.

Proofs (`TradeProofs`), for any number of players and finitely many items: `TypeCorrect`,
`PartnersAgree`, `AcceptedOffersStand` and `BothOrNone`. `TradesAgree` is not inductive: that
an exchange gives both items or none rests on where the items lie when the second player
accepts. The invariant adds that nobody trades with himself or without a partner
(`NoneAlone`), that containers do not hold themselves (`Rooted`), and that the item a player
offers is near to him (`OffersNear`). The last one holds because a move that leaves a trade open
moves nothing at or above the item (`Undisturbed`). What lies above an item is the least closed
set of containers, so that an induction along a chain is the choice of a set: `AboveLinear`,
`TopUnique`, `NotInItself`. The exchange moves one item after the other: `RoomRemains` is
that the first move leaves the second its place. Assumptions: items, players, the ground and
`None` are different things; which of the items hold others or stack is any.

### Traders, Market (proofs in TradeProofs)

`Traders` declares the players and the null pointer, for `Trade` and `Market` alike.

The market handlers of `game.cpp` and `iomarket.cpp`. `offers` is the table; `inGame` is what
the players in the game have, `stored` what the database says of each. `Gets` adds to the copy
that counts, as the handlers do by `getPlayerByGUID`; `Pledge` is what an offer holds, goods or
money. `CheckExpiredOffers` builds the query, `RunQuery` is the database thread that executes
it, `ProcessExpiredOffers` the callback, which refunds by the rows of the answer. Handlers are
one step: each makes a single change of the table. One kind of goods, one price, no fee; cash
and bank, depot and inbox are one; a player who is not near a depot, the limit on offers and
the history are left out, and players load and save without fail.

`AcceptBuyOffer` is the code as it is: the goods are put in the inbox of the player who gives
them, and a buyer who is not in the game is loaded into a null pointer, which ends the server
(`up`).

Run. `market`: two characters, one with money and one with goods, two offers of up to two
pieces, so that one can be accepted in part, and two expiry queries under way at a time, so that
their answers overlap. `Balanced` is about every step: the goods and the money there are, with
players in memory or in the database and in offers, stay the same, but for the refund of an
offer that was accepted in part since the query read it.
Fairness: time passes, and the scheduler, the database thread and the dispatcher run. Deadlock
is not checked: the server may be gone.

Proofs (the last part of `TradeProofs`), for any finite set of players, any accounts, wealth and
amounts, any price, and any bound on offers and queries: `MarketBalanced`, the action property of
the run, and `MarketTypeCorrect`, by which nobody has less than nothing. The invariant `MarketInv`
adds to the types that there is no offer beyond `lastId` and that the rows of every answer under way
are of different offers, each as it was but for its amount, or gone since (`ReadFrom`). The rest is
about sums. `Held` is what the players have, by which copy counts, and `InOffers` what the offers
hold; a handler changes one summand of each (`OneOffer`), or, on accepting, those of two players.
An expiry changes many: its refunds are a fold over the rows, of which `RefundsHeld` says that it
adds what the rows are worth, and `WithoutHolds` that the offers lose as much, but for what was
taken from them since. Both are inductions on a subset of the rows: of the sets that are not good
there is a smallest (`SubsetInduction`), and one row more keeps it good. That a fold over a finite
set exists, and that a sum is one (`SumMore`), is derived from the definitions of the community modules.
Assumptions: players are finitely many, `None` is neither a player nor what a player has or an
offer, at first nobody has less than nothing, amounts and the price are positive.

### Players, Party, Guild, Chat, Community, CommunityProofs

`Players` is the set of players in the game. `Party` models `party.cpp` and its callers in
`game.cpp`: `parties` are the `Party` objects, `party[p]` and `invitePartyList[p]` the fields of
`Player`. Leaving, disbanding, passing the lead and taking back an invitation call each other;
each is a function from the parties and players before to those after, and an action makes the
whole chain. `Updated` is `updateSharedExperience`, where the code calls it; who has fought lately
(`fought`) is the map of ticks, without the time.

`Guild` is who is online in which guild, kept by both sides. `ChangeGuild` is `setGuild` as it
should be; `ForsakeGuild` is its early return, when the new guild has no rank of level 1
(`Ranked` are those that have): the player has no guild then, and the old one is not told and
keeps the player on its list, after a logout too (`None` is such an object). `forsaken` is
history: the guilds that were not told. `Chat` has the channels of a party, a
guild, a player and of the configuration with their users and guests; ids of private channels
and what is said are left out. `Community` composes them: a logout leaves party, guild and
channels in the order of `Player::onRemoveCreature`, and leaving a party closes its channel
(`ClosePartyChannel`), after the party is forgotten, as in the code.

Run. `community`: three players, which is enough for a leader, a member and somebody invited,
two parties, two guilds, one without a rank of level 1, and a channel of each kind. `MaxActive`
bounds what there is at a time of parties, listeners, guests, members of guilds on their lists,
forsaken guilds and recent fights: three in all, which lets a guest listen to a private channel
(owner, invitation, guest) and a guild keep a player that has moved on and logged out. A second
private channel is beyond it, and is in the theorem only. Players are symmetric. The run is of
safety only.

`PartiesAgree` relates parties and players. `ListenersPresent` is `ChannelsKept`, for channels,
and `MembersOnline`, for guilds: each has its members in the game on its list, and nobody else
unless it was forsaken. `SharingIsEarned` is about every step: a party begins to share
experience, or goes on with other players than before, only while everybody in it has fought
lately; its mutant is a member who joins unseen.

Proofs (`CommunityProofs`), for any players, guilds and channels and any bounds:
`ListenersAreThere`, `PartiesStayTogether` and `SharingWasEarned`. The properties of guilds and
channels are inductive with their types. `PartiesAgree` is not: while the handlers call each
other it does not hold, and an operation has to be known to be right for states that are only
half done. So the proof is about the operators from state to state. `Sound` says of each party, also
of one about to be disbanded, that its members are different from each other and from the
leader and bear its id, that whoever bears it is one of them or the leader and that the leader
does then, and that it and its guests name each other. A lemma for each
operation (`Disbands`, `LeftSound`, `UninvitedSound`, `ClearedSound`, `InvitedSound`,
`JoinedSound`, ...) says that it leads from sound states to sound states and lets nobody come
to a party who is not there (`Within`); `SoundElsewhere` does the parties an operation does not
touch, once for all. The step of a handler is then a composition of lemmas.
`SharingWasEarned` follows from what each step does to a party (`Granted`): it is a new one, one
that was looked at again, or one that shares no more and with no other players than before.
Assumptions: `None` is no player and no guild, `Premium` are players, `Ranked` are guilds, and
those of `Party` on its bounds.

### ThinkCycle, Creatures, Spawn, World, WorldProofs

`ThinkCycle` models who thinks: `slots` are the lists, `listed` the creatures with
`inCheckCreaturesVector`, `creatureCheck` the flag. A cycle is a sequence of turns, between
which whatever a turn causes happens. `draw` has the slots that `normal_random` is about to give
new creatures. `Creatures` has what `creature.cpp` and `monster.cpp` keep
of the others: `attacked`, `follow`, `master`, `targets`, `idle`. An operation is a function from
a state of the world, a record, to the next, so that handlers compose them: `Moved` is
`Map::moveCreature` with all the calls it makes of those who see it, `Removed` is
`Game::removeCreature` with the summons. `Spawn` has the blocks of one spawn and its check.
`World` composes them: the handlers of players, deaths and moves, which happen at any time, also
in the midst of a cycle, and `Monster::onThink`.

Two creatures see each other if they are at the same place. Where the code asks for a path, a
distance, a chance or an interval, the model leaves the outcome open: a hunter takes any target
or none, a summon may fail to take its master's prey, a block may be due or not. Invisible
creatures, protection zones, friends and conditions are left out. A monster object may be used
again once nothing refers to it.

Run. `world`: a player and three monsters, so that one hunts, one serves the player and one is
summoned by another or comes from the spawn; two places, one with a spawn of one block; two
slots of the think cycle, and one summon each. Monsters are symmetric. With two slots all new
creatures go to the second, and `addCreatureCheck` may add to the list that is being walked,
which with twenty only a new creature does. The run is of safety only.

Proofs (`WorldProofs`), for any players and monsters, finitely many of both, any places,
blocks and slots: `TypeCorrect`, `MonstersHunt`, `PreyIsSeen`, `MissingChecked`. The invariant
is stated of a state `s`, as the operations are, for a handler is several of them and a property
must hold between any two. `Minds` says of each creature that it is flagged exactly if it is in
a slot, and in one only, that all that are to think are flagged (`Listing`), that a monster that
is awake is to think (`Thinking`), and that one that sleeps has no targets (`IdleEmpty`).
`Hunting` says that a monster has every player it sees for a target, `Preying` that nobody
attacks or follows what it does not see, `Mastered` that a summon is in the game, with its
master, and that a master is no summon: that is why a removal takes the summons along and stops
there. `Hunting` has a parameter, the monsters it leaves out: a summon whose master goes is for
a moment a monster that sees the player it served and does not hunt it. `Mastered` has one too,
the masters that are about to go. In the invariant both are empty.

Each operation has a lemma for what it does to the fields (`...Types`) and one for what it
keeps of the invariant (`...Keeps`), and the branches of `Monster::onThink` are chained by
`Leads`: from a sound state to a sound one in which no monster of the spawn is missing
unnoticed. Removing or killing the summons of a creature one by one is a fold. The prover
has no induction over data, but a property fixed by a set is enough here: of the subsets of a
finite set, a smallest one that is not good cannot exist if goodness passes from all smaller
sets (`SubsetInduction`). From it follow that the recursive function of the fold exists
(`FoldExists`), and that what one step keeps the fold keeps (`FoldKeeps`).

`MonstersHunt` assumes `RemoveOnDespawn`, the default of the code: with the option off a monster
is put to sleep beside a player (see below), and TLC shows the property to fail. The other three
hold either way. Assumptions: no player is a monster, the creatures are finitely many, `None` is
neither creature nor place, every block has a place, and there are two slots or more.

### Cylinders, CylindersProofs

Things and what holds them: `Game::internalMoveItem`, `internalAddItem`, `internalRemoveItem` and
`internalPlayerAddItem`, over the queries and changes of `container.cpp`, `tile.cpp` and
`player.cpp`. The state is kept twice, as in the code: `parent` is what a thing knows, `itemlist`
and `inventory` what its holder knows; `totalWeight` and `inventoryWeight` are the sums that
containers and players keep. `openContainers` are the windows of a player. An operation is a
function from the state before, a record of the variables, to the state after: `Settled` is the
loop over `queryDestination`, `MoveTo` the answers of `queryAdd` with the exchange, `MovedPieces`
the removal, the merge and the rest, `PostRemoveNotification` and `PostAddNotification` the weight
and the windows of whoever is told. `InternalAddItem` has the rounds that the function makes of
itself for what a stack does not take.

Left out: locked containers, quivers, depots, inboxes, store items, hangable things, browse
fields, scripts that refuse a move, and things in trade (`Trade` has those). All stackable things
are of one kind. A move that is refused changes nothing and is no step.

Run. `cylinders`: a bag and a pouch that go into each other, an axe for both hands, two stacks of
at most two pieces and three pieces in all, so that a merge can leave a rest; room for two things;
hands only, since a back takes containers just as a hand does; one window for each player (a
container that is open can be put in another that the other player then carries off; the theorem is
about any number of windows); one player that can
carry three pieces (the axe and one more), one that can carry nothing more, for which windows and
the ground remain; two tiles out of reach of each other. Stacks, containers and tiles are
symmetric (only the initial state tells them apart, which a symmetry set need not respect). The
run has `classicEquipmentSlots` on; `HandTakes` has both settings. The run is of safety only.

`ParentsAgree`: both sides of the tree agree, and it is a tree. `NothingLost`: the pieces are those
that scripts gave and did not take. `WeightsAgree`: the sums are right at every depth, and nobody
carries more than it can. `FitsWhereItIs`: no container is overfull, and two hands hold one
two-handed weapon or a bow with its quiver. `OpenInReach`: what is open can be reached.

Proofs (`CylindersProofs`), for any players, tiles and things, finitely many of each, and any size
of containers and stacks: `TypeCorrect`, `ParentsStayAgreed`, `WindowsStayInReach`, `NothingIsLost`,
`WeightsStayRight` and `EverythingFits`, every property of the run. As in `WorldProofs` the invariant is stated of a state, for a move is several steps between which it does not hold: a thing
removed from one cylinder is nowhere until it is added to the other. `Good` says that the fields
have their types, that each thing is exactly once in the list or slot of its parent and nowhere
else (`Agrees`), that of the containers in any set one is in none of the set (`Rooted`, which says
that the containers form a tree without counting steps), that whatever is no stack is somewhere
(`Placed`) and that a stack in the world has between one and `Full` pieces (`Counted`). The last two
are needed for the first: a move adds what it removed, and creates a stack only for pieces that are
left. `addThing`, `updateThing` and `removeThing` each have a lemma (`Added`, `Updated`, `Removed`)
under conditions that the queries must establish: `queryAdd` keeps a container out of what it holds,
`queryMaxCount` is at most the room that there is, and the destination on which the loop of
`internalMoveItem` settles is one that takes the thing at the index it was given (`addThing` of
player and container ignore other indexes, and the thing would be gone). `InternalMoveItemKept`
puts them together, for all three outcomes, the exchange included, and says that the number of
pieces is the same. `InReach` says of each window that its
container is carried by the player or lies where it stands; that it is kept rests on two facts: only
what is in the moved container changes its holder, and those who could see it before are the ones
that `postRemoveNotification` tells. `Chain`, `Settled`, the sums and the rounds are recursive
functions: that they exist, and what they preserve, follows from smallest counterexamples, of a
number (`UpTo`) or of a subset of a finite set.

`NothingIsLost` adds to the invariant that `made`, what scripts gave less what they took, is the sum
of the pieces of the stacks in the world. The hard part is `internalAddItem`. It puts what is left
of a merge in a round of its own, and what the third round or a later one cannot put is forgotten
(`Remainder`), so that the theorem holds only because no round after the first is ever refused
(`InternalAddItemLeaves`). The first has asked `queryMaxCount` whether the player has room for all
of it, and each merge takes as much room as it takes pieces (`PlayerLess`: slot by slot and bag by
bag, nothing else gets less room by it, for fewer pieces are lighter and no slot asks how many they
are, `Filled`, `FewerAdd`, `SlotAny`). So what is left always has room (`Ready`); and where there is
room, the destination that `queryDestination` finds is one that takes it (`NoPlaceNoRoom`,
`PlaceTakes`), for the bags that it goes through are all those whose room was counted
(`BagsComplete`). There are no more rounds than stacks, for each but the last fills one (`Fulls`).
What the first round refuses is reported and goes to the ground, where all of it finds a place
(`DropRestLeaves`).

`WeightsStayRight` and `EverythingFits` add `Fair`: containers and players keep the sum (`Load`) of
what is directly in them (`Weighs`, `Bears`), no player's load is above its strength, no list is
longer than `Capacity` (`Snug`), and the hands hold what they may (`Armed`). `Heavier` says that all
that a cylinder is in, and nothing else, got heavier by a difference, in its sum and in the weight
it keeps; every `addThing`, `updateThing` and `removeThing` is `Heavier` along the chain of the
cylinder it changes, and a move is twice `Heavier`, by the same amount in two chains (`Carries`,
`Balance`): no more reaches the player at the top than `hasCapacity` allowed. The weight that a
player keeps is computed anew only by the two notifications, so that it is wrong during a move, and
between the rounds of `internalAddItem`, which call none: `Laden` says that the player bears all
that is still to be put, which the first round was asked for as a whole (`FirstLaden`) and each
round keeps (`GivenFair`). Later rounds ask `hasCapacity` with the old weight; the theorem needs
only what the first was told. Two hands need more than `FitsWhereItIs`, which is not inductive without
the classic slots: the left hand then asks only whether what comes is for two hands, and not whether
the right one holds such a thing; `Hands` adds that the right one holds only shields and quivers.
An exchange is between a slot and a container or tile. Halfway what was in the way and the thing to
be moved are both there, and a container may hold one too many (`Exchanged`); the second half is
let in (`ExchangeTakes`) and takes the thing away, or a part of a stack, and then the container had
room (`ExchangeRoom`).

Assumptions: things, players and tiles are different and finitely many; containers and stacks hold
something, and no container as many things as the index that means "move up" (the largest of
`items.toml` holds 60, the index is 254); both hands are slots.

## Findings

No comment, test or document of the repository is contradicted by a run. What the passing
properties exclude by their premises is worth knowing:

* The only `notify_one` of `DatabaseTasks::shutdown` can fall between the state test and the
  unpredicated wait of `threadMain` (`databasetasks.cpp:20`, `87`); the thread is never woken and
  `join` in `main` never returns. The dispatcher does not have the flaw: it is ended by a task,
  not by a state.
* What `internalAddItem` cannot put in its third round or a later one is forgotten: only the
  outermost call has a `remainderCount` that is looked at (`game.cpp:1430`). It needs room that
  `queryMaxCount` counts and `queryDestination` does not find, that of a quiver or of a thing in
  trade, which are left out: `NothingLost` holds without them.
* After 2^32 events `++lastEventId` wraps to 0, the id that means "none"
  (`NoForeignStop` counts the events).
* After a graceful close, `closed` is set and the write timeout's forced close returns at
  once: a peer that stops reading keeps its socket (`ClosedSocketCloses` needs `PeerReads`).
* A login queued behind the change to `GAME_STATE_SHUTDOWN` enters the game after everybody
  has been kicked and saved, for `login()` refuses only a closing or closed game; such a player
  is cut off by `closeAll` and never saved. A login that is posted after the stop is deleted, and
  answered by `closeAll` alone (`AnswerOnItsWay`, `ShutdownCutsEverybody`).
* A `connect()` between the release of its protocol and the end of the `Connection` object makes
  the dead protocol the client of the player (`protocolgame.cpp:330`; the comment under it says
  this is avoided); nothing releases it again. `ClientAndPlayerAgree` and `ReleasedNotAutosent`
  hold all the same.
* A premium client that is first on the waiting list is answered 0, which means that it may
  enter: it does, into a full server (`protocolgame.cpp:133`).
* In a trade, an item that stacks is tested with merging and moved without, and the result of
  the second move is not looked at (`game.cpp:2999`): if the last to accept has room on a
  stack only and offers an item from the ground, it gives that item and gets nothing
  (`ExchangeAllOrNothing` excepts such items).
* A player may accept a trade before the partner has made an offer; the acceptance stays when
  the offer comes (`OfferStands` speaks of offers made before). If both accept without the second
  offer, and the first is a worn backpack, a null pointer is read (`game.cpp:2973`).
* A connection to the database that is lost in the midst of a save comes back outside of the
  transaction (`SavedIsStored` excepts the disturbed save). If `BEGIN` fails, the destructor of
  the transaction rolls back without the lock (`database.h:189`).
* An expired offer that was accepted in part while the answer of the query was on its way is
  refunded in full (`iomarket.cpp:109`; `Balanced` says so).
* Who accepts an offer to buy gets the money and keeps the goods (`game.cpp:6241`); the buyer is
  told of mail and gets nothing. If it is not in the game the server ends (`game.cpp:6212`).
* What is given for an offer leaves the saved player only at the next save, the offer is in the
  database at once (`game.cpp:6098`): a crash in between leaves both.
* Whoever listens to the channel of a party goes on listening after leaving it
  (`player.cpp:5842`), and the end of a member's last fight is noticed only at the next change of
  the party, as `clearPlayerPoints` comes after `setParty(0)`.
* `setGuild` to a guild without a rank of level 1 returns before the old guild is told
  (`player.cpp:6288`): that guild counts the player as online until the server ends, and keeps a
  pointer to it after it is gone. `MembersOnline` excepts the guilds that were forsaken so; the
  database makes three ranks for each guild, so that it takes one whose ranks were deleted there.
* With `remove_on_despawn` off, a monster that strayed is teleported home and put to sleep even
  beside a player (`monster.cpp:826`); the run has the option on, as the code by default.
* A monster that dies has no master any more when the others see it go, so a player's summon
  stays on the lists of its enemies until they look at them the next time (`monster.cpp:619`).
* A block whose monster cannot be placed at start-up gets no check (`spawn.cpp:342`).

## What is only model-checked, and what is not modelled

Proved are the type invariants and every safety property that a run checks: those of `Dispatcher`,
`DatabaseTasks`, `Scheduler`, `Connection`, `WaitList`, `Session`, `Database`, `Community`, `Trade`,
`Market`, `World` and `Cylinders`; no run repeats the type invariants. Only model-checked is
liveness: fairness and ENABLED are outside the prover.

Not modelled, though it could be: houses, beds, raids, the special containers (depots,
inboxes, mailboxes, quivers, trash holders) and teleports, the conditions of creatures, walking,
start-up and shutdown of the process as a whole, and the text of what is saved for a player.
Geometry (paths, visibility), arithmetic on doubles (experience,
damage), parsing and building of packets, SQL text, Lua and the data files are not modelled: they
are data, and the properties here are about control. The Lua binding and the tables of items,
monsters and spells are by far the largest part of the source.
