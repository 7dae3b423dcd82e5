-------------------------------- MODULE Market --------------------------------
(***************************************************************************)
(* The market: the handlers of src/src/game.cpp and the store of           *)
(* src/src/iomarket.cpp.  An offer is a row of the database that holds     *)
(* what its maker gave for it, goods or money.  Players in the game are    *)
(* in memory, the others in the database; what is theirs must go to the    *)
(* right copy.  Offers that are too old are asked for on the database      *)
(* thread, and refunded later by what the answer says.                     *)
(*                                                                         *)
(* There is one kind of goods and one price; cash and the bank, and the    *)
(* depot and the inbox, are one.  Being near the market, the number of     *)
(* offers of a player, the fee and the history are left out, and players   *)
(* are loaded and saved without fail.                                      *)
(***************************************************************************)
EXTENDS Traders, Integers, Sequences, FiniteSets, FiniteSetsExt, Functions

CONSTANTS
    Account,    \* of each player
    Wealth,     \* the money and the goods of each at first
    Amount,     \* that may be offered
    Price,
    MaxOffers,  \* bound: offers made
    MaxChecks   \* bound: expiry queries under way

\* What a player has, what it may offer, and the rows of the expiry query
Holding == [money : Nat, goods : Nat]
Offer == [player : Player, type : {"buy", "sell"}, amount : Nat \ {0}]
Id == 1..MaxOffers
Row == [id : Id, offer : Offer]

ASSUME MarketAssumption ==
    /\ IsFiniteSet(Player)
    /\ None \notin Holding /\ None \notin Offer
    /\ Wealth \in [Player -> Holding]
    /\ Amount \subseteq Nat \ {0}
    /\ Price \in Nat \ {0} /\ MaxOffers \in Nat /\ MaxChecks \in Nat

VARIABLES
    up,         \* whether the server runs
    inGame,     \* the players in the game with what they have, the others None
    stored,     \* what the database says of each player
    offers,     \* market_offers, None where there is none
    lastId,     \* its AUTO_INCREMENT
    aged,       \* offers up to this one are older than MARKET_OFFER_DURATION
    queries,    \* the expiry queries with DatabaseTasks, by the offer they go up to
    answers     \* their rows, on the way to the dispatcher

players == <<inGame, stored>>
table == <<offers, lastId>>
expiry == <<aged, queries, answers>>
marketVars == <<up, players, table, expiry>>

MarketInit ==
    /\ up = TRUE
    /\ inGame = [p \in Player |-> None]
    /\ stored = Wealth
    /\ offers = [i \in Id |-> None]
    /\ lastId = 0
    /\ aged = 0
    /\ queries = <<>>
    /\ answers = <<>>

-----------------------------------------------------------------------------

Online(p) == inGame[p] # None

Login(p) ==
    /\ up /\ ~Online(p)
    /\ inGame' = [inGame EXCEPT ![p] = stored[p]]
    /\ UNCHANGED <<up, stored, table, expiry>>

Logout(p) ==
    /\ up /\ Online(p)
    /\ stored' = [stored EXCEPT ![p] = inGame[p]]
    /\ inGame' = [inGame EXCEPT ![p] = None]
    /\ UNCHANGED <<up, table, expiry>>

\* What the copies s of the players are when p gets, or with a negative number
\* gives, money or goods: in the game, or in the database if p is offline.
Copies == [inGame |-> inGame, stored |-> stored]
Gets(s, p, what, n) ==
    IF s.inGame[p] # None THEN [s EXCEPT !.inGame[p][what] = @ + n]
    ELSE [s EXCEPT !.stored[p][what] = @ + n]

Players(s) == inGame' = s.inGame /\ stored' = s.stored

\* What an offer holds per piece
Pledge(type) == IF type = "sell" THEN [what |-> "goods", each |-> 1]
                ELSE [what |-> "money", each |-> Price]
Pledged(s, p, type, n) == Gets(s, p, Pledge(type).what, Pledge(type).each * n)

CreateMarketOffer(p, type, n) ==
    /\ up /\ Online(p)
    /\ inGame[p][Pledge(type).what] >= Pledge(type).each * n
    /\ lastId < MaxOffers
    /\ lastId' = lastId + 1
    /\ Players(Pledged(Copies, p, type, -n))
    /\ offers' = [offers EXCEPT ![lastId'] = [player |-> p, type |-> type, amount |-> n]]
    /\ UNCHANGED <<up, expiry>>

CancelMarketOffer(p, i) ==
    /\ up /\ Online(p)
    /\ offers[i] # None /\ offers[i].player = p
    /\ Players(Pledged(Copies, p, offers[i].type, offers[i].amount))
    /\ offers' = [offers EXCEPT ![i] = None]
    /\ UNCHANGED <<up, lastId, expiry>>

\* deleteOffer or acceptOffer
Remaining(i, n) ==
    LET left == offers[i].amount - n
    IN  offers' = [offers EXCEPT ![i] = IF left = 0 THEN None ELSE [@ EXCEPT !.amount = left]]

MayAccept(p, i, n) ==
    /\ up /\ Online(p)
    /\ offers[i] # None
    /\ Account[offers[i].player] # Account[p]
    /\ n <= offers[i].amount

\* p sells: the goods it gives are put in its own inbox, not in the buyer's.  A
\* buyer who is not in the game is loaded into a null pointer.
AcceptBuyOffer(p, i, n) ==
    /\ MayAccept(p, i, n) /\ offers[i].type = "buy"
    /\ inGame[p].goods >= n
    /\ IF Online(offers[i].player)
       THEN /\ Players(Gets(Gets(Gets(Copies, p, "goods", -n), p, "money", Price * n), p, "goods", n))
            /\ Remaining(i, n)
            /\ UNCHANGED <<up, lastId, expiry>>
       ELSE up' = FALSE /\ UNCHANGED <<players, table, expiry>>

\* Mutant: what is paid goes to the database, whether the seller is in the game or not.
AcceptSellOfferStored(p, i, n) ==
    /\ MayAccept(p, i, n) /\ offers[i].type = "sell"
    /\ inGame[p].money >= Price * n
    /\ LET paid == Gets(Gets(Copies, p, "money", -Price * n), p, "goods", n)
       IN  Players([paid EXCEPT !.stored[offers[i].player].money = @ + Price * n])
    /\ Remaining(i, n)
    /\ UNCHANGED <<up, lastId, expiry>>
AcceptSellOffer(p, i, n) ==
    /\ MayAccept(p, i, n) /\ offers[i].type = "sell"
    /\ inGame[p].money >= Price * n
    /\ Players(Gets(Gets(Gets(Copies, p, "money", -Price * n), p, "goods", n),
                    offers[i].player, "money", Price * n))
    /\ Remaining(i, n)
    /\ UNCHANGED <<up, lastId, expiry>>

-----------------------------------------------------------------------------
(* Expiry.                                                                 *)

Age ==
    /\ up /\ aged < lastId
    /\ aged' = aged + 1
    /\ UNCHANGED <<up, players, table, queries, answers>>

\* The scheduler's event; it schedules itself again.  The query names the date.
CheckExpiredOffers ==
    /\ up /\ Len(queries) + Len(answers) < MaxChecks
    /\ queries' = Append(queries, aged)
    /\ UNCHANGED <<up, players, table, aged, answers>>

\* Mutant: created before the date, not at it.
ExpiredBefore(date) == {[id |-> i, offer |-> offers[i]] : i \in {j \in 1..date - 1 : offers[j] # None}}
Expired(date) == {[id |-> i, offer |-> offers[i]] : i \in {j \in 1..date : offers[j] # None}}

\* The database thread executes a query and posts its callback.
RunQuery ==
    /\ up /\ queries # <<>>
    /\ queries' = Tail(queries)
    /\ answers' = Append(answers, Expired(Head(queries)))
    /\ UNCHANGED <<up, players, table, aged>>

\* moveOfferToHistory: the rows whose offer there still is
Movable(rows) == {r \in rows : offers[r.id] # None}

\* The refund is of the amount in the row.
ProcessExpiredOffers ==
    /\ up /\ answers # <<>>
    /\ LET rows == Movable(Head(answers)) IN
       /\ offers' = [i \in Id |-> IF \E r \in rows : r.id = i THEN None ELSE offers[i]]
       /\ Players(FoldSet(LAMBDA r, s : Pledged(s, r.offer.player, r.offer.type, r.offer.amount),
                          Copies, rows))
    /\ answers' = Tail(answers)
    /\ UNCHANGED <<up, lastId, aged, queries>>

-----------------------------------------------------------------------------

MarketNext ==
    \/ \E p \in Player : Login(p) \/ Logout(p)
    \/ \E p \in Player, n \in Amount :
        \/ \E type \in {"buy", "sell"} : CreateMarketOffer(p, type, n)
        \/ \E i \in Id : AcceptBuyOffer(p, i, n) \/ AcceptSellOffer(p, i, n)
    \/ \E p \in Player, i \in Id : CancelMarketOffer(p, i)
    \/ Age \/ CheckExpiredOffers \/ RunQuery \/ ProcessExpiredOffers

\* Time passes, the scheduler, the database thread and the dispatcher run.
MarketFairness == WF_marketVars(Age) /\ WF_marketVars(CheckExpiredOffers) /\ WF_marketVars(RunQuery) /\ WF_marketVars(ProcessExpiredOffers)

MarketSpec == MarketInit /\ [][MarketNext]_marketVars /\ MarketFairness

-----------------------------------------------------------------------------
(* Properties.                                                             *)

MarketTypeOK ==
    /\ up \in BOOLEAN
    /\ inGame \in [Player -> Holding \cup {None}]
    /\ stored \in [Player -> Holding]
    /\ offers \in [Id -> Offer \cup {None}]
    /\ lastId \in 0..MaxOffers /\ aged \in 0..lastId
    /\ queries \in Seq(0..MaxOffers)
    /\ answers \in Seq(SUBSET Row)

Has(p) == IF Online(p) THEN inGame[p] ELSE stored[p]

\* What of it n pieces of an offer hold, and the offer, if there is one
Pieces(type, what, n) == IF Pledge(type).what # what THEN 0 ELSE Pledge(type).each * n
Worth(offer, what) == IF offer = None THEN 0 ELSE Pieces(offer.type, what, offer.amount)

\* All there is of what, with the players and in the offers
Total(what) ==
    SumFunction([p \in Player |-> Has(p)[what]]) + SumFunction([i \in Id |-> Worth(offers[i], what)])

\* What was taken from the offers of the answer after the database read them
TakenSince(what) ==
    SumFunction([r \in {r \in Head(answers) : offers[r.id] # None} |->
                    Pieces(r.offer.type, what, r.offer.amount - offers[r.id].amount)])

\* No goods and no money appear or vanish, whoever is in the game when an offer is
\* made, accepted, cancelled or expires, and however these overlap: an offer is
\* refunded once.  Except that an offer accepted in part while the answer was on its
\* way is refunded in full: the surplus is exactly what was accepted.
Balanced ==
    [][\A what \in {"goods", "money"} :
        Total(what)' = Total(what)
            + (IF Len(answers') < Len(answers) THEN TakenSince(what) ELSE 0)]_marketVars

\* Every offer ends: it is accepted, cancelled, or found to be too old.
OffersEnd == \A i \in Id : offers[i] # None ~> (offers[i] = None \/ ~up)
=============================================================================
