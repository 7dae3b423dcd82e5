----------------------------- MODULE TradeProofs -----------------------------
(***************************************************************************)
(* Proofs about Trade, for any players, items and room.  The first part is *)
(* about what lies in what: chains of containers, what is at their top,    *)
(* and what a move changes of them.  AboveIn is the least closed set, so   *)
(* that an induction along a chain is a choice of the set.                 *)
(*                                                                         *)
(* And about Market, for any players and offers: what there is of money    *)
(* and goods is a sum over players and offers, of which each handler       *)
(* changes one summand or two (Held, InOffers), and expiry a set of them   *)
(* (WithoutHolds).  The invariant is MarketInv.                            *)
(***************************************************************************)
EXTENDS Trade, Market, SequenceTheorems, FiniteSetTheorems, WellFoundedInduction, TLAPS

Parents == [Item -> Holder]

\* h is the player or the tile that has i.
IsTop(par, i, h) ==
    /\ h \in Player \cup {Ground}
    /\ par[i] = h \/ \E c \in AboveIn(par, i) : par[c] = h

\* Every item is with a player or on the ground, and not in itself.
Rooted(par) == \A i \in Item : \E h : IsTop(par, i, h)

-----------------------------------------------------------------------------
(* Chains of containers.                                                   *)

LEMMA AboveTypes ==
    ASSUME NEW par \in Parents, NEW h
    PROVE  AboveIn(par, h) \subseteq Container /\ AboveIn(par, h) \subseteq Item
BY ItemAssumption DEF AboveIn

LEMMA AboveLeast ==
    ASSUME NEW par \in Parents, NEW h, NEW S \in SUBSET Container,
           Around(par, h) \subseteq S, \A x \in S : Around(par, x) \subseteq S
    PROVE  AboveIn(par, h) \subseteq S
BY DEF AboveIn

\* The chain goes on with what a container lies in.
LEMMA AboveClosed ==
    ASSUME NEW par \in Parents, NEW h
    PROVE  /\ Around(par, h) \subseteq AboveIn(par, h)
           /\ \A x \in AboveIn(par, h) : Around(par, x) \subseteq AboveIn(par, h)
<1>1. Around(par, h) \subseteq Container /\ \A x : Around(par, x) \subseteq Container
  BY DEF Around
<1>. QED
  BY <1>1 DEF AboveIn

LEMMA AboveAbove ==
    ASSUME NEW par \in Parents, NEW h, NEW c \in AboveIn(par, h)
    PROVE  AboveIn(par, c) \subseteq AboveIn(par, h)
BY AboveTypes, AboveClosed, AboveLeast

\* What is around h is the first container of the chain, or above it.
LEMMA AboveFirst ==
    ASSUME NEW par \in Parents, NEW h, NEW c \in AboveIn(par, h)
    PROVE  /\ h \in Item /\ par[h] \in Container
           /\ c = par[h] \/ c \in AboveIn(par, par[h])
<1>. DEFINE S == {x \in Container :
                     h \in Item /\ par[h] \in Container /\ (x = par[h] \/ x \in AboveIn(par, par[h]))}
<1>1. Around(par, h) \subseteq S
  BY DEF Around
<1>2. ASSUME NEW x \in S PROVE Around(par, x) \subseteq S
  <2>1. Around(par, x) \subseteq AboveIn(par, par[h])
    BY AboveClosed
  <2>. QED
    BY <2>1, AboveTypes
<1>. QED
  BY <1>1, <1>2, AboveLeast

LEMMA NothingAbove ==
    ASSUME NEW par \in Parents, NEW i \in Item, par[i] \notin Container
    PROVE  AboveIn(par, i) = {}
BY AboveFirst

\* Two containers of a chain are one above the other.
LEMMA AboveLinear ==
    ASSUME NEW par \in Parents, NEW h, NEW c \in AboveIn(par, h), NEW d \in AboveIn(par, h)
    PROVE  c = d \/ c \in AboveIn(par, d) \/ d \in AboveIn(par, c)
<1>. DEFINE S == {x \in AboveIn(par, h) : x = d \/ x \in AboveIn(par, d) \/ d \in AboveIn(par, x)}
<1>1. Around(par, h) \subseteq S
  BY AboveFirst, AboveClosed DEF Around
<1>2. ASSUME NEW x \in S PROVE Around(par, x) \subseteq S
  <2>1. CASE x = d \/ x \in AboveIn(par, d)
    BY <2>1, AboveClosed
  <2>2. CASE d \in AboveIn(par, x)
    BY <2>2, AboveFirst, AboveClosed DEF Around
  <2>. QED
    BY <2>1, <2>2
<1>. QED
  BY <1>1, <1>2, AboveTypes, AboveLeast

-----------------------------------------------------------------------------
(* Who has an item.                                                        *)

\* No player and no tile is a container.
LEMMA TopIsNoContainer == \A h \in Player \cup {Ground} : h \notin Container
BY ItemAssumption, HolderAssumption

\* Of a container of the chain the top is the same.
LEMMA TopOfAbove ==
    ASSUME NEW par \in Parents, NEW i \in Item, NEW h, NEW c \in AboveIn(par, i)
    PROVE  IsTop(par, i, h) <=> IsTop(par, c, h)
<1>1. ASSUME IsTop(par, i, h) PROVE IsTop(par, c, h)
  <2>1. par[i] # h
    BY <1>1, AboveFirst, TopIsNoContainer DEF IsTop
  <2>2. PICK e \in AboveIn(par, i) : par[e] = h
    BY <1>1, <2>1 DEF IsTop
  <2>3. AboveIn(par, e) = {}
    BY <1>1, <2>2, NothingAbove, AboveTypes, TopIsNoContainer DEF IsTop
  <2>. QED
    BY <1>1, <2>2, <2>3, AboveLinear DEF IsTop
<1>2. ASSUME IsTop(par, c, h) PROVE IsTop(par, i, h)
  BY <1>2, AboveAbove DEF IsTop
<1>. QED
  BY <1>1, <1>2

LEMMA TopUnique ==
    ASSUME NEW par \in Parents, NEW i \in Item, NEW h, NEW g, IsTop(par, i, h), IsTop(par, i, g)
    PROVE  h = g
<1>1. CASE par[i] = h
  BY <1>1, NothingAbove, TopIsNoContainer DEF IsTop
<1>2. CASE par[i] = g
  BY <1>2, NothingAbove, TopIsNoContainer DEF IsTop
<1>3. CASE par[i] # h /\ par[i] # g
  <2>1. PICK e \in AboveIn(par, i) : par[e] = h
    BY <1>3 DEF IsTop
  <2>2. AboveIn(par, e) = {}
    BY <2>1, NothingAbove, AboveTypes, TopIsNoContainer DEF IsTop
  <2>3. IsTop(par, e, g)
    BY <2>1, TopOfAbove
  <2>. QED
    BY <2>1, <2>2, <2>3 DEF IsTop
<1>. QED
  BY <1>1, <1>2, <1>3

LEMMA TopIs ==
    ASSUME NEW par \in Parents, NEW i \in Item, NEW h, IsTop(par, i, h)
    PROVE  Top(par, i) = h
BY TopUnique DEF Top, IsTop

LEMMA TopExists ==
    ASSUME NEW par \in Parents, Rooted(par), NEW i \in Item
    PROVE  IsTop(par, i, Top(par, i))
BY TopIs DEF Rooted

\* What somebody has does not lie in itself.
LEMMA NotInItself ==
    ASSUME NEW par \in Parents, NEW i \in Item, NEW h, IsTop(par, i, h)
    PROVE  i \notin AboveIn(par, i)
<1>. SUFFICES ASSUME i \in AboveIn(par, i) PROVE FALSE
  OBVIOUS
<1>. DEFINE S == {x \in AboveIn(par, i) : i \in AboveIn(par, x)}
<1>1. Around(par, i) \subseteq S
  BY AboveFirst, AboveClosed DEF Around
<1>2. ASSUME NEW x \in S PROVE Around(par, x) \subseteq S
  BY AboveFirst, AboveClosed DEF Around
<1>3. AboveIn(par, i) \subseteq S
  BY <1>1, <1>2, AboveTypes, AboveLeast
<1>4. PICK e \in AboveIn(par, i) : par[e] = h
  BY AboveFirst, TopIsNoContainer DEF IsTop
<1>5. AboveIn(par, e) = {}
  BY <1>4, NothingAbove, AboveTypes, TopIsNoContainer DEF IsTop
<1>. QED
  BY <1>3, <1>4, <1>5

-----------------------------------------------------------------------------
(* What moves change.                                                      *)

\* A chain of which nothing moves stays.
LEMMA SameAbove ==
    ASSUME NEW par \in Parents, NEW to \in Parents, NEW i \in Item,
           to[i] = par[i], \A x \in AboveIn(par, i) : to[x] = par[x]
    PROVE  /\ AboveIn(to, i) = AboveIn(par, i)
           /\ \A h : IsTop(par, i, h) <=> IsTop(to, i, h)
<1>1. AboveIn(to, i) \subseteq AboveIn(par, i)
  BY AboveClosed, AboveTypes, AboveLeast DEF Around
<1>. DEFINE S == AboveIn(par, i) \cap AboveIn(to, i)
<1>2. Around(par, i) \subseteq S /\ \A x \in S : Around(par, x) \subseteq S
  BY AboveClosed DEF Around
<1>3. AboveIn(par, i) \subseteq S
  BY <1>2, AboveTypes, AboveLeast
<1>. QED
  BY <1>1, <1>3 DEF IsTop

\* What is new in a chain is where something went, or above that.
LEMMA AboveGains ==
    ASSUME NEW par \in Parents, NEW to \in Parents, NEW h, NEW c \in AboveIn(to, h),
           c \notin AboveIn(par, h)
    PROVE  \E i \in Item : to[i] # par[i] /\ (c = to[i] \/ c \in AboveIn(par, to[i]))
<1>. DEFINE Moved == {i \in Item : to[i] # par[i]}
            S == {x \in Container :
                     \/ x \in AboveIn(par, h)
                     \/ \E i \in Moved : x = to[i] \/ x \in AboveIn(par, to[i])}
<1>1. Around(to, h) \subseteq S
  BY AboveClosed DEF Around
<1>2. ASSUME NEW x \in S PROVE Around(to, x) \subseteq S
  <2>1. x \in Item /\ (x \notin Moved => Around(to, x) = Around(par, x))
    BY ItemAssumption DEF Around
  <2>2. CASE x \in Moved
    BY <2>2 DEF Around
  <2>3. CASE x \notin Moved /\ x \in AboveIn(par, h)
    BY <2>1, <2>3, AboveClosed, AboveTypes
  <2>4. CASE x \notin Moved /\ \E i \in Moved : x = to[i] \/ x \in AboveIn(par, to[i])
    <3>1. PICK i \in Moved : x = to[i] \/ x \in AboveIn(par, to[i])
      BY <2>4
    <3>2. Around(par, x) \subseteq AboveIn(par, to[i])
      BY <3>1, AboveClosed
    <3>. QED
      BY <2>1, <2>4, <3>2, AboveTypes
  <2>. QED
    BY <2>2, <2>3, <2>4
<1>3. AboveIn(to, h) \subseteq S
  BY <1>1, <1>2, AboveLeast
<1>. QED
  BY <1>3

\* What is gone from a chain was above something that went.
LEMMA AboveLoses ==
    ASSUME NEW par \in Parents, NEW to \in Parents, NEW h, NEW c \in AboveIn(par, h),
           c \notin AboveIn(to, h)
    PROVE  \E i \in Item : to[i] # par[i] /\ c \in AboveIn(par, i)
<1>. DEFINE Moved == {i \in Item : to[i] # par[i]}
            S == {x \in Container : x \in AboveIn(to, h) \/ \E i \in Moved : x \in AboveIn(par, i)}
<1>1. Around(par, h) \subseteq S
  BY AboveClosed, AboveTypes DEF Around
<1>2. ASSUME NEW x \in S PROVE Around(par, x) \subseteq S
  <2>1. x \in Item /\ (x \notin Moved => Around(to, x) = Around(par, x))
    BY ItemAssumption DEF Around
  <2>2. CASE x \in Moved
    BY <2>2, AboveClosed, AboveTypes
  <2>3. CASE x \notin Moved /\ x \in AboveIn(to, h)
    BY <2>1, <2>3, AboveClosed, AboveTypes
  <2>4. CASE \E i \in Moved : x \in AboveIn(par, i)
    BY <2>4, AboveClosed, AboveTypes
  <2>. QED
    BY <2>2, <2>3, <2>4
<1>3. AboveIn(par, h) \subseteq S
  BY <1>1, <1>2, AboveLeast
<1>. QED
  BY <1>3

\* A holder of somebody or the ground, and neither i nor in i.
GoodPlace(par, i, to, h) ==
    /\ h \in Player \cup {Ground}
    /\ \/ to = h
       \/ to \in Container /\ to # i /\ i \notin AboveIn(par, to) /\ IsTop(par, to, h)

\* An item that goes to such a holder is with whom the holder is, and so is what
\* it holds; the other items stay with whom they were.
LEMMA MovedTops ==
    ASSUME NEW par \in Parents, Rooted(par), NEW i \in Item, NEW to \in Holder, NEW h,
           GoodPlace(par, i, to, h)
    PROVE  LET new == [par EXCEPT ![i] = to] IN
           /\ new \in Parents /\ Rooted(new)
           /\ IsTop(new, i, h)
           /\ \A x \in Item : x # i /\ i \notin AboveIn(par, x) =>
                 \A g : IsTop(par, x, g) => IsTop(new, x, g)
<1>. DEFINE new == [par EXCEPT ![i] = to]
<1>1. new \in Parents /\ new[i] = to /\ \A x \in Item : x # i => new[x] = par[x]
  BY DEF Parents
<1>2. ASSUME NEW x \in Item, x # i, i \notin AboveIn(par, x), NEW g, IsTop(par, x, g)
      PROVE  IsTop(new, x, g)
  BY <1>1, <1>2, SameAbove, AboveTypes
<1>3. IsTop(new, i, h)
  <2>1. CASE to = h
    BY <2>1, <1>1 DEF IsTop, GoodPlace
  <2>2. CASE to # h
    <3>1. to \in Container /\ to \in Item /\ IsTop(new, to, h)
      BY <2>2, <1>2, ItemAssumption DEF GoodPlace
    <3>2. to \in AboveIn(new, i)
      BY <1>1, <3>1, AboveClosed DEF Around
    <3>. QED
      BY <1>1, <3>1, <3>2, TopOfAbove
  <2>. QED
    BY <2>1, <2>2
<1>4. ASSUME NEW x \in Item, i \in AboveIn(par, x) PROVE IsTop(new, x, h)
  <2>1. i \notin AboveIn(par, i)
    BY NotInItself DEF Rooted
  <2>2. i \in AboveIn(new, x)
    BY <1>1, <1>4, <2>1, AboveLoses
  <2>. QED
    BY <1>1, <1>3, <2>2, TopOfAbove
<1>5. Rooted(new)
  BY <1>2, <1>3, <1>4 DEF Rooted
<1>. QED
  BY <1>1, <1>2, <1>3, <1>5

-----------------------------------------------------------------------------
(* The invariant.                                                          *)

\* What a player offers is its own or lies on the ground.
OffersNear ==
    \A p \in Player : tradeItem[p] # None =>
        IsTop(parent, tradeItem[p], p) \/ IsTop(parent, tradeItem[p], Ground)

NoneAlone == \A p \in Player : partner[p] # p

Inv == TypeOK /\ TradesAgree /\ NoneAlone /\ Rooted(parent) /\ OffersNear

LEMMA InitInv == Init => Inv
<1>. SUFFICES ASSUME Init PROVE Inv
  OBVIOUS
<1>1. TypeOK
  BY DEF Init, TypeOK
<1>2. TradesAgree /\ NoneAlone /\ OffersNear
  BY NoneAssumption DEF Init, TradesAgree, NoneAlone, OffersNear
<1>3. ASSUME NEW i \in Item PROVE \E h : IsTop(parent, i, h)
  <2>1. CASE parent[i] \in Player \cup {Ground}
    BY <2>1 DEF IsTop
  <2>2. CASE parent[i] \in Container
    <3>1. parent[i] \in AboveIn(parent, i)
      BY <1>1, <2>2, AboveClosed DEF Around, TypeOK, Parents
    <3>2. parent[parent[i]] \in Player \cup {Ground}
      BY <1>1, <2>2, ItemAssumption DEF Init, TypeOK, Holder
    <3>. QED
      BY <3>1, <3>2 DEF IsTop
  <2>. QED
    BY <1>1, <2>1, <2>2 DEF TypeOK, Holder
<1>. QED
  BY <1>1, <1>2, <1>3 DEF Inv, Rooted

\* A move that does not close a trade moves neither the offer nor what it lies in,
\* and neither takes from it nor adds to it.
LEMMA Undisturbed ==
    ASSUME Inv, NEW p \in Player, tradeItem[p] # None, NEW i \in Item, NEW to,
           p \notin Disturbed(i, to)
    PROVE  /\ tradeItem[p] # i /\ i \notin Above(tradeItem[p])
           /\ tradeItem[p] \notin Above(i)
           /\ tradeItem[p] # to /\ tradeItem[p] \notin Above(to)
<1>. DEFINE t == tradeItem[p]
<1>1. t \in Item /\ parent \in Parents /\ Rooted(parent)
  BY DEF Inv, TypeOK, Parents
<1>2. t # i /\ t \notin Above(i) /\ t # to /\ t \notin Above(to)
  BY DEF Disturbed
<1>3. ASSUME i \in Above(t) PROVE FALSE
  <2>1. i \in Container /\ Holds(i, t)
    BY <1>1, <1>3, AboveTypes DEF Holds, Inside, Equals, Above
  <2>2. parent[i] \notin {p, Ground}
    BY <2>1 DEF Disturbed
  <2>3. PICK h \in {p, Ground} : IsTop(parent, i, h)
    BY <1>1, <1>3, TopOfAbove DEF Inv, OffersNear, Above
  <2>4. parent[i] \in AboveIn(parent, i) /\ parent[i] \in Container
    BY <1>1, <2>2, <2>3, AboveFirst, AboveClosed DEF IsTop, Around
  <2>5. parent[i] \in Above(t)
    BY <1>1, <1>3, <2>4, AboveAbove DEF Above
  <2>6. Holds(parent[i], t)
    BY <1>1, <2>5 DEF Holds, Inside, Equals, Above
  <2>7. parent[t] = parent[i]
    BY <2>4, <2>6 DEF Disturbed
  <2>8. i = parent[i] \/ i \in AboveIn(parent, parent[i])
    BY <1>1, <1>3, <2>7, AboveFirst DEF Above
  <2>9. i \in AboveIn(parent, i)
    BY <1>1, <2>4, <2>8, AboveAbove
  <2>. QED
    BY <1>1, <2>3, <2>9, NotInItself
<1>. QED
  BY <1>2, <1>3

\* Each of S stops trading, and so does its partner; what moves disturbs no others.
Closing(S) ==
    /\ S \in SUBSET Player /\ Ended(S)
    /\ \A p \in S : partner[p] # None => partner[p] \in S
    /\ \A i \in Item : parent'[i] # parent[i] => Disturbed(i, parent'[i]) \subseteq S

LEMMA ClosingKeeps ==
    ASSUME Inv, NEW S, Closing(S), parent' \in Parents, Rooted(parent'),
           online' \in SUBSET online, online \ S \subseteq online'
    PROVE  Inv'
<1>1. TypeOK'
  BY DEF Inv, TypeOK, Closing, Ended, Parents
<1>2. \A p \in S : state'[p] = "NONE" /\ partner'[p] = None /\ tradeItem'[p] = None
  BY DEF Closing, Ended
<1>3. \A p \in Player \ S :
          state'[p] = state[p] /\ partner'[p] = partner[p] /\ tradeItem'[p] = tradeItem[p]
  BY DEF Closing, Ended
<1>4. \A p \in Player \ S : partner[p] # None => partner[p] \in Player \ S
  BY NoneAssumption DEF Inv, TradesAgree, TypeOK, Closing
<1>5. \A p \in Player :
        /\ state'[p] = "NONE" <=> partner'[p] = None
        /\ partner'[p] # None => p \in online' /\ partner'[partner'[p]] = p
        /\ state'[p] = "INITIATED" => tradeItem'[p] # None
        /\ tradeItem'[p] # None => state'[p] \in {"INITIATED", "ACCEPT"}
  BY <1>2, <1>3, <1>4 DEF Inv, TradesAgree, Closing
<1>6. tradeItems' = {tradeItem'[p] : p \in Player} \ {None}
  <2>1. ASSUME NEW t \in tradeItems' PROVE t \in {tradeItem'[p] : p \in Player} \ {None}
    BY <1>3, <2>1 DEF Inv, TradesAgree, Closing, Ended
  <2>2. ASSUME NEW p \in Player, tradeItem'[p] # None PROVE tradeItem'[p] \in tradeItems'
    <3>1. p \notin S /\ tradeItem'[p] = tradeItem[p]
      BY <1>2, <1>3, <2>2
    <3>2. \A q \in S : tradeItem[q] # tradeItem[p]
      BY <2>2, <3>1 DEF Inv, TradesAgree, Closing
    <3>. QED
      BY <2>2, <3>1, <3>2 DEF Inv, TradesAgree, Closing, Ended
  <2>. QED
    BY <2>1, <2>2
<1>7. ASSUME NEW p \in Player, tradeItem'[p] # None
      PROVE  /\ tradeItem'[p] = tradeItem[p] /\ tradeItem[p] \in Item
             /\ AboveIn(parent', tradeItem[p]) = Above(tradeItem[p])
             /\ \A h : IsTop(parent, tradeItem[p], h) <=> IsTop(parent', tradeItem[p], h)
  <2>1. p \notin S /\ tradeItem'[p] = tradeItem[p] /\ tradeItem[p] \in Item
    BY <1>2, <1>3, <1>7 DEF Inv, TypeOK
  <2>2. \A i \in Item : parent'[i] # parent[i] => tradeItem[p] # i /\ i \notin Above(tradeItem[p])
    BY <1>7, <2>1, Undisturbed DEF Closing
  <2>. QED
    BY <2>1, <2>2, SameAbove, AboveTypes DEF Inv, TypeOK, Above, Parents
<1>8. \A p, q \in Player : p # q /\ tradeItem'[p] # None /\ tradeItem'[q] # None =>
          tradeItem'[p] # tradeItem'[q] /\ tradeItem'[p] \notin AboveIn(parent', tradeItem'[q])
  BY <1>7 DEF Inv, TradesAgree
<1>9. OffersNear'
  BY <1>7 DEF Inv, OffersNear
<1>10. NoneAlone'
  BY <1>2, <1>3, NoneAssumption DEF Inv, NoneAlone
<1>. QED
  BY <1>10, <1>1, <1>5, <1>6, <1>8, <1>9 DEF Inv, TradesAgree, Above

-----------------------------------------------------------------------------
(* The exchange.                                                           *)

\* A place p is given something that somebody else has.
LEMMA PlaceIsGood ==
    ASSUME NEW par \in Parents, NEW p \in Player, NEW h \in Places(par, p), Rooted(par),
           NEW i \in Item, NEW g, IsTop(par, i, g), g # p
    PROVE  h \in Holder /\ GoodPlace(par, i, h, p)
<1>1. CASE h = p
  BY <1>1 DEF GoodPlace, Holder
<1>2. CASE h # p
  <2>1. h \in Container /\ h \in Item /\ Top(par, h) = p
    BY <1>2, ItemAssumption DEF Places
  <2>2. IsTop(par, h, p)
    BY <2>1, TopExists
  <2>3. i # h /\ i \notin AboveIn(par, h)
    BY <2>1, <2>2, TopUnique, TopOfAbove
  <2>. QED
    BY <2>1, <2>2, <2>3 DEF GoodPlace, Holder
<1>. QED
  BY <1>1, <1>2

\* The two moves of an exchange, of which the second may fail.
LEMMA ExchangeMoves ==
    ASSUME NEW p \in Player, NEW q \in Player, NEW new \in Exchanged(p, q), new # parent
    PROVE  /\ tradeItem[p] # None /\ tradeItem[q] # None
           /\ Fits(q, tradeItem[p]) /\ Fits(p, tradeItem[q])
           /\ \E h \in Places(parent, q) :
                 LET half == [parent EXCEPT ![tradeItem[p]] = h] IN
                 \/ new = half /\ Places(half, p) = {}
                 \/ \E k \in Places(half, p) : new = [half EXCEPT ![tradeItem[q]] = k]
<1>. DEFINE a == tradeItem[p]
            b == tradeItem[q]
            Second(par) == IF Given(par, b, p) = {} THEN {par} ELSE Given(par, b, p)
<1>1. /\ a # None /\ b # None /\ Fits(q, a) /\ Fits(p, b)
      /\ new \in UNION {Second(par) : par \in Given(parent, a, q)}
  BY DEF Exchanged
<1>2. PICK half \in Given(parent, a, q) : new \in Second(half)
  BY <1>1
<1>3. PICK h \in Places(parent, q) : half = [parent EXCEPT ![a] = h]
  BY <1>2 DEF Given
<1>4. \/ new = half /\ Places(half, p) = {}
      \/ \E k \in Places(half, p) : new = [half EXCEPT ![b] = k]
  <2>1. CASE Given(half, b, p) = {}
    <3>1. \A k \in Places(half, p) : [half EXCEPT ![b] = k] \in Given(half, b, p)
      BY DEF Given
    <3>. QED
      BY <1>2, <2>1, <3>1
  <2>2. CASE Given(half, b, p) # {}
    BY <1>2, <2>2 DEF Given
  <2>. QED
    BY <2>1, <2>2
<1>. QED
  BY <1>1, <1>3, <1>4

\* After it everything is with somebody, nothing but the two items has moved, and
\* the item of p is with q.
LEMMA ExchangeTops ==
    ASSUME Inv, NEW p \in Player, NEW q \in Player, p # q, NEW new \in Exchanged(p, q),
           new # parent
    PROVE  /\ tradeItem[p] \in Item /\ tradeItem[q] \in Item
           /\ new \in Parents /\ Rooted(new)
           /\ \A x \in Item : new[x] # parent[x] => x \in {tradeItem[p], tradeItem[q]}
           /\ IsTop(new, tradeItem[p], q)
           /\ \E h \in Places(parent, q) :
                 LET half == [parent EXCEPT ![tradeItem[p]] = h] IN
                 \/ new = half /\ Places(half, p) = {}
                 \/ IsTop(new, tradeItem[q], p)
<1>. DEFINE a == tradeItem[p]
            b == tradeItem[q]
<1>1. a \in Item /\ b \in Item /\ a # b /\ parent \in Parents /\ Rooted(parent)
  BY ExchangeMoves DEF Inv, TypeOK, Parents, TradesAgree
<1>2. a \notin AboveIn(parent, b) /\ b \notin AboveIn(parent, a)
  BY ExchangeMoves DEF Inv, TradesAgree, Above
<1>3. PICK g \in {p, Ground} : IsTop(parent, a, g)
  BY ExchangeMoves DEF Inv, OffersNear
<1>4. PICK f \in {q, Ground} : IsTop(parent, b, f)
  BY ExchangeMoves DEF Inv, OffersNear
<1>5. p # Ground /\ q # Ground
  BY HolderAssumption
<1>6. PICK h \in Places(parent, q) :
          LET half == [parent EXCEPT ![a] = h] IN
          \/ new = half /\ Places(half, p) = {}
          \/ \E k \in Places(half, p) : new = [half EXCEPT ![b] = k]
  BY ExchangeMoves
<1>. DEFINE half == [parent EXCEPT ![a] = h]
<1>7. h \in Holder /\ GoodPlace(parent, a, h, q)
  BY <1>1, <1>3, <1>5, PlaceIsGood
<1>8. half \in Parents /\ Rooted(half) /\ IsTop(half, a, q) /\ IsTop(half, b, f)
  BY <1>1, <1>2, <1>4, <1>7, MovedTops
<1>9. \A x \in Item : x # a => half[x] = parent[x]
  BY <1>1 DEF Parents
<1>10. CASE new = half /\ Places(half, p) = {}
  BY <1>1, <1>6, <1>8, <1>9, <1>10
<1>11. ASSUME NEW k \in Places(half, p), new = [half EXCEPT ![b] = k]
       PROVE  /\ new \in Parents /\ Rooted(new) /\ IsTop(new, b, p) /\ IsTop(new, a, q)
              /\ \A x \in Item : new[x] # parent[x] => x \in {a, b}
  <2>1. k \in Holder /\ GoodPlace(half, b, k, p)
    BY <1>1, <1>4, <1>5, <1>8, <1>11, PlaceIsGood
  <2>2. b \notin AboveIn(half, a)
    <3>. SUFFICES ASSUME b \in AboveIn(half, a) PROVE FALSE
      OBVIOUS
    <3>1. PICK i \in Item : half[i] # parent[i] /\ (b = half[i] \/ b \in AboveIn(parent, half[i]))
      BY <1>1, <1>2, <1>8, AboveGains
    <3>2. half[i] = h /\ b \in Container
      BY <1>1, <1>8, <1>9, <3>1, AboveTypes DEF Parents
    <3>3. h \in Container \ {b} /\ b \notin AboveIn(parent, h)
      BY <3>1, <3>2, <1>1, <1>6, AboveFirst, ItemAssumption, HolderAssumption DEF Places
    <3>. QED
      BY <3>1, <3>2, <3>3
  <2>3. new \in Parents /\ Rooted(new) /\ IsTop(new, b, p) /\ IsTop(new, a, q)
    BY <1>1, <1>8, <1>11, <2>1, <2>2, MovedTops
  <2>. QED
    BY <1>1, <1>8, <1>9, <1>11, <2>3 DEF Parents
<1>. QED
  BY <1>1, <1>6, <1>10, <1>11

\* A place for p is one still when q has got the item of p.
LEMMA RoomRemains ==
    ASSUME Inv, NEW p \in Player, NEW q \in Player, p # q, tradeItem[p] # None,
           NEW h \in Places(parent, q), NEW k \in Places(parent, p)
    PROVE  k \in Places([parent EXCEPT ![tradeItem[p]] = h], p)
<1>. DEFINE a == tradeItem[p]
            half == [parent EXCEPT ![a] = h]
<1>1. a \in Item /\ parent \in Parents /\ Rooted(parent)
  BY DEF Inv, TypeOK, Parents
<1>2. PICK g \in {p, Ground} : IsTop(parent, a, g)
  BY DEF Inv, OffersNear
<1>3. h \in Holder /\ GoodPlace(parent, a, h, q)
  BY <1>1, <1>2, HolderAssumption, PlaceIsGood
<1>4. half \in Parents
  BY <1>1, <1>3, MovedTops
<1>5. \A j \in Item : half[j] = parent[j] \/ half[j] = h
  BY <1>1 DEF Parents
<1>6. k \in Player \cup Container /\ Free(parent, k)
  BY DEF Places
<1>7. k # h
  <2>1. CASE k = p
    BY <1>3, <2>1, ItemAssumption, HolderAssumption DEF GoodPlace
  <2>2. CASE k # p
    <3>1. k \in Container /\ k \in Item /\ IsTop(parent, k, p)
      BY <1>1, <2>2, ItemAssumption, TopExists DEF Places
    <3>. QED
      BY <1>1, <1>3, <3>1, ItemAssumption, HolderAssumption, TopUnique DEF GoodPlace
  <2>. QED
    BY <2>1, <2>2
<1>8. Free(half, k)
  <2>1. {j \in Item : half[j] = k} \subseteq {j \in Item : parent[j] = k}
    BY <1>5, <1>7
  <2>2. /\ IsFiniteSet({j \in Item : parent[j] = k})
        /\ Cardinality({j \in Item : parent[j] = k}) \in Nat
    BY FiniteAssumption, FS_Subset, FS_CardinalityType
  <2>3. /\ Cardinality({j \in Item : half[j] = k}) \in Nat
        /\ Cardinality({j \in Item : half[j] = k}) <= Cardinality({j \in Item : parent[j] = k})
    BY <2>1, <2>2, FS_Subset, FS_CardinalityType
  <2>4. k # Ground /\ Room[k] \in Nat
    BY <1>6, RoomAssumption, ItemAssumption, HolderAssumption
  <2>. QED
    BY <1>6, <2>2, <2>3, <2>4 DEF Free
<1>9. CASE k = p
  BY <1>8, <1>9 DEF Places
<1>10. CASE k # p
  <2>1. /\ k \in Container \ {a} /\ Top(parent, k) = p /\ a \notin AboveIn(parent, k)
        /\ k \in Item
    BY <1>10, ItemAssumption DEF Places
  <2>2. \A x \in Item : x # a => half[x] = parent[x]
    BY <1>1 DEF Parents
  <2>3. AboveIn(half, k) = AboveIn(parent, k) /\ IsTop(half, k, p)
    BY <1>1, <1>4, <2>1, <2>2, SameAbove, AboveTypes, TopExists
  <2>4. Top(half, k) = p
    BY <1>4, <2>1, <2>3, TopIs
  <2>. QED
    BY <1>8, <2>1, <2>3, <2>4 DEF Places
<1>. QED
  BY <1>9, <1>10

-----------------------------------------------------------------------------
(* Every step keeps the invariant.                                         *)

LEMMA PartnersClosed ==
    ASSUME Inv, NEW S \in SUBSET Player
    PROVE  /\ WithPartners(S) \in SUBSET Player
           /\ \A p \in WithPartners(S) : partner[p] # None => partner[p] \in WithPartners(S)
BY NoneAssumption DEF Inv, TypeOK, TradesAgree, WithPartners

LEMMA RequestTradeStep ==
    ASSUME Inv, NEW p \in Player, NEW q \in Player, NEW i \in Item, RequestTrade(p, q, i)
    PROVE  Inv'
<1>1. /\ p \in online /\ q \in online /\ p # q /\ MayStart(p, q) /\ parent' = parent
      /\ online' = online
  BY DEF RequestTrade, StartTrade
<1>2. parent \in Parents /\ Rooted(parent)
  BY DEF Inv, TypeOK, Parents
<1>3. tradeItem[p] = None
  BY <1>1 DEF MayStart, Inv, TradesAgree
<1>4. tradeItem' = [tradeItem EXCEPT ![p] = i] /\ tradeItems' = tradeItems \cup {i}
  BY DEF RequestTrade, StartTrade
<1>5. \/ /\ state[p] = "NONE" /\ state[q] = "NONE" /\ partner[p] = None /\ partner[q] = None
         /\ state' = [state EXCEPT ![p] = "INITIATED", ![q] = "ACKNOWLEDGE"]
         /\ partner' = [partner EXCEPT ![p] = q, ![q] = p]
      \/ /\ state[q] # "NONE" /\ partner[p] = q /\ partner[q] = p
         /\ state' = [state EXCEPT ![p] = "INITIATED"]
         /\ partner' = partner
  <2>1. CASE state[q] = "NONE"
    BY <1>1, <2>1, NoneAssumption DEF RequestTrade, StartTrade, MayStart, Inv, TradesAgree
  <2>2. CASE state[q] # "NONE"
    <3>1. partner[q] = p /\ partner[p] = q
      BY <1>1, <2>2, NoneAssumption DEF MayStart, Inv, TradesAgree
    <3>2. partner' = [partner EXCEPT ![p] = q]
      BY <2>2 DEF RequestTrade, StartTrade
    <3>3. partner' = partner
      BY <3>1, <3>2 DEF Inv, TypeOK
    <3>. QED
      BY <2>2, <3>1, <3>3 DEF RequestTrade, StartTrade
  <2>. QED
    BY <2>1, <2>2
<1>6. TypeOK'
  BY <1>1, <1>4, <1>5 DEF Inv, TypeOK
<1>7. \A r \in Player :
        /\ state'[r] = "NONE" <=> partner'[r] = None
        /\ partner'[r] # None => r \in online' /\ partner'[partner'[r]] = r
        /\ state'[r] = "INITIATED" => tradeItem'[r] # None
        /\ tradeItem'[r] # None => state'[r] \in {"INITIATED", "ACCEPT"}
  <2>1. CASE state[q] = "NONE"
    BY <1>1, <1>3, <1>4, <1>5, <2>1, NoneAssumption DEF Inv, TypeOK, TradesAgree
  <2>2. CASE state[q] # "NONE"
    BY <1>1, <1>3, <1>4, <1>5, <2>2, NoneAssumption DEF Inv, TypeOK, TradesAgree
  <2>. QED
    BY <2>1, <2>2
<1>8. tradeItems' = {tradeItem'[r] : r \in Player} \ {None}
  BY <1>3, <1>4, NoneAssumption DEF Inv, TypeOK, TradesAgree
<1>9. \A t \in tradeItems : i # t /\ i \notin Above(t) /\ t \notin Above(i)
  <2>1. \A t \in Item : t \in Inside(parent, i) => Holds(i, t)
    BY DEF Holds, Equals
  <2>2. \A t \in Item : i \in Inside(parent, t) => Holds(t, i)
    BY DEF Holds, Equals
  <2>. QED
    BY <1>2, <2>1, <2>2, AboveTypes DEF RequestTrade, NotYetOffered, Inside, Above, Inv, TypeOK
<1>10. \A r, s \in Player : r # s /\ tradeItem'[r] # None /\ tradeItem'[s] # None =>
          tradeItem'[r] # tradeItem'[s] /\ tradeItem'[r] \notin Above(tradeItem'[s])
  <2>. SUFFICES ASSUME NEW r \in Player, NEW s \in Player, r # s,
                       tradeItem'[r] # None, tradeItem'[s] # None
                PROVE  tradeItem'[r] # tradeItem'[s] /\ tradeItem'[r] \notin Above(tradeItem'[s])
    OBVIOUS
  <2>1. \A o \in Player : o # p => tradeItem'[o] = tradeItem[o]
    BY <1>4 DEF Inv, TypeOK
  <2>2. tradeItem'[p] = i
    BY <1>4 DEF Inv, TypeOK
  <2>3. \A o \in Player : tradeItem[o] # None => tradeItem[o] \in tradeItems
    BY DEF Inv, TradesAgree
  <2>. QED
    BY <1>9, <2>1, <2>2, <2>3 DEF Inv, TradesAgree
<1>11. OffersNear'
  <2>1. IsTop(parent, i, p) \/ IsTop(parent, i, Ground)
    BY <1>2, TopExists DEF RequestTrade
  <2>. QED
    BY <1>1, <1>4, <2>1 DEF OffersNear, Inv, TypeOK
<1>12. NoneAlone'
  BY <1>1, <1>5 DEF Inv, TypeOK, NoneAlone
<1>. QED
  BY <1>1, <1>6, <1>7, <1>8, <1>10, <1>11, <1>12 DEF Inv, TradesAgree, Above

LEMMA ExchangeCloses ==
    ASSUME Inv, NEW p \in Player, AcceptTrade(p), state[partner[p]] = "ACCEPT"
    PROVE  /\ parent' \in Parents /\ Rooted(parent')
           /\ \E S : Closing(S) /\ p \in S
<1>. DEFINE q == partner[p]
            Moved == {i \in Item : parent'[i] # parent[i]}
            others == (UNION {Disturbed(i, parent'[i]) : i \in Moved}) \ {p, q}
            S == {p, q} \cup WithPartners(others)
<1>1. q \in Player /\ q # p /\ partner[q] = p /\ parent \in Parents /\ Rooted(parent)
  BY NoneAssumption DEF AcceptTrade, Inv, TypeOK, TradesAgree, NoneAlone, Parents
<1>2. parent' \in {parent} \cup Exchanged(p, q) /\ Ended(S)
  BY DEF AcceptTrade, Exchange
<1>3. parent' \in Parents /\ Rooted(parent')
  BY <1>1, <1>2, ExchangeTops
<1>4. S \in SUBSET Player /\ \A r \in S : partner[r] # None => partner[r] \in S
  <2>1. others \in SUBSET Player
    BY DEF Disturbed
  <2>. QED
    BY <1>1, <2>1, PartnersClosed
<1>5. others \subseteq S
  <2>. HIDE DEF others
  <2>. QED
    BY DEF WithPartners
<1>6. \A i \in Moved : Disturbed(i, parent'[i]) \subseteq S
  BY <1>5
<1>. QED
  BY <1>2, <1>3, <1>4, <1>6 DEF Closing

\* Trades that are closed, and nothing moves.
LEMMA CloseCloses ==
    ASSUME Inv, NEW p \in Player, CloseTrade({p}), parent' = parent
    PROVE  \E S : Closing(S) /\ p \in S
<1>1. p \in WithPartners({p}) /\ Ended(WithPartners({p}))
  BY DEF WithPartners, CloseTrade
<1>. QED
  BY <1>1, PartnersClosed DEF Closing

LEMMA MoveItemCloses ==
    ASSUME Inv, NEW p \in Player, NEW i \in Item, NEW to \in Holder, MoveItem(p, i, to)
    PROVE  /\ parent' \in Parents /\ Rooted(parent')
           /\ \E S : Closing(S)
<1>1. parent \in Parents /\ Rooted(parent)
  BY DEF Inv, TypeOK, Parents
<1>. DEFINE S == WithPartners(Disturbed(i, to))
<1>2. parent' = [parent EXCEPT ![i] = to] /\ Ended(S)
  BY DEF MoveItem, CloseTrade
<1>3. \E h : GoodPlace(parent, i, to, h)
  <2>1. CASE to \in {p, Ground}
    BY <2>1 DEF GoodPlace
  <2>2. CASE to \notin {p, Ground}
    <3>1. to \in Container /\ to \in Item /\ to # i /\ i \notin AboveIn(parent, to)
      BY <2>2, ItemAssumption DEF MoveItem, Above
    <3>2. PICK h : IsTop(parent, to, h)
      BY <1>1, <3>1 DEF Rooted
    <3>. QED
      BY <3>1, <3>2 DEF GoodPlace, IsTop
  <2>. QED
    BY <2>1, <2>2
<1>4. parent' \in Parents /\ Rooted(parent')
  BY <1>1, <1>2, <1>3, MovedTops
<1>5. S \in SUBSET Player /\ \A r \in S : partner[r] # None => partner[r] \in S
  <2>1. Disturbed(i, to) \in SUBSET Player
    BY DEF Disturbed
  <2>. QED
    BY <2>1, PartnersClosed
<1>6. ASSUME NEW k \in Item, parent'[k] # parent[k] PROVE Disturbed(k, parent'[k]) \subseteq S
  <2>1. k = i /\ parent'[k] = to
    BY <1>1, <1>2, <1>6 DEF Parents
  <2>. QED
    BY <2>1 DEF WithPartners
<1>. QED
  BY <1>2, <1>4, <1>5, <1>6 DEF Closing

\* The first of the two to accept.
LEMMA AcceptFirst ==
    ASSUME Inv, NEW p \in Player, AcceptTrade(p), state[partner[p]] # "ACCEPT"
    PROVE  Inv'
<1>1. /\ p \in online /\ state[p] \in {"ACKNOWLEDGE", "INITIATED"} /\ partner[p] # None
      /\ state' = [state EXCEPT ![p] = "ACCEPT"]
      /\ UNCHANGED <<partner, tradeItem, tradeItems, parent, online>>
  BY DEF AcceptTrade
<1>2. TypeOK'
  BY <1>1 DEF Inv, TypeOK
<1>3. TradesAgree'
  BY <1>1 DEF Inv, TypeOK, TradesAgree, Above
<1>. QED
  BY <1>1, <1>2, <1>3 DEF Inv, Rooted, OffersNear, NoneAlone

LEMMA InvStep == Inv /\ [Next]_vars => Inv'
<1>. SUFFICES ASSUME Inv, [Next]_vars PROVE Inv'
  OBVIOUS
<1>1. ASSUME NEW p \in Player, NEW q \in Player, NEW i \in Item, RequestTrade(p, q, i) PROVE Inv'
  BY <1>1, RequestTradeStep
<1>2. ASSUME NEW p \in Player, AcceptTrade(p) PROVE Inv'
  <2>1. online' = online
    BY <1>2 DEF AcceptTrade
  <2>2. CASE state[partner[p]] = "ACCEPT"
    BY <1>2, <2>1, <2>2, ExchangeCloses, ClosingKeeps
  <2>. QED
    BY <1>2, <2>2, AcceptFirst
<1>3. ASSUME NEW p \in Player, PlayerCloseTrade(p) \/ Leave(p) PROVE Inv'
  <2>1. /\ CloseTrade({p}) /\ parent' = parent
        /\ online' \in SUBSET online /\ online \ {p} \subseteq online'
    BY <1>3 DEF PlayerCloseTrade, Leave, Inv, TypeOK
  <2>2. PICK S : Closing(S) /\ p \in S
    BY <2>1, CloseCloses
  <2>. QED
    BY <2>1, <2>2, ClosingKeeps DEF Inv, TypeOK, Parents
<1>5. ASSUME NEW p \in Player, NEW i \in Item, NEW to \in Holder, MoveItem(p, i, to) PROVE Inv'
  <2>1. online' = online
    BY <1>5 DEF MoveItem
  <2>. QED
    BY <1>5, <2>1, MoveItemCloses, ClosingKeeps
<1>6. CASE UNCHANGED vars
  BY <1>6 DEF vars, trades, Inv, TypeOK, TradesAgree, NoneAlone, Rooted, OffersNear, Above
<1>. QED
  BY <1>1, <1>2, <1>3, <1>5, <1>6 DEF Next

-----------------------------------------------------------------------------
(* What a step may not do.                                                 *)

\* What p agreed to stands, or p does not trade any more.
Stands(p) ==
    LET q == partner[p]
        i == tradeItem[q]
    IN  state[p] = "ACCEPT" /\ i # None =>
           \/ state'[p] = "NONE"
           \/ /\ tradeItem'[q] = i
              /\ parent'[i] = parent[i]
              /\ Inside(parent', i) = Inside(parent, i)

LEMMA ClosingStands ==
    ASSUME Inv, NEW S, Closing(S), parent' \in Parents, NEW p \in Player
    PROVE  Stands(p)
<1>. DEFINE q == partner[p]
            i == tradeItem[q]
<1>. SUFFICES ASSUME state[p] = "ACCEPT", i # None, p \notin S
              PROVE  /\ tradeItem'[q] = i
                     /\ parent'[i] = parent[i]
                     /\ Inside(parent', i) = Inside(parent, i)
  BY DEF Stands, Closing, Ended
<1>1. q \in Player /\ q \notin S /\ i \in Item /\ parent \in Parents
  BY NoneAssumption DEF Inv, TypeOK, TradesAgree, Closing, Parents
<1>2. tradeItem'[q] = i
  BY <1>1 DEF Closing, Ended
<1>3. \A k \in Item : parent'[k] # parent[k] =>
          /\ i # k /\ i \notin AboveIn(parent, k)
          /\ i # parent'[k] /\ i \notin AboveIn(parent, parent'[k])
  BY <1>1, Undisturbed DEF Closing, Above
<1>4. \A j \in Item : i \in AboveIn(parent', j) <=> i \in AboveIn(parent, j)
  BY <1>1, <1>3, AboveGains, AboveLoses
<1>. QED
  BY <1>1, <1>2, <1>3, <1>4 DEF Inside

LEMMA OfferStandsStep ==
    ASSUME Inv, [Next]_vars, NEW p \in Player
    PROVE  Stands(p)
<1>1. ASSUME NEW r \in Player, NEW s \in Player, NEW i \in Item, RequestTrade(r, s, i)
      PROVE  Stands(p)
  <2>1. state[r] # "ACCEPT" /\ tradeItem[r] = None
    BY <1>1 DEF RequestTrade, StartTrade, MayStart, Inv, TradesAgree
  <2>2. tradeItem' = [tradeItem EXCEPT ![r] = i] /\ parent' = parent
    BY <1>1 DEF RequestTrade, StartTrade
  <2>. QED
    BY <2>1, <2>2 DEF Stands, Inv, TypeOK
<1>2. ASSUME NEW r \in Player, AcceptTrade(r) PROVE Stands(p)
  <2>1. CASE state[partner[r]] = "ACCEPT"
    BY <1>2, <2>1, ExchangeCloses, ClosingStands
  <2>2. CASE state[partner[r]] # "ACCEPT"
    BY <1>2, <2>2 DEF AcceptTrade, Stands
  <2>. QED
    BY <2>1, <2>2
<1>3. ASSUME NEW r \in Player, PlayerCloseTrade(r) \/ Leave(r) PROVE Stands(p)
  <2>1. CloseTrade({r}) /\ parent' = parent /\ parent' \in Parents
    BY <1>3 DEF PlayerCloseTrade, Leave, Inv, TypeOK, Parents
  <2>. QED
    BY <2>1, CloseCloses, ClosingStands
<1>4. ASSUME NEW r \in Player, NEW i \in Item, NEW to \in Holder, MoveItem(r, i, to)
      PROVE  Stands(p)
  BY <1>4, MoveItemCloses, ClosingStands
<1>5. CASE UNCHANGED vars
  BY <1>5 DEF vars, trades, Stands
<1>. QED
  BY <1>1, <1>2, <1>3, <1>4, <1>5 DEF Next

LEMMA ExchangeStep ==
    ASSUME Inv, NEW p \in Player, AcceptTrade(p), tradeItem[partner[p]] \notin Stackable,
           parent' # parent
    PROVE  /\ Top(parent', tradeItem[p]) = partner[p]
           /\ Top(parent', tradeItem[partner[p]]) = p
           /\ \A i \in Item \ {tradeItem[p], tradeItem[partner[p]]} : parent'[i] = parent[i]
<1>. DEFINE q == partner[p]
            a == tradeItem[p]
            b == tradeItem[q]
<1>1. q \in Player /\ q # p /\ parent' \in Exchanged(p, q)
  BY DEF AcceptTrade, Exchange, Inv, TypeOK, NoneAlone
<1>2. a # None /\ Fits(p, b)
  BY <1>1, ExchangeMoves
<1>3. PICK k : k \in Places(parent, p)
  BY <1>2 DEF Fits
<1>4. \A h \in Places(parent, q) : Places([parent EXCEPT ![a] = h], p) # {}
  BY <1>1, <1>2, <1>3, RoomRemains
<1>5. /\ a \in Item /\ b \in Item /\ parent' \in Parents
      /\ \A x \in Item : parent'[x] # parent[x] => x \in {a, b}
      /\ IsTop(parent', a, q) /\ IsTop(parent', b, p)
  BY <1>1, <1>4, ExchangeTops
<1>. QED
  BY <1>5, TopIs

-----------------------------------------------------------------------------
(* The results.                                                            *)

LEMMA Invariance == Spec => []Inv
BY InitInv, InvStep, PTL DEF Spec

\* The types of the trade's state; TRANSFER is no state between two handlers.
THEOREM TypeCorrect == Spec => []TypeOK
BY Invariance, PTL DEF Inv

\* Who trades has a partner in the game who trades with it, the registry lists
\* what is offered, and no offer lies in another (Game::internalStartTrade,
\* Game::internalCloseTrade and Player::checkTradeState).
THEOREM PartnersAgree == Spec => []TradesAgree
BY Invariance, PTL DEF Inv

\* Whatever moves, an offer that was accepted stays as it is, down to what is in
\* it, or the trade ends (Player::checkTradeState and the notifications of
\* containers and tiles).
THEOREM AcceptedOffersStand == Spec => OfferStands
<1>1. Inv /\ [Next]_vars => [\A p \in Player : Stands(p)]_vars
  BY OfferStandsStep
<1>2. (\A p \in Player : Stands(p)) =>
          \A p \in Player :
              LET q == partner[p]
                  i == tradeItem[q]
              IN  state[p] = "ACCEPT" /\ i # None =>
                     \/ state'[p] = "NONE"
                     \/ /\ tradeItem'[q] = i
                        /\ parent'[i] = parent[i]
                        /\ Inside(parent', i) = Inside(parent, i)
  BY DEF Stands
<1>. QED
  BY <1>1, <1>2, Invariance, PTL DEF Spec, OfferStands

\* The exchange of playerAcceptTrade moves both items or none, but for one that
\* stacks, although the result of its second move is not looked at.
THEOREM BothOrNone == Spec => ExchangeAllOrNothing
<1>1. Inv /\ [Next]_vars =>
          [\A p \in Player :
             LET q == partner[p]
                 a == tradeItem[p]
                 b == tradeItem[q]
             IN  AcceptTrade(p) /\ b \notin Stackable =>
                    \/ parent' = parent
                    \/ /\ Top(parent', a) = q
                       /\ Top(parent', b) = p
                       /\ \A i \in Item \ {a, b} : parent'[i] = parent[i]]_vars
  BY ExchangeStep
<1>. QED
  BY <1>1, Invariance, PTL DEF Spec, ExchangeAllOrNothing

-----------------------------------------------------------------------------
(* Folds over a finite set: there is such a function, and what its steps    *)
(* keep it has.                                                            *)

\* Induction over the subsets of a finite set, G the set of those that are good.
LEMMA SubsetInduction ==
    ASSUME NEW D, IsFiniteSet(D), NEW G,
           \A T \in SUBSET D : (\A U \in SUBSET T : U # T => U \in G) => T \in G
    PROVE  \A T \in SUBSET D : T \in G
<1>. DEFINE Bad == {T \in SUBSET D : T \notin G}
<1>1. IsWellFoundedOn(StrictSubsetOrdering(D), SUBSET D)
  BY FS_StrictSubsetOrderingWellFounded, FS_FiniteSubsetsOfFinite
<1>2. ASSUME Bad # {} PROVE FALSE
  <2>1. PICK T \in Bad : \A U \in Bad : <<U, T>> \notin StrictSubsetOrdering(D)
    <3>. HIDE DEF Bad
    <3>1. Bad \subseteq SUBSET D
      BY DEF Bad
    <3>. QED
      BY <1>1, <1>2, <3>1, WFMin
  <2>2. \A U \in SUBSET T : U # T => U \in G
    BY <2>1 DEF StrictSubsetOrdering
  <2>. QED
    BY <2>1, <2>2
<1>. QED
  BY <1>2

\* The element that a fold over T takes first.
First(T) == CHOOSE x \in T : TRUE

\* f is the fold of op over the subsets of T from base.
Folds(f, op, base, T) ==
    \A U \in SUBSET T : f[U] = IF U = {} THEN base ELSE op[<<First(U), f[U \ {First(U)}]>>]

LEMMA FirstIn == ASSUME NEW T, T # {} PROVE First(T) \in T
BY DEF First

LEMMA FoldsAgree ==
    ASSUME NEW T, IsFiniteSet(T), NEW f, NEW g, f[{}] = g[{}],
           \A U \in SUBSET T :
              U # {} /\ f[U \ {First(U)}] = g[U \ {First(U)}] => f[U] = g[U]
    PROVE  f[T] = g[T]
<1>. DEFINE G == {U \in SUBSET T : f[U] = g[U]}
<1>1. ASSUME NEW U \in SUBSET T, \A V \in SUBSET U : V # U => V \in G PROVE U \in G
  <2>1. U # {} => U \ {First(U)} \in G
    BY <1>1, FirstIn
  <2>. QED
    BY <2>1
<1>. HIDE DEF G
<1>2. \A U \in SUBSET T : U \in G
  BY <1>1, SubsetInduction
<1>. QED
  BY <1>2 DEF G

LEMMA FoldUnique ==
    ASSUME NEW T, IsFiniteSet(T), NEW op, NEW base, NEW f, NEW g,
           Folds(f, op, base, T), Folds(g, op, base, T)
    PROVE  f[T] = g[T]
<1>1. f[{}] = g[{}]
  BY DEF Folds
<1>2. \A U \in SUBSET T : U # {} /\ f[U \ {First(U)}] = g[U \ {First(U)}] => f[U] = g[U]
  BY DEF Folds
<1>. QED
  BY <1>1, <1>2, FoldsAgree

\* There is such a fold.
LEMMA FoldExists ==
    ASSUME NEW D, IsFiniteSet(D), NEW B, NEW base \in B, NEW op \in [D \X B -> B]
    PROVE  \E f \in [SUBSET D -> B] : Folds(f, op, base, D)
<1>. DEFINE Some(T) == CHOOSE f \in [SUBSET T -> B] : Folds(f, op, base, T)
            V(T) == Some(T)[T]
            Is(T) == \E f \in [SUBSET T -> B] : Folds(f, op, base, T)
            G == {T \in SUBSET D : Is(T)}
<1>0. ASSUME NEW T \in G PROVE Some(T) \in [SUBSET T -> B] /\ Folds(Some(T), op, base, T) /\ V(T) \in B
  OBVIOUS
<1>1. ASSUME NEW T \in SUBSET D, \A U \in SUBSET T : U # T => U \in G PROVE T \in G
  <2>. DEFINE h == [U \in SUBSET T |->
                     IF U = {} THEN base ELSE op[<<First(U), V(U \ {First(U)})>>]]
  <2>1. ASSUME NEW U \in SUBSET T, U # {}
        PROVE  First(U) \in D /\ U \ {First(U)} \in SUBSET T /\ U \ {First(U)} \in G
    BY <1>1, <2>1, FirstIn
  <2>2. h \in [SUBSET T -> B]
    <3>1. ASSUME NEW U \in SUBSET T, U # {} PROVE op[<<First(U), V(U \ {First(U)})>>] \in B
      <4>. HIDE DEF G, V
      <4>. QED
        BY <2>1, <3>1, <1>0
    <3>. HIDE DEF V
    <3>. QED
      BY <3>1
  <2>3. ASSUME NEW W \in SUBSET T, W \in G PROVE h[W] = V(W)
    <3>1. Folds(Some(W), op, base, W)
      BY <2>3, <1>0
    <3>2. CASE W = {}
      BY <3>1, <3>2 DEF Folds
    <3>3. CASE W # {}
      <4>. DEFINE X == W \ {First(W)}
      <4>1. X \in G /\ X \in SUBSET W
        BY <3>3, <2>1
      <4>2. Folds(Some(X), op, base, X)
        BY <4>1, <1>0
      <4>3. Folds(Some(W), op, base, X)
        BY <3>1, <4>1 DEF Folds
      <4>4. IsFiniteSet(X)
        BY <4>1, FS_Subset
      <4>5. V(X) = Some(W)[X]
        <5>. HIDE DEF Some, X
        <5>. QED
          BY <4>2, <4>3, <4>4, FoldUnique
      <4>6. V(W) = op[<<First(W), Some(W)[X]>>]
        <5>. HIDE DEF Some
        <5>. QED
          BY <3>1, <3>3 DEF Folds
      <4>7. h[W] = op[<<First(W), V(X)>>]
        BY <3>3
      <4>. QED
        BY <4>5, <4>6, <4>7
    <3>. QED
      BY <3>2, <3>3
  <2>4. Folds(h, op, base, T)
    <3>1. ASSUME NEW U \in SUBSET T, U # {} PROVE h[U] = op[<<First(U), h[U \ {First(U)}]>>]
      <4>1. h[U] = op[<<First(U), V(U \ {First(U)})>>]
        BY <3>1
      <4>2. h[U \ {First(U)}] = V(U \ {First(U)})
        <5>. HIDE DEF h, V, G
        <5>. QED
          BY <2>1, <2>3, <3>1
      <4>. QED
        BY <4>1, <4>2
    <3>2. h[{}] = base
      OBVIOUS
    <3>. HIDE DEF h
    <3>. QED
      BY <3>1, <3>2 DEF Folds
  <2>. HIDE DEF h
  <2>. QED
    BY <2>2, <2>4
<1>. HIDE DEF G
<1>2. \A T \in SUBSET D : T \in G
  BY <1>1, SubsetInduction
<1>. QED
  BY <1>2 DEF G

\* What the steps of a fold keep: G has the sets with what the fold over them may be.
LEMMA FoldKeeps ==
    ASSUME NEW D, IsFiniteSet(D), NEW op, NEW base, NEW f, Folds(f, op, base, D),
           NEW G, <<{}, base>> \in G,
           \A t : \A T \in SUBSET D, x \in D :
              x \in T /\ <<T \ {x}, t>> \in G => <<T, op[<<x, t>>]>> \in G
    PROVE  <<D, f[D]>> \in G
<1>. DEFINE H == {T \in SUBSET D : <<T, f[T]>> \in G}
<1>1. ASSUME NEW T \in SUBSET D, \A U \in SUBSET T : U # T => U \in H PROVE T \in H
  <2>1. CASE T = {}
    BY <2>1 DEF Folds
  <2>2. CASE T # {}
    <3>1. First(T) \in T /\ T \ {First(T)} \in H
      BY <1>1, <2>2, FirstIn
    <3>2. f[T] = op[<<First(T), f[T \ {First(T)}]>>]
      BY <2>2 DEF Folds
    <3>. QED
      BY <3>1, <3>2
  <2>. QED
    BY <2>1, <2>2
<1>. HIDE DEF H
<1>2. \A T \in SUBSET D : T \in H
  BY <1>1, SubsetInduction
<1>. QED
  BY <1>2 DEF H

-----------------------------------------------------------------------------
(* Sums, which are folds too.                                              *)

\* h has the sum of f over each subset of D.
Sums(h, f, D) ==
    /\ h \in [SUBSET D -> Int]
    /\ \A T \in SUBSET D :
          h[T] = IF T = {} THEN 0 ELSE f[First(T)] + h[T \ {First(T)}]

LEMMA SumsUnique ==
    ASSUME NEW D, IsFiniteSet(D), NEW E \in SUBSET D, NEW f, NEW g,
           \A x \in E : f[x] = g[x],
           NEW h, Sums(h, f, D), NEW k, Sums(k, g, E)
    PROVE  h[E] = k[E]
<1>1. IsFiniteSet(E)
  BY FS_Subset
<1>2. h[{}] = k[{}]
  BY DEF Sums
<1>3. ASSUME NEW T \in SUBSET E, T # {}, h[T \ {First(T)}] = k[T \ {First(T)}]
      PROVE  h[T] = k[T]
  <2>1. First(T) \in T
    BY <1>3, FirstIn
  <2>2. h[T] = f[First(T)] + h[T \ {First(T)}] /\ k[T] = g[First(T)] + k[T \ {First(T)}]
    BY <1>3 DEF Sums
  <2>. QED
    BY <1>3, <2>1, <2>2
<1>. QED
  BY <1>1, <1>2, <1>3, FoldsAgree

LEMMA SumsExist ==
    ASSUME NEW D, IsFiniteSet(D), NEW f \in [D -> Int]
    PROVE  \E h : Sums(h, f, D)
<1>. DEFINE op == [p \in D \X Int |-> f[p[1]] + p[2]]
<1>1. op \in [D \X Int -> Int] /\ 0 \in Int
  OBVIOUS
<1>2. ASSUME NEW x \in D, NEW m \in Int PROVE op[<<x, m>>] = f[x] + m
  OBVIOUS
<1>. HIDE DEF op
<1>3. PICK h \in [SUBSET D -> Int] : Folds(h, op, 0, D)
  BY <1>1, FoldExists
<1>4. ASSUME NEW T \in SUBSET D PROVE h[T] = IF T = {} THEN 0 ELSE f[First(T)] + h[T \ {First(T)}]
  <2>1. CASE T = {}
    BY <1>3, <2>1 DEF Folds
  <2>2. CASE T # {}
    <3>1. First(T) \in D /\ T \ {First(T)} \in SUBSET D
      BY <2>2, FirstIn
    <3>2. h[T] = op[<<First(T), h[T \ {First(T)}]>>] /\ h[T \ {First(T)}] \in Int
      BY <1>3, <2>2, <3>1 DEF Folds
    <3>. QED
      BY <1>2, <2>2, <3>1, <3>2
  <2>. QED
    BY <2>1, <2>2
<1>. QED
  BY <1>3, <1>4 DEF Sums

\* SumFunction is such a sum.
LEMMA SumIs ==
    ASSUME NEW D, IsFiniteSet(D), NEW f \in [D -> Int],
           NEW h, Sums(h, f, D)
    PROVE  SumFunction(f) = h[D]
<1>. DEFINE Is(k) == k = [T \in SUBSET D |-> IF T = {} THEN 0 ELSE f[First(T)] + k[T \ {First(T)}]]
            k0 == CHOOSE k : Is(k)
<1>1. Is(h)
  BY DEF Sums
<1>2. Is(k0)
  <2>. HIDE DEF Is
  <2>. QED
    BY <1>1
<1>3. SumFunction(f) = k0[D]
  BY DEF SumFunction, SumFunctionOnSet, FoldFunctionOnSet, MapThenFoldSet, First
<1>4. ASSUME NEW T \in SUBSET D PROVE k0[T] = h[T]
  <2>. DEFINE G == {U \in SUBSET D : h[U] = k0[U]}
  <2>0. ASSUME NEW U \in SUBSET D
        PROVE  k0[U] = IF U = {} THEN 0 ELSE f[First(U)] + k0[U \ {First(U)}]
    <3>. HIDE DEF k0
    <3>. QED
      BY <1>2
  <2>1. ASSUME NEW U \in SUBSET D, \A W \in SUBSET U : W # U => W \in G PROVE U \in G
    <3>. HIDE DEF k0
    <3>1. CASE U = {}
      BY <2>0, <3>1 DEF Sums
    <3>2. CASE U # {}
      <4>1. First(U) \in U
        BY <3>2, FirstIn
      <4>2. U \ {First(U)} \in G
        <5>. HIDE DEF G
        <5>. QED
          BY <2>1, <4>1
      <4>3. h[U] = f[First(U)] + h[U \ {First(U)}]
        BY <3>2 DEF Sums
      <4>. QED
        BY <2>0, <3>2, <4>1, <4>2, <4>3
    <3>. QED
      BY <3>1, <3>2
  <2>. HIDE DEF G, k0
  <2>2. \A U \in SUBSET D : U \in G
    BY <2>1, SubsetInduction
  <2>. QED
    BY <2>2 DEF G
<1>. HIDE DEF k0
<1>. QED
  BY <1>3, <1>4

\* A sum is what any of its elements adds to the sum of the rest.
LEMMA SumsAny ==
    ASSUME NEW D, IsFiniteSet(D), NEW f \in [D -> Int], NEW h, Sums(h, f, D)
    PROVE  \A T \in SUBSET D : \A x \in T : h[T] = f[x] + h[T \ {x}]
<1>. DEFINE G == {T \in SUBSET D : \A x \in T : h[T] = f[x] + h[T \ {x}]}
<1>0. \A U \in SUBSET D : h[U] \in Int
  BY DEF Sums
<1>1. ASSUME NEW T \in SUBSET D, \A U \in SUBSET T : U # T => U \in G PROVE T \in G
  <2>1. SUFFICES ASSUME NEW x \in T PROVE h[T] = f[x] + h[T \ {x}]
    OBVIOUS
  <2>. DEFINE y == First(T)
  <2>2. y \in T
    BY FirstIn
  <2>3. h[T] = f[y] + h[T \ {y}]
    BY DEF Sums
  <2>4. CASE x # y
    <3>1. T \ {y} \in G /\ x \in T \ {y} /\ T \ {x} \in G /\ y \in T \ {x}
      <4>. HIDE DEF y, G
      <4>. QED
        BY <1>1, <2>2, <2>4
    <3>. DEFINE W == T \ {x, y}
    <3>2. h[T \ {y}] = f[x] + h[(T \ {y}) \ {x}] /\ h[T \ {x}] = f[y] + h[(T \ {x}) \ {y}]
      BY <3>1
    <3>3. (T \ {y}) \ {x} = W /\ (T \ {x}) \ {y} = W /\ W \in SUBSET D
      OBVIOUS
    <3>4. h[W] \in Int /\ f[x] \in Int /\ f[y] \in Int
      BY <1>0, <2>2, <3>3
    <3>5. h[T \ {y}] = f[x] + h[W] /\ h[T \ {x}] = f[y] + h[W]
      BY <3>2, <3>3
    <3>. HIDE DEF y, G, W
    <3>. QED
      BY <2>3, <3>4, <3>5
  <2>. QED
    BY <2>3, <2>4
<1>. HIDE DEF G
<1>2. \A T \in SUBSET D : T \in G
  BY <1>1, SubsetInduction
<1>. QED
  BY <1>2 DEF G

LEMMA SumType ==
    ASSUME NEW D, IsFiniteSet(D), NEW f \in [D -> Int]
    PROVE  SumFunction(f) \in Int
<1>1. PICK h : Sums(h, f, D)
  BY SumsExist
<1>2. SumFunction(f) = h[D]
  BY <1>1, SumIs
<1>. QED
  BY <1>1, <1>2 DEF Sums

LEMMA SumEmpty ==
    ASSUME NEW f \in [{} -> Int]
    PROVE  SumFunction(f) = 0
<1>0. IsFiniteSet({})
  BY FS_EmptySet
<1>1. PICK h : Sums(h, f, {})
  BY <1>0, SumsExist
<1>2. SumFunction(f) = h[{}]
  BY <1>0, <1>1, SumIs
<1>. QED
  BY <1>1, <1>2 DEF Sums

\* One more summand.
LEMMA SumMore ==
    ASSUME NEW D, IsFiniteSet(D), NEW x \in D,
           NEW f \in [D \ {x} -> Int], NEW g \in [D -> Int],
           \A y \in D \ {x} : g[y] = f[y]
    PROVE  SumFunction(g) = SumFunction(f) + g[x]
<1>0. IsFiniteSet(D \ {x})
  BY FS_RemoveElement
<1>1. PICK h : Sums(h, f, D \ {x})
  BY <1>0, SumsExist
<1>2. PICK k : Sums(k, g, D)
  BY SumsExist
<1>3. k[D] = g[x] + k[D \ {x}]
  BY <1>2, SumsAny
<1>4. k[D \ {x}] = h[D \ {x}]
  <2>. DEFINE E == D \ {x}
  <2>1. E \in SUBSET D /\ Sums(h, f, E) /\ \A y \in E : g[y] = f[y]
    BY <1>1
  <2>. HIDE DEF E
  <2>2. k[E] = h[E]
    BY <1>2, <2>1, SumsUnique
  <2>. QED
    BY <2>2 DEF E
<1>5. SumFunction(f) = h[D \ {x}] /\ SumFunction(g) = k[D]
  BY <1>0, <1>1, <1>2, SumIs
<1>6. g[x] \in Int /\ h[D \ {x}] \in Int
  BY <1>1 DEF Sums
<1>. QED
  BY <1>3, <1>4, <1>5, <1>6

\* One summand changed.
LEMMA SumOther ==
    ASSUME NEW D, IsFiniteSet(D), NEW x \in D,
           NEW f \in [D -> Int], NEW g \in [D -> Int],
           \A y \in D \ {x} : g[y] = f[y]
    PROVE  SumFunction(g) = SumFunction(f) + (g[x] - f[x])
<1>. DEFINE r == [y \in D \ {x} |-> f[y]]
<1>1. r \in [D \ {x} -> Int]
  OBVIOUS
<1>2. \A y \in D \ {x} : g[y] = r[y] /\ f[y] = r[y]
  OBVIOUS
<1>. HIDE DEF r
<1>3. SumFunction(g) = SumFunction(r) + g[x] /\ SumFunction(f) = SumFunction(r) + f[x]
  BY <1>1, <1>2, SumMore
<1>4. IsFiniteSet(D \ {x})
  BY FS_RemoveElement
<1>5. SumFunction(r) \in Int /\ g[x] \in Int /\ f[x] \in Int
  BY <1>1, <1>4, SumType
<1>. QED
  BY <1>3, <1>5

-----------------------------------------------------------------------------
(* The market.                                                             *)

What == {"money", "goods"}

CopiesType == [inGame : [Player -> Holding \cup {None}], stored : [Player -> Holding]]
HasIn(s, p) == IF s.inGame[p] # None THEN s.inGame[p] ELSE s.stored[p]

\* All that the players have of what, and all that is in the offers
Held(s, what) == SumFunction([p \in Player |-> HasIn(s, p)[what]])
InOffers(o, what) == SumFunction([i \in Id |-> Worth(o[i], what)])

\* The rows of an answer are of different offers made so far, each as it was
\* but for its amount, or gone since.
ReadFrom(rows, o, last) ==
    /\ IsFiniteSet(rows)
    /\ \A r, q \in rows : r.id = q.id => r = q
    /\ \A r \in rows :
          /\ r.id <= last
          /\ o[r.id] = None \/ o[r.id].type = r.offer.type

MarketInv ==
    /\ MarketTypeOK
    /\ \A i \in Id : i > lastId => offers[i] = None
    /\ \A k \in 1..Len(answers) : ReadFrom(answers[k], offers, lastId)

\* What arithmetic the products need
LEMMA Products ==
    ASSUME NEW a \in Nat, NEW n \in Int, NEW m \in Int
    PROVE  /\ a * n \in Int /\ (n \in Nat => a * n \in Nat)
           /\ a * (n - m) = a * n - a * m
           /\ a * (-n) = -(a * n)
OBVIOUS

LEMMA PledgeTypes ==
    ASSUME NEW type \in {"buy", "sell"}
    PROVE  Pledge(type).what \in What /\ Pledge(type).each \in Nat
BY MarketAssumption DEF Pledge, What

LEMMA PiecesTypes ==
    ASSUME NEW type \in {"buy", "sell"}, NEW v \in What, NEW n \in Int, NEW m \in Int
    PROVE  /\ Pieces(type, v, n) \in Int /\ (n \in Nat => Pieces(type, v, n) \in Nat)
           /\ Pieces(type, v, n - m) = Pieces(type, v, n) - Pieces(type, v, m)
<1>. DEFINE e == Pledge(type).each
<1>1. e \in Nat
  BY PledgeTypes
<1>2. Pieces(type, v, n) = IF Pledge(type).what # v THEN 0 ELSE e * n
  BY DEF Pieces
<1>3. Pieces(type, v, m) = IF Pledge(type).what # v THEN 0 ELSE e * m
  BY DEF Pieces
<1>4. Pieces(type, v, n - m) = IF Pledge(type).what # v THEN 0 ELSE e * (n - m)
  BY DEF Pieces
<1>. HIDE DEF e
<1>5. /\ e * n \in Int /\ (n \in Nat => e * n \in Nat) /\ e * m \in Int
      /\ e * (n - m) = e * n - e * m
  BY <1>1, Products
<1>. QED
  BY <1>2, <1>3, <1>4, <1>5

LEMMA WorthTypes ==
    ASSUME NEW o \in Offer \cup {None}, NEW v \in What
    PROVE  Worth(o, v) \in Int
<1>1. CASE o = None
  BY <1>1 DEF Worth
<1>2. CASE o # None
  <2>1. o.type \in {"buy", "sell"} /\ o.amount \in Int
    BY <1>2 DEF Offer
  <2>. QED
    BY <1>2, <2>1, PiecesTypes DEF Worth
<1>. QED
  BY <1>1, <1>2

LEMMA HoldingMore ==
    ASSUME NEW h \in Holding, NEW what \in What, NEW n \in Int, h[what] + n \in Nat
    PROVE  /\ [h EXCEPT ![what] = @ + n] \in Holding
           /\ \A v \in What :
                 [h EXCEPT ![what] = @ + n][v] = h[v] + (IF v = what THEN n ELSE 0)
BY DEF Holding, What

LEMMA HoldingTypes ==
    ASSUME NEW h \in Holding, NEW v \in What
    PROVE  h[v] \in Nat /\ h # None
BY MarketAssumption DEF Holding, What

LEMMA HasTypes ==
    ASSUME NEW s \in CopiesType, NEW p \in Player
    PROVE  HasIn(s, p) \in Holding /\ \A v \in What : HasIn(s, p)[v] \in Nat
<1>1. HasIn(s, p) \in Holding
  BY DEF CopiesType, HasIn
<1>. QED
  BY <1>1, HoldingTypes

\* Gets gives to the copy that counts, and to nobody else's.
LEMMA GetsTypes ==
    ASSUME NEW s \in CopiesType, NEW p \in Player, NEW what \in What, NEW n \in Int,
           HasIn(s, p)[what] + n \in Nat
    PROVE  LET t == Gets(s, p, what, n)
           IN  /\ t \in CopiesType
               /\ \A v \in What : HasIn(t, p)[v] = HasIn(s, p)[v] + (IF v = what THEN n ELSE 0)
               /\ \A q \in Player \ {p} : HasIn(t, q) = HasIn(s, q)
<1>. DEFINE h == HasIn(s, p)
            k == [h EXCEPT ![what] = @ + n]
            t == Gets(s, p, what, n)
<1>1. /\ h \in Holding
      /\ s.inGame \in [Player -> Holding \cup {None}] /\ s.stored \in [Player -> Holding]
      /\ s = [inGame |-> s.inGame, stored |-> s.stored]
  BY HasTypes DEF CopiesType
<1>2. k \in Holding /\ \A v \in What : k[v] = h[v] + (IF v = what THEN n ELSE 0)
  <2>1. h[what] + n \in Nat
    OBVIOUS
  <2>. HIDE DEF h
  <2>. QED
    BY <1>1, <2>1, HoldingMore
<1>3. k # None
  <2>. HIDE DEF k
  <2>. QED
    BY <1>2, MarketAssumption
<1>4. CASE s.inGame[p] # None
  <2>1. h = s.inGame[p]
    BY <1>4 DEF HasIn
  <2>2. t = [s EXCEPT !.inGame[p] = k]
    BY <1>1, <1>4, <2>1 DEF Gets
  <2>. HIDE DEF k, t, h
  <2>3. t.inGame = [s.inGame EXCEPT ![p] = k] /\ t.stored = s.stored
        /\ t = [inGame |-> t.inGame, stored |-> t.stored]
    BY <1>1, <2>2
  <2>4. t.inGame \in [Player -> Holding \cup {None}]
    BY <1>1, <1>2, <2>3
  <2>5. t \in CopiesType
    BY <1>1, <2>3, <2>4 DEF CopiesType
  <2>6. HasIn(t, p) = k /\ \A q \in Player \ {p} : HasIn(t, q) = HasIn(s, q)
    BY <1>1, <1>3, <2>3 DEF HasIn
  <2>. QED
    BY <1>2, <2>5, <2>6 DEF t, h
<1>5. CASE s.inGame[p] = None
  <2>1. h = s.stored[p]
    BY <1>5 DEF HasIn
  <2>2. t = [s EXCEPT !.stored[p] = k]
    BY <1>1, <1>5, <2>1 DEF Gets
  <2>. HIDE DEF k, t, h
  <2>3. t.stored = [s.stored EXCEPT ![p] = k] /\ t.inGame = s.inGame
        /\ t = [inGame |-> t.inGame, stored |-> t.stored]
    BY <1>1, <2>2
  <2>4. t.stored \in [Player -> Holding]
    BY <1>1, <1>2, <2>3
  <2>5. t \in CopiesType
    BY <1>1, <2>3, <2>4 DEF CopiesType
  <2>6. HasIn(t, p) = k /\ \A q \in Player \ {p} : HasIn(t, q) = HasIn(s, q)
    BY <1>1, <1>5, <2>3 DEF HasIn
  <2>. QED
    BY <1>2, <2>5, <2>6 DEF t, h
<1>. QED
  BY <1>4, <1>5

LEMMA HeldTypes ==
    ASSUME NEW s \in CopiesType, NEW v \in What
    PROVE  Held(s, v) \in Int
<1>. DEFINE f == [p \in Player |-> HasIn(s, p)[v]]
<1>1. f \in [Player -> Int]
  BY HasTypes
<1>. HIDE DEF f
<1>2. SumFunction(f) \in Int
  BY <1>1, MarketAssumption, SumType
<1>. QED
  BY <1>2 DEF Held, f

\* So all that the players have grows by what one gets.
LEMMA GetsHeld ==
    ASSUME NEW s \in CopiesType, NEW p \in Player, NEW what \in What, NEW n \in Int,
           HasIn(s, p)[what] + n \in Nat, NEW v \in What
    PROVE  Held(Gets(s, p, what, n), v) = Held(s, v) + (IF v = what THEN n ELSE 0)
<1>. DEFINE t == Gets(s, p, what, n)
            f == [q \in Player |-> HasIn(s, q)[v]]
            g == [q \in Player |-> HasIn(t, q)[v]]
            d == IF v = what THEN n ELSE 0
<1>1. /\ t \in CopiesType
      /\ HasIn(t, p)[v] = HasIn(s, p)[v] + d
      /\ \A q \in Player \ {p} : HasIn(t, q) = HasIn(s, q)
  BY GetsTypes
<1>. HIDE DEF t
<1>2. f \in [Player -> Int] /\ g \in [Player -> Int]
  BY <1>1, HasTypes
<1>3. g[p] = f[p] + d /\ \A q \in Player \ {p} : g[q] = f[q]
  BY <1>1
<1>4. d \in Int
  OBVIOUS
<1>. HIDE DEF f, g, d
<1>5. SumFunction(g) = SumFunction(f) + (g[p] - f[p])
  BY <1>2, <1>3, MarketAssumption, SumOther
<1>6. f[p] \in Int /\ SumFunction(f) \in Int
  BY <1>2, MarketAssumption, SumType
<1>7. SumFunction(g) = SumFunction(f) + d
  BY <1>3, <1>4, <1>5, <1>6
<1>. QED
  BY <1>7 DEF Held, f, g, d, t

\* A pledge is given, or n < 0 taken.
LEMMA PledgedHeld ==
    ASSUME NEW s \in CopiesType, NEW p \in Player, NEW type \in {"buy", "sell"}, NEW n \in Int,
           HasIn(s, p)[Pledge(type).what] + Pledge(type).each * n \in Nat
    PROVE  /\ Pledged(s, p, type, n) \in CopiesType
           /\ \A v \in What : Held(Pledged(s, p, type, n), v) = Held(s, v) + Pieces(type, v, n)
<1>. DEFINE w == Pledge(type).what
            e == Pledge(type).each
            z == e * n
<1>1. w \in What /\ e \in Nat
  BY PledgeTypes
<1>2. Pledged(s, p, type, n) = Gets(s, p, w, z)
  BY DEF Pledged
<1>3. \A v : Pieces(type, v, n) = IF v = w THEN z ELSE 0
  BY DEF Pieces
<1>4. HasIn(s, p)[w] + z \in Nat
  OBVIOUS
<1>. HIDE DEF w, e
<1>5. z \in Int
  BY <1>1, Products
<1>. HIDE DEF z
<1>6. Gets(s, p, w, z) \in CopiesType
  BY <1>1, <1>4, <1>5, GetsTypes
<1>7. \A v \in What : Held(Gets(s, p, w, z), v) = Held(s, v) + (IF v = w THEN z ELSE 0)
  BY <1>1, <1>4, <1>5, GetsHeld
<1>. QED
  BY <1>2, <1>3, <1>6, <1>7

LEMMA InOffersTypes ==
    ASSUME NEW o \in [Id -> Offer \cup {None}], NEW v \in What
    PROVE  InOffers(o, v) \in Int
<1>. DEFINE f == [i \in Id |-> Worth(o[i], v)]
<1>1. f \in [Id -> Int]
  BY WorthTypes
<1>2. IsFiniteSet(Id)
  BY FS_Interval, MarketAssumption DEF Id
<1>. HIDE DEF f
<1>3. SumFunction(f) \in Int
  BY <1>1, <1>2, SumType
<1>. QED
  BY <1>3 DEF InOffers, f

\* One offer is made, changed or gone.
LEMMA OneOffer ==
    ASSUME NEW o \in [Id -> Offer \cup {None}], NEW i \in Id, NEW new \in Offer \cup {None},
           NEW v \in What
    PROVE  InOffers([o EXCEPT ![i] = new], v) = InOffers(o, v) + (Worth(new, v) - Worth(o[i], v))
<1>. DEFINE u == [o EXCEPT ![i] = new]
            f == [j \in Id |-> Worth(o[j], v)]
            g == [j \in Id |-> Worth(u[j], v)]
<1>1. u \in [Id -> Offer \cup {None}] /\ u[i] = new /\ \A j \in Id \ {i} : u[j] = o[j]
  OBVIOUS
<1>. HIDE DEF u
<1>2. f \in [Id -> Int] /\ g \in [Id -> Int]
  BY <1>1, WorthTypes
<1>3. g[i] = Worth(new, v) /\ f[i] = Worth(o[i], v) /\ \A j \in Id \ {i} : g[j] = f[j]
  BY <1>1
<1>4. IsFiniteSet(Id)
  BY FS_Interval, MarketAssumption DEF Id
<1>. HIDE DEF f, g
<1>5. SumFunction(g) = SumFunction(f) + (g[i] - f[i])
  BY <1>2, <1>3, <1>4, SumOther
<1>. QED
  BY <1>3, <1>5 DEF InOffers, f, g, u

-----------------------------------------------------------------------------
(* The steps.                                                              *)

TotalKept(v) ==
    Total(v)' = Total(v) + (IF Len(answers') < Len(answers) THEN TakenSince(v) ELSE 0)

LEMMA TotalIs ==
    ASSUME NEW v
    PROVE  Total(v) = Held(Copies, v) + InOffers(offers, v)
BY DEF Total, Held, InOffers, HasIn, Has, Online, Copies

LEMMA TotalAfter ==
    ASSUME NEW v, NEW t, Players(t)
    PROVE  Total(v)' = Held(t, v) + InOffers(offers', v)
BY DEF Total, Held, InOffers, HasIn, Has, Online, Players

LEMMA CopiesTypes ==
    ASSUME MarketInv
    PROVE  Copies \in CopiesType /\ \A p \in Player : HasIn(Copies, p) = Has(p)
BY DEF MarketInv, MarketTypeOK, CopiesType, Copies, HasIn, Has, Online

\* Nothing changes but who is in the game: what it has it keeps.
LEMMA SameTotal ==
    ASSUME MarketInv, NEW t, Players(t), \A p \in Player : HasIn(t, p) = Has(p),
           UNCHANGED offers, ~(Len(answers') < Len(answers)), NEW v \in What
    PROVE  TotalKept(v)
<1>1. Held(t, v) = Held(Copies, v)
  BY CopiesTypes DEF Held
<1>2. Total(v)' = Total(v)
  BY <1>1, TotalIs, TotalAfter
<1>3. Total(v) \in Int
  <2>1. Held(Copies, v) \in Int /\ InOffers(offers, v) \in Int
    BY CopiesTypes, HeldTypes, InOffersTypes DEF MarketInv, MarketTypeOK
  <2>. QED
    BY <2>1, TotalIs
<1>. QED
  BY <1>2, <1>3 DEF TotalKept

\* What moves between players and offers
LEMMA MovedTotal ==
    ASSUME MarketInv, NEW t \in CopiesType, Players(t), offers' \in [Id -> Offer \cup {None}],
           UNCHANGED answers, NEW v \in What, NEW d \in Int,
           Held(t, v) = Held(Copies, v) + d, InOffers(offers', v) = InOffers(offers, v) - d
    PROVE  TotalKept(v)
<1>1. Held(Copies, v) \in Int /\ InOffers(offers, v) \in Int
  BY CopiesTypes, HeldTypes, InOffersTypes DEF MarketInv, MarketTypeOK
<1>2. Total(v) = Held(Copies, v) + InOffers(offers, v)
  BY TotalIs
<1>3. Total(v)' = Held(t, v) + InOffers(offers', v)
  BY TotalAfter
<1>4. Total(v)' = Total(v) /\ Total(v) \in Int
  BY <1>1, <1>2, <1>3
<1>5. answers \in Seq(SUBSET Row) /\ Len(answers) \in Nat
  BY LenProperties DEF MarketInv, MarketTypeOK
<1>6. ~(Len(answers') < Len(answers))
  BY <1>5
<1>. QED
  BY <1>4, <1>6 DEF TotalKept

\* Offers go or stay of their type, and new ones have new numbers.
OffersStay ==
    /\ offers' \in [Id -> Offer \cup {None}]
    /\ \A i \in Id : i > lastId' => offers'[i] = None
    /\ \A i \in Id : i <= lastId =>
          offers'[i] = None \/ (offers[i] # None /\ offers'[i].type = offers[i].type)

LEMMA MarketInvKept ==
    ASSUME MarketInv, up' \in BOOLEAN, NEW t \in CopiesType, Players(t), OffersStay,
           lastId' \in lastId..MaxOffers, aged' \in 0..lastId',
           queries' \in Seq(0..MaxOffers), answers' \in Seq(SUBSET Row),
           \A k \in 1..Len(answers') : ReadFrom(answers'[k], offers, lastId)
    PROVE  MarketInv'
<1>1. inGame' \in [Player -> Holding \cup {None}] /\ stored' \in [Player -> Holding]
  BY DEF Players, CopiesType
<1>2. lastId \in 0..MaxOffers /\ MaxOffers \in Nat
  BY MarketAssumption DEF MarketInv, MarketTypeOK
<1>3. MarketTypeOK'
  BY <1>1, <1>2 DEF MarketTypeOK, OffersStay
<1>4. ASSUME NEW k \in 1..Len(answers') PROVE ReadFrom(answers'[k], offers', lastId')
  <2>1. answers'[k] \in SUBSET Row
    BY ElementOfSeq
  <2>2. ReadFrom(answers'[k], offers, lastId)
    OBVIOUS
  <2>3. ASSUME NEW r \in answers'[k]
        PROVE  r.id <= lastId' /\ (offers'[r.id] = None \/ offers'[r.id].type = r.offer.type)
    <3>1. r.id \in Id /\ r.id \in Int
      BY <2>1, <2>3 DEF Row, Id
    <3>2. r.id <= lastId /\ (offers[r.id] = None \/ offers[r.id].type = r.offer.type)
      BY <2>2, <2>3 DEF ReadFrom
    <3>3. r.id <= lastId'
      BY <1>2, <3>1, <3>2
    <3>. QED
      BY <3>1, <3>2, <3>3 DEF OffersStay
  <2>. QED
    BY <2>2, <2>3 DEF ReadFrom
<1>. QED
  BY <1>3, <1>4 DEF MarketInv, OffersStay

Kept == MarketInv' /\ \A v \in What : TotalKept(v)

LEMMA SameAnswers ==
    ASSUME MarketInv, UNCHANGED answers
    PROVE  /\ answers' \in Seq(SUBSET Row)
           /\ \A k \in 1..Len(answers') : ReadFrom(answers'[k], offers, lastId)
           /\ ~(Len(answers') < Len(answers))
<1>1. answers \in Seq(SUBSET Row) /\ Len(answers) \in Nat
  BY LenProperties DEF MarketInv, MarketTypeOK
<1>. QED
  BY <1>1 DEF MarketInv

LEMMA SameTable ==
    ASSUME MarketInv, UNCHANGED table
    PROVE  OffersStay /\ lastId' \in lastId..MaxOffers /\ offers' = offers
<1>1. lastId \in 0..MaxOffers /\ MaxOffers \in Nat
  BY MarketAssumption DEF MarketInv, MarketTypeOK
<1>2. lastId' = lastId /\ offers' = offers
  BY DEF table
<1>3. OffersStay
  BY <1>2 DEF OffersStay, MarketInv, MarketTypeOK
<1>. QED
  BY <1>1, <1>2, <1>3

LEMMA TypesNow ==
    ASSUME MarketInv
    PROVE  /\ up \in BOOLEAN /\ lastId \in 0..MaxOffers /\ aged \in 0..lastId
           /\ MaxOffers \in Nat /\ queries \in Seq(0..MaxOffers)
           /\ offers \in [Id -> Offer \cup {None}]
           /\ inGame \in [Player -> Holding \cup {None}] /\ stored \in [Player -> Holding]
BY MarketAssumption DEF MarketInv, MarketTypeOK

\* In the game or out of it a player has the same.
LEMMA LoginKeeps ==
    ASSUME MarketInv, NEW p \in Player, Login(p) \/ Logout(p)
    PROVE  Kept
<1>. DEFINE t == [inGame |-> inGame', stored |-> stored']
<1>1. /\ UNCHANGED up /\ UNCHANGED table /\ UNCHANGED expiry
      /\ UNCHANGED answers /\ UNCHANGED aged /\ UNCHANGED queries
  BY DEF Login, Logout, expiry
<1>2. t \in CopiesType /\ \A q \in Player : HasIn(t, q) = Has(q)
  <2>1. CASE Login(p)
    <3>1. inGame[p] = None /\ inGame' = [inGame EXCEPT ![p] = stored[p]] /\ stored' = stored
      BY <2>1 DEF Login, Online
    <3>2. stored[p] \in Holding /\ stored[p] # None
      BY TypesNow, HoldingTypes, MarketAssumption
    <3>3. inGame' \in [Player -> Holding \cup {None}] /\ stored' \in [Player -> Holding]
      BY <3>1, <3>2, TypesNow
    <3>4. t \in CopiesType
      BY <3>3 DEF CopiesType
    <3>. QED
      BY <3>1, <3>2, <3>4, TypesNow DEF HasIn, Has, Online
  <2>2. CASE Logout(p)
    <3>1. /\ inGame[p] # None /\ stored' = [stored EXCEPT ![p] = inGame[p]]
          /\ inGame' = [inGame EXCEPT ![p] = None]
      BY <2>2 DEF Logout, Online
    <3>2. inGame[p] \in Holding
      BY <3>1, TypesNow
    <3>3. inGame' \in [Player -> Holding \cup {None}] /\ stored' \in [Player -> Holding]
      BY <3>1, <3>2, TypesNow
    <3>4. t \in CopiesType
      BY <3>3 DEF CopiesType
    <3>. QED
      BY <3>1, <3>2, <3>4, TypesNow DEF HasIn, Has, Online
  <2>. QED
    BY <2>1, <2>2
<1>3. Players(t)
  BY DEF Players
<1>. HIDE DEF t
<1>4. aged' \in 0..lastId'
  BY <1>1, TypesNow DEF table
<1>5. MarketInv'
  BY <1>1, <1>2, <1>3, <1>4, TypesNow, SameAnswers, SameTable, MarketInvKept
<1>6. \A v \in What : TotalKept(v)
  BY <1>1, <1>2, <1>3, SameAnswers, SameTable, SameTotal
<1>. QED
  BY <1>5, <1>6 DEF Kept

\* Nothing that is anyone's changes.
LEMMA NothingMoves ==
    ASSUME MarketInv, UNCHANGED players, UNCHANGED offers
    PROVE  \E t \in CopiesType : Players(t) /\ \A q \in Player : HasIn(t, q) = Has(q)
<1>1. Players(Copies)
  BY DEF Players, players, Copies
<1>. QED
  BY <1>1, CopiesTypes

LEMMA StopKeeps ==
    ASSUME MarketInv, up' \in BOOLEAN, UNCHANGED <<players, table, expiry>>
    PROVE  Kept
<1>1. UNCHANGED players /\ UNCHANGED table /\ UNCHANGED offers /\ UNCHANGED lastId
      /\ UNCHANGED answers /\ UNCHANGED aged /\ UNCHANGED queries
  BY DEF table, expiry
<1>2. PICK t \in CopiesType : Players(t) /\ \A q \in Player : HasIn(t, q) = Has(q)
  BY <1>1, NothingMoves
<1>3. aged' \in 0..lastId' /\ queries' \in Seq(0..MaxOffers)
  BY <1>1, TypesNow
<1>4. MarketInv'
  BY <1>1, <1>2, <1>3, SameAnswers, SameTable, MarketInvKept
<1>5. \A v \in What : TotalKept(v)
  BY <1>1, <1>2, SameAnswers, SameTotal
<1>. QED
  BY <1>4, <1>5 DEF Kept

LEMMA AgeKeeps ==
    ASSUME MarketInv, Age
    PROVE  Kept
<1>1. UNCHANGED up /\ UNCHANGED players /\ UNCHANGED table /\ UNCHANGED offers
      /\ UNCHANGED lastId /\ UNCHANGED answers /\ UNCHANGED queries
  BY DEF Age, table
<1>2. PICK t \in CopiesType : Players(t) /\ \A q \in Player : HasIn(t, q) = Has(q)
  BY <1>1, NothingMoves
<1>3. aged' \in 0..lastId' /\ queries' \in Seq(0..MaxOffers) /\ up' \in BOOLEAN
  BY <1>1, TypesNow DEF Age
<1>4. MarketInv'
  BY <1>1, <1>2, <1>3, SameAnswers, SameTable, MarketInvKept
<1>5. \A v \in What : TotalKept(v)
  BY <1>1, <1>2, SameAnswers, SameTotal
<1>. QED
  BY <1>4, <1>5 DEF Kept

LEMMA CheckKeeps ==
    ASSUME MarketInv, CheckExpiredOffers
    PROVE  Kept
<1>1. UNCHANGED up /\ UNCHANGED players /\ UNCHANGED table /\ UNCHANGED offers
      /\ UNCHANGED lastId /\ UNCHANGED answers /\ UNCHANGED aged
      /\ queries' = Append(queries, aged)
  BY DEF CheckExpiredOffers, table
<1>2. PICK t \in CopiesType : Players(t) /\ \A q \in Player : HasIn(t, q) = Has(q)
  BY <1>1, NothingMoves
<1>3. aged \in 0..MaxOffers /\ queries \in Seq(0..MaxOffers)
  BY TypesNow
<1>4. queries' \in Seq(0..MaxOffers)
  BY <1>1, <1>3, AppendProperties
<1>5. aged' \in 0..lastId' /\ up' \in BOOLEAN
  BY <1>1, TypesNow
<1>6. MarketInv'
  BY <1>1, <1>2, <1>4, <1>5, SameAnswers, SameTable, MarketInvKept
<1>7. \A v \in What : TotalKept(v)
  BY <1>1, <1>2, SameAnswers, SameTotal
<1>. QED
  BY <1>6, <1>7 DEF Kept

\* What the database answers is read from the offers there are.
LEMMA ExpiredRead ==
    ASSUME MarketInv, NEW date \in 0..MaxOffers
    PROVE  Expired(date) \in SUBSET Row /\ ReadFrom(Expired(date), offers, lastId)
<1>. DEFINE J == {j \in 1..date : offers[j] # None}
            row(j) == [id |-> j, offer |-> offers[j]]
            D == Expired(date)
<1>1. D = {row(j) : j \in J}
  BY DEF Expired
<1>2. ASSUME NEW j \in J
      PROVE  j \in Id /\ offers[j] \in Offer /\ j <= lastId /\ row(j) \in Row
  <2>1. j \in Id /\ j \in Int
    BY TypesNow DEF Id
  <2>2. offers[j] \in Offer /\ offers[j] # None
    BY <2>1, TypesNow
  <2>3. ~(j > lastId)
    BY <2>1, <2>2 DEF MarketInv
  <2>4. j <= lastId
    BY <2>1, <2>3, TypesNow
  <2>. QED
    BY <2>1, <2>2, <2>4 DEF Row
<1>3. IsFiniteSet(D)
  <2>1. IsFiniteSet(1..date)
    BY FS_Interval
  <2>2. IsFiniteSet(J)
    <3>1. J \in SUBSET (1..date)
      OBVIOUS
    <3>. HIDE DEF J
    <3>. QED
      BY <2>1, <3>1, FS_Subset
  <2>. DEFINE f == [j \in J |-> row(j)]
  <2>3. f \in Surjection(J, D)
    <3>1. f \in [J -> D] /\ \A x \in D : \E j \in J : f[j] = x
      BY <1>1
    <3>. HIDE DEF f, D, J
    <3>. QED
      BY <3>1 DEF Surjection
  <2>. HIDE DEF f, D, J
  <2>. QED
    BY <2>2, <2>3, FS_Surjection
<1>4. ASSUME NEW r \in D PROVE r \in Row /\ r.id <= lastId /\ offers[r.id] = r.offer
  <2>1. PICK j \in J : r = row(j)
    BY <1>1
  <2>. QED
    BY <1>2, <2>1
<1>5. ASSUME NEW r \in D, NEW q \in D, r.id = q.id PROVE r = q
  <2>1. PICK j \in J : r = row(j)
    BY <1>1
  <2>2. PICK k \in J : q = row(k)
    BY <1>1
  <2>. QED
    BY <1>5, <2>1, <2>2
<1>6. D \in SUBSET Row
  BY <1>4
<1>7. ReadFrom(D, offers, lastId)
  <2>. HIDE DEF D
  <2>. QED
    BY <1>3, <1>4, <1>5 DEF ReadFrom
<1>. QED
  BY <1>6, <1>7

LEMMA RunQueryKeeps ==
    ASSUME MarketInv, RunQuery
    PROVE  Kept
<1>. DEFINE rows == Expired(Head(queries))
            n == Len(answers)
<1>1. UNCHANGED up /\ UNCHANGED players /\ UNCHANGED table /\ UNCHANGED offers
      /\ UNCHANGED lastId /\ UNCHANGED aged /\ queries # <<>>
      /\ queries' = Tail(queries) /\ answers' = Append(answers, rows)
  BY DEF RunQuery, table
<1>2. PICK t \in CopiesType : Players(t) /\ \A q \in Player : HasIn(t, q) = Has(q)
  BY <1>1, NothingMoves
<1>3. Head(queries) \in 0..MaxOffers /\ queries' \in Seq(0..MaxOffers)
  BY <1>1, TypesNow, HeadTailProperties
<1>4. rows \in SUBSET Row /\ ReadFrom(rows, offers, lastId)
  BY <1>3, ExpiredRead
<1>5. /\ answers \in Seq(SUBSET Row)
      /\ \A k \in 1..Len(answers) : ReadFrom(answers[k], offers, lastId)
  BY DEF MarketInv, MarketTypeOK
<1>. HIDE DEF rows
<1>6. /\ answers' \in Seq(SUBSET Row) /\ Len(answers') = n + 1 /\ n \in Nat
      /\ answers'[n + 1] = rows /\ \A k \in 1..n : answers'[k] = answers[k]
  BY <1>1, <1>4, <1>5, AppendProperties, LenProperties
<1>7. ASSUME NEW k \in 1..Len(answers') PROVE ReadFrom(answers'[k], offers, lastId)
  <2>1. k \in 1..n \/ k = n + 1
    BY <1>6
  <2>. QED
    BY <1>4, <1>5, <1>6, <2>1
<1>8. ~(Len(answers') < Len(answers))
  BY <1>6
<1>9. aged' \in 0..lastId' /\ up' \in BOOLEAN
  BY <1>1, TypesNow
<1>10. MarketInv'
  BY <1>1, <1>2, <1>3, <1>6, <1>7, <1>9, SameTable, MarketInvKept
<1>11. \A v \in What : TotalKept(v)
  BY <1>1, <1>2, <1>8, SameTotal
<1>. QED
  BY <1>10, <1>11 DEF Kept

\* One offer changes or goes, or a new one comes, and players get what it loses.
LEMMA OfferKeeps ==
    ASSUME MarketInv, NEW t \in CopiesType, Players(t), UNCHANGED up, UNCHANGED expiry,
           NEW i \in Id, NEW new \in Offer \cup {None}, offers' = [offers EXCEPT ![i] = new],
           lastId' \in lastId..MaxOffers, i <= lastId',
           i <= lastId => new = None \/ (offers[i] # None /\ new.type = offers[i].type),
           \A v \in What : Held(t, v) = Held(Copies, v) + (Worth(offers[i], v) - Worth(new, v))
    PROVE  Kept
<1>1. UNCHANGED answers /\ UNCHANGED aged /\ UNCHANGED queries
  BY DEF expiry
<1>2. offers' \in [Id -> Offer \cup {None}] /\ offers[i] \in Offer \cup {None}
  BY TypesNow
<1>3. OffersStay
  <2>1. ASSUME NEW j \in Id, j > lastId' PROVE offers'[j] = None
    <3>1. j \in Int /\ i \in Int /\ lastId \in Int /\ lastId' \in Int /\ lastId <= lastId'
      BY TypesNow DEF Id
    <3>2. j # i /\ j > lastId
      BY <2>1, <3>1
    <3>. QED
      BY <3>2, TypesNow DEF MarketInv
  <2>2. ASSUME NEW j \in Id, j <= lastId
        PROVE  offers'[j] = None \/ (offers[j] # None /\ offers'[j].type = offers[j].type)
    BY <2>2, TypesNow
  <2>. QED
    BY <1>2, <2>1, <2>2 DEF OffersStay
<1>4. /\ aged' \in 0..lastId' /\ queries' \in Seq(0..MaxOffers) /\ up' \in BOOLEAN
  BY <1>1, TypesNow
<1>5. MarketInv'
  BY <1>1, <1>3, <1>4, SameAnswers, MarketInvKept
<1>6. ASSUME NEW v \in What PROVE TotalKept(v)
  <2>. DEFINE a == Worth(offers[i], v)
              b == Worth(new, v)
              d == a - b
  <2>1. a \in Int /\ b \in Int
    BY <1>2, WorthTypes
  <2>2. InOffers(offers', v) = InOffers(offers, v) + (b - a) /\ InOffers(offers, v) \in Int
    BY TypesNow, OneOffer, InOffersTypes
  <2>3. Held(t, v) = Held(Copies, v) + d
    OBVIOUS
  <2>. HIDE DEF a, b
  <2>4. d \in Int /\ InOffers(offers', v) = InOffers(offers, v) - d
    BY <2>1, <2>2
  <2>. HIDE DEF d
  <2>. QED
    BY <1>1, <1>2, <2>3, <2>4, MovedTotal
<1>. QED
  BY <1>5, <1>6 DEF Kept

LEMMA CreateKeeps ==
    ASSUME MarketInv, NEW p \in Player, NEW type \in {"buy", "sell"}, NEW n \in Amount,
           CreateMarketOffer(p, type, n)
    PROVE  Kept
<1>. DEFINE t == Pledged(Copies, p, type, -n)
            new == [player |-> p, type |-> type, amount |-> n]
            i == lastId + 1
            w == Pledge(type).what
            e == Pledge(type).each
<1>1. /\ UNCHANGED up /\ UNCHANGED expiry /\ lastId < MaxOffers /\ lastId' = i /\ Players(t)
      /\ offers' = [offers EXCEPT ![i] = new]
      /\ inGame[p] # None /\ inGame[p][w] >= e * n
  BY DEF CreateMarketOffer, Online
<1>2. n \in Nat \ {0} /\ n \in Int /\ -n \in Int
  BY MarketAssumption
<1>3. i \in Id /\ i \in lastId..MaxOffers /\ i <= i /\ i > lastId
  BY <1>1, TypesNow DEF Id
<1>4. offers[i] = None /\ new \in Offer \cup {None}
  BY <1>2, <1>3 DEF MarketInv, Offer
<1>5. w \in What /\ e \in Nat
  BY PledgeTypes
<1>6. HasIn(Copies, p)[w] = inGame[p][w] /\ inGame[p][w] \in Nat
  <2>1. inGame[p] \in Holding
    BY <1>1, TypesNow
  <2>. QED
    BY <1>1, <1>5, <2>1, CopiesTypes, HoldingTypes DEF Has, Online
<1>. DEFINE have == HasIn(Copies, p)[w]
<1>7. have + e * (-n) \in Nat
  <2>1. e * (-n) = -(e * n) /\ e * n \in Int
    BY <1>2, <1>5, Products
  <2>2. have \in Nat /\ have >= e * n
    BY <1>1, <1>6
  <2>. HIDE DEF e, have
  <2>. QED
    BY <2>1, <2>2
<1>8. t \in CopiesType /\ \A v \in What : Held(t, v) = Held(Copies, v) + Pieces(type, v, -n)
  BY <1>2, <1>7, CopiesTypes, PledgedHeld
<1>9. ASSUME NEW v \in What
      PROVE  Held(t, v) = Held(Copies, v) + (Worth(offers[i], v) - Worth(new, v))
  <2>1. Worth(offers[i], v) = 0
    BY <1>4 DEF Worth
  <2>2. Worth(new, v) = Pieces(type, v, n)
    <3>1. new # None
      <4>1. new \in Offer
        BY <1>2 DEF Offer
      <4>. HIDE DEF new
      <4>. QED
        BY <4>1, MarketAssumption
    <3>. QED
      BY <3>1 DEF Worth
  <2>3. Pieces(type, v, -n) = 0 - Pieces(type, v, n)
    <3>1. /\ Pieces(type, v, 0 - n) = Pieces(type, v, 0) - Pieces(type, v, n)
      BY <1>2, PiecesTypes
    <3>2. Pieces(type, v, 0) = 0
      BY <1>5 DEF Pieces
    <3>3. 0 - n = -n
      BY <1>2
    <3>. QED
      BY <3>1, <3>2, <3>3
  <2>. QED
    BY <1>8, <2>1, <2>2, <2>3
<1>10. i <= lastId => new = None \/ (offers[i] # None /\ new.type = offers[i].type)
  BY <1>3, TypesNow
<1>. HIDE DEF t, new, i
<1>. QED
  BY <1>1, <1>3, <1>4, <1>8, <1>9, <1>10, OfferKeeps

\* An offer that there is
LEMMA OfferNow ==
    ASSUME MarketInv, NEW i \in Id, offers[i] # None
    PROVE  /\ offers[i] \in Offer /\ i <= lastId
           /\ offers[i].player \in Player /\ offers[i].type \in {"buy", "sell"}
           /\ offers[i].amount \in Nat \ {0}
           /\ \A v : Worth(offers[i], v) = Pieces(offers[i].type, v, offers[i].amount)
<1>1. offers[i] \in Offer
  BY TypesNow
<1>2. i \in Int /\ ~(i > lastId)
  BY DEF Id, MarketInv
<1>3. i <= lastId
  BY <1>2, TypesNow
<1>4. \A v : Worth(offers[i], v) = Pieces(offers[i].type, v, offers[i].amount)
  BY DEF Worth
<1>. QED
  BY <1>1, <1>3, <1>4 DEF Offer

LEMMA CancelKeeps ==
    ASSUME MarketInv, NEW p \in Player, NEW i \in Id, CancelMarketOffer(p, i)
    PROVE  Kept
<1>. DEFINE type == offers[i].type
            n == offers[i].amount
            t == Pledged(Copies, p, type, n)
            w == Pledge(type).what
            e == Pledge(type).each
            have == HasIn(Copies, p)[w]
<1>1. /\ UNCHANGED up /\ UNCHANGED expiry /\ lastId' = lastId /\ Players(t)
      /\ offers' = [offers EXCEPT ![i] = None] /\ offers[i] # None
  BY DEF CancelMarketOffer
<1>2. type \in {"buy", "sell"} /\ n \in Nat \ {0} /\ i <= lastId
  BY <1>1, OfferNow
<1>3. w \in What /\ e \in Nat
  BY <1>2, PledgeTypes
<1>4. have \in Nat
  BY <1>3, CopiesTypes, HasTypes
<1>5. have + e * n \in Nat
  <2>1. e * n \in Nat
    BY <1>2, <1>3, Products
  <2>. HIDE DEF have, e, n
  <2>. QED
    BY <1>4, <2>1
<1>6. t \in CopiesType /\ \A v \in What : Held(t, v) = Held(Copies, v) + Pieces(type, v, n)
  <2>1. n \in Int
    BY <1>2
  <2>. HIDE DEF type, n
  <2>. QED
    BY <1>2, <1>5, <2>1, CopiesTypes, PledgedHeld
<1>7. ASSUME NEW v \in What
      PROVE  Held(t, v) = Held(Copies, v) + (Worth(offers[i], v) - Worth(None, v))
  <2>1. Worth(offers[i], v) = Pieces(type, v, n)
    BY <1>1, OfferNow
  <2>2. Worth(None, v) = 0
    BY DEF Worth
  <2>3. Pieces(type, v, n) \in Int
    <3>1. n \in Int
      BY <1>2
    <3>. HIDE DEF type, n
    <3>. QED
      BY <1>2, <3>1, PiecesTypes
  <2>. QED
    BY <1>6, <2>1, <2>2, <2>3
<1>8. lastId' \in lastId..MaxOffers /\ i <= lastId'
  BY <1>1, <1>2, TypesNow
<1>. HIDE DEF t
<1>. QED
  BY <1>1, <1>6, <1>7, <1>8, OfferKeeps

\* What is left of an offer that n pieces are accepted of
LEMMA RemainingOffer ==
    ASSUME MarketInv, NEW i \in Id, NEW n \in Amount, offers[i] # None, n <= offers[i].amount,
           Remaining(i, n)
    PROVE  \E new \in Offer \cup {None} :
              /\ offers' = [offers EXCEPT ![i] = new]
              /\ new = None \/ new.type = offers[i].type
              /\ \A v \in What :
                    Worth(offers[i], v) - Worth(new, v) = Pieces(offers[i].type, v, n)
<1>. DEFINE o == offers[i]
            a == offers[i].amount
            type == offers[i].type
            new == IF a - n = 0 THEN None ELSE [o EXCEPT !.amount = a - n]
<1>1. /\ o \in Offer /\ type \in {"buy", "sell"} /\ a \in Nat \ {0}
      /\ \A v : Worth(o, v) = Pieces(type, v, a)
  BY OfferNow
<1>2. n \in Nat \ {0} /\ n \in Int /\ a \in Int
  BY <1>1, MarketAssumption
<1>3. offers' = [offers EXCEPT ![i] = new]
  BY DEF Remaining
<1>4. CASE a = n
  <2>1. new = None
    BY <1>2, <1>4
  <2>2. ASSUME NEW v \in What PROVE Worth(o, v) - Worth(None, v) = Pieces(type, v, n)
    <3>1. Worth(None, v) = 0 /\ Worth(o, v) = Pieces(type, v, n)
      BY <1>1, <1>4 DEF Worth
    <3>2. Pieces(type, v, n) \in Int
      <4>. HIDE DEF type
      <4>. QED
        BY <1>1, <1>2, PiecesTypes
    <3>. QED
      BY <3>1, <3>2
  <2>. QED
    BY <1>3, <2>1, <2>2
<1>5. CASE a # n
  <2>. DEFINE u == [o EXCEPT !.amount = a - n]
  <2>1. a - n \in Nat \ {0}
    <3>. HIDE DEF a
    <3>. QED
      BY <1>1, <1>2, <1>5 DEF a
  <2>2. u \in Offer /\ u.type = type /\ u.amount = a - n /\ new = u
    BY <1>1, <1>5, <2>1 DEF Offer
  <2>3. u # None
    <3>. HIDE DEF u
    <3>. QED
      BY <2>2, MarketAssumption
  <2>. HIDE DEF u
  <2>4. ASSUME NEW v \in What PROVE Worth(o, v) - Worth(u, v) = Pieces(type, v, n)
    <3>1. Worth(u, v) = Pieces(type, v, a - n) /\ Worth(o, v) = Pieces(type, v, a)
      BY <1>1, <2>2, <2>3 DEF Worth
    <3>2. /\ Pieces(type, v, a - n) = Pieces(type, v, a) - Pieces(type, v, n)
          /\ Pieces(type, v, a) \in Int /\ Pieces(type, v, n) \in Int
      <4>1. type \in {"buy", "sell"} /\ a \in Int /\ n \in Int
        BY <1>1, <1>2
      <4>. HIDE DEF type, a
      <4>2. Pieces(type, v, n) \in Int
        BY <4>1, PiecesTypes
      <4>3. Pieces(type, v, a) \in Int
        BY <4>1, PiecesTypes
      <4>4. Pieces(type, v, a - n) = Pieces(type, v, a) - Pieces(type, v, n)
        BY <4>1, PiecesTypes
      <4>. QED
        BY <4>2, <4>3, <4>4
    <3>. QED
      BY <3>1, <3>2
  <2>. QED
    BY <1>3, <2>2, <2>4
<1>. QED
  BY <1>4, <1>5

LEMMA AcceptedKeeps ==
    ASSUME MarketInv, NEW t \in CopiesType, Players(t), UNCHANGED <<up, lastId, expiry>>,
           NEW i \in Id, NEW n \in Amount, offers[i] # None, n <= offers[i].amount,
           Remaining(i, n),
           \A v \in What : Held(t, v) = Held(Copies, v) + Pieces(offers[i].type, v, n)
    PROVE  Kept
<1>1. PICK new \in Offer \cup {None} :
         /\ offers' = [offers EXCEPT ![i] = new]
         /\ new = None \/ new.type = offers[i].type
         /\ \A v \in What : Worth(offers[i], v) - Worth(new, v) = Pieces(offers[i].type, v, n)
  BY RemainingOffer
<1>2. i <= lastId
  BY OfferNow
<1>3. lastId' \in lastId..MaxOffers /\ i <= lastId'
  BY <1>2, TypesNow
<1>4. \A v \in What : Held(t, v) = Held(Copies, v) + (Worth(offers[i], v) - Worth(new, v))
  BY <1>1
<1>. QED
  BY <1>1, <1>3, <1>4, OfferKeeps

LEMMA AcceptBuyKeeps ==
    ASSUME MarketInv, NEW p \in Player, NEW i \in Id, NEW n \in Amount, AcceptBuyOffer(p, i, n)
    PROVE  Kept
<1>. DEFINE z == Price * n
            s0 == Copies
            s1 == Gets(s0, p, "goods", -n)
            s2 == Gets(s1, p, "money", z)
            s3 == Gets(s2, p, "goods", n)
<1>1. /\ offers[i] # None /\ n <= offers[i].amount /\ offers[i].type = "buy"
      /\ inGame[p] # None /\ inGame[p].goods >= n
  BY DEF AcceptBuyOffer, MayAccept, Online
<1>2. CASE ~Online(offers[i].player)
  <2>1. up' = FALSE /\ UNCHANGED <<players, table, expiry>>
    BY <1>2 DEF AcceptBuyOffer
  <2>. QED
    BY <2>1, StopKeeps
<1>3. CASE Online(offers[i].player)
  <2>1. Players(s3) /\ Remaining(i, n) /\ UNCHANGED <<up, lastId, expiry>>
    BY <1>3 DEF AcceptBuyOffer
  <2>2. n \in Nat /\ -n \in Int /\ n \in Int /\ z \in Nat
    <3>1. n \in Nat /\ Price \in Nat
      BY MarketAssumption
    <3>. QED
      BY <3>1, Products
  <2>3. "goods" \in What /\ "money" \in What /\ "goods" # "money"
    BY DEF What
  <2>4. s0 \in CopiesType /\ HasIn(s0, p)["goods"] + (-n) \in Nat
    <3>1. HasIn(s0, p) = inGame[p] /\ s0 \in CopiesType
      BY <1>1, CopiesTypes DEF Has, Online
    <3>2. HasIn(s0, p)["goods"] \in Nat /\ HasIn(s0, p)["goods"] >= n
      BY <1>1, <2>3, <3>1, HasTypes
    <3>. QED
      BY <2>2, <3>1, <3>2
  <2>. HIDE DEF z, s0
  <2>5. s1 \in CopiesType /\ \A v \in What : Held(s1, v) = Held(s0, v) + (IF v = "goods" THEN -n ELSE 0)
    BY <2>2, <2>3, <2>4, GetsTypes, GetsHeld
  <2>. HIDE DEF s1
  <2>6. HasIn(s1, p)["money"] + z \in Nat
    BY <2>2, <2>3, <2>5, HasTypes
  <2>7. s2 \in CopiesType /\ \A v \in What : Held(s2, v) = Held(s1, v) + (IF v = "money" THEN z ELSE 0)
    BY <2>2, <2>3, <2>5, <2>6, GetsTypes, GetsHeld
  <2>. HIDE DEF s2
  <2>8. HasIn(s2, p)["goods"] + n \in Nat
    BY <2>2, <2>3, <2>7, HasTypes
  <2>9. s3 \in CopiesType /\ \A v \in What : Held(s3, v) = Held(s2, v) + (IF v = "goods" THEN n ELSE 0)
    BY <2>2, <2>3, <2>7, <2>8, GetsTypes, GetsHeld
  <2>. HIDE DEF s3
  <2>10. ASSUME NEW v \in What PROVE Held(s3, v) = Held(s0, v) + Pieces("buy", v, n)
    <3>1. Pieces("buy", v, n) = IF v = "money" THEN z ELSE 0
      BY DEF Pieces, Pledge, z
    <3>2. v = "money" \/ v = "goods"
      BY DEF What
    <3>3. Held(s0, v) \in Int
      BY <2>4, HeldTypes
    <3>4. /\ Held(s1, v) = Held(s0, v) + (IF v = "goods" THEN -n ELSE 0)
          /\ Held(s2, v) = Held(s1, v) + (IF v = "money" THEN z ELSE 0)
          /\ Held(s3, v) = Held(s2, v) + (IF v = "goods" THEN n ELSE 0)
      BY <2>5, <2>7, <2>9
    <3>. QED
      BY <2>2, <3>1, <3>2, <3>3, <3>4
  <2>. QED
    BY <1>1, <2>1, <2>9, <2>10, AcceptedKeeps DEF s0
<1>. QED
  BY <1>2, <1>3

LEMMA AcceptSellKeeps ==
    ASSUME MarketInv, NEW p \in Player, NEW i \in Id, NEW n \in Amount, AcceptSellOffer(p, i, n)
    PROVE  Kept
<1>. DEFINE z == Price * n
            m == offers[i].player
            s0 == Copies
            s1 == Gets(s0, p, "money", -Price * n)
            s2 == Gets(s1, p, "goods", n)
            s3 == Gets(s2, m, "money", z)
<1>1. /\ offers[i] # None /\ n <= offers[i].amount /\ offers[i].type = "sell"
      /\ inGame[p] # None /\ inGame[p].money >= z
      /\ Players(s3) /\ Remaining(i, n) /\ UNCHANGED <<up, lastId, expiry>>
  BY DEF AcceptSellOffer, MayAccept, Online
<1>2. n \in Nat /\ n \in Int /\ z \in Nat /\ -z \in Int /\ -Price * n = -z
  <2>1. n \in Nat /\ Price \in Nat
    BY MarketAssumption
  <2>2. Price * n \in Nat
    BY <2>1, Products
  <2>3. (-Price) * n = -(Price * n)
    BY <2>1
  <2>. QED
    BY <2>1, <2>2, <2>3
<1>3. "goods" \in What /\ "money" \in What /\ "goods" # "money"
  BY DEF What
<1>4. s0 \in CopiesType /\ HasIn(s0, p)["money"] + (-z) \in Nat
  <2>1. HasIn(s0, p) = inGame[p] /\ s0 \in CopiesType
    BY <1>1, CopiesTypes DEF Has, Online
  <2>2. HasIn(s0, p)["money"] \in Nat /\ HasIn(s0, p)["money"] >= z
    BY <1>1, <1>3, <2>1, HasTypes
  <2>. HIDE DEF z
  <2>. QED
    BY <1>2, <2>1, <2>2
<1>5. m \in Player
  BY <1>1, OfferNow
<1>6. s1 = Gets(s0, p, "money", -z)
  BY <1>2
<1>. HIDE DEF z, s0, s1, m
<1>7. s1 \in CopiesType /\ \A v \in What : Held(s1, v) = Held(s0, v) + (IF v = "money" THEN -z ELSE 0)
  BY <1>2, <1>3, <1>4, <1>6, GetsTypes, GetsHeld
<1>8. HasIn(s1, p)["goods"] + n \in Nat
  BY <1>2, <1>3, <1>7, HasTypes
<1>9. s2 \in CopiesType /\ \A v \in What : Held(s2, v) = Held(s1, v) + (IF v = "goods" THEN n ELSE 0)
  BY <1>2, <1>3, <1>7, <1>8, GetsTypes, GetsHeld
<1>. HIDE DEF s2
<1>10. HasIn(s2, m)["money"] + z \in Nat
  BY <1>2, <1>3, <1>5, <1>9, HasTypes
<1>11. s3 \in CopiesType /\ \A v \in What : Held(s3, v) = Held(s2, v) + (IF v = "money" THEN z ELSE 0)
  BY <1>2, <1>3, <1>5, <1>9, <1>10, GetsTypes, GetsHeld
<1>. HIDE DEF s3
<1>12. ASSUME NEW v \in What PROVE Held(s3, v) = Held(s0, v) + Pieces("sell", v, n)
  <2>1. Pieces("sell", v, n) = IF v = "goods" THEN n ELSE 0
    <3>1. Pieces("sell", v, n) = IF v = "goods" THEN 1 * n ELSE 0
      BY DEF Pieces, Pledge
    <3>2. 1 * n = n
      BY <1>2
    <3>. QED
      BY <3>1, <3>2
  <2>2. v = "money" \/ v = "goods"
    BY DEF What
  <2>3. Held(s0, v) \in Int
    BY <1>4, HeldTypes
  <2>4. /\ Held(s1, v) = Held(s0, v) + (IF v = "money" THEN -z ELSE 0)
        /\ Held(s2, v) = Held(s1, v) + (IF v = "goods" THEN n ELSE 0)
        /\ Held(s3, v) = Held(s2, v) + (IF v = "money" THEN z ELSE 0)
    BY <1>7, <1>9, <1>11
  <2>. QED
    BY <1>2, <2>1, <2>2, <2>3, <2>4
<1>. QED
  BY <1>1, <1>11, <1>12, AcceptedKeeps DEF s0

-----------------------------------------------------------------------------
(* The refunds of an answer.                                               *)

\* One refund, and all of them, which are a fold.
Refund(s, r) == Pledged(s, r.offer.player, r.offer.type, r.offer.amount)
RefundStep(D) == [p \in D \X CopiesType |-> Refund(p[2], p[1])]
Refunds(D) ==
    FoldSet(LAMBDA r, s : Pledged(s, r.offer.player, r.offer.type, r.offer.amount), Copies, D)

InRow(r, v) == Pieces(r.offer.type, v, r.offer.amount)

LEMMA RowTypes ==
    ASSUME NEW r \in Row
    PROVE  /\ r.id \in Id /\ r.offer.player \in Player /\ r.offer.type \in {"buy", "sell"}
           /\ r.offer.amount \in Nat \ {0}
           /\ \A v \in What : InRow(r, v) \in Int
<1>1. /\ r.id \in Id /\ r.offer.player \in Player /\ r.offer.type \in {"buy", "sell"}
      /\ r.offer.amount \in Nat \ {0}
  BY DEF Row, Offer
<1>. DEFINE type == r.offer.type
            n == r.offer.amount
<1>2. type \in {"buy", "sell"} /\ n \in Int
  BY <1>1
<1>. HIDE DEF type, n
<1>3. \A v \in What : Pieces(type, v, n) \in Int
  BY <1>2, PiecesTypes
<1>. QED
  BY <1>1, <1>3 DEF InRow, type, n

LEMMA RefundHeld ==
    ASSUME NEW s \in CopiesType, NEW r \in Row
    PROVE  /\ Refund(s, r) \in CopiesType
           /\ \A v \in What : Held(Refund(s, r), v) = Held(s, v) + InRow(r, v)
<1>. DEFINE p == r.offer.player
            type == r.offer.type
            n == r.offer.amount
            w == Pledge(type).what
            e == Pledge(type).each
            have == HasIn(s, p)[w]
<1>1. p \in Player /\ type \in {"buy", "sell"} /\ n \in Nat /\ n \in Int
  BY RowTypes
<1>. HIDE DEF p, type, n
<1>2. w \in What /\ e \in Nat
  BY <1>1, PledgeTypes
<1>3. have + e * n \in Nat
  <2>1. have \in Nat
    BY <1>1, <1>2, HasTypes
  <2>2. e * n \in Nat
    BY <1>1, <1>2, Products
  <2>. HIDE DEF have, e
  <2>. QED
    BY <2>1, <2>2
<1>4. /\ Pledged(s, p, type, n) \in CopiesType
      /\ \A v \in What : Held(Pledged(s, p, type, n), v) = Held(s, v) + Pieces(type, v, n)
  BY <1>1, <1>3, PledgedHeld
<1>. QED
  BY <1>4 DEF Refund, InRow, p, type, n

LEMMA RefundsFold ==
    ASSUME MarketInv, NEW D \in SUBSET Row, IsFiniteSet(D)
    PROVE  \E f \in [SUBSET D -> CopiesType] :
              /\ Folds(f, RefundStep(D), Copies, D)
              /\ f[D] = Refunds(D)
<1>. DEFINE op == RefundStep(D)
            Eq(f, P) == f = [T \in P |->
                               IF T = {} THEN Copies
                               ELSE Refund(f[T \ {CHOOSE x \in T : TRUE}],
                                           CHOOSE x \in T : TRUE)]
            g == CHOOSE f : Eq(f, SUBSET D)
<1>1. Copies \in CopiesType
  BY CopiesTypes
<1>2. op \in [D \X CopiesType -> CopiesType]
  BY RefundHeld DEF RefundStep
<1>3. PICK f \in [SUBSET D -> CopiesType] : Folds(f, op, Copies, D)
  <2>. HIDE DEF op
  <2>. QED
    BY <1>1, <1>2, FoldExists
<1>4. ASSUME NEW U \in SUBSET D, U # {}
      PROVE  First(U) \in D /\ U \ {First(U)} \in SUBSET D
  BY <1>4, FirstIn
<1>5. Eq(f, SUBSET D)
  <2>1. ASSUME NEW U \in SUBSET D, U # {}
        PROVE  f[U] = Refund(f[U \ {First(U)}], First(U))
    <3>1. f[U \ {First(U)}] \in CopiesType /\ First(U) \in D
      BY <1>3, <1>4, <2>1
    <3>2. f[U] = op[<<First(U), f[U \ {First(U)}]>>]
      BY <1>3, <2>1 DEF Folds
    <3>. QED
      BY <3>1, <3>2 DEF RefundStep
  <2>2. f[{}] = Copies
    BY <1>3 DEF Folds
  <2>. HIDE DEF op
  <2>. QED
    BY <1>3, <2>1, <2>2 DEF First
<1>6. Eq(g, SUBSET D)
  BY <1>5
<1>7. Refunds(D) = g[D]
  BY DEF Refunds, FoldSet, MapThenFoldSet, Refund
<1>. HIDE DEF g
<1>8. g[D] = f[D]
  <2>1. f[{}] = g[{}]
    BY <1>5, <1>6
  <2>2. ASSUME NEW U \in SUBSET D, U # {}, f[U \ {First(U)}] = g[U \ {First(U)}]
        PROVE  f[U] = g[U]
    <3>1. f[U] = Refund(f[U \ {First(U)}], First(U))
      BY <1>5, <2>2 DEF First
    <3>2. g[U] = Refund(g[U \ {First(U)}], First(U))
      BY <1>6, <2>2 DEF First
    <3>. QED
      BY <2>2, <3>1, <3>2
  <2>. QED
    BY <2>1, <2>2, FoldsAgree
<1>. QED
  BY <1>3, <1>7, <1>8

\* So the players get what is in the rows.
LEMMA RefundsHeld ==
    ASSUME MarketInv, NEW D \in SUBSET Row, IsFiniteSet(D)
    PROVE  /\ Refunds(D) \in CopiesType
           /\ \A v \in What :
                 Held(Refunds(D), v) = Held(Copies, v) + SumFunction([r \in D |-> InRow(r, v)])
<1>. DEFINE op == RefundStep(D)
            S(T, v) == SumFunction([r \in T |-> InRow(r, v)])
            Is(T, s) == s \in CopiesType /\ \A v \in What : Held(s, v) = Held(Copies, v) + S(T, v)
            G == {x \in (SUBSET D) \X CopiesType : Is(x[1], x[2])}
<1>1. PICK f \in [SUBSET D -> CopiesType] : Folds(f, op, Copies, D) /\ f[D] = Refunds(D)
  BY RefundsFold
<1>2. Copies \in CopiesType /\ \A v \in What : Held(Copies, v) \in Int
  BY CopiesTypes, HeldTypes
<1>3. ASSUME NEW T \in SUBSET D, NEW x \in T, NEW v \in What
      PROVE  S(T, v) = S(T \ {x}, v) + InRow(x, v) /\ S(T \ {x}, v) \in Int /\ InRow(x, v) \in Int
  <2>. DEFINE a == [r \in T \ {x} |-> InRow(r, v)]
              b == [r \in T |-> InRow(r, v)]
  <2>1. a \in [T \ {x} -> Int] /\ b \in [T -> Int] /\ InRow(x, v) \in Int
    BY RowTypes
  <2>2. (\A r \in T \ {x} : b[r] = a[r]) /\ b[x] = InRow(x, v)
    OBVIOUS
  <2>3. IsFiniteSet(T)
    BY FS_Subset
  <2>4. IsFiniteSet(T \ {x})
    BY <2>3, FS_RemoveElement
  <2>. HIDE DEF a, b
  <2>5. SumFunction(b) = SumFunction(a) + b[x]
    BY <2>1, <2>2, <2>3, SumMore
  <2>6. SumFunction(a) \in Int
    BY <2>1, <2>4, SumType
  <2>. QED
    BY <2>1, <2>2, <2>5, <2>6 DEF a, b
<1>4. ASSUME NEW v \in What PROVE S({}, v) = 0
  <2>. DEFINE a == [r \in {} |-> InRow(r, v)]
  <2>1. a \in [{} -> Int]
    OBVIOUS
  <2>. HIDE DEF a
  <2>2. SumFunction(a) = 0
    BY <2>1, SumEmpty
  <2>. QED
    BY <2>2 DEF a
<1>. HIDE DEF S
<1>5. <<{}, Copies>> \in G
  <2>1. Is({}, Copies)
    BY <1>2, <1>4
  <2>. HIDE DEF Is
  <2>. QED
    BY <1>2, <2>1
<1>6. ASSUME NEW t, NEW T \in SUBSET D, NEW x \in D, x \in T, <<T \ {x}, t>> \in G
      PROVE  <<T, op[<<x, t>>]>> \in G
  <2>1. t \in CopiesType /\ \A v \in What : Held(t, v) = Held(Copies, v) + S(T \ {x}, v)
    BY <1>6
  <2>. DEFINE s == Refund(t, x)
  <2>2. op[<<x, t>>] = s
    BY <2>1 DEF RefundStep
  <2>3. s \in CopiesType /\ \A v \in What : Held(s, v) = Held(t, v) + InRow(x, v)
    BY <2>1, RefundHeld
  <2>. HIDE DEF s
  <2>4. ASSUME NEW v \in What PROVE Held(s, v) = Held(Copies, v) + S(T, v)
    <3>1. S(T, v) = S(T \ {x}, v) + InRow(x, v) /\ S(T \ {x}, v) \in Int /\ InRow(x, v) \in Int
      BY <1>3, <1>6
    <3>2. Held(s, v) = Held(t, v) + InRow(x, v) /\ Held(t, v) = Held(Copies, v) + S(T \ {x}, v)
      BY <2>1, <2>3
    <3>. QED
      BY <1>2, <3>1, <3>2
  <2>5. <<T, s>> \in G
    BY <2>3, <2>4
  <2>. HIDE DEF G, op
  <2>. QED
    BY <2>2, <2>5
<1>7. <<D, f[D]>> \in G
  <2>. HIDE DEF G, op
  <2>. QED
    BY <1>1, <1>5, <1>6, FoldKeeps
<1>8. Is(D, f[D])
  BY <1>7
<1>. QED
  BY <1>1, <1>8 DEF S

\* The offers without those of the rows T
Without(T) == [i \in Id |-> IF \E r \in T : r.id = i THEN None ELSE offers[i]]

\* What was taken of the offer of a row since it was read
Taken(r, v) == Pieces(r.offer.type, v, r.offer.amount - offers[r.id].amount)

\* A sum is that of all but one, and the one.
LEMMA SumBut ==
    ASSUME NEW T, IsFiniteSet(T), NEW x \in T, NEW g \in [T -> Int]
    PROVE  SumFunction(g) = SumFunction([y \in T \ {x} |-> g[y]]) + g[x]
<1>. DEFINE f == [y \in T \ {x} |-> g[y]]
<1>1. f \in [T \ {x} -> Int] /\ \A y \in T \ {x} : g[y] = f[y]
  OBVIOUS
<1>. HIDE DEF f
<1>2. SumFunction(g) = SumFunction(f) + g[x]
  BY <1>1, SumMore
<1>. QED
  BY <1>2 DEF f

\* What is in the rows is what was in their offers and what was taken of them.
LEMMA WithoutHolds ==
    ASSUME MarketInv, NEW D \in SUBSET Row, ReadFrom(D, offers, lastId),
           \A r \in D : offers[r.id] # None, NEW v \in What
    PROVE  /\ Without(D) \in [Id -> Offer \cup {None}]
           /\ SumFunction([r \in D |-> InRow(r, v)]) \in Int
           /\ SumFunction([r \in D |-> Taken(r, v)]) \in Int
           /\ InOffers(Without(D), v) + SumFunction([r \in D |-> InRow(r, v)])
                = InOffers(offers, v) + SumFunction([r \in D |-> Taken(r, v)])
<1>. DEFINE a(T) == [r \in T |-> InRow(r, v)]
            b(T) == [r \in T |-> Taken(r, v)]
            Is(T) == InOffers(Without(T), v) + SumFunction(a(T))
                       = InOffers(offers, v) + SumFunction(b(T))
            G == {T \in SUBSET D : Is(T)}
<1>1. /\ IsFiniteSet(D) /\ \A r, q \in D : r.id = q.id => r = q
      /\ \A r \in D : offers[r.id].type = r.offer.type
  BY DEF ReadFrom
<1>2. ASSUME NEW r \in D
      PROVE  /\ r.id \in Id
             /\ InRow(r, v) \in Int /\ Taken(r, v) \in Int /\ Worth(offers[r.id], v) \in Int
             /\ InRow(r, v) = Worth(offers[r.id], v) + Taken(r, v)
  <2>. DEFINE type == r.offer.type
              n == r.offer.amount
              m == offers[r.id].amount
  <2>1. r.id \in Id /\ type \in {"buy", "sell"} /\ n \in Int
    BY RowTypes
  <2>2. offers[r.id] # None
    OBVIOUS
  <2>3. m \in Int /\ Worth(offers[r.id], v) = Pieces(type, v, m)
    BY <1>1, <2>1, <2>2, OfferNow
  <2>4. InRow(r, v) = Pieces(type, v, n) /\ Taken(r, v) = Pieces(type, v, n - m)
    BY DEF InRow, Taken
  <2>. HIDE DEF type, n, m
  <2>5. Pieces(type, v, n) \in Int
    BY <2>1, PiecesTypes
  <2>6. Pieces(type, v, m) \in Int
    BY <2>1, <2>3, PiecesTypes
  <2>7. Pieces(type, v, n - m) = Pieces(type, v, n) - Pieces(type, v, m)
    BY <2>1, <2>3, PiecesTypes
  <2>. QED
    BY <2>1, <2>3, <2>4, <2>5, <2>6, <2>7
<1>3. ASSUME NEW T \in SUBSET D
      PROVE  /\ Without(T) \in [Id -> Offer \cup {None}] /\ InOffers(Without(T), v) \in Int
             /\ a(T) \in [T -> Int] /\ b(T) \in [T -> Int]
             /\ SumFunction(a(T)) \in Int /\ SumFunction(b(T)) \in Int
  <2>1. Without(T) \in [Id -> Offer \cup {None}]
    BY TypesNow DEF Without
  <2>2. InOffers(Without(T), v) \in Int
    BY <2>1, InOffersTypes
  <2>3. a(T) \in [T -> Int] /\ b(T) \in [T -> Int]
    BY <1>2
  <2>4. IsFiniteSet(T)
    BY <1>1, FS_Subset
  <2>. HIDE DEF a, b
  <2>5. SumFunction(a(T)) \in Int
    BY <2>3, <2>4, SumType
  <2>6. SumFunction(b(T)) \in Int
    BY <2>3, <2>4, SumType
  <2>. QED
    BY <2>1, <2>2, <2>3, <2>5, <2>6
<1>4. InOffers(offers, v) \in Int
  BY TypesNow, InOffersTypes
<1>5. ASSUME NEW T \in SUBSET D, T # {}, NEW x \in T, Is(T \ {x}) PROVE Is(T)
  <2>. DEFINE R == T \ {x}
              i == x.id
              w == Worth(offers[i], v)
  <2>0. R \in SUBSET D /\ x \in D /\ IsFiniteSet(T)
    BY <1>1, FS_Subset
  <2>1. i \in Id /\ InRow(x, v) \in Int /\ Taken(x, v) \in Int /\ w \in Int
        /\ InRow(x, v) = w + Taken(x, v)
    BY <1>2, <2>0
  <2>2. Without(T) = [Without(R) EXCEPT ![i] = None] /\ Without(R)[i] = offers[i]
    <3>1. ~\E r \in R : r.id = i
      BY <1>1
    <3>2. \A j \in Id : (\E r \in T : r.id = j) <=> (j = i \/ \E r \in R : r.id = j)
      OBVIOUS
    <3>. HIDE DEF R, i
    <3>. QED
      BY <2>1, <3>1, <3>2 DEF Without
  <2>3. InOffers(Without(T), v) = InOffers(Without(R), v) - w
    <3>1. Worth(None, v) = 0
      BY DEF Worth
    <3>. DEFINE o == Without(R)
    <3>2. o \in [Id -> Offer \cup {None}] /\ InOffers(o, v) \in Int /\ Worth(o[i], v) = w
      BY <1>3, <2>0, <2>2
    <3>. HIDE DEF o, i, w, R
    <3>3. InOffers([o EXCEPT ![i] = None], v) = InOffers(o, v) + (Worth(None, v) - Worth(o[i], v))
      BY <2>1, <3>2, OneOffer
    <3>. QED
      BY <2>1, <2>2, <3>1, <3>2, <3>3 DEF o
  <2>4. SumFunction(a(T)) = SumFunction(a(R)) + InRow(x, v)
    <3>. DEFINE g == [r \in T |-> InRow(r, v)]
    <3>1. g \in [T -> Int]
      BY <1>2
    <3>2. [r \in R |-> InRow(r, v)] = [r \in T \ {x} |-> g[r]] /\ g[x] = InRow(x, v)
      OBVIOUS
    <3>. HIDE DEF g
    <3>3. SumFunction(g) = SumFunction([r \in T \ {x} |-> g[r]]) + g[x]
      BY <2>0, <3>1, SumBut
    <3>. QED
      BY <3>2, <3>3 DEF g
  <2>5. SumFunction(b(T)) = SumFunction(b(R)) + Taken(x, v)
    <3>. DEFINE g == [r \in T |-> Taken(r, v)]
    <3>1. g \in [T -> Int]
      BY <1>2
    <3>2. [r \in R |-> Taken(r, v)] = [r \in T \ {x} |-> g[r]] /\ g[x] = Taken(x, v)
      OBVIOUS
    <3>. HIDE DEF g
    <3>3. SumFunction(g) = SumFunction([r \in T \ {x} |-> g[r]]) + g[x]
      BY <2>0, <3>1, SumBut
    <3>. QED
      BY <3>2, <3>3 DEF g
  <2>6. InOffers(Without(R), v) \in Int /\ SumFunction(a(R)) \in Int /\ SumFunction(b(R)) \in Int
    BY <1>3, <2>0
  <2>7. InOffers(Without(R), v) + SumFunction(a(R)) = InOffers(offers, v) + SumFunction(b(R))
    BY <1>5
  <2>. DEFINE k == InOffers(Without(R), v)
              l == InOffers(offers, v)
              m == SumFunction(a(R))
              n == SumFunction(b(R))
              y == InRow(x, v)
              z == Taken(x, v)
  <2>8. (k - w) + (m + y) = l + (n + z)
    <3>1. k \in Int /\ l \in Int /\ m \in Int /\ n \in Int /\ y \in Int /\ z \in Int /\ w \in Int
      BY <1>4, <2>1, <2>6
    <3>2. k + m = l + n /\ y = w + z
      BY <2>1, <2>7
    <3>. HIDE DEF k, l, m, n, y, z, w
    <3>. QED
      BY <3>1, <3>2
  <2>9. InOffers(Without(T), v) = k - w /\ SumFunction(a(T)) = m + y /\ SumFunction(b(T)) = n + z
    BY <2>3, <2>4, <2>5
  <2>. HIDE DEF k, m, n, y, z, w, a, b
  <2>. QED
    BY <2>8, <2>9
<1>6. Is({})
  <2>1. Without({}) = offers
    BY TypesNow DEF Without
  <2>2. a({}) \in [{} -> Int] /\ b({}) \in [{} -> Int]
    OBVIOUS
  <2>. HIDE DEF a, b
  <2>3. SumFunction(a({})) = 0 /\ SumFunction(b({})) = 0
    BY <2>2, SumEmpty
  <2>. QED
    BY <1>4, <2>1, <2>3
<1>. HIDE DEF Is
<1>7. ASSUME NEW T \in SUBSET D, \A U \in SUBSET T : U # T => U \in G PROVE T \in G
  <2>1. CASE T = {}
    BY <1>6, <2>1
  <2>2. CASE T # {}
    <3>1. PICK x \in T : TRUE
      BY <2>2
    <3>2. T \ {x} \in G
      BY <1>7, <3>1
    <3>. QED
      BY <1>5, <2>2, <3>1, <3>2
  <2>. QED
    BY <2>1, <2>2
<1>. HIDE DEF G
<1>8. \A T \in SUBSET D : T \in G
  BY <1>1, <1>7, SubsetInduction
<1>. HIDE DEF a, b
<1>9. Is(D)
  BY <1>8 DEF G
<1>10. /\ Without(D) \in [Id -> Offer \cup {None}]
       /\ SumFunction(a(D)) \in Int /\ SumFunction(b(D)) \in Int
  BY <1>3
<1>. QED
  BY <1>9, <1>10 DEF Is, a, b

LEMMA ProcessKeeps ==
    ASSUME MarketInv, ProcessExpiredOffers
    PROVE  Kept
<1>. DEFINE rows == Head(answers)
            D == Movable(rows)
            t == Refunds(D)
            n == Len(answers)
<1>1. /\ UNCHANGED up /\ UNCHANGED lastId /\ UNCHANGED aged /\ UNCHANGED queries
      /\ answers # <<>> /\ answers' = Tail(answers)
      /\ offers' = Without(D) /\ Players(t)
  BY DEF ProcessExpiredOffers, Without, Refunds
<1>2. /\ answers \in Seq(SUBSET Row) /\ n \in Nat
      /\ \A k \in 1..n : ReadFrom(answers[k], offers, lastId)
  BY LenProperties DEF MarketInv, MarketTypeOK
<1>3. n # 0 /\ rows = answers[1]
  BY <1>1, <1>2, EmptySeq, HeadTailProperties
<1>4. rows \in SUBSET Row /\ ReadFrom(rows, offers, lastId)
  <2>1. 1 \in 1..n
    BY <1>2, <1>3
  <2>2. answers[1] \in SUBSET Row
    BY <1>2, <2>1, ElementOfSeq
  <2>. QED
    BY <1>2, <1>3, <2>1, <2>2
<1>5. D \in SUBSET rows /\ \A r \in D : offers[r.id] # None
  BY DEF Movable
<1>6. D \in SUBSET Row /\ IsFiniteSet(D) /\ ReadFrom(D, offers, lastId)
  <2>1. D \in SUBSET Row
    BY <1>4, <1>5
  <2>2. IsFiniteSet(rows)
    BY <1>4 DEF ReadFrom
  <2>. HIDE DEF D, rows
  <2>3. IsFiniteSet(D)
    BY <1>5, <2>2, FS_Subset
  <2>. QED
    BY <1>4, <1>5, <2>1, <2>3 DEF ReadFrom
<1>7. ASSUME NEW v \in What
      PROVE  TakenSince(v) = SumFunction([r \in D |-> Taken(r, v)])
  BY DEF TakenSince, Taken, Movable
<1>. HIDE DEF D, rows, t
<1>8. /\ t \in CopiesType
      /\ \A v \in What :
            Held(t, v) = Held(Copies, v) + SumFunction([r \in D |-> InRow(r, v)])
  BY <1>6, RefundsHeld DEF t
<1>9. ASSUME NEW v \in What
      PROVE  /\ Without(D) \in [Id -> Offer \cup {None}]
             /\ SumFunction([r \in D |-> InRow(r, v)]) \in Int
             /\ SumFunction([r \in D |-> Taken(r, v)]) \in Int
             /\ InOffers(Without(D), v) + SumFunction([r \in D |-> InRow(r, v)])
                  = InOffers(offers, v) + SumFunction([r \in D |-> Taken(r, v)])
  BY <1>5, <1>6, WithoutHolds
<1>10. /\ answers' \in Seq(SUBSET Row) /\ Len(answers') = n - 1
       /\ \A k \in 1..(n - 1) : answers'[k] = answers[k + 1]
  BY <1>1, <1>2, HeadTailProperties
<1>11. ASSUME NEW k \in 1..Len(answers') PROVE ReadFrom(answers'[k], offers, lastId)
  <2>1. k \in 1..(n - 1) /\ k + 1 \in 1..n
    BY <1>2, <1>10
  <2>. QED
    BY <1>2, <1>10, <2>1
<1>12. OffersStay
  <2>1. offers' \in [Id -> Offer \cup {None}]
    <3>1. "money" \in What
      BY DEF What
    <3>. QED
      BY <1>1, <1>9, <3>1
  <2>2. \A i \in Id : offers'[i] = None \/ offers'[i] = offers[i]
    BY <1>1 DEF Without
  <2>3. \A i \in Id : i > lastId => offers[i] = None
    BY DEF MarketInv
  <2>. QED
    BY <1>1, <2>1, <2>2, <2>3 DEF OffersStay
<1>13. /\ lastId' \in lastId..MaxOffers /\ aged' \in 0..lastId'
       /\ queries' \in Seq(0..MaxOffers) /\ up' \in BOOLEAN
  BY <1>1, TypesNow
<1>14. MarketInv'
  BY <1>1, <1>8, <1>10, <1>11, <1>12, <1>13, MarketInvKept
<1>15. ASSUME NEW v \in What PROVE TotalKept(v)
  <2>. DEFINE a == SumFunction([r \in D |-> InRow(r, v)])
              b == SumFunction([r \in D |-> Taken(r, v)])
  <2>1. a \in Int /\ b \in Int /\ InOffers(offers', v) + a = InOffers(offers, v) + b
    BY <1>1, <1>9
  <2>2. Held(t, v) = Held(Copies, v) + a
    BY <1>8
  <2>3. TakenSince(v) = b
    BY <1>7
  <2>. HIDE DEF a, b
  <2>4. /\ Held(Copies, v) \in Int /\ InOffers(offers, v) \in Int /\ InOffers(offers', v) \in Int
    BY <1>12, CopiesTypes, HeldTypes, InOffersTypes, TypesNow DEF OffersStay
  <2>5. Total(v) = Held(Copies, v) + InOffers(offers, v)
    BY TotalIs
  <2>6. Total(v)' = Held(t, v) + InOffers(offers', v)
    BY <1>1, TotalAfter
  <2>7. Len(answers') < Len(answers)
    BY <1>2, <1>10
  <2>. QED
    BY <2>1, <2>2, <2>3, <2>4, <2>5, <2>6, <2>7 DEF TotalKept
<1>. QED
  BY <1>14, <1>15 DEF Kept

-----------------------------------------------------------------------------

LEMMA MarketInvInit ==
    MarketInit => MarketInv
<1>. SUFFICES ASSUME MarketInit PROVE MarketInv
  OBVIOUS
<1>1. MarketTypeOK
  BY MarketAssumption DEF MarketInit, MarketTypeOK
<1>2. \A i \in Id : offers[i] = None
  BY DEF MarketInit
<1>3. 1..Len(answers) = {}
  BY DEF MarketInit
<1>. QED
  BY <1>1, <1>2, <1>3 DEF MarketInv

LEMMA MarketStep ==
    MarketInv /\ [MarketNext]_marketVars => Kept
<1>. SUFFICES ASSUME MarketInv, [MarketNext]_marketVars PROVE Kept
  OBVIOUS
<1>1. ASSUME NEW p \in Player, Login(p) \/ Logout(p) PROVE Kept
  BY <1>1, LoginKeeps
<1>2. ASSUME NEW p \in Player, NEW n \in Amount, NEW type \in {"buy", "sell"},
             CreateMarketOffer(p, type, n)
      PROVE  Kept
  BY <1>2, CreateKeeps
<1>3. ASSUME NEW p \in Player, NEW n \in Amount, NEW i \in Id, AcceptBuyOffer(p, i, n)
      PROVE  Kept
  BY <1>3, AcceptBuyKeeps
<1>4. ASSUME NEW p \in Player, NEW n \in Amount, NEW i \in Id, AcceptSellOffer(p, i, n)
      PROVE  Kept
  BY <1>4, AcceptSellKeeps
<1>5. ASSUME NEW p \in Player, NEW i \in Id, CancelMarketOffer(p, i) PROVE Kept
  BY <1>5, CancelKeeps
<1>6. CASE Age \/ CheckExpiredOffers \/ RunQuery \/ ProcessExpiredOffers
  BY <1>6, AgeKeeps, CheckKeeps, RunQueryKeeps, ProcessKeeps
<1>7. CASE UNCHANGED marketVars
  <2>1. up' = up /\ UNCHANGED <<players, table, expiry>>
    BY <1>7 DEF marketVars
  <2>2. up' \in BOOLEAN
    BY <2>1, TypesNow
  <2>. QED
    BY <2>1, <2>2, StopKeeps
<1>. QED
  BY <1>1, <1>2, <1>3, <1>4, <1>5, <1>6, <1>7 DEF MarketNext

LEMMA MarketInvariant ==
    MarketSpec => []MarketInv
<1>1. MarketInv /\ [MarketNext]_marketVars => MarketInv'
  BY MarketStep DEF Kept
<1>. QED
  BY <1>1, MarketInvInit, PTL DEF MarketSpec

\* Nobody has less than nothing, and the offers and the rows of the answers are
\* such as the handlers of game.cpp and iomarket.cpp make.
THEOREM MarketTypeCorrect ==
    MarketSpec => []MarketTypeOK
<1>1. MarketInv => MarketTypeOK
  BY DEF MarketInv
<1>. QED
  BY <1>1, MarketInvariant, PTL

\* No goods and no money appear or vanish, whoever is in the game when an offer is
\* made, accepted, cancelled or expires; a refund is too much by what was accepted
\* while the answer was on its way.  Game::player*MarketOffer of game.cpp and
\* processExpiredOffers of iomarket.cpp.
THEOREM MarketBalanced ==
    MarketSpec => Balanced
<1>1. MarketInv /\ [MarketNext]_marketVars
        => [\A what \in {"goods", "money"} :
              Total(what)' = Total(what)
                + (IF Len(answers') < Len(answers) THEN TakenSince(what) ELSE 0)]_marketVars
  BY MarketStep DEF Kept, TotalKept, What
<1>. QED
  BY <1>1, MarketInvariant, PTL DEF MarketSpec, Balanced

=============================================================================
