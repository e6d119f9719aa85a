---------------------------- MODULE PlayersProofs ----------------------------
(***************************************************************************)
(* Theorems about Players, for any players, parties and items.             *)
(***************************************************************************)
EXTENDS Players, FiniteSetTheorems, SequenceTheorems, TLAPS

-----------------------------------------------------------------------------
(* Cylinders: where items are, and what changes when one is moved          *)

Cylinders == Players \cup Containers \cup {Ground, None}

Parents == [Items -> Cylinders]

\* S holds the container of x, and of each of its members.
Upwards(par, x, S) == \A y \in {x} \cup S : par[y] \in Containers => par[y] \in S

\* The definition, once: the least of the sets that are closed upwards.
LEMMA HoldersLeast ==
    ASSUME NEW par, NEW x
    PROVE  /\ T!Holders(par, x) \subseteq Containers
           /\ Upwards(par, x, T!Holders(par, x))
           /\ \A S \in SUBSET Containers : Upwards(par, x, S) => T!Holders(par, x) \subseteq S
BY DEF T!Holders, Upwards

\* A container around x is the cylinder of x or of another one around x.
LEMMA HoldersReached ==
    ASSUME NEW par, NEW x, NEW c \in T!Holders(par, x)
    PROVE  \E y \in {x} \cup T!Holders(par, x) : par[y] = c
<1> DEFINE S == {b \in T!Holders(par, x) : \E y \in {x} \cup T!Holders(par, x) : par[y] = b}
<1>1. S \in SUBSET Containers
  BY HoldersLeast
<1>2. Upwards(par, x, S)
  BY HoldersLeast DEF Upwards
<1>3. T!Holders(par, x) \subseteq S
  BY <1>1, <1>2, HoldersLeast
<1> QED
  BY <1>3

\* What is around x is the cylinder of x and what is around that.
LEMMA HoldersUnrolled ==
    ASSUME NEW par, NEW x
    PROVE  T!Holders(par, x) =
              IF par[x] \in Containers THEN {par[x]} \cup T!Holders(par, par[x]) ELSE {}
<1>1. CASE par[x] \in Containers
  <2> DEFINE c == par[x]
             S == {c} \cup T!Holders(par, c)
  <2>1. c \in T!Holders(par, x)
    BY <1>1, HoldersLeast DEF Upwards
  <2>2. Upwards(par, c, T!Holders(par, x))
    BY <2>1, HoldersLeast DEF Upwards
  <2>3. T!Holders(par, c) \subseteq T!Holders(par, x)
    BY <2>2, HoldersLeast
  <2>4. S \in SUBSET Containers
    BY <1>1, HoldersLeast
  <2>5. Upwards(par, x, S)
    BY HoldersLeast DEF Upwards
  <2>6. T!Holders(par, x) \subseteq S
    BY <2>4, <2>5, HoldersLeast
  <2> QED
    BY <1>1, <2>1, <2>3, <2>6
<1>2. CASE par[x] \notin Containers
  <2>1. Upwards(par, x, {})
    BY <1>2 DEF Upwards
  <2> QED
    BY <1>2, <2>1, HoldersLeast
<1> QED
  BY <1>1, <1>2

\* Of what is around x only the last one is no item.
LEMMA OneRoot ==
    ASSUME NEW par \in Parents, NEW x \in Items,
           NEW r \in T!Around(par, x), NEW s \in T!Around(par, x), r \notin Items, s \notin Items
    PROVE  r = s
<1> USE ItemsAssumption
<1> DEFINE H == T!Holders(par, x)
<1>1. PICK y \in {x} \cup H : par[y] = r
  BY DEF T!Around
<1>2. PICK z \in {x} \cup H : par[z] = s
  BY DEF T!Around
<1>3. r \notin Containers /\ s \notin Containers
  OBVIOUS
<1> DEFINE S == {c \in H : c = y \/ y \in T!Holders(par, c)}
<1>4. S \in SUBSET Containers
  BY HoldersLeast
<1>5. ASSUME NEW b \in {x} \cup S, par[b] \in Containers PROVE par[b] \in S
  <2>1. par[b] \in H
    BY <1>5, HoldersLeast DEF Upwards
  <2>2. b # y
    BY <1>1, <1>3, <1>5
  <2>3. y \in T!Holders(par, b)
    BY <1>1, <1>5, <2>2
  <2>4. T!Holders(par, b) = {par[b]} \cup T!Holders(par, par[b])
    BY <1>5, HoldersUnrolled
  <2> QED
    BY <2>1, <2>3, <2>4
<1>6. H \subseteq S
  <2>1. Upwards(par, x, S)
    BY <1>5 DEF Upwards
  <2> HIDE DEF S
  <2> QED
    BY <1>4, <2>1, HoldersLeast
<1>7. T!Holders(par, z) = {}
  BY <1>2, <1>3, HoldersUnrolled
<1>8. CASE z = x
  BY <1>1, <1>2, <1>7, <1>8
<1>9. CASE z \in H
  BY <1>1, <1>2, <1>6, <1>7, <1>9
<1> QED
  BY <1>8, <1>9

\* Moving i changes nothing around an item that is not in i.
LEMMA AroundKept ==
    ASSUME NEW par \in Parents, NEW i \in Items, NEW x \in Items, NEW d,
           i # x, i \notin T!Around(par, x)
    PROVE  T!Around([par EXCEPT ![i] = d], x) = T!Around(par, x)
<1> USE ItemsAssumption
<1> DEFINE moved == [par EXCEPT ![i] = d]
           H == T!Holders(par, x)
           K == T!Holders(moved, x)
<1>0. H \subseteq Containers /\ K \subseteq Containers
  BY HoldersLeast
<1>1. i \notin H
  BY HoldersReached DEF T!Around
<1>2. \A y \in Items \ {i} : moved[y] = par[y]
  BY DEF Parents
<1> HIDE DEF moved
<1>3. Upwards(moved, x, H)
  BY <1>0, <1>1, <1>2, HoldersLeast DEF Upwards
<1>4. K \subseteq H
  BY <1>0, <1>3, HoldersLeast
<1>5. Upwards(par, x, K)
  BY <1>0, <1>1, <1>2, <1>4, HoldersLeast DEF Upwards
<1>6. K = H
  BY <1>0, <1>4, <1>5, HoldersLeast
<1>7. T!Around(moved, x) = T!Around(par, x)
  BY <1>0, <1>1, <1>2, <1>6 DEF T!Around
<1> QED
  BY <1>7 DEF moved

\* What is around something around x is around x.
LEMMA AroundTransitive ==
    ASSUME NEW par \in Parents, NEW x \in Items, NEW c \in Items, c \in T!Around(par, x)
    PROVE  T!Around(par, c) \subseteq T!Around(par, x)
<1> USE ItemsAssumption
<1>1. c \in Containers
  BY HoldersLeast DEF T!Around, Parents, Cylinders
<1>2. c \in T!Holders(par, x)
  BY <1>1, HoldersLeast DEF T!Around, Upwards
<1>3. Upwards(par, c, T!Holders(par, x))
  BY <1>2, HoldersLeast DEF Upwards
<1>4. T!Holders(par, c) \subseteq T!Holders(par, x)
  BY <1>3, HoldersLeast
<1> QED
  BY <1>2, <1>4 DEF T!Around

\* Of an item that lies in d, around it are d and what is around d.
LEMMA AroundUnrolled ==
    ASSUME NEW par \in Parents, NEW x \in Items
    PROVE  T!Around(par, x) =
              {par[x]} \cup IF par[x] \in Containers THEN T!Around(par, par[x]) ELSE {}
BY HoldersUnrolled, ItemsAssumption DEF T!Around

-----------------------------------------------------------------------------
(* Trades: OffersApart is inductive, with nobody trading with themselves   *)

Partners ==
    \A p \in Players :
        /\ tradeState[p] = "NONE" <=> tradePartner[p] = None
        /\ tradePartner[p] # None =>
              /\ {p, tradePartner[p]} \subseteq online
              /\ tradePartner[tradePartner[p]] = p /\ tradePartner[p] # p
              /\ ~(tradeState[p] = "ACCEPT" /\ tradeState[tradePartner[p]] = "ACCEPT")
        /\ tradeState[p] \in {"NONE", "ACKNOWLEDGE"} => tradeItem[p] = None

Reachable == \A p \in Players : tradeItem[p] # None => T!Reach(p, tradeItem[p])

Listed == tradeItems = {tradeItem[p] : p \in Players} \ {None}

Apart ==
    \A p, q \in Players :
        p # q /\ tradeItem[p] # None /\ tradeItem[q] # None
           => ~T!Overlap(parent, tradeItem[p], tradeItem[q])

TradeInv == T!TypeOK /\ online \subseteq Players /\ Partners /\ Reachable /\ Listed /\ Apart

\* Who is no longer trading when the trades of K are closed.
Closed(K) == K \cup {tradePartner[q] : q \in K}

\* internalCloseTrade for those of K, when those that go are among them and
\* nothing moved around what the others offer.
LEMMA Closing ==
    ASSUME TradeInv, NEW K \in SUBSET Players, \A q \in K : tradePartner[q] # None,
           T!CloseTrades(K),
           online' \subseteq Players, online \ online' \subseteq K,
           parent' \in Parents,
           \A q \in Players \ Closed(K) : tradeItem[q] # None =>
               T!Around(parent', tradeItem[q]) = T!Around(parent, tradeItem[q])
    PROVE  TradeInv'
<1> USE ItemsAssumption
<1>0. /\ tradeState \in [Players -> {"NONE", "INITIATED", "ACKNOWLEDGE", "ACCEPT"}]
      /\ tradePartner \in [Players -> Players \cup {None}]
      /\ tradeItem \in [Players -> Items \cup {None}]
      /\ tradeItems \subseteq Items
  BY DEF TradeInv, T!TypeOK
<1>1. /\ Closed(K) \in SUBSET Players
      /\ \A q \in Players : tradePartner[q] \in Closed(K) => q \in Closed(K)
  BY <1>0 DEF TradeInv, Partners, Closed
<1>2. /\ tradeState' = [p \in Players |-> IF p \in Closed(K) THEN "NONE" ELSE tradeState[p]]
      /\ tradePartner' = [p \in Players |-> IF p \in Closed(K) THEN None ELSE tradePartner[p]]
      /\ tradeItem' = [p \in Players |-> IF p \in Closed(K) THEN None ELSE tradeItem[p]]
      /\ tradeItems' = tradeItems \ {tradeItem[p] : p \in Closed(K)}
  BY <1>1 DEF T!CloseTrades, Closed
<1>3. \A q \in K : q \in Closed(K)
  BY DEF Closed
<1>4. T!TypeOK'
  BY <1>0, <1>2 DEF T!TypeOK, Parents, Cylinders
<1>5. Partners'
  <2> SUFFICES ASSUME NEW p \in Players
               PROVE  /\ tradeState'[p] = "NONE" <=> tradePartner'[p] = None
                      /\ tradePartner'[p] # None =>
                            /\ {p, tradePartner'[p]} \subseteq online'
                            /\ tradePartner'[tradePartner'[p]] = p /\ tradePartner'[p] # p
                            /\ ~(tradeState'[p] = "ACCEPT" /\ tradeState'[tradePartner'[p]] = "ACCEPT")
                      /\ tradeState'[p] \in {"NONE", "ACKNOWLEDGE"} => tradeItem'[p] = None
    BY DEF Partners
  <2>1. CASE p \in Closed(K)
    BY <1>2, <2>1
  <2>2. CASE p \notin Closed(K)
    BY <1>0, <1>1, <1>2, <1>3, <2>2 DEF TradeInv, Partners
  <2> QED
    BY <2>1, <2>2
<1>6. Reachable'
  <2> SUFFICES ASSUME NEW p \in Players, tradeItem'[p] # None
               PROVE  {p, Ground} \cap (T!Around(parent', tradeItem'[p]) \cup {tradeItem'[p]}) # {}
    BY DEF Reachable, T!Reach
  <2>1. p \notin Closed(K) /\ tradeItem'[p] = tradeItem[p]
    BY <1>2
  <2>2. {p, Ground} \cap (T!Around(parent, tradeItem[p]) \cup {tradeItem[p]}) # {}
    BY <2>1 DEF TradeInv, Reachable, T!Reach
  <2> QED
    BY <2>1, <2>2
<1>7. Listed'
  <2>1. \A p, q \in Players : p # q /\ tradeItem[p] # None => tradeItem[p] # tradeItem[q]
    BY <1>0 DEF TradeInv, Apart, T!Overlap
  <2> QED
    BY <1>0, <1>1, <1>2, <2>1 DEF TradeInv, Listed
<1>8. Apart'
  <2> SUFFICES ASSUME NEW p \in Players, NEW q \in Players, p # q,
                      tradeItem'[p] # None, tradeItem'[q] # None
               PROVE  /\ tradeItem'[p] # tradeItem'[q]
                      /\ tradeItem'[p] \notin T!Around(parent', tradeItem'[q])
                      /\ tradeItem'[q] \notin T!Around(parent', tradeItem'[p])
    BY DEF Apart, T!Overlap
  <2>1. /\ p \notin Closed(K) /\ tradeItem'[p] = tradeItem[p]
        /\ q \notin Closed(K) /\ tradeItem'[q] = tradeItem[q]
    BY <1>2
  <2> QED
    BY <2>1 DEF TradeInv, Apart, T!Overlap
<1> QED
  BY <1>4, <1>5, <1>6, <1>7, <1>8 DEF TradeInv

\* Nobody's offer holds the item that is moved: the offers that stay have the
\* same cylinders around them.
LEMMA Undisturbed ==
    ASSUME TradeInv, NEW i \in Items, NEW j \in Items, ~T!Overlap(parent, i, j), NEW d
    PROVE  T!Around([parent EXCEPT ![i] = d], j) = T!Around(parent, j)
BY AroundKept DEF TradeInv, T!TypeOK, Parents, Cylinders, T!Overlap

\* An offer is registered when it overlaps with no other.
LEMMA RequestTradeInv ==
    ASSUME TradeInv, NEW p \in Players, NEW q \in Players, NEW i \in Items,
           T!RequestTrade(p, q, i)
    PROVE  TradeInv'
<1> USE ItemsAssumption
<1>0. /\ tradeState \in [Players -> {"NONE", "INITIATED", "ACKNOWLEDGE", "ACCEPT"}]
      /\ tradePartner \in [Players -> Players \cup {None}]
      /\ tradeItem \in [Players -> Items \cup {None}]
      /\ tradeItems \subseteq Items
  BY DEF TradeInv, T!TypeOK
<1>1. /\ p # q /\ p \in online /\ q \in online
      /\ T!Reach(p, i)
      /\ \A j \in tradeItems : ~T!Overlap(parent, i, j)
      /\ tradeState[p] = "NONE" \/ (tradeState[p] = "ACKNOWLEDGE" /\ tradePartner[p] = q)
      /\ tradeState[q] = "NONE" \/ tradePartner[q] = p
      /\ UNCHANGED <<online, parent>>
  BY DEF T!RequestTrade
<1>2. \A r \in Players :
        /\ tradeState'[r] = IF r = p THEN "INITIATED"
                            ELSE IF r = q /\ tradeState[q] = "NONE" THEN "ACKNOWLEDGE"
                            ELSE tradeState[r]
        /\ tradePartner'[r] = IF r = p THEN q
                              ELSE IF r = q /\ tradeState[q] = "NONE" THEN p
                              ELSE tradePartner[r]
        /\ tradeItem'[r] = IF r = p THEN i ELSE tradeItem[r]
  BY <1>0, <1>1 DEF T!RequestTrade
<1>3. tradeItems' = tradeItems \cup {i}
  BY DEF T!RequestTrade
<1>4. T!TypeOK'
  BY <1>0, <1>1 DEF T!RequestTrade, T!TypeOK, TradeInv
<1>5. tradePartner[q] \in {None, p} /\ tradePartner[p] \in {None, q}
  BY <1>0, <1>1 DEF TradeInv, Partners
<1>6. tradePartner[q] = p <=> tradePartner[p] = q
  BY <1>1, <1>5 DEF TradeInv, Partners
<1>7. tradeItem[p] = None
  BY <1>1 DEF TradeInv, Partners
<1>8. Partners'
  <2> SUFFICES ASSUME NEW r \in Players
               PROVE  /\ tradeState'[r] = "NONE" <=> tradePartner'[r] = None
                      /\ tradePartner'[r] # None =>
                            /\ {r, tradePartner'[r]} \subseteq online
                            /\ tradePartner'[tradePartner'[r]] = r /\ tradePartner'[r] # r
                            /\ ~(tradeState'[r] = "ACCEPT" /\ tradeState'[tradePartner'[r]] = "ACCEPT")
                      /\ tradeState'[r] \in {"NONE", "ACKNOWLEDGE"} => tradeItem'[r] = None
    BY <1>1 DEF Partners
  <2>1. tradePartner'[p] = q /\ tradePartner'[q] = p /\ tradeState'[p] = "INITIATED"
    BY <1>1, <1>2, <1>5, <1>6 DEF TradeInv, Partners
  <2>2. CASE r = p
    BY <1>1, <2>1, <2>2
  <2>3. CASE r = q
    BY <1>1, <1>2, <2>1, <2>3 DEF TradeInv, Partners
  <2>4. CASE r # p /\ r # q
    <3>1. tradePartner[r] # p /\ tradePartner[r] # q
      BY <1>1, <1>5, <1>6, <2>4 DEF TradeInv, Partners
    <3>2. /\ tradeState'[r] = tradeState[r] /\ tradePartner'[r] = tradePartner[r]
          /\ tradeItem'[r] = tradeItem[r]
      BY <1>2, <2>4
    <3>3. tradePartner[r] # None =>
            /\ tradeState'[tradePartner[r]] = tradeState[tradePartner[r]]
            /\ tradePartner'[tradePartner[r]] = tradePartner[tradePartner[r]]
      BY <1>0, <1>2, <3>1
    <3> QED
      BY <3>2, <3>3 DEF TradeInv, Partners
  <2> QED
    BY <2>2, <2>3, <2>4
<1>9. Reachable'
  BY <1>1, <1>2 DEF TradeInv, Reachable, T!Reach
<1>10. Listed'
  <2>1. \A r \in Players : tradeItem[r] # None => r # p
    BY <1>7
  <2> QED
    BY <1>0, <1>2, <1>3, <2>1 DEF TradeInv, Listed
<1>11. Apart'
  <2>1. \A r \in Players : tradeItem[r] # None => tradeItem[r] \in tradeItems
    BY DEF TradeInv, Listed
  <2>2. \A r \in Players : tradeItem[r] # None =>
           ~T!Overlap(parent, i, tradeItem[r]) /\ ~T!Overlap(parent, tradeItem[r], i)
    BY <1>1, <2>1 DEF T!Overlap
  <2> SUFFICES ASSUME NEW r \in Players, NEW s \in Players, r # s,
                      tradeItem'[r] # None, tradeItem'[s] # None
               PROVE  ~T!Overlap(parent, tradeItem'[r], tradeItem'[s])
    BY <1>1 DEF Apart, T!Overlap
  <2> QED
    BY <1>2, <2>2 DEF TradeInv, Apart
<1> QED
  BY <1>1, <1>4, <1>8, <1>9, <1>10, <1>11 DEF TradeInv

LEMMA AcceptFirstInv ==
    ASSUME TradeInv, NEW p \in Players, T!AcceptFirst(p)
    PROVE  TradeInv'
<1> USE ItemsAssumption
<1>0. /\ tradeState \in [Players -> {"NONE", "INITIATED", "ACKNOWLEDGE", "ACCEPT"}]
      /\ tradePartner \in [Players -> Players \cup {None}]
  BY DEF TradeInv, T!TypeOK
<1>1. /\ tradePartner[p] # None /\ tradeState[tradePartner[p]] # "ACCEPT"
      /\ tradeState[p] # "NONE" /\ tradeState' = [tradeState EXCEPT ![p] = "ACCEPT"]
      /\ UNCHANGED <<online, parent, tradePartner, tradeItem, tradeItems>>
  BY DEF T!AcceptFirst, T!CanAccept
<1>2. \A r \in Players : tradeState'[r] = IF r = p THEN "ACCEPT" ELSE tradeState[r]
  BY <1>0, <1>1
<1>3. T!TypeOK'
  BY <1>0, <1>1 DEF TradeInv, T!TypeOK
<1>4. Partners'
  <2> SUFFICES ASSUME NEW r \in Players
               PROVE  /\ tradeState'[r] = "NONE" <=> tradePartner[r] = None
                      /\ tradePartner[r] # None =>
                            /\ {r, tradePartner[r]} \subseteq online
                            /\ tradePartner[tradePartner[r]] = r /\ tradePartner[r] # r
                            /\ ~(tradeState'[r] = "ACCEPT" /\ tradeState'[tradePartner[r]] = "ACCEPT")
                      /\ tradeState'[r] \in {"NONE", "ACKNOWLEDGE"} => tradeItem[r] = None
    BY <1>1 DEF Partners
  <2> QED
    BY <1>0, <1>1, <1>2 DEF TradeInv, Partners
<1> QED
  BY <1>1, <1>3, <1>4 DEF TradeInv, Reachable, Listed, Apart, T!Reach, T!Overlap

\* playerCloseTrade, and an acceptance that comes to nothing.
LEMMA CloseTradeInv ==
    ASSUME TradeInv, NEW p \in Players, T!CloseTrade(p) \/ T!AcceptFails(p)
    PROVE  TradeInv'
<1>1. tradePartner[p] # None /\ T!CloseTrades({p}) /\ UNCHANGED <<online, parent>>
  BY DEF T!CloseTrade, T!AcceptFails, T!CanAccept
<1> QED
  BY <1>1, Closing DEF TradeInv, T!TypeOK, Parents, Cylinders

\* Who leaves the game closes its trade before.
LEMMA PlayerRemovedInv ==
    ASSUME TradeInv, NEW p \in Players, T!PlayerRemoved(p), online' = online \ {p}
    PROVE  TradeInv'
<1> DEFINE K == {r \in {p} : tradePartner[r] # None}
<1>1. T!CloseTrades(K) /\ parent' = parent
  BY DEF T!PlayerRemoved
<1>2. CASE tradePartner[p] # None
  <2>1. K = {p}
    BY <1>2
  <2> QED
    BY <1>1, <2>1, Closing DEF TradeInv, T!TypeOK, Parents, Cylinders
<1>3. CASE tradePartner[p] = None
  <2>1. K = {} /\ Closed(K) = {}
    BY <1>3 DEF Closed
  <2>2. /\ tradeState' = [q \in Players |-> tradeState[q]]
        /\ tradePartner' = [q \in Players |-> tradePartner[q]]
        /\ tradeItem' = [q \in Players |-> tradeItem[q]]
        /\ tradeItems' = tradeItems
    BY <1>1, <2>1 DEF T!CloseTrades
  <2>3. UNCHANGED <<tradeState, tradePartner, tradeItem, tradeItems, parent>>
    BY <1>1, <2>2 DEF TradeInv, T!TypeOK
  <2>4. \A r \in Players : tradePartner[r] # None => r # p /\ tradePartner[r] # p
    BY <1>3, ItemsAssumption DEF TradeInv, Partners
  <2>5. Partners'
    BY <2>3, <2>4 DEF TradeInv, Partners
  <2> QED
    BY <2>3, <2>5 DEF TradeInv, T!TypeOK, Reachable, Listed, Apart, T!Reach, T!Overlap
<1> QED
  BY <1>2, <1>3

\* Whoever is disturbed offers something, and so has a partner.
LEMMA DisturbedTrade ==
    ASSUME TradeInv, NEW par, NEW i, NEW d
    PROVE  T!Disturbed(par, i, d) \subseteq {q \in Players : tradePartner[q] # None}
BY DEF T!Disturbed, TradeInv, Partners

\* The trades that a move disturbs are closed, the others do not notice it.
LEMMA MoveItemInv ==
    ASSUME TradeInv, NEW p \in Players, NEW i \in Items,
           NEW d \in {p, Ground} \cup Containers, T!MoveItem(p, i, d)
    PROVE  TradeInv'
<1> USE ItemsAssumption
<1> DEFINE K == T!Disturbed(parent, i, d)
<1>1. T!CloseTrades(K) /\ online' = online /\ parent' = [parent EXCEPT ![i] = d] /\ parent[i] # d
  BY DEF T!MoveItem
<1>2. \A q \in K : tradePartner[q] # None
  BY DisturbedTrade
<1>3. parent' \in Parents
  BY <1>1 DEF TradeInv, T!TypeOK, Parents, Cylinders
<1>4. ASSUME NEW q \in Players \ Closed(K), tradeItem[q] # None
      PROVE  T!Around(parent', tradeItem[q]) = T!Around(parent, tradeItem[q])
  <2>1. tradeItem[q] \in Items
    BY <1>4 DEF TradeInv, T!TypeOK
  <2>2. ~T!Overlap(parent, i, tradeItem[q])
    BY <1>1, <1>4 DEF Closed, T!Disturbed, T!Disturbs
  <2> QED
    BY <1>1, <2>1, <2>2, Undisturbed
<1> HIDE DEF K
<1> QED
  <2>1. K \subseteq Players
    BY DisturbedTrade DEF K
  <2> QED
    BY <1>1, <1>2, <1>3, <1>4, <2>1, Closing DEF TradeInv

\* Where a trade puts an item is a cylinder, or it is lost.
LEMMA PlacesAreCylinders ==
    ASSUME NEW par, NEW i, NEW p \in Players, NEW given
    PROVE  T!PlacesWith(par, i, p, given) \subseteq Cylinders
BY DEF T!PlacesWith, Cylinders

\* An exchange moves two items that are not in any other offer.
LEMMA AcceptTransfersInv ==
    ASSUME TradeInv, NEW p \in Players, T!AcceptTransfers(p)
    PROVE  TradeInv'
<1> USE ItemsAssumption
<1> DEFINE q == tradePartner[p]
           mine == tradeItem[p]
           theirs == tradeItem[q]
<1>1. q # None /\ mine # None /\ theirs # None /\ online' = online
  BY DEF T!AcceptTransfers, T!CanAccept
<1>2. q \in Players /\ q # p /\ mine \in Items /\ theirs \in Items
  BY <1>1 DEF TradeInv, T!TypeOK, Partners
<1>3. PICK d \in T!PlacesWith(parent, mine, q, theirs) :
         LET first == [parent EXCEPT ![mine] = d]
         IN  \E e \in T!PlacesWith(first, theirs, p, mine) \cup T!Stays(parent, theirs, p, mine) :
                /\ parent' = [first EXCEPT ![theirs] = e]
                /\ T!CloseTrades({p} \cup T!Disturbed(parent, mine, d) \cup T!Disturbed(first, theirs, e))
  BY DEF T!AcceptTransfers
<1> DEFINE first == [parent EXCEPT ![mine] = d]
<1>4. PICK e \in T!PlacesWith(first, theirs, p, mine) \cup T!Stays(parent, theirs, p, mine) :
         /\ parent' = [first EXCEPT ![theirs] = e]
         /\ T!CloseTrades({p} \cup T!Disturbed(parent, mine, d) \cup T!Disturbed(first, theirs, e))
  BY <1>3
<1> DEFINE K == {p} \cup T!Disturbed(parent, mine, d) \cup T!Disturbed(first, theirs, e)
<1>5. d \in Cylinders /\ e \in Cylinders
  BY <1>2, PlacesAreCylinders DEF T!Stays, TradeInv, T!TypeOK, Cylinders
<1>6. first \in Parents /\ parent' \in Parents
  BY <1>4, <1>5 DEF TradeInv, T!TypeOK, Parents, Cylinders
<1>7. ASSUME NEW r \in Players \ Closed(K), tradeItem[r] # None
      PROVE  T!Around(parent', tradeItem[r]) = T!Around(parent, tradeItem[r])
  <2>1. r # p /\ r # q
    BY <1>7 DEF Closed
  <2>2. tradeItem[r] \in Items
    BY <1>7 DEF TradeInv, T!TypeOK
  <2>3. ~T!Overlap(parent, mine, tradeItem[r]) /\ ~T!Overlap(parent, theirs, tradeItem[r])
    BY <1>1, <1>2, <1>7, <2>1 DEF TradeInv, Apart
  <2>4. T!Around(first, tradeItem[r]) = T!Around(parent, tradeItem[r])
    BY <1>2, <2>2, <2>3, Undisturbed
  <2>5. theirs # tradeItem[r] /\ theirs \notin T!Around(first, tradeItem[r])
    BY <2>3, <2>4 DEF T!Overlap
  <2> HIDE DEF first, theirs
  <2>6. T!Around([first EXCEPT ![theirs] = e], tradeItem[r]) = T!Around(first, tradeItem[r])
    BY <1>2, <1>6, <2>2, <2>5, AroundKept
  <2> QED
    BY <1>4, <2>4, <2>6
<1>8. K \subseteq Players /\ \A r \in K : tradePartner[r] # None
  BY <1>1, DisturbedTrade
<1>9. T!CloseTrades(K)
  BY <1>4
<1> HIDE DEF K
<1> QED
  BY <1>1, <1>6, <1>7, <1>8, <1>9, Closing DEF TradeInv

LEMMA TradeInit == T!Init => TradeInv
BY ItemsAssumption DEF T!Init, TradeInv, T!TypeOK, Partners, Reachable, Listed, Apart

\* What is left of a step when trades are not concerned.
LEMMA TradeKept ==
    ASSUME TradeInv, UNCHANGED tradeVars, online' \in SUBSET Players, online \subseteq online'
    PROVE  TradeInv'
<1>1. UNCHANGED <<parent, tradeState, tradePartner, tradeItem, tradeItems>>
  BY DEF tradeVars
<1>2. Partners'
  BY <1>1 DEF TradeInv, Partners
<1> QED
  BY <1>1, <1>2 DEF TradeInv, T!TypeOK, Reachable, Listed, Apart, T!Reach, T!Overlap

LEMMA TradeNext == TradeInv /\ [Next]_vars => TradeInv'
<1> SUFFICES ASSUME TradeInv, [Next]_vars PROVE TradeInv'
  OBVIOUS
<1>1. CASE UNCHANGED vars
  BY <1>1, TradeKept DEF vars, TradeInv
<1>2. ASSUME NEW p \in Players, P!Request(p), UNCHANGED tradeVars PROVE TradeInv'
  <2>1. online' = online
    BY <1>2 DEF P!Request, P!Leave, P!InviteToParty, P!AcceptInvitation, P!RevokeInvitation,
                P!PassLeadership
  <2> QED
    BY <1>2, <2>1, TradeKept DEF TradeInv
<1>3. ASSUME NEW p \in Players, T!Request(p) PROVE TradeInv'
  BY <1>3, AcceptFirstInv, CloseTradeInv, AcceptTransfersInv, RequestTradeInv, MoveItemInv
  DEF T!Request
<1>4. ASSUME NEW p \in Players, Enter(p) PROVE TradeInv'
  BY <1>4, TradeKept DEF Enter, P!Enter, TradeInv
<1>5. ASSUME NEW p \in Players, Remove(p) PROVE TradeInv'
  BY <1>5, PlayerRemovedInv DEF Remove, P!Remove
<1> QED
  BY <1>1, <1>2, <1>3, <1>4, <1>5 DEF Next

-----------------------------------------------------------------------------
(* The exchange of a trade                                                 *)

\* An item that is put with q is carried by q, or lost for want of a place:
\* not by anybody else, and not in the item that is given for it.
LEMMA PutWith ==
    ASSUME NEW par \in Parents, NEW i \in Items, NEW p \in Players, NEW q \in Players, p # q,
           NEW given \in Items, NEW d \in T!PlacesWith(par, i, q, given),
           d \in Containers => d # i /\ i \notin T!Around(par, d)
    PROVE  /\ p \notin T!Around([par EXCEPT ![i] = d], i)
           /\ \/ q \in T!Around([par EXCEPT ![i] = d], i)
              \/ T!Dropped(par, i, q, given) /\ [par EXCEPT ![i] = d][i] = None
           /\ given \notin T!Around([par EXCEPT ![i] = d], i)
<1> USE ItemsAssumption
<1> DEFINE after == [par EXCEPT ![i] = d]
<1>1. d \in Cylinders
  BY PlacesAreCylinders
<1>2. after \in Parents /\ after[i] = d
  BY <1>1 DEF Parents
<1> HIDE DEF after
<1>3. CASE d \notin Containers
  <2>1. T!Around(after, i) = {d}
    <3>1. T!Holders(after, i) = {}
      BY <1>2, <1>3, HoldersUnrolled
    <3> QED
      BY <1>2, <3>1 DEF T!Around
  <2>2. d = q \/ (d = None /\ T!Dropped(par, i, q, given))
    BY <1>3 DEF T!PlacesWith
  <2>3. q # given
    OBVIOUS
  <2>4. p \notin T!Around(after, i) /\ given \notin T!Around(after, i)
    BY <2>1, <2>2, <2>3
  <2> QED
    BY <1>2, <2>1, <2>2, <2>4 DEF after
<1>4. CASE d \in Containers
  <2>1. q \in T!Around(par, d) /\ d # given /\ given \notin T!Around(par, d)
    BY <1>4 DEF T!PlacesWith
  <2>2. T!Around(after, d) = T!Around(par, d)
    BY <1>4, AroundKept DEF after
  <2>3. T!Around(after, i) = {d} \cup T!Around(par, d)
    BY <1>2, <1>4, <2>2, AroundUnrolled
  <2>4. p \notin T!Around(par, d)
    BY <1>4, <2>1, OneRoot
  <2> QED
    BY <1>4, <2>1, <2>3, <2>4 DEF after
<1> QED
  BY <1>3, <1>4

\* What p can reach is not around something that q carries.
LEMMA ReachedApart ==
    ASSUME NEW par \in Parents, NEW i \in Items, NEW p \in Players, NEW q \in Players, p # q,
           {p, Ground} \cap T!Around(par, i) # {},
           NEW d \in Containers, q \in T!Around(par, d)
    PROVE  d # i /\ i \notin T!Around(par, d)
<1> USE ItemsAssumption
<1>1. PICK r \in {p, Ground} : r \in T!Around(par, i)
  OBVIOUS
<1>2. r \notin T!Around(par, d)
  BY <1>1, OneRoot
<1> QED
  BY <1>1, <1>2, AroundTransitive

\* Each of the two items of an exchange is with the other player afterwards, or it ended
\* in one of the three ways that FairSwap names.
LEMMA FairTransfer ==
    ASSUME TradeInv, NEW p \in Players, T!AcceptTransfers(p)
    PROVE  LET q == tradePartner[p]
               mine == tradeItem[p]
               theirs == tradeItem[q]
           IN  /\ T!Given(mine, p, q, mine \in Stackable \/ (theirs \in Containers /\ parent[theirs] = q))
               /\ \/ T!Given(theirs, q, p, theirs \in Stackable)
                  \/ /\ mine \in Containers /\ p \in T!Around(parent, mine)
                     /\ parent'[theirs] = parent[theirs]
               /\ \A i \in Items \ {mine, theirs} : parent'[i] = parent[i]
<1> USE ItemsAssumption
<1> DEFINE q == tradePartner[p]
           mine == tradeItem[p]
           theirs == tradeItem[q]
<1>1. q # None /\ mine # None /\ theirs # None
  BY DEF T!AcceptTransfers, T!CanAccept
<1>2. q \in Players /\ q # p /\ mine \in Items /\ theirs \in Items /\ parent \in Parents
  BY <1>1 DEF TradeInv, T!TypeOK, Partners, Parents, Cylinders
<1>3. PICK d \in T!PlacesWith(parent, mine, q, theirs) :
         LET first == [parent EXCEPT ![mine] = d]
         IN  \E e \in T!PlacesWith(first, theirs, p, mine) \cup T!Stays(parent, theirs, p, mine) :
                parent' = [first EXCEPT ![theirs] = e]
  BY DEF T!AcceptTransfers
<1> DEFINE first == [parent EXCEPT ![mine] = d]
<1>4. PICK e \in T!PlacesWith(first, theirs, p, mine) \cup T!Stays(parent, theirs, p, mine) :
         parent' = [first EXCEPT ![theirs] = e]
  BY <1>3
<1>5. mine # theirs /\ mine \notin T!Around(parent, theirs)
  BY <1>1, <1>2 DEF TradeInv, Apart, T!Overlap
<1>6. {p, Ground} \cap T!Around(parent, mine) # {} /\ {q, Ground} \cap T!Around(parent, theirs) # {}
  BY <1>1, <1>2 DEF TradeInv, Reachable, T!Reach
<1>7. d \in Cylinders /\ e \in Cylinders /\ first \in Parents
  BY <1>2, PlacesAreCylinders DEF Parents, T!Stays
<1>8. first[mine] = d /\ d # p
  BY <1>2 DEF Parents, T!PlacesWith
<1> HIDE DEF q, mine, theirs
<1>9. d \in Containers => d # mine /\ mine \notin T!Around(parent, d)
  BY <1>2, <1>6, ReachedApart DEF T!PlacesWith
<1>10. /\ p \notin T!Around(first, mine)
       /\ q \in T!Around(first, mine) \/ (T!Dropped(parent, mine, q, theirs) /\ first[mine] = None)
       /\ theirs \notin T!Around(first, mine)
  BY <1>2, <1>9, PutWith
<1>11. T!Around(first, theirs) = T!Around(parent, theirs)
  BY <1>2, <1>5, <1>7, AroundKept
<1> HIDE DEF first
<1>12. T!Given(mine, p, q, mine \in Stackable \/ (theirs \in Containers /\ parent[theirs] = q))
  <2>1. T!Around([first EXCEPT ![theirs] = e], mine) = T!Around(first, mine)
    BY <1>2, <1>5, <1>7, <1>10, AroundKept
  <2>2. parent'[mine] = first[mine]
    BY <1>2, <1>4, <1>5, <1>7 DEF Parents
  <2> QED
    BY <1>4, <1>10, <2>1, <2>2 DEF T!Given, T!Dropped
<1>13. ASSUME e \in T!PlacesWith(first, theirs, p, mine)
       PROVE  T!Given(theirs, q, p, theirs \in Stackable)
  <2>1. e \in Containers => e # theirs /\ theirs \notin T!Around(first, e)
    BY <1>2, <1>6, <1>7, <1>11, <1>13, ReachedApart DEF T!PlacesWith
  <2>2. /\ q \notin T!Around([first EXCEPT ![theirs] = e], theirs)
        /\ \/ p \in T!Around([first EXCEPT ![theirs] = e], theirs)
           \/ T!Dropped(first, theirs, p, mine) /\ [first EXCEPT ![theirs] = e][theirs] = None
    BY <1>2, <1>7, <1>13, <2>1, PutWith
  <2> QED
    BY <1>4, <1>8, <2>2 DEF T!Given, T!Dropped
<1>14. ASSUME e \in T!Stays(parent, theirs, p, mine)
       PROVE  /\ mine \in Containers /\ p \in T!Around(parent, mine)
              /\ parent'[theirs] = parent[theirs]
  BY <1>2, <1>4, <1>7, <1>14 DEF T!Stays, Parents
<1>15. \A i \in Items \ {mine, theirs} : parent'[i] = parent[i]
  BY <1>2, <1>4, <1>7 DEF first, Parents
<1> QED
  BY <1>4, <1>12, <1>13, <1>14, <1>15 DEF q, mine, theirs

-----------------------------------------------------------------------------
(* The theorems about trades                                               *)

LEMMA TradeInductive == Spec => []TradeInv
<1>1. Init => TradeInv
  BY TradeInit DEF Init
<1> QED
  BY <1>1, TradeNext, PTL DEF Spec

\* Whoever moves, leaves, answers or closes meanwhile: no item is promised
\* twice, and every offer is within its owner's reach.
THEOREM NothingPromisedTwice == Spec => []OffersApart
<1>1. TradeInv => OffersApart
  BY DEF TradeInv, Partners, Reachable, Listed, Apart, OffersApart, T!OffersApart
<1> QED
  BY <1>1, TradeInductive, PTL

\* Game::playerAcceptTrade: whoever accepts last gives its item to the partner and gets the
\* partner's, except in the three bad ends of FairSwap: an item is lost on the way only if
\* it is a stack or the room for it was in a worn container it is exchanged for, and the
\* partner keeps its item only if the room for it was in a container that was given.
THEOREM ExchangeIsFair == Spec => FairSwap
<1>1. TradeInv => [\A p \in Players :
                      T!AcceptTransfers(p) =>
                         LET q == tradePartner[p]
                             mine == tradeItem[p]
                             theirs == tradeItem[q]
                         IN  /\ T!Given(mine, p, q,
                                         mine \in Stackable \/ (theirs \in Containers /\ parent[theirs] = q))
                             /\ \/ T!Given(theirs, q, p, theirs \in Stackable)
                                \/ /\ mine \in Containers /\ p \in T!Around(parent, mine)
                                   /\ parent'[theirs] = parent[theirs]
                             /\ \A i \in Items \ {mine, theirs} : parent'[i] = parent[i]]_<<online, T!tradeVars>>
  BY FairTransfer
<1> QED
  BY <1>1, TradeInductive, PTL DEF FairSwap, T!FairSwap

-----------------------------------------------------------------------------
(* Lists of members: no player is in one twice                             *)

Elements(list) == {list[i] : i \in DOMAIN list}

Once(list) == \A i, j \in DOMAIN list : list[i] = list[j] => i = j

\* erase() takes out the one occurrence and shifts what is behind it.
LEMMA WithoutFound ==
    ASSUME NEW list \in Seq(Players), NEW k \in 1..Len(list), Once(list)
    PROVE  LET w == P!Without(list, list[k])
           IN  /\ w \in Seq(Players) /\ Len(w) = Len(list) - 1
               /\ \A i \in 1..(Len(list) - 1) : w[i] = IF i < k THEN list[i] ELSE list[i + 1]
<1> DEFINE n == Len(list)
           found == {i \in DOMAIN list : list[i] = list[k]}
           front == SubSeq(list, 1, k - 1)
           back == SubSeq(list, k + 1, n)
<1>1. n \in Nat /\ DOMAIN list = 1..n /\ \A i \in 1..n : list[i] \in Players
  BY LenProperties
<1>2. found = {k}
  BY <1>1 DEF Once
<1>3. (CHOOSE i \in found : \A j \in found : i <= j) = k
  BY <1>1, <1>2
<1>4. P!Without(list, list[k]) = front \o back
  BY <1>2, <1>3 DEF P!Without
<1>5. front \in Seq(Players) /\ Len(front) = k - 1 /\ \A i \in 1..(k - 1) : front[i] = list[i]
  <2>1. 1 \in 1..n + 1 /\ k - 1 \in 1 - 1 .. n
    BY <1>1
  <2> QED
    BY <1>1, <2>1, SubSeqProperties
<1>6. back \in Seq(Players) /\ Len(back) = n - k /\ \A i \in 1..(n - k) : back[i] = list[k + i]
  <2>1. k + 1 \in 1..n + 1 /\ n \in (k + 1) - 1 .. n
    BY <1>1
  <2>2. /\ back \in Seq(Players) /\ Len(back) = n - (k + 1) + 1
        /\ \A i \in 1..(n - (k + 1) + 1) : back[i] = list[(k + 1) + i - 1]
    BY <2>1, SubSeqProperties
  <2>3. n - (k + 1) + 1 = n - k
    BY <1>1
  <2>4. \A i \in 1..(n - k) : (k + 1) + i - 1 = k + i
    BY <1>1
  <2> HIDE DEF back, n
  <2> QED
    BY <2>2, <2>3, <2>4
<1> HIDE DEF n, front, back
<1>7. /\ front \o back \in Seq(Players) /\ Len(front \o back) = n - 1
      /\ \A i \in 1..(n - 1) : (front \o back)[i] = IF i < k THEN front[i] ELSE back[i - (k - 1)]
  <2>1. /\ front \o back \in Seq(Players) /\ Len(front \o back) = Len(front) + Len(back)
        /\ \A i \in 1..(Len(front) + Len(back)) :
              (front \o back)[i] = IF i <= Len(front) THEN front[i] ELSE back[i - Len(front)]
    BY <1>5, <1>6, ConcatProperties
  <2>2. Len(front) + Len(back) = n - 1
    BY <1>1, <1>5, <1>6 DEF n
  <2>3. \A i \in 1..(n - 1) : i <= k - 1 <=> i < k
    BY <1>1 DEF n
  <2> QED
    BY <1>5, <2>1, <2>2, <2>3
<1>8. ASSUME NEW i \in 1..(n - 1)
      PROVE  (front \o back)[i] = IF i < k THEN list[i] ELSE list[i + 1]
  <2>1. (front \o back)[i] = IF i < k THEN front[i] ELSE back[i - (k - 1)]
    BY <1>7
  <2>2. CASE i < k
    <3>1. i \in 1..(k - 1)
      BY <1>1, <2>2 DEF n
    <3> QED
      BY <1>5, <2>1, <2>2, <3>1
  <2>3. CASE ~(i < k)
    <3>1. i - (k - 1) \in 1..(n - k) /\ k + (i - (k - 1)) = i + 1
      BY <1>1, <2>3 DEF n
    <3> QED
      BY <1>6, <2>1, <2>3, <3>1
  <2> QED
    BY <2>2, <2>3
<1> QED
  BY <1>4, <1>7, <1>8 DEF n

\* What find and erase leave.
LEMMA WithoutProperties ==
    ASSUME NEW list \in Seq(Players), NEW p, Once(list)
    PROVE  /\ P!Without(list, p) \in Seq(Players) /\ Once(P!Without(list, p))
           /\ Elements(P!Without(list, p)) = Elements(list) \ {p}
<1>0. Len(list) \in Nat /\ DOMAIN list = 1..Len(list)
  BY LenProperties
<1>1. CASE p \notin Elements(list)
  <2>1. P!Without(list, p) = list
    BY <1>1 DEF P!Without, Elements
  <2> QED
    BY <1>1, <2>1
<1>2. CASE p \in Elements(list)
  <2>1. PICK k \in 1..Len(list) : list[k] = p
    BY <1>0, <1>2 DEF Elements
  <2> DEFINE w == P!Without(list, p)
             n == Len(list)
  <2>2. /\ w \in Seq(Players) /\ Len(w) = n - 1
        /\ \A i \in 1..(n - 1) : w[i] = IF i < k THEN list[i] ELSE list[i + 1]
    BY <2>1, WithoutFound
  <2>3. DOMAIN w = 1..(n - 1)
    BY <2>2, LenProperties
  <2> HIDE DEF w
  <2>4. Once(w)
    BY <1>0, <2>2, <2>3 DEF Once
  <2>5. \A i \in 1..n : i # k => \E j \in 1..(n - 1) : w[j] = list[i]
    <3> SUFFICES ASSUME NEW i \in 1..n, i # k PROVE \E j \in 1..(n - 1) : w[j] = list[i]
      OBVIOUS
    <3>1. CASE i < k
      BY <1>0, <2>2, <3>1
    <3>2. CASE i > k
      <4>1. i - 1 \in 1..(n - 1) /\ w[i - 1] = list[i]
        BY <1>0, <2>2, <3>2
      <4> QED
        BY <4>1
    <3> QED
      BY <1>0, <3>1, <3>2
  <2>6. \A j \in 1..(n - 1) : w[j] \in Elements(list) /\ w[j] # p
    BY <1>0, <2>1, <2>2 DEF Once, Elements
  <2>7. Elements(w) = Elements(list) \ {p}
    <3>1. ASSUME NEW x \in Elements(list) \ {p} PROVE x \in Elements(w)
      <4>1. PICK i \in 1..n : list[i] = x
        BY <1>0 DEF Elements
      <4> QED
        BY <2>1, <2>3, <2>5, <4>1 DEF Elements
    <3>2. ASSUME NEW x \in Elements(w) PROVE x \in Elements(list) \ {p}
      BY <2>3, <2>6 DEF Elements
    <3> QED
      BY <3>1, <3>2
  <2> QED
    BY <2>2, <2>4, <2>7 DEF w
<1> QED
  BY <1>1, <1>2

\* push_back and the insertion at the front, of somebody who is not there.
LEMMA Added ==
    ASSUME NEW list \in Seq(Players), NEW p \in Players, Once(list), p \notin Elements(list)
    PROVE  /\ Append(list, p) \in Seq(Players) /\ Once(Append(list, p))
           /\ Elements(Append(list, p)) = Elements(list) \cup {p}
           /\ <<p>> \o list \in Seq(Players) /\ Once(<<p>> \o list)
           /\ Elements(<<p>> \o list) = Elements(list) \cup {p}
<1> DEFINE n == Len(list)
<1>1. n \in Nat /\ DOMAIN list = 1..n
  BY LenProperties
<1>2. /\ Append(list, p) \in Seq(Players) /\ DOMAIN Append(list, p) = 1..(n + 1)
      /\ \A i \in 1..n : Append(list, p)[i] = list[i]
      /\ Append(list, p)[n + 1] = p
  BY <1>1, AppendProperties
<1>3. /\ <<p>> \o list \in Seq(Players) /\ DOMAIN (<<p>> \o list) = 1..(n + 1)
      /\ (<<p>> \o list)[1] = p
      /\ \A i \in 1..n : (<<p>> \o list)[i + 1] = list[i]
  <2>1. <<p>> \in Seq(Players) /\ Len(<<p>>) = 1 /\ <<p>>[1] = p
    OBVIOUS
  <2>2. /\ <<p>> \o list \in Seq(Players) /\ Len(<<p>> \o list) = 1 + n
        /\ \A i \in 1..(1 + n) : (<<p>> \o list)[i] = IF i <= 1 THEN <<p>>[i] ELSE list[i - 1]
    BY <1>1, <2>1, ConcatProperties
  <2>3. DOMAIN (<<p>> \o list) = 1..(n + 1)
    BY <1>1, <2>2, LenProperties
  <2> QED
    BY <1>1, <2>1, <2>2, <2>3
<1> DEFINE a == Append(list, p)
           b == <<p>> \o list
<1> HIDE DEF n, a, b
<1>4. Once(a) /\ Elements(a) = Elements(list) \cup {p}
  <2>1. Once(a)
    BY <1>1, <1>2 DEF Once, Elements, a
  <2>2. \A i \in 1..(n + 1) : i \in 1..n \/ i = n + 1
    BY <1>1
  <2>3. n + 1 \in 1..(n + 1) /\ 1..n \subseteq 1..(n + 1)
    BY <1>1
  <2> QED
    BY <1>1, <1>2, <2>1, <2>2, <2>3 DEF Elements, a
<1>5. Once(b) /\ Elements(b) = Elements(list) \cup {p}
  <2>1. \A i \in 1..(n + 1) : i = 1 \/ (i - 1 \in 1..n /\ b[i] = list[i - 1])
    <3> SUFFICES ASSUME NEW i \in 1..(n + 1), i # 1 PROVE i - 1 \in 1..n /\ b[i] = list[i - 1]
      OBVIOUS
    <3>1. i - 1 \in 1..n /\ (i - 1) + 1 = i
      BY <1>1
    <3> QED
      BY <1>3, <3>1 DEF b
  <2>2. Once(b)
    <3> SUFFICES ASSUME NEW i \in 1..(n + 1), NEW j \in 1..(n + 1), b[i] = b[j] PROVE i = j
      BY <1>3 DEF Once, b
    <3>1. CASE i = 1 \/ j = 1
      BY <1>1, <1>3, <2>1, <3>1 DEF Elements, b
    <3>2. CASE i # 1 /\ j # 1
      BY <1>1, <2>1, <3>2 DEF Once
    <3> QED
      BY <3>1, <3>2
  <2>3. \A i \in 1..n : i + 1 \in 1..(n + 1)
    BY <1>1
  <2>4. 1 \in 1..(n + 1)
    BY <1>1
  <2>5. ASSUME NEW x \in Elements(list) PROVE x \in Elements(b)
    <3>1. PICK i \in 1..n : list[i] = x
      BY <1>1 DEF Elements
    <3> QED
      BY <1>3, <2>3, <3>1 DEF Elements, b
  <2>6. p \in Elements(b)
    BY <1>3, <2>4 DEF Elements, b
  <2>7. ASSUME NEW x \in Elements(b) PROVE x \in Elements(list) \cup {p}
    <3>1. PICK i \in 1..(n + 1) : b[i] = x
      BY <1>3 DEF Elements, b
    <3> QED
      BY <1>1, <1>3, <2>1, <3>1 DEF Elements, b
  <2> QED
    BY <2>2, <2>5, <2>6, <2>7
<1> QED
  BY <1>2, <1>3, <1>4, <1>5 DEF a, b
-----------------------------------------------------------------------------
(* Parties: PartyLinks is inductive.  It is stated here of a state s and   *)
(* the players of the game, so that it can be said of what a method leaves *)
(* to the next one; dying are the parties that are about to disband.       *)

PartyStates ==
    [party : [Players -> Parties \cup {None}],
     invitePartyList : [Players -> SUBSET Parties],
     leader : [Parties -> Players \cup {None}],
     memberList : [Parties -> Seq(Players)],
     inviteList : [Parties -> SUBSET Players]]

\* p is the leader or a member.
Belongs(s, p, id) == p = s.leader[id] \/ p \in Elements(s.memberList[id])

\* Who points at a party is in it; the other way only while it lives.
PartyPointers(s, dying) ==
    \A p \in Players, id \in Parties :
        /\ s.party[p] = id => Belongs(s, p, id)
        /\ Belongs(s, p, id) => s.party[p] = id \/ (id \in dying /\ s.party[p] = None)
        /\ id \in s.invitePartyList[p] <=> p \in s.inviteList[id]

PartyLists(s, on) ==
    \A id \in Parties :
        /\ Once(s.memberList[id])
        /\ s.leader[id] \notin Elements(s.memberList[id])
        /\ Elements(s.memberList[id]) \cup s.inviteList[id] \subseteq on
        /\ s.leader[id] \in on \cup {None}

Alive(s, dying) ==
    \A id \in Parties \ dying :
        s.leader[id] = None <=> Elements(s.memberList[id]) = {} /\ s.inviteList[id] = {}

Linked(s, on, dying) ==
    s \in PartyStates /\ PartyPointers(s, dying) /\ PartyLists(s, on) /\ Alive(s, dying)

PartyInv == online \subseteq Players /\ Linked(parties, online, {})

LEMMA EmptyElements ==
    ASSUME NEW list \in Seq(Players)
    PROVE  list = <<>> <=> Elements(list) = {}
<1>1. Len(list) \in Nat /\ DOMAIN list = 1..Len(list) /\ (list = <<>> <=> Len(list) = 0)
  BY LenProperties, EmptySeq
<1>2. Len(list) # 0 => 1 \in DOMAIN list
  BY <1>1
<1>3. Len(list) = 0 => DOMAIN list = {}
  BY <1>1
<1> QED
  BY <1>1, <1>2, <1>3 DEF Elements

\* disband() of the dying parties leaves no pointer to them.
LEMMA DisbandLinked ==
    ASSUME NEW s, NEW on \in SUBSET Players, NEW dying \in SUBSET Parties, Linked(s, on, dying)
    PROVE  Linked(P!Disband(s, dying), on, {})
<1> USE ItemsAssumption
<1> DEFINE r == P!Disband(s, dying)
<1>1. /\ r.party = [p \in Players |->
                      IF \E id \in dying : Belongs(s, p, id) THEN None ELSE s.party[p]]
      /\ r.invitePartyList =
             [p \in Players |-> s.invitePartyList[p] \ {id \in dying : p \in s.inviteList[id]}]
      /\ r.leader = [id \in Parties |-> IF id \in dying THEN None ELSE s.leader[id]]
      /\ r.memberList = [id \in Parties |-> IF id \in dying THEN <<>> ELSE s.memberList[id]]
      /\ r.inviteList = [id \in Parties |-> IF id \in dying THEN {} ELSE s.inviteList[id]]
  BY DEF P!Disband, P!Members, Belongs, Elements
<1>2. /\ s.party \in [Players -> Parties \cup {None}]
      /\ s.invitePartyList \in [Players -> SUBSET Parties]
      /\ s.leader \in [Parties -> Players \cup {None}]
      /\ s.memberList \in [Parties -> Seq(Players)]
      /\ s.inviteList \in [Parties -> SUBSET Players]
  BY DEF Linked, PartyStates
<1>3. r \in PartyStates
  <2>1. r = [party |-> r.party, invitePartyList |-> r.invitePartyList, leader |-> r.leader,
             memberList |-> r.memberList, inviteList |-> r.inviteList]
    BY DEF P!Disband
  <2>2. r.memberList \in [Parties -> Seq(Players)]
    BY <1>1, <1>2
  <2>3. /\ r.party \in [Players -> Parties \cup {None}]
        /\ r.invitePartyList \in [Players -> SUBSET Parties]
        /\ r.leader \in [Parties -> Players \cup {None}]
        /\ r.inviteList \in [Parties -> SUBSET Players]
    BY <1>1, <1>2
  <2> HIDE DEF r
  <2> QED
    BY <2>1, <2>2, <2>3 DEF PartyStates
<1> HIDE DEF r
<1>4. Elements(<<>>) = {} /\ Once(<<>>)
  BY DEF Elements, Once
<1>5. PartyPointers(r, {})
  <2> SUFFICES ASSUME NEW p \in Players, NEW id \in Parties
               PROVE  /\ r.party[p] = id => Belongs(r, p, id)
                      /\ Belongs(r, p, id) => r.party[p] = id
                      /\ id \in r.invitePartyList[p] <=> p \in r.inviteList[id]
    BY DEF PartyPointers
  <2>1. /\ s.party[p] = id => Belongs(s, p, id)
        /\ Belongs(s, p, id) => s.party[p] = id \/ (id \in dying /\ s.party[p] = None)
        /\ id \in s.invitePartyList[p] <=> p \in s.inviteList[id]
    BY DEF Linked, PartyPointers
  <2>2. CASE id \in dying
    BY <1>1, <1>2, <1>4, <2>1, <2>2 DEF Belongs
  <2>3. CASE id \notin dying
    <3>1. Belongs(r, p, id) <=> Belongs(s, p, id)
      BY <1>1, <2>3 DEF Belongs
    <3>2. Belongs(s, p, id) => ~\E e \in dying : Belongs(s, p, e)
      BY <2>3 DEF Linked, PartyPointers
    <3> QED
      BY <1>1, <1>2, <2>1, <2>3, <3>1, <3>2
  <2> QED
    BY <2>2, <2>3
<1>6. PartyLists(r, on)
  <2> SUFFICES ASSUME NEW id \in Parties
               PROVE  /\ Once(r.memberList[id])
                      /\ r.leader[id] \notin Elements(r.memberList[id])
                      /\ Elements(r.memberList[id]) \cup r.inviteList[id] \subseteq on
                      /\ r.leader[id] \in on \cup {None}
    BY DEF PartyLists
  <2> QED
    BY <1>1, <1>4 DEF Linked, PartyLists
<1>7. Alive(r, {})
  <2> SUFFICES ASSUME NEW id \in Parties
               PROVE  r.leader[id] = None <=> Elements(r.memberList[id]) = {} /\ r.inviteList[id] = {}
    BY DEF Alive
  <2>1. CASE id \in dying
    BY <1>1, <1>4, <2>1
  <2>2. CASE id \notin dying
    BY <1>1, <2>2 DEF Linked, Alive
  <2> QED
    BY <2>1, <2>2
<1> QED
  BY <1>3, <1>5, <1>6, <1>7 DEF Linked, r
\* The methods that end with disband() when the party is left empty.
LEMMA DisbandIfLinked ==
    ASSUME NEW s, NEW on \in SUBSET Players, NEW id \in Parties, NEW condition \in BOOLEAN,
           Linked(s, on, IF condition THEN {id} ELSE {})
    PROVE  Linked(P!DisbandIf(s, id, condition), on, {})
BY DisbandLinked DEF P!DisbandIf

\* A state given by its members.
LEMMA StateMembers ==
    ASSUME NEW s \in PartyStates
    PROVE  /\ s.party \in [Players -> Parties \cup {None}]
           /\ s.invitePartyList \in [Players -> SUBSET Parties]
           /\ s.leader \in [Parties -> Players \cup {None}]
           /\ s.memberList \in [Parties -> Seq(Players)]
           /\ s.inviteList \in [Parties -> SUBSET Players]
BY DEF PartyStates

\* What Linked says of one party.
LEMMA AliveParty ==
    ASSUME NEW s, NEW on, NEW dying, Linked(s, on, dying), NEW id \in Parties, id \notin dying
    PROVE  s.leader[id] = None <=> Elements(s.memberList[id]) = {} /\ s.inviteList[id] = {}
BY DEF Linked, Alive

\* invitePlayer, into a party that somebody leads.
LEMMA InviteLinked ==
    ASSUME NEW s, NEW on \in SUBSET Players, NEW id \in Parties, NEW q \in on,
           Linked(s, on, {}), s.leader[id] # None
    PROVE  Linked(P!InvitePlayer(s, id, q), on, {})
<1> USE ItemsAssumption, StateMembers
<1> DEFINE r == P!InvitePlayer(s, id, q)
<1>0. s \in PartyStates
  BY DEF Linked
<1>1. /\ r.party = s.party /\ r.leader = s.leader /\ r.memberList = s.memberList
      /\ r.inviteList = [s.inviteList EXCEPT ![id] = @ \cup {q}]
      /\ r.invitePartyList = [s.invitePartyList EXCEPT ![q] = @ \cup {id}]
      /\ r \in PartyStates
  <2> DEFINE invited == [s.inviteList EXCEPT ![id] = @ \cup {q}]
             invitations == [s.invitePartyList EXCEPT ![q] = @ \cup {id}]
  <2>1. r = [s EXCEPT !.inviteList = invited, !.invitePartyList = invitations]
    BY DEF P!InvitePlayer
  <2>2. invited \in [Parties -> SUBSET Players] /\ invitations \in [Players -> SUBSET Parties]
    BY <1>0
  <2> HIDE DEF invited, invitations, r
  <2>3. /\ r.party = s.party /\ r.leader = s.leader /\ r.memberList = s.memberList
        /\ r.inviteList = invited /\ r.invitePartyList = invitations
        /\ r \in PartyStates
    BY <1>0, <2>1, <2>2 DEF PartyStates
  <2> QED
    BY <2>3 DEF invited, invitations
<1> HIDE DEF r
<1>2. PartyPointers(r, {})
  BY <1>0, <1>1 DEF Linked, PartyPointers, Belongs
<1>3. PartyLists(r, on)
  BY <1>0, <1>1 DEF Linked, PartyLists
<1>4. Alive(r, {})
  <2> SUFFICES ASSUME NEW e \in Parties
               PROVE  r.leader[e] = None <=> Elements(r.memberList[e]) = {} /\ r.inviteList[e] = {}
    BY DEF Alive
  <2>1. s.leader[e] = None <=> Elements(s.memberList[e]) = {} /\ s.inviteList[e] = {}
    BY AliveParty
  <2> QED
    BY <1>0, <1>1, <2>1
<1> QED
  BY <1>1, <1>2, <1>3, <1>4 DEF Linked, r

\* The constructor and the first invitation.
LEMMA NewPartyLinked ==
    ASSUME NEW s, NEW on \in SUBSET Players, NEW id \in Parties, NEW p \in on, NEW q \in on,
           Linked(s, on, {}), s.leader[id] = None, s.party[p] = None
    PROVE  Linked(P!InvitePlayer(P!NewParty(s, id, p), id, q), on, {})
<1> USE ItemsAssumption, StateMembers
<1> DEFINE r == P!InvitePlayer(P!NewParty(s, id, p), id, q)
<1>0. s \in PartyStates
  BY DEF Linked
<1>1. /\ r.party = [s.party EXCEPT ![p] = id] /\ r.leader = [s.leader EXCEPT ![id] = p]
      /\ r.memberList = s.memberList
      /\ r.inviteList = [s.inviteList EXCEPT ![id] = @ \cup {q}]
      /\ r.invitePartyList = [s.invitePartyList EXCEPT ![q] = @ \cup {id}]
      /\ r \in PartyStates
  <2> DEFINE led == [s.leader EXCEPT ![id] = p]
             pointer == [s.party EXCEPT ![p] = id]
             n == P!NewParty(s, id, p)
             invited == [n.inviteList EXCEPT ![id] = @ \cup {q}]
             invitations == [n.invitePartyList EXCEPT ![q] = @ \cup {id}]
  <2>1. n = [s EXCEPT !.leader = led, !.party = pointer]
    BY DEF P!NewParty
  <2>2. r = [n EXCEPT !.inviteList = invited, !.invitePartyList = invitations]
    BY DEF P!InvitePlayer
  <2>3. led \in [Parties -> Players \cup {None}] /\ pointer \in [Players -> Parties \cup {None}]
    BY <1>0
  <2> HIDE DEF led, pointer, n, r
  <2>4. /\ n.party = pointer /\ n.leader = led /\ n.memberList = s.memberList
        /\ n.inviteList = s.inviteList /\ n.invitePartyList = s.invitePartyList
        /\ n \in PartyStates
    BY <1>0, <2>1, <2>3 DEF PartyStates
  <2>5. invited \in [Parties -> SUBSET Players] /\ invitations \in [Players -> SUBSET Parties]
    BY <2>4
  <2> HIDE DEF invited, invitations
  <2>6. /\ r.party = n.party /\ r.leader = n.leader /\ r.memberList = n.memberList
        /\ r.inviteList = invited /\ r.invitePartyList = invitations
        /\ r \in PartyStates
    BY <2>2, <2>4, <2>5 DEF PartyStates
  <2> QED
    BY <2>4, <2>6 DEF invited, invitations, led, pointer
<1> HIDE DEF r
<1>2. Elements(s.memberList[id]) = {} /\ s.inviteList[id] = {}
  BY DEF Linked, Alive
<1>3. \A e \in Parties : ~Belongs(s, p, e)
  BY DEF Linked, PartyPointers
<1>4. PartyPointers(r, {})
  <2> SUFFICES ASSUME NEW a \in Players, NEW e \in Parties
               PROVE  /\ r.party[a] = e <=> Belongs(r, a, e)
                      /\ e \in r.invitePartyList[a] <=> a \in r.inviteList[e]
    BY DEF PartyPointers
  <2>1. /\ s.party[a] = e <=> Belongs(s, a, e)
        /\ e \in s.invitePartyList[a] <=> a \in s.inviteList[e]
    BY DEF Linked, PartyPointers
  <2>2. r.party[a] = e <=> Belongs(r, a, e)
    BY <1>0, <1>1, <1>2, <1>3, <2>1 DEF Belongs
  <2>3. e \in r.invitePartyList[a] <=> a \in r.inviteList[e]
    BY <1>0, <1>1, <2>1
  <2> QED
    BY <2>2, <2>3
<1>5. PartyLists(r, on)
  BY <1>0, <1>1, <1>2 DEF Linked, PartyLists
<1>6. Alive(r, {})
  <2> SUFFICES ASSUME NEW e \in Parties
               PROVE  r.leader[e] = None <=> Elements(r.memberList[e]) = {} /\ r.inviteList[e] = {}
    BY DEF Alive
  <2>1. s.leader[e] = None <=> Elements(s.memberList[e]) = {} /\ s.inviteList[e] = {}
    BY AliveParty
  <2>2. CASE e = id
    <3>1. r.leader[id] = p /\ p # None /\ q \in r.inviteList[id]
      BY <1>0, <1>1
    <3> QED
      BY <2>2, <3>1
  <2>3. CASE e # id
    <3>1. /\ r.leader[e] = s.leader[e] /\ r.memberList[e] = s.memberList[e]
          /\ r.inviteList[e] = s.inviteList[e]
      BY <1>0, <1>1, <2>3
    <3> QED
      BY <2>1, <3>1
  <2> QED
    BY <2>2, <2>3
<1> QED
  BY <1>1, <1>4, <1>5, <1>6 DEF Linked, r

\* joinParty, of an invited player without a party.
LEMMA JoinLinked ==
    ASSUME NEW s, NEW on \in SUBSET Players, NEW id \in Parties, NEW p \in on,
           Linked(s, on, {}), s.party[p] = None, p \in s.inviteList[id]
    PROVE  Linked(P!JoinParty(s, id, p), on, {})
<1> USE ItemsAssumption, StateMembers
<1> DEFINE r == P!JoinParty(s, id, p)
           joined == Append(s.memberList[id], p)
<1>0. s \in PartyStates
  BY DEF Linked
<1>1. \A e \in Parties : ~Belongs(s, p, e)
  BY DEF Linked, PartyPointers
<1>2. /\ joined \in Seq(Players) /\ Once(joined)
      /\ Elements(joined) = Elements(s.memberList[id]) \cup {p}
  <2>1. s.memberList[id] \in Seq(Players) /\ Once(s.memberList[id]) /\ p \notin Elements(s.memberList[id])
    BY <1>0, <1>1 DEF Linked, PartyLists, Belongs
  <2> QED
    BY <2>1, Added
<1>3. /\ r.party = [s.party EXCEPT ![p] = id] /\ r.leader = s.leader
      /\ r.memberList = [s.memberList EXCEPT ![id] = joined]
      /\ r.inviteList = [s.inviteList EXCEPT ![id] = @ \ {p}]
      /\ r.invitePartyList = [s.invitePartyList EXCEPT ![p] = @ \ {id}]
      /\ r \in PartyStates
  BY <1>0, <1>2 DEF P!JoinParty, PartyStates
<1> HIDE DEF r, joined
<1>4. PartyPointers(r, {})
  <2> SUFFICES ASSUME NEW a \in Players, NEW e \in Parties
               PROVE  /\ r.party[a] = e <=> Belongs(r, a, e)
                      /\ e \in r.invitePartyList[a] <=> a \in r.inviteList[e]
    BY DEF PartyPointers
  <2>1. /\ s.party[a] = e <=> Belongs(s, a, e)
        /\ e \in s.invitePartyList[a] <=> a \in s.inviteList[e]
    BY DEF Linked, PartyPointers
  <2>2. r.party[a] = e <=> Belongs(r, a, e)
    BY <1>0, <1>1, <1>2, <1>3, <2>1 DEF Belongs
  <2>3. e \in r.invitePartyList[a] <=> a \in r.inviteList[e]
    BY <1>0, <1>3, <2>1
  <2> QED
    BY <2>2, <2>3
<1>5. PartyLists(r, on)
  <2> SUFFICES ASSUME NEW e \in Parties
               PROVE  /\ Once(r.memberList[e])
                      /\ r.leader[e] \notin Elements(r.memberList[e])
                      /\ Elements(r.memberList[e]) \cup r.inviteList[e] \subseteq on
                      /\ r.leader[e] \in on \cup {None}
    BY DEF PartyLists
  <2> QED
    BY <1>0, <1>1, <1>2, <1>3 DEF Linked, PartyLists, Belongs
<1>6. Alive(r, {})
  <2> SUFFICES ASSUME NEW e \in Parties
               PROVE  r.leader[e] = None <=> Elements(r.memberList[e]) = {} /\ r.inviteList[e] = {}
    BY DEF Alive
  <2>1. s.leader[e] = None <=> Elements(s.memberList[e]) = {} /\ s.inviteList[e] = {}
    BY AliveParty
  <2>2. s.leader[id] # None
    BY AliveParty
  <2>3. CASE e = id
    <3>1. r.leader[id] # None /\ p \in Elements(r.memberList[id])
      BY <1>0, <1>2, <1>3, <2>2
    <3> QED
      BY <2>3, <3>1
  <2>4. CASE e # id
    <3>1. /\ r.leader[e] = s.leader[e] /\ r.memberList[e] = s.memberList[e]
          /\ r.inviteList[e] = s.inviteList[e]
      BY <1>0, <1>3, <2>4
    <3> QED
      BY <2>1, <3>1
  <2> QED
    BY <2>3, <2>4
<1> QED
  BY <1>3, <1>4, <1>5, <1>6 DEF Linked, r

\* removeInvite: the party disbands when it is left empty.
LEMMA RemoveInviteLinked ==
    ASSUME NEW s, NEW on \in SUBSET Players, NEW id \in Parties, NEW q \in Players,
           Linked(s, on, {}), s.leader[id] # None
    PROVE  Linked(P!RemoveInvite(s, id, q), on, {})
<1> USE ItemsAssumption, StateMembers
<1> DEFINE r == [s EXCEPT !.inviteList[id] = @ \ {q}, !.invitePartyList[q] = @ \ {id}]
           dying == IF P!Empty(r, id) THEN {id} ELSE {}
<1>0. s \in PartyStates
  BY DEF Linked
<1>1. /\ r.party = s.party /\ r.leader = s.leader /\ r.memberList = s.memberList
      /\ r.inviteList = [s.inviteList EXCEPT ![id] = @ \ {q}]
      /\ r.invitePartyList = [s.invitePartyList EXCEPT ![q] = @ \ {id}]
      /\ r \in PartyStates
  BY <1>0 DEF PartyStates
<1>2. P!RemoveInvite(s, id, q) = P!DisbandIf(r, id, P!Empty(r, id))
  BY DEF P!RemoveInvite
<1> HIDE DEF r
<1>3. PartyPointers(r, dying)
  <2> SUFFICES ASSUME NEW a \in Players, NEW e \in Parties
               PROVE  /\ r.party[a] = e <=> Belongs(r, a, e)
                      /\ e \in r.invitePartyList[a] <=> a \in r.inviteList[e]
    BY DEF PartyPointers
  <2>1. /\ s.party[a] = e <=> Belongs(s, a, e)
        /\ e \in s.invitePartyList[a] <=> a \in s.inviteList[e]
    BY DEF Linked, PartyPointers
  <2> QED
    BY <1>0, <1>1, <2>1 DEF Belongs
<1>4. PartyLists(r, on)
  BY <1>0, <1>1 DEF Linked, PartyLists
<1>5. Alive(r, dying)
  <2> SUFFICES ASSUME NEW e \in Parties \ dying
               PROVE  r.leader[e] = None <=> Elements(r.memberList[e]) = {} /\ r.inviteList[e] = {}
    BY DEF Alive
  <2>1. CASE e = id
    <3>1. ~P!Empty(r, id)
      BY <2>1
    <3>2. r.memberList[id] = <<>> <=> Elements(r.memberList[id]) = {}
      BY <1>1, EmptyElements
    <3> QED
      BY <1>1, <2>1, <3>1, <3>2 DEF P!Empty
  <2>2. CASE e # id
    <3>1. s.leader[e] = None <=> Elements(s.memberList[e]) = {} /\ s.inviteList[e] = {}
      BY AliveParty
    <3> QED
      BY <1>0, <1>1, <2>2, <3>1
  <2> QED
    BY <2>1, <2>2
<1>6. Linked(r, on, dying)
  BY <1>1, <1>3, <1>4, <1>5 DEF Linked
<1> DEFINE empty == P!Empty(r, id)
<1>7. empty \in BOOLEAN
  BY DEF P!Empty
<1>8. Linked(r, on, IF empty THEN {id} ELSE {})
  BY <1>6
<1> HIDE DEF empty
<1>9. Linked(P!DisbandIf(r, id, empty), on, {})
  BY <1>7, <1>8, DisbandIfLinked
<1> QED
  BY <1>2, <1>9 DEF empty
\* passPartyLeadership, to a member.
LEMMA PassLinked ==
    ASSUME NEW s, NEW on \in SUBSET Players, NEW id \in Parties, NEW q \in Players,
           Linked(s, on, {}), s.leader[id] # None, q \in Elements(s.memberList[id])
    PROVE  LET r == P!PassPartyLeadership(s, id, q)
           IN  /\ Linked(r, on, {})
               /\ r.party = s.party /\ r.leader[id] = q
               /\ r.invitePartyList = s.invitePartyList /\ r.inviteList = s.inviteList
<1> USE ItemsAssumption, StateMembers
<1> DEFINE r == P!PassPartyLeadership(s, id, q)
           others == P!Without(s.memberList[id], q)
           list == <<s.leader[id]>> \o others
           members == [s.memberList EXCEPT ![id] = list]
           leaders == [s.leader EXCEPT ![id] = q]
<1>0. s \in PartyStates
  BY DEF Linked
<1>1. /\ s.memberList[id] \in Seq(Players) /\ Once(s.memberList[id])
      /\ s.leader[id] \in Players /\ s.leader[id] # q
      /\ s.leader[id] \notin Elements(s.memberList[id])
  BY <1>0 DEF Linked, PartyLists
<1>2. /\ others \in Seq(Players) /\ Once(others)
      /\ Elements(others) = Elements(s.memberList[id]) \ {q}
  BY <1>1, WithoutProperties
<1>3. /\ list \in Seq(Players) /\ Once(list)
      /\ Elements(list) = (Elements(s.memberList[id]) \ {q}) \cup {s.leader[id]}
  <2> HIDE DEF others
  <2> QED
    BY <1>1, <1>2, Added
<1>4. r = [s EXCEPT !.memberList = members, !.leader = leaders]
  BY DEF P!PassPartyLeadership
<1> HIDE DEF others, list, r
<1>5. members \in [Parties -> Seq(Players)] /\ leaders \in [Parties -> Players \cup {None}]
  BY <1>0, <1>3
<1>6. /\ \A e \in Parties : members[e] = IF e = id THEN list ELSE s.memberList[e]
      /\ \A e \in Parties : leaders[e] = IF e = id THEN q ELSE s.leader[e]
  BY <1>0
<1> HIDE DEF members, leaders
<1>7. /\ r.party = s.party /\ r.leader = leaders /\ r.memberList = members
      /\ r.inviteList = s.inviteList /\ r.invitePartyList = s.invitePartyList
      /\ r \in PartyStates
  BY <1>0, <1>4, <1>5 DEF PartyStates
<1>8. \A e \in Parties, a \in Players : Belongs(r, a, e) <=> Belongs(s, a, e)
  <2> SUFFICES ASSUME NEW e \in Parties, NEW a \in Players
               PROVE  Belongs(r, a, e) <=> Belongs(s, a, e)
    OBVIOUS
  <2>1. CASE e = id
    <3>1. r.leader[e] = q /\ Elements(r.memberList[e]) = (Elements(s.memberList[id]) \ {q}) \cup {s.leader[id]}
      BY <1>3, <1>6, <1>7, <2>1
    <3> QED
      BY <2>1, <3>1 DEF Belongs
  <2>2. CASE e # id
    <3>1. r.leader[e] = s.leader[e] /\ r.memberList[e] = s.memberList[e]
      BY <1>6, <1>7, <2>2
    <3> QED
      BY <3>1 DEF Belongs
  <2> QED
    BY <2>1, <2>2
<1>9. PartyPointers(r, {})
  <2> SUFFICES ASSUME NEW a \in Players, NEW e \in Parties
               PROVE  /\ r.party[a] = e <=> Belongs(r, a, e)
                      /\ e \in r.invitePartyList[a] <=> a \in r.inviteList[e]
    BY DEF PartyPointers
  <2>1. /\ s.party[a] = e <=> Belongs(s, a, e)
        /\ e \in s.invitePartyList[a] <=> a \in s.inviteList[e]
    BY DEF Linked, PartyPointers
  <2> QED
    BY <1>7, <1>8, <2>1
<1>10. PartyLists(r, on)
  <2> SUFFICES ASSUME NEW e \in Parties
               PROVE  /\ Once(r.memberList[e])
                      /\ r.leader[e] \notin Elements(r.memberList[e])
                      /\ Elements(r.memberList[e]) \cup r.inviteList[e] \subseteq on
                      /\ r.leader[e] \in on \cup {None}
    BY DEF PartyLists
  <2>1. /\ Once(s.memberList[e])
        /\ s.leader[e] \notin Elements(s.memberList[e])
        /\ Elements(s.memberList[e]) \cup s.inviteList[e] \subseteq on
        /\ s.leader[e] \in on \cup {None}
    BY DEF Linked, PartyLists
  <2> QED
    BY <1>1, <1>3, <1>6, <1>7, <2>1
<1>11. Alive(r, {})
  <2> SUFFICES ASSUME NEW e \in Parties
               PROVE  r.leader[e] = None <=> Elements(r.memberList[e]) = {} /\ r.inviteList[e] = {}
    BY DEF Alive
  <2>1. s.leader[e] = None <=> Elements(s.memberList[e]) = {} /\ s.inviteList[e] = {}
    BY AliveParty
  <2>2. CASE e = id
    <3>1. r.leader[id] # None /\ Elements(r.memberList[id]) # {}
      BY <1>1, <1>3, <1>6, <1>7
    <3> QED
      BY <2>2, <3>1
  <2>3. CASE e # id
    <3>1. /\ r.leader[e] = s.leader[e] /\ r.memberList[e] = s.memberList[e]
          /\ r.inviteList[e] = s.inviteList[e]
      BY <1>6, <1>7, <2>3
    <3> QED
      BY <2>1, <3>1
  <2> QED
    BY <2>2, <2>3
<1>12. Linked(r, on, {}) /\ r.leader[id] = q
  BY <1>6, <1>7, <1>9, <1>10, <1>11 DEF Linked
<1> QED
  BY <1>7, <1>12 DEF r

TakenOut(s, id, p) == [s EXCEPT !.memberList[id] = P!Without(@, p), !.party[p] = None]

\* p is taken out of its party; who still leads it does not keep it alive.
LEMMA TakenOutLinked ==
    ASSUME NEW s, NEW on \in SUBSET Players, NEW p \in Players, NEW id \in Parties,
           Linked(s, on, {}), s.party[p] = id,
           NEW r, r = TakenOut(s, id, p)
    PROVE  /\ Linked(r, on, {id})
           /\ s.leader[id] # p /\ ~P!Empty(r, id) => Linked(r, on, {})
           /\ r.party[p] = None /\ r.invitePartyList = s.invitePartyList
<1> USE ItemsAssumption, StateMembers
<1> DEFINE others == P!Without(s.memberList[id], p)
           members == [s.memberList EXCEPT ![id] = others]
           pointer == [s.party EXCEPT ![p] = None]
<1>0. s \in PartyStates
  BY DEF Linked
<1>1. s.memberList[id] \in Seq(Players) /\ Once(s.memberList[id])
  BY <1>0 DEF Linked, PartyLists
<1>2. /\ others \in Seq(Players) /\ Once(others)
      /\ Elements(others) = Elements(s.memberList[id]) \ {p}
  BY <1>1, WithoutProperties
<1>3. r = [s EXCEPT !.memberList = members, !.party = pointer]
  BY DEF TakenOut
<1> HIDE DEF others
<1>4. members \in [Parties -> Seq(Players)] /\ pointer \in [Players -> Parties \cup {None}]
  BY <1>0, <1>2
<1>5. /\ \A e \in Parties : members[e] = IF e = id THEN others ELSE s.memberList[e]
      /\ \A a \in Players : pointer[a] = IF a = p THEN None ELSE s.party[a]
  BY <1>0
<1> HIDE DEF members, pointer
<1>6. /\ r.party = pointer /\ r.leader = s.leader /\ r.memberList = members
      /\ r.inviteList = s.inviteList /\ r.invitePartyList = s.invitePartyList
      /\ r \in PartyStates
  BY <1>0, <1>3, <1>4 DEF PartyStates
<1>7. s.leader[id] # None
  <2>1. Belongs(s, p, id)
    BY DEF Linked, PartyPointers
  <2>2. s.leader[id] = None <=> Elements(s.memberList[id]) = {} /\ s.inviteList[id] = {}
    BY AliveParty
  <2> QED
    BY <2>1, <2>2 DEF Belongs
<1>8. /\ PartyPointers(r, {id})
      /\ s.leader[id] # p => PartyPointers(r, {})
  <2> SUFFICES ASSUME NEW a \in Players, NEW e \in Parties
               PROVE  /\ r.party[a] = e => Belongs(r, a, e)
                      /\ Belongs(r, a, e) => r.party[a] = e \/ (e = id /\ r.party[a] = None)
                      /\ s.leader[id] # p => (Belongs(r, a, e) => r.party[a] = e)
                      /\ e \in r.invitePartyList[a] <=> a \in r.inviteList[e]
    BY DEF PartyPointers
  <2>1. /\ s.party[a] = e <=> Belongs(s, a, e)
        /\ e \in s.invitePartyList[a] <=> a \in s.inviteList[e]
    BY DEF Linked, PartyPointers
  <2>2. Belongs(s, p, e) => e = id
    BY DEF Linked, PartyPointers
  <2>3. CASE a = p
    <3>1. r.party[p] = None /\ None # e
      BY <1>5, <1>6
    <3>2. Belongs(r, p, e) => e = id /\ s.leader[id] = p
      <4>1. CASE e = id
        BY <1>2, <1>5, <1>6, <4>1 DEF Belongs
      <4>2. CASE e # id
        BY <1>5, <1>6, <2>2, <4>2 DEF Belongs
      <4> QED
        BY <4>1, <4>2
    <3>3. e \in r.invitePartyList[p] <=> p \in r.inviteList[e]
      BY <1>6, <2>1, <2>3
    <3> QED
      BY <2>3, <3>1, <3>2, <3>3
  <2>4. CASE a # p
    BY <1>2, <1>5, <1>6, <2>1, <2>4 DEF Belongs
  <2> QED
    BY <2>3, <2>4
<1>9. PartyLists(r, on)
  <2> SUFFICES ASSUME NEW e \in Parties
               PROVE  /\ Once(r.memberList[e])
                      /\ r.leader[e] \notin Elements(r.memberList[e])
                      /\ Elements(r.memberList[e]) \cup r.inviteList[e] \subseteq on
                      /\ r.leader[e] \in on \cup {None}
    BY DEF PartyLists
  <2>1. /\ Once(s.memberList[e])
        /\ s.leader[e] \notin Elements(s.memberList[e])
        /\ Elements(s.memberList[e]) \cup s.inviteList[e] \subseteq on
        /\ s.leader[e] \in on \cup {None}
    BY DEF Linked, PartyLists
  <2> QED
    BY <1>2, <1>5, <1>6, <2>1
<1>10. Alive(r, {id})
  <2> SUFFICES ASSUME NEW e \in Parties, e # id
               PROVE  r.leader[e] = None <=> Elements(r.memberList[e]) = {} /\ r.inviteList[e] = {}
    BY DEF Alive
  <2>1. s.leader[e] = None <=> Elements(s.memberList[e]) = {} /\ s.inviteList[e] = {}
    BY AliveParty
  <2>2. /\ r.leader[e] = s.leader[e] /\ r.memberList[e] = s.memberList[e]
        /\ r.inviteList[e] = s.inviteList[e]
    BY <1>5, <1>6
  <2> QED
    BY <2>1, <2>2
<1>11. ~P!Empty(r, id) => Alive(r, {})
  <2> SUFFICES ASSUME ~P!Empty(r, id), NEW e \in Parties
               PROVE  r.leader[e] = None <=> Elements(r.memberList[e]) = {} /\ r.inviteList[e] = {}
    BY DEF Alive
  <2>1. CASE e = id
    <3>1. r.memberList[id] = <<>> <=> Elements(r.memberList[id]) = {}
      BY <1>6, EmptyElements
    <3>2. ~(Elements(r.memberList[id]) = {} /\ r.inviteList[id] = {})
      BY <3>1 DEF P!Empty
    <3> QED
      BY <1>6, <1>7, <2>1, <3>2
  <2>2. CASE e # id
    BY <1>10, <2>2 DEF Alive
  <2> QED
    BY <2>1, <2>2
<1>12. r.party[p] = None
  BY <1>5, <1>6
<1>13. Linked(r, on, {id})
  BY <1>6, <1>8, <1>9, <1>10 DEF Linked
<1>14. s.leader[id] # p /\ ~P!Empty(r, id) => Linked(r, on, {})
  BY <1>6, <1>8, <1>9, <1>11 DEF Linked
<1> QED
  BY <1>6, <1>12, <1>13, <1>14

\* disband() gives nobody a party or an invitation.
LEMMA DisbandTakes ==
    ASSUME NEW s \in PartyStates, NEW id \in Parties, NEW condition \in BOOLEAN, NEW p \in Players,
           s.party[p] = None
    PROVE  /\ P!DisbandIf(s, id, condition).party[p] = None
           /\ P!DisbandIf(s, id, condition).invitePartyList[p] \subseteq s.invitePartyList[p]
BY DEF P!DisbandIf, P!Disband
\* leaveParty: a leader passes the leadership on or dissolves the party.
LEMMA LeaveLinked ==
    ASSUME NEW s, NEW on \in SUBSET Players, NEW p \in Players,
           Linked(s, on, {}), s.party[p] # None
    PROVE  /\ Linked(P!LeaveParty(s, p), on, {})
           /\ P!LeaveParty(s, p).party[p] = None
           /\ P!LeaveParty(s, p).invitePartyList[p] \subseteq s.invitePartyList[p]
<1> DEFINE id == s.party[p]
           leads == s.leader[id] = p
           missingLeader == leads /\ (\/ s.memberList[id] = <<>>
                                      \/ Len(s.memberList[id]) = 1 /\ s.inviteList[id] = {})
           passed == IF leads /\ ~missingLeader
                     THEN P!PassPartyLeadership(s, id, Head(s.memberList[id])) ELSE s
           left == [passed EXCEPT !.memberList[id] = P!Without(@, p), !.party[p] = None]
           gone == missingLeader \/ P!Empty(left, id)
<1>0. s \in PartyStates /\ id \in Parties
  BY StateMembers DEF Linked
<1>1. P!LeaveParty(s, p) = P!DisbandIf(left, id, gone)
  BY DEF P!LeaveParty
<1>2. gone \in BOOLEAN
  BY DEF P!Empty
<1>3. /\ Linked(passed, on, {}) /\ passed.party = s.party
      /\ passed.invitePartyList = s.invitePartyList
      /\ ~missingLeader => passed.leader[id] # p
  <2>1. CASE leads /\ ~missingLeader
    <3> DEFINE q == Head(s.memberList[id])
    <3>1. s.memberList[id] \in Seq(Players) /\ s.memberList[id] # <<>>
      BY <1>0, <2>1, StateMembers
    <3>2. q \in Elements(s.memberList[id]) /\ q \in Players
      <4>1. 1 \in DOMAIN s.memberList[id] /\ q = s.memberList[id][1] /\ q \in Players
        BY <3>1, EmptySeq, LenProperties
      <4> QED
        BY <4>1 DEF Elements
    <3>3. s.leader[id] # None /\ q # p
      BY <1>0, <2>1, <3>2, StateMembers, ItemsAssumption DEF Linked, PartyLists
    <3> HIDE DEF q, id
    <3>4. /\ Linked(P!PassPartyLeadership(s, id, q), on, {})
          /\ P!PassPartyLeadership(s, id, q).party = s.party
          /\ P!PassPartyLeadership(s, id, q).leader[id] = q
          /\ P!PassPartyLeadership(s, id, q).invitePartyList = s.invitePartyList
      BY <1>0, <3>2, <3>3, PassLinked
    <3>5. passed = P!PassPartyLeadership(s, id, q)
      BY <2>1 DEF q
    <3> HIDE DEF passed
    <3> QED
      BY <3>3, <3>4, <3>5
  <2>2. CASE ~(leads /\ ~missingLeader)
    <3>1. passed = s
      BY <2>2
    <3> HIDE DEF passed
    <3> QED
      BY <2>2, <3>1
  <2> QED
    BY <2>1, <2>2
<1> HIDE DEF passed, id, missingLeader
<1>4. passed.party[p] = id
  BY <1>3 DEF id
<1>10. left = TakenOut(passed, id, p)
  BY DEF TakenOut
<1> HIDE DEF left
<1>5. /\ Linked(left, on, {id})
      /\ passed.leader[id] # p /\ ~P!Empty(left, id) => Linked(left, on, {})
      /\ left.party[p] = None /\ left.invitePartyList = passed.invitePartyList
  BY <1>0, <1>3, <1>4, <1>10, TakenOutLinked
<1>6. Linked(left, on, IF gone THEN {id} ELSE {})
  BY <1>3, <1>5
<1>7. left \in PartyStates
  BY <1>5 DEF Linked
<1> HIDE DEF gone
<1>8. Linked(P!DisbandIf(left, id, gone), on, {})
  BY <1>0, <1>2, <1>6, DisbandIfLinked
<1>9. /\ P!DisbandIf(left, id, gone).party[p] = None
      /\ P!DisbandIf(left, id, gone).invitePartyList[p] \subseteq left.invitePartyList[p]
  BY <1>0, <1>2, <1>5, <1>7, DisbandTakes
<1> QED
  BY <1>1, <1>3, <1>5, <1>8, <1>9

\* clearPartyInvitations: nobody invites p any more.
LEMMA ClearLinked ==
    ASSUME NEW s, NEW on \in SUBSET Players, NEW p \in Players, Linked(s, on, {})
    PROVE  /\ Linked(P!ClearPartyInvitations(s, p), on, {})
           /\ P!ClearPartyInvitations(s, p).invitePartyList[p] = {}
<1> USE ItemsAssumption, StateMembers
<1> DEFINE ips == s.invitePartyList[p]
           invited == [id \in Parties |-> IF id \in ips THEN s.inviteList[id] \ {p} ELSE s.inviteList[id]]
           invitations == [s.invitePartyList EXCEPT ![p] = {}]
           r == [s EXCEPT !.inviteList = invited, !.invitePartyList = invitations]
           dying == {id \in ips : P!Empty(r, id)}
<1>0. s \in PartyStates /\ ips \subseteq Parties
  BY DEF Linked
<1>1. P!ClearPartyInvitations(s, p) = P!Disband(r, dying)
  BY DEF P!ClearPartyInvitations
<1>2. invited \in [Parties -> SUBSET Players] /\ invitations \in [Players -> SUBSET Parties]
  BY <1>0
<1>3. /\ \A id \in Parties : invited[id] = s.inviteList[id] \ {p}
      /\ \A id \in Parties : p \notin s.inviteList[id] => invited[id] = s.inviteList[id]
      /\ \A a \in Players : invitations[a] = IF a = p THEN {} ELSE s.invitePartyList[a]
  BY <1>0 DEF Linked, PartyPointers
<1> HIDE DEF invited, invitations
<1>4. /\ r.party = s.party /\ r.leader = s.leader /\ r.memberList = s.memberList
      /\ r.inviteList = invited /\ r.invitePartyList = invitations
      /\ r \in PartyStates
  BY <1>0, <1>2 DEF PartyStates
<1> HIDE DEF r
<1>5. PartyPointers(r, dying)
  <2> SUFFICES ASSUME NEW a \in Players, NEW e \in Parties
               PROVE  /\ r.party[a] = e <=> Belongs(r, a, e)
                      /\ e \in r.invitePartyList[a] <=> a \in r.inviteList[e]
    BY DEF PartyPointers
  <2>1. /\ s.party[a] = e <=> Belongs(s, a, e)
        /\ e \in s.invitePartyList[a] <=> a \in s.inviteList[e]
    BY DEF Linked, PartyPointers
  <2>2. Belongs(r, a, e) <=> Belongs(s, a, e)
    BY <1>4 DEF Belongs
  <2>3. CASE a = p
    <3>1. r.invitePartyList[a] = {} /\ a \notin r.inviteList[e]
      BY <1>3, <1>4, <2>3
    <3> QED
      BY <1>4, <2>1, <2>2, <3>1
  <2>4. CASE a # p
    <3>1. /\ r.invitePartyList[a] = s.invitePartyList[a]
          /\ a \in r.inviteList[e] <=> a \in s.inviteList[e]
      BY <1>3, <1>4, <2>4
    <3> QED
      BY <1>4, <2>1, <2>2, <3>1
  <2> QED
    BY <2>3, <2>4
<1>6. PartyLists(r, on)
  <2> SUFFICES ASSUME NEW e \in Parties
               PROVE  /\ Once(r.memberList[e])
                      /\ r.leader[e] \notin Elements(r.memberList[e])
                      /\ Elements(r.memberList[e]) \cup r.inviteList[e] \subseteq on
                      /\ r.leader[e] \in on \cup {None}
    BY DEF PartyLists
  <2>1. r.leader[e] = s.leader[e] /\ r.memberList[e] = s.memberList[e]
    BY <1>4
  <2>2. r.inviteList[e] \subseteq s.inviteList[e]
    BY <1>3, <1>4
  <2> QED
    BY <2>1, <2>2 DEF Linked, PartyLists
<1>7. Alive(r, dying)
  <2> SUFFICES ASSUME NEW e \in Parties, e \notin dying
               PROVE  r.leader[e] = None <=> Elements(r.memberList[e]) = {} /\ r.inviteList[e] = {}
    BY DEF Alive
  <2>1. s.leader[e] = None <=> Elements(s.memberList[e]) = {} /\ s.inviteList[e] = {}
    BY AliveParty
  <2>2. e \in ips <=> p \in s.inviteList[e]
    BY DEF Linked, PartyPointers
  <2>3. CASE e \in ips
    <3>1. r.memberList[e] = <<>> <=> Elements(r.memberList[e]) = {}
      BY <1>4, EmptyElements
    <3>2. ~(Elements(r.memberList[e]) = {} /\ r.inviteList[e] = {})
      BY <2>3, <3>1 DEF P!Empty
    <3>3. r.leader[e] # None
      BY <1>4, <2>1, <2>2, <2>3
    <3> QED
      BY <3>2, <3>3
  <2>4. CASE e \notin ips
    <3>1. r.leader[e] = s.leader[e] /\ r.memberList[e] = s.memberList[e]
      BY <1>4
    <3>2. r.inviteList[e] = s.inviteList[e]
      BY <1>3, <1>4, <2>2, <2>4
    <3> QED
      BY <2>1, <3>1, <3>2
  <2> QED
    BY <2>3, <2>4
<1>8. Linked(r, on, dying) /\ dying \in SUBSET Parties
  BY <1>0, <1>4, <1>5, <1>6, <1>7 DEF Linked
<1> HIDE DEF dying
<1>9. Linked(P!Disband(r, dying), on, {})
  BY <1>8, DisbandLinked
<1>10. P!Disband(r, dying).invitePartyList[p] = {}
  BY <1>3, <1>4 DEF P!Disband
<1> QED
  BY <1>1, <1>9, <1>10

\* onRemoveCreature: nothing points at p when it is out of the game.
LEMMA RemovedLinked ==
    ASSUME NEW s, NEW on \in SUBSET Players, NEW p \in Players, Linked(s, on, {})
    PROVE  Linked(P!PlayerRemoved(s, p), on \ {p}, {})
<1> USE ItemsAssumption, StateMembers
<1> DEFINE cleared == P!ClearPartyInvitations(s, p)
           r == P!PlayerRemoved(s, p)
<1>1. Linked(cleared, on, {}) /\ cleared.invitePartyList[p] = {}
  BY ClearLinked
<1>2. r = IF cleared.party[p] # None THEN P!LeaveParty(cleared, p) ELSE cleared
  BY DEF P!PlayerRemoved
<1> HIDE DEF cleared, r
<1>3. Linked(r, on, {}) /\ r.party[p] = None /\ r.invitePartyList[p] = {}
  <2>1. CASE cleared.party[p] # None
    <3>1. /\ Linked(P!LeaveParty(cleared, p), on, {})
          /\ P!LeaveParty(cleared, p).party[p] = None
          /\ P!LeaveParty(cleared, p).invitePartyList[p] \subseteq cleared.invitePartyList[p]
      BY <1>1, <2>1, LeaveLinked
    <3> QED
      BY <1>1, <1>2, <2>1, <3>1
  <2>2. CASE cleared.party[p] = None
    BY <1>1, <1>2, <2>2
  <2> QED
    BY <2>1, <2>2
<1>4. \A e \in Parties : ~Belongs(r, p, e) /\ p \notin r.inviteList[e]
  BY <1>3 DEF Linked, PartyPointers
<1>5. PartyLists(r, on \ {p})
  <2> SUFFICES ASSUME NEW id \in Parties
               PROVE  /\ Once(r.memberList[id])
                      /\ r.leader[id] \notin Elements(r.memberList[id])
                      /\ Elements(r.memberList[id]) \cup r.inviteList[id] \subseteq on \ {p}
                      /\ r.leader[id] \in (on \ {p}) \cup {None}
    BY DEF PartyLists
  <2> QED
    BY <1>3, <1>4 DEF Linked, PartyLists, Belongs
<1> QED
  BY <1>3, <1>5 DEF Linked, r

-----------------------------------------------------------------------------
(* The theorem about parties                                               *)

LEMMA PartyInit == P!Init => PartyInv
<1> USE ItemsAssumption
<1> SUFFICES ASSUME P!Init PROVE PartyInv
  OBVIOUS
<1>1. Elements(<<>>) = {} /\ Once(<<>>) /\ <<>> \in Seq(Players)
  BY DEF Elements, Once
<1>2. parties \in PartyStates
  BY <1>1 DEF P!Init, PartyStates
<1>3. PartyPointers(parties, {}) /\ PartyLists(parties, online) /\ Alive(parties, {})
  BY <1>1 DEF P!Init, PartyPointers, PartyLists, Alive, Belongs
<1> QED
  BY <1>2, <1>3 DEF P!Init, PartyInv, Linked

\* Each of the requests.
LEMMA PartyRequest ==
    ASSUME PartyInv, NEW p \in Players, P!Request(p)
    PROVE  PartyInv'
<1> USE ItemsAssumption, StateMembers
<1>0. /\ Linked(parties, online, {}) /\ online \in SUBSET Players /\ parties \in PartyStates
      /\ online' = online
  BY DEF PartyInv, Linked, P!Request, P!Leave, P!InviteToParty, P!AcceptInvitation,
         P!RevokeInvitation, P!PassLeadership
<1>1. CASE P!Leave(p)
  <2>1. Linked(P!LeaveParty(parties, p), online, {})
    BY <1>0, <1>1, LeaveLinked DEF P!Leave
  <2> QED
    BY <1>0, <1>1, <2>1 DEF P!Leave, PartyInv
<1>2. ASSUME NEW q \in Players, P!InviteToParty(p, q) PROVE PartyInv'
  <2>1. p \in online /\ q \in online
    BY <1>2 DEF P!InviteToParty
  <2>2. ASSUME parties.party[p] = None, NEW id \in Parties, parties.leader[id] = None,
               parties' = P!InvitePlayer(P!NewParty(parties, id, p), id, q)
        PROVE  PartyInv'
    <3>1. Linked(P!InvitePlayer(P!NewParty(parties, id, p), id, q), online, {})
      BY <1>0, <2>1, <2>2, NewPartyLinked
    <3> QED
      BY <1>0, <2>2, <3>1 DEF PartyInv
  <2>3. ASSUME P!Leads(p), parties' = P!InvitePlayer(parties, parties.party[p], q)
        PROVE  PartyInv'
    <3> DEFINE id == parties.party[p]
    <3>1. id \in Parties /\ parties.leader[id] # None
      BY <1>0, <2>3 DEF P!Leads
    <3> HIDE DEF id
    <3>2. Linked(P!InvitePlayer(parties, id, q), online, {})
      BY <1>0, <2>1, <3>1, InviteLinked
    <3> QED
      BY <1>0, <2>3, <3>2 DEF PartyInv, id
  <2> QED
    BY <1>2, <2>2, <2>3 DEF P!InviteToParty
<1>3. ASSUME NEW q \in Players, P!AcceptInvitation(p, q) PROVE PartyInv'
  <2> DEFINE id == parties.party[q]
  <2>1. /\ p \in online /\ id \in Parties /\ p \in parties.inviteList[id]
        /\ parties.party[p] = None /\ parties' = P!JoinParty(parties, id, p)
    BY <1>0, <1>3 DEF P!AcceptInvitation, P!IsInviting, P!Leads
  <2> HIDE DEF id
  <2>2. Linked(P!JoinParty(parties, id, p), online, {})
    BY <1>0, <2>1, JoinLinked
  <2> QED
    BY <1>0, <2>1, <2>2 DEF PartyInv
<1>4. ASSUME NEW q \in Players, P!RevokeInvitation(p, q) PROVE PartyInv'
  <2> DEFINE id == parties.party[p]
  <2>1. /\ id \in Parties /\ parties.leader[id] # None
        /\ parties' = P!RemoveInvite(parties, id, q)
    BY <1>0, <1>4 DEF P!RevokeInvitation, P!IsInviting, P!Leads
  <2> HIDE DEF id
  <2>2. Linked(P!RemoveInvite(parties, id, q), online, {})
    BY <1>0, <2>1, RemoveInviteLinked
  <2> QED
    BY <1>0, <2>1, <2>2 DEF PartyInv
<1>5. ASSUME NEW q \in Players, P!PassLeadership(p, q) PROVE PartyInv'
  <2> DEFINE id == parties.party[p]
  <2>1. /\ id \in Parties /\ parties.leader[id] = p /\ q # p /\ parties.party[q] = id
        /\ parties' = P!PassPartyLeadership(parties, id, q)
    BY <1>0, <1>5 DEF P!PassLeadership, P!Leads
  <2>2. q \in Elements(parties.memberList[id])
    BY <1>0, <2>1 DEF Linked, PartyPointers, Belongs
  <2> HIDE DEF id
  <2>3. Linked(P!PassPartyLeadership(parties, id, q), online, {})
    BY <1>0, <2>1, <2>2, PassLinked
  <2> QED
    BY <1>0, <2>1, <2>3 DEF PartyInv
<1> QED
  BY <1>1, <1>2, <1>3, <1>4, <1>5 DEF P!Request

LEMMA PartyNext == PartyInv /\ [Next]_vars => PartyInv'
<1> SUFFICES ASSUME PartyInv, [Next]_vars PROVE PartyInv'
  OBVIOUS
<1>1. ASSUME UNCHANGED <<online, parties>> PROVE PartyInv'
  BY <1>1 DEF PartyInv
<1>2. ASSUME NEW p \in Players, Enter(p) PROVE PartyInv'
  <2>1. PartyLists(parties, online \cup {p})
    <3> SUFFICES ASSUME NEW id \in Parties
                 PROVE  /\ Once(parties.memberList[id])
                        /\ parties.leader[id] \notin Elements(parties.memberList[id])
                        /\ Elements(parties.memberList[id]) \cup parties.inviteList[id]
                              \subseteq online \cup {p}
                        /\ parties.leader[id] \in (online \cup {p}) \cup {None}
      BY DEF PartyLists
    <3> QED
      BY DEF PartyInv, Linked, PartyLists
  <2> QED
    BY <1>2, <2>1 DEF Enter, P!Enter, PartyInv, Linked
<1>3. ASSUME NEW p \in Players, Remove(p) PROVE PartyInv'
  <2>1. Linked(P!PlayerRemoved(parties, p), online \ {p}, {})
    BY RemovedLinked DEF PartyInv
  <2> QED
    BY <1>3, <2>1 DEF Remove, P!Remove, PartyInv
<1>4. ASSUME NEW p \in Players, T!Request(p), UNCHANGED parties PROVE PartyInv'
  BY <1>1, <1>4 DEF T!Request, T!RequestTrade, T!AcceptFirst, T!AcceptFails, T!AcceptTransfers,
     T!CloseTrade, T!MoveItem
<1> QED
  BY <1>1, <1>2, <1>3, <1>4, PartyRequest DEF Next, vars

LEMMA PartyInductive == Spec => []PartyInv
<1>1. Init => PartyInv
  BY PartyInit DEF Init
<1> QED
  BY <1>1, PartyNext, PTL DEF Spec

\* No pointer between a party and a player dangles or is one-sided, whatever
\* the order of invitations, leadership changes, departures and logouts.
THEOREM PartiesNeverDangle == Spec => []PartyLinks
<1>1. PartyInv => PartyLinks
  <2> USE ItemsAssumption, StateMembers
  <2> SUFFICES ASSUME PartyInv PROVE PartyLinks
    OBVIOUS
  <2>1. \A id \in Parties : P!Members(parties, id) = Elements(parties.memberList[id])
    BY DEF P!Members, Elements
  <2>2. ASSUME NEW p \in Players, NEW id \in Parties
        PROVE  /\ parties.party[p] = id <=> parties.leader[id] = p \/ p \in P!Members(parties, id)
               /\ id \in parties.invitePartyList[p] <=> p \in parties.inviteList[id]
    BY <2>1 DEF PartyInv, Linked, PartyPointers, Belongs
  <2>3. ASSUME NEW id \in Parties
        PROVE  /\ parties.leader[id] \notin P!Members(parties, id)
               /\ \A i, j \in DOMAIN parties.memberList[id] :
                     parties.memberList[id][i] = parties.memberList[id][j] => i = j
               /\ (parties.leader[id] = None) <=> P!Empty(parties, id)
               /\ P!Members(parties, id) \cup parties.inviteList[id] \subseteq online
               /\ parties.leader[id] \in online \cup {None}
    <3>1. parties.memberList[id] \in Seq(Players) /\ Once(parties.memberList[id])
      BY DEF PartyInv, Linked, PartyLists
    <3>3. parties.memberList[id] = <<>> <=> Elements(parties.memberList[id]) = {}
      BY <3>1, EmptyElements
    <3>4. parties.leader[id] = None
             <=> Elements(parties.memberList[id]) = {} /\ parties.inviteList[id] = {}
      BY DEF PartyInv, Linked, Alive
    <3>5. (parties.leader[id] = None) <=> P!Empty(parties, id)
      BY <3>3, <3>4 DEF P!Empty
    <3> QED
      BY <2>1, <3>1, <3>5 DEF PartyInv, Linked, PartyLists, Once
  <2> QED
    BY <2>2, <2>3 DEF PartyLinks, P!PartyLinks
<1> QED
  BY <1>1, PartyInductive, PTL
=============================================================================
