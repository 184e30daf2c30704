--------------------------- MODULE ConnPoolProofs ---------------------------
(***************************************************************************)
(* That no connection is lost or handed out twice, and that every server   *)
(* of the groups has a pool of its own that nobody closes, for any number  *)
(* of requests, servers, changes of the groups and connections per pool.   *)
(*                                                                         *)
(* The steps of a request have one shape (RequestStep): one request moves, *)
(* and what it takes from a pool or gives back is what it comes to hold or *)
(* ceases to hold.  The steps of the ticker are taken one by one.          *)
(***************************************************************************)
EXTENDS ConnPool, FiniteSetTheorems, TLAPS

-----------------------------------------------------------------------------
(* Sequences, of which the provers know what they are.                     *)

(* A sequence is a function on an initial segment of the numbers.           *)
LEMMA SeqDef == \A S : Seq(S) = UNION {[1..n -> S] : n \in Nat}
OBVIOUS

(* The elements of a sequence.                                              *)
LEMMA ElementOfSeq ==
  ASSUME NEW S, NEW q \in Seq(S), NEW i \in 1..Len(q)
  PROVE  q[i] \in S
OBVIOUS

(* The empty sequence, and those that are not.                              *)
LEMMA EmptySeq ==
  ASSUME NEW S
  PROVE  /\ <<>> \in Seq(S) /\ Len(<<>>) = 0
         /\ \A q \in Seq(S) : q # <<>> => Len(q) \in Nat \ {0}
OBVIOUS

(* Length and domain.                                                       *)
LEMMA LenProperties ==
  ASSUME NEW S, NEW q \in Seq(S)
  PROVE  /\ Len(q) \in Nat
         /\ q \in [1..Len(q) -> S] /\ DOMAIN q = 1..Len(q)
OBVIOUS

(* One element replaced.                                                    *)
LEMMA ExceptSeq ==
  ASSUME NEW S, NEW q \in Seq(S), NEW i \in 1..Len(q), NEW e \in S
  PROVE  /\ [q EXCEPT ![i] = e] \in Seq(S) /\ Len([q EXCEPT ![i] = e]) = Len(q)
         /\ \A j \in 1..Len(q) : [q EXCEPT ![i] = e][j] = IF j = i THEN e ELSE q[j]
OBVIOUS

(* Two sequences joined.                                                    *)
LEMMA ConcatProperties ==
  ASSUME NEW S, NEW q \in Seq(S), NEW r \in Seq(S)
  PROVE  /\ q \o r \in Seq(S) /\ Len(q \o r) = Len(q) + Len(r)
         /\ \A i \in 1..(Len(q) + Len(r)) :
              (q \o r)[i] = IF i <= Len(q) THEN q[i] ELSE r[i - Len(q)]
OBVIOUS

(* The first element taken off.                                             *)
LEMMA HeadTailProperties ==
  ASSUME NEW S, NEW q \in Seq(S), q # <<>>
  PROVE  /\ Head(q) \in S /\ Tail(q) \in Seq(S) /\ Len(Tail(q)) = Len(q) - 1
         /\ \A i \in 1..Len(Tail(q)) : Tail(q)[i] = q[i + 1]
OBVIOUS

(* An element put at the end.                                               *)
LEMMA AppendProperties ==
  ASSUME NEW S, NEW q \in Seq(S), NEW e \in S
  PROVE  /\ Append(q, e) \in Seq(S) /\ Append(q, e) # <<>>
         /\ Len(Append(q, e)) = Len(q) + 1
         /\ \A i \in 1..Len(q) : Append(q, e)[i] = q[i]
         /\ Append(q, e)[Len(q) + 1] = e
OBVIOUS

-----------------------------------------------------------------------------
(* The inductive invariant.                                                *)

Conn == {"nil", "conn", "closed"}

\* What the variables hold.  No request is at "panic".
SetState == [Pools : [Servers -> Nat], mu : Handlers \cup {NoOne}]
PoolState == [open : BOOLEAN, conns : Seq(Conn), drained : Nat, lost : Nat]
HandlerState ==
  [pc : {"idle", "pools", "lock", "get", "dial", "use", "release"},
   server : Servers \cup {NoOne}, set : Nat, pool : Nat, conn : Conn, check : BOOLEAN]
TickerState ==
  [pc : {"idle", "remove", "close"}, del : SUBSET Servers, set : Nat, pool : Nat]

Types ==
  /\ chunkServerGroups \in [Servers -> GroupIds \cup {NoGroup}]
  /\ connectionPools = Len(sets)
  /\ sets \in Seq(SetState)
  /\ pools \in Seq(PoolState)
  /\ handler \in [Handlers -> HandlerState]
  /\ ticker \in TickerState

\* The set and the pool of a request exist.
Placed(r) ==
  /\ r.pc # "idle" => r.server \in Servers
  /\ r.pc \notin {"idle", "pools"} => r.set \in DOMAIN sets
  /\ r.pc \in {"get", "dial", "use", "release"} => r.pool \in DOMAIN pools

Requests == \A h \in Handlers : Placed(handler[h])

PoolsMade == \A i \in DOMAIN sets, s \in Servers : sets[i].Pools[s] <= Len(pools)

\* A pool is closed when Close has taken all wrappers out of it.
ClosedDrained == \A p \in DOMAIN pools : ~pools[p].open => pools[p].drained = Capacity

\* The pool of server s in the set in use.
PoolOf(s) == sets[connectionPools].Pools[s]

\* The pools in the set in use are of one server each, open, and not those the ticker
\* closes or has yet to close.
InUse ==
  connectionPools # 0 =>
    \A s \in Servers :
      PoolOf(s) # 0 =>
        /\ \A t \in Servers : PoolOf(t) = PoolOf(s) => t = s
        /\ pools[PoolOf(s)].open
        /\ PoolOf(s) # ticker.pool
        /\ \A t \in ticker.del : sets[ticker.set].Pools[t] # PoolOf(s)

\* Every server of a group has one.
Served ==
  \A s \in Servers : chunkServerGroups[s] # NoGroup => connectionPools # 0 /\ PoolOf(s) # 0

\* The ticker closes pools of the set before the one in use.
Closing ==
  /\ ticker.pc = "idle" => ticker.del = {}
  /\ ticker.pc # "idle" => ticker.set \in DOMAIN sets /\ ticker.set # connectionPools
  /\ IF ticker.pc = "close" THEN ticker.pool \in DOMAIN pools ELSE ticker.pool = 0
  /\ \A s \in ticker.del : sets[ticker.set].Pools[s] # 0

CInv ==
  /\ Types /\ Requests /\ PoolsMade
  /\ ConnsAccounted /\ ClosedDrained
  /\ InUse /\ Served /\ Closing

-----------------------------------------------------------------------------
(* Sequences of records.                                                   *)

(* One set of pools changes.                                                *)
LEMMA OneSet ==
  ASSUME sets \in Seq(SetState), NEW i \in DOMAIN sets, NEW r \in SetState,
         sets' = [sets EXCEPT ![i] = r]
  PROVE  /\ sets' \in Seq(SetState)
         /\ Len(sets') = Len(sets) /\ DOMAIN sets' = DOMAIN sets
         /\ \A j \in DOMAIN sets : sets'[j] = IF j = i THEN r ELSE sets[j]
<1>1. DOMAIN sets = 1..Len(sets)
  BY LenProperties
<1>2. /\ sets' \in Seq(SetState) /\ Len(sets') = Len(sets)
      /\ \A j \in 1..Len(sets) : sets'[j] = IF j = i THEN r ELSE sets[j]
  BY <1>1, ExceptSeq
<1>3. DOMAIN sets' = 1..Len(sets)
  BY <1>2, LenProperties
<1> QED BY <1>1, <1>2, <1>3

(* One pool changes.                                                        *)
LEMMA OnePool ==
  ASSUME pools \in Seq(PoolState), NEW p \in DOMAIN pools, NEW r \in PoolState,
         pools' = [pools EXCEPT ![p] = r]
  PROVE  /\ pools' \in Seq(PoolState)
         /\ Len(pools') = Len(pools) /\ DOMAIN pools' = DOMAIN pools
         /\ \A q \in DOMAIN pools : pools'[q] = IF q = p THEN r ELSE pools[q]
<1>1. DOMAIN pools = 1..Len(pools)
  BY LenProperties
<1>2. /\ pools' \in Seq(PoolState) /\ Len(pools') = Len(pools)
      /\ \A q \in 1..Len(pools) : pools'[q] = IF q = p THEN r ELSE pools[q]
  BY <1>1, ExceptSeq
<1>3. DOMAIN pools' = 1..Len(pools)
  BY <1>2, LenProperties
<1> QED BY <1>1, <1>2, <1>3

(* What a pool or a set of the sequences is.                                *)
LEMMA Elements ==
  ASSUME Types
  PROVE  /\ DOMAIN pools = 1..Len(pools) /\ Len(pools) \in Nat
         /\ DOMAIN sets = 1..Len(sets) /\ Len(sets) \in Nat
         /\ \A p \in DOMAIN pools : pools[p] \in PoolState
         /\ \A i \in DOMAIN sets : sets[i] \in SetState
BY LenProperties, ElementOfSeq DEF Types

-----------------------------------------------------------------------------
(* Who holds connections.                                                  *)

Holds(r, p) == r.pool = p /\ r.pc \in {"dial", "use", "release"}

(* Holders are finitely many.                                               *)
LEMMA HoldersFinite ==
  ASSUME NEW p
  PROVE  IsFiniteSet(Holders(p)) /\ Cardinality(Holders(p)) \in Nat
<1>1. Holders(p) \in SUBSET Handlers
  BY DEF Holders
<1> QED BY <1>1, ConnPoolAssumption, FS_Subset, FS_CardinalityType

(* One request moves.                                                       *)
LEMMA OneMoves ==
  ASSUME handler \in [Handlers -> HandlerState], NEW h \in Handlers, NEW r,
         handler' = [handler EXCEPT ![h] = r], NEW p
  PROVE  /\ Cardinality(Holders(p))' \in Nat
         /\ Cardinality(Holders(p))' = Cardinality(Holders(p))
              + (IF Holds(r, p) THEN 1 ELSE 0) - (IF Holds(handler[h], p) THEN 1 ELSE 0)
<1> DEFINE rest == Holders(p) \ {h}
<1>1. \A g \in Handlers : handler'[g] = IF g = h THEN r ELSE handler[g]
  OBVIOUS
<1>2. /\ Holders(p) = IF Holds(handler[h], p) THEN rest \cup {h} ELSE rest
      /\ Holders(p)' = IF Holds(r, p) THEN rest \cup {h} ELSE rest
  BY <1>1 DEF Holders, Holds
<1>3. IsFiniteSet(rest) /\ h \notin rest
  BY HoldersFinite, FS_RemoveElement
<1> HIDE DEF rest
<1>4. Cardinality(rest) \in Nat /\ Cardinality(rest \cup {h}) = Cardinality(rest) + 1
  BY <1>3, FS_CardinalityType, FS_AddElement
<1>5. Cardinality(Holders(p)) = Cardinality(rest) + (IF Holds(handler[h], p) THEN 1 ELSE 0)
  BY <1>2, <1>4
<1>6. Cardinality(Holders(p)') = Cardinality(rest) + (IF Holds(r, p) THEN 1 ELSE 0)
  BY <1>2, <1>4
<1> QED BY <1>4, <1>5, <1>6

-----------------------------------------------------------------------------
(* The steps of a request.                                                 *)

\* What request h, which becomes r, does with the pools: what it takes from one or
\* puts back is what it comes to hold or holds no longer.
Accounted(h, r) ==
  \A p \in DOMAIN pools :
    /\ pools'[p].open = pools[p].open /\ pools'[p].drained = pools[p].drained
    /\ Len(pools'[p].conns) + pools'[p].lost + (IF Holds(r, p) THEN 1 ELSE 0)
         = Len(pools[p].conns) + pools[p].lost + (IF Holds(handler[h], p) THEN 1 ELSE 0)
    /\ \A i \in DOMAIN pools'[p].conns : pools'[p].conns[i] # "closed"

RequestStep(h, r) ==
  /\ handler' = [handler EXCEPT ![h] = r]
  /\ r \in HandlerState /\ Placed(r)
  /\ pools' \in Seq(PoolState) /\ Len(pools') = Len(pools)
  /\ Accounted(h, r)
  /\ sets' \in Seq(SetState) /\ Len(sets') = Len(sets)
  /\ \A i \in DOMAIN sets : sets'[i].Pools = sets[i].Pools
  /\ UNCHANGED <<chunkServerGroups, connectionPools, ticker>>

(* The number of wrappers of a pool is right after such a step, and if it   *)
(* is closed nobody holds one.                                              *)
LEMMA AccountedKeeps ==
  ASSUME CInv, NEW h \in Handlers, NEW r, RequestStep(h, r)
  PROVE  ConnsAccounted' /\ ClosedDrained'
<1>1. /\ DOMAIN pools' = DOMAIN pools /\ pools' \in Seq(PoolState)
      /\ \A p \in DOMAIN pools : pools[p] \in PoolState /\ pools'[p] \in PoolState
  BY LenProperties, ElementOfSeq DEF CInv, Types, RequestStep
<1>2. ASSUME NEW p \in DOMAIN pools
      PROVE  /\ Len(pools'[p].conns) + Cardinality(Holders(p))'
                  + pools'[p].drained + pools'[p].lost = Capacity
             /\ ~pools'[p].open => Holders(p)' = {} /\ pools'[p].drained = Capacity
             /\ \A i \in DOMAIN pools'[p].conns : pools'[p].conns[i] # "closed"
  <2> DEFINE was == IF Holds(handler[h], p) THEN 1 ELSE 0
             now == IF Holds(r, p) THEN 1 ELSE 0
             n == Len(pools[p].conns)
             m == Len(pools'[p].conns)
             l == pools[p].lost
             k == pools'[p].lost
             e == pools[p].drained
             c == Cardinality(Holders(p))
             d == Cardinality(Holders(p))'
  <2>1. /\ n \in Nat /\ m \in Nat /\ l \in Nat /\ k \in Nat /\ e \in Nat
    BY <1>1, LenProperties DEF PoolState
  <2>2. /\ c \in Nat /\ d \in Nat /\ d = c + now - was
    BY HoldersFinite, OneMoves, Zenon DEF CInv, Types, RequestStep
  <2>3. /\ pools'[p].open = pools[p].open /\ pools'[p].drained = e
        /\ \A i \in DOMAIN pools'[p].conns : pools'[p].conns[i] # "closed"
    BY DEF RequestStep, Accounted
  <2>4. m + k + now = n + l + was
    BY DEF RequestStep, Accounted
  <2>5. n + c + e + l = Capacity
    BY DEF CInv, ConnsAccounted
  <2>6. ~pools'[p].open => e = Capacity
    BY <2>3 DEF CInv, ClosedDrained
  <2>7. was \in {0, 1} /\ now \in {0, 1} /\ Capacity \in Nat
    BY ConnPoolAssumption
  <2> HIDE DEF was, now, n, m, l, k, e, c, d
  <2>8. m + d + e + k = Capacity
    BY <2>1, <2>2, <2>4, <2>5, <2>7
  <2>9. e = Capacity => d = 0
    BY <2>1, <2>2, <2>8
  <2>10. d = 0 => Holders(p)' = {}
    <3>1. IsFiniteSet(Holders(p)')
      BY HoldersFinite, FS_Subset, ConnPoolAssumption DEF Holders
    <3> QED BY <3>1, FS_EmptySet DEF d
  <2> QED BY <2>3, <2>6, <2>8, <2>9, <2>10 DEF m, d, k
<1> QED BY <1>1, <1>2 DEF ConnsAccounted, ClosedDrained

(* Such a step leaves the pools of the servers as they are.                 *)
LEMMA RequestKeeps ==
  ASSUME CInv, NEW h \in Handlers, NEW r, RequestStep(h, r)
  PROVE  CInv'
<1>1. /\ DOMAIN pools' = DOMAIN pools /\ DOMAIN sets' = DOMAIN sets
      /\ Len(pools') = Len(pools) /\ Len(sets') = Len(sets)
      /\ pools' \in Seq(PoolState) /\ sets' \in Seq(SetState)
  BY LenProperties DEF CInv, Types, RequestStep
<1>2. Types'
  BY <1>1 DEF CInv, Types, RequestStep
<1>3. \A g \in Handlers : handler'[g] = IF g = h THEN r ELSE handler[g]
  BY DEF CInv, Types, RequestStep
<1>4. Requests'
  BY <1>1, <1>3 DEF CInv, Requests, Placed, RequestStep
<1>5. /\ \A i \in DOMAIN sets : sets'[i].Pools = sets[i].Pools
      /\ \A p \in DOMAIN pools : pools'[p].open = pools[p].open
      /\ UNCHANGED <<chunkServerGroups, connectionPools, ticker>>
  BY DEF RequestStep, Accounted
<1>6. PoolsMade'
  BY <1>1, <1>5 DEF CInv, PoolsMade
<1>7. /\ connectionPools \in Nat
      /\ connectionPools # 0 => connectionPools \in DOMAIN sets
      /\ \A s \in Servers : connectionPools # 0 /\ PoolOf(s) # 0 => PoolOf(s) \in DOMAIN pools
      /\ \A s \in Servers : connectionPools # 0 => PoolOf(s)' = PoolOf(s)
      /\ ticker.del # {} => ticker.set \in DOMAIN sets
  <2>1. connectionPools \in Nat /\ (connectionPools # 0 => connectionPools \in DOMAIN sets)
    BY Elements DEF CInv, Types
  <2>2. \A s \in Servers : connectionPools # 0 => PoolOf(s)' = PoolOf(s)
    BY <1>5, <2>1 DEF PoolOf
  <2>3. \A s \in Servers : connectionPools # 0 => PoolOf(s) \in Nat /\ PoolOf(s) <= Len(pools)
    BY <2>1, Elements DEF CInv, PoolsMade, PoolOf, SetState
  <2>4. \A s \in Servers : connectionPools # 0 /\ PoolOf(s) # 0 => PoolOf(s) \in DOMAIN pools
    BY <2>3, Elements DEF CInv
  <2> QED BY <2>1, <2>2, <2>4 DEF CInv, Closing
<1>8. InUse'
  BY <1>5, <1>7 DEF CInv, InUse
<1>9. Served'
  BY <1>5, <1>7 DEF CInv, Served
<1>10. Closing'
  BY <1>1, <1>5, <1>7 DEF CInv, Closing
<1> QED BY <1>2, <1>4, <1>6, <1>8, <1>9, <1>10, AccountedKeeps DEF CInv

(* The lock of a set is taken or released.                                  *)
LEMMA Locks ==
  ASSUME CInv, NEW i \in DOMAIN sets, NEW m \in Handlers \cup {NoOne},
         sets' = [sets EXCEPT ![i].mu = m]
  PROVE  /\ sets' \in Seq(SetState) /\ Len(sets') = Len(sets)
         /\ \A j \in DOMAIN sets : sets'[j].Pools = sets[j].Pools
<1> DEFINE r == [sets[i] EXCEPT !.mu = m]
<1>1. sets \in Seq(SetState) /\ sets[i] \in SetState
  BY Elements DEF CInv, Types
<1>2. r \in SetState /\ r.Pools = sets[i].Pools
  BY <1>1, Zenon DEF SetState
<1>3. sets' = [sets EXCEPT ![i] = r]
  OBVIOUS
<1> HIDE DEF r
<1> QED BY <1>1, <1>2, <1>3, OneSet, Zenon

(* A step that neither takes a wrapper nor gives one back.                  *)
LEMMA NoneMoves ==
  ASSUME CInv, NEW h \in Handlers, NEW r, UNCHANGED pools,
         \A p \in DOMAIN pools : Holds(r, p) <=> Holds(handler[h], p)
  PROVE  pools' \in Seq(PoolState) /\ Len(pools') = Len(pools) /\ Accounted(h, r)
BY DEF CInv, Types, ConnsAccounted, Accounted

(* A step that moves a wrapper of pool p.                                   *)
LEMMA WrapperMoves ==
  ASSUME CInv, NEW h \in Handlers, NEW r, NEW p \in DOMAIN pools, NEW q \in PoolState,
         pools' = [pools EXCEPT ![p] = q],
         q.open = pools[p].open, q.drained = pools[p].drained,
         Len(q.conns) + q.lost + (IF Holds(r, p) THEN 1 ELSE 0)
           = Len(pools[p].conns) + pools[p].lost + (IF Holds(handler[h], p) THEN 1 ELSE 0),
         \A i \in DOMAIN q.conns : q.conns[i] # "closed",
         \A o \in DOMAIN pools : o # p => (Holds(r, o) <=> Holds(handler[h], o))
  PROVE  pools' \in Seq(PoolState) /\ Len(pools') = Len(pools) /\ Accounted(h, r)
<1>1. /\ pools' \in Seq(PoolState)
      /\ Len(pools') = Len(pools) /\ DOMAIN pools' = DOMAIN pools
      /\ \A o \in DOMAIN pools : pools'[o] = IF o = p THEN q ELSE pools[o]
  BY OnePool DEF CInv, Types
<1>2. \A o \in DOMAIN pools : \A i \in DOMAIN pools[o].conns : pools[o].conns[i] # "closed"
  BY DEF CInv, ConnsAccounted
<1> QED BY <1>1, <1>2 DEF Accounted

(* A request is typed and placed.                                           *)
LEMMA RequestTypes ==
  ASSUME CInv, NEW h \in Handlers
  PROVE  handler[h] \in HandlerState /\ Placed(handler[h])
BY DEF CInv, Types, Requests

(* A request that ends holds nothing.                                       *)
LEMMA IdleTypes == Idle \in HandlerState /\ Placed(Idle) /\ \A p : ~Holds(Idle, p)
BY DEF Idle, HandlerState, Conn, Placed, Holds

(* Chooses moves one request.                                               *)
LEMMA ChoosesStep ==
  ASSUME CInv, NEW h \in Handlers, Chooses(h)
  PROVE  \E r : RequestStep(h, r)
<1>1. PICK s \in Servers : handler' = [handler EXCEPT ![h].pc = "pools", ![h].server = s]
  BY Zenon DEF Chooses
<1> DEFINE r == [handler[h] EXCEPT !.pc = "pools", !.server = s]
<1>2. handler[h] \in HandlerState /\ handler[h].pc = "idle"
  BY RequestTypes DEF Chooses
<1>3. handler' = [handler EXCEPT ![h] = r]
  BY <1>1, Zenon
<1>4. r \in HandlerState /\ r.pc = "pools" /\ r.server = s
  BY <1>2, Zenon DEF HandlerState
<1> HIDE DEF r
<1>5. Placed(r) /\ \A p : Holds(r, p) <=> Holds(handler[h], p)
  BY <1>2, <1>4 DEF Placed, Holds
<1> QED BY <1>3, <1>4, <1>5, NoneMoves, Zenon DEF Chooses, RequestStep, CInv, Types

(* GetConnectionPools moves one request, to a set that exists.              *)
LEMMA GetConnectionPoolsStep ==
  ASSUME CInv, NEW h \in Handlers, GetConnectionPools(h)
  PROVE  \E r : RequestStep(h, r)
<1>1. handler[h] \in HandlerState /\ handler[h].pc = "pools" /\ Placed(handler[h])
  BY RequestTypes DEF GetConnectionPools
<1>2. CASE connectionPools = 0
  <2>1. handler' = [handler EXCEPT ![h] = Idle]
    BY <1>2 DEF GetConnectionPools, Ends
  <2>2. \A p : Holds(Idle, p) <=> Holds(handler[h], p)
    BY <1>1, IdleTypes DEF Holds
  <2> QED BY <2>1, <2>2, IdleTypes, NoneMoves, Zenon
          DEF GetConnectionPools, RequestStep, CInv, Types
<1>3. CASE connectionPools # 0
  <2> DEFINE r == [handler[h] EXCEPT !.pc = "lock", !.set = connectionPools]
  <2>1. connectionPools \in DOMAIN sets /\ connectionPools \in Nat
    BY <1>3, Elements DEF CInv, Types
  <2>2. handler' = [handler EXCEPT ![h] = r]
    BY <1>3, Zenon DEF GetConnectionPools
  <2>3. /\ r \in HandlerState /\ r.pc = "lock" /\ r.set = connectionPools
        /\ r.server = handler[h].server
    BY <1>1, <2>1, Zenon DEF HandlerState
  <2> HIDE DEF r
  <2>4. Placed(r) /\ \A p : Holds(r, p) <=> Holds(handler[h], p)
    BY <1>1, <2>1, <2>3 DEF Placed, Holds
  <2> QED BY <2>2, <2>3, <2>4, NoneMoves, Zenon DEF GetConnectionPools, RequestStep, CInv, Types
<1> QED BY <1>2, <1>3

(* GetConn moves one request, to a pool that exists.                        *)
LEMMA GetConnStep ==
  ASSUME CInv, NEW h \in Handlers, GetConn(h)
  PROVE  \E r : RequestStep(h, r)
<1> DEFINE i == handler[h].set
           p == sets[i].Pools[handler[h].server]
<1>1. /\ handler[h] \in HandlerState /\ handler[h].pc = "lock" /\ Placed(handler[h])
      /\ i \in DOMAIN sets /\ handler[h].server \in Servers
  BY RequestTypes, Zenon DEF GetConn, Placed
<1>2. p \in Nat /\ p <= Len(pools)
  BY <1>1, Elements DEF CInv, SetState, PoolsMade
<1>3. CASE p = 0 \/ ~pools[p].open
  <2>1. handler' = [handler EXCEPT ![h] = Idle] /\ UNCHANGED sets
    BY <1>3, Zenon DEF GetConn, Ends
  <2>2. \A o : Holds(Idle, o) <=> Holds(handler[h], o)
    BY <1>1, IdleTypes DEF Holds
  <2> QED BY <2>1, <2>2, IdleTypes, NoneMoves, Zenon DEF GetConn, RequestStep, CInv, Types
<1>4. CASE ~(p = 0 \/ ~pools[p].open)
  <2> DEFINE r == [handler[h] EXCEPT !.pc = "get", !.pool = p]
  <2>1. p \in DOMAIN pools
    <3>1. p # 0
      BY <1>4, Zenon
    <3> HIDE DEF p
    <3> QED BY <1>2, <3>1, Elements DEF CInv
  <2>2. handler' = [handler EXCEPT ![h] = r] /\ sets' = [sets EXCEPT ![i].mu = h]
    BY <1>4, Zenon DEF GetConn
  <2>3. /\ r \in HandlerState /\ r.pc = "get" /\ r.pool = p
        /\ r.server = handler[h].server /\ r.set = i
    BY <1>1, <1>2, Zenon DEF HandlerState
  <2> HIDE DEF r
  <2>4. Placed(r) /\ \A o : Holds(r, o) <=> Holds(handler[h], o)
    BY <1>1, <2>1, <2>3 DEF Placed, Holds
  <2>5. /\ sets' \in Seq(SetState) /\ Len(sets') = Len(sets)
        /\ \A j \in DOMAIN sets : sets'[j].Pools = sets[j].Pools
    BY <1>1, <2>2, Locks, Zenon
  <2> QED BY <2>2, <2>3, <2>4, <2>5, NoneMoves, Zenon DEF GetConn, RequestStep
<1> QED BY <1>3, <1>4, Zenon

(* get moves one request, with a wrapper from its pool or without.          *)
LEMMA getStep ==
  ASSUME CInv, NEW h \in Handlers, get(h)
  PROVE  \E r : RequestStep(h, r)
<1> DEFINE p == handler[h].pool
           i == handler[h].set
           w == pools[p]
           c == Head(w.conns)
           q == [w EXCEPT !.conns = Tail(@)]
<1>1. /\ handler[h] \in HandlerState /\ handler[h].pc = "get" /\ Placed(handler[h])
      /\ i \in DOMAIN sets /\ p \in DOMAIN pools /\ w \in PoolState
      /\ UNCHANGED <<chunkServerGroups, connectionPools, ticker>>
  BY RequestTypes, Elements, Zenon DEF get, Placed, CInv
<1>2. \A o : ~Holds(handler[h], o)
  BY <1>1 DEF Holds
<1>3. ASSUME sets' = [sets EXCEPT ![i].mu = NoOne] \/ UNCHANGED sets
      PROVE  /\ sets' \in Seq(SetState) /\ Len(sets') = Len(sets)
             /\ \A j \in DOMAIN sets : sets'[j].Pools = sets[j].Pools
  BY <1>1, <1>3, Locks, Zenon DEF CInv, Types
<1>4. CASE /\ w.conns # <<>>
           /\ pools' = [pools EXCEPT ![p].conns = Tail(@)]
           /\ \/ /\ c # "nil"
                 /\ handler' = [handler EXCEPT ![h].pc = "use", ![h].conn = c]
                 /\ Unlock(i)
              \/ Goto(h, "dial") /\ UNCHANGED sets
  <2>1. /\ w.conns \in Seq(Conn) /\ c \in Conn /\ Tail(w.conns) \in Seq(Conn)
        /\ Len(Tail(w.conns)) = Len(w.conns) - 1 /\ Len(w.conns) \in Nat
        /\ \A j \in DOMAIN Tail(w.conns) :
             j + 1 \in DOMAIN w.conns /\ Tail(w.conns)[j] = w.conns[j + 1]
    <3>1. w.conns \in Seq(Conn) /\ w.conns # <<>>
      BY <1>1, <1>4 DEF PoolState
    <3>2. /\ c \in Conn /\ Tail(w.conns) \in Seq(Conn)
          /\ Len(Tail(w.conns)) = Len(w.conns) - 1
          /\ \A j \in 1..Len(Tail(w.conns)) : Tail(w.conns)[j] = w.conns[j + 1]
      BY <3>1, HeadTailProperties
    <3>3. DOMAIN Tail(w.conns) = 1..Len(Tail(w.conns)) /\ DOMAIN w.conns = 1..Len(w.conns)
          /\ Len(w.conns) \in Nat
      BY <3>1, <3>2, LenProperties
    <3> HIDE DEF w, c
    <3> QED BY <3>1, <3>2, <3>3
  <2>2. \A j \in DOMAIN w.conns : w.conns[j] # "closed"
    BY <1>1 DEF CInv, ConnsAccounted
  <2>3. /\ q \in PoolState /\ pools' = [pools EXCEPT ![p] = q]
        /\ q.open = w.open /\ q.drained = w.drained /\ q.lost = w.lost
        /\ q.conns = Tail(w.conns)
    BY <1>1, <1>4, <2>1, Zenon DEF PoolState
  <2>4. PICK r \in HandlerState :
          /\ handler' = [handler EXCEPT ![h] = r]
          /\ r.pc \in {"use", "dial"}
          /\ r.pool = p /\ r.set = i /\ r.server = handler[h].server
          /\ sets' = [sets EXCEPT ![i].mu = NoOne] \/ UNCHANGED sets
    <3>1. CASE /\ handler' = [handler EXCEPT ![h].pc = "use", ![h].conn = c]
               /\ Unlock(i)
      <4> DEFINE r == [handler[h] EXCEPT !.pc = "use", !.conn = c]
      <4>1. handler' = [handler EXCEPT ![h] = r]
        BY <3>1, Zenon
      <4>2. /\ r \in HandlerState /\ r.pc = "use"
            /\ r.pool = p /\ r.set = i /\ r.server = handler[h].server
        BY <1>1, <2>1, Zenon DEF HandlerState
      <4> HIDE DEF r
      <4> QED BY <3>1, <4>1, <4>2, Zenon DEF Unlock
    <3>2. CASE Goto(h, "dial") /\ UNCHANGED sets
      <4> DEFINE r == [handler[h] EXCEPT !.pc = "dial"]
      <4>1. handler' = [handler EXCEPT ![h] = r]
        BY <3>2 DEF Goto
      <4>2. /\ r \in HandlerState /\ r.pc = "dial"
            /\ r.pool = p /\ r.set = i /\ r.server = handler[h].server
        BY <1>1 DEF HandlerState
      <4> HIDE DEF r
      <4> QED BY <3>2, <4>1, <4>2, Zenon
    <3> QED BY <1>4, <3>1, <3>2, Zenon
  <2> HIDE DEF q
  <2>5. Placed(r) /\ \A o : Holds(r, o) <=> o = p
    BY <1>1, <2>4 DEF Placed, Holds
  <2>6. /\ Len(q.conns) + q.lost + (IF Holds(r, p) THEN 1 ELSE 0)
             = Len(w.conns) + w.lost + (IF Holds(handler[h], p) THEN 1 ELSE 0)
        /\ \A j \in DOMAIN q.conns : q.conns[j] # "closed"
    <3>1. w.lost \in Nat
      BY <1>1 DEF PoolState
    <3> HIDE DEF w, p
    <3> QED BY <1>2, <2>1, <2>2, <2>3, <2>5, <3>1
  <2>7. pools' \in Seq(PoolState) /\ Len(pools') = Len(pools) /\ Accounted(h, r)
    BY <1>1, <1>2, <2>3, <2>5, <2>6, WrapperMoves, Zenon
  <2> QED BY <1>1, <1>3, <2>4, <2>5, <2>7, Zenon DEF RequestStep
<1>5. CASE Ends(h) /\ Unlock(i) /\ UNCHANGED pools
  <2>1. handler' = [handler EXCEPT ![h] = Idle] /\ sets' = [sets EXCEPT ![i].mu = NoOne]
    BY <1>5 DEF Ends, Unlock
  <2> QED BY <1>1, <1>2, <1>3, <1>5, <2>1, IdleTypes, NoneMoves, Zenon DEF RequestStep
<1> QED BY <1>4, <1>5, Zenon DEF get

(* A wrapper is put into the channel of pool p.                             *)
LEMMA Appended ==
  ASSUME CInv, NEW p \in DOMAIN pools, NEW c \in Conn, c # "closed"
  PROVE  LET q == [pools[p] EXCEPT !.conns = Append(@, c)]
         IN /\ q \in PoolState
            /\ q.open = pools[p].open /\ q.drained = pools[p].drained
            /\ q.lost = pools[p].lost /\ q.lost \in Nat
            /\ Len(pools[p].conns) \in Nat /\ Len(q.conns) = Len(pools[p].conns) + 1
            /\ \A j \in DOMAIN q.conns : q.conns[j] # "closed"
<1> DEFINE s == pools[p].conns
<1>1. pools[p] \in PoolState /\ s \in Seq(Conn)
  BY Elements DEF CInv, PoolState
<1>2. /\ Append(s, c) \in Seq(Conn) /\ Len(Append(s, c)) = Len(s) + 1 /\ Len(s) \in Nat
      /\ \A j \in 1..Len(s) : Append(s, c)[j] = s[j]
      /\ Append(s, c)[Len(s) + 1] = c
  BY <1>1, AppendProperties, LenProperties
<1>3. DOMAIN Append(s, c) = 1..(Len(s) + 1) /\ DOMAIN s = 1..Len(s)
  BY <1>1, <1>2, LenProperties
<1>4. \A j \in DOMAIN s : s[j] # "closed"
  BY DEF CInv, ConnsAccounted
<1>5. \A j \in DOMAIN Append(s, c) : Append(s, c)[j] # "closed"
  <2> HIDE DEF s
  <2> QED BY <1>2, <1>3, <1>4
<1>6. LET q == [pools[p] EXCEPT !.conns = Append(@, c)]
      IN /\ q \in PoolState
         /\ q.open = pools[p].open /\ q.drained = pools[p].drained
         /\ q.lost = pools[p].lost /\ q.lost \in Nat
         /\ q.conns = Append(s, c)
  BY <1>1, <1>2, Zenon DEF PoolState
<1> QED BY <1>2, <1>5, <1>6

(* A request that gives back a wrapper of its pool, when it ends or looks   *)
(* for another.                                                             *)
LEMMA PutStep ==
  ASSUME CInv, NEW h \in Handlers, NEW c \in Conn, c # "closed",
         Holds(handler[h], handler[h].pool),
         NEW r \in HandlerState, r.pc \in {"idle", "lock"}, Placed(r),
         handler' = [handler EXCEPT ![h] = r],
         pools' = [pools EXCEPT ![handler[h].pool].conns = Append(@, c)],
         sets' = [sets EXCEPT ![handler[h].set].mu = NoOne] \/ UNCHANGED sets,
         UNCHANGED <<chunkServerGroups, connectionPools, ticker>>
  PROVE  RequestStep(h, r)
<1> DEFINE p == handler[h].pool
           q == [pools[p] EXCEPT !.conns = Append(@, c)]
<1>1. p \in DOMAIN pools /\ handler[h].set \in DOMAIN sets
  BY RequestTypes DEF Placed, Holds
<1>2. /\ sets' \in Seq(SetState) /\ Len(sets') = Len(sets)
      /\ \A j \in DOMAIN sets : sets'[j].Pools = sets[j].Pools
  BY <1>1, Locks, Zenon DEF CInv, Types
<1>3. pools' = [pools EXCEPT ![p] = q]
  OBVIOUS
<1>4. /\ q \in PoolState
      /\ q.open = pools[p].open /\ q.drained = pools[p].drained
      /\ q.lost = pools[p].lost /\ q.lost \in Nat
      /\ Len(pools[p].conns) \in Nat /\ Len(q.conns) = Len(pools[p].conns) + 1
      /\ \A j \in DOMAIN q.conns : q.conns[j] # "closed"
  BY <1>1, Appended, Zenon
<1> HIDE DEF q
<1>5. \A o : ~Holds(r, o) /\ (Holds(handler[h], o) <=> o = p)
  BY DEF Holds
<1>6. Len(q.conns) + q.lost + (IF Holds(r, p) THEN 1 ELSE 0)
        = Len(pools[p].conns) + pools[p].lost + (IF Holds(handler[h], p) THEN 1 ELSE 0)
  <2>1. ~Holds(r, p) /\ Holds(handler[h], p)
    BY <1>5
  <2> HIDE DEF p
  <2>2. Len(q.conns) + q.lost + 0 = Len(pools[p].conns) + pools[p].lost + 1
    BY <1>4
  <2> QED BY <2>1, <2>2, Zenon
<1>7. pools' \in Seq(PoolState) /\ Len(pools') = Len(pools) /\ Accounted(h, r)
  <2>1. \A o \in DOMAIN pools : o # p => (Holds(r, o) <=> Holds(handler[h], o))
    BY <1>5, Zenon
  <2> HIDE DEF p
  <2> QED BY <1>1, <1>3, <1>4, <1>6, <2>1, WrapperMoves, Zenon
<1> QED BY <1>2, <1>7 DEF RequestStep

(* factory moves one request.                                               *)
LEMMA factoryStep ==
  ASSUME CInv, NEW h \in Handlers, factory(h)
  PROVE  \E r : RequestStep(h, r)
<1>1. /\ handler[h] \in HandlerState /\ handler[h].pc = "dial" /\ Placed(handler[h])
      /\ handler[h].set \in DOMAIN sets /\ handler[h].pool \in DOMAIN pools
      /\ sets' = [sets EXCEPT ![handler[h].set].mu = NoOne]
      /\ UNCHANGED <<chunkServerGroups, connectionPools, ticker>>
  BY RequestTypes DEF factory, Placed, Unlock
<1>2. CASE /\ handler' = [handler EXCEPT ![h].pc = "use", ![h].conn = "conn"]
           /\ UNCHANGED pools
  <2> DEFINE r == [handler[h] EXCEPT !.pc = "use", !.conn = "conn"]
  <2>1. handler' = [handler EXCEPT ![h] = r]
    BY <1>2, Zenon
  <2>2. /\ r \in HandlerState /\ r.pc = "use" /\ r.pool = handler[h].pool
        /\ r.server = handler[h].server /\ r.set = handler[h].set
    BY <1>1, Zenon DEF HandlerState, Conn
  <2> HIDE DEF r
  <2>3. Placed(r) /\ \A p : Holds(r, p) <=> Holds(handler[h], p)
    BY <1>1, <2>2 DEF Placed, Holds
  <2>4. /\ sets' \in Seq(SetState) /\ Len(sets') = Len(sets)
        /\ \A j \in DOMAIN sets : sets'[j].Pools = sets[j].Pools
    BY <1>1, Locks, Zenon
  <2> QED BY <1>1, <1>2, <2>1, <2>2, <2>3, <2>4, NoneMoves, Zenon DEF RequestStep
<1>3. CASE /\ Ends(h)
           /\ pools' = [pools EXCEPT ![handler[h].pool].conns = Append(@, "nil")]
  <2>1. handler' = [handler EXCEPT ![h] = Idle] /\ Idle.pc = "idle"
    BY <1>3 DEF Ends, Idle
  <2>2. Holds(handler[h], handler[h].pool) /\ "nil" \in Conn /\ "nil" # "closed"
    BY <1>1 DEF Holds, Conn
  <2> QED BY <1>1, <1>3, <2>1, <2>2, IdleTypes, PutStep, Zenon
<1> QED BY <1>2, <1>3 DEF factory

(* UsesConn moves one request, which keeps its wrapper.                     *)
LEMMA UsesConnStep ==
  ASSUME CInv, NEW h \in Handlers, UsesConn(h)
  PROVE  \E r : RequestStep(h, r)
<1>1. /\ handler[h] \in HandlerState /\ handler[h].pc = "use" /\ Placed(handler[h])
      /\ UNCHANGED <<chunkServerGroups, connectionPools, sets, pools, ticker>>
  BY RequestTypes DEF UsesConn
<1>2. PICK r \in HandlerState :
        /\ handler' = [handler EXCEPT ![h] = r]
        /\ r.pc = "release" /\ r.pool = handler[h].pool
        /\ r.server = handler[h].server /\ r.set = handler[h].set
  <2>1. CASE Goto(h, "release")
    <3> DEFINE r == [handler[h] EXCEPT !.pc = "release"]
    <3>1. handler' = [handler EXCEPT ![h] = r]
      BY <2>1 DEF Goto
    <3>2. /\ r \in HandlerState /\ r.pc = "release" /\ r.pool = handler[h].pool
          /\ r.server = handler[h].server /\ r.set = handler[h].set
      BY <1>1 DEF HandlerState
    <3> HIDE DEF r
    <3> QED BY <3>1, <3>2, Zenon
  <2>2. ASSUME NEW eof \in BOOLEAN,
               handler' = [handler EXCEPT ![h].pc = "release", ![h].conn = "closed",
                                          ![h].check = eof]
        PROVE  \E r \in HandlerState :
                 /\ handler' = [handler EXCEPT ![h] = r]
                 /\ r.pc = "release" /\ r.pool = handler[h].pool
                 /\ r.server = handler[h].server /\ r.set = handler[h].set
    <3> DEFINE r == [handler[h] EXCEPT !.pc = "release", !.conn = "closed", !.check = eof]
    <3>1. handler' = [handler EXCEPT ![h] = r]
      BY <2>2, Zenon
    <3>2. /\ r \in HandlerState /\ r.pc = "release" /\ r.pool = handler[h].pool
          /\ r.server = handler[h].server /\ r.set = handler[h].set
      BY <1>1, Zenon DEF HandlerState, Conn
    <3> HIDE DEF r
    <3> QED BY <3>1, <3>2, Zenon
  <2> QED BY <2>1, <2>2 DEF UsesConn
<1>3. Placed(r) /\ \A p : Holds(r, p) <=> Holds(handler[h], p)
  BY <1>1, <1>2 DEF Placed, Holds
<1> QED BY <1>1, <1>2, <1>3, NoneMoves, Zenon DEF RequestStep, CInv, Types

(* CheckConnPool moves one request, which keeps its wrapper or loses it.    *)
LEMMA CheckConnPoolStep ==
  ASSUME CInv, NEW h \in Handlers, CheckConnPool(h)
  PROVE  \E r : RequestStep(h, r)
<1>1. /\ handler[h] \in HandlerState /\ handler[h].pc = "use" /\ Placed(handler[h])
      /\ handler[h].pool \in DOMAIN pools
      /\ UNCHANGED <<chunkServerGroups, connectionPools, sets, ticker>>
  BY RequestTypes DEF CheckConnPool, Placed
<1>2. CASE /\ handler' = [handler EXCEPT ![h].pc = "release", ![h].conn = "closed"]
           /\ UNCHANGED pools
  <2> DEFINE r == [handler[h] EXCEPT !.pc = "release", !.conn = "closed"]
  <2>1. handler' = [handler EXCEPT ![h] = r]
    BY <1>2, Zenon
  <2>2. /\ r \in HandlerState /\ r.pc = "release" /\ r.pool = handler[h].pool
        /\ r.server = handler[h].server /\ r.set = handler[h].set
    BY <1>1, Zenon DEF HandlerState, Conn
  <2> HIDE DEF r
  <2>3. Placed(r) /\ \A p : Holds(r, p) <=> Holds(handler[h], p)
    BY <1>1, <2>2 DEF Placed, Holds
  <2> QED BY <1>1, <1>2, <2>1, <2>2, <2>3, NoneMoves, Zenon DEF RequestStep, CInv, Types
<1>3. CASE /\ Ends(h)
           /\ pools' = [pools EXCEPT ![handler[h].pool].lost = @ + 1]
  <2> DEFINE p == handler[h].pool
             q == [pools[p] EXCEPT !.lost = @ + 1]
  <2>1. handler' = [handler EXCEPT ![h] = Idle] /\ pools' = [pools EXCEPT ![p] = q]
    BY <1>3 DEF Ends
  <2>2. pools[p] \in PoolState /\ pools[p].lost \in Nat /\ Len(pools[p].conns) \in Nat
    BY <1>1, Elements, LenProperties DEF CInv, PoolState
  <2>3. /\ q \in PoolState /\ q.open = pools[p].open /\ q.drained = pools[p].drained
        /\ q.conns = pools[p].conns /\ q.lost = pools[p].lost + 1
    BY <2>2 DEF PoolState
  <2> HIDE DEF q
  <2>4. \A o : ~Holds(Idle, o) /\ (Holds(handler[h], o) <=> o = p)
    BY <1>1, IdleTypes DEF Holds
  <2>5. Len(q.conns) + q.lost + (IF Holds(Idle, p) THEN 1 ELSE 0)
          = Len(pools[p].conns) + pools[p].lost + (IF Holds(handler[h], p) THEN 1 ELSE 0)
    <3> HIDE DEF p
    <3> QED BY <2>2, <2>3, <2>4
  <2>6. \A j \in DOMAIN q.conns : q.conns[j] # "closed"
    BY <1>1, <2>3 DEF CInv, ConnsAccounted
  <2>7. pools' \in Seq(PoolState) /\ Len(pools') = Len(pools) /\ Accounted(h, Idle)
    BY <1>1, <2>1, <2>3, <2>4, <2>5, <2>6, WrapperMoves, Zenon
  <2> QED BY <1>1, <2>1, <2>7, IdleTypes, Zenon DEF RequestStep, CInv, Types
<1> QED BY <1>2, <1>3 DEF CheckConnPool

(* ReleaseConn does not panic: the pool of a wrapper that is out is open,   *)
(* and has room for it.                                                     *)
LEMMA ReleaseConnStep ==
  ASSUME CInv, NEW h \in Handlers, ReleaseConn(h)
  PROVE  \E r : RequestStep(h, r)
<1> DEFINE p == handler[h].pool
           c == Recycle(handler[h].conn)
<1>1. /\ handler[h] \in HandlerState /\ handler[h].pc = "release" /\ Placed(handler[h])
      /\ p \in DOMAIN pools
      /\ UNCHANGED <<chunkServerGroups, connectionPools, sets, ticker>>
  BY RequestTypes DEF ReleaseConn, Placed
<1>2. Holds(handler[h], p) /\ c \in Conn /\ c # "closed"
  BY <1>1 DEF Holds, Recycle, HandlerState, Conn
<1>3. pools[p].open /\ Len(pools[p].conns) < Capacity
  <2>1. h \in Holders(p)
    BY <1>2 DEF Holders, Holds
  <2>2. Cardinality(Holders(p)) \in Nat /\ Cardinality(Holders(p)) # 0
    BY <2>1, HoldersFinite, FS_EmptySet
  <2>3. pools[p].drained \in Nat /\ pools[p].lost \in Nat /\ Len(pools[p].conns) \in Nat
    BY <1>1, Elements, LenProperties DEF CInv, PoolState
  <2>4. /\ Len(pools[p].conns) + Cardinality(Holders(p)) + pools[p].drained + pools[p].lost
             = Capacity
        /\ ~pools[p].open => Holders(p) = {}
    BY <1>1 DEF CInv, ConnsAccounted
  <2>5. pools[p].open
    BY <2>1, <2>4
  <2>6. Len(pools[p].conns) < Capacity
    <3> HIDE DEF p
    <3> QED BY <2>2, <2>3, <2>4
  <2> QED BY <2>5, <2>6
<1>4. /\ pools' = [pools EXCEPT ![p].conns = Append(@, c)]
      /\ IF handler[h].check
           THEN handler' = [handler EXCEPT ![h].pc = "lock", ![h].pool = 0, ![h].conn = "nil"]
           ELSE Ends(h)
  BY <1>3 DEF ReleaseConn
<1>5. CASE handler[h].check
  <2> DEFINE r == [handler[h] EXCEPT !.pc = "lock", !.pool = 0, !.conn = "nil"]
  <2>1. handler' = [handler EXCEPT ![h] = r]
    BY <1>4, <1>5, Zenon
  <2>2. /\ r \in HandlerState /\ r.pc = "lock"
        /\ r.server = handler[h].server /\ r.set = handler[h].set
    BY <1>1, Zenon DEF HandlerState, Conn
  <2> HIDE DEF r, c
  <2>3. Placed(r)
    BY <1>1, <2>2 DEF Placed
  <2> QED BY <1>1, <1>2, <1>4, <2>1, <2>2, <2>3, PutStep, Zenon
<1>6. CASE ~handler[h].check
  <2>1. handler' = [handler EXCEPT ![h] = Idle] /\ Idle.pc = "idle"
    BY <1>4, <1>6 DEF Ends, Idle
  <2> HIDE DEF c
  <2> QED BY <1>1, <1>2, <1>4, <2>1, IdleTypes, PutStep, Zenon
<1> QED BY <1>5, <1>6

-----------------------------------------------------------------------------
(* The steps of the ticker.                                                *)

\* What becomes of pool p leaves as many wrappers to it and to Close.
Drains(p, q) ==
  /\ q.lost = pools[p].lost
  /\ Len(q.conns) + q.drained = Len(pools[p].conns) + pools[p].drained
  /\ ~q.open => q.drained = Capacity
  /\ \A j \in DOMAIN q.conns : q.conns[j] # "closed"

(* One pool changes, and as many wrappers go to Close as leave the channel. *)
LEMMA PoolDrains ==
  ASSUME CInv, NEW p \in DOMAIN pools, NEW q \in PoolState,
         pools' = [pools EXCEPT ![p] = q], UNCHANGED handler, Drains(p, q)
  PROVE  ConnsAccounted' /\ ClosedDrained'
<1>1. /\ DOMAIN pools' = DOMAIN pools
      /\ \A o \in DOMAIN pools : pools'[o] = IF o = p THEN q ELSE pools[o]
  BY OnePool DEF CInv, Types
<1>2. \A o : Holders(o)' = Holders(o)
  BY DEF Holders
<1> DEFINE n == Len(pools[p].conns)
           m == Len(q.conns)
           l == pools[p].lost
           d == pools[p].drained
           e == q.drained
           c == Cardinality(Holders(p))
<1>3. /\ n \in Nat /\ m \in Nat /\ l \in Nat /\ d \in Nat /\ e \in Nat /\ c \in Nat
      /\ Capacity \in Nat
  BY Elements, LenProperties, HoldersFinite, ConnPoolAssumption DEF CInv, PoolState
<1>4. n + c + d + l = Capacity /\ m + e = n + d
  BY DEF CInv, ConnsAccounted, Drains
<1>5. m + c + e + l = Capacity /\ (e = Capacity => c = 0)
  <2> HIDE DEF n, m, l, d, e, c
  <2> QED BY <1>3, <1>4
<1>6. c = 0 => Holders(p) = {}
  BY HoldersFinite, FS_EmptySet
<1>7. ASSUME NEW o \in DOMAIN pools
      PROVE  /\ Len(pools'[o].conns) + Cardinality(Holders(o))
                  + pools'[o].drained + pools'[o].lost = Capacity
             /\ ~pools'[o].open => Holders(o) = {} /\ pools'[o].drained = Capacity
             /\ \A i \in DOMAIN pools'[o].conns : pools'[o].conns[i] # "closed"
  <2>1. CASE o = p
    <3>1. pools'[o] = q
      BY <1>1, <2>1
    <3> QED BY <1>5, <1>6, <2>1, <3>1, Zenon DEF Drains
  <2>2. CASE o # p
    <3>1. pools'[o] = pools[o]
      BY <1>1, <2>2
    <3> QED BY <3>1 DEF CInv, ConnsAccounted, ClosedDrained
  <2> QED BY <2>1, <2>2
<1> QED BY <1>1, <1>2, <1>7 DEF ConnsAccounted, ClosedDrained

(* What the ticker does with the pools it closes keeps the others.          *)
LEMMA CloseKeeps ==
  ASSUME CInv, ticker.pc = "close", NEW q \in PoolState,
         pools' = [pools EXCEPT ![ticker.pool] = q],
         UNCHANGED <<chunkServerGroups, connectionPools, sets, handler>>,
         q.open = pools[ticker.pool].open \/ ticker'.pool = 0,
         ConnsAccounted', ClosedDrained', ticker' \in TickerState, Closing',
         ticker'.del = ticker.del, ticker'.pool \in {ticker.pool, 0},
         ticker'.del # {} => ticker'.set = ticker.set
  PROVE  CInv'
<1>1. ticker.pool \in DOMAIN pools
  BY DEF CInv, Closing
<1>2. /\ pools' \in Seq(PoolState)
      /\ Len(pools') = Len(pools) /\ DOMAIN pools' = DOMAIN pools
      /\ \A o \in DOMAIN pools : pools'[o] = IF o = ticker.pool THEN q ELSE pools[o]
  BY <1>1, OnePool DEF CInv, Types
<1>3. Types'
  BY <1>2 DEF CInv, Types
<1>4. Requests' /\ PoolsMade'
  BY <1>2 DEF CInv, Requests, Placed, PoolsMade
<1>5. connectionPools # 0 => connectionPools \in DOMAIN sets
  BY Elements DEF CInv, Types
<1>6. \A s \in Servers :
        connectionPools # 0 /\ PoolOf(s) # 0
          => PoolOf(s) \in DOMAIN pools /\ PoolOf(s) # ticker.pool
  <2>1. \A s \in Servers : connectionPools # 0 => PoolOf(s) \in Nat /\ PoolOf(s) <= Len(pools)
    BY <1>5, Elements DEF CInv, PoolsMade, PoolOf, SetState
  <2>2. \A s \in Servers : connectionPools # 0 /\ PoolOf(s) # 0 => PoolOf(s) \in DOMAIN pools
    BY <2>1, Elements DEF CInv
  <2> QED BY <2>2 DEF CInv, InUse
<1>7. \A s \in Servers : PoolOf(s)' = PoolOf(s)
  BY DEF PoolOf
<1>8. InUse'
  <2> SUFFICES ASSUME connectionPools # 0, NEW s \in Servers, PoolOf(s) # 0
               PROVE  /\ \A t \in Servers : PoolOf(t) = PoolOf(s) => t = s
                      /\ pools'[PoolOf(s)].open
                      /\ PoolOf(s) # ticker'.pool
                      /\ \A t \in ticker'.del : sets[ticker'.set].Pools[t] # PoolOf(s)
    BY <1>7 DEF InUse
  <2>1. /\ \A t \in Servers : PoolOf(t) = PoolOf(s) => t = s
        /\ pools[PoolOf(s)].open
        /\ \A t \in ticker.del : sets[ticker.set].Pools[t] # PoolOf(s)
    BY DEF CInv, InUse
  <2>2. pools'[PoolOf(s)] = pools[PoolOf(s)]
    BY <1>2, <1>6
  <2> QED BY <1>6, <2>1, <2>2
<1>9. Served'
  BY <1>7 DEF CInv, Served
<1> QED BY <1>3, <1>4, <1>8, <1>9 DEF CInv

(* SetCapacity.                                                             *)
LEMMA SetCapacityKeeps ==
  ASSUME CInv, SetCapacity
  PROVE  CInv'
<1> DEFINE p == ticker.pool
           w == pools[p]
<1>1. /\ ticker.pc = "close" /\ p \in DOMAIN pools /\ w \in PoolState
      /\ UNCHANGED <<chunkServerGroups, connectionPools, sets, handler>>
      /\ ticker \in TickerState
  BY Elements DEF CInv, Types, Closing, SetCapacity
<1>2. \A j \in DOMAIN w.conns : w.conns[j] # "closed"
  BY <1>1 DEF CInv, ConnsAccounted
<1>3. CASE /\ w.drained < Capacity /\ w.conns # <<>>
           /\ pools' = [pools EXCEPT ![p].conns = Tail(@), ![p].drained = @ + 1]
           /\ UNCHANGED ticker
  <2> DEFINE q == [w EXCEPT !.conns = Tail(@), !.drained = @ + 1]
  <2>1. w.conns \in Seq(Conn) /\ w.drained \in Nat /\ w.drained # Capacity
    <3>1. w.conns \in Seq(Conn) /\ w.drained \in Nat
      BY <1>1 DEF PoolState
    <3> HIDE DEF w
    <3> QED BY <1>3, <3>1, ConnPoolAssumption
  <2>2. /\ Tail(w.conns) \in Seq(Conn)
        /\ Len(Tail(w.conns)) = Len(w.conns) - 1 /\ Len(w.conns) \in Nat
        /\ \A j \in 1..Len(Tail(w.conns)) : Tail(w.conns)[j] = w.conns[j + 1]
        /\ DOMAIN Tail(w.conns) = 1..Len(Tail(w.conns)) /\ DOMAIN w.conns = 1..Len(w.conns)
    BY <1>3, <2>1, HeadTailProperties, LenProperties
  <2>3. \A j \in DOMAIN Tail(w.conns) : Tail(w.conns)[j] # "closed"
    <3> HIDE DEF w
    <3> QED BY <1>2, <2>2
  <2>4. pools' = [pools EXCEPT ![p] = q]
    BY <1>3, Zenon
  <2>5. /\ q \in PoolState /\ q.conns = Tail(w.conns) /\ q.drained = w.drained + 1
        /\ q.lost = w.lost /\ q.open = w.open
    <3> DEFINE t == Tail(w.conns)
               d == w.drained + 1
    <3>1. t \in Seq(Conn) /\ d \in Nat
      BY <2>1, <2>2
    <3>2. q = [w EXCEPT !.conns = t, !.drained = d]
      OBVIOUS
    <3> HIDE DEF w, t, d, q
    <3>3. /\ q \in PoolState /\ q.conns = t /\ q.drained = d
          /\ q.lost = w.lost /\ q.open = w.open
      BY <1>1, <3>1, <3>2, Zenon DEF PoolState
    <3> QED BY <3>3 DEF t, d
  <2> HIDE DEF q
  <2>6. Len(q.conns) + q.drained = Len(w.conns) + w.drained
    <3> HIDE DEF w
    <3> QED BY <2>1, <2>2, <2>5
  <2>7. w.open
    BY <1>1, <2>1 DEF CInv, ClosedDrained
  <2>8. ConnsAccounted' /\ ClosedDrained'
    <3>1. \A j \in DOMAIN q.conns : q.conns[j] # "closed"
      BY <2>3, <2>5
    <3> QED BY <1>1, <2>4, <2>5, <2>6, <2>7, <3>1, PoolDrains, Zenon DEF Drains
  <2>9. Closing'
    <3>1. DOMAIN pools' = DOMAIN pools
      BY <1>1, <2>4, <2>5, OnePool DEF CInv, Types
    <3> QED BY <1>1, <1>3, <3>1 DEF CInv, Closing
  <2> QED BY <1>1, <1>3, <2>4, <2>5, <2>8, <2>9, CloseKeeps, Zenon
<1>4. CASE w.drained = Capacity /\ Closed(p) /\ NextPool
  <2> DEFINE q == [w EXCEPT !.open = FALSE]
  <2>1. pools' = [pools EXCEPT ![p] = q]
    BY <1>4 DEF Closed
  <2>2. /\ q \in PoolState /\ q.conns = w.conns /\ q.drained = w.drained
        /\ q.lost = w.lost
    BY <1>1, Zenon DEF PoolState
  <2> HIDE DEF q
  <2>3. ConnsAccounted' /\ ClosedDrained'
    <3>1. /\ Len(q.conns) + q.drained = Len(w.conns) + w.drained /\ q.drained = Capacity
          /\ \A j \in DOMAIN q.conns : q.conns[j] # "closed"
      BY <1>2, <1>4, <2>2
    <3> QED BY <1>1, <2>1, <2>2, <3>1, PoolDrains, Zenon DEF Drains
  <2>4. /\ ticker' \in TickerState /\ ticker'.pool = 0 /\ ticker'.del = ticker.del
        /\ ticker'.pc \in {"idle", "remove"}
        /\ ticker'.pc = "idle" <=> ticker.del = {}
        /\ ticker'.pc # "idle" => ticker'.set = ticker.set
    BY <1>1, <1>4, Zenon DEF NextPool, TickerState
  <2>5. Closing'
    BY <1>1, <2>4 DEF CInv, Closing
  <2> QED BY <1>1, <2>1, <2>2, <2>3, <2>4, <2>5, CloseKeeps, Zenon
<1> QED BY <1>3, <1>4 DEF SetCapacity

(* RemoveAndClosePool.                                                      *)
LEMMA RemoveAndClosePoolKeeps ==
  ASSUME CInv, RemoveAndClosePool
  PROVE  CInv'
<1> DEFINE i == ticker.set
<1>1. PICK s \in ticker.del :
        /\ sets' = [sets EXCEPT ![i].Pools[s] = 0]
        /\ ticker' = [ticker EXCEPT !.pc = "close", !.del = @ \ {s},
                                    !.pool = sets[i].Pools[s]]
  BY Zenon DEF RemoveAndClosePool
<1>2. /\ ticker.pc = "remove" /\ ticker \in TickerState /\ s \in Servers
      /\ i \in DOMAIN sets /\ i # connectionPools /\ sets[i] \in SetState
      /\ UNCHANGED <<chunkServerGroups, connectionPools, pools, handler>>
  BY Elements DEF CInv, Types, TickerState, Closing, RemoveAndClosePool
<1> DEFINE q == sets[i].Pools[s]
           r == [sets[i] EXCEPT !.Pools[s] = 0]
<1>3. q \in DOMAIN pools /\ q \in Nat
  <2>1. q \in Nat /\ q # 0 /\ q <= Len(pools)
    BY <1>1, <1>2 DEF CInv, Closing, PoolsMade, SetState
  <2> HIDE DEF q
  <2> QED BY <2>1, Elements DEF CInv
<1>4. /\ r \in SetState
      /\ \A t \in Servers : r.Pools[t] = IF t = s THEN 0 ELSE sets[i].Pools[t]
  BY <1>2 DEF SetState
<1>5. /\ sets' \in Seq(SetState)
      /\ Len(sets') = Len(sets) /\ DOMAIN sets' = DOMAIN sets
      /\ \A j \in DOMAIN sets : sets'[j] = IF j = i THEN r ELSE sets[j]
  <2>1. sets' = [sets EXCEPT ![i] = r]
    BY <1>1
  <2> HIDE DEF r
  <2> QED BY <1>2, <1>4, <2>1, OneSet DEF CInv, Types
<1> HIDE DEF r
<1>6. /\ ticker' \in TickerState /\ ticker'.pc = "close" /\ ticker'.pool = q
      /\ ticker'.del = ticker.del \ {s} /\ ticker'.set = i
  <2> HIDE DEF q
  <2>1. ticker' = [ticker EXCEPT !.pc = "close", !.del = @ \ {s}, !.pool = q]
    BY <1>1 DEF q
  <2> QED BY <1>2, <1>3, <2>1, Zenon DEF TickerState
<1>7. Types'
  BY <1>2, <1>5, <1>6 DEF CInv, Types
<1>8. Requests'
  BY <1>2, <1>5 DEF CInv, Requests, Placed
<1>9. PoolsMade'
  <2> SUFFICES ASSUME NEW j \in DOMAIN sets, NEW t \in Servers
               PROVE  sets'[j].Pools[t] <= Len(pools)
    BY <1>2, <1>5 DEF PoolsMade
  <2>1. sets[j].Pools[t] <= Len(pools) /\ 0 <= Len(pools)
    BY Elements DEF CInv, PoolsMade
  <2> QED BY <1>4, <1>5, <2>1
<1>10. ConnsAccounted' /\ ClosedDrained'
  BY <1>2, Zenon DEF CInv, ConnsAccounted, ClosedDrained, Holders
<1>11. connectionPools # 0 => \A t \in Servers : PoolOf(t)' = PoolOf(t)
  <2>1. connectionPools # 0 => connectionPools \in DOMAIN sets
    BY Elements DEF CInv, Types
  <2> QED BY <1>2, <1>5, <2>1 DEF PoolOf
<1>12. InUse'
  <2> SUFFICES ASSUME connectionPools # 0, NEW t \in Servers, PoolOf(t) # 0
               PROVE  /\ \A u \in Servers : PoolOf(u) = PoolOf(t) => u = t
                      /\ pools[PoolOf(t)].open
                      /\ PoolOf(t) # q
                      /\ \A u \in ticker.del \ {s} : sets'[i].Pools[u] # PoolOf(t)
    BY <1>2, <1>6, <1>11 DEF InUse
  <2>1. /\ \A u \in Servers : PoolOf(u) = PoolOf(t) => u = t
        /\ pools[PoolOf(t)].open
        /\ \A u \in ticker.del : sets[i].Pools[u] # PoolOf(t)
    BY DEF CInv, InUse
  <2>2. \A u \in ticker.del \ {s} : sets'[i].Pools[u] = sets[i].Pools[u]
    BY <1>2, <1>4, <1>5 DEF TickerState
  <2> QED BY <1>1, <2>1, <2>2
<1>13. Served'
  BY <1>2, <1>11 DEF CInv, Served
<1>14. Closing'
  <2>1. \A u \in ticker.del \ {s} : sets'[i].Pools[u] # 0
    BY <1>2, <1>4, <1>5 DEF CInv, Closing, TickerState
  <2> QED BY <1>2, <1>3, <1>5, <1>6, <2>1 DEF Closing
<1> QED BY <1>7, <1>8, <1>9, <1>10, <1>12, <1>13, <1>14 DEF CInv

(* AddPool gives every added server without a pool a number of its own.     *)
LEMMA AddPoolNumbers ==
  ASSUME NEW Pools \in [Servers -> Nat], NEW add \in SUBSET Servers, Len(pools) \in Nat
  PROVE  LET new == AddPool(Pools, add)
             fresh == {s \in add : Pools[s] = 0}
         IN /\ new.fresh \in Nat /\ new.Pools \in [Servers -> Nat]
            /\ \A s \in fresh :
                 /\ new.Pools[s] > Len(pools) /\ new.Pools[s] <= Len(pools) + new.fresh
                 /\ \A t \in fresh : new.Pools[t] = new.Pools[s] => t = s
            /\ \A s \in Servers \ fresh : new.Pools[s] = Pools[s]
<1> DEFINE fresh == {s \in add : Pools[s] = 0}
           n == Cardinality(fresh)
           number == CHOOSE f \in Injection(fresh, 1..n) : TRUE
           new == AddPool(Pools, add)
<1>1. IsFiniteSet(fresh) /\ n \in Nat /\ fresh \subseteq Servers
  BY ConnPoolAssumption, FS_Subset, FS_CardinalityType
<1>2. number \in [fresh -> 1..n] /\ \A s, t \in fresh : number[s] = number[t] => s = t
  <2> HIDE DEF fresh
  <2>1. IsFiniteSet(1..n) /\ Cardinality(1..n) = n
    BY <1>1, FS_Interval
  <2>2. ExistsBijection(fresh, 1..n)
    BY <1>1, <2>1, FS_SameCardinalityBij
  <2>3. \E f : f \in Injection(fresh, 1..n)
    BY <2>2 DEF ExistsBijection, Bijection
  <2>4. number \in Injection(fresh, 1..n)
    BY <2>3
  <2> QED BY <2>4, Zenon DEF Injection, IsInjective
<1>3. /\ new.fresh = n
      /\ new.Pools = [s \in Servers |-> IF s \in fresh THEN Len(pools) + number[s] ELSE Pools[s]]
  BY DEF AddPool
<1> HIDE DEF n, number, new
<1>4. \A s \in Servers :
        new.Pools[s] = IF s \in fresh THEN Len(pools) + number[s] ELSE Pools[s]
  BY <1>3
<1>5. \A s \in fresh : number[s] \in Nat /\ number[s] >= 1 /\ number[s] <= n
  BY <1>1, <1>2
<1>6. new.Pools \in [Servers -> Nat]
  <2>1. \A s \in Servers : (IF s \in fresh THEN Len(pools) + number[s] ELSE Pools[s]) \in Nat
    BY <1>5
  <2> QED BY <1>3, <2>1
<1>7. \A s \in fresh : new.Pools[s] = Len(pools) + number[s]
  BY <1>1, <1>4
<1>8. \A s \in Servers \ fresh : new.Pools[s] = Pools[s]
  BY <1>4
<1> HIDE DEF fresh
<1>9. \A s \in fresh :
        /\ new.Pools[s] > Len(pools) /\ new.Pools[s] <= Len(pools) + new.fresh
        /\ \A t \in fresh : new.Pools[t] = new.Pools[s] => t = s
  BY <1>1, <1>2, <1>3, <1>5, <1>7
<1> QED BY <1>1, <1>3, <1>6, <1>8, <1>9, Zenon DEF fresh, new

(* A new pool has Capacity wrappers, all without a connection.              *)
LEMMA NewPool ==
  /\ NewConnectionPool \in PoolState
  /\ NewConnectionPool.open /\ NewConnectionPool.drained = 0 /\ NewConnectionPool.lost = 0
  /\ Len(NewConnectionPool.conns) = Capacity
  /\ \A i \in DOMAIN NewConnectionPool.conns : NewConnectionPool.conns[i] # "closed"
<1> DEFINE c == [i \in 1..Capacity |-> "nil"]
<1>1. Capacity \in Nat
  BY ConnPoolAssumption
<1>2. c \in [1..Capacity -> Conn]
  BY DEF Conn
<1>3. c \in Seq(Conn) /\ Len(c) = Capacity /\ \A i \in DOMAIN c : c[i] # "closed"
  <2>1. c \in Seq(Conn)
    BY <1>1, <1>2, SeqDef
  <2>2. DOMAIN c = 1..Capacity
    OBVIOUS
  <2>3. Len(c) = Capacity
    BY <1>1, <2>1, <2>2, LenProperties
  <2> QED BY <2>1, <2>3, Zenon
<1> HIDE DEF c
<1>4. NewConnectionPool = [open |-> TRUE, conns |-> c, drained |-> 0, lost |-> 0]
  BY DEF NewConnectionPool, c
<1> QED BY <1>3, <1>4 DEF PoolState

(* New pools come after those there are.                                    *)
LEMMA PoolsGrow ==
  ASSUME pools \in Seq(PoolState), NEW n \in Nat,
         pools' = pools \o [i \in 1..n |-> NewConnectionPool]
  PROVE  /\ pools' \in Seq(PoolState)
         /\ Len(pools) \in Nat /\ Len(pools') = Len(pools) + n
         /\ DOMAIN pools = 1..Len(pools) /\ DOMAIN pools' = 1..(Len(pools) + n)
         /\ \A p \in DOMAIN pools' :
              pools'[p] = IF p \in DOMAIN pools THEN pools[p] ELSE NewConnectionPool
<1> DEFINE e == [i \in 1..n |-> NewConnectionPool]
<1>1. e \in Seq(PoolState) /\ Len(e) = n /\ \A i \in 1..n : e[i] = NewConnectionPool
  <2>1. e \in [1..n -> PoolState] /\ DOMAIN e = 1..n
    BY NewPool
  <2>2. e \in Seq(PoolState)
    BY <2>1, SeqDef, Zenon
  <2> QED BY <2>1, <2>2, LenProperties
<1>2. pools' = pools \o e
  OBVIOUS
<1> HIDE DEF e
<1>3. /\ pools' \in Seq(PoolState) /\ Len(pools') = Len(pools) + n
      /\ \A p \in 1..(Len(pools) + n) :
           pools'[p] = IF p <= Len(pools) THEN pools[p] ELSE e[p - Len(pools)]
  BY <1>1, <1>2, ConcatProperties
<1>4. /\ Len(pools) \in Nat /\ DOMAIN pools = 1..Len(pools)
      /\ DOMAIN pools' = 1..(Len(pools) + n)
  BY <1>3, LenProperties
<1>5. ASSUME NEW p \in 1..(Len(pools) + n)
      PROVE  pools'[p] = IF p \in 1..Len(pools) THEN pools[p] ELSE NewConnectionPool
  <2>1. CASE p <= Len(pools)
    BY <1>3, <1>4, <2>1
  <2>2. CASE p > Len(pools)
    <3>1. p - Len(pools) \in 1..n /\ ~(p <= Len(pools))
      BY <1>4, <2>2
    <3> QED BY <1>1, <1>3, <1>4, <3>1
  <2> QED BY <1>4, <2>1, <2>2
<1> QED BY <1>3, <1>4, <1>5

(* The wrappers of a new pool are in it, and of the others nothing changes. *)
LEMMA NewPoolsKeep ==
  ASSUME CInv, NEW n \in Nat, pools' = pools \o [i \in 1..n |-> NewConnectionPool],
         UNCHANGED handler
  PROVE  ConnsAccounted' /\ ClosedDrained'
<1>1. /\ DOMAIN pools' = 1..(Len(pools) + n)
      /\ \A p \in DOMAIN pools' :
           pools'[p] = IF p \in DOMAIN pools THEN pools[p] ELSE NewConnectionPool
  BY PoolsGrow DEF CInv, Types
<1>2. \A p : Holders(p)' = Holders(p)
  BY DEF Holders
<1>3. ASSUME NEW p, p \notin DOMAIN pools PROVE Holders(p) = {}
  BY <1>3 DEF CInv, Requests, Placed, Holders
<1>4. ASSUME NEW p \in DOMAIN pools'
      PROVE  /\ Len(pools'[p].conns) + Cardinality(Holders(p))
                  + pools'[p].drained + pools'[p].lost = Capacity
             /\ ~pools'[p].open => Holders(p) = {} /\ pools'[p].drained = Capacity
             /\ \A i \in DOMAIN pools'[p].conns : pools'[p].conns[i] # "closed"
  <2>1. CASE p \in DOMAIN pools
    <3>1. pools'[p] = pools[p]
      BY <1>1, <2>1
    <3> QED BY <2>1, <3>1 DEF CInv, ConnsAccounted, ClosedDrained
  <2>2. CASE p \notin DOMAIN pools
    <3>1. pools'[p] = NewConnectionPool
      BY <1>1, <2>2
    <3>2. Cardinality(Holders(p)) = 0 /\ Holders(p) = {}
      BY <1>3, <2>2, FS_EmptySet
    <3>3. Capacity + 0 + 0 + 0 = Capacity
      BY ConnPoolAssumption
    <3> QED BY <3>1, <3>2, <3>3, NewPool
  <2> QED BY <2>1, <2>2
<1> QED BY <1>2, <1>4, Zenon DEF ConnsAccounted, ClosedDrained

(* handleChunkServerInfo.                                                   *)
LEMMA handleChunkServerInfoKeeps ==
  ASSUME CInv, handleChunkServerInfo
  PROVE  CInv'
<1> USE DEF CInv
<1>1. PICK infos \in Infos :
        LET del == infoDiff(chunkServerGroups, infos)
            add == infoDiff(infos, chunkServerGroups)
            new == AddPool(RemovePool(AddExistPool(connectionPools), del), add)
        IN /\ chunkServerGroups' = infos
           /\ IF del = {} /\ add = {}
                THEN UNCHANGED <<connectionPools, sets, pools, ticker>>
                ELSE /\ Len(sets) < MaxSets
                     /\ sets' = Append(sets, [Pools |-> new.Pools, mu |-> NoOne])
                     /\ connectionPools' = Len(sets) + 1
                     /\ pools' = pools \o [i \in 1..new.fresh |-> NewConnectionPool]
                     /\ ticker' = IF connectionPools = 0 \/ del = {} THEN ticker
                                  ELSE [pc |-> "remove", del |-> del,
                                        set |-> connectionPools, pool |-> 0]
  BY Zenon DEF handleChunkServerInfo
<1> DEFINE del == infoDiff(chunkServerGroups, infos)
           add == infoDiff(infos, chunkServerGroups)
           old == AddExistPool(connectionPools)
           kept == RemovePool(old, del)
           fresh == {s \in add : kept[s] = 0}
           new == AddPool(kept, add)
<1>2. /\ infos \in [Servers -> GroupIds \cup {NoGroup}] /\ UNCHANGED handler
      /\ ticker.pc = "idle" /\ ticker.pool = 0 /\ ticker.del = {} /\ ticker \in TickerState
  BY ConnPoolAssumption DEF handleChunkServerInfo, Closing, Types
<1>3. /\ del \in SUBSET Servers /\ add \in SUBSET Servers
      /\ \A s \in Servers :
           /\ s \in del <=> chunkServerGroups[s] # NoGroup /\ chunkServerGroups[s] # infos[s]
           /\ s \in add <=> infos[s] # NoGroup /\ infos[s] # chunkServerGroups[s]
  BY DEF infoDiff
<1>4. CASE del = {} /\ add = {}
  <2>1. chunkServerGroups' = infos /\ UNCHANGED <<connectionPools, sets, pools, ticker, handler>>
    BY <1>1, <1>2, <1>4
  <2>2. \A s \in Servers : infos[s] # NoGroup => chunkServerGroups[s] # NoGroup
    BY <1>3, <1>4
  <2>3. Types' /\ Requests' /\ PoolsMade'
    BY <1>2, <2>1 DEF Types, Requests, Placed, PoolsMade
  <2>4. ConnsAccounted' /\ ClosedDrained'
    BY <2>1 DEF ConnsAccounted, ClosedDrained, Holders
  <2>5. InUse' /\ Closing'
    BY <2>1 DEF InUse, Closing, PoolOf
  <2>6. Served'
    BY <2>1, <2>2 DEF Served, PoolOf
  <2> QED BY <2>3, <2>4, <2>5, <2>6
<1>5. CASE ~(del = {} /\ add = {})
  <2> DEFINE r == [Pools |-> new.Pools, mu |-> NoOne]
  <2>1. /\ chunkServerGroups' = infos
        /\ sets' = Append(sets, r)
        /\ connectionPools' = Len(sets) + 1
        /\ pools' = pools \o [i \in 1..new.fresh |-> NewConnectionPool]
        /\ ticker' = IF connectionPools = 0 \/ del = {} THEN ticker
                     ELSE [pc |-> "remove", del |-> del, set |-> connectionPools, pool |-> 0]
    BY <1>1, <1>5, Zenon
  <2>2. /\ Len(pools) \in Nat /\ DOMAIN pools = 1..Len(pools)
        /\ Len(sets) \in Nat /\ DOMAIN sets = 1..Len(sets)
        /\ connectionPools = Len(sets)
        /\ connectionPools # 0 => connectionPools \in DOMAIN sets
    BY Elements DEF Types
  <2>3. /\ old \in [Servers -> Nat]
        /\ \A s \in Servers : /\ old[s] <= Len(pools)
                              /\ connectionPools = 0 => old[s] = 0
                              /\ connectionPools # 0 => old[s] = PoolOf(s)
    <3>1. CASE connectionPools = 0
      BY <2>2, <3>1 DEF AddExistPool
    <3>2. CASE connectionPools # 0
      <4>1. old = sets[connectionPools].Pools
        BY <3>2 DEF AddExistPool
      <4> QED BY <2>2, <3>2, <4>1, Elements DEF SetState, PoolsMade, PoolOf
    <3> QED BY <3>1, <3>2
  <2>4. /\ kept \in [Servers -> Nat]
        /\ \A s \in Servers : kept[s] = IF s \in del THEN 0 ELSE old[s]
    <3> HIDE DEF old, del
    <3> QED BY <2>3 DEF RemovePool
  <2> HIDE DEF old, del, add, kept
  <2>5. /\ new.fresh \in Nat /\ new.Pools \in [Servers -> Nat]
        /\ \A s \in fresh :
             /\ new.Pools[s] > Len(pools) /\ new.Pools[s] <= Len(pools) + new.fresh
             /\ \A t \in fresh : new.Pools[t] = new.Pools[s] => t = s
        /\ \A s \in Servers \ fresh : new.Pools[s] = kept[s]
    BY <1>3, <2>2, <2>4, AddPoolNumbers
  <2>6. /\ fresh \subseteq Servers
        /\ \A s \in Servers : s \in fresh <=> s \in add /\ kept[s] = 0
    BY <1>3
  <2> HIDE DEF new, fresh
  <2>7. /\ pools' \in Seq(PoolState) /\ Len(pools') = Len(pools) + new.fresh
        /\ DOMAIN pools' = 1..(Len(pools) + new.fresh)
        /\ \A p \in DOMAIN pools' :
             pools'[p] = IF p \in DOMAIN pools THEN pools[p] ELSE NewConnectionPool
    BY <2>1, <2>5, PoolsGrow, Zenon DEF Types
  <2>8. r \in SetState /\ r.Pools = new.Pools
    BY <2>5 DEF SetState
  <2> HIDE DEF r
  <2>9. /\ sets' \in Seq(SetState) /\ Len(sets') = Len(sets) + 1
        /\ DOMAIN sets' = 1..(Len(sets) + 1)
        /\ \A i \in DOMAIN sets : sets'[i] = sets[i]
        /\ sets'[Len(sets) + 1] = r
    BY <2>1, <2>2, <2>8, AppendProperties, LenProperties DEF Types
  <2>10. /\ ticker' \in TickerState /\ ticker'.pool = 0
         /\ \/ ticker' = ticker
            \/ /\ ticker'.pc = "remove" /\ ticker'.del = del
               /\ ticker'.set = connectionPools /\ connectionPools # 0
    BY <1>2, <1>3, <2>1, <2>2 DEF TickerState
  <2>11. Types'
    BY <1>2, <2>1, <2>7, <2>9, <2>10 DEF Types
  <2>12. Requests'
    <3>1. DOMAIN pools \subseteq DOMAIN pools' /\ DOMAIN sets \subseteq DOMAIN sets'
      BY <2>2, <2>5, <2>7, <2>9
    <3> QED BY <1>2, <3>1 DEF Requests, Placed
  <2>13. \A s \in Servers :
           /\ PoolOf(s)' = new.Pools[s]
           /\ s \in fresh => /\ PoolOf(s)' \in Nat
                             /\ PoolOf(s)' > Len(pools) /\ PoolOf(s)' <= Len(pools')
           /\ s \notin fresh => /\ PoolOf(s)' = kept[s]
                                /\ PoolOf(s)' \in Nat /\ PoolOf(s)' <= Len(pools)
    <3>1. \A s \in Servers : PoolOf(s)' = new.Pools[s]
      BY <2>1, <2>8, <2>9 DEF PoolOf
    <3>2. \A s \in Servers : kept[s] \in Nat /\ kept[s] <= Len(pools)
      BY <2>2, <2>3, <2>4
    <3> QED BY <2>5, <2>7, <3>1, <3>2
  <2>14. PoolsMade'
    <3> SUFFICES ASSUME NEW i \in DOMAIN sets', NEW s \in Servers
                 PROVE  sets'[i].Pools[s] <= Len(pools')
      BY DEF PoolsMade
    <3>1. CASE i \in DOMAIN sets
      <4>1. sets'[i].Pools[s] = sets[i].Pools[s] /\ sets[i].Pools[s] <= Len(pools)
        BY <2>9, <3>1 DEF PoolsMade
      <4>2. sets[i].Pools[s] \in Nat
        BY <3>1, Elements DEF SetState
      <4> QED BY <2>2, <2>5, <2>7, <4>1, <4>2
    <3>2. CASE i = Len(sets) + 1
      <4>1. sets'[i].Pools[s] = PoolOf(s)'
        BY <2>1, <3>2 DEF PoolOf
      <4>2. PoolOf(s)' <= Len(pools')
        BY <2>2, <2>5, <2>7, <2>13
      <4> QED BY <4>1, <4>2
    <3> QED BY <2>2, <2>9, <3>1, <3>2
  <2>15. ConnsAccounted' /\ ClosedDrained'
    BY <1>2, <2>1, <2>5, NewPoolsKeep, Zenon
  <2>16. InUse'
    <3> SUFFICES ASSUME NEW s \in Servers, PoolOf(s)' # 0
                 PROVE  /\ \A t \in Servers : PoolOf(t)' = PoolOf(s)' => t = s
                        /\ pools'[PoolOf(s)'].open
                        /\ PoolOf(s)' # ticker'.pool
                        /\ \A t \in ticker'.del : sets'[ticker'.set].Pools[t] # PoolOf(s)'
      BY DEF InUse
    <3>1. PoolOf(s)' # ticker'.pool
      BY <2>10
    <3>2. ticker'.del # {} =>
            /\ connectionPools # 0 /\ ticker'.del = del
            /\ \A t \in ticker'.del : t \in Servers /\ sets'[ticker'.set].Pools[t] = PoolOf(t)
      BY <1>2, <1>3, <2>2, <2>9, <2>10 DEF PoolOf
    <3>3. CASE s \in fresh
      <4>1. PoolOf(s)' \in DOMAIN pools' /\ PoolOf(s)' \notin DOMAIN pools
        BY <2>2, <2>7, <2>13, <3>3
      <4>2. pools'[PoolOf(s)'].open
        BY <2>7, <4>1, NewPool
      <4>3. ASSUME NEW t \in Servers, PoolOf(t)' = PoolOf(s)' PROVE t = s
        <5>1. t \in fresh
          BY <2>2, <2>13, <3>3, <4>3
        <5> QED BY <2>5, <2>13, <3>3, <4>3, <5>1
      <4>4. ASSUME NEW t \in Servers, connectionPools # 0 PROVE PoolOf(t) # PoolOf(s)'
        <5>1. PoolOf(t) = old[t] /\ old[t] \in Nat /\ old[t] <= Len(pools)
          BY <2>3, <4>4
        <5> QED BY <2>2, <2>13, <3>3, <5>1
      <4> QED BY <3>1, <3>2, <4>2, <4>3, <4>4
    <3>4. CASE s \notin fresh
      <4>1. /\ PoolOf(s)' = kept[s] /\ s \notin del /\ connectionPools # 0
            /\ PoolOf(s)' = PoolOf(s)
        BY <2>3, <2>4, <2>13, <3>4
      <4>2. PoolOf(s)' \in DOMAIN pools /\ PoolOf(s)' \in DOMAIN pools'
        BY <2>2, <2>5, <2>7, <2>13, <3>4
      <4>3. pools'[PoolOf(s)'].open
        BY <2>7, <4>1, <4>2 DEF InUse
      <4>4. ASSUME NEW t \in Servers, PoolOf(t)' = PoolOf(s)' PROVE t = s
        <5>1. t \notin fresh
          BY <2>2, <2>13, <3>4, <4>4
        <5>2. PoolOf(t)' = PoolOf(t)
          BY <2>3, <2>4, <2>13, <4>1, <4>4, <5>1
        <5> QED BY <4>1, <4>4, <5>2, Zenon DEF InUse
      <4>5. ASSUME NEW t \in del, t \in Servers PROVE PoolOf(t) # PoolOf(s)'
        BY <4>1, <4>5 DEF InUse
      <4> QED BY <3>1, <3>2, <4>3, <4>4, <4>5
    <3> QED BY <3>3, <3>4
  <2>17. Served'
    <3> SUFFICES ASSUME NEW s \in Servers, infos[s] # NoGroup
                 PROVE  Len(sets) + 1 # 0 /\ PoolOf(s)' # 0
      BY <2>1 DEF Served
    <3>1. CASE s \in fresh
      BY <2>2, <2>13, <3>1
    <3>2. CASE s \notin fresh
      <4>1. CASE s \in add
        BY <2>2, <2>6, <2>13, <3>2, <4>1
      <4>2. CASE s \notin add
        <5>1. chunkServerGroups[s] = infos[s] /\ s \notin del
          BY <1>3, <4>2
        <5>2. connectionPools # 0 /\ PoolOf(s) # 0
          BY <5>1 DEF Served
        <5> QED BY <2>2, <2>3, <2>4, <2>13, <3>2, <5>1, <5>2
      <4> QED BY <4>1, <4>2
    <3> QED BY <3>1, <3>2
  <2>18. Closing'
    <3>1. CASE ticker' = ticker
      BY <1>2, <3>1 DEF Closing
    <3>2. CASE /\ ticker'.pc = "remove" /\ ticker'.del = del
               /\ ticker'.set = connectionPools /\ connectionPools # 0
      <4>1. \A s \in del : s \in Servers /\ PoolOf(s) # 0
        BY <1>3 DEF Served
      <4>2. \A s \in del : sets'[connectionPools].Pools[s] # 0
        BY <2>2, <2>9, <3>2, <4>1 DEF PoolOf
      <4>3. connectionPools \in DOMAIN sets' /\ connectionPools # connectionPools'
        <5>1. /\ connectionPools' = Len(sets) + 1 /\ DOMAIN sets' = 1..(Len(sets) + 1)
              /\ connectionPools = Len(sets) /\ Len(sets) \in Nat /\ connectionPools # 0
          BY <2>1, <2>2, <2>9, <3>2, Zenon
        <5> QED BY <5>1
      <4> QED BY <2>10, <3>2, <4>2, <4>3 DEF Closing
    <3> QED BY <2>10, <3>1, <3>2
  <2> QED BY <2>11, <2>12, <2>14, <2>15, <2>16, <2>17, <2>18
<1> QED BY <1>4, <1>5

-----------------------------------------------------------------------------
(* The theorems.                                                           *)

(* Nothing has been made at the start.                                      *)
LEMMA CInvInit == Init => CInv
<1> SUFFICES ASSUME Init PROVE CInv
  OBVIOUS
<1>1. /\ pools = <<>> /\ sets = <<>> /\ Len(pools) = 0 /\ Len(sets) = 0
      /\ DOMAIN pools = {} /\ DOMAIN sets = {} /\ connectionPools = 0
      /\ pools \in Seq(PoolState) /\ sets \in Seq(SetState)
  BY EmptySeq, LenProperties DEF Init
<1>2. handler \in [Handlers -> HandlerState] /\ \A h \in Handlers : handler[h] = Idle
  BY IdleTypes DEF Init
<1>3. /\ ticker \in TickerState /\ ticker.pc = "idle" /\ ticker.del = {} /\ ticker.pool = 0
      /\ chunkServerGroups \in [Servers -> GroupIds \cup {NoGroup}]
      /\ \A s \in Servers : chunkServerGroups[s] = NoGroup
  BY DEF Init, TickerState
<1>4. Types
  BY <1>1, <1>2, <1>3 DEF Types
<1>5. Requests
  BY <1>2, IdleTypes DEF Requests
<1>6. PoolsMade /\ ConnsAccounted /\ ClosedDrained
  BY <1>1 DEF PoolsMade, ConnsAccounted, ClosedDrained
<1>7. InUse /\ Served /\ Closing
  BY <1>1, <1>3 DEF InUse, Served, Closing
<1> QED BY <1>4, <1>5, <1>6, <1>7 DEF CInv

(* Every step keeps the invariant.                                          *)
LEMMA CInvNext == CInv /\ [Next]_vars => CInv'
<1> SUFFICES ASSUME CInv, [Next]_vars PROVE CInv'
  OBVIOUS
<1>1. ASSUME NEW h \in Handlers, Chooses(h) \/ Waits(h) \/ Goes(h) PROVE CInv'
  <2>1. \E r : RequestStep(h, r)
    BY <1>1, ChoosesStep, GetConnectionPoolsStep, GetConnStep, getStep, factoryStep,
       UsesConnStep, CheckConnPoolStep, ReleaseConnStep DEF Waits, Goes
  <2> QED BY <2>1, RequestKeeps
<1>2. CASE handleChunkServerInfo
  BY <1>2, handleChunkServerInfoKeeps
<1>3. CASE Closes
  BY <1>3, RemoveAndClosePoolKeeps, SetCapacityKeeps DEF Closes
<1>4. CASE UNCHANGED vars
  BY <1>4, Zenon DEF vars, CInv, Types, Requests, Placed, PoolsMade, ConnsAccounted, Holders,
              ClosedDrained, InUse, Served, Closing, PoolOf
<1> QED BY <1>1, <1>2, <1>3, <1>4 DEF Next

(* The invariant always holds.                                              *)
LEMMA CInvAlways == Spec => []CInv
BY CInvInit, CInvNext, PTL DEF Spec

(* No wrapper is lost or handed out twice (ResourcePool): those in the      *)
(* channel, those with requests, those that Close has taken and those that  *)
(* CheckConnPool has kept are always the Capacity the pool was made with;   *)
(* nobody holds one of a closed pool; no closed connection is handed out.   *)
THEOREM ConnsAccountedAlways == Spec => []ConnsAccounted
<1>1. CInv => ConnsAccounted
  BY DEF CInv
<1> QED BY <1>1, CInvAlways, PTL

(* Every server of the groups has an open pool of its own in the set in     *)
(* use, which the ticker is not closing (handleChunkServerInfo).            *)
THEOREM PoolPerServerAlways == Spec => []PoolPerServer
<1>1. ASSUME CInv PROVE PoolPerServer
  <2> SUFFICES ASSUME NEW s \in Servers, chunkServerGroups[s] # NoGroup
               PROVE  /\ connectionPools # 0 /\ PoolOf(s) # 0 /\ pools[PoolOf(s)].open
                      /\ PoolOf(s) # ticker.pool
                      /\ \A t \in Servers \ {s} : PoolOf(t) # PoolOf(s)
    BY DEF PoolPerServer, PoolOf
  <2>1. connectionPools # 0 /\ PoolOf(s) # 0
    BY <1>1 DEF CInv, Served
  <2> QED BY <1>1, <2>1 DEF CInv, InUse
<1> QED BY <1>1, CInvAlways, PTL

\* Put of a ResourcePool panics on a pool that is closed or full.
NoPanic == \A h \in Handlers : handler[h].pc # "panic"

(* Put never panics: ReleaseConn always finds the pool of its connection    *)
(* open, with room in the channel.                                          *)
THEOREM NeverPanics == Spec => []NoPanic
<1>1. CInv => NoPanic
  BY DEF CInv, Types, HandlerState, NoPanic
<1> QED BY <1>1, CInvAlways, PTL
=============================================================================
