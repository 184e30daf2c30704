------------------------------ MODULE ConnPool ------------------------------
(***************************************************************************)
(* The connections of an image server to the chunk servers.  Each chunk    *)
(* server has a ConnectionPool of Capacity connections, which is a channel *)
(* of wrappers with or without a connection in them; the pools are kept in *)
(* a set (ChunkServerConnectionPool), and the ticker that asks the master  *)
(* for the chunk servers puts a new set in place of the old one when they  *)
(* have changed, with the pools of the servers that stay, and closes the   *)
(* pools of those that do not.                                             *)
(*                                                                         *)
(* Requests and the ticker are goroutines.  A request may go on with the   *)
(* set it began with.  GetConn holds the lock of the set until it has a    *)
(* connection.  Which calls over a connection or to a new one fail is left *)
(* open.                                                                   *)
(***************************************************************************)
EXTENDS Integers, Sequences, FiniteSets, Functions

CONSTANTS
  Servers,    \* the chunk servers, by ip and port
  GroupIds,
  NoGroup,    \* the group of a server that the master does not list
  Infos,      \* what the master may answer: the group of each server
  Handlers,   \* downloads, and uploads to one server
  NoOne,      \* the holder of a lock that is free
  Capacity,   \* connPoolCapacity
  MaxSets     \* a bound on the sets of pools that are made

ASSUME ConnPoolAssumption ==
  /\ Capacity \in Nat \ {0} /\ MaxSets \in Nat
  /\ IsFiniteSet(Servers) /\ IsFiniteSet(Handlers)
  /\ Infos \subseteq [Servers -> GroupIds \cup {NoGroup}]
  /\ NoGroup \notin GroupIds /\ NoOne \notin Handlers

VARIABLES
  chunkServerGroups,  \* the group of each server, as the master said last
  connectionPools,    \* the set in use, 0 before the first one
  sets,               \* sets[i]: the pool of each server in Pools, or 0, and the lock mu
  pools,              \* pools[p]: open, the wrappers in the channel (conns), how many
                      \* Close has taken out (drained) and how many are gone (lost)
  handler,            \* handler[h]: where a request is, with its set, pool and connection
  ticker              \* GetChunkServerInfoTicker: the pools it has to close

vars == <<chunkServerGroups, connectionPools, sets, pools, handler, ticker>>

\* A request that is over, and one that has not begun.
Idle == [pc |-> "idle", server |-> NoOne, set |-> 0, pool |-> 0, conn |-> "nil",
         check |-> FALSE]

NewConnectionPool ==
  [open |-> TRUE, conns |-> [i \in 1..Capacity |-> "nil"], drained |-> 0, lost |-> 0]

-----------------------------------------------------------------------------
(* A request.                                                              *)

Goto(h, pc) == handler' = [handler EXCEPT ![h].pc = pc]
Ends(h) == handler' = [handler EXCEPT ![h] = Idle]
Unlock(i) == sets' = [sets EXCEPT ![i].mu = NoOne]

\* A server is chosen from the groups,
Chooses(h) ==
  /\ handler[h].pc = "idle"
  /\ \E s \in Servers :
       /\ chunkServerGroups[s] # NoGroup
       /\ handler' = [handler EXCEPT ![h].pc = "pools", ![h].server = s]
  /\ UNCHANGED <<chunkServerGroups, connectionPools, sets, pools, ticker>>

\* and then the set of pools is read, under a lock of its own.
GetConnectionPools(h) ==
  /\ handler[h].pc = "pools"
  /\ IF connectionPools = 0
       THEN Ends(h)
       ELSE handler' = [handler EXCEPT ![h].pc = "lock", ![h].set = connectionPools]
  /\ UNCHANGED <<chunkServerGroups, connectionPools, sets, pools, ticker>>

\* GetConn: with the lock of the set, the pool is looked up; there may be none any more,
\* or a closed one.
GetConn(h) ==
  LET i == handler[h].set
      p == sets[i].Pools[handler[h].server]
  IN /\ handler[h].pc = "lock"
     /\ sets[i].mu = NoOne
     /\ IF p = 0 \/ ~pools[p].open
          THEN Ends(h) /\ UNCHANGED sets
          ELSE /\ sets' = [sets EXCEPT ![i].mu = h]
               /\ handler' = [handler EXCEPT ![h].pc = "get", ![h].pool = p]
     /\ UNCHANGED <<chunkServerGroups, connectionPools, pools, ticker>>

\* ResourcePool.get, which may have to wait: a wrapper comes out of the channel, or the
\* channel was closed.  A connection that has not been used for long is given up for a
\* new one.
get(h) ==
  LET p == handler[h].pool
      c == Head(pools[p].conns)
  IN /\ handler[h].pc = "get"
     /\ \/ /\ pools[p].conns # <<>>
           /\ pools' = [pools EXCEPT ![p].conns = Tail(@)]
           /\ \/ /\ c # "nil"
                 /\ handler' = [handler EXCEPT ![h].pc = "use", ![h].conn = c]
                 /\ Unlock(handler[h].set)
              \/ Goto(h, "dial") /\ UNCHANGED sets
        \/ /\ ~pools[p].open
           /\ Ends(h) /\ Unlock(handler[h].set)
           /\ UNCHANGED pools
     /\ UNCHANGED <<chunkServerGroups, connectionPools, ticker>>

\* A mutant: the wrapper is not put back when there is no connection.
factory_KeepsWrapper(h) ==
  /\ handler[h].pc = "dial"
  /\ \/ handler' = [handler EXCEPT ![h].pc = "use", ![h].conn = "conn"]
     \/ Ends(h)
  /\ Unlock(handler[h].set)
  /\ UNCHANGED <<chunkServerGroups, connectionPools, pools, ticker>>

\* A new connection, or an error: then the wrapper goes back.
factory(h) ==
  LET p == handler[h].pool
  IN /\ handler[h].pc = "dial"
     /\ \/ /\ handler' = [handler EXCEPT ![h].pc = "use", ![h].conn = "conn"]
           /\ UNCHANGED pools
        \/ /\ Ends(h)
           /\ pools' = [pools EXCEPT ![p].conns = Append(@, "nil")]
     /\ Unlock(handler[h].set)
     /\ UNCHANGED <<chunkServerGroups, connectionPools, ticker>>

\* PutData or GetData: it succeeds, or fails and the connection is closed; if it was the
\* end of the stream, CheckConnPool comes after the release.
UsesConn(h) ==
  /\ handler[h].pc = "use" /\ ~handler[h].check
  /\ \/ Goto(h, "release")
     \/ \E eof \in BOOLEAN :
          handler' = [handler EXCEPT ![h].pc = "release", ![h].conn = "closed",
                                     ![h].check = eof]
  /\ UNCHANGED <<chunkServerGroups, connectionPools, sets, pools, ticker>>

\* CheckConnPool takes connections and pings the server; it closes and releases those
\* that fail.  It returns at the first one that does not, and this one stays taken.
CheckConnPool(h) ==
  /\ handler[h].pc = "use" /\ handler[h].check
  /\ \/ /\ handler' = [handler EXCEPT ![h].pc = "release", ![h].conn = "closed"]
        /\ UNCHANGED pools
     \/ /\ Ends(h)
        /\ pools' = [pools EXCEPT ![handler[h].pool].lost = @ + 1]
  /\ UNCHANGED <<chunkServerGroups, connectionPools, sets, ticker>>

\* What Recycle puts into the channel.
Recycle(conn) == IF conn = "closed" THEN "nil" ELSE conn

\* ReleaseConn, after which CheckConnPool asks for the next connection.  Put panics if
\* the pool is closed, or full.
ReleaseConn(h) ==
  LET p == handler[h].pool
  IN /\ handler[h].pc = "release"
     /\ IF pools[p].open /\ Len(pools[p].conns) < Capacity
          THEN /\ pools' = [pools EXCEPT ![p].conns = Append(@, Recycle(handler[h].conn))]
               /\ IF handler[h].check
                    THEN handler' = [handler EXCEPT ![h].pc = "lock", ![h].pool = 0,
                                                    ![h].conn = "nil"]
                    ELSE Ends(h)
          ELSE Goto(h, "panic") /\ UNCHANGED pools
     /\ UNCHANGED <<chunkServerGroups, connectionPools, sets, ticker>>

-----------------------------------------------------------------------------
(* The ticker.                                                             *)

\* The servers that are in a group of info1 and not in the same group of info2.
infoDiff(info1, info2) ==
  {s \in Servers : info1[s] # NoGroup /\ info1[s] # info2[s]}

\* The pools of the new set: those of the old one,
AddExistPool(old) == IF old = 0 THEN [s \in Servers |-> 0] ELSE sets[old].Pools

\* A mutant: the pools of deleted servers stay.
RemovePool_Keeps(Pools, del) == Pools

\* without those of deleted servers,
RemovePool(Pools, del) == [s \in Servers |-> IF s \in del THEN 0 ELSE Pools[s]]

\* and a new one for each added server that has none.
AddPool(Pools, add) ==
  LET fresh == {s \in add : Pools[s] = 0}
      number == CHOOSE f \in Injection(fresh, 1..Cardinality(fresh)) : TRUE
  IN [Pools |-> [s \in Servers |-> IF s \in fresh THEN Len(pools) + number[s] ELSE Pools[s]],
      fresh |-> Cardinality(fresh)]

\* handleChunkServerInfo, up to the replacement of the set.
handleChunkServerInfo ==
  /\ ticker.pc = "idle"
  /\ \E infos \in Infos :
       LET del == infoDiff(chunkServerGroups, infos)
           add == infoDiff(infos, chunkServerGroups)
           new == AddPool(RemovePool(AddExistPool(connectionPools), del), add)
       IN /\ chunkServerGroups' = infos
          /\ IF del = {} /\ add = {}
               THEN UNCHANGED <<connectionPools, sets, pools, ticker>>
               ELSE /\ Len(sets) < MaxSets
                    /\ sets' = Append(sets, [Pools |-> new.Pools, mu |-> NoOne])
                    /\ connectionPools' = Len(sets) + 1
                    /\ pools' = pools \o [i \in 1..new.fresh |-> NewConnectionPool]
                    /\ ticker' = IF connectionPools = 0 \/ del = {} THEN ticker
                                 ELSE [pc |-> "remove", del |-> del, set |-> connectionPools,
                                       pool |-> 0]
  /\ UNCHANGED handler

\* RemoveAndClosePool takes the pool of a deleted server out of the old set,
RemoveAndClosePool ==
  /\ ticker.pc = "remove"
  /\ sets[ticker.set].mu = NoOne
  /\ \E s \in ticker.del :
       /\ sets' = [sets EXCEPT ![ticker.set].Pools[s] = 0]
       /\ ticker' = [ticker EXCEPT !.pc = "close", !.del = @ \ {s},
                                   !.pool = sets[ticker.set].Pools[s]]
  /\ UNCHANGED <<chunkServerGroups, connectionPools, pools, handler>>

Closed(p) == pools' = [pools EXCEPT ![p].open = FALSE]
NextPool == ticker' = IF ticker.del = {} THEN [ticker EXCEPT !.pc = "idle", !.set = 0, !.pool = 0]
                                         ELSE [ticker EXCEPT !.pc = "remove", !.pool = 0]

\* A mutant: the pool is closed with the wrappers that are there.
SetCapacity_NoWait ==
  /\ ticker.pc = "close"
  /\ IF pools[ticker.pool].conns = <<>>
       THEN Closed(ticker.pool) /\ NextPool
       ELSE /\ pools' = [pools EXCEPT ![ticker.pool].conns = Tail(@),
                                      ![ticker.pool].drained = @ + 1]
            /\ UNCHANGED ticker
  /\ UNCHANGED <<chunkServerGroups, connectionPools, sets, handler>>

\* and closes it: SetCapacity(0) takes all wrappers out of the channel, waiting for those
\* that are in use, and closes the channel; then connections is set to nil.
SetCapacity ==
  LET p == ticker.pool
  IN /\ ticker.pc = "close"
     /\ \/ /\ pools[p].drained < Capacity /\ pools[p].conns # <<>>
           /\ pools' = [pools EXCEPT ![p].conns = Tail(@), ![p].drained = @ + 1]
           /\ UNCHANGED ticker
        \/ pools[p].drained = Capacity /\ Closed(p) /\ NextPool
     /\ UNCHANGED <<chunkServerGroups, connectionPools, sets, handler>>

-----------------------------------------------------------------------------
(* The specification.                                                      *)

Init ==
  /\ chunkServerGroups = [s \in Servers |-> NoGroup]
  /\ connectionPools = 0
  /\ sets = <<>> /\ pools = <<>>
  /\ handler = [h \in Handlers |-> Idle]
  /\ ticker = [pc |-> "idle", del |-> {}, set |-> 0, pool |-> 0]

\* What a goroutine does once it has begun.
Waits(h) == GetConn(h) \/ get(h)
Goes(h) ==
  GetConnectionPools(h) \/ factory(h) \/ UsesConn(h) \/ CheckConnPool(h) \/ ReleaseConn(h)
Closes == RemoveAndClosePool \/ SetCapacity

Next ==
  \/ \E h \in Handlers : Chooses(h) \/ Waits(h) \/ Goes(h)
  \/ handleChunkServerInfo
  \/ Closes

Spec == Init /\ [][Next]_vars

\* Goroutines that have begun go on, and calls over the network return.  Those that wait
\* for a lock or a channel are served in their turn: it is enough to be able to go on
\* again and again.
FairSpec ==
  /\ Spec
  /\ \A h \in Handlers : WF_vars(Goes(h)) /\ SF_vars(GetConn(h)) /\ SF_vars(get(h))
  /\ SF_vars(Closes)

-----------------------------------------------------------------------------
(* Properties.                                                             *)

Holders(p) == {h \in Handlers : handler[h].pool = p /\ handler[h].pc \in {"dial", "use", "release"}}

\* "For every successful Get, a corresponding Put is required" (ResourcePool.Put): a
\* wrapper is in the channel, with a goroutine that will put it back, or with Close.
\* CheckConnPool does not do so: it returns with the wrapper of the first connection that
\* answers.
ConnsReturned ==
  \A p \in DOMAIN pools :
    Len(pools[p].conns) + Cardinality(Holders(p)) + pools[p].drained = Capacity

\* But for the wrappers that CheckConnPool has kept (lost), every one is in the channel,
\* with a goroutine that will put it back, or with Close.  So no Put meets a pool that is
\* full, or one that Close has closed while a connection was out; and no connection that
\* was closed is handed out again.
ConnsAccounted ==
  \A p \in DOMAIN pools :
    /\ Len(pools[p].conns) + Cardinality(Holders(p)) + pools[p].drained + pools[p].lost
         = Capacity
    /\ ~pools[p].open => Holders(p) = {}
    /\ \A i \in DOMAIN pools[p].conns : pools[p].conns[i] # "closed"

\* A server of the groups has a pool in the set, which is its own and which nobody closes,
\* also when it has left a group for another between two answers of the master
\* (handleChunkServerInfo).
PoolPerServer ==
  \A s \in Servers :
    chunkServerGroups[s] # NoGroup =>
      LET p == sets[connectionPools].Pools[s]
      IN /\ connectionPools # 0 /\ p # 0 /\ pools[p].open /\ p # ticker.pool
         /\ \A t \in Servers \ {s} : sets[connectionPools].Pools[t] # p

\* CheckConnPool has kept all connections of a pool, or one of a pool that is to close.
Starved(p) == pools[p].lost = Capacity \/ (ticker.pool = p /\ pools[p].lost > 0)

\* Neither a request, which in GetConn waits with the lock that all servers share, nor the
\* ticker, which closes pools in use, waits for ever, unless a pool is starved.
NobodyWaits ==
  /\ \A h \in Handlers :
       handler[h].pc \in {"lock", "get"}
         ~> handler[h].pc \notin {"lock", "get"} \/ \E p \in DOMAIN pools : Starved(p)
  /\ ticker.pc # "idle" ~> ticker.pc = "idle" \/ \E p \in DOMAIN pools : Starved(p)
=============================================================================
