---------------------------- MODULE MasterProofs ----------------------------
(***************************************************************************)
(* The two halves of the chunk master.                                     *)
(*                                                                         *)
(* The fids it hands out (FidAlloc): no fid is used twice, for any number  *)
(* of image servers, uploads and restarts, and any sizes of block, range   *)
(* and channel, provided reading table gen_fid does not fail.  A fid is in *)
(* one place at most: it is still to be handed out, or is in the channel   *)
(* of a server, or in a range a goroutine is merging, or is used.  Steps   *)
(* move fids from one place to the next, or lose them.                     *)
(*                                                                         *)
(* The map it keeps (ChunkMaster): what the map holds, and that a server   *)
(* in error stays out of it, for any number of chunk servers, report       *)
(* handlers, failures of the database and calls of operators.              *)
(***************************************************************************)
EXTENDS FidAlloc, ChunkMaster, Functions, TLAPS

-----------------------------------------------------------------------------
(* Sequences, of which the provers know what they are.                     *)

(* The elements of a sequence.                                              *)
LEMMA ElementOfSeq ==
  ASSUME NEW S, NEW q \in Seq(S), NEW i \in 1..Len(q)
  PROVE  q[i] \in S
OBVIOUS

(* The empty sequence, and those that are not.                              *)
LEMMA EmptySeq ==
  ASSUME NEW S
  PROVE  /\ <<>> \in Seq(S) /\ Len(<<>>) = 0
         /\ \A q \in Seq(S) : q # <<>> => Len(q) \in Nat \ {0}
OBVIOUS

(* Length and domain.                                                       *)
LEMMA LenProperties ==
  ASSUME NEW S, NEW q \in Seq(S)
  PROVE  /\ Len(q) \in Nat
         /\ q \in [1..Len(q) -> S] /\ DOMAIN q = 1..Len(q)
OBVIOUS

(* The first element taken off.                                             *)
LEMMA HeadTailProperties ==
  ASSUME NEW S, NEW q \in Seq(S), q # <<>>
  PROVE  /\ Head(q) \in S /\ Tail(q) \in Seq(S) /\ Len(Tail(q)) = Len(q) - 1
         /\ \A i \in 1..Len(Tail(q)) : Tail(q)[i] = q[i + 1]
OBVIOUS

(* An element put at the end.                                               *)
LEMMA AppendProperties ==
  ASSUME NEW S, NEW q \in Seq(S), NEW e \in S
  PROVE  /\ Append(q, e) \in Seq(S) /\ Append(q, e) # <<>>
         /\ Len(Append(q, e)) = Len(q) + 1
         /\ \A i \in 1..Len(q) : Append(q, e)[i] = q[i]
         /\ Append(q, e)[Len(q) + 1] = e
OBVIOUS

-----------------------------------------------------------------------------
(* The fids.                                                               *)


(* Channels are sequences.                                                 *)

(* An element put at the end of a channel.                                  *)
LEMMA AppendInjectiveSet ==
  ASSUME NEW S, NEW s \in Seq(S), NEW e \in S
  PROVE  /\ Range(Append(s, e)) = Range(s) \cup {e}
         /\ IsInjective(s) /\ e \notin Range(s) => IsInjective(Append(s, e))
<1> DEFINE r == Append(s, e)
<1>1. /\ r \in Seq(S)
      /\ Len(r) = Len(s) + 1
      /\ \A j \in 1..Len(s) : r[j] = s[j]
      /\ r[Len(s) + 1] = e
  BY AppendProperties
<1>2. Len(s) \in Nat /\ DOMAIN s = 1..Len(s) /\ DOMAIN r = 1..(Len(s) + 1)
  BY <1>1, LenProperties
<1> HIDE DEF r
<1>3. Range(r) = Range(s) \cup {e}
  BY <1>1, <1>2 DEF Range
<1>4. ASSUME IsInjective(s), e \notin Range(s)
      PROVE  IsInjective(r)
  BY <1>1, <1>2, <1>4 DEF Range, IsInjective
<1>5. QED
  BY <1>3, <1>4 DEF r

(* A channel without its first element.                                     *)
LEMMA TailInjectiveSet ==
  ASSUME NEW S, NEW s \in Seq(S), s # <<>>
  PROVE  /\ Tail(s) \in Seq(S)
         /\ Head(s) \in S /\ Head(s) \in Range(s)
         /\ Range(Tail(s)) \subseteq Range(s)
         /\ IsInjective(s) => IsInjective(Tail(s)) /\ Head(s) \notin Range(Tail(s))
<1> DEFINE r == Tail(s)
<1>1. /\ r \in Seq(S) /\ Head(s) = s[1] /\ s[1] \in S
      /\ Len(s) \in Nat /\ Len(s) >= 1 /\ Len(r) = Len(s) - 1
      /\ \A j \in 1..Len(r) : r[j] = s[j + 1]
  BY HeadTailProperties, EmptySeq, LenProperties, ElementOfSeq
<1>2. DOMAIN r = 1..Len(r) /\ DOMAIN s = 1..Len(s)
  BY <1>1, LenProperties
<1> HIDE DEF r
<1>3. Head(s) \in Range(s)
  BY <1>1, <1>2 DEF Range
<1>4. ASSUME NEW e \in Range(r) PROVE e \in Range(s)
  <2>1. PICK j \in 1..Len(r) : e = r[j]
    BY <1>2 DEF Range
  <2>2. e = s[j + 1] /\ j + 1 \in 1..Len(s)
    BY <1>1, <2>1
  <2> QED BY <1>2, <2>2 DEF Range
<1>5. ASSUME IsInjective(s) PROVE IsInjective(r) /\ Head(s) \notin Range(r)
  <2>1. \A i, j \in 1..Len(s) : s[i] = s[j] => i = j
    BY <1>2, <1>5 DEF IsInjective
  <2>2. ASSUME NEW i \in 1..Len(r), NEW j \in 1..Len(r), r[i] = r[j] PROVE i = j
    <3>1. i + 1 \in 1..Len(s) /\ j + 1 \in 1..Len(s) /\ s[i + 1] = s[j + 1]
      BY <1>1, <2>2
    <3>2. i + 1 = j + 1
      BY <2>1, <3>1
    <3> QED BY <3>2
  <2>3. ASSUME NEW j \in 1..Len(r) PROVE r[j] # s[1]
    <3>1. j + 1 \in 1..Len(s) /\ 1 \in 1..Len(s) /\ r[j] = s[j + 1] /\ j + 1 # 1
      BY <1>1
    <3> QED BY <2>1, <3>1
  <2> QED BY <1>1, <1>2, <2>2, <2>3 DEF IsInjective, Range
<1> QED BY <1>1, <1>3, <1>4, <1>5 DEF r

-----------------------------------------------------------------------------
(* The inductive invariant.                                                *)

\* Not handed out yet: in the block of the chunkmaster, or not reserved.
Fresh(n) == (fid.Begin <= n /\ n < fid.End) \/ gen_fid <= n

Queued(s) == Range(ch[s])

\* In the range goroutine g of server s is merging.
Held(s, g, n) == range[s][g].Start <= n /\ n < range[s][g].End

\* The block is a whole number of ranges, below what is reserved.
Block ==
  /\ fid.End <= gen_fid /\ gen_fid <= MaxFid
  /\ \E k \in Nat : fid.End = fid.Begin + k * ALLOCATE_RANGE

\* A fid that a server has is used nowhere, and has one place in that server.
OnePlace ==
  /\ \A s \in ImageServers : \A n \in Queued(s) : ~Fresh(n) /\ uploaded[n] = 0
  /\ \A s \in ImageServers, g \in Goroutines : \A n \in Nat : Held(s, g, n) =>
       n \in Numbers /\ ~Fresh(n) /\ uploaded[n] = 0
  /\ \A n \in Numbers : uploaded[n] # 0 => ~Fresh(n)
  /\ \A s, t \in ImageServers : \A n : n \in Queued(s) /\ n \in Queued(t) => s = t
  /\ \A s, t \in ImageServers, g \in Goroutines : \A n \in Queued(s) : ~Held(t, g, n)
  /\ \A s, t \in ImageServers, g, h \in Goroutines : \A n \in Nat :
       Held(s, g, n) /\ Held(t, h, n) => s = t /\ g = h

FInv ==
  /\ FidTypeOK
  /\ Block
  /\ \A s \in ImageServers : IsInjective(ch[s])
  /\ OnePlace
  /\ UploadOnce

-----------------------------------------------------------------------------
(* The type invariant.                                                     *)

(* A fid received leaves the channel well typed.                            *)
LEMMA TypeReceive ==
  ASSUME FidTypeOK, NEW s \in ImageServers, Receive(s)
  PROVE  ch' \in [ImageServers -> Seq(Numbers)] /\ uploaded' \in [Numbers -> Nat]
<1>1. ch[s] \in Seq(Numbers) /\ ch[s] # <<>>
  BY DEF FidTypeOK, Receive
<1>2. Tail(ch[s]) \in Seq(Numbers) /\ Head(ch[s]) \in Numbers
  BY <1>1, TailInjectiveSet
<1> QED BY <1>2 DEF FidTypeOK, Receive

(* So does a change of where a goroutine is.                                *)
LEMMA TypeGoto ==
  ASSUME FidTypeOK, NEW s \in ImageServers, NEW g \in Goroutines,
         NEW where \in {"idle", "swap", "wait", "range", "call", "merge", "get", "swapback"},
         Goto(s, g, where)
  PROVE  pc' \in [ImageServers -> [Goroutines ->
                   {"idle", "swap", "wait", "range", "call", "merge", "get", "swapback"}]]
BY DEF FidTypeOK, Goto

(* The range cut from a block, and what the chunkmaster keeps.              *)
LEMMA TypeMaster ==
  ASSUME FidTypeOK, AllocFromBlock \/ AllocNewBlock \/ AllocFails
  PROVE  /\ gen_fid' \in Nat /\ fid' \in [Begin : Nat, End : Nat]
         /\ NextRange \in [Start : Nat, End : Nat]
<1>1. /\ gen_fid \in Nat /\ fid.Begin \in Nat /\ fid.End \in Nat
      /\ fid \in [Begin : Nat, End : Nat]
      /\ ALLOCATE_RANGE \in Nat /\ MAX_RANGE \in Nat
  BY FidAssumption DEF FidTypeOK
<1>2. NextRange \in [Start : Nat, End : Nat]
  BY <1>1 DEF NextRange
<1>3. CASE AllocFromBlock
  BY <1>1, <1>2, <1>3 DEF AllocFromBlock
<1>4. CASE AllocNewBlock
  BY <1>1, <1>2, <1>4 DEF AllocNewBlock
<1>5. CASE AllocFails
  BY <1>1, <1>2, <1>5 DEF AllocFails
<1> QED BY <1>3, <1>4, <1>5

\* The two outcomes of a round of Merge.
MergePuts(s, g) ==
  /\ range[s][g].Start < range[s][g].End
  /\ ch' = [ch EXCEPT ![s] = Append(@, range[s][g].Start)]
  /\ range' = [range EXCEPT ![s][g].Start = @ + 1]
  /\ UNCHANGED pc

MergeEnds(s, g) ==
  /\ Goto(s, g, AfterRange(g))
  /\ range' = [range EXCEPT ![s][g] = NoRange]
  /\ UNCHANGED ch

(* Every goroutine step keeps the types.                                    *)
LEMMA TypeContinue ==
  ASSUME FInv, NEW s \in ImageServers, NEW g \in Goroutines, Continue(s, g)
  PROVE  FidTypeOK'
<1> USE DEF masterVars
<1>0. FidTypeOK
  BY DEF FInv
<1> USE <1>0
<1>1. CASE CompareAndSwap(s, g)
  <2>1. getFidRetryCount' \in [ImageServers -> {0, 1}]
    BY <1>1 DEF CompareAndSwap, FidTypeOK
  <2> QED BY <1>1, <2>1, TypeGoto DEF CompareAndSwap, FidTypeOK
<1>2. CASE GetFidWait(s, g)
  BY <1>2, TypeGoto, TypeReceive DEF GetFidWait, FidTypeOK
<1>3. CASE GetFidRange(s, g)
  BY <1>3, TypeGoto DEF GetFidRange, AfterRange, FidTypeOK
<1>4. CASE CallMaster(s, g)
  <2>1. UNCHANGED <<ch, getFidRetryCount, uploaded>>
    BY <1>4 DEF CallMaster
  <2>2. AfterError(g) \in {"idle", "swapback"}
    BY DEF AfterError
  <2>3. CASE /\ AllocFromBlock \/ AllocNewBlock
             /\ range' = [range EXCEPT ![s][g] = NextRange]
             /\ Goto(s, g, "merge")
    BY <2>1, <2>3, TypeMaster, TypeGoto, Zenon DEF FidTypeOK
  <2>4. CASE /\ AllocFromBlock \/ AllocNewBlock \/ AllocFails \/ UNCHANGED masterVars
             /\ Goto(s, g, AfterError(g))
             /\ UNCHANGED range
    <3>1. pc' \in [ImageServers -> [Goroutines ->
                    {"idle", "swap", "wait", "range", "call", "merge", "get", "swapback"}]]
      BY <2>2, <2>4, TypeGoto
    <3>2. gen_fid' \in Nat /\ fid' \in [Begin : Nat, End : Nat]
      <4>1. CASE AllocFromBlock \/ AllocNewBlock \/ AllocFails
        BY <4>1, TypeMaster
      <4>2. CASE UNCHANGED masterVars
        BY <4>2 DEF FidTypeOK
      <4> QED BY <2>4, <4>1, <4>2
    <3> QED BY <2>1, <2>4, <3>1, <3>2 DEF FidTypeOK
  <2> QED BY <1>4, <2>3, <2>4 DEF CallMaster
<1>5. CASE Merge(s, g)
  <2>1. UNCHANGED <<gen_fid, fid, getFidRetryCount, uploaded>>
    BY <1>5 DEF Merge
  <2>2. range[s][g] \in [Start : Nat, End : Nat]
    BY DEF FidTypeOK
  <2>3. CASE MergePuts(s, g)
    <3>1. range[s][g].Start \in Numbers
      BY <2>2, <2>3 DEF MergePuts, FInv, OnePlace, Held
    <3>2. ch' \in [ImageServers -> Seq(Numbers)]
      BY <2>3, <3>1 DEF MergePuts, FidTypeOK
    <3>3. range' \in [ImageServers -> [Goroutines -> [Start : Nat, End : Nat]]]
      <4>1. [range[s][g] EXCEPT !.Start = @ + 1] \in [Start : Nat, End : Nat]
        BY <2>2
      <4>2. range' = [range EXCEPT ![s][g] = [range[s][g] EXCEPT !.Start = @ + 1]]
        BY <2>3 DEF MergePuts, FidTypeOK
      <4> QED BY <4>1, <4>2 DEF FidTypeOK
    <3> QED BY <2>1, <2>3, <3>2, <3>3 DEF MergePuts, FidTypeOK
  <2>4. CASE MergeEnds(s, g)
    <3>1. AfterRange(g) \in {"idle", "get"}
      BY DEF AfterRange
    <3>2. NoRange \in [Start : Nat, End : Nat]
      BY DEF NoRange
    <3> QED BY <2>1, <2>4, <3>1, <3>2, TypeGoto DEF MergeEnds, FidTypeOK
  <2> QED BY <1>5, <2>3, <2>4 DEF Merge, MergePuts, MergeEnds
<1>6. CASE GetFidAgain(s, g)
  BY <1>6, TypeGoto, TypeReceive, Zenon DEF GetFidAgain, FidTypeOK
<1>7. CASE SwapBack(s, g)
  BY <1>7, TypeGoto DEF SwapBack, FidTypeOK
<1> QED BY <1>1, <1>2, <1>3, <1>4, <1>5, <1>6, <1>7 DEF Continue

(* So does every other step.                                                *)
LEMMA TypeNext ==
  ASSUME FInv, [FidNext]_fidVars
  PROVE  FidTypeOK'
<1> USE DEF masterVars
<1>0. FidTypeOK
  BY DEF FInv
<1> USE <1>0
<1>1. CASE RestartMaster
  <2>1. gen_fid' \in Nat
    <3>1. gen_fid' = gen_fid \/ gen_fid' = gen_fid + MAX_RANGE
      BY <1>1 DEF RestartMaster
    <3>2. gen_fid \in Nat /\ MAX_RANGE \in Nat
      BY FidAssumption DEF FidTypeOK
    <3> QED BY <3>1, <3>2
  <2> QED BY <1>1, <2>1 DEF RestartMaster, FidTypeOK
<1>2. ASSUME NEW s \in ImageServers, NEW g \in Uploads, getFid(s, g) PROVE FidTypeOK'
  <2>1. g \in Goroutines
    BY DEF Goroutines
  <2> QED BY <1>2, <2>1, TypeGoto, TypeReceive, Zenon DEF getFid, FidTypeOK
<1>3. ASSUME NEW s \in ImageServers, GetFidRangeTicker(s) PROVE FidTypeOK'
  <2>1. Ticker \in Goroutines
    BY DEF Goroutines
  <2> QED BY <1>3, <2>1, TypeGoto DEF GetFidRangeTicker, FidTypeOK
<1>4. ASSUME NEW s \in ImageServers, RestartServer(s) PROVE FidTypeOK'
  <2>1. <<>> \in Seq(Numbers) /\ NoRange \in [Start : Nat, End : Nat]
    BY DEF NoRange
  <2> QED BY <1>4, <2>1 DEF RestartServer, FidTypeOK
<1>5. CASE UNCHANGED fidVars
  BY <1>5 DEF fidVars, FidTypeOK
<1> QED BY <1>1, <1>2, <1>3, <1>4, <1>5, TypeContinue DEF FidNext, Server

-----------------------------------------------------------------------------
(* Where the fids are.                                                     *)

(* Fids are numbers, those in the channels too.                             *)
LEMMA FidsAreNumbers ==
  ASSUME FidTypeOK
  PROVE  /\ Numbers \subseteq Nat
         /\ \A s \in ImageServers : \A n \in Queued(s) : n \in Numbers /\ n \in Nat
<1>1. Numbers \subseteq Nat
  <2>1. MaxFid \in Nat
    BY FidAssumption
  <2> QED BY <2>1 DEF Numbers
<1>2. ASSUME NEW s \in ImageServers, NEW n \in Queued(s) PROVE n \in Numbers
  <2>1. ch[s] \in Seq(Numbers)
    BY DEF FidTypeOK
  <2>2. PICK i \in DOMAIN ch[s] : n = ch[s][i]
    BY DEF Queued, Range
  <2>3. i \in 1..Len(ch[s])
    BY <2>1, <2>2, LenProperties
  <2> QED BY <2>1, <2>2, <2>3, ElementOfSeq
<1> QED BY <1>1, <1>2, Zenon

(* A step that hands out no fid and uses none can only lose fids.           *)
LEMMA FidsLost ==
  ASSUME FInv, UNCHANGED uploaded,
         \A n \in Nat : Fresh(n)' => Fresh(n),
         \A s \in ImageServers : \A n \in Queued(s)' : n \in Queued(s),
         \A s \in ImageServers, g \in Goroutines : \A n \in Nat : Held(s, g, n)' => Held(s, g, n)
  PROVE  OnePlace' /\ UploadOnce'
<1>1. \A s \in ImageServers : \A n \in Queued(s) : n \in Numbers /\ n \in Nat
  BY FidsAreNumbers DEF FInv
<1>2. Numbers \subseteq Nat
  BY FidsAreNumbers DEF FInv
<1>3. \A s \in ImageServers : \A n \in Queued(s)' : ~Fresh(n)' /\ uploaded'[n] = 0
  BY <1>1 DEF FInv, OnePlace
<1>4. \A s \in ImageServers, g \in Goroutines : \A n \in Nat : Held(s, g, n)' =>
        n \in Numbers /\ ~Fresh(n)' /\ uploaded'[n] = 0
  BY DEF FInv, OnePlace
<1>5. \A n \in Numbers : uploaded'[n] # 0 => ~Fresh(n)'
  BY <1>2 DEF FInv, OnePlace
<1>6. \A s, t \in ImageServers : \A n : n \in Queued(s)' /\ n \in Queued(t)' => s = t
  BY DEF FInv, OnePlace
<1>7. \A s, t \in ImageServers, g \in Goroutines : \A n \in Queued(s)' : ~Held(t, g, n)'
  BY <1>1 DEF FInv, OnePlace
<1>8. \A s, t \in ImageServers, g, h \in Goroutines : \A n \in Nat :
        Held(s, g, n)' /\ Held(t, h, n)' => s = t /\ g = h
  BY DEF FInv, OnePlace
<1>9. UploadOnce'
  BY DEF FInv, UploadOnce
<1> QED BY <1>3, <1>4, <1>5, <1>6, <1>7, <1>8, <1>9 DEF OnePlace

(* A fid that is received is used, and is nowhere else.                     *)
LEMMA FidUsed ==
  ASSUME FInv, NEW r \in ImageServers, Receive(r), UNCHANGED <<gen_fid, fid, range>>
  PROVE  OnePlace' /\ UploadOnce' /\ \A s \in ImageServers : IsInjective(ch'[s])
<1> DEFINE e == Head(ch[r])
<1>1. /\ ch \in [ImageServers -> Seq(Numbers)] /\ ch[r] \in Seq(Numbers) /\ ch[r] # <<>>
      /\ IsInjective(ch[r]) /\ uploaded \in [Numbers -> Nat]
  BY DEF FInv, FidTypeOK, Receive
<1>2. /\ e \in Numbers /\ e \in Queued(r)
      /\ Range(Tail(ch[r])) \subseteq Queued(r)
      /\ IsInjective(Tail(ch[r])) /\ e \notin Range(Tail(ch[r]))
  BY <1>1, TailInjectiveSet DEF Queued
<1>3. /\ ch'[r] = Tail(ch[r]) /\ \A s \in ImageServers \ {r} : ch'[s] = ch[s]
      /\ uploaded'[e] = uploaded[e] + 1
      /\ \A n \in Numbers \ {e} : uploaded'[n] = uploaded[n]
  BY <1>1, <1>2 DEF Receive
<1> HIDE DEF e
<1>4. \A s \in ImageServers : \A n \in Queued(s)' : n \in Queued(s) /\ n # e
  BY <1>2, <1>3 DEF Queued, FInv, OnePlace
<1>5. \A s \in ImageServers : \A n \in Queued(s) : n \in Numbers /\ n \in Nat
  BY FidsAreNumbers DEF FInv
<1>6. /\ \A n \in Nat : Fresh(n)' <=> Fresh(n)
      /\ \A s \in ImageServers, g \in Goroutines : \A n \in Nat : Held(s, g, n)' <=> Held(s, g, n)
  BY DEF Fresh, Held
<1>7. uploaded[e] = 0 /\ e \in Nat /\ ~Fresh(e)
      /\ \A s \in ImageServers, g \in Goroutines : ~Held(s, g, e)
  BY <1>2, <1>5 DEF FInv, OnePlace
<1>8. Numbers \subseteq Nat
  BY FidsAreNumbers DEF FInv
<1>11. \A s \in ImageServers : \A n \in Queued(s)' : ~Fresh(n)' /\ uploaded'[n] = 0
  BY <1>3, <1>4, <1>5, <1>6 DEF FInv, OnePlace
<1>12. \A s \in ImageServers, g \in Goroutines : \A n \in Nat : Held(s, g, n)' =>
         n \in Numbers /\ ~Fresh(n)' /\ uploaded'[n] = 0
  BY <1>3, <1>6, <1>7 DEF FInv, OnePlace
<1>13. \A n \in Numbers : uploaded'[n] # 0 => ~Fresh(n)'
  BY <1>3, <1>6, <1>7, <1>8 DEF FInv, OnePlace
<1>14. \A s, t \in ImageServers : \A n : n \in Queued(s)' /\ n \in Queued(t)' => s = t
  BY <1>4 DEF FInv, OnePlace
<1>15. \A s, t \in ImageServers, g \in Goroutines : \A n \in Queued(s)' : ~Held(t, g, n)'
  BY <1>4, <1>5, <1>6 DEF FInv, OnePlace
<1>16. \A s, t \in ImageServers, g, h \in Goroutines : \A n \in Nat :
         Held(s, g, n)' /\ Held(t, h, n)' => s = t /\ g = h
  BY <1>6 DEF FInv, OnePlace
<1>17. UploadOnce'
  BY <1>2, <1>3, <1>7 DEF FInv, UploadOnce
<1>18. \A s \in ImageServers : IsInjective(ch'[s])
  BY <1>2, <1>3 DEF FInv
<1> QED BY <1>11, <1>12, <1>13, <1>14, <1>15, <1>16, <1>17, <1>18 DEF OnePlace

(* A fid that is put into the channel leaves the range.                     *)
LEMMA FidPut ==
  ASSUME FInv, NEW r \in ImageServers, NEW f \in Goroutines, MergePuts(r, f),
         UNCHANGED <<gen_fid, fid, uploaded>>
  PROVE  OnePlace' /\ UploadOnce' /\ \A s \in ImageServers : IsInjective(ch'[s])
<1> DEFINE e == range[r][f].Start
<1>1. /\ ch \in [ImageServers -> Seq(Numbers)] /\ ch[r] \in Seq(Numbers) /\ IsInjective(ch[r])
      /\ range \in [ImageServers -> [Goroutines -> [Start : Nat, End : Nat]]]
      /\ range[r][f] \in [Start : Nat, End : Nat]
  BY DEF FInv, FidTypeOK
<1>2. e \in Nat /\ Held(r, f, e)
  BY <1>1 DEF MergePuts, Held
<1>3. /\ e \in Numbers /\ ~Fresh(e) /\ uploaded[e] = 0
      /\ \A s \in ImageServers : e \notin Queued(s)
      /\ \A s \in ImageServers, g \in Goroutines : Held(s, g, e) => s = r /\ g = f
  BY <1>2 DEF FInv, OnePlace
<1>4. /\ ch'[r] = Append(ch[r], e) /\ \A s \in ImageServers \ {r} : ch'[s] = ch[s]
      /\ range'[r][f].Start = e + 1 /\ range'[r][f].End = range[r][f].End
      /\ \A s \in ImageServers, g \in Goroutines :
           s # r \/ g # f => range'[s][g] = range[s][g]
  BY <1>1 DEF MergePuts
<1> HIDE DEF e
<1>5. IsInjective(ch'[r]) /\ Range(ch'[r]) = Range(ch[r]) \cup {e}
  BY <1>1, <1>3, <1>4, AppendInjectiveSet DEF Queued
<1>6. \A s \in ImageServers : \A n : n \in Queued(s)' => n \in Queued(s) \/ (s = r /\ n = e)
  BY <1>4, <1>5, Zenon DEF Queued
<1>7. \A s \in ImageServers, g \in Goroutines : \A n \in Nat :
        Held(s, g, n)' => Held(s, g, n) /\ n # e
  <2>1. ASSUME NEW n \in Nat, Held(r, f, n)' PROVE Held(r, f, n) /\ n # e
    BY <1>1, <1>2, <1>4, <2>1 DEF Held, e
  <2>2. ASSUME NEW s \in ImageServers, NEW g \in Goroutines, s # r \/ g # f,
               NEW n \in Nat, Held(s, g, n)'
        PROVE  Held(s, g, n) /\ n # e
    BY <1>3, <1>4, <2>2 DEF Held
  <2> QED BY <2>1, <2>2
<1>8. \A n \in Nat : Fresh(n)' <=> Fresh(n)
  BY DEF Fresh
<1>9. \A s \in ImageServers : \A n \in Queued(s) : n \in Numbers /\ n \in Nat
  BY FidsAreNumbers DEF FInv
<1>10. Numbers \subseteq Nat
  BY FidsAreNumbers DEF FInv
<1>11. \A s \in ImageServers : \A n \in Queued(s)' : ~Fresh(n)' /\ uploaded'[n] = 0
  BY <1>2, <1>3, <1>6, <1>8, <1>9 DEF FInv, OnePlace
<1>12. \A s \in ImageServers, g \in Goroutines : \A n \in Nat : Held(s, g, n)' =>
         n \in Numbers /\ ~Fresh(n)' /\ uploaded'[n] = 0
  BY <1>7, <1>8 DEF FInv, OnePlace
<1>13. \A n \in Numbers : uploaded'[n] # 0 => ~Fresh(n)'
  BY <1>8, <1>10 DEF FInv, OnePlace
<1>14. \A s, t \in ImageServers : \A n : n \in Queued(s)' /\ n \in Queued(t)' => s = t
  BY <1>3, <1>6 DEF FInv, OnePlace
<1>15. \A s, t \in ImageServers, g \in Goroutines : \A n \in Queued(s)' : ~Held(t, g, n)'
  BY <1>2, <1>6, <1>7, <1>9 DEF FInv, OnePlace
<1>16. \A s, t \in ImageServers, g, h \in Goroutines : \A n \in Nat :
         Held(s, g, n)' /\ Held(t, h, n)' => s = t /\ g = h
  BY <1>7 DEF FInv, OnePlace
<1>17. UploadOnce'
  BY DEF FInv, UploadOnce
<1>18. \A s \in ImageServers : IsInjective(ch'[s])
  BY <1>4, <1>5, Zenon DEF FInv
<1> QED BY <1>11, <1>12, <1>13, <1>14, <1>15, <1>16, <1>17, <1>18 DEF OnePlace

-----------------------------------------------------------------------------
(* The chunkmaster.                                                        *)

(* One range of k.                                                          *)
LEMMA OneOfMany ==
  ASSUME NEW k \in Nat, NEW a \in Nat, k # 0
  PROVE  /\ k - 1 \in Nat
         /\ k * a = a + (k - 1) * a
         /\ a <= k * a
<1>1. k - 1 \in Nat
  OBVIOUS
<1>2. k * a = a + (k - 1) * a
  OBVIOUS
<1>3. (k - 1) * a \in Nat
  BY <1>1
<1> QED BY <1>1, <1>2, <1>3

(* allocFid cuts a range that was not handed out from its block, and the    *)
(* rest of the block is whole ranges.                                       *)
LEMMA RangeCut ==
  ASSUME FInv, AllocFromBlock \/ AllocNewBlock
  PROVE  /\ Block'
         /\ \A n \in Nat : Fresh(n)' => Fresh(n)
         /\ \A n \in Nat : NextRange.Start <= n /\ n < NextRange.End =>
              n \in Numbers /\ Fresh(n) /\ ~Fresh(n)'
<1>1. /\ gen_fid \in Nat /\ fid \in [Begin : Nat, End : Nat]
      /\ fid.Begin \in Nat /\ fid.End \in Nat
      /\ ALLOCATE_RANGE \in Nat /\ MAX_RANGE \in Nat /\ MaxFid \in Nat
      /\ fid.End <= gen_fid /\ gen_fid <= MaxFid
  BY FidAssumption DEF FInv, FidTypeOK, Block
<1>2. Numbers = 0..MaxFid
  BY DEF Numbers
<1>3. CASE AllocFromBlock
  <2>1. PICK k \in Nat : fid.End = fid.Begin + k * ALLOCATE_RANGE
    BY DEF FInv, Block
  <2>2. k # 0
    BY <1>1, <1>3, <2>1 DEF AllocFromBlock
  <2>3. /\ k - 1 \in Nat
        /\ k * ALLOCATE_RANGE = ALLOCATE_RANGE + (k - 1) * ALLOCATE_RANGE
        /\ ALLOCATE_RANGE <= k * ALLOCATE_RANGE
    BY <1>1, <2>2, OneOfMany
  <2>4. /\ fid'.Begin = fid.Begin + ALLOCATE_RANGE /\ fid'.End = fid.End
        /\ gen_fid' = gen_fid
        /\ NextRange.Start = fid.Begin /\ NextRange.End = fid.Begin + ALLOCATE_RANGE
    BY <1>1, <1>3 DEF AllocFromBlock, NextRange
  <2>5. k * ALLOCATE_RANGE \in Nat /\ (k - 1) * ALLOCATE_RANGE \in Nat
    BY <1>1, <2>3
  <2>6. fid'.End = fid'.Begin + (k - 1) * ALLOCATE_RANGE
    BY <1>1, <2>1, <2>3, <2>4, <2>5
  <2>7. fid.Begin + ALLOCATE_RANGE <= fid.End
    BY <1>1, <2>1, <2>3, <2>5
  <2>8. Block'
    BY <1>1, <2>3, <2>4, <2>6, Zenon DEF Block
  <2>9. \A n \in Nat : Fresh(n)' => Fresh(n)
    BY <1>1, <2>4, <2>7 DEF Fresh
  <2>10. \A n \in Nat : NextRange.Start <= n /\ n < NextRange.End =>
           n \in Numbers /\ Fresh(n) /\ ~Fresh(n)'
    BY <1>1, <1>2, <2>4, <2>7 DEF Fresh
  <2> QED BY <2>8, <2>9, <2>10
<1>4. CASE AllocNewBlock
  <2>1. PICK k \in 1..MAX_RANGE : MAX_RANGE = k * ALLOCATE_RANGE
    BY FidAssumption
  <2>2. k \in Nat /\ k # 0
    BY <1>1
  <2>3. /\ k - 1 \in Nat
        /\ k * ALLOCATE_RANGE = ALLOCATE_RANGE + (k - 1) * ALLOCATE_RANGE
        /\ ALLOCATE_RANGE <= k * ALLOCATE_RANGE
    BY <1>1, <2>2, OneOfMany
  <2>4. /\ fid'.Begin = gen_fid + ALLOCATE_RANGE /\ fid'.End = gen_fid + MAX_RANGE
        /\ gen_fid' = gen_fid + MAX_RANGE /\ gen_fid + MAX_RANGE <= MaxFid
        /\ fid.Begin = fid.End
        /\ NextRange.Start = gen_fid /\ NextRange.End = gen_fid + ALLOCATE_RANGE
    BY <1>1, <1>4 DEF AllocNewBlock, NextRange
  <2>5. (k - 1) * ALLOCATE_RANGE \in Nat
    BY <1>1, <2>3
  <2>6. fid'.End = fid'.Begin + (k - 1) * ALLOCATE_RANGE
    BY <1>1, <2>1, <2>3, <2>4, <2>5
  <2>7. ALLOCATE_RANGE <= MAX_RANGE
    BY <1>1, <2>1, <2>3
  <2>8. Block'
    <3>1. fid'.End <= gen_fid' /\ gen_fid' <= MaxFid
      BY <1>1, <2>4
    <3> QED BY <2>3, <2>6, <3>1 DEF Block
  <2>9. \A n \in Nat : Fresh(n)' => Fresh(n)
    BY <1>1, <2>4 DEF Fresh
  <2>10. \A n \in Nat : NextRange.Start <= n /\ n < NextRange.End =>
           n \in Numbers /\ Fresh(n) /\ ~Fresh(n)'
    BY <1>1, <1>2, <2>4, <2>7 DEF Fresh
  <2> QED BY <2>8, <2>9, <2>10
<1> QED BY <1>3, <1>4

(* The block is given up, when an update fails or the chunkmaster restarts. *)
LEMMA BlockLost ==
  ASSUME FInv, fid' = [Begin |-> 0, End |-> 0],
         gen_fid' = gen_fid \/ (gen_fid' = gen_fid + MAX_RANGE /\ gen_fid + MAX_RANGE <= MaxFid)
  PROVE  Block' /\ \A n \in Nat : Fresh(n)' => Fresh(n)
<1>1. /\ gen_fid \in Nat /\ ALLOCATE_RANGE \in Nat /\ MAX_RANGE \in Nat
      /\ MaxFid \in Nat /\ gen_fid <= MaxFid
  BY FidAssumption DEF FInv, FidTypeOK, Block
<1>2. gen_fid' \in Nat /\ gen_fid <= gen_fid' /\ gen_fid' <= MaxFid
  BY <1>1
<1>3. fid'.Begin = 0 /\ fid'.End = 0
  OBVIOUS
<1>4. fid'.End = fid'.Begin + 0 * ALLOCATE_RANGE
  BY <1>1, <1>3
<1>5. Block'
  BY <1>2, <1>3, <1>4 DEF Block
<1>6. \A n \in Nat : Fresh(n)' => Fresh(n)
  BY <1>1, <1>2, <1>3 DEF Fresh
<1> QED BY <1>5, <1>6

(* The fids of a range go from the chunkmaster to the goroutine that asked. *)
LEMMA FidsHandedOut ==
  ASSUME FInv, NEW r \in ImageServers, NEW f \in Goroutines,
         AllocFromBlock \/ AllocNewBlock,
         range' = [range EXCEPT ![r][f] = NextRange], UNCHANGED <<ch, uploaded>>
  PROVE  OnePlace' /\ UploadOnce'
<1>1. range \in [ImageServers -> [Goroutines -> [Start : Nat, End : Nat]]]
  BY DEF FInv, FidTypeOK
<1>2. /\ \A n \in Nat : Fresh(n)' => Fresh(n)
      /\ \A n \in Nat : NextRange.Start <= n /\ n < NextRange.End =>
           n \in Numbers /\ Fresh(n) /\ ~Fresh(n)'
  BY RangeCut
<1>3. \A n \in Nat : Held(r, f, n)' => n \in Numbers /\ Fresh(n) /\ ~Fresh(n)'
  BY <1>1, <1>2 DEF Held
<1>4. \A s \in ImageServers, g \in Goroutines : \A n \in Nat :
        s # r \/ g # f => (Held(s, g, n)' <=> Held(s, g, n))
  BY <1>1 DEF Held
<1>5. \A s \in ImageServers : Queued(s)' = Queued(s)
  BY DEF Queued
<1>6. \A s \in ImageServers : \A n \in Queued(s) : n \in Numbers /\ n \in Nat
  BY FidsAreNumbers DEF FInv
<1>7. Numbers \subseteq Nat
  BY FidsAreNumbers DEF FInv
<1>8. \A n \in Numbers : Fresh(n) => uploaded[n] = 0
  BY DEF FInv, OnePlace
<1>11. \A s \in ImageServers : \A n \in Queued(s)' : ~Fresh(n)' /\ uploaded'[n] = 0
  BY <1>2, <1>5, <1>6 DEF FInv, OnePlace
<1>12. ASSUME NEW s \in ImageServers, NEW g \in Goroutines, NEW n \in Nat, Held(s, g, n)'
       PROVE  n \in Numbers /\ ~Fresh(n)' /\ uploaded'[n] = 0
  <2>1. CASE s = r /\ g = f
    BY <1>3, <1>8, <1>12, <2>1
  <2>2. CASE s # r \/ g # f
    BY <1>2, <1>4, <1>12, <2>2 DEF FInv, OnePlace
  <2> QED BY <2>1, <2>2
<1>13. \A n \in Numbers : uploaded'[n] # 0 => ~Fresh(n)'
  BY <1>2, <1>7 DEF FInv, OnePlace
<1>14. \A s, t \in ImageServers : \A n : n \in Queued(s)' /\ n \in Queued(t)' => s = t
  BY <1>5 DEF FInv, OnePlace
<1>15. ASSUME NEW s \in ImageServers, NEW t \in ImageServers, NEW g \in Goroutines,
              NEW n \in Queued(s)'
       PROVE  ~Held(t, g, n)'
  <2>1. n \in Queued(s) /\ n \in Nat /\ ~Fresh(n)
    BY <1>5, <1>6 DEF FInv, OnePlace
  <2>2. CASE t = r /\ g = f
    BY <1>3, <2>1, <2>2
  <2>3. CASE t # r \/ g # f
    BY <1>4, <2>1, <2>3 DEF FInv, OnePlace
  <2> QED BY <2>2, <2>3
<1>16. ASSUME NEW s \in ImageServers, NEW t \in ImageServers, NEW g \in Goroutines,
              NEW h \in Goroutines,
              NEW n \in Nat, Held(s, g, n)', Held(t, h, n)'
       PROVE  s = t /\ g = h
  <2>1. \A x \in ImageServers, y \in Goroutines : Held(x, y, n) => ~Fresh(n)
    BY DEF FInv, OnePlace
  <2>2. CASE Fresh(n)
    BY <1>4, <1>16, <2>1, <2>2
  <2>3. CASE ~Fresh(n)
    <3>1. ~Held(r, f, n)'
      BY <1>3, <2>3
    <3>2. (s # r \/ g # f) /\ (t # r \/ h # f)
      BY <1>16, <3>1
    <3>3. Held(s, g, n) /\ Held(t, h, n)
      BY <1>4, <1>16, <3>2
    <3> QED BY <3>3 DEF FInv, OnePlace
  <2> QED BY <2>2, <2>3
<1>17. UploadOnce'
  BY DEF FInv, UploadOnce
<1> QED BY <1>11, <1>12, <1>13, <1>14, <1>15, <1>16, <1>17 DEF OnePlace

-----------------------------------------------------------------------------
(* The invariant.                                                          *)

(* The invariant holds at first.                                            *)
LEMMA FInvInit == FidInit => FInv
<1> SUFFICES ASSUME FidInit PROVE FInv
  OBVIOUS
<1>1. MaxFid \in Nat /\ MaxFid >= 1 /\ ALLOCATE_RANGE \in Nat /\ Numbers \subseteq Nat
  <2>1. MaxFid \in Nat \ {0} /\ ALLOCATE_RANGE \in Nat
    BY FidAssumption
  <2> QED BY <2>1 DEF Numbers
<1>2. NoRange \in [Start : Nat, End : Nat] /\ NoRange.Start = 0 /\ NoRange.End = 0
  BY DEF NoRange
<1>3. FidTypeOK
  <2>1. <<>> \in Seq(Numbers)
    OBVIOUS
  <2> QED BY <1>2, <2>1 DEF FidInit, FidTypeOK
<1>4. Block
  <2>1. fid.End = 0 /\ fid.Begin = 0 /\ gen_fid = 1
    BY DEF FidInit
  <2>2. fid.End = fid.Begin + 0 * ALLOCATE_RANGE
    BY <1>1, <2>1
  <2> QED BY <1>1, <2>1, <2>2 DEF Block
<1>5. ASSUME NEW s \in ImageServers PROVE ch[s] = <<>> /\ Queued(s) = {}
  <2>1. ch[s] = <<>>
    BY DEF FidInit
  <2>2. DOMAIN ch[s] = {}
    BY <2>1
  <2> QED BY <2>1, <2>2 DEF Queued, Range
<1>6. \A s \in ImageServers : IsInjective(ch[s])
  BY <1>5 DEF IsInjective
<1>7. \A s \in ImageServers, g \in Goroutines : \A n \in Nat : ~Held(s, g, n)
  BY <1>2 DEF FidInit, Held
<1>8. OnePlace /\ UploadOnce
  BY <1>5, <1>7 DEF FidInit, OnePlace, UploadOnce
<1> QED BY <1>3, <1>4, <1>6, <1>8 DEF FInv

(* A step that touches neither the fids nor the chunkmaster.                *)
LEMMA FidsKept ==
  ASSUME FInv, UNCHANGED <<gen_fid, fid, ch, range, uploaded>>
  PROVE  /\ Block' /\ OnePlace' /\ UploadOnce'
         /\ \A s \in ImageServers : IsInjective(ch'[s])
<1>1. Block'
  BY DEF FInv, Block
<1>2. \A s \in ImageServers : IsInjective(ch'[s])
  BY DEF FInv
<1>3. /\ \A n \in Nat : Fresh(n)' => Fresh(n)
      /\ \A s \in ImageServers : \A n \in Queued(s)' : n \in Queued(s)
      /\ \A s \in ImageServers, g \in Goroutines : \A n \in Nat : Held(s, g, n)' => Held(s, g, n)
  BY DEF Fresh, Queued, Held
<1> QED BY <1>1, <1>2, <1>3, FidsLost

(* What the chunkmaster does moves fids to the goroutine, or loses them.    *)
LEMMA CallFids ==
  ASSUME FInv, ~GetFidFails, NEW s \in ImageServers, NEW g \in Goroutines, CallMaster(s, g)
  PROVE  /\ Block' /\ OnePlace' /\ UploadOnce'
         /\ \A t \in ImageServers : IsInjective(ch'[t])
<1>1. UNCHANGED <<ch, uploaded>> /\ \A t \in ImageServers : IsInjective(ch'[t])
  BY DEF CallMaster, FInv
<1>2. CASE (AllocFromBlock \/ AllocNewBlock) /\ range' = [range EXCEPT ![s][g] = NextRange]
  BY <1>1, <1>2, RangeCut, FidsHandedOut, Zenon
<1>3. ASSUME UNCHANGED range, Block', \A n \in Nat : Fresh(n)' => Fresh(n)
      PROVE  OnePlace' /\ UploadOnce'
  <2>1. /\ \A t \in ImageServers : \A n \in Queued(t)' : n \in Queued(t)
        /\ \A t \in ImageServers, h \in Goroutines : \A n \in Nat : Held(t, h, n)' => Held(t, h, n)
    BY <1>1, <1>3 DEF Queued, Held
  <2> QED BY <1>1, <1>3, <2>1, FidsLost
<1>4. CASE (AllocFromBlock \/ AllocNewBlock) /\ UNCHANGED range
  BY <1>1, <1>3, <1>4, RangeCut
<1>5. CASE AllocFails /\ UNCHANGED range
  <2>1. /\ fid' = [Begin |-> 0, End |-> 0]
        /\ gen_fid' = gen_fid \/ (gen_fid' = gen_fid + MAX_RANGE /\ gen_fid + MAX_RANGE <= MaxFid)
    BY <1>5 DEF AllocFails
  <2> QED BY <1>1, <1>3, <1>5, <2>1, BlockLost
<1>6. CASE UNCHANGED masterVars /\ UNCHANGED range
  BY <1>1, <1>6, FidsKept DEF masterVars
<1> QED BY <1>2, <1>4, <1>5, <1>6 DEF CallMaster

(* Every step keeps the invariant.                                          *)
LEMMA FidStep ==
  ASSUME ~GetFidFails, FInv, [FidNext]_fidVars
  PROVE  FInv'
<1> DEFINE Rest == /\ Block' /\ OnePlace' /\ UploadOnce'
                   /\ \A s \in ImageServers : IsInjective(ch'[s])
<1> HIDE DEF Rest
<1>1. FidTypeOK'
  BY TypeNext
<1>2. ASSUME RestartMaster PROVE Rest
  <2>1. /\ fid' = [Begin |-> 0, End |-> 0]
        /\ gen_fid' = gen_fid \/ (gen_fid' = gen_fid + MAX_RANGE /\ gen_fid + MAX_RANGE <= MaxFid)
        /\ UNCHANGED <<ch, range, uploaded>>
    BY <1>2 DEF RestartMaster
  <2>2. Block' /\ \A n \in Nat : Fresh(n)' => Fresh(n)
    BY <2>1, BlockLost
  <2>3. /\ \A t \in ImageServers : \A n \in Queued(t)' : n \in Queued(t)
        /\ \A t \in ImageServers, h \in Goroutines : \A n \in Nat : Held(t, h, n)' => Held(t, h, n)
    BY <2>1 DEF Queued, Held
  <2>4. \A s \in ImageServers : IsInjective(ch'[s])
    BY <2>1 DEF FInv
  <2> QED BY <2>1, <2>2, <2>3, <2>4, FidsLost DEF Rest
<1>3. ASSUME NEW s \in ImageServers, Receive(s), UNCHANGED <<gen_fid, fid, range>> PROVE Rest
  <2>1. Block'
    BY <1>3 DEF FInv, Block
  <2> QED BY <1>3, <2>1, FidUsed DEF Rest
<1>4. ASSUME UNCHANGED <<gen_fid, fid, ch, range, uploaded>> PROVE Rest
  BY <1>4, FidsKept DEF Rest
<1>5. ASSUME NEW s \in ImageServers, NEW g \in Uploads, getFid(s, g) PROVE Rest
  BY <1>3, <1>4, <1>5 DEF getFid, masterVars
<1>6. ASSUME NEW s \in ImageServers, GetFidRangeTicker(s) PROVE Rest
  BY <1>4, <1>6 DEF GetFidRangeTicker, masterVars
<1>7. ASSUME NEW s \in ImageServers, RestartServer(s) PROVE Rest
  <2>1. /\ ch'[s] = <<>> /\ \A t \in ImageServers \ {s} : ch'[t] = ch[t]
        /\ \A g \in Goroutines : range'[s][g] = NoRange
        /\ \A t \in ImageServers \ {s} : range'[t] = range[t]
        /\ UNCHANGED <<gen_fid, fid, uploaded>>
    BY <1>7 DEF RestartServer, masterVars, FInv, FidTypeOK
  <2>2. NoRange.Start = 0 /\ NoRange.End = 0
    BY DEF NoRange
  <2>3. Queued(s)' = {} /\ \A t \in ImageServers \ {s} : Queued(t)' = Queued(t)
    BY <2>1 DEF Queued, Range
  <2>4. \A t \in ImageServers, h \in Goroutines : \A n \in Nat : Held(t, h, n)' => Held(t, h, n)
    BY <2>1, <2>2 DEF Held
  <2>5. \A n \in Nat : Fresh(n)' => Fresh(n)
    BY <2>1 DEF Fresh
  <2>6. \A t \in ImageServers : IsInjective(ch'[t])
    BY <2>1 DEF FInv, IsInjective
  <2>7. Block'
    BY <2>1 DEF FInv, Block
  <2> QED BY <2>1, <2>3, <2>4, <2>5, <2>6, <2>7, FidsLost DEF Rest
<1>8. ASSUME NEW s \in ImageServers, NEW g \in Goroutines, Merge(s, g) PROVE Rest
  <2>1. UNCHANGED <<gen_fid, fid, uploaded>> /\ Block'
    BY <1>8 DEF Merge, masterVars, FInv, Block
  <2>2. CASE MergePuts(s, g)
    BY <2>1, <2>2, FidPut DEF Rest
  <2>3. CASE MergeEnds(s, g)
    <3>1. /\ ch' = ch /\ range'[s][g] = NoRange
          /\ \A t \in ImageServers, h \in Goroutines :
               t # s \/ h # g => range'[t][h] = range[t][h]
      BY <2>3 DEF MergeEnds, FInv, FidTypeOK
    <3>2. NoRange.Start = 0 /\ NoRange.End = 0
      BY DEF NoRange
    <3>3. \A t \in ImageServers, h \in Goroutines : \A n \in Nat : Held(t, h, n)' => Held(t, h, n)
      BY <3>1, <3>2 DEF Held
    <3>4. /\ \A n \in Nat : Fresh(n)' => Fresh(n)
          /\ \A t \in ImageServers : \A n \in Queued(t)' : n \in Queued(t)
          /\ \A t \in ImageServers : IsInjective(ch'[t])
      BY <2>1, <3>1 DEF Fresh, Queued, FInv
    <3> QED BY <2>1, <3>3, <3>4, FidsLost DEF Rest
  <2> QED BY <1>8, <2>2, <2>3 DEF Merge, MergePuts, MergeEnds
<1>9. ASSUME NEW s \in ImageServers, NEW g \in Goroutines, CallMaster(s, g) PROVE Rest
  BY <1>9, CallFids DEF Rest
<1>10. ASSUME NEW s \in ImageServers, NEW g \in Goroutines,
              GetFidWait(s, g) \/ GetFidAgain(s, g)
       PROVE  Rest
  BY <1>3, <1>4, <1>10 DEF GetFidWait, GetFidAgain, masterVars
<1>11. ASSUME NEW s \in ImageServers, NEW g \in Goroutines,
              CompareAndSwap(s, g) \/ GetFidRange(s, g) \/ SwapBack(s, g)
       PROVE  Rest
  BY <1>4, <1>11 DEF CompareAndSwap, GetFidRange, SwapBack, masterVars
<1>12. ASSUME UNCHANGED fidVars PROVE Rest
  BY <1>4, <1>12 DEF fidVars
<1>13. Rest
  BY <1>2, <1>5, <1>6, <1>7, <1>8, <1>9, <1>10, <1>11, <1>12 DEF FidNext, Server, Continue
<1> QED BY <1>1, <1>13 DEF FInv, Rest

(* No fid that allocFid hands out is used for two files, by any upload of   *)
(* any image server, whatever is lost, fails or restarts, provided allocFid *)
(* can read table gen_fid when its block is used up.                        *)
THEOREM FidsUsedOnce ==
  ASSUME ~GetFidFails
  PROVE  FidSpec => []UploadOnce
<1>1. FInv /\ [FidNext]_fidVars => FInv'
  BY FidStep
<1>2. FInv => UploadOnce
  BY DEF FInv
<1> QED BY <1>1, <1>2, FInvInit, PTL DEF FidSpec
(* Every variable of the allocator and the image servers keeps its type.    *)
THEOREM FidTypes ==
  ASSUME ~GetFidFails
  PROVE  FidSpec => []FidTypeOK
<1>1. FInv /\ [FidNext]_fidVars => FInv'
  BY FidStep
<1>2. FInv => FidTypeOK
  BY DEF FInv
<1> QED BY <1>1, <1>2, FInvInit, PTL DEF FidSpec

-----------------------------------------------------------------------------
(* getFidRetryCount as a lock.                                             *)

Places == {"idle", "swap", "wait", "range", "call", "merge", "get", "swapback"}

\* The ticker does not take part in the lock.
TickerPlaces == {"idle", "range", "call", "merge"}

\* The lock is free and no upload refills the channel, or one upload has it.
Lock(s) ==
  \/ getFidRetryCount[s] = 0 /\ Refilling(s) = {}
  \/ getFidRetryCount[s] = 1 /\ \E g \in Uploads : Refilling(s) = {g}

LInv ==
  /\ getFidRetryCount \in [ImageServers -> {0, 1}]
  /\ pc \in [ImageServers -> [Goroutines -> Places]]
  /\ \A s \in ImageServers : pc[s][Ticker] \in TickerPlaces
  /\ \A s \in ImageServers : Lock(s)

(* A step of a goroutine that stays inside, or stays outside, and leaves    *)
(* the counter alone.                                                       *)
LEMMA LockKept ==
  ASSUME LInv, NEW s \in ImageServers, NEW g \in Goroutines, NEW where \in Places,
         Goto(s, g, where), UNCHANGED getFidRetryCount,
         g \in Uploads => (where \in Inside <=> pc[s][g] \in Inside),
         g = Ticker => where \in TickerPlaces
  PROVE  LInv'
<1>1. pc' \in [ImageServers -> [Goroutines -> Places]]
  BY DEF LInv, Goto
<1>2. \A t \in ImageServers : Refilling(t)' = Refilling(t)
  BY DEF LInv, Goto, Refilling, Goroutines
<1>3. \A t \in ImageServers : pc'[t][Ticker] \in TickerPlaces
  BY DEF LInv, Goto, Goroutines
<1> QED BY <1>1, <1>2, <1>3 DEF LInv, Lock

(* An upload that takes or gives back its lock leaves those of others alone. *)
LEMMA LockOfOthers ==
  ASSUME LInv, NEW s \in ImageServers, NEW g \in Uploads, NEW where \in Places,
         Goto(s, g, where), NEW n \in {0, 1},
         getFidRetryCount' = [getFidRetryCount EXCEPT ![s] = n], Lock(s)'
  PROVE  LInv'
<1>1. pc' \in [ImageServers -> [Goroutines -> Places]]
  BY Zenon DEF LInv, Goto
<1>2. getFidRetryCount' \in [ImageServers -> {0, 1}]
  BY DEF LInv
<1>3. \A t \in ImageServers \ {s} :
        Refilling(t)' = Refilling(t) /\ getFidRetryCount'[t] = getFidRetryCount[t]
  BY DEF LInv, Goto, Refilling
<1>4. \A t \in ImageServers \ {s} : Lock(t)'
  BY <1>3 DEF LInv, Lock
<1>5. \A t \in ImageServers : pc'[t][Ticker] \in TickerPlaces
  BY FidAssumption DEF LInv, Goto, Goroutines
<1> QED BY <1>1, <1>2, <1>4, <1>5 DEF LInv

(* Taking and giving back the lock, and every step between.                 *)
LEMMA LockContinue ==
  ASSUME LInv, NEW s \in ImageServers, NEW g \in Goroutines, Continue(s, g)
  PROVE  LInv'
<1> USE DEF Places, Inside, TickerPlaces
<1>0. pc \in [ImageServers -> [Goroutines -> Places]] /\ getFidRetryCount[s] \in {0, 1}
      /\ (pc[s][g] \notin TickerPlaces => g \in Uploads /\ g # Ticker)
  BY FidAssumption, Zenon DEF LInv, Goroutines
<1>1. CASE CompareAndSwap(s, g)
  <2>1. g \in Uploads /\ pc[s][g] = "swap"
    BY <1>0, <1>1 DEF CompareAndSwap
  <2>2. \A h \in Uploads \ {g} : pc'[s][h] = pc[s][h]
    BY <1>0, <1>1 DEF CompareAndSwap, Goto, Goroutines
  <2>3. CASE getFidRetryCount[s] = 0
    <3>1. pc'[s][g] = "range" /\ getFidRetryCount'[s] = 1
      BY <1>0, <1>1, <2>3 DEF CompareAndSwap, Goto, LInv
    <3>2. Refilling(s) = {}
      BY <2>3 DEF LInv, Lock
    <3>3. Refilling(s)' = {g}
      BY <2>1, <2>2, <3>1, <3>2 DEF Refilling
    <3>4. Lock(s)'
      BY <2>1, <3>1, <3>3 DEF Lock
    <3> QED BY <1>1, <2>1, <2>3, <3>4, LockOfOthers, Zenon DEF CompareAndSwap
  <2>4. CASE getFidRetryCount[s] = 1
    <3>1. getFidRetryCount' = getFidRetryCount
      BY <1>1, <2>4 DEF CompareAndSwap, LInv
    <3> QED BY <1>0, <1>1, <2>1, <2>4, <3>1, LockKept DEF CompareAndSwap
  <2> QED BY <1>0, <2>3, <2>4
<1>2. CASE GetFidWait(s, g)
  BY <1>0, <1>2, LockKept DEF GetFidWait
<1>3. CASE GetFidRange(s, g)
  <2>1. /\ g \in Uploads => AfterRange(g) = "get"
        /\ g = Ticker => AfterRange(g) = "idle"
    BY FidAssumption DEF AfterRange
  <2>2. AfterRange(g) \in Places
    BY DEF AfterRange
  <2> QED BY <1>3, <2>1, <2>2, LockKept DEF GetFidRange
<1>4. CASE CallMaster(s, g)
  <2>1. /\ g \in Uploads => AfterError(g) = "swapback"
        /\ g = Ticker => AfterError(g) = "idle"
    BY FidAssumption DEF AfterError
  <2>2. AfterError(g) \in Places
    BY DEF AfterError
  <2> QED BY <1>4, <2>1, <2>2, LockKept DEF CallMaster
<1>5. CASE Merge(s, g)
  <2>1. /\ g \in Uploads => AfterRange(g) = "get"
        /\ g = Ticker => AfterRange(g) = "idle"
    BY FidAssumption DEF AfterRange
  <2>2. AfterRange(g) \in Places
    BY DEF AfterRange
  <2>3. CASE UNCHANGED pc
    BY <1>5, <2>3 DEF Merge, LInv, Lock, Refilling
  <2>4. CASE Goto(s, g, AfterRange(g))
    BY <1>5, <2>1, <2>2, <2>4, LockKept, Zenon DEF Merge
  <2> QED BY <1>5, <2>3, <2>4 DEF Merge
<1>6. CASE GetFidAgain(s, g)
  BY <1>0, <1>6, LockKept DEF GetFidAgain
<1>7. CASE SwapBack(s, g)
  <2>1. g \in Uploads /\ pc[s][g] = "swapback"
    BY <1>0, <1>7 DEF SwapBack
  <2>2. g \in Refilling(s)
    BY <2>1 DEF Refilling
  <2>3. Refilling(s) = {g}
    BY <2>2 DEF LInv, Lock
  <2>4. pc'[s][g] = "idle" /\ \A h \in Uploads \ {g} : pc'[s][h] = pc[s][h]
    BY <1>0, <1>7 DEF SwapBack, Goto, Goroutines
  <2>5. Refilling(s)' = {} /\ getFidRetryCount'[s] = 0
    BY <1>7, <2>3, <2>4 DEF Refilling, SwapBack, LInv
  <2>6. Lock(s)'
    BY <2>5 DEF Lock
  <2> QED BY <1>7, <2>1, <2>6, LockOfOthers, Zenon DEF SwapBack
<1> QED BY <1>1, <1>2, <1>3, <1>4, <1>5, <1>6, <1>7 DEF Continue

(* So does every step.                                                      *)
LEMMA LockStep ==
  ASSUME LInv, [FidNext]_fidVars
  PROVE  LInv'
<1>1. ASSUME UNCHANGED <<pc, getFidRetryCount>> PROVE LInv'
  BY <1>1 DEF LInv, Lock, Refilling
<1>2. ASSUME NEW s \in ImageServers, NEW g \in Uploads, getFid(s, g) PROVE LInv'
  <2>1. CASE UNCHANGED pc
    BY <1>1, <1>2, <2>1 DEF getFid
  <2>2. CASE Goto(s, g, "swap")
    <3>1. g \in Goroutines /\ g # Ticker /\ "swap" \in Places /\ "swap" \notin Inside
      BY FidAssumption DEF Goroutines, Places, Inside
    <3>2. pc[s][g] \notin Inside /\ UNCHANGED getFidRetryCount
      BY <1>2 DEF getFid, Inside
    <3> QED BY <2>2, <3>1, <3>2, LockKept
  <2> QED BY <1>2, <2>1, <2>2 DEF getFid
<1>3. ASSUME NEW s \in ImageServers, GetFidRangeTicker(s) PROVE LInv'
  <2>1. Ticker \in Goroutines /\ Ticker \notin Uploads /\ "range" \in Places
        /\ "range" \in TickerPlaces
    BY FidAssumption DEF Goroutines, Places, TickerPlaces
  <2> QED BY <1>3, <2>1, LockKept DEF GetFidRangeTicker
<1>4. ASSUME NEW s \in ImageServers, RestartServer(s) PROVE LInv'
  <2>1. /\ pc' \in [ImageServers -> [Goroutines -> Places]]
        /\ getFidRetryCount' \in [ImageServers -> {0, 1}]
        /\ getFidRetryCount'[s] = 0 /\ \A g \in Goroutines : pc'[s][g] = "idle"
        /\ \A t \in ImageServers \ {s} :
             pc'[t] = pc[t] /\ getFidRetryCount'[t] = getFidRetryCount[t]
    BY <1>4 DEF RestartServer, LInv, Places
  <2>2. Refilling(s)' = {} /\ pc'[s][Ticker] \in TickerPlaces
    BY <2>1 DEF Refilling, Inside, Goroutines, TickerPlaces
  <2>3. \A t \in ImageServers \ {s} : Refilling(t)' = Refilling(t)
    BY <2>1 DEF Refilling
  <2>4. ASSUME NEW t \in ImageServers PROVE Lock(t)' /\ pc'[t][Ticker] \in TickerPlaces
    <3>1. CASE t = s
      BY <2>1, <2>2, <3>1 DEF Lock
    <3>2. CASE t # s
      <4>1. Lock(t) /\ pc[t][Ticker] \in TickerPlaces
        BY DEF LInv
      <4>2. Refilling(t)' = Refilling(t) /\ pc'[t] = pc[t]
            /\ getFidRetryCount'[t] = getFidRetryCount[t]
        BY <2>1, <2>3, <3>2
      <4> QED BY <4>1, <4>2 DEF Lock
    <3> QED BY <3>1, <3>2
  <2> QED BY <2>1, <2>4 DEF LInv
<1>5. ASSUME RestartMaster PROVE LInv'
  BY <1>1, <1>5 DEF RestartMaster
<1>6. ASSUME UNCHANGED fidVars PROVE LInv'
  BY <1>1, <1>6 DEF fidVars
<1> QED BY <1>2, <1>3, <1>4, <1>5, <1>6, LockContinue DEF FidNext, Server

(* One upload at a time refills the channel of an image server, and         *)
(* getFidRetryCount is 1 exactly while it does, for any number of uploads   *)
(* and restarts, and whether or not the chunkmaster can read its table.     *)
THEOREM OneUploadRefills == FidSpec => []OneRefill
<1>1. FidInit => LInv
  <2> SUFFICES ASSUME FidInit PROVE LInv
    OBVIOUS
  <2>1. \A s \in ImageServers : Refilling(s) = {} /\ getFidRetryCount[s] = 0
    BY Zenon DEF FidInit, Refilling, Inside, Goroutines
  <2>2. /\ getFidRetryCount \in [ImageServers -> {0, 1}]
        /\ pc \in [ImageServers -> [Goroutines -> Places]]
        /\ \A s \in ImageServers : pc[s][Ticker] \in TickerPlaces
    BY DEF FidInit, Places, TickerPlaces, Goroutines
  <2> QED BY <2>1, <2>2 DEF LInv, Lock
<1>2. LInv => OneRefill
  BY Zenon DEF LInv, Lock, OneRefill
<1> QED BY <1>1, <1>2, LockStep, PTL DEF FidSpec

-----------------------------------------------------------------------------
(* The map of chunk servers.                                               *)

-----------------------------------------------------------------------------
(* The inductive invariant.                                                *)

ReportState ==
  [pc : {"idle", "INIT", "RW", "RO", "store"}, server : Servers \cup {Nil},
   old : {"map", "INIT", "RW", "RO"}, status : {"INIT", "RW", "RO"}]
MonitorState == [pc : {"idle", "row"} \cup Servers, todo : SUBSET Servers]
LoadState == [pc : {"idle", "loaded"}, list : [Servers -> Row]]
AddState ==
  [pc : {"idle", "row", "cache"}, todo : SUBSET Servers, shared : SUBSET Servers,
   server : Servers \cup {Nil}]

Types ==
  /\ db \in [Servers -> Row]
  /\ serverInfo \in [Servers -> Chunkserver \cup {Nil}]
  /\ report \in [Handlers -> ReportState]
  /\ monitor \in MonitorState
  /\ load \in LoadState
  /\ add \in AddState
  /\ alive \in SUBSET Servers
  /\ failures \in 0..MaxFailures
  /\ operator \in 0..MaxOperator

\* A handler of a report that has begun has a server, and its struct if the map has it.
Reports ==
  \A h \in Handlers :
    /\ report[h].pc = "idle" <=> report[h].server = Nil
    /\ report[h].pc # "idle" /\ report[h].old = "map" => Registered(report[h].server)

\* Rows are never deleted: what the map holds or a load has read is stored.
Rows ==
  \A s \in Servers :
    /\ db[s].status = "ERR" => db[s].stored
    /\ Registered(s) => db[s].stored
    /\ load.list[s].stored => db[s].stored
    /\ load.list[s].status = "ERR" => load.list[s].stored

\* The keys of a batch lead to a struct, which is not RW.
Batch ==
  /\ \A s \in add.shared : Registered(s) /\ ~RW(s)
  /\ add.pc = "cache" => add.server \in Servers /\ db[add.server].stored

MInv == Types /\ Reports /\ Rows /\ Batch

-----------------------------------------------------------------------------
(* Values.                                                                 *)

(* The struct of a report or of a registration.                             *)
LEMMA GenTypes ==
  ASSUME NEW s \in Servers
  PROVE  /\ GenChunkserver(s) \in Chunkserver /\ GenChunkserver(s) # Nil
         /\ GenChunkserver(s).status = "INIT"
<1>1. /\ GenChunkserver(s) = [server |-> s, status |-> "INIT", global |-> "NORMAL", age |-> 0]
      /\ 0 \in 0..(Timeout + 1)
  BY MasterAssumption DEF GenChunkserver, ChunkserverOf
<1>2. GenChunkserver(s) \in Chunkserver /\ GenChunkserver(s).status = "INIT"
  BY <1>1 DEF Chunkserver, Status, GlobalStatus
<1> QED BY <1>2, NilAssumption

(* What the variables hold when nobody is at work.                          *)
LEMMA IdleTypes ==
  /\ NoReport \in ReportState /\ NoReport.pc = "idle" /\ NoReport.server = Nil
  /\ NoMonitor \in MonitorState
  /\ NoLoad \in LoadState /\ NoLoad.pc = "idle" /\ \A s \in Servers : NoLoad.list[s] = NoRow
  /\ NoAdd \in AddState /\ NoAdd.pc = "idle" /\ NoAdd.shared = {}
  /\ NoRow \in Row /\ NoRow.status = "INIT" /\ ~NoRow.stored
<1>1. NoRow \in Row /\ NoRow.status = "INIT" /\ NoRow.stored = FALSE
  BY DEF NoRow, Row, Status, GlobalStatus
<1>2. NoReport \in ReportState /\ NoReport.pc = "idle" /\ NoReport.server = Nil
  BY DEF NoReport, ReportState
<1>3. NoMonitor \in MonitorState
  BY DEF NoMonitor, MonitorState
<1>4. NoLoad \in LoadState /\ NoLoad.pc = "idle" /\ \A s \in Servers : NoLoad.list[s] = NoRow
  BY <1>1 DEF NoLoad, LoadState
<1>5. NoAdd \in AddState /\ NoAdd.pc = "idle" /\ NoAdd.shared = {}
  BY DEF NoAdd, AddState
<1> QED BY <1>1, <1>2, <1>3, <1>4, <1>5

(* A struct in the map.                                                     *)
LEMMA StructTypes ==
  ASSUME Types, NEW s \in Servers
  PROVE  /\ Registered(s) <=> serverInfo[s] \in Chunkserver
         /\ Registered(s) => serverInfo[s].status \in {"INIT", "RW", "RO"}
<1>1. serverInfo[s] \in Chunkserver \cup {Nil}
  BY DEF Types
<1>2. serverInfo[s] \in Chunkserver => serverInfo[s].status \in {"INIT", "RW", "RO"}
  BY DEF Chunkserver, Status
<1> QED BY <1>1, <1>2, NilAssumption DEF Registered

(* The handlers of reports when structs leave the map.                      *)
LEMMA LetGoTypes ==
  ASSUME Types, Reports, NEW ss \in SUBSET Servers
  PROVE  /\ LetGo(ss) \in [Handlers -> ReportState]
         /\ \A h \in Handlers :
              /\ LetGo(ss)[h].pc = report[h].pc /\ LetGo(ss)[h].server = report[h].server
              /\ LetGo(ss)[h].old = "map" => report[h].old = "map" /\ report[h].server \notin ss
<1>1. ASSUME NEW h \in Handlers
      PROVE  /\ LetGo(ss)[h] \in ReportState
             /\ LetGo(ss)[h].pc = report[h].pc /\ LetGo(ss)[h].server = report[h].server
             /\ LetGo(ss)[h].old = "map" => report[h].old = "map" /\ report[h].server \notin ss
  <2>1. report[h] \in ReportState
    BY DEF Types
  <2>2. CASE report[h].server \in ss /\ report[h].old = "map"
    <3> DEFINE o == OldStatus(report[h])
               r == [report[h] EXCEPT !.old = o]
    <3>1. report[h].server \in Servers /\ Registered(report[h].server)
      BY <2>2, NilAssumption DEF Reports
    <3>2. o \in {"INIT", "RW", "RO"}
      BY <2>2, <3>1, StructTypes DEF OldStatus
    <3>3. LetGo(ss)[h] = r
      BY <2>2 DEF LetGo
    <3> HIDE DEF o
    <3>4. /\ r \in ReportState /\ r.pc = report[h].pc /\ r.server = report[h].server
          /\ r.old = o
      BY <2>1, <3>2 DEF ReportState
    <3> HIDE DEF r
    <3> QED BY <3>2, <3>3, <3>4
  <2>3. CASE ~(report[h].server \in ss /\ report[h].old = "map")
    <3>1. LetGo(ss)[h] = report[h]
      BY <2>3 DEF LetGo
    <3> QED BY <2>1, <2>3, <3>1
  <2> QED BY <2>2, <2>3
<1>2. LetGo(ss) \in [Handlers -> ReportState]
  <2>1. LetGo(ss) = [h \in Handlers |-> LetGo(ss)[h]]
    BY DEF LetGo
  <2> QED BY <1>1, <2>1
<1> QED BY <1>1, <1>2

(* The structs of the servers ss leave the map or are replaced in it.       *)
LEMMA ReportsLetGo ==
  ASSUME Types, Reports, NEW ss \in SUBSET Servers, report' = LetGo(ss),
         \A s \in Servers \ ss : Registered(s) => Registered(s)'
  PROVE  report' \in [Handlers -> ReportState] /\ Reports'
<1>1. ASSUME NEW h \in Handlers
      PROVE  /\ report'[h].pc = "idle" <=> report'[h].server = Nil
             /\ report'[h].pc # "idle" /\ report'[h].old = "map"
                  => serverInfo'[report'[h].server] # Nil
  <2>1. /\ report'[h].pc = report[h].pc /\ report'[h].server = report[h].server
        /\ report'[h].old = "map" => report[h].old = "map" /\ report[h].server \notin ss
    BY LetGoTypes
  <2>2. /\ report[h].pc = "idle" <=> report[h].server = Nil
        /\ report[h].pc # "idle" /\ report[h].old = "map" => Registered(report[h].server)
        /\ report[h].server \in Servers \cup {Nil}
    BY DEF Reports, Types, ReportState
  <2> QED BY <2>1, <2>2 DEF Registered
<1>2. Reports'
  BY <1>1, Zenon DEF Reports, Registered
<1> QED BY <1>2, LetGoTypes

(* An update of a status leaves the rows as they are otherwise, and does    *)
(* not touch a row in error.                                                *)
LEMMA UpdatedTypes ==
  ASSUME Types, NEW s \in Servers, NEW pre \in {"INIT", "RW", "RO"}, NEW status \in {"RW", "RO"}
  PROVE  /\ Updated(s, pre, status) \in [Servers -> Row]
         /\ \A t \in Servers :
              /\ Updated(s, pre, status)[t].stored = db[t].stored
              /\ Updated(s, pre, status)[t].status = "ERR" <=> db[t].status = "ERR"
<1>1. db \in [Servers -> Row]
  BY DEF Types
<1>2. CASE db[s].stored /\ db[s].status = pre
  <2> DEFINE r == [db[s] EXCEPT !.status = status]
  <2>1. r \in Row /\ r.stored = db[s].stored /\ r.status = status
    BY <1>1 DEF Row, Status
  <2>2. Updated(s, pre, status) = [db EXCEPT ![s] = r]
    BY <1>2 DEF Updated
  <2> HIDE DEF r
  <2> QED BY <1>1, <1>2, <2>1, <2>2, Zenon
<1>3. CASE ~(db[s].stored /\ db[s].status = pre)
  <2>1. Updated(s, pre, status) = db
    BY <1>3 DEF Updated
  <2> QED BY <1>1, <2>1
<1> QED BY <1>2, <1>3

(* The map of a load.                                                       *)
LEMMA LoadedTypes ==
  ASSUME NEW rows \in [Servers -> Row]
  PROVE  /\ Loaded(rows) \in [Servers -> Chunkserver \cup {Nil}]
         /\ \A s \in Servers :
              Loaded(rows)[s] # Nil => rows[s].stored /\ rows[s].status # "ERR"
<1>1. ASSUME NEW s \in Servers, s \in Loadable(rows)
      PROVE  ChunkserverOf(s, rows[s].status, rows[s].global) \in Chunkserver
  <2>1. rows[s].status \in Status \ {"ERR"} /\ rows[s].global \in GlobalStatus
    BY <1>1 DEF Loadable, Row
  <2>2. 0 \in 0..(Timeout + 1)
    BY MasterAssumption
  <2> QED BY <2>1, <2>2 DEF ChunkserverOf, Chunkserver
<1>2. \A s \in Servers : Loaded(rows)[s] \in Chunkserver \cup {Nil}
  BY <1>1 DEF Loaded
<1>3. Loaded(rows) = [s \in Servers |-> Loaded(rows)[s]]
  BY DEF Loaded
<1>4. \A s \in Servers : Loaded(rows)[s] # Nil => s \in Loadable(rows)
  BY DEF Loaded
<1> QED BY <1>2, <1>3, <1>4 DEF Loadable

-----------------------------------------------------------------------------
(* The steps.                                                              *)

(* The rows change, none is deleted, and only stored ones are in error.     *)
LEMMA RowsKept ==
  ASSUME MInv, db' \in [Servers -> Row],
         \A s \in Servers : /\ db[s].stored => db'[s].stored
                            /\ db'[s].status = "ERR" => db'[s].stored,
         UNCHANGED <<serverInfo, load>>
  PROVE  Rows'
BY DEF MInv, Rows, Registered

(* A call to the database that fails is counted.                            *)
LEMMA FailureCounted ==
  ASSUME Types, DatabaseError
  PROVE  UNCHANGED db /\ failures' \in 0..MaxFailures
BY MasterAssumption DEF Types, DatabaseError

(* So is what an operator does.                                             *)
LEMMA OperatorCounted ==
  ASSUME Types, Operate
  PROVE  operator' \in 0..MaxOperator
BY MasterAssumption DEF Types, Operate

(* reportChunkserverInfoHandler.                                            *)
LEMMA ReportBegins ==
  ASSUME MInv, NEW h \in Handlers, NEW s \in Servers, reportChunkserverInfoHandler(h, s)
  PROVE  MInv'
<1> DEFINE r == [pc |-> "INIT", server |-> s, old |-> "map", status |-> GenChunkserver(s).status]
<1>1. /\ report' = [report EXCEPT ![h] = r] /\ Registered(s)
      /\ UNCHANGED <<db, serverInfo, monitor, load, add, alive, failures, operator>>
  BY DEF reportChunkserverInfoHandler
<1>2. r \in ReportState /\ r.pc = "INIT" /\ r.server = s /\ s # Nil
  BY GenTypes, NilAssumption, Zenon DEF ReportState
<1> HIDE DEF r
<1>3. Types'
  BY <1>1, <1>2 DEF MInv, Types
<1>4. \A g \in Handlers : report'[g] = IF g = h THEN r ELSE report[g]
  BY <1>1 DEF MInv, Types
<1>5. Reports'
  BY <1>1, <1>2, <1>4 DEF MInv, Reports, Registered
<1>6. Rows' /\ Batch'
  BY <1>1, Zenon DEF MInv, Rows, Batch, Registered, RW
<1> QED BY <1>3, <1>5, <1>6 DEF MInv

(* What a branch leaves of the handler.                                     *)
LEMMA TestedTypes ==
  ASSUME NEW r \in ReportState, r.pc \in {"INIT", "RW", "RO"},
         NEW status \in {"INIT", "RW", "RO"}
  PROVE  /\ Tested(r, status) \in ReportState
         /\ Tested(r, status).pc # "idle" /\ Tested(r, status).server = r.server
         /\ Tested(r, status).old = "map" => r.old = "map"
<1>1. CASE r.pc = "INIT"
  <2>1. Tested(r, status) = [r EXCEPT !.pc = "RW", !.status = status]
    BY <1>1 DEF Tested
  <2> QED BY <2>1, Zenon DEF ReportState
<1>2. CASE r.pc = "RW"
  <2>1. Tested(r, status) = [r EXCEPT !.pc = "RO", !.status = status]
    BY <1>2 DEF Tested
  <2> QED BY <2>1, Zenon DEF ReportState
<1>3. CASE r.pc = "RO"
  <2>1. Tested(r, status) = [r EXCEPT !.pc = "store", !.status = status, !.old = "INIT"]
    BY <1>3 DEF Tested
  <2> QED BY <2>1, Zenon DEF ReportState
<1> QED BY <1>1, <1>2, <1>3

(* reportChunkserverInfo, one branch.                                       *)
LEMMA ReportTests ==
  ASSUME MInv, NEW h \in Handlers, reportChunkserverInfo(h)
  PROVE  /\ MInv'
         /\ \A s \in Servers : db[s].status = "ERR" => db'[s].status = "ERR"
<1> DEFINE r == report[h]
<1>1. /\ r.pc \in {"INIT", "RW", "RO"} /\ r \in ReportState /\ r.server \in Servers
      /\ r.pc # "idle"
      /\ UNCHANGED <<serverInfo, monitor, load, add, alive, operator>>
  BY Zenon DEF reportChunkserverInfo, MInv, Types, Reports, ReportState
<1>2. /\ db' \in [Servers -> Row] /\ failures' \in 0..MaxFailures
      /\ \A s \in Servers : /\ db'[s].stored = db[s].stored
                            /\ db'[s].status = "ERR" <=> db[s].status = "ERR"
  <2>1. CASE db' = Updated(r.server, r.pc, StatusAfter(r.pc)) /\ UNCHANGED failures
    BY <1>1, <2>1, UpdatedTypes DEF StatusAfter, MInv, Types
  <2>2. CASE UNCHANGED db /\ failures' \in 0..MaxFailures
    BY <2>2 DEF MInv, Types
  <2>3. UNCHANGED failures => failures' \in 0..MaxFailures
    BY DEF MInv, Types
  <2> QED BY <2>1, <2>2, <2>3, FailureCounted, Zenon DEF reportChunkserverInfo, MInv
<1>3. PICK q \in ReportState :
        /\ report' = [report EXCEPT ![h] = q]
        /\ q.pc = "idle" <=> q.server = Nil
        /\ q.pc # "idle" /\ q.old = "map" => Registered(q.server)
  <2>1. ASSUME NEW status \in {"INIT", "RW", "RO"},
               report' = [report EXCEPT ![h] = Tested(r, status)]
        PROVE  \E q \in ReportState :
                 /\ report' = [report EXCEPT ![h] = q]
                 /\ q.pc = "idle" <=> q.server = Nil
                 /\ q.pc # "idle" /\ q.old = "map" => Registered(q.server)
    <3> DEFINE q == Tested(r, status)
    <3>1. /\ q \in ReportState /\ q.pc # "idle" /\ q.server = r.server
          /\ q.old = "map" => r.old = "map"
      BY <1>1, TestedTypes
    <3>2. r.old = "map" => Registered(r.server)
      BY <1>1, Zenon DEF MInv, Reports
    <3> HIDE DEF q
    <3>3. report' = [report EXCEPT ![h] = q]
      BY <2>1 DEF q
    <3> QED BY <1>1, <3>1, <3>2, <3>3, NilAssumption, Zenon
  <2>2. CASE report' = [report EXCEPT ![h] = NoReport]
    BY <2>2, IdleTypes, Zenon
  <2>3. r.status \in {"INIT", "RW", "RO"} /\ StatusAfter(r.pc) \in {"INIT", "RW", "RO"}
    BY <1>1 DEF ReportState, StatusAfter
  <2> QED BY <2>1, <2>2, <2>3, Zenon DEF reportChunkserverInfo
<1>4. \A g \in Handlers : report'[g] = IF g = h THEN q ELSE report[g]
  BY <1>3 DEF MInv, Types
<1>5. Types'
  BY <1>1, <1>2, <1>3 DEF MInv, Types
<1>6. Reports'
  BY <1>1, <1>3, <1>4, Zenon DEF MInv, Reports, Registered
<1>7. Rows'
  BY <1>1, <1>2, RowsKept, Zenon DEF MInv, Rows
<1>8. Batch'
  BY <1>1, <1>2, Zenon DEF MInv, Batch, Registered, RW
<1> QED BY <1>2, <1>5, <1>6, <1>7, <1>8 DEF MInv

(* The end of reportChunkserverInfo.                                        *)
LEMMA ReportStores ==
  ASSUME MInv, NEW h \in Handlers, reportStore(h)
  PROVE  MInv' /\ \A s \in Servers : Registered(s)' => Registered(s)
<1> DEFINE r == report[h]
           s == r.server
           new == [GenChunkserver(s) EXCEPT !.status = r.status]
<1>1. /\ r.pc = "store" /\ r \in ReportState /\ s \in Servers
      /\ UNCHANGED <<db, monitor, load, alive, failures, operator>>
      /\ serverInfo' = Store(s, new)
      /\ report' = [LetGo({s}) EXCEPT ![h] = NoReport]
      /\ add' = [add EXCEPT !.shared = @ \ {s}]
  BY DEF reportStore, MInv, Types, Reports, ReportState
<1>2. new \in Chunkserver /\ new # Nil
  <2>1. r.status \in Status \ {"ERR"}
    BY <1>1 DEF ReportState, Status
  <2>2. new \in Chunkserver
    BY <1>1, <2>1, GenTypes DEF Chunkserver
  <2> QED BY <2>2, NilAssumption
<1> HIDE DEF new
<1>3. /\ serverInfo' \in [Servers -> Chunkserver \cup {Nil}]
      /\ \A t \in Servers : /\ t # s => serverInfo'[t] = serverInfo[t]
                            /\ Registered(t)' <=> Registered(t)
  BY <1>1, <1>2 DEF MInv, Types, Store, Registered
<1>4. /\ report' \in [Handlers -> ReportState]
      /\ report'[h] = NoReport
      /\ \A g \in Handlers \ {h} : report'[g] = LetGo({s})[g]
  BY <1>1, LetGoTypes, IdleTypes DEF MInv
<1>5. /\ add' \in AddState /\ add'.shared = add.shared \ {s}
      /\ add'.pc = add.pc /\ add'.server = add.server
  BY <1>1 DEF MInv, Types, AddState
<1>6. Types'
  BY <1>1, <1>3, <1>4, <1>5, Zenon DEF MInv, Types
<1>7. Reports'
  <2> SUFFICES ASSUME NEW g \in Handlers
               PROVE  /\ report'[g].pc = "idle" <=> report'[g].server = Nil
                      /\ report'[g].pc # "idle" /\ report'[g].old = "map"
                           => serverInfo'[report'[g].server] # Nil
    BY DEF Reports, Registered
  <2>1. CASE g = h
    BY <1>4, <2>1, IdleTypes
  <2>2. CASE g # h
    <3>1. /\ report'[g].pc = report[g].pc /\ report'[g].server = report[g].server
          /\ report'[g].old = "map" => report[g].old = "map"
      BY <1>1, <1>4, <2>2, LetGoTypes DEF MInv
    <3>2. /\ report[g].pc = "idle" <=> report[g].server = Nil
          /\ report[g].pc # "idle" /\ report[g].old = "map" => Registered(report[g].server)
          /\ report[g].server \in Servers \cup {Nil}
      BY DEF MInv, Reports, Types, ReportState
    <3> QED BY <1>3, <3>1, <3>2 DEF Registered
  <2> QED BY <2>1, <2>2
<1>8. Rows'
  BY <1>1, <1>3 DEF MInv, Rows
<1>9. Batch'
  BY <1>1, <1>3, <1>5 DEF MInv, Types, AddState, Batch, Registered, RW
<1> QED BY <1>3, <1>6, <1>7, <1>8, <1>9, Zenon DEF MInv

(* What the monitor has still to do.                                        *)
LEMMA MonitorTypes ==
  ASSUME Types, NEW s \in Servers
  PROVE  MonitorAfter(s) \in MonitorState
BY IdleTypes, Zenon DEF Types, MonitorAfter, MonitorState

(* chunkserverMonitor and monitorRow, the update of the row.                *)
LEMMA MonitorRows ==
  ASSUME MInv, chunkserverMonitor \/ \E s \in Servers : monitorRow(s)
  PROVE  /\ MInv'
         /\ \A s \in Servers : db[s].status = "ERR" => db'[s].status = "ERR"
<1>1. UNCHANGED <<serverInfo, report, load, add, alive, operator>>
  BY DEF chunkserverMonitor, monitorRow
<1> DEFINE Kept ==
      /\ db' \in [Servers -> Row] /\ failures' \in 0..MaxFailures /\ monitor' \in MonitorState
      /\ \A s \in Servers : /\ db'[s].stored = db[s].stored
                            /\ db'[s].status = "ERR" <=> db[s].status = "ERR"
<1>2. Kept
  <2>1. CASE chunkserverMonitor
    BY <2>1 DEF chunkserverMonitor, MInv, Types, MonitorState
  <2>2. ASSUME NEW s \in Servers, db' = Updated(s, "RW", "RO"),
               monitor' = [monitor EXCEPT !.pc = s], UNCHANGED failures
        PROVE  Kept
    <3>1. monitor' \in MonitorState
      BY <2>2 DEF MInv, Types, MonitorState
    <3> QED BY <2>2, <3>1, UpdatedTypes DEF MInv, Types
  <2>3. ASSUME NEW s \in Servers, DatabaseError, monitor' = MonitorAfter(s)
        PROVE  Kept
    BY <2>3, FailureCounted, MonitorTypes DEF MInv, Types
  <2> HIDE DEF Kept
  <2> QED BY <2>1, <2>2, <2>3 DEF monitorRow
<1>3. Types'
  BY <1>1, <1>2 DEF MInv, Types
<1>4. Reports'
  BY <1>1 DEF MInv, Reports, Registered
<1>5. Rows'
  BY <1>1, <1>2, RowsKept, Zenon DEF MInv, Rows
<1>6. Batch'
  BY <1>1, <1>2, Zenon DEF MInv, Batch, Registered, RW
<1> QED BY <1>2, <1>3, <1>4, <1>5, <1>6, Zenon DEF MInv

(* Structs of the map change in place, and those of a batch do not become   *)
(* RW.                                                                      *)
LEMMA StructsKept ==
  ASSUME MInv, serverInfo' \in [Servers -> Chunkserver \cup {Nil}],
         \A s \in Servers : /\ Registered(s)' <=> Registered(s)
                            /\ s \in add.shared /\ Registered(s)' => serverInfo'[s].status # "RW",
         monitor' \in MonitorState,
         UNCHANGED <<db, report, load, add, alive, failures, operator>>
  PROVE  MInv'
<1>1. Types'
  BY DEF MInv, Types
<1>2. Reports'
  BY Zenon DEF MInv, Types, ReportState, Reports, Registered
<1>3. Rows'
  BY Zenon DEF MInv, Rows
<1>4. Batch'
  BY DEF MInv, Types, AddState, Batch, RW
<1> QED BY <1>1, <1>2, <1>3, <1>4 DEF MInv

(* updateChunkserverInfo.                                                   *)
LEMMA MonitorUpdates ==
  ASSUME MInv, NEW s \in Servers, updateChunkserverInfo(s)
  PROVE  MInv' /\ \A t \in Servers : Registered(t)' => Registered(t)
<1>1. \A t \in SameStruct(s) : t \in Servers /\ Registered(t)
  <2>1. CASE ~Registered(s)
    <3>1. s \notin add.shared
      BY <2>1 DEF MInv, Batch
    <3> QED BY <2>1, <3>1 DEF SameStruct
  <2>2. CASE Registered(s) /\ s \in add.shared
    BY <2>2 DEF SameStruct, MInv, Batch, Types, AddState
  <2>3. CASE Registered(s) /\ s \notin add.shared
    BY <2>3 DEF SameStruct
  <2> QED BY <2>1, <2>2, <2>3
<1>2. ASSUME NEW t \in Servers
      PROVE  /\ serverInfo'[t] \in Chunkserver \cup {Nil}
             /\ Registered(t)' <=> Registered(t)
             /\ t \in add.shared => serverInfo'[t].status # "RW"
  <2>1. CASE t \in SameStruct(s)
    <3>1. serverInfo[t] \in Chunkserver
      BY <1>1, <2>1, StructTypes DEF MInv
    <3>2. serverInfo'[t] = [serverInfo[t] EXCEPT !.status = "RO"]
      BY <2>1 DEF updateChunkserverInfo
    <3>3. serverInfo'[t] \in Chunkserver /\ serverInfo'[t].status = "RO"
      BY <3>1, <3>2 DEF Chunkserver, Status
    <3> QED BY <1>1, <2>1, <3>3, NilAssumption DEF Registered
  <2>2. CASE t \notin SameStruct(s)
    <3>1. serverInfo'[t] = serverInfo[t]
      BY <2>2 DEF updateChunkserverInfo
    <3>2. t \in add.shared => serverInfo[t].status # "RW"
      BY DEF MInv, Batch, RW
    <3> QED BY <3>1, <3>2 DEF MInv, Types, Registered
  <2> QED BY <2>1, <2>2
<1>3. serverInfo' \in [Servers -> Chunkserver \cup {Nil}]
  <2>1. serverInfo' = [t \in Servers |-> serverInfo'[t]]
    BY DEF updateChunkserverInfo
  <2> QED BY <1>2, <2>1
<1>4. monitor' \in MonitorState
  BY MonitorTypes DEF updateChunkserverInfo, MInv
<1> QED BY <1>2, <1>3, <1>4, StructsKept, Zenon DEF updateChunkserverInfo

(* Tick.                                                                    *)
LEMMA TimePasses ==
  ASSUME MInv, Tick
  PROVE  MInv' /\ \A t \in Servers : Registered(t)' => Registered(t)
<1> DEFINE young == {s \in Servers : RW(s) /\ serverInfo[s].age <= Timeout}
<1>1. /\ serverInfo' = [s \in Servers |->
                          IF s \in young THEN [serverInfo[s] EXCEPT !.age = @ + 1]
                                         ELSE serverInfo[s]]
      /\ UNCHANGED <<db, report, monitor, load, add, alive, failures, operator>>
  BY DEF Tick
<1>2. ASSUME NEW t \in Servers
      PROVE  /\ serverInfo'[t] \in Chunkserver \cup {Nil}
             /\ Registered(t)' <=> Registered(t)
             /\ t \in add.shared => serverInfo'[t].status # "RW"
  <2>1. t \in add.shared => t \notin young /\ serverInfo[t].status # "RW"
    BY Zenon DEF MInv, Batch, RW
  <2>2. CASE t \in young
    <3> DEFINE a == serverInfo[t].age + 1
    <3>1. serverInfo[t] \in Chunkserver /\ Registered(t)
      BY <2>2, StructTypes DEF RW, MInv
    <3>2. a \in 0..(Timeout + 1)
      <4>1. serverInfo[t].age \in 0..(Timeout + 1) /\ serverInfo[t].age <= Timeout
        BY <2>2, <3>1 DEF Chunkserver
      <4> QED BY <4>1, MasterAssumption
    <3>3. serverInfo'[t] = [serverInfo[t] EXCEPT !.age = a]
      BY <1>1, <2>2
    <3> HIDE DEF a
    <3>4. serverInfo'[t] \in Chunkserver
      BY <3>1, <3>2, <3>3 DEF Chunkserver
    <3> QED BY <2>1, <2>2, <3>1, <3>4, NilAssumption DEF Registered
  <2>3. CASE t \notin young
    <3>1. serverInfo'[t] = serverInfo[t]
      BY <1>1, <2>3
    <3> QED BY <2>1, <3>1 DEF MInv, Types, Registered
  <2> QED BY <2>2, <2>3, Zenon
<1>3. serverInfo' \in [Servers -> Chunkserver \cup {Nil}]
  <2> HIDE DEF young
  <2>1. serverInfo' = [t \in Servers |-> serverInfo'[t]]
    BY <1>1
  <2> QED BY <1>2, <2>1
<1>4. monitor' \in MonitorState
  BY <1>1 DEF MInv, Types
<1> QED BY <1>1, <1>2, <1>3, <1>4, StructsKept, Zenon

(* LoadChunkserverInfo reads the rows.                                      *)
LEMMA LoadReads ==
  ASSUME MInv, LoadChunkserverInfo
  PROVE  MInv' /\ \A s \in Servers : Out(s) => Out(s)'
<1>1. /\ load' = [pc |-> "loaded", list |-> db] /\ Operate
      /\ UNCHANGED <<db, serverInfo, report, monitor, add, alive, failures>>
  BY DEF LoadChunkserverInfo
<1>2. load' \in LoadState /\ load'.list = db
  BY <1>1 DEF MInv, Types, LoadState
<1>3. Types'
  BY <1>1, <1>2, OperatorCounted DEF MInv, Types
<1>4. Reports' /\ Batch'
  BY <1>1, Zenon DEF MInv, Reports, Batch, Registered, RW
<1>5. Rows'
  BY <1>1, <1>2, Zenon DEF MInv, Rows, Registered
<1>6. \A s \in Servers : Out(s) => Out(s)'
  BY <1>1, <1>2, Zenon DEF Out, Registered, Loadable
<1> QED BY <1>3, <1>4, <1>5, <1>6 DEF MInv

(* LoadChunkserverInfo replaces the map.                                    *)
LEMMA LoadReplaces ==
  ASSUME MInv, loadReplaces
  PROVE  MInv' /\ \A s \in Servers : Out(s) => Out(s)'
<1>1. /\ load.pc = "loaded" /\ load' = NoLoad /\ serverInfo' = Loaded(load.list)
      /\ report' = LetGo(Servers) /\ add' = [add EXCEPT !.shared = {}]
      /\ UNCHANGED <<db, monitor, alive, failures, operator>>
  BY DEF loadReplaces
<1>2. load.list \in [Servers -> Row]
  BY DEF MInv, Types, LoadState
<1>3. /\ serverInfo' \in [Servers -> Chunkserver \cup {Nil}]
      /\ \A s \in Servers :
           Registered(s)' => load.list[s].stored /\ load.list[s].status # "ERR"
  BY <1>1, <1>2, LoadedTypes DEF Registered
<1>4. report' \in [Handlers -> ReportState] /\ Reports'
  BY <1>1, ReportsLetGo DEF MInv
<1>5. /\ add' \in AddState /\ add'.shared = {}
      /\ add'.pc = add.pc /\ add'.server = add.server
  BY <1>1 DEF MInv, Types, AddState
<1>6. Types'
  BY <1>1, <1>3, <1>4, <1>5, IdleTypes DEF MInv, Types
<1>7. Rows'
  BY <1>1, <1>3, IdleTypes DEF MInv, Rows
<1>8. Batch'
  BY <1>1, <1>5 DEF MInv, Batch
<1>9. \A s \in Servers : Out(s) => Out(s)'
  BY <1>1, <1>3, <1>5, IdleTypes DEF Out, Loadable
<1> QED BY <1>4, <1>6, <1>7, <1>8, <1>9 DEF MInv

(* The chunk master starts again.                                           *)
LEMMA Restarts ==
  ASSUME MInv, Restart
  PROVE  MInv' /\ \A s \in Servers : Out(s) => Out(s)'
<1>1. /\ Operate /\ serverInfo' = Loaded(db)
      /\ report' = [h \in Handlers |-> NoReport] /\ monitor' = NoMonitor
      /\ load' = NoLoad /\ add' = NoAdd
      /\ UNCHANGED <<db, alive, failures>>
  BY DEF Restart
<1>2. /\ serverInfo' \in [Servers -> Chunkserver \cup {Nil}]
      /\ \A s \in Servers : Registered(s)' => db[s].stored /\ db[s].status # "ERR"
  BY <1>1, LoadedTypes DEF Registered, MInv, Types
<1>3. Types'
  BY <1>1, <1>2, OperatorCounted, IdleTypes, Zenon DEF MInv, Types
<1>4. Reports'
  BY <1>1, IdleTypes DEF Reports
<1>5. Rows' /\ Batch'
  BY <1>1, <1>2, IdleTypes, Zenon DEF MInv, Rows, Batch
<1>6. \A s \in Servers : Out(s) => Out(s)'
  BY <1>1, <1>2, IdleTypes, Zenon DEF Out
<1> QED BY <1>3, <1>4, <1>5, <1>6 DEF MInv

(* A batch of servers to register.                                          *)
LEMMA BatchBegins ==
  ASSUME MInv, NEW batch \in SUBSET Servers, batchInitChunkserverHandler(batch)
  PROVE  MInv' /\ \A s \in Servers : Out(s) => Out(s)'
<1>1. /\ add' = [NoAdd EXCEPT !.pc = "row", !.todo = batch] /\ Operate
      /\ UNCHANGED <<db, serverInfo, report, monitor, load, alive, failures>>
  BY DEF batchInitChunkserverHandler
<1>2. add' \in AddState /\ add'.pc = "row" /\ add'.shared = {}
  BY <1>1, Zenon DEF NoAdd, AddState
<1>3. Types'
  BY <1>1, <1>2, OperatorCounted DEF MInv, Types
<1>4. Reports' /\ Rows'
  BY <1>1 DEF MInv, Reports, Rows, Registered
<1>5. Batch'
  BY <1>2 DEF Batch
<1>6. \A s \in Servers : Out(s) => Out(s)'
  BY <1>1, <1>2 DEF Out, Registered
<1> QED BY <1>3, <1>4, <1>5, <1>6 DEF MInv

(* The row of a server of the batch is inserted, or not; the struct that    *)
(* the rounds share names this server.                                      *)
LEMMA BatchInserts ==
  ASSUME MInv, NEW s \in Servers, addChunkserverRow(s)
  PROVE  MInv' /\ \A t \in Servers : Out(t) => Out(t)'
<1> DEFINE ended == [NoAdd EXCEPT !.shared = add.shared]
<1>1. /\ serverInfo' = [t \in Servers |-> IF t \in add.shared THEN GenChunkserver(s)
                                                              ELSE serverInfo[t]]
      /\ UNCHANGED <<report, monitor, load, alive, operator>>
  BY DEF addChunkserverRow
<1>2. /\ serverInfo' \in [Servers -> Chunkserver \cup {Nil}]
      /\ \A t \in Servers : /\ Registered(t)' <=> Registered(t)
                            /\ t \in add.shared => serverInfo'[t].status = "INIT"
  BY <1>1, GenTypes, Zenon DEF MInv, Types, Batch, Registered
<1>3. ended \in AddState /\ ended.shared = add.shared /\ ended.pc = "idle"
  BY IdleTypes DEF MInv, Types, NoAdd, AddState
<1>4. /\ db' \in [Servers -> Row] /\ failures' \in 0..MaxFailures
      /\ \A t \in Servers : /\ db[t].stored => db'[t] = db[t]
                            /\ db'[t].status = "ERR" => db'[t].stored
      /\ add' \in AddState /\ add'.shared = add.shared
      /\ add'.pc # "cache" \/ (add'.server = s /\ ~db[s].stored /\ db'[s].stored)
  <2>1. CASE /\ ~db[s].stored
             /\ db' = [db EXCEPT ![s] = [NoRow EXCEPT !.stored = TRUE]]
             /\ add' = [add EXCEPT !.pc = "cache", !.todo = @ \ {s}, !.server = s]
             /\ UNCHANGED failures
    <3> DEFINE r == [NoRow EXCEPT !.stored = TRUE]
    <3>1. r \in Row /\ r.stored /\ r.status = "INIT"
      BY Zenon DEF NoRow, Row, Status, GlobalStatus
    <3>2. db' = [db EXCEPT ![s] = r]
      BY <2>1
    <3> HIDE DEF r
    <3>3. /\ add' \in AddState /\ add'.shared = add.shared
          /\ add'.server = s
      BY <2>1, Zenon DEF MInv, Types, AddState
    <3>4. \A t \in Servers : db'[t] = IF t = s THEN r ELSE db[t]
      BY <3>2 DEF MInv, Types
    <3>5. db' \in [Servers -> Row] /\ failures' \in 0..MaxFailures
      BY <2>1, <3>1, <3>2, Zenon DEF MInv, Types
    <3>6. \A t \in Servers : db[t].status = "ERR" => db[t].stored
      BY Zenon DEF MInv, Rows
    <3> QED BY <2>1, <3>1, <3>3, <3>4, <3>5, <3>6
  <2>2. CASE add' = ended /\ UNCHANGED db /\ failures' \in 0..MaxFailures
    BY <1>3, <2>2 DEF MInv, Types, Rows
  <2>3. failures \in 0..MaxFailures
    BY DEF MInv, Types
  <2> QED BY <2>1, <2>2, <2>3, FailureCounted DEF addChunkserverRow, MInv
<1>5. Types'
  BY <1>1, <1>2, <1>4, Zenon DEF MInv, Types
<1>6. Reports'
  BY <1>1, <1>2, Zenon DEF MInv, Types, ReportState, Reports, Registered
<1>7. Rows'
  BY <1>1, <1>2, <1>4, Zenon DEF MInv, Rows
<1>8. Batch'
  <2>1. \A t \in add.shared : t \in Servers /\ Registered(t)' /\ serverInfo'[t].status = "INIT"
    BY <1>2 DEF MInv, Types, AddState, Batch
  <2> QED BY <1>4, <2>1 DEF Batch, RW
<1>9. ASSUME NEW t \in Servers, Out(t) PROVE Out(t)'
  <2>1. db[t].stored
    BY <1>9 DEF Out, MInv, Rows
  <2> QED BY <1>1, <1>2, <1>4, <1>9, <2>1, Zenon DEF Out
<1> QED BY <1>5, <1>6, <1>7, <1>8, <1>9 DEF MInv

(* The struct of the batch enters the map.                                  *)
LEMMA BatchCaches ==
  ASSUME MInv, addChunkserver
  PROVE  MInv' /\ \A s \in Servers : Out(s) => Out(s)'
<1> DEFINE s == add.server
<1>1. /\ add.pc = "cache" /\ s \in Servers /\ db[s].stored
      /\ serverInfo' = [serverInfo EXCEPT ![s] = GenChunkserver(s)]
      /\ report' = LetGo({s})
      /\ add' = [add EXCEPT !.pc = IF add.todo = {} THEN "idle" ELSE "row",
                            !.shared = @ \cup {s}, !.server = Nil]
      /\ UNCHANGED <<db, monitor, load, alive, failures, operator>>
  BY DEF addChunkserver, MInv, Batch
<1>2. /\ serverInfo' \in [Servers -> Chunkserver \cup {Nil}]
      /\ \A t \in Servers : t # s => serverInfo'[t] = serverInfo[t]
      /\ serverInfo'[s] # Nil /\ serverInfo'[s].status = "INIT"
  BY <1>1, GenTypes DEF MInv, Types
<1>3. /\ add' \in AddState /\ add'.shared = add.shared \cup {s}
      /\ add'.pc \in {"idle", "row"}
  BY <1>1, Zenon DEF MInv, Types, AddState
<1> HIDE DEF s
<1>4. report' \in [Handlers -> ReportState] /\ Reports'
  <2>1. \A t \in Servers \ {s} : Registered(t) => Registered(t)'
    BY <1>2 DEF Registered
  <2> QED BY <1>1, <2>1, ReportsLetGo DEF MInv
<1>5. Types'
  BY <1>1, <1>2, <1>3, <1>4 DEF MInv, Types
<1>6. Rows'
  BY <1>1, <1>2 DEF MInv, Rows, Registered
<1>7. Batch'
  <2>1. \A t \in add.shared : t \in Servers /\ serverInfo[t] # Nil /\ serverInfo[t].status # "RW"
    BY DEF MInv, Types, AddState, Batch, Registered, RW
  <2>2. \A t \in add.shared \cup {s} : serverInfo'[t] # Nil /\ serverInfo'[t].status # "RW"
    BY <1>2, <2>1
  <2> QED BY <1>3, <2>2 DEF Batch, Registered, RW
<1>8. \A t \in Servers : Out(t) => Out(t)'
  BY <1>1, <1>2, <1>3 DEF Out, Registered, s
<1> QED BY <1>4, <1>5, <1>6, <1>7, <1>8 DEF MInv

(* Rows are changed by hand.                                                *)
LEMMA RowsMarked ==
  ASSUME MInv, MarkTransfer \/ \E s \in Servers : MarkError(s)
  PROVE  MInv' /\ \A s \in Servers : Out(s) => Out(s)'
<1>1. Operate /\ UNCHANGED <<serverInfo, report, monitor, load, add, alive, failures>>
  BY DEF MarkTransfer, MarkError
<1>2. /\ db' \in [Servers -> Row]
      /\ \A s \in Servers : /\ db'[s].stored = db[s].stored
                            /\ db[s].status = "ERR" => db'[s].status = "ERR"
                            /\ db'[s].status = "ERR" => db'[s].stored
  <2>1. CASE MarkTransfer
    <3>1. ASSUME NEW s \in Servers
          PROVE  /\ db'[s] \in Row /\ db'[s].stored = db[s].stored
                 /\ db'[s].status = db[s].status
      <4>1. db[s] \in Row
        BY DEF MInv, Types
      <4>2. db'[s] = IF db[s].stored THEN [db[s] EXCEPT !.global = "TRANSFER"] ELSE db[s]
        BY <2>1 DEF MarkTransfer
      <4> QED BY <4>1, <4>2 DEF Row, GlobalStatus
    <3>2. db' = [s \in Servers |-> db'[s]]
      BY <2>1 DEF MarkTransfer
    <3>3. db' \in [Servers -> Row]
      BY <3>1, <3>2
    <3> QED BY <3>1, <3>3, Zenon DEF MInv, Rows
  <2>2. ASSUME NEW s \in Servers, MarkError(s)
        PROVE  /\ db' \in [Servers -> Row]
               /\ \A t \in Servers : /\ db'[t].stored = db[t].stored
                                     /\ db[t].status = "ERR" => db'[t].status = "ERR"
                                     /\ db'[t].status = "ERR" => db'[t].stored
    <3> DEFINE r == [db[s] EXCEPT !.status = "ERR"]
    <3>1. db[s] \in Row /\ db[s].stored /\ db' = [db EXCEPT ![s] = r]
      BY <2>2 DEF MarkError, MInv, Types
    <3>2. r \in Row /\ r.stored = db[s].stored /\ r.status = "ERR"
      BY <3>1, Zenon DEF Row, Status
    <3> HIDE DEF r
    <3>3. \A t \in Servers : db'[t] = IF t = s THEN r ELSE db[t]
      BY <3>1 DEF MInv, Types
    <3>4. db' \in [Servers -> Row]
      BY <3>1, <3>2 DEF MInv, Types
    <3> QED BY <3>1, <3>2, <3>3, <3>4, Zenon DEF MInv, Rows
  <2> QED BY <2>1, <2>2, Zenon
<1>3. Types'
  BY <1>1, <1>2, OperatorCounted DEF MInv, Types
<1>4. Reports'
  BY <1>1 DEF MInv, Reports, Registered
<1>5. Rows'
  BY <1>1, <1>2, RowsKept, Zenon
<1>6. Batch'
  BY <1>1, <1>2, Zenon DEF MInv, Batch, Registered, RW
<1>7. \A s \in Servers : Out(s) => Out(s)'
  BY <1>1, <1>2, Zenon DEF Out, Registered
<1> QED BY <1>3, <1>4, <1>5, <1>6, <1>7 DEF MInv

(* Chunk servers start and stop.                                            *)
LEMMA ServersRun ==
  ASSUME MInv, \E s \in Servers : Stop(s) \/ Start(s)
  PROVE  MInv' /\ \A s \in Servers : Out(s) => Out(s)'
<1>1. /\ alive' \in SUBSET Servers
      /\ UNCHANGED <<db, serverInfo, report, monitor, load, add, failures, operator>>
  BY DEF Stop, Start, MInv, Types
<1>2. Types'
  BY <1>1 DEF MInv, Types
<1>3. Reports' /\ Rows' /\ Batch'
  BY <1>1, Zenon DEF MInv, Reports, Rows, Batch, Registered, RW
<1>4. \A s \in Servers : Out(s) => Out(s)'
  BY <1>1, Zenon DEF Out, Registered
<1> QED BY <1>2, <1>3, <1>4 DEF MInv

-----------------------------------------------------------------------------
(* The theorems.                                                           *)

(* The rows of the servers that were registered before are loaded.          *)
LEMMA MInvInit == Init => MInv
<1> SUFFICES ASSUME Init PROVE MInv
  OBVIOUS
<1>1. PICK known \in SUBSET Servers :
        /\ db = [s \in Servers |-> [NoRow EXCEPT !.stored = s \in known]]
        /\ serverInfo = [s \in Servers |-> IF s \in known THEN GenChunkserver(s) ELSE Nil]
  BY DEF Init
<1>2. /\ db \in [Servers -> Row]
      /\ \A s \in Servers : (db[s].stored <=> s \in known) /\ db[s].status = "INIT"
  <2>1. ASSUME NEW s \in Servers
        PROVE  /\ db[s] \in Row /\ db[s].stored = (s \in known) /\ db[s].status = "INIT"
    <3> DEFINE b == s \in known
    <3>1. b \in BOOLEAN
      OBVIOUS
    <3>2. db[s] = [NoRow EXCEPT !.stored = b]
      BY <1>1
    <3> HIDE DEF b
    <3>3. db[s] \in Row /\ db[s].stored = b /\ db[s].status = "INIT"
      BY <3>1, <3>2 DEF NoRow, Row, Status, GlobalStatus
    <3> QED BY <3>3 DEF b
  <2>2. db = [s \in Servers |-> db[s]]
    BY <1>1
  <2>3. db \in [Servers -> Row]
    BY <2>1, <2>2
  <2> QED BY <2>1, <2>3, Zenon
<1>3. /\ serverInfo \in [Servers -> Chunkserver \cup {Nil}]
      /\ \A s \in Servers : Registered(s) => s \in known
  BY <1>1, GenTypes DEF Registered
<1>4. Types
  BY <1>2, <1>3, IdleTypes, MasterAssumption DEF Init, Types
<1>5. Reports
  BY IdleTypes DEF Init, Reports
<1>6. Rows /\ Batch
  BY <1>2, <1>3, IdleTypes DEF Init, Rows, Batch
<1> QED BY <1>4, <1>5, <1>6 DEF MInv

(* A step that registers no server, reads no rows and leaves the batch.     *)
LEMMA OutKept ==
  ASSUME NEW s \in Servers, Out(s), Registered(s)' => Registered(s), db'[s].status = "ERR",
         UNCHANGED load, add'.pc = add.pc, add'.server = add.server
  PROVE  Out(s)'
BY Zenon DEF Out

(* Every step keeps the invariant, and servers that are out stay out.       *)
LEMMA MInvNext ==
  ASSUME MInv, [Next]_vars
  PROVE  MInv' /\ \A s \in Servers : Out(s) => Out(s)'
<1>1. ASSUME NEW h \in Handlers,
             \/ \E s \in Servers : reportChunkserverInfoHandler(h, s)
             \/ reportChunkserverInfo(h)
      PROVE  MInv' /\ \A s \in Servers : Out(s) => Out(s)'
  <2>1. MInv' /\ \A s \in Servers : db[s].status = "ERR" => db'[s].status = "ERR"
    BY <1>1, ReportBegins, ReportTests, Zenon DEF reportChunkserverInfoHandler
  <2>2. UNCHANGED <<serverInfo, load, add>>
    BY <1>1, Zenon DEF reportChunkserverInfoHandler, reportChunkserverInfo
  <2> QED BY <2>1, <2>2, OutKept, Zenon DEF Out, Registered
<1>2. ASSUME NEW h \in Handlers, reportStore(h)
      PROVE  MInv' /\ \A s \in Servers : Out(s) => Out(s)'
  <2>1. MInv' /\ \A s \in Servers : Registered(s)' => Registered(s)
    BY <1>2, ReportStores
  <2>2. UNCHANGED <<db, load>> /\ add'.pc = add.pc /\ add'.server = add.server
    BY <1>2 DEF reportStore, MInv, Types, AddState
  <2> QED BY <2>1, <2>2, OutKept, Zenon DEF Out
<1>3. CASE Monitor
  <2> DEFINE Kept ==
        /\ MInv' /\ UNCHANGED <<load, add>>
        /\ \A s \in Servers : /\ db[s].status = "ERR" => db'[s].status = "ERR"
                              /\ Registered(s)' => Registered(s)
  <2>1. Kept
    <3>1. CASE chunkserverMonitor \/ \E s \in Servers : monitorRow(s)
      <4>1. UNCHANGED <<serverInfo, load, add>>
        BY <3>1 DEF chunkserverMonitor, monitorRow
      <4> QED BY <3>1, <4>1, MonitorRows DEF Registered
    <3>2. ASSUME NEW s \in Servers, updateChunkserverInfo(s)
          PROVE  Kept
      BY <3>2, MonitorUpdates DEF updateChunkserverInfo
    <3> QED BY <1>3, <3>1, <3>2, Zenon DEF Monitor
  <2> QED BY <2>1, OutKept, Zenon DEF Out
<1>4. CASE Administer
  BY <1>4, LoadReads, LoadReplaces, Restarts, BatchBegins, BatchInserts, BatchCaches
     DEF Administer
<1>5. CASE Environment
  <2>1. CASE Tick
    <3>1. MInv' /\ UNCHANGED <<db, load, add>> /\ \A s \in Servers : Registered(s)' => Registered(s)
      BY <2>1, TimePasses DEF Tick
    <3> QED BY <3>1, OutKept, Zenon DEF Out
  <2> QED BY <1>5, <2>1, RowsMarked, ServersRun DEF Environment
<1>6. CASE UNCHANGED vars
  BY <1>6, Zenon DEF vars, MInv, Types, Reports, Rows, Batch, Out, Registered, RW
<1> QED BY <1>1, <1>2, <1>3, <1>4, <1>5, <1>6 DEF Next, Report

(* The invariant always holds.                                              *)
LEMMA MInvAlways == Spec => []MInv
<1>1. MInv /\ [Next]_vars => MInv'
  BY MInvNext
<1> QED BY <1>1, MInvInit, PTL DEF Spec

(* The variables have their types: the map holds structs of its servers and *)
(* none whose row said ERR, a handler that has the struct of a server finds *)
(* it in the map, and the struct that the keys of a batch share is never    *)
(* RW.                                                                      *)
THEOREM TypeCorrect == Spec => []TypeOK
<1>1. MInv => TypeOK
  BY DEF MInv, Types, Reports, Batch, TypeOK, ReportState, MonitorState, LoadState, AddState
<1> QED BY <1>1, MInvAlways, PTL

(* A server in error that is out of the map stays out, whatever reports,    *)
(* loads, registrations and runs of the monitor are under way.              *)
THEOREM ErrorStaysOutAlways == Spec => ErrorStaysOut
<1>1. MInv /\ [Next]_vars => [\A s \in Servers : Out(s) => Out(s)']_vars
  BY MInvNext
<1> QED BY <1>1, MInvAlways, PTL DEF Spec, ErrorStaysOut

\* A server of the map has a row in the database.
Backed == \A s \in Servers : Registered(s) => db[s].stored

(* The image servers are told of no server that the database does not have: *)
(* addChunkserver inserts the row first, and a load takes what it has read  *)
(* of rows that nothing deletes.                                            *)
THEOREM MapBacked == Spec => []Backed
<1>1. MInv => Backed
  BY Zenon DEF MInv, Rows, Backed
<1> QED BY <1>1, MInvAlways, PTL
=============================================================================
