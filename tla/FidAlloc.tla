------------------------------ MODULE FidAlloc ------------------------------
(***************************************************************************)
(* Where file ids come from: the allocator of the chunkmaster              *)
(* (chunkmaster/api/chunkserver.go, allocFid), which cuts ranges from a    *)
(* block it has reserved in the database, and the image servers, which     *)
(* keep the fids of a range in a channel (imageserver/chunkserver/         *)
(* fileid.go) that uploads take them from (router.go, getFid).             *)
(*                                                                         *)
(* allocFid holds the lock of fid while it talks to the database, so it is *)
(* one action with the outcomes the database can give it.  In an image     *)
(* server the uploads and the ticker are goroutines that share the channel *)
(* and getFidRetryCount; a step is one operation on what they share.       *)
(***************************************************************************)
EXTENDS Integers, Sequences

CONSTANTS
  ImageServers,    \* image servers
  Uploads,         \* goroutines of each image server that upload a file
  Ticker,          \* the goroutine GetFidRangeTicker
  MAX_RANGE,       \* fids reserved in the database at a time
  ALLOCATE_RANGE,  \* fids given to an image server at a time
  CAP,             \* capacity of Fids.ch
  LOW,             \* IsShortage: fewer fids than this
  GetFidFails,     \* may mdDriver.GetFid return an error?
  MaxFid           \* bound on the fids that are ever reserved

\* 10000 and 10000 / 100: a block is used up exactly.
ASSUME FidAssumption ==
  /\ ALLOCATE_RANGE \in Nat \ {0}
  /\ MAX_RANGE \in Nat \ {0}
  /\ \E n \in 1..MAX_RANGE : MAX_RANGE = n * ALLOCATE_RANGE
  /\ CAP \in Nat /\ LOW \in Nat /\ MaxFid \in Nat \ {0}
  /\ GetFidFails \in BOOLEAN
  /\ Ticker \notin Uploads

VARIABLES
  gen_fid,           \* the row of table gen_fid
  fid,               \* the chunkmaster's fid.Begin and fid.End
  ch,                \* ch[s]: Fids.ch of image server s
  getFidRetryCount,  \* getFidRetryCount[s]
  pc,                \* pc[s][g]: where goroutine g of server s is
  range,             \* range[s][g]: what Merge still has to put, [Start, End)
  uploaded           \* history: uploaded[n], how many uploads were given fid n

fidVars == <<gen_fid, fid, ch, getFidRetryCount, pc, range, uploaded>>
masterVars == <<gen_fid, fid>>

Goroutines == Uploads \cup {Ticker}
Numbers == 0..MaxFid
NoRange == [Start |-> 0, End |-> 0]

-----------------------------------------------------------------------------
(* The chunkmaster.                                                        *)

\* The range allocFid cuts next, from its block or from a new one.
NextRange ==
  LET begin == IF fid.Begin # fid.End THEN fid.Begin ELSE gen_fid
  IN [Start |-> begin, End |-> begin + ALLOCATE_RANGE]

\* allocFid while the block lasts.
AllocFromBlock ==
  /\ fid.Begin # fid.End
  /\ fid.Begin + ALLOCATE_RANGE <= MaxFid
  /\ fid' = [fid EXCEPT !.Begin = @ + ALLOCATE_RANGE]
  /\ UNCHANGED gen_fid

\* allocFid when the block is used up: GetFid, then UpdateFid.
AllocNewBlock ==
  /\ fid.Begin = fid.End
  /\ gen_fid + MAX_RANGE <= MaxFid
  /\ fid' = [Begin |-> gen_fid + ALLOCATE_RANGE, End |-> gen_fid + MAX_RANGE]
  /\ gen_fid' = gen_fid + MAX_RANGE

\* A mutant: the block is kept although the update failed.
AllocFails_NoReset ==
  /\ fid.Begin = fid.End
  /\ gen_fid + MAX_RANGE <= MaxFid
  /\ fid' = [Begin |-> gen_fid, End |-> gen_fid + MAX_RANGE]
  /\ gen_fid' \in {gen_fid, gen_fid + MAX_RANGE}

\* allocFid when the database answers with an error.  An update that failed may
\* have reached the table all the same.
AllocFails ==
  /\ fid.Begin = fid.End
  /\ \/ /\ GetFidFails
        /\ fid' = [fid EXCEPT !.Begin = 0]
        /\ UNCHANGED gen_fid
     \/ /\ gen_fid + MAX_RANGE <= MaxFid
        /\ fid' = [Begin |-> 0, End |-> 0]
        /\ gen_fid' \in {gen_fid, gen_fid + MAX_RANGE}

\* The chunkmaster restarts, perhaps just after it has reserved a block.
RestartMaster ==
  /\ fid' = [Begin |-> 0, End |-> 0]
  /\ \/ UNCHANGED gen_fid
     \/ gen_fid + MAX_RANGE <= MaxFid /\ gen_fid' = gen_fid + MAX_RANGE
  /\ UNCHANGED <<ch, getFidRetryCount, pc, range, uploaded>>

-----------------------------------------------------------------------------
(* The image servers.                                                      *)

IsShortage(s) == Len(ch[s]) < LOW /\ Len(ch[s]) < CAP

Goto(s, g, where) == pc' = [pc EXCEPT ![s][g] = where]

\* A fid is received from the channel and used for an upload.
Receive(s) ==
  /\ ch[s] # <<>>
  /\ uploaded' = [uploaded EXCEPT ![Head(ch[s])] = @ + 1]
  /\ ch' = [ch EXCEPT ![s] = Tail(@)]

\* getFid: GetFid takes a fid, or finds the channel empty;
getFid(s, g) ==
  /\ g \in Uploads /\ pc[s][g] = "idle"
  /\ \/ Receive(s) /\ UNCHANGED pc
     \/ ch[s] = <<>> /\ Goto(s, g, "swap") /\ UNCHANGED <<ch, uploaded>>
  /\ UNCHANGED <<masterVars, getFidRetryCount, range>>

\* A mutant: the counter is incremented instead.
CompareAndSwap_Add(s, g) ==
  /\ pc[s][g] = "swap"
  /\ getFidRetryCount' = [getFidRetryCount EXCEPT ![s] = @ + 1]
  /\ Goto(s, g, IF getFidRetryCount[s] = 0 THEN "range" ELSE "wait")
  /\ UNCHANGED <<masterVars, ch, range, uploaded>>

\* then the goroutine whose CompareAndSwap succeeds asks for a range, and the
\* others wait.
CompareAndSwap(s, g) ==
  /\ pc[s][g] = "swap"
  /\ getFidRetryCount' = [getFidRetryCount EXCEPT ![s] = 1]
  /\ Goto(s, g, IF getFidRetryCount[s] = 0 THEN "range" ELSE "wait")
  /\ UNCHANGED <<masterVars, ch, range, uploaded>>

\* GetFidWait: a fid, or an error after three seconds.
GetFidWait(s, g) ==
  /\ pc[s][g] = "wait"
  /\ Goto(s, g, "idle")
  /\ Receive(s) \/ UNCHANGED <<ch, uploaded>>
  /\ UNCHANGED <<masterVars, getFidRetryCount, range>>

\* The ticker calls GetFidRange(true).
GetFidRangeTicker(s) ==
  /\ pc[s][Ticker] = "idle"
  /\ Goto(s, Ticker, "range")
  /\ UNCHANGED <<masterVars, ch, getFidRetryCount, range, uploaded>>

\* Where a goroutine goes when GetFidRange has returned without an error, and
\* with one.
AfterRange(g) == IF g = Ticker THEN "idle" ELSE "get"

\* A mutant: an upload returns its error without the deferred CompareAndSwap.
AfterError_NotDeferred(g) == "idle"

AfterError(g) == IF g = Ticker THEN "idle" ELSE "swapback"

\* GetFidRange: the shortage is looked at, then the chunkmaster is called.
GetFidRange(s, g) ==
  /\ pc[s][g] = "range"
  /\ Goto(s, g, IF IsShortage(s) THEN "call" ELSE AfterRange(g))
  /\ UNCHANGED <<masterVars, ch, getFidRetryCount, range, uploaded>>

\* The call: the range arrives, the chunkmaster answers with an error, or the
\* answer is lost.
CallMaster(s, g) ==
  /\ pc[s][g] = "call"
  /\ \/ /\ AllocFromBlock \/ AllocNewBlock
        /\ \/ range' = [range EXCEPT ![s][g] = NextRange] /\ Goto(s, g, "merge")
           \/ Goto(s, g, AfterError(g)) /\ UNCHANGED range
     \/ /\ AllocFails \/ UNCHANGED masterVars
        /\ Goto(s, g, AfterError(g))
        /\ UNCHANGED range
  /\ UNCHANGED <<ch, getFidRetryCount, uploaded>>

\* A mutant: an upload waits too when the channel is full.
Merge_Waits(s, g) ==
  /\ pc[s][g] = "merge"
  /\ LET r == range[s][g]
     IN \/ /\ r.Start < r.End
           /\ Len(ch[s]) < CAP
           /\ ch' = [ch EXCEPT ![s] = Append(@, r.Start)]
           /\ range' = [range EXCEPT ![s][g].Start = @ + 1]
           /\ UNCHANGED pc
        \/ /\ r.Start >= r.End
           /\ Goto(s, g, AfterRange(g))
           /\ range' = [range EXCEPT ![s][g] = NoRange]
           /\ UNCHANGED ch
  /\ UNCHANGED <<masterVars, getFidRetryCount, uploaded>>

\* Merge, one round of its loop: a fid is put, or the channel is full, which ends
\* the merge of an upload and makes the ticker wait.
Merge(s, g) ==
  /\ pc[s][g] = "merge"
  /\ LET r == range[s][g]
     IN \/ /\ r.Start < r.End
           /\ Len(ch[s]) < CAP
           /\ ch' = [ch EXCEPT ![s] = Append(@, r.Start)]
           /\ range' = [range EXCEPT ![s][g].Start = @ + 1]
           /\ UNCHANGED pc
        \/ /\ r.Start >= r.End \/ (g # Ticker /\ Len(ch[s]) >= CAP)
           /\ Goto(s, g, AfterRange(g))
           /\ range' = [range EXCEPT ![s][g] = NoRange]
           /\ UNCHANGED ch
  /\ UNCHANGED <<masterVars, getFidRetryCount, uploaded>>

\* getFid after GetFidRange: the second GetFid,
GetFidAgain(s, g) ==
  /\ pc[s][g] = "get"
  /\ Receive(s) \/ (ch[s] = <<>> /\ UNCHANGED <<ch, uploaded>>)
  /\ Goto(s, g, "swapback")
  /\ UNCHANGED <<masterVars, getFidRetryCount, range>>

\* and the deferred CompareAndSwap, whatever happened.
SwapBack(s, g) ==
  /\ pc[s][g] = "swapback"
  /\ getFidRetryCount' = [getFidRetryCount EXCEPT ![s] = 0]
  /\ Goto(s, g, "idle")
  /\ UNCHANGED <<masterVars, ch, range, uploaded>>

\* An image server restarts; the fids it had are lost.
RestartServer(s) ==
  /\ ch' = [ch EXCEPT ![s] = <<>>]
  /\ getFidRetryCount' = [getFidRetryCount EXCEPT ![s] = 0]
  /\ pc' = [pc EXCEPT ![s] = [g \in Goroutines |-> "idle"]]
  /\ range' = [range EXCEPT ![s] = [g \in Goroutines |-> NoRange]]
  /\ UNCHANGED <<masterVars, uploaded>>

-----------------------------------------------------------------------------
(* The specification.                                                      *)

\* gen_fid starts at 1 (docs/speedy.sql).  The range an image server asks for in
\* Run before it serves is the first one its ticker asks for.
FidInit ==
  /\ gen_fid = 1
  /\ fid = [Begin |-> 0, End |-> 0]
  /\ ch = [s \in ImageServers |-> <<>>]
  /\ getFidRetryCount = [s \in ImageServers |-> 0]
  /\ pc = [s \in ImageServers |-> [g \in Goroutines |-> "idle"]]
  /\ range = [s \in ImageServers |-> [g \in Goroutines |-> NoRange]]
  /\ uploaded = [n \in Numbers |-> 0]

\* What a goroutine of server s does once it has begun.
Continue(s, g) ==
  \/ CompareAndSwap(s, g) \/ GetFidWait(s, g) \/ GetFidRange(s, g)
  \/ CallMaster(s, g) \/ Merge(s, g) \/ GetFidAgain(s, g) \/ SwapBack(s, g)

Server(s) ==
  \/ \E g \in Uploads : getFid(s, g)
  \/ GetFidRangeTicker(s)
  \/ \E g \in Goroutines : Continue(s, g)
  \/ RestartServer(s)

FidNext == RestartMaster \/ \E s \in ImageServers : Server(s)

FidSpec == FidInit /\ [][FidNext]_fidVars

\* A goroutine that has begun goes on; the timer of GetFidWait fires.
FidFairSpec == FidSpec /\ \A s \in ImageServers, g \in Uploads : WF_fidVars(Continue(s, g))

-----------------------------------------------------------------------------
(* Properties.                                                             *)

\* Every variable has its type; a CompareAndSwap leaves getFidRetryCount at 0 or 1.
FidTypeOK ==
  /\ gen_fid \in Nat
  /\ fid \in [Begin : Nat, End : Nat]
  /\ ch \in [ImageServers -> Seq(Numbers)]
  /\ getFidRetryCount \in [ImageServers -> {0, 1}]
  /\ pc \in [ImageServers -> [Goroutines ->
              {"idle", "swap", "wait", "range", "call", "merge", "get", "swapback"}]]
  /\ range \in [ImageServers -> [Goroutines -> [Start : Nat, End : Nat]]]
  /\ uploaded \in [Numbers -> Nat]

\* No two files have one fid: whatever is lost, fails or restarts, a fid that
\* allocFid has handed out is given to one upload of one image server at most.
UploadOnce == \A n \in Numbers : uploaded[n] <= 1

\* Between the CompareAndSwap and the ways out of getFid, and the uploads of image
\* server s that are there.
Inside == {"range", "call", "merge", "get", "swapback"}
Refilling(s) == {g \in Uploads : pc[s][g] \in Inside}

\* getFidRetryCount is a lock: the goroutine that found it 0 is the only upload
\* that refills the channel, and every way out of getFid gives it back.
OneRefill ==
  \A s \in ImageServers :
    \/ getFidRetryCount[s] = 0 /\ Refilling(s) = {}
    \/ getFidRetryCount[s] = 1 /\ \E g \in Uploads : Refilling(s) = {g}

\* getFid returns, with a fid or with an error: neither the channel being full or
\* empty nor the lock keeps an upload waiting for ever.
GetFidReturns ==
  \A s \in ImageServers, g \in Uploads : pc[s][g] # "idle" ~> pc[s][g] = "idle"
=============================================================================
