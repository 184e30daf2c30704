------------------------- MODULE ImageServerProofs --------------------------
(***************************************************************************)
(* The theorems about ImageServer: what a request has stored so far, who   *)
(* else may be at its path, and therefore what a download finds.           *)
(***************************************************************************)
EXTENDS ImageServer, FiniteSetTheorems, TLAPS

-----------------------------------------------------------------------------
(* Sequences, of which the provers know what they are.                     *)

(* Sequences with the same elements.                                        *)
LEMMA SeqEqual ==
  ASSUME NEW S, NEW q \in Seq(S), NEW r \in Seq(S),
         Len(q) = Len(r), \A i \in 1..Len(q) : q[i] = r[i]
  PROVE  q = r
OBVIOUS

(* A sequence joined with the empty one.                                    *)
LEMMA ConcatEmptySeq ==
  ASSUME NEW S, NEW q \in Seq(S)
  PROVE  q \o <<>> = q /\ <<>> \o q = q
OBVIOUS

(* An element put at the end.                                               *)
LEMMA AppendProperties ==
  ASSUME NEW S, NEW q \in Seq(S), NEW e \in S
  PROVE  /\ Append(q, e) \in Seq(S) /\ Append(q, e) # <<>>
         /\ Len(Append(q, e)) = Len(q) + 1
         /\ \A i \in 1..Len(q) : Append(q, e)[i] = q[i]
         /\ Append(q, e)[Len(q) + 1] = e
OBVIOUS

(* The same as joining a sequence of one.                                   *)
LEMMA AppendIsConcat ==
  ASSUME NEW S, NEW q \in Seq(S), NEW e \in S
  PROVE  Append(q, e) = q \o <<e>>
OBVIOUS

-----------------------------------------------------------------------------
(* The invariant.                                                          *)

Statement == {"delList", "delListOne", "pushDirectory", "pushList", "updateListKey"}

Handler ==
  [pc : {"idle", "post", "store"}, req : Requests \cup {Idle.req}, fid : 0..MaxUploads,
   posts : SUBSET Servers, results : 0..Cardinality(Servers), failed : BOOLEAN,
   todo : Seq(Statement), alone : BOOLEAN]

Types ==
  /\ partial \in BOOLEAN
  /\ disk \in [Servers -> SUBSET (1..MaxUploads)]
  /\ rows \subseteq [path : Paths, fid : 1..MaxUploads]
  /\ listed \subseteq Tags
  /\ handler \in [Handlers -> Handler]
  /\ \A h \in Active : handler[h].req \in Requests
  /\ fids \in 0..MaxUploads
  /\ kept \subseteq [req : Requests, fid : 1..MaxUploads]
  /\ loose \subseteq Tags

\* What a request may have left to execute.
Todo(req) ==
  LET tag == InDirectory(req)
      push == {<<"pushList">>} \cup (IF tag THEN {<<"pushDirectory", "pushList">>} ELSE {})
  IN CASE req.op = "move" -> {<<"updateListKey">>}
       [] req.op = "delete" -> IF tag THEN {<<"delList", "delListOne">>, <<"delListOne">>}
                                      ELSE {<<"delList">>}
       [] req.op = "fragment" -> push
       [] OTHER -> push \cup (IF tag THEN {<<"delList", "delListOne", "pushDirectory", "pushList">>,
                                           <<"delListOne", "pushDirectory", "pushList">>}
                                     ELSE {<<"delList", "pushList">>})

\* The data of a fid are on enough servers, and on all if none was ever out of the
\* group, once the servers in rest have stored them too.
Holders(fid) == {s \in Servers : fid \in disk[s]}
Spread(fid, rest) ==
  /\ Cardinality(rest \cup Holders(fid)) >= limitNum
  /\ ~partial => rest \cup Holders(fid) = Servers

\* Where the data of an upload are, while they are posted and when they have been.
Posting(r) ==
  r.pc = "post" => /\ Upload(r.req) /\ r.fid \in 1..MaxUploads
                   /\ r.results = Cardinality(r.posts)
                   /\ ~r.failed => Spread(r.fid, r.posts)
Storing(r) ==
  r.pc = "store" => /\ r.todo \in Todo(r.req)
                    /\ Upload(r.req) => r.fid \in 1..MaxUploads /\ Spread(r.fid, {})
DataPlaced ==
  /\ \A h \in Handlers : Posting(handler[h]) /\ Storing(handler[h])
  /\ Replicated
  /\ \A k \in kept : Spread(k.fid, {})

\* What the histories mean: requests that are alone have no one at their paths, nor
\* do uploads that are kept, and a tag that two requests are at, or an upload that will
\* not list it, is loose.
Apart ==
  /\ \A h \in Active : handler[h].alone =>
       \A g \in Active \ {h} : ~Disturbs(handler[g].req, handler[h].req)
  /\ \A k \in kept, h \in Active : ~Disturbs(handler[h].req, k.req)
  /\ \A g, h \in Active : g # h =>
       Tags \cap Touches(handler[g].req) \cap Touches(handler[h].req) \subseteq loose
  /\ \A h \in Active : Upload(handler[h].req) /\ ~InDirectory(handler[h].req)
       => Tags \cap Touches(handler[h].req) \subseteq loose

\* What the statements that a request has executed have done: unless another request
\* was there, delList has left no row, and pushDirectory has listed the tag.
Cleared(r) ==
  r.pc = "store" /\ r.req.op = "whole" /\ r.alone /\ r.todo[1] # "delList"
    => RowsOf(r.req.path) = {}
TagReady(r) ==
  r.pc = "store" /\ r.req.path \in Tags \ loose
    => /\ r.todo[1] = "delListOne" => RowsOf(r.req.path) = {}
       /\ r.todo[1] = "pushList" => r.req.path \in listed
KeptRow(k) == k.req.op = "whole" => RowsOf(k.req.path) = {[path |-> k.req.path, fid |-> k.fid]}
RowsRight ==
  /\ \A h \in Handlers : Cleared(handler[h]) /\ TagReady(handler[h])
  /\ \A k \in kept : KeptRow(k)
  /\ TagListed

IInv == Types /\ DataPlaced /\ Apart /\ RowsRight

-----------------------------------------------------------------------------
(* Statements.                                                             *)

(* A list with one more statement.                                          *)
LEMMA Extend ==
  ASSUME NEW n \in Nat, NEW s \in Seq(Statement), NEW c \in Statement, NEW u \in Seq(Statement),
         Len(s) = n, Len(u) = n + 1, \A i \in 1..n : u[i] = s[i], u[n + 1] = c
  PROVE  s \o <<c>> = u
<1>1. /\ Append(s, c) \in Seq(Statement) /\ Len(Append(s, c)) = n + 1
      /\ Append(s, c)[n + 1] = c /\ \A i \in 1..n : Append(s, c)[i] = s[i]
  BY AppendProperties
<1>2. \A i \in 1..(n + 1) : Append(s, c)[i] = u[i]
  BY <1>1
<1>3. Append(s, c) = u
  BY <1>1, <1>2, SeqEqual
<1> QED BY <1>3, AppendIsConcat

(* The lists that StoreMetaInfo and DeleteFileMetaInfo join: of up to two,  *)
LEMMA Joined ==
  ASSUME NEW a \in Statement, NEW b \in Statement
  PROVE  /\ <<a>> \o <<>> = <<a>> /\ <<>> \o <<a>> = <<a>> /\ <<>> \o <<>> = <<>>
         /\ <<a>> \o <<b>> = <<a, b>>
<1>1. /\ <<>> \in Seq(Statement) /\ <<a>> \in Seq(Statement) /\ <<a, b>> \in Seq(Statement)
      /\ Len(<<a>>) = 1 /\ Len(<<a, b>>) = 1 + 1
  OBVIOUS
<1>2. <<a, b>>[1 + 1] = b /\ \A i \in 1..1 : <<a, b>>[i] = <<a>>[i]
  OBVIOUS
<1>3. <<a>> \o <<b>> = <<a, b>>
  BY <1>1, <1>2, Extend, Zenon
<1> QED BY <1>1, <1>3, ConcatEmptySeq

(* of three,                                                               *)
LEMMA JoinedThree ==
  ASSUME NEW a \in Statement, NEW b \in Statement, NEW c \in Statement
  PROVE  <<a, b>> \o <<c>> = <<a, b, c>>
<1>1. /\ <<a, b>> \in Seq(Statement) /\ <<a, b, c>> \in Seq(Statement)
      /\ Len(<<a, b>>) = 2 /\ Len(<<a, b, c>>) = 2 + 1
  OBVIOUS
<1>2. <<a, b, c>>[2 + 1] = c /\ \A i \in 1..2 : <<a, b, c>>[i] = <<a, b>>[i]
  OBVIOUS
<1> QED BY <1>1, <1>2, Extend, Zenon

(* and of four statements.                                                 *)
LEMMA JoinedFour ==
  ASSUME NEW a \in Statement, NEW b \in Statement, NEW c \in Statement, NEW d \in Statement
  PROVE  <<a, b, c>> \o <<d>> = <<a, b, c, d>>
<1>1. /\ <<a, b, c>> \in Seq(Statement) /\ <<a, b, c, d>> \in Seq(Statement)
      /\ Len(<<a, b, c>>) = 3 /\ Len(<<a, b, c, d>>) = 3 + 1
  OBVIOUS
<1>2. <<a, b, c, d>>[3 + 1] = d /\ \A i \in 1..3 : <<a, b, c, d>>[i] = <<a, b, c>>[i]
  OBVIOUS
<1> QED BY <1>1, <1>2, Extend, Zenon

(* The statements a request begins with are among those it may have left.  *)
LEMMA Programs ==
  ASSUME NEW req \in Request
  PROVE  /\ req.op = "delete" => /\ DeleteFileMetaInfo(req) \in Todo(req)
                                  /\ DeleteFileMetaInfo(req)[1] = "delList"
         /\ req.op = "move" => MoveFile \in Todo(req) /\ MoveFile[1] = "updateListKey"
         /\ Upload(req) => /\ StoreMetaInfo(req) \in Todo(req)
                           /\ req.op = "whole" => StoreMetaInfo(req)[1] = "delList"
                           /\ StoreMetaInfo(req)[1] # "delListOne"
                           /\ InDirectory(req) => StoreMetaInfo(req)[1] # "pushList"
<1>0. /\ "delList" \in Statement /\ "delListOne" \in Statement
      /\ "pushDirectory" \in Statement /\ "pushList" \in Statement
  BY DEF Statement
<1>1. CASE InDirectory(req)
  <2>1. DeleteFileMetaInfo(req) = <<"delList", "delListOne">>
    BY <1>0, <1>1, Joined DEF DeleteFileMetaInfo
  <2>2. /\ <<"delList", "delListOne">> \o <<"pushDirectory">>
             = <<"delList", "delListOne", "pushDirectory">>
        /\ <<"delList", "delListOne", "pushDirectory">> \o <<"pushList">>
             = <<"delList", "delListOne", "pushDirectory", "pushList">>
        /\ <<>> \o <<"pushDirectory">> = <<"pushDirectory">>
        /\ <<"pushDirectory">> \o <<"pushList">> = <<"pushDirectory", "pushList">>
    BY <1>0, Joined, JoinedThree, JoinedFour
  <2>3. StoreMetaInfo(req) =
          IF req.op = "whole" THEN <<"delList", "delListOne", "pushDirectory", "pushList">>
                              ELSE <<"pushDirectory", "pushList">>
    BY <1>1, <2>1, <2>2, Zenon DEF StoreMetaInfo
  <2> QED BY <1>1, <2>1, <2>3 DEF Todo, Upload, MoveFile
<1>2. CASE ~InDirectory(req)
  <2>1. DeleteFileMetaInfo(req) = <<"delList">>
    BY <1>0, <1>2, Joined DEF DeleteFileMetaInfo
  <2>2. /\ <<"delList">> \o <<>> = <<"delList">> /\ <<>> \o <<>> = <<>>
        /\ <<>> \o <<"pushList">> = <<"pushList">>
        /\ <<"delList">> \o <<"pushList">> = <<"delList", "pushList">>
    BY <1>0, Joined, JoinedThree, JoinedFour
  <2>3. StoreMetaInfo(req) = IF req.op = "whole" THEN <<"delList", "pushList">>
                                                 ELSE <<"pushList">>
    BY <1>2, <2>1, <2>2, Zenon DEF StoreMetaInfo
  <2> QED BY <1>2, <2>1, <2>3 DEF Todo, Upload, MoveFile
<1> QED BY <1>1, <1>2

(* What is left after a statement; an upload ends with the row of the file. *)
LEMMA TodoStep ==
  ASSUME NEW req \in Request, NEW todo \in Todo(req)
  PROVE  /\ todo \in Seq(Statement) /\ todo # <<>> /\ Head(todo) = todo[1]
         /\ todo[1] \in Statement
         /\ Len(todo) # 1 => Tail(todo) \in Todo(req)
         /\ todo[1] = "updateListKey" <=> req.op = "move"
         /\ todo[1] = "pushList" => Upload(req) /\ Len(todo) = 1
         /\ todo[1] \in {"delListOne", "pushDirectory"} => req.path \in Tags
         /\ Upload(req) /\ Len(todo) = 1 => todo[1] = "pushList"
         /\ Len(todo) # 1 => /\ Tail(todo)[1] # "delList"
                             /\ Tail(todo)[1] = "delListOne" => todo[1] = "delList"
                             /\ Tail(todo)[1] = "pushList"
                                  => Upload(req) /\ (InDirectory(req) => todo[1] = "pushDirectory")
<1>1. req.op \in {"whole", "fragment", "delete", "move"}
  BY DEF Request
<1>0. InDirectory(req) => req.path \in Tags
  BY DEF InDirectory
<1> DEFINE tag == InDirectory(req)
<1>2. \/ todo = <<"updateListKey">> /\ req.op = "move"
      \/ todo = <<"delList", "delListOne">> /\ req.op = "delete" /\ tag
      \/ todo = <<"delListOne">> /\ req.op = "delete" /\ tag
      \/ todo = <<"delList">> /\ req.op = "delete" /\ ~tag
      \/ todo = <<"pushList">> /\ req.op \in {"whole", "fragment"}
      \/ todo = <<"pushDirectory", "pushList">> /\ req.op \in {"whole", "fragment"} /\ tag
      \/ todo = <<"delList", "pushList">> /\ req.op = "whole" /\ ~tag
      \/ todo = <<"delList", "delListOne", "pushDirectory", "pushList">> /\ req.op = "whole" /\ tag
      \/ todo = <<"delListOne", "pushDirectory", "pushList">> /\ req.op = "whole" /\ tag
  BY <1>1 DEF Todo
<1>3. ASSUME NEW a \in Statement, todo = <<a>>
      PROVE  /\ Len(todo) = 1 /\ todo # <<>> /\ Head(todo) = todo[1] /\ todo \in Seq(Statement)
             /\ todo[1] = a
  BY <1>3
<1>4. ASSUME NEW a \in Statement, NEW b \in Statement, todo = <<a, b>>
      PROVE  /\ Len(todo) = 2 /\ todo # <<>> /\ Head(todo) = todo[1] /\ todo \in Seq(Statement)
             /\ todo[1] = a /\ Tail(todo) = <<b>> /\ Tail(todo)[1] = b
  BY <1>4
<1>5. /\ "delList" \in Statement /\ "delListOne" \in Statement
      /\ "pushDirectory" \in Statement /\ "pushList" \in Statement
      /\ "updateListKey" \in Statement
  BY DEF Statement
<1>6. CASE todo = <<"updateListKey">>
  BY <1>0, <1>2, <1>3, <1>5, <1>6 DEF Upload
<1>7. CASE todo = <<"delListOne">>
  BY <1>0, <1>2, <1>3, <1>5, <1>7 DEF Upload
<1>8. CASE todo = <<"delList">>
  BY <1>0, <1>2, <1>3, <1>5, <1>8 DEF Upload
<1>9. CASE todo = <<"pushList">>
  BY <1>0, <1>2, <1>3, <1>5, <1>9 DEF Upload
<1>10. CASE todo = <<"delList", "delListOne">>
  BY <1>0, <1>2, <1>4, <1>5, <1>10 DEF Todo, Upload
<1>11. CASE todo = <<"pushDirectory", "pushList">>
  BY <1>0, <1>2, <1>4, <1>5, <1>11 DEF Todo, Upload
<1>12. CASE todo = <<"delList", "pushList">>
  BY <1>0, <1>2, <1>4, <1>5, <1>12 DEF Todo, Upload
<1>13. CASE todo = <<"delListOne", "pushDirectory", "pushList">>
  <2>1. /\ Len(todo) = 3 /\ todo # <<>> /\ Head(todo) = todo[1] /\ todo[1] = "delListOne"
        /\ Tail(todo) = <<"pushDirectory", "pushList">> /\ Tail(todo)[1] = "pushDirectory"
    BY <1>13
  <2>2. todo \in Seq(Statement)
    BY <1>5, <1>13
  <2>3. req.op = "whole" /\ tag
    BY <1>2, <1>13, <2>1
  <2>4. Tail(todo) \in Todo(req)
    BY <2>1, <2>3 DEF Todo
  <2> QED BY <1>0, <1>5, <2>1, <2>2, <2>3, <2>4 DEF Upload
<1>14. CASE todo = <<"delList", "delListOne", "pushDirectory", "pushList">>
  <2>1. /\ Len(todo) = 4 /\ todo # <<>> /\ Head(todo) = todo[1] /\ todo[1] = "delList"
        /\ Tail(todo) = <<"delListOne", "pushDirectory", "pushList">>
        /\ Tail(todo)[1] = "delListOne"
    BY <1>14
  <2>2. todo \in Seq(Statement)
    BY <1>5, <1>14
  <2> QED BY <1>0, <1>2, <1>5, <2>1, <2>2 DEF Todo, Upload
<1> QED BY <1>0, <1>2, <1>6, <1>7, <1>8, <1>9, <1>10, <1>11, <1>12, <1>13, <1>14, Zenon

-----------------------------------------------------------------------------
(* Requests.                                                               *)

(* The paths a request touches: only moveFile touches two, and no tag.      *)
LEMMA RequestFields ==
  ASSUME NEW req \in Requests
  PROVE  /\ req \in Request
         /\ req.op \in {"whole", "fragment", "delete", "move"}
         /\ req.path \in Paths /\ req.path \in Touches(req) /\ Touches(req) \subseteq Paths
         /\ req.op # "move" => Touches(req) = {req.path}
         /\ req.op = "move" => /\ Touches(req) = {req.path, req.dest}
                               /\ Touches(req) \cap Tags = {}
BY ImageAssumption DEF Request, Touches

(* Requests disturb each other, and a whole upload all that meet it.        *)
LEMMA DisturbsBoth ==
  ASSUME NEW req, NEW other
  PROVE  /\ Disturbs(req, other) <=> Disturbs(other, req)
         /\ other.op = "whole" /\ Touches(req) \cap Touches(other) # {} => Disturbs(req, other)
BY DEF Disturbs

(* A goroutine without a request is a handler.                              *)
LEMMA IdleHandler == Idle \in Handler
<1>1. 0 \in 0..Cardinality(Servers)
  BY ImageAssumption, FS_CardinalityType
<1>2. <<>> \in Seq(Statement)
  OBVIOUS
<1> QED BY <1>1, <1>2, ImageAssumption DEF Idle, Handler

(* A request that was there before and is there still is as far apart from  *)
(* others as it was.                                                        *)
LEMMA ApartKept ==
  ASSUME Apart, Active' \subseteq Active, kept' \subseteq kept, loose' = loose,
         \A h \in Active' : handler'[h].req = handler[h].req /\ handler'[h].alone = handler[h].alone
  PROVE  Apart'
BY DEF Apart

(* Copies are never lost.                                                   *)
LEMMA SpreadKept ==
  ASSUME NEW fid, NEW rest, NEW rest2, rest \subseteq Servers,
         \A s \in Servers : disk[s] \subseteq disk'[s], partial => partial',
         rest2 \subseteq Servers, rest \subseteq rest2 \cup Holders(fid)',
         Spread(fid, rest)
  PROVE  Spread(fid, rest2)'
<1>1. /\ Holders(fid) \subseteq Holders(fid)' /\ Holders(fid)' \subseteq Servers
      /\ rest \cup Holders(fid) \subseteq rest2 \cup Holders(fid)'
      /\ rest2 \cup Holders(fid)' \subseteq Servers
  BY DEF Holders
<1>2. IsFiniteSet(rest2 \cup Holders(fid)')
  BY <1>1, ImageAssumption, FS_Subset
<1>3. /\ Cardinality(rest \cup Holders(fid)) <= Cardinality(rest2 \cup Holders(fid)')
      /\ Cardinality(rest \cup Holders(fid)) \in Nat /\ Cardinality(rest2 \cup Holders(fid)') \in Nat
  BY <1>1, <1>2, FS_Subset, FS_CardinalityType
<1>4. Cardinality(rest2 \cup Holders(fid)') >= limitNum
  BY <1>3, ImageAssumption DEF Spread
<1>5. ~partial' => rest2 \cup Holders(fid)' = Servers
  BY <1>1 DEF Spread
<1> QED BY <1>4, <1>5 DEF Spread

(* A handler that is where it was has its data where they were.             *)
LEMMA PlacedKept ==
  ASSUME Types, NEW h \in Handlers, Posting(handler[h]), Storing(handler[h]),
         \A s \in Servers : disk[s] \subseteq disk'[s], partial => partial',
         \E g \in [alone : BOOLEAN] : handler'[h] = [handler[h] EXCEPT !.alone = g.alone]
  PROVE  (Posting(handler[h]) /\ Storing(handler[h]))'
<1> PICK f \in 0..MaxUploads, p \in SUBSET Servers : f = handler[h].fid /\ p = handler[h].posts
  BY DEF Types, Handler
<1>1. Spread(f, p) => Spread(f, p)'
  BY SpreadKept
<1>2. Spread(f, {}) => Spread(f, {})'
  BY SpreadKept
<1>3. /\ handler'[h].fid = f /\ handler'[h].posts = p /\ handler'[h].pc = handler[h].pc
      /\ handler'[h].req = handler[h].req /\ handler'[h].todo = handler[h].todo
      /\ handler'[h].results = handler[h].results /\ handler'[h].failed = handler[h].failed
  BY DEF Types, Handler
<1>4. Posting(handler[h])'
  BY <1>1, <1>3 DEF Posting, Spread, Holders
<1>5. Storing(handler[h])'
  BY <1>2, <1>3 DEF Storing, Spread, Holders
<1> QED BY <1>4, <1>5

(* Rows and kept uploads have their data where they were.                   *)
LEMMA RowsSpread ==
  ASSUME DataPlaced, \A s \in Servers : disk[s] \subseteq disk'[s], partial => partial'
  PROVE  /\ \A row \in rows : Cardinality(Holders(row.fid)') >= limitNum
         /\ \A k \in kept : Spread(k.fid, {})'
<1>1. ASSUME NEW row \in rows PROVE Cardinality(Holders(row.fid)') >= limitNum
  <2> PICK f : f = row.fid
    OBVIOUS
  <2>1. Holders(f) \subseteq Holders(f)' /\ Holders(f)' \subseteq Servers
    BY DEF Holders
  <2>2. IsFiniteSet(Holders(f)')
    BY <2>1, ImageAssumption, FS_Subset
  <2>3. /\ Cardinality(Holders(f)) <= Cardinality(Holders(f)')
        /\ Cardinality(Holders(f)) \in Nat /\ Cardinality(Holders(f)') \in Nat
    BY <2>1, <2>2, FS_Subset, FS_CardinalityType
  <2>4. Cardinality(Holders(f)) >= limitNum
    BY DEF DataPlaced, Replicated, Holders
  <2>5. Cardinality(Holders(f)') >= limitNum
    BY <2>3, <2>4, ImageAssumption
  <2> QED BY <2>5 DEF Holders
<1>2. ASSUME NEW k \in kept PROVE Spread(k.fid, {})'
  <2>1. Spread(k.fid, {})
    BY DEF DataPlaced
  <2> PICK f : f = k.fid
    OBVIOUS
  <2>2. Spread(f, {}) => Spread(f, {})'
    BY SpreadKept
  <2> QED BY <2>1, <2>2 DEF Spread, Holders
<1> QED BY <1>1, <1>2

-----------------------------------------------------------------------------
(* A request arrives.                                                      *)

(* Whom it meets, and what the histories then say.                          *)
LEMMA ArriveApart ==
  ASSUME Types, Apart, NEW h \in Handlers, NEW req \in Requests, NEW r \in Handler,
         r.req = req, r.pc # "idle", Arrive(h, req, r)
  PROVE  Apart'
<1> DEFINE crossed == {g \in Active : Disturbs(req, handler[g].req)}
<1>1. /\ h \notin Active /\ handler[h].pc = "idle"
      /\ handler' = [g \in Handlers |->
                       CASE g = h          -> [r EXCEPT !.alone = crossed = {}]
                         [] g \in crossed  -> [handler[g] EXCEPT !.alone = FALSE]
                         [] OTHER          -> handler[g]]
      /\ kept' = {k \in kept : ~Disturbs(req, k.req)}
      /\ loose' = loose \cup {p \in Tags \cap Touches(req) :
                                \/ Upload(req) /\ ~InDirectory(req)
                                \/ \E g \in Active : p \in Touches(handler[g].req)}
  BY DEF Arrive, Active
<1>2. /\ handler'[h].pc = r.pc /\ handler'[h].req = req
      /\ handler'[h].alone = (crossed = {})
  BY <1>1 DEF Handler
<1>3. ASSUME NEW g \in Handlers, g # h
      PROVE  /\ handler'[g].pc = handler[g].pc /\ handler'[g].req = handler[g].req
             /\ handler'[g].alone = (handler[g].alone /\ g \notin crossed)
  <2>1. CASE g \in crossed
    BY <1>1, <1>3, <2>1, Zenon DEF Types, Handler
  <2>2. CASE g \notin crossed
    BY <1>1, <1>3, <2>2, Zenon DEF Types, Handler
  <2> QED BY <2>1, <2>2
<1>4. Active' = Active \cup {h}
  BY <1>1, <1>2, <1>3 DEF Active
<1> HIDE DEF crossed
<1>5. ASSUME NEW a \in Active', handler'[a].alone, NEW g \in Active' \ {a}
      PROVE  ~Disturbs(handler'[g].req, handler'[a].req)
  <2>1. CASE a = h
    BY <1>1, <1>2, <1>3, <1>4, <1>5, <2>1, DisturbsBoth, Zenon DEF crossed, Active
  <2>2. CASE g = h
    BY <1>1, <1>2, <1>3, <1>4, <1>5, <2>2 DEF crossed, Active
  <2>3. CASE a # h /\ g # h
    BY <1>3, <1>4, <1>5, <2>3, Zenon DEF Apart, Active
  <2> QED BY <2>1, <2>2, <2>3
<1>6. ASSUME NEW k \in kept', NEW g \in Active' PROVE ~Disturbs(handler'[g].req, k.req)
  <2>1. CASE g = h
    BY <1>1, <1>2, <2>1
  <2>2. CASE g # h
    BY <1>1, <1>3, <1>4, <2>2 DEF Apart, Active
  <2> QED BY <2>1, <2>2
<1>7. ASSUME NEW a \in Active', NEW g \in Active', a # g
      PROVE  Tags \cap Touches(handler'[a].req) \cap Touches(handler'[g].req) \subseteq loose'
  <2>1. CASE a = h
    BY <1>1, <1>2, <1>3, <1>4, <1>7, <2>1 DEF Active
  <2>2. CASE g = h
    BY <1>1, <1>2, <1>3, <1>4, <1>7, <2>2 DEF Active
  <2>3. CASE a # h /\ g # h
    BY <1>1, <1>3, <1>4, <1>7, <2>3 DEF Apart, Active
  <2> QED BY <2>1, <2>2, <2>3
<1>8. ASSUME NEW g \in Active', Upload(handler'[g].req), ~InDirectory(handler'[g].req)
      PROVE  Tags \cap Touches(handler'[g].req) \subseteq loose'
  <2>1. CASE g = h
    BY <1>1, <1>2, <1>8, <2>1
  <2>2. CASE g # h
    BY <1>1, <1>3, <1>4, <1>8, <2>2 DEF Apart, Active
  <2> QED BY <2>1, <2>2
<1> QED BY <1>5, <1>6, <1>7, <1>8 DEF Apart

(* Nothing is executed yet.                                                 *)
LEMMA ArriveRows ==
  ASSUME Types, RowsRight, NEW h \in Handlers, NEW req \in Requests, NEW r \in Handler,
         r.req = req, r.pc # "idle", Arrive(h, req, r),
         r.pc = "store" => req.op # "whole" /\ r.todo[1] \in {"delList", "updateListKey"}
  PROVE  RowsRight'
<1>1. /\ rows' = rows /\ listed' = listed /\ loose \subseteq loose' /\ kept' \subseteq kept
  BY DEF Arrive
<1>2. \A p : RowsOf(p)' = RowsOf(p)
  BY <1>1 DEF RowsOf
<1>3. /\ handler'[h].pc = r.pc /\ handler'[h].req = req /\ handler'[h].todo = r.todo
  <2> DEFINE crossed == {g \in Active : Disturbs(req, handler[g].req)}
             new == [r EXCEPT !.alone = crossed = {}]
  <2>1. handler' = [g \in Handlers |->
                      CASE g = h          -> new
                        [] g \in crossed  -> [handler[g] EXCEPT !.alone = FALSE]
                        [] OTHER          -> handler[g]]
    BY DEF Arrive
  <2>2. h \notin crossed
    BY DEF Arrive, Active
  <2> HIDE DEF new, crossed
  <2>3. handler'[h] = new
    BY <2>1, <2>2
  <2> QED BY <2>3 DEF Handler, new
<1>4. ASSUME NEW g \in Handlers, g # h
      PROVE  /\ handler'[g].pc = handler[g].pc /\ handler'[g].req = handler[g].req
             /\ handler'[g].todo = handler[g].todo
             /\ handler'[g].alone => handler[g].alone
  BY <1>4 DEF Arrive, Types, Handler
<1>5. ASSUME NEW g \in Handlers PROVE Cleared(handler[g])' /\ TagReady(handler[g])'
  <2>1. CASE g = h
    BY <1>3, <2>1 DEF Cleared, TagReady
  <2>2. CASE g # h
    <3>1. Cleared(handler[g]) /\ TagReady(handler[g])
      BY DEF RowsRight
    <3>2. Cleared(handler[g])'
      BY <1>2, <1>4, <2>2, <3>1 DEF Cleared
    <3>3. TagReady(handler[g])'
      BY <1>1, <1>2, <1>4, <2>2, <3>1 DEF TagReady
    <3> QED BY <3>2, <3>3
  <2> QED BY <2>1, <2>2
<1>6. \A k \in kept' : KeptRow(k)'
  BY <1>1, <1>2 DEF RowsRight, KeptRow
<1>7. TagListed'
  BY <1>1 DEF RowsRight, TagListed
<1> QED BY <1>5, <1>6, <1>7 DEF RowsRight

(* All of the invariant, whatever the request is.                           *)
LEMMA ArriveStep ==
  ASSUME IInv, NEW h \in Handlers, NEW req \in Requests, NEW r \in Handler,
         r.req = req, r.pc # "idle", Arrive(h, req, r),
         r.pc = "store" => req.op # "whole" /\ r.todo[1] \in {"delList", "updateListKey"},
         fids' \in 0..MaxUploads, partial' \in BOOLEAN, partial => partial',
         (Posting(handler[h]) /\ Storing(handler[h]))'
  PROVE  IInv'
<1>1. /\ rows' = rows /\ listed' = listed /\ disk' = disk /\ kept' \subseteq kept
      /\ loose' \subseteq loose \cup Tags
      /\ handler' \in [Handlers -> Handler]
      /\ \E b \in BOOLEAN : handler'[h] = [r EXCEPT !.alone = b]
      /\ \A g \in Handlers \ {h} :
           \E b \in [alone : BOOLEAN] : handler'[g] = [handler[g] EXCEPT !.alone = b.alone]
  <2> DEFINE crossed == {g \in Active : Disturbs(req, handler[g].req)}
             new == [r EXCEPT !.alone = crossed = {}]
  <2>0. h \notin crossed
    BY DEF Arrive, Active
  <2>1. handler' = [g \in Handlers |->
                       CASE g = h          -> new
                         [] g \in crossed  -> [handler[g] EXCEPT !.alone = FALSE]
                         [] OTHER          -> handler[g]]
    BY DEF Arrive
  <2> HIDE DEF new, crossed
  <2>2. ASSUME NEW g \in Handlers
        PROVE  /\ handler'[g] \in Handler
               /\ g = h => \E b \in BOOLEAN : handler'[g] = [r EXCEPT !.alone = b]
               /\ g # h => \E b \in [alone : BOOLEAN] :
                             handler'[g] = [handler[g] EXCEPT !.alone = b.alone]
    <3>1. handler[g] \in Handler
      BY DEF IInv, Types
    <3>2. CASE g = h
      <4>1. handler'[g] = new
        BY <2>0, <2>1, <3>2
      <4>2. new \in Handler
        BY Zenon DEF Handler, new
      <4> QED BY <3>2, <4>1, <4>2, Zenon DEF new
    <3>3. CASE g # h /\ g \in crossed
      <4>1. handler'[g] = [handler[g] EXCEPT !.alone = [alone |-> FALSE].alone]
        BY <2>1, <3>3
      <4>2. [handler[g] EXCEPT !.alone = FALSE] \in Handler
        BY <3>1, Zenon DEF Handler
      <4> QED BY <3>3, <4>1, <4>2, Zenon
    <3>4. CASE g # h /\ g \notin crossed
      <4>1. handler'[g] = handler[g]
        BY <2>1, <3>4
      <4>2. handler[g] = [handler[g] EXCEPT !.alone = [alone |-> handler[g].alone].alone]
        BY <3>1 DEF Handler
      <4>3. [alone |-> handler[g].alone] \in [alone : BOOLEAN]
        BY <3>1 DEF Handler
      <4> QED BY <3>1, <3>4, <4>1, <4>2, <4>3, Zenon
    <3> QED BY <3>2, <3>3, <3>4, Zenon
  <2>3. handler' \in [Handlers -> Handler]
    BY <2>1, <2>2
  <2>4. /\ rows' = rows /\ listed' = listed /\ disk' = disk /\ kept' \subseteq kept
        /\ loose' \subseteq loose \cup Tags
    BY DEF Arrive
  <2> QED BY <2>2, <2>3, <2>4
<1>2. \A g \in Active' : handler'[g].req \in Requests
  <2> SUFFICES ASSUME NEW g \in Active' PROVE handler'[g].req \in Requests
    OBVIOUS
  <2>1. CASE g = h
    BY <1>1, <2>1 DEF Handler
  <2>2. CASE g # h
    <3>1. PICK b \in [alone : BOOLEAN] : handler'[g] = [handler[g] EXCEPT !.alone = b.alone]
      BY <1>1, <2>2 DEF Active
    <3>2. handler[g] \in Handler /\ g \in Handlers /\ handler'[g].pc # "idle"
      BY DEF IInv, Types, Active
    <3>3. handler'[g].pc = handler[g].pc /\ handler'[g].req = handler[g].req
      BY <3>1, <3>2 DEF Handler
    <3> QED BY <3>2, <3>3 DEF IInv, Types, Active
  <2> QED BY <2>1, <2>2
<1>3. Types'
  BY <1>1, <1>2 DEF IInv, Types
<1>4. DataPlaced'
  <2>1. \A s \in Servers : disk[s] \subseteq disk'[s]
    BY <1>1
  <2>2. ASSUME NEW g \in Handlers \ {h} PROVE (Posting(handler[g]) /\ Storing(handler[g]))'
    BY <1>1, <2>1, PlacedKept DEF IInv, DataPlaced
  <2>3. Replicated' /\ \A k \in kept' : Spread(k.fid, {})'
    BY <1>1, <2>1, RowsSpread DEF IInv, Replicated, Holders
  <2> QED BY <2>2, <2>3 DEF DataPlaced
<1>5. Apart'
  BY ArriveApart DEF IInv
<1>6. RowsRight'
  BY ArriveRows DEF IInv
<1> QED BY <1>3, <1>4, <1>5, <1>6 DEF IInv

(* What the handler of the new request is afterwards.                       *)
LEMMA Arrived ==
  ASSUME NEW h \in Handlers, NEW req \in Requests, NEW r \in Handler, Arrive(h, req, r)
  PROVE  /\ handler'[h].pc = r.pc /\ handler'[h].req = r.req /\ handler'[h].fid = r.fid
         /\ handler'[h].posts = r.posts /\ handler'[h].results = r.results
         /\ handler'[h].failed = r.failed /\ handler'[h].todo = r.todo /\ disk' = disk
<1> DEFINE crossed == {g \in Active : Disturbs(req, handler[g].req)}
           new == [r EXCEPT !.alone = crossed = {}]
<1>1. /\ handler' = [g \in Handlers |->
                       CASE g = h          -> new
                         [] g \in crossed  -> [handler[g] EXCEPT !.alone = FALSE]
                         [] OTHER          -> handler[g]]
      /\ h \notin crossed /\ disk' = disk
  BY DEF Arrive, Active
<1> HIDE DEF new, crossed
<1>2. handler'[h] = new
  BY <1>1
<1> QED BY <1>1, <1>2 DEF Handler, new

(* uploadFile: the group it posts to is spread as widely as its rows must be. *)
LEMMA UploadStep ==
  ASSUME IInv, NEW h \in Handlers, NEW req \in Requests, NEW groups \in [Servers -> Known],
         uploadFile(h, req, groups)
  PROVE  IInv'
<1> DEFINE group == {s \in Servers : groups[s] = "RW"}
<1>1. /\ Upload(req) /\ fids + 1 \in 1..MaxUploads /\ fids' = fids + 1
      /\ partial' \in BOOLEAN
      /\ partial => partial'
      /\ ~partial' => \A s \in Servers : groups[s] # "out"
  <2>1. /\ Upload(req) /\ fids < MaxUploads /\ fids' = fids + 1
        /\ partial' = (partial \/ \E s \in Servers : groups[s] = "out")
    BY DEF uploadFile
  <2>2. fids + 1 \in 1..MaxUploads
    BY <2>1, ImageAssumption DEF IInv, Types
  <2>3. /\ partial' \in BOOLEAN
        /\ partial => partial'
        /\ ~partial' => \A s \in Servers : groups[s] # "out"
    BY <2>1, Zenon
  <2> QED BY <2>1, <2>2, <2>3
<1>2. /\ group \subseteq Servers /\ Cardinality(group) \in 0..Cardinality(Servers)
      /\ Cardinality(group) >= limitNum
  <2>1. group = {s \in Servers : groups[s] # "out"}
    BY DEF uploadFile, selectChunkServerGroupComplex
  <2>2. Cardinality(group) <= Cardinality(Servers) /\ Cardinality(group) \in Nat
        /\ Cardinality(Servers) \in Nat
    BY ImageAssumption, FS_Subset, FS_CardinalityType
  <2>3. Cardinality(group) >= limitNum
    BY <2>1 DEF uploadFile, selectChunkServerGroupComplex
  <2> HIDE DEF group
  <2>4. Cardinality(group) \in 0..Cardinality(Servers)
    BY <2>2
  <2> QED BY <2>3, <2>4 DEF group
<1>3. PICK r \in Handler : r = [Idle EXCEPT !.pc = "post", !.req = req, !.fid = fids + 1,
                                            !.posts = group, !.results = Cardinality(group)]
  <2>1. fids + 1 \in 0..MaxUploads
    BY <1>1
  <2> QED BY <1>2, <2>1, IdleHandler, Zenon DEF Handler
<1>4. /\ r.req = req /\ r.pc = "post" /\ r.fid = fids + 1 /\ r.posts = group
      /\ r.results = Cardinality(group)
  BY <1>3 DEF Idle
<1>5. Arrive(h, req, r)
  BY <1>3 DEF uploadFile
<1>6. Spread(r.fid, r.posts)'
  <2> PICK f : f = r.fid
    OBVIOUS
  <2>1. Holders(f)' \subseteq Servers
    BY DEF Holders
  <2>2. group \cup Holders(f)' \subseteq Servers
    BY <2>1
  <2>3. IsFiniteSet(group \cup Holders(f)')
    BY <2>2, ImageAssumption, FS_Subset
  <2>4. Cardinality(group) <= Cardinality(group \cup Holders(f)')
        /\ Cardinality(group \cup Holders(f)') \in Nat
    BY <2>3, FS_Subset, FS_CardinalityType
  <2>5. Cardinality(group \cup Holders(f)') >= limitNum
    BY <1>2, <2>4, ImageAssumption
  <2>6. ~partial' => group = Servers
    BY <1>1 DEF uploadFile, selectChunkServerGroupComplex, Known
  <2> HIDE DEF group
  <2> QED BY <1>4, <2>1, <2>5, <2>6 DEF Spread, Holders
<1>7. (Posting(handler[h]) /\ Storing(handler[h]))'
  <2>1. /\ handler'[h].pc = "post" /\ handler'[h].req = req /\ handler'[h].fid = r.fid
        /\ handler'[h].posts = r.posts /\ handler'[h].results = Cardinality(r.posts)
    BY <1>4, <1>5, Arrived
  <2>2. Posting(handler[h])'
    BY <1>1, <1>4, <1>6, <2>1 DEF Posting, Spread, Holders
  <2>3. Storing(handler[h])'
    BY <2>1 DEF Storing
  <2> QED BY <2>2, <2>3
<1>8. fids' \in 0..MaxUploads
  BY <1>1
<1> QED BY <1>1, <1>4, <1>5, <1>7, <1>8, ArriveStep

(* Deletes and moves have no data to store.                                 *)
LEMMA ChangeStep ==
  ASSUME IInv, NEW h \in Handlers, NEW req \in Requests, deleteFile(h, req) \/ moveFile(h, req)
  PROVE  IInv'
<1>1. req \in Request /\ req.op \in {"delete", "move"}
  BY RequestFields DEF deleteFile, moveFile
<1>2. PICK todo \in Todo(req) :
        /\ todo[1] \in {"delList", "updateListKey"} /\ todo \in Seq(Statement)
        /\ Arrive(h, req, [Idle EXCEPT !.pc = "store", !.req = req, !.todo = todo])
  BY <1>1, Programs, TodoStep, Zenon DEF deleteFile, moveFile
<1>3. PICK r \in Handler : r = [Idle EXCEPT !.pc = "store", !.req = req, !.todo = todo]
  BY <1>2, IdleHandler, Zenon DEF Handler
<1>4. r.req = req /\ r.pc = "store" /\ r.todo = todo
  BY <1>3 DEF Idle
<1>5. Arrive(h, req, r)
  BY <1>2, <1>3
<1>6. /\ fids' \in 0..MaxUploads /\ partial' \in BOOLEAN
      /\ partial => partial'
  BY DEF deleteFile, moveFile, IInv, Types
<1>7. (Posting(handler[h]) /\ Storing(handler[h]))'
  <2>1. handler'[h].pc = "store" /\ handler'[h].req = req /\ handler'[h].todo = todo
    BY <1>4, <1>5, Arrived
  <2> QED BY <1>1, <2>1 DEF Posting, Storing, Upload
<1> QED BY <1>1, <1>2, <1>4, <1>5, <1>6, <1>7, ArriveStep

-----------------------------------------------------------------------------
(* The steps of a request.                                                 *)

(* A step of one handler leaves the data of the others in place.            *)
LEMMA OthersPlaced ==
  ASSUME Types, DataPlaced, NEW h \in Handlers,
         \A s \in Servers : disk[s] \subseteq disk'[s], partial => partial',
         \A g \in Handlers \ {h} : handler'[g] = handler[g]
  PROVE  \A g \in Handlers \ {h} : (Posting(handler[g]) /\ Storing(handler[g]))'
<1> SUFFICES ASSUME NEW g \in Handlers \ {h}
             PROVE  (Posting(handler[g]) /\ Storing(handler[g]))'
  OBVIOUS
<1>1. handler[g] \in Handler
  BY DEF Types
<1>2. handler'[g] = [handler[g] EXCEPT !.alone = [alone |-> handler[g].alone].alone]
  BY <1>1 DEF Handler
<1>3. [alone |-> handler[g].alone] \in [alone : BOOLEAN]
  BY <1>1 DEF Handler
<1> QED BY <1>2, <1>3, PlacedKept, Zenon DEF DataPlaced

(* A step that leaves the rows alone.                                       *)
LEMMA RowsKept ==
  ASSUME RowsRight, NEW h \in Handlers, rows' = rows, listed' = listed, kept' = kept,
         loose' = loose, \A g \in Handlers \ {h} : handler'[g] = handler[g],
         (Cleared(handler[h]) /\ TagReady(handler[h]))'
  PROVE  RowsRight'
<1>1. \A p : RowsOf(p)' = RowsOf(p)
  BY DEF RowsOf
<1>2. ASSUME NEW g \in Handlers \ {h} PROVE (Cleared(handler[g]) /\ TagReady(handler[g]))'
  <2>1. Cleared(handler[g]) /\ TagReady(handler[g]) /\ handler'[g] = handler[g]
    BY DEF RowsRight
  <2> QED BY <1>1, <2>1 DEF Cleared, TagReady
<1>3. \A k \in kept' : KeptRow(k)'
  BY <1>1 DEF RowsRight, KeptRow
<1>4. TagListed'
  BY DEF RowsRight, TagListed
<1> QED BY <1>2, <1>3, <1>4 DEF RowsRight

(* A goroutine reports: its server has the data, or the upload has failed.  *)
LEMMA PostStep ==
  ASSUME IInv, NEW h \in Handlers, NEW s \in Servers, postFileConcurrence(h, s)
  PROVE  IInv'
<1>1. PICK r \in PutData :
        /\ disk' = IF r.stored THEN [disk EXCEPT ![s] = @ \cup {handler[h].fid}] ELSE disk
        /\ handler' = [handler EXCEPT ![h].posts = @ \ {s}, ![h].results = @ - 1,
                                      ![h].failed = @ \/ r.failed]
  BY Zenon DEF postFileConcurrence
<1> PICK old \in Handler : old = handler[h]
  BY DEF IInv, Types
<1>2. /\ old.pc = "post" /\ s \in old.posts
      /\ UNCHANGED <<partial, rows, listed, fids, kept, loose>>
  BY DEF postFileConcurrence
<1>3. /\ Upload(old.req) /\ old.fid \in 1..MaxUploads /\ old.results = Cardinality(old.posts)
      /\ ~old.failed => Spread(old.fid, old.posts)
  BY <1>2 DEF IInv, DataPlaced, Posting
<1>4. /\ old.posts \subseteq Servers /\ IsFiniteSet(old.posts)
      /\ Cardinality(old.posts \ {s}) = Cardinality(old.posts) - 1
      /\ Cardinality(old.posts \ {s}) \in Nat
  <2>1. old.posts \subseteq Servers
    BY DEF Handler
  <2>2. IsFiniteSet(old.posts)
    BY <2>1, ImageAssumption, FS_Subset
  <2> QED BY <1>2, <2>1, <2>2, FS_RemoveElement, FS_CardinalityType
<1>5. PICK new : new = [old EXCEPT !.posts = @ \ {s}, !.results = @ - 1, !.failed = @ \/ r.failed]
  OBVIOUS
<1>6. /\ new.pc = "post" /\ new.req = old.req /\ new.fid = old.fid /\ new.posts = old.posts \ {s}
      /\ new.results = old.results - 1 /\ new.todo = old.todo /\ new.alone = old.alone
  BY <1>2, <1>5 DEF Handler
<1>7. new.failed = (old.failed \/ r.failed) /\ new.failed \in BOOLEAN
  BY <1>5 DEF Handler, PutData
<1>8. new \in Handler
  <2>1. new.results \in 0..Cardinality(Servers)
    BY <1>3, <1>4, <1>6, ImageAssumption, FS_CardinalityType DEF Handler
  <2>2. old.results - 1 \in 0..Cardinality(Servers) /\ old.posts \ {s} \in SUBSET Servers
    BY <1>4, <1>6, <2>1
  <2> QED BY <1>5, <1>7, <2>2, Zenon DEF Handler
<1>9. handler'[h] = new /\ \A g \in Handlers \ {h} : handler'[g] = handler[g]
  BY <1>1, <1>5 DEF IInv, Types
<1>10. handler' \in [Handlers -> Handler]
  BY <1>1, <1>8, <1>9 DEF IInv, Types
<1>11. disk' \in [Servers -> SUBSET (1..MaxUploads)] /\ \A t \in Servers : disk[t] \subseteq disk'[t]
  BY <1>1, <1>3 DEF IInv, Types
<1>12. Active' = Active /\ \A g \in Active : /\ handler'[g].req = handler[g].req
                                             /\ handler'[g].alone = handler[g].alone
  BY <1>2, <1>6, <1>9 DEF Active
<1>13. Types'
  BY <1>2, <1>10, <1>11, <1>12 DEF IInv, Types
<1>14. DataPlaced'
  <2>1. ~new.failed => Spread(new.fid, new.posts)'
    <3> SUFFICES ASSUME ~new.failed PROVE Spread(new.fid, new.posts)'
      OBVIOUS
    <3>1. ~old.failed /\ r.stored
      BY <1>7 DEF PutData
    <3>2. s \in Holders(old.fid)'
      BY <1>1, <3>1 DEF IInv, Types, Holders
    <3>3. old.posts \subseteq new.posts \cup Holders(new.fid)'
      BY <1>6, <3>2
    <3> QED BY <1>2, <1>3, <1>4, <1>6, <1>11, <3>1, <3>3, SpreadKept
  <2>2. Posting(handler[h])'
    BY <1>3, <1>4, <1>6, <1>9, <2>1, Zenon DEF Posting, Spread, Holders
  <2>3. Storing(handler[h])'
    BY <1>6, <1>9 DEF Storing
  <2>4. \A g \in Handlers \ {h} : (Posting(handler[g]) /\ Storing(handler[g]))'
    BY <1>2, <1>9, <1>11, OthersPlaced DEF IInv
  <2>5. Replicated' /\ \A k \in kept' : Spread(k.fid, {})'
    BY <1>2, <1>11, RowsSpread DEF IInv, Replicated, Holders
  <2> QED BY <2>2, <2>3, <2>4, <2>5 DEF DataPlaced
<1>15. Apart'
  BY <1>2, <1>12, ApartKept DEF IInv
<1>16. RowsRight'
  <2>1. (Cleared(handler[h]) /\ TagReady(handler[h]))'
    BY <1>6, <1>9 DEF Cleared, TagReady
  <2> QED BY <1>2, <1>9, <2>1, RowsKept DEF IInv
<1> QED BY <1>13, <1>14, <1>15, <1>16 DEF IInv

(* All of the invariant, when a handler is at its end or has its data.      *)
LEMMA ResultStep ==
  ASSUME IInv, NEW h \in Handlers, NEW new \in Handler,
         handler' = [handler EXCEPT ![h] = new],
         UNCHANGED <<partial, disk, rows, listed, fids, kept, loose>>,
         new.pc # "idle" => /\ handler[h].pc # "idle" /\ new.req = handler[h].req
                            /\ new.alone = handler[h].alone,
         (Posting(handler[h]) /\ Storing(handler[h]))',
         (Cleared(handler[h]) /\ TagReady(handler[h]))'
  PROVE  IInv'
<1>1. handler'[h] = new /\ \A g \in Handlers \ {h} : handler'[g] = handler[g]
  BY DEF IInv, Types
<1>2. Active' \subseteq Active /\ \A g \in Active' : /\ handler'[g].req = handler[g].req
                                                     /\ handler'[g].alone = handler[g].alone
  BY <1>1 DEF Active
<1>3. Types'
  BY <1>2 DEF IInv, Types
<1>4. \A s \in Servers : disk[s] \subseteq disk'[s]
  OBVIOUS
<1>5. DataPlaced'
  <2>1. \A g \in Handlers \ {h} : (Posting(handler[g]) /\ Storing(handler[g]))'
    BY <1>1, <1>4, OthersPlaced DEF IInv
  <2>2. Replicated' /\ \A k \in kept' : Spread(k.fid, {})'
    BY <1>4, RowsSpread DEF IInv, Replicated, Holders
  <2> QED BY <2>1, <2>2 DEF DataPlaced
<1>6. Apart'
  BY <1>2, ApartKept DEF IInv
<1>7. RowsRight'
  BY <1>1, RowsKept DEF IInv
<1> QED BY <1>3, <1>5, <1>6, <1>7 DEF IInv

(* Abort leaves the rows and the data as they are.                          *)
LEMMA AbortStep ==
  ASSUME IInv, NEW h \in Handlers, Abort(h)
  PROVE  IInv'
<1>1. /\ handler' = [handler EXCEPT ![h] = Idle]
      /\ UNCHANGED <<partial, disk, rows, listed, fids, kept, loose>>
  BY DEF Abort
<1>2. handler'[h].pc = "idle" /\ Idle.pc = "idle"
  BY <1>1 DEF IInv, Types, Idle
<1>3. (Posting(handler[h]) /\ Storing(handler[h]) /\ Cleared(handler[h]) /\ TagReady(handler[h]))'
  BY <1>2 DEF Posting, Storing, Cleared, TagReady
<1> QED BY <1>1, <1>2, <1>3, IdleHandler, ResultStep, Zenon

(* When the results are there, no goroutine is left: the data are stored.   *)
LEMMA HandleResultStep ==
  ASSUME IInv, NEW h \in Handlers, handlePostResult(h)
  PROVE  IInv'
<1> PICK old \in Handler : old = handler[h]
  BY DEF IInv, Types
<1>1. /\ old.pc = "post" /\ old.results = 0
      /\ handler' = [handler EXCEPT ![h] =
           IF Successful(old) THEN [old EXCEPT !.pc = "store", !.todo = StoreMetaInfo(old.req)]
                              ELSE Idle]
      /\ UNCHANGED <<partial, disk, rows, listed, fids, kept, loose>>
  BY DEF handlePostResult
<1>2. CASE ~Successful(old)
  <2>1. handler' = [handler EXCEPT ![h] = Idle]
    BY <1>1, <1>2
  <2>2. Abort(h)
    BY <1>1, <2>1, Zenon DEF Abort
  <2> QED BY <2>2, AbortStep
<1>3. CASE Successful(old)
  <2>1. /\ Upload(old.req) /\ old.fid \in 1..MaxUploads /\ Cardinality(old.posts) = 0
        /\ Spread(old.fid, old.posts) /\ old.posts \subseteq Servers /\ old.req \in Requests
    BY <1>1, <1>3, Zenon DEF IInv, DataPlaced, Posting, Successful, Types, Active, Handler
  <2>2. old.posts = {}
    BY <2>1, ImageAssumption, FS_Subset, FS_EmptySet
  <2>3. PICK todo \in Todo(old.req) :
          /\ todo = StoreMetaInfo(old.req) /\ todo \in Seq(Statement)
          /\ old.req.op = "whole" => todo[1] = "delList"
          /\ todo[1] # "delListOne"
          /\ InDirectory(old.req) => todo[1] # "pushList"
    BY <2>1, RequestFields, Programs, TodoStep
  <2>4. PICK new \in Handler : new = [old EXCEPT !.pc = "store", !.todo = todo]
    BY <2>3, Zenon DEF Handler
  <2>5. /\ new.pc = "store" /\ new.todo = todo /\ new.req = old.req /\ new.fid = old.fid
        /\ new.alone = old.alone
    BY <2>4 DEF Handler
  <2>6. handler' = [handler EXCEPT ![h] = new]
    BY <1>1, <1>3, <2>3, <2>4
  <2>7. handler'[h] = new
    BY <2>6 DEF IInv, Types
  <2>8. (Posting(handler[h]) /\ Storing(handler[h]))'
    BY <1>1, <2>1, <2>2, <2>5, <2>7, Zenon DEF Posting, Storing, Spread, Holders
  <2>9. (Cleared(handler[h]) /\ TagReady(handler[h]))'
    <3>1. old.req.path \in Tags \ loose => InDirectory(old.req)
      BY <1>1, <2>1, RequestFields DEF IInv, Apart, Active
    <3> QED BY <1>1, <2>3, <2>5, <2>7, <3>1 DEF Cleared, TagReady
  <2> QED BY <1>1, <2>5, <2>6, <2>8, <2>9, ResultStep, Zenon
<1> QED BY <1>2, <1>3

-----------------------------------------------------------------------------
(* A statement is executed.                                                *)

(* What each statement does to the rows, and what none of them touches.     *)
LEMMA Executed ==
  ASSUME Types, NEW r \in Handler, r.req \in Requests, r.todo \in Todo(r.req),
         Upload(r.req) => r.fid \in 1..MaxUploads, Execute(r)
  PROVE  /\ rows' \subseteq [path : Paths, fid : 1..MaxUploads] /\ listed' \subseteq Tags
         /\ \A p \in Paths \ Touches(r.req) : RowsOf(p)' = RowsOf(p)
         /\ \A p \in Tags \ Touches(r.req) : p \in listed => p \in listed'
         /\ \A row \in rows' : \/ \E q \in rows : q.fid = row.fid
                               \/ Upload(r.req) /\ row.fid = r.fid
         /\ r.todo[1] = "delList" => RowsOf(r.req.path)' = {}
         /\ r.todo[1] \in {"delListOne", "pushDirectory"} => rows' = rows
         /\ r.todo[1] = "pushDirectory" => r.req.path \in listed'
         /\ r.todo[1] = "pushList" => /\ listed' = listed
                                      /\ rows' = rows \cup {[path |-> r.req.path, fid |-> r.fid]}
<1>0. r.req.path \in Paths /\ r.todo[1] \in Statement
  BY RequestFields, TodoStep, Zenon
<1> PICK p \in Paths, sql \in Statement : p = r.req.path /\ sql = r.todo[1]
  BY <1>0
<1> PICK d : d = r.req.dest
  OBVIOUS
<1>1. /\ rows' = CASE sql = "delList"       -> rows \ RowsOf(p)
                   [] sql = "pushList"      -> rows \cup {[path |-> p, fid |-> r.fid]}
                   [] sql = "updateListKey" -> (rows \ RowsOf(p)) \cup
                                                 {[row EXCEPT !.path = d] : row \in RowsOf(p)}
                   [] OTHER                 -> rows
      /\ listed' = CASE sql = "delListOne"    -> listed \ {p}
                     [] sql = "pushDirectory" -> listed \cup {p}
                     [] OTHER                 -> listed
  <2>1. Head(r.todo) = sql
    BY RequestFields, TodoStep
  <2> QED BY <2>1 DEF Execute, RowOf
<1>2. /\ sql = "updateListKey" <=> r.req.op = "move"
      /\ sql = "pushList" => Upload(r.req)
      /\ sql \in {"delListOne", "pushDirectory"} => p \in Tags
      /\ p \in Touches(r.req)
      /\ sql = "updateListKey" => d \in Touches(r.req) /\ d \in Paths
  BY RequestFields, TodoStep
<1>3. rows \subseteq [path : Paths, fid : 1..MaxUploads] /\ listed \subseteq Tags
  BY DEF Types
<1>4. \A row \in RowsOf(p) : row \in rows /\ row.path = p
  BY DEF RowsOf
<1>5. CASE sql = "delList"
  <2>1. rows' = rows \ RowsOf(p) /\ listed' = listed
    BY <1>1, <1>5
  <2>2. RowsOf(p)' = {} /\ \A q \in Paths \ Touches(r.req) : RowsOf(q)' = RowsOf(q)
    BY <1>2, <2>1 DEF RowsOf
  <2> QED BY <1>3, <1>5, <2>1, <2>2
<1>6. CASE sql = "pushList"
  <2>1. rows' = rows \cup {[path |-> p, fid |-> r.fid]} /\ listed' = listed
    BY <1>1, <1>6
  <2>2. \A q \in Paths \ Touches(r.req) : RowsOf(q)' = RowsOf(q)
    BY <1>2, <2>1 DEF RowsOf
  <2> QED BY <1>2, <1>3, <1>6, <2>1, <2>2
<1>7. CASE sql = "updateListKey"
  <2>1. /\ rows' = (rows \ RowsOf(p)) \cup {[row EXCEPT !.path = d] : row \in RowsOf(p)}
        /\ listed' = listed
    BY <1>1, <1>7
  <2>2. ASSUME NEW row \in RowsOf(p)
        PROVE  /\ [row EXCEPT !.path = d] \in [path : Paths, fid : 1..MaxUploads]
               /\ [row EXCEPT !.path = d].path = d
               /\ [row EXCEPT !.path = d].fid = row.fid
    BY <1>2, <1>3, <1>4, <1>7
  <2>3. \A row \in rows' : \E q \in rows : q.fid = row.fid
    BY <1>4, <2>1, <2>2
  <2>4. rows' \subseteq [path : Paths, fid : 1..MaxUploads]
    BY <1>3, <2>1, <2>2
  <2>5. ASSUME NEW q \in Paths \ Touches(r.req) PROVE RowsOf(q)' = RowsOf(q)
    <3>1. q # p /\ q # d
      BY <1>2, <1>7
    <3>2. \A row \in rows' : row.path = q => row \in rows
      BY <2>1, <2>2, <3>1
    <3>3. \A row \in rows : row.path = q => row \in rows'
      BY <1>4, <2>1, <3>1
    <3> QED BY <3>2, <3>3 DEF RowsOf
  <2> QED BY <1>3, <1>7, <2>1, <2>3, <2>4, <2>5
<1>8. CASE sql \in {"delListOne", "pushDirectory"}
  <2>1. /\ rows' = rows
        /\ sql = "delListOne" => listed' = listed \ {p}
        /\ sql = "pushDirectory" => listed' = listed \cup {p}
    BY <1>1, <1>8
  <2>2. \A q \in Paths \ Touches(r.req) : RowsOf(q)' = RowsOf(q)
    BY <2>1 DEF RowsOf
  <2> QED BY <1>2, <1>3, <1>8, <2>1, <2>2
<1> QED BY <1>5, <1>6, <1>7, <1>8, Zenon DEF Statement

(* Rows, then, are what the handlers and the histories say they are.        *)
LEMMA StoreRows ==
  ASSUME IInv, NEW h \in Handlers, NEW old \in Handler, old = handler[h], old.pc = "store",
         old.todo \in Todo(old.req), old.req \in Requests,
         Upload(old.req) => old.fid \in 1..MaxUploads, Execute(old), loose' = loose,
         NEW new \in Handler, handler' = [handler EXCEPT ![h] = new],
         new.pc = "idle" \/ /\ Len(old.todo) # 1
                            /\ new = [old EXCEPT !.todo = Tail(old.todo)],
         \A k \in kept' \ kept : /\ Len(old.todo) = 1 /\ Upload(old.req) /\ old.alone
                                 /\ k = [req |-> old.req, fid |-> old.fid]
  PROVE  RowsRight'
<1> PICK req \in Requests, sql \in Statement : req = old.req /\ sql = old.todo[1]
  BY RequestFields, TodoStep
<1>1. /\ req.path \in Paths /\ req.path \in Touches(req) /\ Touches(req) \subseteq Paths
      /\ req.op # "move" => Touches(req) = {req.path}
      /\ req.op = "move" => Touches(req) \cap Tags = {}
      /\ req.op \in {"whole", "fragment", "delete", "move"}
  BY RequestFields
<1>2. /\ sql = "updateListKey" <=> req.op = "move"
      /\ Upload(req) /\ Len(old.todo) = 1 => sql = "pushList"
      /\ sql = "pushList" => Len(old.todo) = 1
      /\ Len(old.todo) # 1 => /\ Tail(old.todo)[1] # "delList"
                              /\ Tail(old.todo)[1] = "delListOne" => sql = "delList"
                              /\ Tail(old.todo)[1] = "pushList"
                                   => Upload(req) /\ (InDirectory(req) => sql = "pushDirectory")
  BY RequestFields, TodoStep, Zenon
<1>3. /\ \A p \in Paths \ Touches(req) : RowsOf(p)' = RowsOf(p)
      /\ \A p \in Tags \ Touches(req) : p \in listed => p \in listed'
      /\ sql = "delList" => RowsOf(req.path)' = {}
      /\ sql \in {"delListOne", "pushDirectory"} => rows' = rows
      /\ sql = "pushDirectory" => req.path \in listed'
      /\ sql = "pushList" => /\ listed' = listed
                             /\ rows' = rows \cup {[path |-> req.path, fid |-> old.fid]}
      /\ rows' \subseteq [path : Paths, fid : 1..MaxUploads]
  BY Executed DEF IInv
<1>4. handler'[h] = new /\ \A g \in Handlers \ {h} : handler'[g] = handler[g]
  BY DEF IInv, Types
<1>5. h \in Active
  BY DEF Active
<1>6. Cleared(old) /\ TagReady(old)
  BY DEF IInv, RowsRight
<1>7. ASSUME NEW g \in Handlers \ {h} PROVE (Cleared(handler[g]) /\ TagReady(handler[g]))'
  <2> PICK r \in Handler : r = handler[g]
    BY DEF IInv, Types
  <2>1. Cleared(r) /\ TagReady(r)
    BY DEF IInv, RowsRight
  <2>2. CASE r.pc = "idle"
    BY <1>4, <2>2 DEF Cleared, TagReady
  <2>3. CASE r.pc # "idle"
    <3>1. g \in Active /\ r.req \in Requests
      BY <2>3 DEF Active, IInv, Types
    <3>2. r.req.path \in Touches(r.req) /\ r.req.path \in Paths
      BY <3>1, RequestFields
    <3>3. r.req.op = "whole" /\ r.alone => r.req.path \notin Touches(req)
      BY <1>5, <3>1, <3>2, DisturbsBoth DEF IInv, Apart
    <3>4. r.req.path \in Tags \ loose => r.req.path \notin Touches(req)
      BY <1>5, <3>1, <3>2 DEF IInv, Apart
    <3>5. r.req.path \notin Touches(req) =>
            /\ RowsOf(r.req.path)' = RowsOf(r.req.path)
            /\ r.req.path \in Tags /\ r.req.path \in listed => r.req.path \in listed'
      BY <1>3, <3>2 DEF RowsOf
    <3>6. handler'[g] = r
      BY <1>4
    <3>7. Cleared(handler[g])'
      BY <2>1, <3>3, <3>5, <3>6 DEF Cleared, RowsOf
    <3>8. TagReady(handler[g])'
      BY <2>1, <3>4, <3>5, <3>6 DEF TagReady, RowsOf
    <3> QED BY <3>7, <3>8
  <2> QED BY <2>2, <2>3
<1>8. (Cleared(handler[h]) /\ TagReady(handler[h]))'
  <2>1. CASE new.pc = "idle"
    BY <1>4, <2>1 DEF Cleared, TagReady
  <2>2. CASE Len(old.todo) # 1 /\ new = [old EXCEPT !.todo = Tail(old.todo)]
    <3>1. /\ new.pc = "store" /\ new.req = req /\ new.alone = old.alone
          /\ new.todo = Tail(old.todo)
      BY <2>2 DEF Handler
    <3>2. req.op = "whole" /\ old.alone => RowsOf(req.path)' = {}
      <4>1. CASE sql = "delList"
        BY <1>3, <4>1
      <4>2. CASE sql # "delList"
        <5>1. req.op = "whole" => sql \in {"delListOne", "pushDirectory"}
          BY <1>2, <2>2, <4>2 DEF Statement
        <5>2. req.op = "whole" /\ old.alone => RowsOf(req.path) = {} /\ rows' = rows
          BY <1>3, <1>6, <4>2, <5>1 DEF Cleared
        <5> QED BY <5>2 DEF RowsOf
      <4> QED BY <4>1, <4>2
    <3>3. Cleared(handler[h])'
      BY <1>4, <3>1, <3>2 DEF Cleared, RowsOf
    <3>4. TagReady(handler[h])'
      <4>1. new.todo[1] = "delListOne" => RowsOf(req.path)' = {}
        BY <1>2, <1>3, <2>2, <3>1, Zenon
      <4>2. new.todo[1] = "pushList" /\ req.path \in Tags \ loose => req.path \in listed'
        <5>1. Upload(req) /\ req.path \in Tags \ loose => InDirectory(req)
          BY <1>1, <1>5 DEF IInv, Apart
        <5> QED BY <1>2, <1>3, <2>2, <3>1, <5>1, Zenon
      <4>3. handler'[h] = new /\ new.req.path = req.path
        BY <1>4, <3>1
      <4> QED BY <4>1, <4>2, <4>3 DEF TagReady, RowsOf
    <3> QED BY <3>3, <3>4
  <2> QED BY <2>1, <2>2
<1>9. ASSUME NEW k \in kept' PROVE KeptRow(k)'
  <2> SUFFICES ASSUME k.req.op = "whole"
               PROVE  RowsOf(k.req.path)' = {[path |-> k.req.path, fid |-> k.fid]}
    BY DEF KeptRow, RowsOf
  <2>1. CASE k \in kept
    <3>1. k.req \in Requests /\ ~Disturbs(req, k.req)
      BY <1>5, <2>1 DEF IInv, Types, Apart
    <3>2. k.req.path \in Paths /\ k.req.path \notin Touches(req)
      BY <3>1, RequestFields, DisturbsBoth
    <3>3. RowsOf(k.req.path) = {[path |-> k.req.path, fid |-> k.fid]}
      BY <2>1 DEF IInv, RowsRight, KeptRow
    <3> QED BY <1>3, <3>2, <3>3 DEF RowsOf
  <2>2. CASE k \notin kept
    <3>1. /\ sql = "pushList" /\ old.alone /\ k.req = req /\ k.fid = old.fid /\ req.op = "whole"
      BY <1>2, <2>2
    <3>2. RowsOf(req.path) = {}
      BY <1>6, <3>1 DEF Cleared
    <3>3. rows' = rows \cup {[path |-> req.path, fid |-> old.fid]}
      BY <1>3, <3>1
    <3> QED BY <3>1, <3>2, <3>3 DEF RowsOf
  <2> QED BY <2>1, <2>2
<1>10. ASSUME NEW row \in rows', row.path \in Tags \ loose PROVE row.path \in listed'
  <2>0. row \in RowsOf(row.path)' /\ row.path \in Paths
    BY <1>3 DEF RowsOf
  <2>1. CASE row.path \notin Touches(req)
    <3>1. row \in rows
      BY <1>3, <2>0, <2>1 DEF RowsOf
    <3>2. row.path \in listed
      BY <1>10, <3>1 DEF IInv, RowsRight, TagListed
    <3> QED BY <1>3, <1>10, <2>1, <3>2
  <2>2. CASE row.path \in Touches(req)
    <3>1. row.path = req.path /\ sql # "updateListKey" /\ req.path \in Tags \ loose
      BY <1>1, <1>2, <1>10, <2>2
    <3>2. sql # "delList"
      BY <1>3, <2>0, <3>1
    <3>3. CASE sql = "pushDirectory"
      BY <1>3, <3>1, <3>3
    <3>4. CASE sql = "pushList"
      BY <1>3, <1>6, <3>1, <3>4 DEF TagReady
    <3>5. sql # "delListOne"
      <4> SUFFICES ASSUME sql = "delListOne" PROVE FALSE
        OBVIOUS
      <4>1. RowsOf(req.path) = {} /\ rows' = rows
        BY <1>3, <1>6, <3>1 DEF TagReady
      <4> QED BY <4>1, <3>1 DEF RowsOf
    <3> QED BY <3>1, <3>2, <3>3, <3>4, <3>5 DEF Statement
  <2> QED BY <2>1, <2>2
<1>11. TagListed'
  BY <1>10 DEF TagListed
<1> QED BY <1>7, <1>8, <1>9, <1>11 DEF RowsRight

(* The whole statement: a row that is entered has its data in place, and an *)
(* upload that is answered and was alone is kept.                           *)
LEMMA StoreStep ==
  ASSUME IInv, NEW h \in Handlers, store(h)
  PROVE  IInv'
<1> PICK old \in Handler : old = handler[h]
  BY DEF IInv, Types
<1>1. /\ old.pc = "store" /\ Execute(old)
      /\ handler' = [handler EXCEPT ![h] = IF Len(old.todo) = 1 THEN Idle
                                           ELSE [old EXCEPT !.todo = Tail(@)]]
      /\ kept' = IF Len(old.todo) = 1 /\ Upload(old.req) /\ old.alone
                   THEN kept \cup {[req |-> old.req, fid |-> old.fid]} ELSE kept
      /\ UNCHANGED <<partial, disk, fids, loose>>
  BY DEF store
<1>2. /\ old.req \in Requests /\ old.todo \in Todo(old.req) /\ h \in Active
      /\ Upload(old.req) => old.fid \in 1..MaxUploads /\ Spread(old.fid, {})
  BY <1>1 DEF IInv, Types, Active, DataPlaced, Storing
<1>3. Len(old.todo) # 1 => Tail(old.todo) \in Todo(old.req) /\ Tail(old.todo) \in Seq(Statement)
  BY <1>2, RequestFields, TodoStep
<1>4. PICK new \in Handler :
        /\ handler' = [handler EXCEPT ![h] = new]
        /\ \/ Len(old.todo) = 1 /\ new = Idle
           \/ Len(old.todo) # 1 /\ new = [old EXCEPT !.todo = Tail(old.todo)]
  <2>1. CASE Len(old.todo) = 1
    BY <1>1, <2>1, IdleHandler, Zenon
  <2>2. CASE Len(old.todo) # 1
    <3>1. [old EXCEPT !.todo = Tail(old.todo)] \in Handler
      BY <1>3, <2>2, Zenon DEF Handler
    <3> QED BY <1>1, <2>2, <3>1, Zenon
  <2> QED BY <2>1, <2>2
<1>5. handler'[h] = new /\ \A g \in Handlers \ {h} : handler'[g] = handler[g]
  BY <1>4 DEF IInv, Types
<1>6. new.pc # "idle" =>
        /\ Len(old.todo) # 1 /\ new = [old EXCEPT !.todo = Tail(old.todo)]
        /\ new.pc = "store" /\ new.req = old.req /\ new.alone = old.alone
        /\ new.fid = old.fid /\ new.todo = Tail(old.todo)
  BY <1>1, <1>4 DEF Idle, Handler
<1>7. Len(old.todo) = 1 => new.pc = "idle"
  BY <1>4 DEF Idle
<1>8. Active' \subseteq Active /\ \A g \in Active' : /\ handler'[g].req = handler[g].req
                                                     /\ handler'[g].alone = handler[g].alone
  BY <1>2, <1>5, <1>6 DEF Active
<1>9. \A k \in kept' \ kept : /\ Len(old.todo) = 1 /\ Upload(old.req) /\ old.alone
                              /\ k = [req |-> old.req, fid |-> old.fid]
  BY <1>1
<1>10. /\ rows' \subseteq [path : Paths, fid : 1..MaxUploads] /\ listed' \subseteq Tags
       /\ \A row \in rows' : \/ \E q \in rows : q.fid = row.fid
                             \/ Upload(old.req) /\ row.fid = old.fid
  BY <1>1, <1>2, Executed DEF IInv
<1>11. Types'
  <2>1. kept' \subseteq [req : Requests, fid : 1..MaxUploads]
    BY <1>2, <1>9 DEF IInv, Types
  <2>2. handler' \in [Handlers -> Handler]
    BY <1>4 DEF IInv, Types
  <2> QED BY <1>1, <1>8, <1>10, <2>1, <2>2 DEF IInv, Types
<1>12. DataPlaced'
  <2>0. \A s \in Servers : disk[s] \subseteq disk'[s]
    BY <1>1
  <2>1. \A g \in Handlers \ {h} : (Posting(handler[g]) /\ Storing(handler[g]))'
    BY <1>1, <1>5, <2>0, OthersPlaced DEF IInv
  <2>2. (Posting(handler[h]) /\ Storing(handler[h]))'
    <3>1. CASE new.pc = "idle"
      BY <1>5, <3>1 DEF Posting, Storing
    <3>2. CASE new.pc # "idle"
      BY <1>1, <1>2, <1>3, <1>5, <1>6, <3>2, Zenon DEF Posting, Storing, Spread, Holders
    <3> QED BY <3>1, <3>2
  <2>3. Replicated'
    <3>1. ASSUME NEW row \in rows'
          PROVE  Cardinality({s \in Servers : row.fid \in disk[s]}) >= limitNum
      <4>1. CASE \E q \in rows : q.fid = row.fid
        BY <4>1 DEF IInv, DataPlaced, Replicated
      <4>2. CASE Upload(old.req) /\ row.fid = old.fid
        <5>1. {} \cup Holders(row.fid) = {s \in Servers : row.fid \in disk[s]}
          BY DEF Holders
        <5> QED BY <1>2, <4>2, <5>1, Zenon DEF Spread
      <4> QED BY <1>10, <4>1, <4>2
    <3> QED BY <1>1, <3>1 DEF Replicated
  <2>4. \A k \in kept' : Spread(k.fid, {})'
    <3>1. \A k \in kept' : Spread(k.fid, {})
      BY <1>2, <1>9 DEF IInv, DataPlaced
    <3> QED BY <1>1, <3>1 DEF Spread, Holders
  <2> QED BY <2>1, <2>2, <2>3, <2>4 DEF DataPlaced
<1>13. Apart'
  <2>1. ASSUME NEW k \in kept', NEW g \in Active' PROVE ~Disturbs(handler'[g].req, k.req)
    <3>1. CASE k \in kept
      BY <1>8, <3>1 DEF IInv, Apart
    <3>2. CASE k \notin kept
      <4>1. old.alone /\ k.req = old.req /\ g # h
        BY <1>5, <1>7, <1>9, <3>2 DEF Active
      <4> QED BY <1>2, <1>8, <4>1 DEF IInv, Apart
    <3> QED BY <3>1, <3>2
  <2>2. \A a \in Active' : handler'[a].alone =>
          \A g \in Active' \ {a} : ~Disturbs(handler'[g].req, handler'[a].req)
    BY <1>8 DEF IInv, Apart
  <2>3. \A g, a \in Active' : g # a =>
          Tags \cap Touches(handler'[g].req) \cap Touches(handler'[a].req) \subseteq loose'
    BY <1>1, <1>8 DEF IInv, Apart
  <2>4. \A g \in Active' : Upload(handler'[g].req) /\ ~InDirectory(handler'[g].req)
          => Tags \cap Touches(handler'[g].req) \subseteq loose'
    BY <1>1, <1>8 DEF IInv, Apart
  <2> QED BY <2>1, <2>2, <2>3, <2>4 DEF Apart
<1>14. RowsRight'
  <2>1. new.pc = "idle" \/ /\ Len(old.todo) # 1
                           /\ new = [old EXCEPT !.todo = Tail(old.todo)]
    BY <1>6
  <2>2. /\ loose' = loose /\ handler' = [handler EXCEPT ![h] = new]
        /\ Upload(old.req) => old.fid \in 1..MaxUploads
    BY <1>1, <1>2, <1>4, Zenon
  <2>3. old.pc = "store" /\ Execute(old) /\ old.req \in Requests /\ old.todo \in Todo(old.req)
    BY <1>1, <1>2, Zenon
  <2> QED BY <1>9, <2>1, <2>2, <2>3, StoreRows, Zenon
<1> QED BY <1>11, <1>12, <1>13, <1>14 DEF IInv

-----------------------------------------------------------------------------
(* The theorems.                                                           *)

(* The first state has no request, no row and no data.                      *)
LEMMA InitInv == ASSUME Init PROVE IInv
<1>1. handler \in [Handlers -> Handler] /\ \A h \in Handlers : handler[h] = Idle
  BY IdleHandler DEF Init
<1>2. Idle.pc = "idle"
  BY DEF Idle
<1>3. Active = {}
  BY <1>1, <1>2 DEF Active
<1>4. Types
  <2>1. 0 \in 0..MaxUploads
    BY ImageAssumption
  <2>2. disk \in [Servers -> SUBSET (1..MaxUploads)]
    BY DEF Init
  <2>3. partial \in BOOLEAN
    BY Zenon DEF Init
  <2> QED BY <1>1, <1>3, <2>1, <2>2, <2>3 DEF Init, Types
<1>5. DataPlaced
  BY <1>1, <1>2 DEF Init, DataPlaced, Posting, Storing, Replicated
<1>6. Apart
  BY <1>3, Zenon DEF Init, Apart
<1>7. RowsRight
  BY <1>1, <1>2 DEF Init, RowsRight, Cleared, TagReady, TagListed
<1> QED BY <1>4, <1>5, <1>6, <1>7 DEF IInv

(* Every step keeps the invariant.                                          *)
LEMMA InvStep == ASSUME IInv, [Next]_vars PROVE IInv'
<1>1. CASE \E h \in Handlers, req \in Requests, groups \in [Servers -> Known] :
             uploadFile(h, req, groups)
  BY <1>1, UploadStep
<1>2. CASE \E h \in Handlers, req \in Requests : deleteFile(h, req) \/ moveFile(h, req)
  BY <1>2, ChangeStep
<1>3. CASE \E h \in Handlers : Serve(h)
  BY <1>3, PostStep, HandleResultStep, StoreStep DEF Serve
<1>4. CASE \E h \in Handlers : Abort(h)
  BY <1>4, AbortStep
<1>5. CASE UNCHANGED vars
  <2>1. /\ partial' = partial /\ disk' = disk /\ rows' = rows /\ listed' = listed
        /\ handler' = handler /\ fids' = fids /\ kept' = kept /\ loose' = loose
    BY <1>5 DEF vars
  <2>2. Types' /\ Apart'
    BY <2>1 DEF IInv, Types, Apart, Active
  <2>3. DataPlaced'
    BY <2>1, Zenon DEF IInv, DataPlaced, Posting, Storing, Spread, Holders, Replicated
  <2>4. RowsRight'
    BY <2>1 DEF IInv, RowsRight, Cleared, TagReady, KeptRow, RowsOf, TagListed
  <2> QED BY <2>2, <2>3, <2>4 DEF IInv
<1> QED BY <1>1, <1>2, <1>3, <1>4, <1>5 DEF Next

(* So it always holds.                                                      *)
LEMMA InvAlways == Spec => []IInv
BY InitInv, InvStep, PTL DEF Spec

(* The handlers of router.go keep the types of what they share, for any     *)
(* group, paths and requests.                                               *)
THEOREM UploadTypes == Spec => []TypeOK
<1>1. IInv => TypeOK
  <2> SUFFICES ASSUME IInv PROVE TypeOK
    OBVIOUS
  <2>1. ASSUME NEW h \in Active
        PROVE  /\ handler[h].pc \in {"post", "store"}
               /\ handler[h].req \in Requests
               /\ handler[h].fid \in 0..MaxUploads
               /\ handler[h].posts \subseteq Servers
               /\ handler[h].results \in 0..Cardinality(Servers)
    BY DEF IInv, Types, Active, Handler
  <2>2. \A k \in kept : k.req \in Requests /\ k.fid \in 1..MaxUploads
    BY DEF IInv, Types
  <2> QED BY <2>1, <2>2 DEF IInv, Types, TypeOK
<1> QED BY <1>1, InvAlways, PTL

(* A row that a download can find is on limitNum servers, whichever results *)
(* came late, failed or were lost with their image server: upload enters    *)
(* the row after handlePostResult has counted every success.                *)
THEOREM RowsReplicated == Spec => []Replicated
<1>1. IInv => Replicated
  BY DEF IInv, DataPlaced
<1> QED BY <1>1, InvAlways, PTL

(* An upload of a whole file that was answered 200 and that nobody has      *)
(* disturbed is what every download gets.                                   *)
THEOREM AckedFound == Spec => []AckedDownloads
<1>1. IInv => AckedDownloads
  <2> SUFFICES ASSUME IInv, NEW k \in kept, k.req.op = "whole"
               PROVE  /\ RowsOf(k.req.path) = {[path |-> k.req.path, fid |-> k.fid]}
                      /\ ~partial => downloadFile(k.req.path) \subseteq {k.fid}
    BY DEF AckedDownloads
  <2>1. RowsOf(k.req.path) = {[path |-> k.req.path, fid |-> k.fid]}
    BY DEF IInv, RowsRight, KeptRow
  <2>2. ASSUME ~partial, NEW c \in getOneNormalChunkServer(k.req.path)
        PROVE  GetData(c.server, c.row.fid) = k.fid
    <3>1. c.row \in RowsOf(k.req.path) /\ c.server \in Servers
      BY DEF getOneNormalChunkServer
    <3>2. c.row.fid = k.fid
      BY <2>1, <3>1
    <3>3. {} \cup Holders(k.fid) = Servers
      BY <2>2 DEF IInv, DataPlaced, Spread
    <3>4. k.fid \in disk[c.server]
      BY <3>1, <3>3 DEF Holders
    <3> QED BY <3>2, <3>4 DEF GetData
  <2>3. ~partial => downloadFile(k.req.path) \subseteq {k.fid}
    BY <2>2 DEF downloadFile
  <2> QED BY <2>1, <2>3
<1> QED BY <1>1, InvAlways, PTL

(* A tag that can be read is in the list of its directory, wherever         *)
(* StoreMetaInfoV1 and DeleteFileMetaInfoV1 were cut short and whatever     *)
(* requests that do not say v1 have deleted, unless two requests were at    *)
(* the tag at a time or one that does not say v1 has uploaded it.           *)
THEOREM TagsListed == Spec => []TagListed
<1>1. IInv => TagListed
  BY DEF IInv, RowsRight
<1> QED BY <1>1, InvAlways, PTL

=============================================================================
