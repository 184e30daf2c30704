----------------------------- MODULE ImageServer ----------------------------
(***************************************************************************)
(* The requests that change files, as the image server serves them         *)
(* (imageserver/router/router.go, imageserver/meta/mysqldriver).           *)
(*                                                                         *)
(* An upload is stored under a fid of its own (module FidAlloc) on every   *)
(* RW server of a replica group, by goroutines that report through a       *)
(* channel, and only then entered in the table key_list, with statements   *)
(* that are not one transaction.  Image servers have no state of their own *)
(* but what the master last told them of the group, which may be anything, *)
(* so Handlers are the requests under way on any of them.  A tag has a row *)
(* in the list of its directory if the header Registry-Version of the      *)
(* request says v1; requests without it leave the list alone.              *)
(***************************************************************************)
EXTENDS Integers, Sequences, FiniteSets

CONSTANTS
  Servers,      \* the chunk servers of the group
  Handlers,     \* goroutines that serve requests
  Paths,        \* paths of files
  Tags,         \* those that ExtractDirectoryAndFile finds to be tags
  None,         \* no path
  Requests,     \* the requests that clients make
  limitNum,     \* how many servers of a group must be RW for an upload
  MaxUploads    \* bound on the uploads

\* What the header Registry-Version may say: v1, or anything else.
Versions == {"v1", "v2"}

\* An upload is of a whole file (IsLast and Index 0) or of a fragment; clients of
\* registry v2 move files.
Request ==
  [op : {"whole", "fragment", "delete"}, path : Paths, dest : {None}, version : Versions]
    \cup [op : {"move"}, path : Paths \ Tags, dest : Paths \ Tags, version : Versions]

ASSUME ImageAssumption ==
  /\ IsFiniteSet(Servers)
  /\ Tags \subseteq Paths /\ None \notin Paths
  /\ Requests \subseteq Request
  /\ limitNum \in Nat \ {0} /\ MaxUploads \in Nat

VARIABLES
  partial,    \* history: a server was out of the group for some upload
  disk,       \* disk[s]: the fids that chunk server s has stored
  rows,       \* key_list, the rows of files
  listed,     \* key_list, the rows of directories
  handler,    \* handler[h]: the request that h serves and how far it is
  fids,       \* the fid that was taken last
  kept,       \* history: uploads answered 200 that no other request has touched
  loose       \* history: tags that two requests changed at a time, or that were uploaded
              \* by a request that does not say v1

vars == <<partial, disk, rows, listed, handler, fids, kept, loose>>

-----------------------------------------------------------------------------
(* Values.                                                                 *)

\* A server is RW, known but not RW, or not in the answer of the master.
Known == {"RW", "RO", "out"}

Upload(req) == req.op \in {"whole", "fragment"}

\* The paths that a request changes, and whether two requests disturb each other.
Touches(req) == {req.path, req.dest} \ {None}
Disturbs(req, other) ==
  /\ Touches(req) \cap Touches(other) # {}
  /\ ~(req.op = "fragment" /\ other.op = "fragment")

\* A handler: servers whose goroutine still runs, results still to come, whether
\* one was a failure, the statements still to execute.
Idle == [pc |-> "idle", req |-> [op |-> "delete", path |-> None, dest |-> None, version |-> "v2"],
         fid |-> 0, posts |-> {}, results |-> 0, failed |-> FALSE, todo |-> <<>>, alone |-> TRUE]

Active == {h \in Handlers : handler[h].pc # "idle"}

-----------------------------------------------------------------------------
(* The statements on key_list.                                             *)

\* HandleDirectory has something to do: the functions for v1 call it, and the path is a tag.
InDirectory(req) == req.version = "v1" /\ req.path \in Tags

\* Mutant of StoreMetaInfo: the new row is entered before the old ones go.
StoreMetaInfo_PushFirst(req) ==
  (IF InDirectory(req) THEN <<"pushDirectory">> ELSE <<>>)
    \o <<"pushList">>
    \o (IF req.op = "whole" THEN <<"delList">> ELSE <<>>)

\* Mutant of DeleteFileMetaInfo: the directory's row goes first.
DeleteFileMetaInfo_DirectoryFirst(req) ==
  (IF InDirectory(req) THEN <<"delListOne">> ELSE <<>>) \o <<"delList">>

\* DeleteFileMetaInfoV1 if the header says v1, DeleteFileMetaInfoV2 otherwise.
DeleteFileMetaInfo(req) ==
  <<"delList">> \o (IF InDirectory(req) THEN <<"delListOne">> ELSE <<>>)

\* StoreMetaInfoV1 if the header says v1, StoreMetaInfoV2 otherwise.
StoreMetaInfo(req) ==
  (IF req.op = "whole" THEN DeleteFileMetaInfo(req) ELSE <<>>)
    \o (IF InDirectory(req) THEN <<"pushDirectory">> ELSE <<>>)
    \o <<"pushList">>

MoveFile == <<"updateListKey">>

\* Mutant of RowOf: upload leaves FileId at zero.
RowOf_NoFileId(r) == [path |-> r.req.path, fid |-> 0]

\* The row of an upload: upload sets FileId once the servers have the data.
RowOf(r) == [path |-> r.req.path, fid |-> r.fid]
RowsOf(p) == {row \in rows : row.path = p}

\* The first statement that is left for a handler, executed.
Execute(r) ==
  LET sql == Head(r.todo)
      p == r.req.path
  IN /\ rows' = CASE sql = "delList"       -> rows \ RowsOf(p)
                  [] sql = "pushList"      -> rows \cup {RowOf(r)}
                  [] sql = "updateListKey" -> (rows \ RowsOf(p)) \cup
                                                {[row EXCEPT !.path = r.req.dest] : row \in RowsOf(p)}
                  [] OTHER                 -> rows
     /\ listed' = CASE sql = "delListOne"    -> listed \ {p}
                    [] sql = "pushDirectory" -> listed \cup {p}
                    [] OTHER                 -> listed

-----------------------------------------------------------------------------
(* The handlers.                                                           *)

\* A request arrives: the histories note which others it crosses.
Arrive(h, req, r) ==
  /\ handler[h].pc = "idle"
  /\ LET crossed == {g \in Active : Disturbs(req, handler[g].req)}
     IN handler' = [g \in Handlers |->
                      CASE g = h          -> [r EXCEPT !.alone = crossed = {}]
                        [] g \in crossed  -> [handler[g] EXCEPT !.alone = FALSE]
                        [] OTHER          -> handler[g]]
  /\ kept' = {k \in kept : ~Disturbs(req, k.req)}
  /\ loose' = loose \cup {p \in Tags \cap Touches(req) :
                            \/ Upload(req) /\ ~InDirectory(req)
                            \/ \E g \in Active : p \in Touches(handler[g].req)}
  /\ UNCHANGED <<disk, rows, listed>>

\* selectChunkServerGroupComplex: every server of the group is RW, and enough are.
selectChunkServerGroupComplex(groups) ==
  LET group == {s \in Servers : groups[s] # "out"}
  IN /\ \A s \in group : groups[s] = "RW"
     /\ Cardinality(group) >= limitNum

\* uploadFile: the group is chosen, a fid taken, a goroutine started per RW server.
\* A request that is refused (no group, no fid, a wrong length) changes nothing.
uploadFile(h, req, groups) ==
  LET group == {s \in Servers : groups[s] = "RW"}
  IN /\ Upload(req)
     /\ selectChunkServerGroupComplex(groups)
     /\ fids < MaxUploads
     /\ fids' = fids + 1
     /\ partial' = (partial \/ \E s \in Servers : groups[s] = "out")
     /\ Arrive(h, req, [Idle EXCEPT !.pc = "post", !.req = req, !.fid = fids + 1,
                                    !.posts = group, !.results = Cardinality(group)])

deleteFile(h, req) ==
  /\ req.op = "delete"
  /\ Arrive(h, req, [Idle EXCEPT !.pc = "store", !.req = req, !.todo = DeleteFileMetaInfo(req)])
  /\ UNCHANGED <<fids, partial>>

moveFile(h, req) ==
  /\ req.op = "move"
  /\ Arrive(h, req, [Idle EXCEPT !.pc = "store", !.req = req, !.todo = MoveFile])
  /\ UNCHANGED <<fids, partial>>

\* Mutant of postFileConcurrence: a goroutine that gets no connection sends nothing.
postFileConcurrence_Silent(h, s) ==
  /\ handler[h].pc = "post" /\ s \in handler[h].posts
  /\ \/ /\ disk' = [disk EXCEPT ![s] = @ \cup {handler[h].fid}]
        /\ handler' = [handler EXCEPT ![h].posts = @ \ {s}, ![h].results = @ - 1]
     \/ /\ handler' = [handler EXCEPT ![h].posts = @ \ {s}]
        /\ UNCHANGED disk
  /\ UNCHANGED <<partial, rows, listed, fids, kept, loose>>

\* What PutData may come to: the server has stored the data and says so, or the
\* caller is given an error, and then the server may have stored them all the same.
PutData == {r \in [stored : BOOLEAN, failed : BOOLEAN] : r.stored \/ r.failed}

\* The goroutine for server s sends one result.
postFileConcurrence(h, s) ==
  /\ handler[h].pc = "post" /\ s \in handler[h].posts
  /\ \E r \in PutData :
       /\ disk' = IF r.stored THEN [disk EXCEPT ![s] = @ \cup {handler[h].fid}] ELSE disk
       /\ handler' = [handler EXCEPT ![h].posts = @ \ {s}, ![h].results = @ - 1,
                                     ![h].failed = @ \/ r.failed]
  /\ UNCHANGED <<partial, rows, listed, fids, kept, loose>>

\* Mutant of Successful: one success is enough.
Successful_Any(r) == TRUE

\* handlePostResult: no result was a failure.
Successful(r) == ~r.failed

\* When all results are there the upload fails or its metadata are to be stored.
handlePostResult(h) ==
  LET r == handler[h]
  IN /\ r.pc = "post" /\ r.results = 0
     /\ handler' = [handler EXCEPT ![h] =
          IF Successful(r) THEN [r EXCEPT !.pc = "store", !.todo = StoreMetaInfo(r.req)]
                           ELSE Idle]
     /\ UNCHANGED <<partial, disk, rows, listed, fids, kept, loose>>

\* The next statement; after the last one the request is answered.
store(h) ==
  LET r == handler[h]
  IN /\ r.pc = "store" /\ r.todo # <<>>
     /\ Execute(r)
     /\ handler' = [handler EXCEPT ![h] = IF Len(r.todo) = 1 THEN Idle
                                          ELSE [r EXCEPT !.todo = Tail(@)]]
     /\ kept' = IF Len(r.todo) = 1 /\ Upload(r.req) /\ r.alone
                  THEN kept \cup {[req |-> r.req, fid |-> r.fid]} ELSE kept
     /\ UNCHANGED <<partial, disk, fids, loose>>

\* A statement fails and the request is answered 500, or the image server crashes.
Abort(h) ==
  /\ handler[h].pc # "idle"
  /\ handler' = [handler EXCEPT ![h] = Idle]
  /\ UNCHANGED <<partial, disk, rows, listed, fids, kept, loose>>

\* What getOneNormalChunkServer may choose: a row of the path, and a server of the
\* group that is RW, which each of them may be.
getOneNormalChunkServer(p) == [row : RowsOf(p), server : Servers]

\* GetData: the data of the fid, or 0 for the error of a server without them.
GetData(s, fid) == IF fid \in disk[s] THEN fid ELSE 0

\* What downloadFile may answer for a path that has rows.
downloadFile(p) == {GetData(c.server, c.row.fid) : c \in getOneNormalChunkServer(p)}

-----------------------------------------------------------------------------

Init ==
  /\ partial = FALSE
  /\ disk = [s \in Servers |-> {}]
  /\ rows = {}
  /\ listed = {}
  /\ handler = [h \in Handlers |-> Idle]
  /\ fids = 0
  /\ kept = {}
  /\ loose = {}

Serve(h) ==
  \/ \E s \in Servers : postFileConcurrence(h, s)
  \/ handlePostResult(h)
  \/ store(h)

Next ==
  \/ \E h \in Handlers, req \in Requests, groups \in [Servers -> Known] : uploadFile(h, req, groups)
  \/ \E h \in Handlers, req \in Requests : deleteFile(h, req)
  \/ \E h \in Handlers, req \in Requests : moveFile(h, req)
  \/ \E h \in Handlers : Serve(h)
  \/ \E h \in Handlers : Abort(h)

Spec == Init /\ [][Next]_vars

\* A handler goes on once it has what it waits for.  Nothing is assumed of the goroutines
\* of an upload: GetConn may have no connection to give (module ConnPool), and PutData
\* reads the answer without a deadline.
FairSpec == Spec /\ \A h \in Handlers : WF_vars(handlePostResult(h) \/ store(h))

-----------------------------------------------------------------------------
(* Properties.                                                             *)

\* Every variable has its type; a row has the fid of an upload.
TypeOK ==
  /\ partial \in BOOLEAN
  /\ disk \in [Servers -> SUBSET (1..MaxUploads)]
  /\ rows \subseteq [path : Paths, fid : 1..MaxUploads]
  /\ listed \subseteq Tags
  /\ \A h \in Active :
       /\ handler[h].pc \in {"post", "store"}
       /\ handler[h].req \in Requests
       /\ handler[h].fid \in 0..MaxUploads
       /\ handler[h].posts \subseteq Servers
       /\ handler[h].results \in 0..Cardinality(Servers)
  /\ fids \in 0..MaxUploads
  /\ \A k \in kept : k.req \in Requests /\ k.fid \in 1..MaxUploads
  /\ loose \subseteq Tags

\* A row that a download can find is on limitNum servers: upload stores the
\* metadata only after every goroutine has reported success, and servers that
\* are not RW any more by then still hold their copy.
Replicated ==
  \A row \in rows : Cardinality({s \in Servers : row.fid \in disk[s]}) >= limitNum

\* An upload of a whole file that was answered 200 and that no other request has
\* disturbed is what every download gets, whichever server of the group it picks,
\* whatever requests were aborted before and whatever the image servers believed of
\* the group, as long as no server was out of it.
AckedDownloads ==
  \A k \in kept :
    k.req.op = "whole" =>
      /\ RowsOf(k.req.path) = {[path |-> k.req.path, fid |-> k.fid]}
      /\ ~partial => downloadFile(k.req.path) \subseteq {k.fid}

\* A tag that can be read is listed in its directory, even if statements fail or image
\* servers crash between two of them: StoreMetaInfoV1 enters the directory's row first,
\* DeleteFileMetaInfoV1 removes it last.  This is so unless requests for the tag overlap,
\* or the tag was uploaded without "Registry-Version: v1": then upload takes
\* StoreMetaInfoV2, and nothing lists the tag.  Deletes without the header do no harm.
TagListed == \A row \in rows : row.path \in Tags \ loose => row.path \in listed

\* A request is answered when its goroutines are through: every goroutine of an upload,
\* also one that fails, sends the result that handlePostResult waits for, and no
\* statement is left over.
RequestAnswered ==
  \A h \in Handlers :
    handler[h].pc # "idle" /\ handler[h].posts = {} ~> handler[h].pc = "idle"
=============================================================================
