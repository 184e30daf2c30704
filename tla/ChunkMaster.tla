---------------------------- MODULE ChunkMaster -----------------------------
(***************************************************************************)
(* What the chunk master knows of the chunk servers of a replica group     *)
(* (chunkmaster/api/chunkserver.go, chunkmaster/metadata) and what an      *)
(* image server makes of it (imageserver/router/router.go).                *)
(*                                                                         *)
(* The master keeps a row per server in the database and, in the map       *)
(* serverInfo, a Chunkserver struct per server.  The report handlers, the  *)
(* monitor and the handlers an operator calls are goroutines; the lock     *)
(* covers a look at the map or one change of it, never the database call   *)
(* between the two.  The map holds pointers.  A handler may hold a struct  *)
(* that the map has let go of: nothing changes such a struct any more, so  *)
(* the handler has its last status instead (LetGo).  The keys registered   *)
(* in one batch share one struct (add.shared).                             *)
(*                                                                         *)
(* An abstraction: of the calls of operators at most one load and one      *)
(* batch registration are under way at a time.  Each may overlap the other *)
(* and all reports, the monitor and restarts; two loads, or two batches,   *)
(* that overlap each other are not covered.                                *)
(***************************************************************************)
EXTENDS Integers, FiniteSets

CONSTANTS
  Servers,       \* the chunk servers of the group
  Handlers,      \* goroutines that handle reports
  Nil,           \* no struct
  Timeout,       \* timeoutSecond, in ticks of the clock
  limitNum,      \* how many servers of a group must be RW for an upload
  MaxFailures,   \* bound on the database calls that fail
  MaxOperator    \* bound on what operators do: reloads, restarts, changes of rows

ASSUME MasterAssumption ==
  /\ Timeout \in Nat /\ limitNum \in Nat
  /\ MaxFailures \in Nat /\ MaxOperator \in Nat

VARIABLES
  db,          \* db[s]: the row of s in table chunkserver
  serverInfo,  \* serverInfo[s]: the struct under the key of s
  report,      \* report[h]: where report handler h is
  monitor,     \* the servers that chunkserverMonitor has still to treat
  load,        \* where LoadChunkserverInfo is
  add,         \* where batchAddChunkserver is
  alive,       \* the chunk servers that run
  failures,    \* database calls that have failed
  operator     \* what operators have done

vars == <<db, serverInfo, report, monitor, load, add, alive, failures, operator>>

-----------------------------------------------------------------------------
(* Values.                                                                 *)

Status == {"INIT", "RW", "RO", "ERR"}
GlobalStatus == {"NORMAL", "TRANSFER"}

Row == [stored : BOOLEAN, status : Status, global : GlobalStatus]
NoRow == [stored |-> FALSE, status |-> "INIT", global |-> "NORMAL"]

\* A Chunkserver: the server it names, and the time since its UpdateTime.  One
\* whose row says ERR is not kept.
Chunkserver == [server : Servers, status : Status \ {"ERR"}, global : GlobalStatus,
                age : 0..(Timeout + 1)]

ASSUME NilAssumption == Nil \notin Servers /\ Nil \notin Chunkserver

ChunkserverOf(s, status, global) ==
  [server |-> s, status |-> status, global |-> global, age |-> 0]

\* A report carries neither of the two statuses: GenChunkserver leaves them 0.
GenChunkserver(s) == ChunkserverOf(s, "INIT", "NORMAL")

\* A report handler: oldChunkserver, which is the struct in the map ("map") or a
\* status of one that was, and the Status of its new struct.
NoReport == [pc |-> "idle", server |-> Nil, old |-> "map", status |-> "INIT"]
NoMonitor == [pc |-> "idle", todo |-> {}]
NoLoad == [pc |-> "idle", list |-> [s \in Servers |-> NoRow]]
NoAdd == [pc |-> "idle", todo |-> {}, shared |-> {}, server |-> Nil]

Registered(s) == serverInfo[s] # Nil

\* The keys that lead to the struct under the key of s.
SameStruct(s) ==
  CASE ~Registered(s) -> {} [] s \in add.shared -> add.shared [] OTHER -> {s}

OldStatus(r) == IF r.old = "map" THEN serverInfo[r.server].status ELSE r.old

\* The handlers of reports, when the map lets go of its structs for the servers ss.
LetGo(ss) ==
  [h \in Handlers |-> IF report[h].server \in ss /\ report[h].old = "map"
                        THEN [report[h] EXCEPT !.old = OldStatus(report[h])]
                        ELSE report[h]]

-----------------------------------------------------------------------------
(* The database (chunkmaster/metadata/mysqldriver/chunkserverdb.go).       *)

\* UPDATE ... SET status WHERE ... AND status = pre.  No row may match it.
Updated(s, pre, status) ==
  IF db[s].stored /\ db[s].status = pre THEN [db EXCEPT ![s].status = status] ELSE db

\* A call that returns an error.
DatabaseError ==
  /\ failures < MaxFailures
  /\ failures' = failures + 1
  /\ UNCHANGED db

-----------------------------------------------------------------------------
(* Reports.                                                                *)

\* The agent thread of chunk server s sends reports for as long as s runs, each on
\* a connection of its own, whatever became of the one before.
spy_report_routine(s) == s \in alive

\* A report of s arrives.  A server that is not in the map is refused.
reportChunkserverInfoHandler(h, s) ==
  /\ spy_report_routine(s) /\ Registered(s)
  /\ report[h].pc = "idle"
  /\ report' = [report EXCEPT ![h] = [pc |-> "INIT", server |-> s, old |-> "map",
                                      status |-> GenChunkserver(s).status]]
  /\ UNCHANGED <<db, serverInfo, monitor, load, add, alive, failures, operator>>

\* Mutant of StatusAfter: a branch gives the server the status it tests for.
StatusAfter_Kept(test) == test

\* The Status a branch of reportChunkserverInfo gives the server.
StatusAfter(test) == "RW"

\* The three branches test oldChunkserver.Status, one after the other, without
\* the lock: each reads it anew, and none reads it after the last.
Tested(r, status) ==
  CASE r.pc = "INIT" -> [r EXCEPT !.pc = "RW", !.status = status]
    [] r.pc = "RW"   -> [r EXCEPT !.pc = "RO", !.status = status]
    [] r.pc = "RO"   -> [r EXCEPT !.pc = "store", !.status = status, !.old = "INIT"]

\* One branch.  An error of the database ends the handler.
reportChunkserverInfo(h) ==
  LET r == report[h]
      taken == OldStatus(r) = r.pc
  IN /\ r.pc \in {"INIT", "RW", "RO"}
     /\ \/ /\ ~taken
           /\ report' = [report EXCEPT ![h] = Tested(r, r.status)]
           /\ UNCHANGED <<db, failures>>
        \/ /\ taken
           /\ db' = Updated(r.server, r.pc, StatusAfter(r.pc))
           /\ report' = [report EXCEPT ![h] = Tested(r, StatusAfter(r.pc))]
           /\ UNCHANGED failures
        \/ /\ taken
           /\ DatabaseError
           /\ report' = [report EXCEPT ![h] = NoReport]
     /\ UNCHANGED <<serverInfo, monitor, load, add, alive, operator>>

\* Mutant of Store: the key is not looked up again under the lock.
Store_Unchecked(s, new) == [serverInfo EXCEPT ![s] = new]

\* The new struct takes the place of the one in the map, if there is one still.
Store(s, new) == IF Registered(s) THEN [serverInfo EXCEPT ![s] = new] ELSE serverInfo

\* The end of reportChunkserverInfo.
reportStore(h) ==
  LET r == report[h]
  IN /\ r.pc = "store"
     /\ serverInfo' = Store(r.server, [GenChunkserver(r.server) EXCEPT !.status = r.status])
     /\ report' = [LetGo({r.server}) EXCEPT ![h] = NoReport]
     /\ add' = [add EXCEPT !.shared = @ \ {r.server}]
     /\ UNCHANGED <<db, monitor, load, alive, failures, operator>>

-----------------------------------------------------------------------------
(* The monitor, one run at a time.                                         *)

\* The image servers are told that the server at the key of s is RW.
RW(s) == Registered(s) /\ serverInfo[s].status = "RW"

\* The RW servers that have not reported for longer than the timeout.
chunkserverMonitor ==
  LET abnormal == {s \in Servers : RW(s) /\ serverInfo[s].age > Timeout}
  IN /\ monitor.pc = "idle"
     /\ abnormal # {}
     /\ monitor' = [pc |-> "row", todo |-> abnormal]
     /\ UNCHANGED <<db, serverInfo, report, load, add, alive, failures, operator>>

MonitorAfter(s) ==
  IF monitor.todo = {s} THEN NoMonitor ELSE [pc |-> "row", todo |-> monitor.todo \ {s}]

\* UpdateChunkserverStatus of the next of them, in any order: a map is ranged over.
\* The cache follows in updateChunkserverInfo unless the database fails.
monitorRow(s) ==
  /\ monitor.pc = "row" /\ s \in monitor.todo
  /\ \/ /\ db' = Updated(s, "RW", "RO")
        /\ monitor' = [monitor EXCEPT !.pc = s]
        /\ UNCHANGED failures
     \/ /\ DatabaseError
        /\ monitor' = MonitorAfter(s)
  /\ UNCHANGED <<serverInfo, report, load, add, alive, operator>>

\* Mutant of updateChunkserverInfo: the status of a copy of the struct is set.
updateChunkserverInfo_Copy(s) ==
  /\ monitor.pc = s
  /\ monitor' = MonitorAfter(s)
  /\ UNCHANGED <<db, serverInfo, report, load, add, alive, failures, operator>>

\* The struct that is under the key now becomes RO, not the one that was found
\* to be late: it may be that of a report that came in between.
updateChunkserverInfo(s) ==
  /\ monitor.pc = s
  /\ monitor' = MonitorAfter(s)
  /\ serverInfo' = [t \in Servers |-> IF t \in SameStruct(s)
                                        THEN [serverInfo[t] EXCEPT !.status = "RO"]
                                        ELSE serverInfo[t]]
  /\ UNCHANGED <<db, report, load, add, alive, failures, operator>>

-----------------------------------------------------------------------------
(* What operators call.                                                    *)

Operate ==
  /\ operator < MaxOperator
  /\ operator' = operator + 1

\* LoadChunkserverInfo reads the rows (one load at a time, see above) ...
LoadChunkserverInfo ==
  /\ load.pc = "idle"
  /\ load' = [pc |-> "loaded", list |-> db]
  /\ Operate
  /\ UNCHANGED <<db, serverInfo, report, monitor, add, alive, failures>>

\* Mutant of Loadable: the rows of servers in error are loaded as well.
Loadable_All(rows) == {s \in Servers : rows[s].stored}

\* ... leaves out those of servers in error ...
Loadable(rows) == {s \in Servers : rows[s].stored /\ rows[s].status # "ERR"}

\* ... and replaces the map.
Loaded(rows) ==
  [s \in Servers |-> IF s \in Loadable(rows)
                       THEN ChunkserverOf(s, rows[s].status, rows[s].global) ELSE Nil]

loadReplaces ==
  /\ load.pc = "loaded"
  /\ load' = NoLoad
  /\ serverInfo' = Loaded(load.list)
  /\ report' = LetGo(Servers)
  /\ add' = [add EXCEPT !.shared = {}]
  /\ UNCHANGED <<db, monitor, alive, failures, operator>>

\* chunkmaster is started again: the goroutines are gone, the map is loaded.
Restart ==
  /\ Operate
  /\ serverInfo' = Loaded(db)
  /\ report' = [h \in Handlers |-> NoReport]
  /\ monitor' = NoMonitor
  /\ load' = NoLoad
  /\ add' = NoAdd
  /\ UNCHANGED <<db, alive, failures>>

\* batchInitChunkserverHandler: a list of servers to register, one list at a time.
batchInitChunkserverHandler(batch) ==
  /\ add.pc = "idle"
  /\ batch # {}
  /\ add' = [NoAdd EXCEPT !.pc = "row", !.todo = batch]
  /\ Operate
  /\ UNCHANGED <<db, serverInfo, report, monitor, load, alive, failures>>

\* batchAddChunkserver assigns the next server of the list to the variable of the
\* loop and passes addChunkserver its address: every round has the same struct,
\* and the keys of the rounds before now lead to this server.
\* The row is inserted; the address in a row is unique, and an error ends the loop.
addChunkserverRow(s) ==
  LET ended == [NoAdd EXCEPT !.shared = add.shared]
  IN /\ add.pc = "row" /\ s \in add.todo
     /\ serverInfo' = [t \in Servers |-> IF t \in add.shared THEN GenChunkserver(s)
                                                             ELSE serverInfo[t]]
     /\ \/ /\ ~db[s].stored
           /\ db' = [db EXCEPT ![s] = [NoRow EXCEPT !.stored = TRUE]]
           /\ add' = [add EXCEPT !.pc = "cache", !.todo = @ \ {s}, !.server = s]
           /\ UNCHANGED failures
        \/ /\ db[s].stored
           /\ add' = ended
           /\ UNCHANGED <<db, failures>>
        \/ /\ DatabaseError
           /\ add' = ended
     /\ UNCHANGED <<report, monitor, load, alive, operator>>

\* The struct enters the map.
addChunkserver ==
  /\ add.pc = "cache"
  /\ serverInfo' = [serverInfo EXCEPT ![add.server] = GenChunkserver(add.server)]
  /\ report' = LetGo({add.server})
  /\ add' = [add EXCEPT !.pc = IF add.todo = {} THEN "idle" ELSE "row",
                        !.shared = @ \cup {add.server}, !.server = Nil]
  /\ UNCHANGED <<db, monitor, load, alive, failures, operator>>

\* Rows are changed in the database: a group is to be transferred, a server is dead.
MarkTransfer ==
  /\ Operate
  /\ db' = [s \in Servers |-> IF db[s].stored THEN [db[s] EXCEPT !.global = "TRANSFER"]
                                              ELSE db[s]]
  /\ UNCHANGED <<serverInfo, report, monitor, load, add, alive, failures>>

MarkError(s) ==
  /\ db[s].stored /\ db[s].status # "INIT"
  /\ Operate
  /\ db' = [db EXCEPT ![s].status = "ERR"]
  /\ UNCHANGED <<serverInfo, report, monitor, load, add, alive, failures>>

-----------------------------------------------------------------------------
(* The image server, the chunk servers and time.                           *)

\* selectChunkServerGroupComplex on what chunkmasterRouteHandler answers: the
\* structs under the keys.  Their order is that of a map, so any of them may be
\* servers[0].  Free space is taken to suffice.
selectChunkServerGroupComplex ==
  LET servers == {s \in Servers : Registered(s)}
  IN /\ \E first \in servers : serverInfo[first].global = "NORMAL"
     /\ \A s \in servers : serverInfo[s].status \in {"ERR", "RW"}
     /\ Cardinality({s \in servers : RW(s)}) >= limitNum

Stop(s) ==
  /\ s \in alive
  /\ alive' = alive \ {s}
  /\ UNCHANGED <<db, serverInfo, report, monitor, load, add, failures, operator>>

Start(s) ==
  /\ s \notin alive
  /\ alive' = alive \cup {s}
  /\ UNCHANGED <<db, serverInfo, report, monitor, load, add, failures, operator>>

\* Time passes for the structs whose UpdateTime the monitor reads, and an age
\* beyond the timeout is as good as any other.
Tick ==
  LET young == {s \in Servers : RW(s) /\ serverInfo[s].age <= Timeout}
  IN /\ young # {}
     /\ serverInfo' = [s \in Servers |-> IF s \in young THEN [serverInfo[s] EXCEPT !.age = @ + 1]
                                                        ELSE serverInfo[s]]
     /\ UNCHANGED <<db, report, monitor, load, add, alive, failures, operator>>

-----------------------------------------------------------------------------

\* chunkmaster has loaded the servers that were registered before, if any.
Init ==
  /\ \E known \in SUBSET Servers :
       /\ db = [s \in Servers |-> [NoRow EXCEPT !.stored = s \in known]]
       /\ serverInfo = [s \in Servers |-> IF s \in known THEN GenChunkserver(s) ELSE Nil]
  /\ report = [h \in Handlers |-> NoReport]
  /\ monitor = NoMonitor
  /\ load = NoLoad
  /\ add = NoAdd
  /\ alive = {}
  /\ failures = 0
  /\ operator = 0

Report ==
  \E h \in Handlers :
    \/ \E s \in Servers : reportChunkserverInfoHandler(h, s)
    \/ reportChunkserverInfo(h)
    \/ reportStore(h)

Monitor ==
  \/ chunkserverMonitor
  \/ \E s \in Servers : monitorRow(s) \/ updateChunkserverInfo(s)

Administer ==
  \/ LoadChunkserverInfo
  \/ loadReplaces
  \/ Restart
  \/ \E batch \in SUBSET Servers : batchInitChunkserverHandler(batch)
  \/ \E s \in Servers : addChunkserverRow(s)
  \/ addChunkserver

Environment ==
  \/ MarkTransfer
  \/ \E s \in Servers : MarkError(s) \/ Stop(s) \/ Start(s)
  \/ Tick

Next == Report \/ Monitor \/ Administer \/ Environment

Spec == Init /\ [][Next]_vars

\* A chunk server that runs reports again and again, on a connection of its own;
\* the goroutines that have begun go on; the tickers of the monitor and of the
\* image server fire; time passes.
FairSpec ==
  /\ Spec
  /\ \A s \in Servers :
       WF_vars(\E h \in Handlers : reportChunkserverInfoHandler(h, s))
  /\ \A h \in Handlers : WF_vars(reportChunkserverInfo(h) \/ reportStore(h))
  /\ WF_vars(Monitor)
  /\ WF_vars(loadReplaces)
  /\ WF_vars(addChunkserver \/ \E s \in Servers : addChunkserverRow(s))
  /\ WF_vars(Tick)

-----------------------------------------------------------------------------
(* Properties.                                                             *)

\* Every variable has its type.  No struct of a server whose row says ERR is in
\* the map, because LoadChunkserverInfo leaves it out; a struct that the keys of
\* a batch share is never RW.
TypeOK ==
  /\ db \in [Servers -> Row]
  /\ serverInfo \in [Servers -> Chunkserver \cup {Nil}]
  /\ report \in [Handlers -> [pc : {"idle", "INIT", "RW", "RO", "store"},
                              server : Servers \cup {Nil},
                              old : {"map", "INIT", "RW", "RO"}, status : {"INIT", "RW", "RO"}]]
  /\ \A h \in Handlers : report[h].pc # "idle" /\ report[h].old = "map"
                           => Registered(report[h].server)
  /\ monitor.pc \in {"idle", "row"} \cup Servers /\ monitor.todo \subseteq Servers
  /\ load.pc \in {"idle", "loaded"} /\ load.list \in [Servers -> Row]
  /\ add.pc \in {"idle", "row", "cache"} /\ add.todo \subseteq Servers
  /\ add.server \in Servers \cup {Nil}
  /\ \A s \in add.shared : Registered(s) /\ ~RW(s)
  /\ alive \subseteq Servers
  /\ failures \in 0..MaxFailures
  /\ operator \in 0..MaxOperator

\* The row of s says ERR, the map has dropped it, and neither a load that has read the
\* rows nor a registration that has inserted the row is about to put it there.
Out(s) ==
  /\ ~Registered(s) /\ db[s].status = "ERR"
  /\ load.pc = "loaded" => s \notin Loadable(load.list)
  /\ ~(add.pc = "cache" /\ add.server = s)

\* A server whose row was set to ERR and that a load has dropped from the map
\* stays out for good: a report that was under way does not bring it back, because
\* reportChunkserverInfo looks the key up again under the lock, and no branch of it
\* and no run of the monitor changes the row.
ErrorStaysOut == [][\A s \in Servers : Out(s) => Out(s)']_vars

\* A server that stops for good is in the end not RW for the image servers, whatever
\* reports, loads and failures of the database cross the monitor: uploads and
\* downloads are not sent to it for ever.
StoppedDetected == \A s \in Servers : <>[](s \notin alive) => <>[]~RW(s)

\* A server that keeps reporting and that the map knows is RW again and again for
\* the image servers, although the monitor may set a struct that has just been
\* reported to RO, and although the row may keep a status that no update matches.
ReportingRecovers ==
  \A s \in Servers : <>[](s \in alive /\ Registered(s)) => []<>RW(s)

\* "skip empty group and transfering... group": once the master has loaded rows
\* that put the group in transfer, selectChunkServerGroupComplex does not choose
\* it for as long as the rows say so.
TransferSkipped ==
  [][(\A s \in Servers : Registered(s) /\ serverInfo[s].global = "TRANSFER")
       /\ (\A s \in Servers : db[s].global = "TRANSFER")'
       => ~selectChunkServerGroupComplex']_vars
=============================================================================
