-------------------------------- MODULE Ports --------------------------------
(***************************************************************************)
(* The port registry and the start and stop of its servers: src/portctl.py, *)
(* src/portscan.py, src/db/ports.py, their handlers in                      *)
(* src/web/routers/api.py and the screen's buttons (pages.py).              *)
(*                                                                         *)
(* The screen shows each registered port with the process that listens on  *)
(* it; the user confirms that process, and the request names only the row. *)
(* Requests run in a thread pool, and processes start, listen and end on    *)
(* their own.  A process is known to the code by its pid, which the system *)
(* gives out again; the model numbers the processes to tell them apart.    *)
(* Labels and commands are left out: a row may lack the command.           *)
(***************************************************************************)
EXTENDS Naturals, Sequences

CONSTANTS
  Projects, Pids,
  PortNumbers,     \* ports, in the range register_port accepts
  Tabs,            \* screens, with one request each at a time
  MaxRegistered,   \* bound: rows ever inserted
  MaxProcesses,    \* bound: processes ever started
  MaxRequests,     \* bound: requests of the tabs
  MaxBlind         \* bound: scans that fail

ASSUME PortBounds == 
  MaxRegistered \in Nat /\ MaxProcesses \in Nat /\ MaxRequests \in Nat /\ MaxBlind \in Nat

VARIABLES
  ports, lastrowid,   \* the ports table by id; the id AUTOINCREMENT gave last
  procs,              \* every process: its pid, its port, where it is in its life
  view,               \* the process each tab shows for each row, 0 for none
  pc, reg,            \* a request's place; the row it has read
  found,              \* the id register has found, or the process a scan has
  confirmed,          \* the process the user was shown when confirming the stop
  moved,              \* history: ports a tab shows where a process has begun or
                      \* ended listening since, or where several did
  late, blind,        \* history: since the scan, or the look-up, of a request
                      \* another was quicker; its scan failed
  twice,              \* history: ports registered by two requests at once
  requests, blinds

table == <<ports, lastrowid>>
local == <<pc, reg, found, confirmed, late, blind>>
vars  == <<table, procs, view, local, moved, twice, requests, blinds>>

Row  == [project : Projects, port : PortNumbers]
NoRow == [project |-> "none", port |-> "none"]

Alive(n)  == procs[n].life # "gone"
ListenIn(ps, port) == {n \in DOMAIN ps : ps[n].port = port /\ ps[n].life = "listens"}
Holders(port) == ListenIn(procs, port)

\* listening_ports: one line per port, the first of netstat; an empty result
\* if netstat fails.
Listening(port) == IF Holders(port) = {} THEN {0} ELSE Holders(port)

Init ==
  /\ ports = <<>> /\ lastrowid = 0 /\ procs = <<>> /\ view = [t \in Tabs |-> <<>>]
  /\ pc = [t \in Tabs |-> "idle"] /\ reg = [t \in Tabs |-> NoRow]
  /\ found = [t \in Tabs |-> 0] /\ confirmed = [t \in Tabs |-> 0]
  /\ moved = [t \in Tabs |-> {}]
  /\ late = [t \in Tabs |-> FALSE] /\ blind = [t \in Tabs |-> FALSE]
  /\ twice = {} /\ requests = 0 /\ blinds = 0

Requested == requests < MaxRequests /\ requests' = requests + 1

\* A request begins with the row it is about, and ends.
Begins(t, where, row, id, shown) ==
  /\ Requested /\ pc[t] = "idle" /\ pc' = [pc EXCEPT ![t] = where]
  /\ reg' = [reg EXCEPT ![t] = row] /\ found' = [found EXCEPT ![t] = id]
  /\ confirmed' = [confirmed EXCEPT ![t] = shown]
  /\ UNCHANGED <<late, blind>>

Ends(t) ==
  /\ pc' = [pc EXCEPT ![t] = "idle"] /\ reg' = [reg EXCEPT ![t] = NoRow]
  /\ found' = [found EXCEPT ![t] = 0] /\ confirmed' = [confirmed EXCEPT ![t] = 0]
  /\ blind' = [blind EXCEPT ![t] = FALSE]

NotLate(t) == late' = [late EXCEPT ![t] = FALSE]

\* The other requests to register this row have looked too early.
Overtakes(t) ==
  late' = [u \in Tabs |-> u # t /\ (late[u] \/ (pc[u] = "register" /\ reg[u] = reg[t]))]

Seen(port) == moved' = [t \in Tabs |-> moved[t] \cup {port}]

-----------------------------------------------------------------------------
(* The table.                                                              *)

Same(row) == {id \in DOMAIN ports : ports[id] = row}

\* Mutant of register: every request inserts.
registerInserts(t, row) ==
  /\ Begins(t, "register", row, 0, 0)
  /\ UNCHANGED <<table, procs, view, moved, twice, blinds>>

\* Looking for the row of this project and port, ...
register(t, row) ==
  /\ \E id \in IF Same(row) = {} THEN {0} ELSE Same(row) : Begins(t, "register", row, id, 0)
  /\ UNCHANGED <<table, procs, view, moved, twice, blinds>>

\* Mutant of Insert: a table whose ids may come back (no AUTOINCREMENT).
InsertAfterLast(t) ==
  LET id1 == IF ports = <<>> THEN 1 ELSE 1 + CHOOSE i \in DOMAIN ports : \A j \in DOMAIN ports : j <= i
  IN
  /\ pc[t] = "register" /\ found[t] = 0 /\ lastrowid < MaxRegistered
  /\ lastrowid' = lastrowid + 1
  /\ ports' = [id \in DOMAIN ports \cup {id1} |-> IF id = id1 THEN reg[t] ELSE ports[id]]
  /\ twice' = IF late[t] THEN twice \cup {reg[t].port} ELSE twice
  /\ Overtakes(t) /\ Ends(t)
  /\ UNCHANGED <<procs, view, moved, requests, blinds>>

\* ... and inserting one.
Insert(t) ==
  /\ pc[t] = "register" /\ found[t] = 0 /\ lastrowid < MaxRegistered
  /\ lastrowid' = lastrowid + 1
  /\ ports' = [id \in DOMAIN ports \cup {lastrowid'} |->
                 IF id = lastrowid' THEN reg[t] ELSE ports[id]]
  /\ twice' = IF late[t] THEN twice \cup {reg[t].port} ELSE twice
  /\ Overtakes(t) /\ Ends(t)
  /\ UNCHANGED <<procs, view, moved, requests, blinds>>

\* A row that is there only gets the new label and command.
Update(t) ==
  /\ pc[t] = "register" /\ found[t] # 0 /\ Ends(t) /\ NotLate(t)
  /\ UNCHANGED <<table, procs, view, moved, twice, requests, blinds>>

delete(id) ==
  /\ Requested
  /\ ports' = [i \in DOMAIN ports \ {id} |-> ports[i]]
  /\ UNCHANGED <<lastrowid, procs, view, local, moved, twice, blinds>>

-----------------------------------------------------------------------------
(* get_ports: the rows, each with the process that listens on its port.    *)

Shown(rows) ==
  {v \in [DOMAIN rows -> 0..Len(procs)] : \A id \in DOMAIN rows : v[id] \in Listening(rows[id].port)}

\* conflicts: ports of more than one row.
Conflicts(rows) ==
  {p \in PortNumbers : \E i, j \in DOMAIN rows : i # j /\ rows[i].port = p /\ rows[j].port = p}

get_ports(t) ==
  /\ Requested /\ pc[t] = "idle"
  /\ \E v \in Shown(ports) : view' = [view EXCEPT ![t] = v]
  /\ moved' = [moved EXCEPT ![t] =
       {p \in PortNumbers : \E n, m \in Holders(p) : n # m}]
  /\ UNCHANGED <<table, procs, local, twice, blinds>>

-----------------------------------------------------------------------------
(* start_port.                                                             *)

start_port(t, id) ==
  /\ id \in DOMAIN ports /\ Begins(t, "start", ports[id], 0, 0)
  /\ UNCHANGED <<table, procs, view, moved, twice, blinds>>

\* Mutant of StartScan: whoever listens, the command is run.
StartScanLaunches(t) ==
  /\ pc[t] = "start" /\ pc' = [pc EXCEPT ![t] = "launch"]
  /\ UNCHANGED <<table, procs, view, reg, found, confirmed, late, blind, moved, twice, requests, blinds>>

\* Nobody listens, as far as the scan can tell.
StartScan(t) ==
  /\ pc[t] = "start" /\ pc' = [pc EXCEPT ![t] = "launch"]
  /\ \/ Holders(reg[t].port) = {} /\ UNCHANGED <<blind, blinds>>
     \/ blinds < MaxBlind /\ blinds' = blinds + 1 /\ blind' = [blind EXCEPT ![t] = TRUE]
  /\ UNCHANGED <<table, procs, view, reg, found, confirmed, late, moved, twice, requests>>

AlreadyRuns(t) ==
  /\ pc[t] = "start" /\ Holders(reg[t].port) # {} /\ Ends(t) /\ NotLate(t)
  /\ UNCHANGED <<table, procs, view, moved, twice, requests, blinds>>

Starts(pid, port) ==
  /\ Len(procs) < MaxProcesses /\ \A n \in DOMAIN procs : procs[n].pid = pid => ~Alive(n)
  /\ procs' = Append(procs, [pid |-> pid, port |-> port, life |-> "starts"])

Launch(t) ==
  /\ pc[t] = "launch"
  /\ \E pid \in Pids : Starts(pid, reg[t].port)
  /\ Ends(t) /\ NotLate(t)
  /\ UNCHANGED <<table, view, moved, twice, requests, blinds>>

\* No command, no folder, or Popen raises.
LaunchFails(t) ==
  /\ pc[t] = "launch" /\ Ends(t) /\ NotLate(t)
  /\ UNCHANGED <<table, procs, view, moved, twice, requests, blinds>>

-----------------------------------------------------------------------------
(* stop_port, after the user has confirmed the process shown.              *)

stop_port(t, id) ==
  /\ id \in DOMAIN view[t] /\ view[t][id] # 0 /\ id \in DOMAIN ports
  /\ Begins(t, "stop", ports[id], 0, view[t][id])
  /\ UNCHANGED <<table, procs, view, moved, twice, blinds>>

StopScan(t) ==
  /\ pc[t] = "stop" /\ pc' = [pc EXCEPT ![t] = "kill"]
  /\ \E n \in Holders(reg[t].port) : found' = [found EXCEPT ![t] = n]
  /\ UNCHANGED <<table, procs, view, reg, confirmed, late, blind, moved, twice, requests, blinds>>

\* Nobody listens, or the scan fails.
NotRunning(t) ==
  /\ pc[t] = "stop" /\ Ends(t) /\ NotLate(t)
  /\ \/ Holders(reg[t].port) = {} /\ UNCHANGED blinds
     \/ blinds < MaxBlind /\ blinds' = blinds + 1
  /\ UNCHANGED <<table, procs, view, moved, twice, requests>>

Gone(n) == procs' = [procs EXCEPT ![n].life = "gone"]

\* taskkill: the process that has this pid now.
Kill(t) ==
  /\ pc[t] = "kill"
  /\ \E n \in DOMAIN procs :
       /\ Alive(n) /\ procs[n].pid = procs[found[t]].pid
       /\ Gone(n) /\ Seen(procs[n].port)
  /\ Ends(t) /\ NotLate(t)
  /\ UNCHANGED <<table, view, twice, requests, blinds>>

KillFails(t) ==
  /\ pc[t] = "kill" /\ Ends(t) /\ NotLate(t)
  /\ UNCHANGED <<table, procs, view, moved, twice, requests, blinds>>

-----------------------------------------------------------------------------
(* Processes on their own: one nobody started here, listening, ending.     *)

OtherStarts(pid, port) == Starts(pid, port) /\ UNCHANGED <<table, view, local, moved, twice, requests, blinds>>

Listens(n) ==
  /\ procs[n].life = "starts" /\ procs' = [procs EXCEPT ![n].life = "listens"]
  /\ Seen(procs[n].port)
  /\ late' = [t \in Tabs |-> late[t] \/ (pc[t] = "launch" /\ reg[t].port = procs[n].port)]
  /\ UNCHANGED <<table, view, pc, reg, found, confirmed, blind, twice, requests, blinds>>

Exits(n) ==
  /\ Alive(n) /\ Gone(n) /\ Seen(procs[n].port)
  /\ UNCHANGED <<table, view, local, twice, requests, blinds>>

Next ==
  \/ \E t \in Tabs, row \in Row : register(t, row)
  \/ \E t \in Tabs : Insert(t) \/ Update(t) \/ get_ports(t)
  \/ \E t \in Tabs : StartScan(t) \/ AlreadyRuns(t) \/ Launch(t) \/ LaunchFails(t)
  \/ \E t \in Tabs : StopScan(t) \/ NotRunning(t) \/ Kill(t) \/ KillFails(t)
  \/ \E t \in Tabs, id \in DOMAIN ports : start_port(t, id) \/ stop_port(t, id)
  \/ \E id \in DOMAIN ports : delete(id)
  \/ \E pid \in Pids, port \in PortNumbers : OtherStarts(pid, port)
  \/ \E n \in DOMAIN procs : Listens(n) \/ Exits(n)

Spec == Init /\ [][Next]_vars

-----------------------------------------------------------------------------
\* Every variable keeps its type, and no two living processes have one pid.
TypeOK ==
  /\ DOMAIN ports \subseteq 1..lastrowid /\ \A id \in DOMAIN ports : ports[id] \in Row
  /\ lastrowid \in 0..MaxRegistered
  /\ procs \in Seq([pid : Pids, port : PortNumbers, life : {"starts", "listens", "gone"}])
  /\ \A n, m \in DOMAIN procs : Alive(n) /\ Alive(m) /\ procs[n].pid = procs[m].pid => n = m
  /\ DOMAIN view = Tabs
  /\ \A t \in Tabs : /\ DOMAIN view[t] \subseteq 1..lastrowid
                    /\ \A id \in DOMAIN view[t] : view[t][id] \in 0..Len(procs)
  /\ pc \in [Tabs -> {"idle", "register", "start", "launch", "stop", "kill"}]
  /\ reg \in [Tabs -> Row \cup {NoRow}] /\ found \in [Tabs -> Nat] /\ confirmed \in [Tabs -> Nat]
  /\ moved \in [Tabs -> SUBSET PortNumbers] /\ late \in [Tabs -> BOOLEAN] /\ blind \in [Tabs -> BOOLEAN]
  /\ twice \subseteq PortNumbers /\ requests \in 0..MaxRequests /\ blinds \in 0..MaxBlind

\* The process that is killed is the one the user has confirmed, though the
\* request names only the row and both the table and the pids change in the
\* meantime (portctl.py:6): another one is hit only if a process began or
\* ended listening on that very port after the list was read.
KilledAsConfirmed ==
  [][\A t \in Tabs, n \in DOMAIN procs :
       pc[t] = "kill" /\ pc'[t] = "idle" /\ Alive(n) /\ ~Alive(n)' =>
         n = confirmed[t] \/ reg[t].port \in moved[t]]_vars

\* A server is started beside one that listens on its port only if that one
\* began to listen after the scan, or the scan failed (start_port, "already
\* up: skip").
NoSecondServer ==
  [][\A t \in Tabs :
       pc[t] = "launch" /\ Len(procs') > Len(procs) /\ pc'[t] = "idle"
         /\ Holders(reg[t].port) # {} => late[t] \/ blind[t]]_vars

\* A conflict that the screen reports is one of two projects (get_ports),
\* unless two requests had registered one project's port at once: the table
\* has no UNIQUE that would stop them.
ConflictIsTwoProjects ==
  \A p \in Conflicts(ports) \ twice :
    \E i, j \in DOMAIN ports :
      ports[i].port = p /\ ports[j].port = p /\ ports[i].project # ports[j].project

-----------------------------------------------------------------------------
(* With TypeOK this is inductive; it gives the three properties.           *)

\* A row is there twice only if its registrations overlapped, and one about
\* to be inserted is not there, or its request has been overtaken.
RowsAgree ==
  /\ \A i, j \in DOMAIN ports : ports[i] = ports[j] /\ i # j => ports[i].port \in twice
  /\ \A t \in Tabs : pc[t] = "register" /\ found[t] = 0 /\ ~late[t] => Same(reg[t]) = {}

\* Nobody listens on the port a server is about to be started for.
StartAgrees ==
  \A t \in Tabs : pc[t] = "launch" /\ ~late[t] /\ ~blind[t] => Holders(reg[t].port) = {}

\* As long as nobody began or ended listening on a port, the process that is
\* shown for it, confirmed and found by the scan is the one that listens.
ShownListens ==
  \A t \in Tabs : \A id \in DOMAIN view[t] :
    id \in DOMAIN ports /\ view[t][id] # 0 /\ ports[id].port \notin moved[t] =>
      Holders(ports[id].port) = {view[t][id]}

ConfirmedListens ==
  \A t \in Tabs :
    pc[t] \in {"stop", "kill"} /\ reg[t].port \notin moved[t] => Holders(reg[t].port) = {confirmed[t]}

FoundIsConfirmed ==
  \A t \in Tabs :
    pc[t] = "kill" =>
      found[t] \in DOMAIN procs /\ (reg[t].port \in moved[t] \/ found[t] = confirmed[t])

\* A request's place says which row it has, and at rest it has nothing.
RequestsAgree ==
  \A t \in Tabs :
    /\ pc[t] # "idle" => reg[t] \in Row
    /\ pc[t] = "idle" => ~late[t] /\ ~blind[t]

StopAgrees == ShownListens /\ ConfirmedListens /\ FoundIsConfirmed

Registry == RowsAgree /\ StartAgrees /\ StopAgrees /\ RequestsAgree
=============================================================================
