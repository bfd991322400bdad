----------------------------- MODULE PortsProofs -----------------------------
(* The safety of the port registry and of the start and stop of servers,   *)
(* for any number of screens, requests, ports, pids and processes.         *)
EXTENDS Ports, TLAPS

IInv == TypeOK /\ Registry

USE DEF table, local, Holders

\* A process that has just started listens nowhere.
LEMMA StartsHolds ==
  ASSUME TypeOK, NEW pid \in Pids, NEW port \in PortNumbers, Starts(pid, port)
  PROVE  /\ procs' \in Seq([pid : Pids, port : PortNumbers, life : {"starts", "listens", "gone"}])
         /\ \A n, m \in DOMAIN procs' :
              Alive(n)' /\ Alive(m)' /\ procs'[n].pid = procs'[m].pid => n = m
         /\ Len(procs') = Len(procs) + 1 /\ Len(procs) \in Nat
         /\ DOMAIN procs' = 1..Len(procs')
         /\ \A n \in DOMAIN procs : n \in DOMAIN procs' /\ procs'[n] = procs[n]
         /\ \A p : ListenIn(procs', p) = ListenIn(procs, p)
<1> DEFINE new == [pid |-> pid, port |-> port, life |-> "starts"]
<1>1. procs' = Append(procs, new)
  BY DEF Starts
<1>2. new \in [pid : Pids, port : PortNumbers, life : {"starts", "listens", "gone"}]
  OBVIOUS
<1>3. /\ procs' \in Seq([pid : Pids, port : PortNumbers, life : {"starts", "listens", "gone"}])
      /\ Len(procs') = Len(procs) + 1 /\ DOMAIN procs' = 1..Len(procs') /\ Len(procs) \in Nat
      /\ DOMAIN procs = 1..Len(procs)
      /\ \A n \in DOMAIN procs : procs'[n] = procs[n]
      /\ procs'[Len(procs')] = new
  BY <1>1, <1>2 DEF TypeOK
<1>4. \A n \in DOMAIN procs' : n = Len(procs') \/ n \in DOMAIN procs
  BY <1>3
<1>5. \A n \in DOMAIN procs : procs[n].pid = pid => ~Alive(n)
  BY DEF Starts
<1>6. \A n, m \in DOMAIN procs' :
        Alive(n)' /\ Alive(m)' /\ procs'[n].pid = procs'[m].pid => n = m
  BY <1>3, <1>4, <1>5 DEF TypeOK, Alive
<1>7. \A p : ListenIn(procs', p) = ListenIn(procs, p)
  BY <1>3, <1>4 DEF ListenIn
<1> QED
  BY <1>3, <1>6, <1>7

\* A process moves on: it listens or it is gone, and only its port sees that.
LEMMA MovesHolds ==
  ASSUME TypeOK, NEW n \in DOMAIN procs, NEW l \in {"listens", "gone"}, Alive(n),
         procs' = [procs EXCEPT ![n].life = l]
  PROVE  /\ procs' \in Seq([pid : Pids, port : PortNumbers, life : {"starts", "listens", "gone"}])
         /\ \A i, m \in DOMAIN procs' :
              Alive(i)' /\ Alive(m)' /\ procs'[i].pid = procs'[m].pid => i = m
         /\ Len(procs') = Len(procs) /\ DOMAIN procs' = DOMAIN procs
         /\ \A p : p # procs[n].port => ListenIn(procs', p) = ListenIn(procs, p)
         /\ l = "gone" => \A p : ListenIn(procs', p) \subseteq ListenIn(procs, p)
<1>1. /\ DOMAIN procs' = DOMAIN procs /\ Len(procs') = Len(procs)
      /\ procs' \in Seq([pid : Pids, port : PortNumbers, life : {"starts", "listens", "gone"}])
      /\ procs'[n].pid = procs[n].pid /\ procs'[n].port = procs[n].port /\ procs'[n].life = l
      /\ \A m \in DOMAIN procs \ {n} : procs'[m] = procs[m]
  <2> DEFINE P == [pid : Pids, port : PortNumbers, life : {"starts", "listens", "gone"}]
             q == [procs[n] EXCEPT !.life = l]
  <2>0. procs \in Seq(P)
    BY DEF TypeOK
  <2> HIDE DEF P
  <2>1. DOMAIN procs = 1..Len(procs) /\ procs[n] \in P
    BY <2>0
  <2>2. q \in P /\ q.pid = procs[n].pid /\ q.port = procs[n].port /\ q.life = l
    BY <2>1 DEF P
  <2>3. procs' = [procs EXCEPT ![n] = q]
    OBVIOUS
  <2> HIDE DEF q
  <2>4. /\ procs' \in Seq(P) /\ DOMAIN procs' = DOMAIN procs /\ Len(procs') = Len(procs)
        /\ procs'[n] = q /\ \A m \in DOMAIN procs \ {n} : procs'[m] = procs[m]
    BY <2>0, <2>1, <2>2, <2>3
  <2> QED
    BY <2>2, <2>4 DEF P
<1>2. \A i, m \in DOMAIN procs' :
        Alive(i)' /\ Alive(m)' /\ procs'[i].pid = procs'[m].pid => i = m
  BY <1>1 DEF TypeOK, Alive
<1>3. \A p : p # procs[n].port => ListenIn(procs', p) = ListenIn(procs, p)
  BY <1>1 DEF ListenIn
<1>4. ASSUME l = "gone", NEW p, NEW m \in ListenIn(procs', p)
      PROVE  m \in ListenIn(procs, p)
  <2>1. m \in DOMAIN procs /\ procs'[m].life = "listens" /\ procs'[m].port = p
    BY <1>1, <1>4 DEF ListenIn
  <2>2. m # n
    BY <1>1, <1>4, <2>1
  <2> QED
    BY <1>1, <2>1, <2>2 DEF ListenIn
<1>5. l = "gone" => \A p : ListenIn(procs', p) \subseteq ListenIn(procs, p)
  BY <1>4
<1> QED
  BY <1>1, <1>2, <1>3, <1>5

LEMMA InitHolds == Init => IInv
BY PortBounds DEF Init, IInv, TypeOK, Registry, RowsAgree, StartAgrees, StopAgrees, RequestsAgree,
   Same, ListenIn, NoRow, ShownListens,
   ConfirmedListens, FoundIsConfirmed

\* What a tab shows stays right if only rows go, and no process moves.
LEMMA ShownHolds ==
  ASSUME ShownListens, UNCHANGED <<procs, view, moved>>, DOMAIN ports' \subseteq DOMAIN ports,
         \A id \in DOMAIN ports' : ports'[id] = ports[id]
  PROVE  ShownListens'
<1> SUFFICES ASSUME NEW u \in Tabs, NEW id \in DOMAIN view'[u], id \in DOMAIN ports',
                    view'[u][id] # 0, ports'[id].port \notin moved'[u]
             PROVE  ListenIn(procs', ports'[id].port) = {view'[u][id]}
  BY DEF ShownListens
<1>1. id \in DOMAIN view[u] /\ id \in DOMAIN ports /\ ports'[id] = ports[id]
  OBVIOUS
<1> QED
  BY <1>1 DEF ShownListens

\* A request that ends without having changed anything.
LEMMA EndsHolds ==
  ASSUME IInv, NEW t \in Tabs, Ends(t), NotLate(t),
         UNCHANGED <<table, procs, view, moved, twice, requests>>, blinds' \in 0..MaxBlind
  PROVE  IInv'
<1> USE DEF IInv, Registry
<1>1. /\ pc' = [pc EXCEPT ![t] = "idle"] /\ reg' = [reg EXCEPT ![t] = NoRow]
      /\ confirmed' = [confirmed EXCEPT ![t] = 0] /\ found' = [found EXCEPT ![t] = 0]
      /\ blind' = [blind EXCEPT ![t] = FALSE] /\ late' = [late EXCEPT ![t] = FALSE]
      /\ UNCHANGED <<ports, lastrowid, procs, view, moved, twice, requests>>
  BY DEF Ends, NotLate
<1>2. TypeOK'
  BY <1>1 DEF TypeOK, Alive
<1>3. RowsAgree'
  BY <1>1 DEF TypeOK, RowsAgree, Same
<1>4. StartAgrees' /\ RequestsAgree'
  BY <1>1 DEF TypeOK, StartAgrees, RequestsAgree
<1>5. ShownListens'
  BY <1>1, ShownHolds DEF StopAgrees
<1>6. ConfirmedListens' /\ FoundIsConfirmed'
  BY <1>1 DEF TypeOK, StopAgrees, ConfirmedListens, FoundIsConfirmed
<1> QED
  BY <1>2, <1>3, <1>4, <1>5, <1>6 DEF StopAgrees

\* The requests that register and delete rows.
LEMMA TableStep ==
  ASSUME IInv,
         \/ \E t \in Tabs : (\E row \in Row : register(t, row)) \/ Insert(t) \/ Update(t)
         \/ \E id \in DOMAIN ports : delete(id)
  PROVE  IInv'
<1> USE DEF IInv, Registry
<1>1. CASE \E t \in Tabs, row \in Row : register(t, row)
  <2>1. PICK t \in Tabs, row \in Row : register(t, row)
    BY <1>1
  <2>2. PICK id \in (IF Same(row) = {} THEN {0} ELSE Same(row)) : Begins(t, "register", row, id, 0)
    BY <2>1 DEF register
  <2>3. id \in Nat /\ (id = 0 => Same(row) = {})
    BY <2>2, PortBounds DEF Same, TypeOK
  <2>4. TypeOK'
    BY <2>1, <2>2, <2>3, PortBounds DEF register, Begins, Requested, TypeOK, Alive
  <2>5. RowsAgree'
    BY <2>1, <2>2, <2>3 DEF register, Begins, TypeOK, RowsAgree, Same
  <2>6. StartAgrees' /\ StopAgrees' /\ RequestsAgree'
    BY <2>1, <2>2 DEF register, Begins, TypeOK, StartAgrees, StopAgrees, RequestsAgree,
       ShownListens, ConfirmedListens, FoundIsConfirmed
  <2> QED
    BY <2>4, <2>5, <2>6
<1>2. CASE \E t \in Tabs : Insert(t)
  <2>1. PICK t \in Tabs : Insert(t)
    BY <1>2
  <2>2. /\ pc[t] = "register" /\ found[t] = 0 /\ lastrowid' = lastrowid + 1
        /\ lastrowid < MaxRegistered /\ lastrowid \in Nat /\ reg[t] \in Row
        /\ DOMAIN ports' = DOMAIN ports \cup {lastrowid'} /\ lastrowid' \notin DOMAIN ports
        /\ ports'[lastrowid'] = reg[t] /\ \A id \in DOMAIN ports : ports'[id] = ports[id]
    BY <2>1, PortBounds DEF Insert, TypeOK, RequestsAgree
  <2>3. TypeOK'
    <3>1. /\ ports' = [id \in DOMAIN ports \cup {lastrowid'} |->
                         IF id = lastrowid' THEN reg[t] ELSE ports[id]]
          /\ twice' = IF late[t] THEN twice \cup {reg[t].port} ELSE twice
          /\ late' = [u \in Tabs |->
               u # t /\ (late[u] \/ (pc[u] = "register" /\ reg[u] = reg[t]))]
          /\ UNCHANGED <<procs, view, moved, requests, blinds>>
      BY <2>1 DEF Insert, Overtakes
    <3>2. late' \in [Tabs -> BOOLEAN]
      BY <3>1, Zenon
    <3>3. twice' \subseteq PortNumbers
      BY <2>2, <3>1 DEF TypeOK, Row
    <3>4. /\ pc' \in [Tabs -> {"idle", "register", "start", "launch", "stop", "kill"}]
          /\ reg' \in [Tabs -> Row \cup {NoRow}] /\ found' \in [Tabs -> Nat]
          /\ confirmed' \in [Tabs -> Nat] /\ blind' \in [Tabs -> BOOLEAN]
      BY <2>1 DEF Insert, Ends, TypeOK
    <3>5. /\ DOMAIN ports' \subseteq 1..lastrowid' /\ lastrowid' \in 0..MaxRegistered
          /\ \A id \in DOMAIN ports' : ports'[id] \in Row
      BY <2>2, PortBounds DEF TypeOK
    <3>6. \A u \in Tabs : DOMAIN view'[u] \subseteq 1..lastrowid'
      BY <2>2, <3>1 DEF TypeOK
    <3> QED
      BY <3>1, <3>2, <3>3, <3>4, <3>5, <3>6 DEF TypeOK, Alive
  <2>4. RowsAgree'
    <3>1. ~late[t] => \A id \in DOMAIN ports : ports[id] # reg[t]
      BY <2>2 DEF RowsAgree, Same
    <3>2. \A i, j \in DOMAIN ports' : ports'[i] = ports'[j] /\ i # j => ports'[i].port \in twice'
      BY <2>1, <2>2, <3>1 DEF Insert, RowsAgree
    <3>3. ASSUME NEW u \in Tabs, pc'[u] = "register", found'[u] = 0, ~late'[u]
          PROVE  Same(reg[u])' = {}
      <4>1. u # t /\ pc[u] = "register" /\ found[u] = 0 /\ ~late[u] /\ reg'[u] = reg[u] /\ reg[u] # reg[t]
        BY <2>1, <3>3 DEF Insert, Ends, Overtakes, TypeOK
      <4> QED
        BY <2>2, <4>1 DEF RowsAgree, Same
    <3> QED
      BY <3>2, <3>3 DEF RowsAgree
  <2>5. /\ pc' = [pc EXCEPT ![t] = "idle"] /\ reg' = [reg EXCEPT ![t] = NoRow]
        /\ confirmed' = [confirmed EXCEPT ![t] = 0] /\ found' = [found EXCEPT ![t] = 0]
        /\ blind' = [blind EXCEPT ![t] = FALSE] /\ UNCHANGED <<procs, view, moved>>
        /\ ~late'[t] /\ \A u \in Tabs \ {t} : pc[u] # "register" => (late'[u] <=> late[u])
    <3>1. late' = [u \in Tabs |->
            u # t /\ (late[u] \/ (pc[u] = "register" /\ reg[u] = reg[t]))]
      BY <2>1 DEF Insert, Overtakes
    <3>2. ~late'[t] /\ \A u \in Tabs \ {t} : pc[u] # "register" => (late'[u] <=> late[u])
      BY <3>1, Zenon
    <3> QED
      BY <2>1, <3>2 DEF Insert, Ends
  <2>6. StartAgrees'
    BY <2>5 DEF TypeOK, StartAgrees
  <2>7. RequestsAgree'
    BY <2>5 DEF TypeOK, RequestsAgree
  <2>8. \A u \in Tabs : \A id \in DOMAIN view'[u] \cap DOMAIN ports' :
          id \in DOMAIN view[u] \cap DOMAIN ports /\ ports'[id] = ports[id]
    BY <2>2, <2>5 DEF TypeOK
  <2>9. StopAgrees'
    <3>1. ShownListens'
      <4> SUFFICES ASSUME NEW u \in Tabs, NEW id \in DOMAIN view'[u], id \in DOMAIN ports',
                          view'[u][id] # 0, ports'[id].port \notin moved'[u]
                   PROVE  ListenIn(procs', ports'[id].port) = {view'[u][id]}
        BY DEF ShownListens
      <4>1. id \in DOMAIN view[u] /\ id \in DOMAIN ports /\ ports'[id] = ports[id]
        BY <2>8
      <4> QED
        BY <2>5, <4>1 DEF StopAgrees, ShownListens
    <3>2. ConfirmedListens' /\ FoundIsConfirmed'
      BY <2>5 DEF TypeOK, StopAgrees, ConfirmedListens, FoundIsConfirmed
    <3> QED
      BY <3>1, <3>2 DEF StopAgrees
  <2> QED
    BY <2>3, <2>4, <2>6, <2>7, <2>9
<1>3. CASE \E t \in Tabs : Update(t)
  <2>1. PICK t \in Tabs : Update(t)
    BY <1>3
  <2> QED
    BY <2>1, EndsHolds DEF Update, TypeOK
<1>4. CASE \E id \in DOMAIN ports : delete(id)
  <2>1. PICK id \in DOMAIN ports : delete(id)
    BY <1>4
  <2>2. /\ DOMAIN ports' = DOMAIN ports \ {id} /\ \A i \in DOMAIN ports' : ports'[i] = ports[i]
        /\ requests' = requests + 1 /\ requests < MaxRequests
        /\ UNCHANGED <<lastrowid, procs, view, pc, reg, found, confirmed, late, blind, moved, twice, blinds>>
    BY <2>1 DEF delete, Requested
  <2>3. TypeOK'
    BY <2>2, PortBounds DEF TypeOK, Alive
  <2>4. RowsAgree'
    BY <2>2 DEF TypeOK, RowsAgree, Same
  <2>5. StartAgrees' /\ RequestsAgree'
    BY <2>2 DEF TypeOK, StartAgrees, RequestsAgree
  <2>6. ShownListens'
    BY <2>2, ShownHolds DEF StopAgrees
  <2>7. ConfirmedListens' /\ FoundIsConfirmed'
    BY <2>2 DEF TypeOK, StopAgrees, ConfirmedListens, FoundIsConfirmed
  <2> QED
    BY <2>3, <2>4, <2>5, <2>6, <2>7 DEF StopAgrees
<1> QED
  BY <1>1, <1>2, <1>3, <1>4

\* A request that begins, or goes on, and the list a tab reads.
LEMMA RequestStep ==
  ASSUME IInv, NEW t \in Tabs,
         \/ get_ports(t) \/ StartScan(t) \/ StopScan(t)
         \/ AlreadyRuns(t) \/ LaunchFails(t) \/ NotRunning(t) \/ KillFails(t)
         \/ \E id \in DOMAIN ports : start_port(t, id) \/ stop_port(t, id)
  PROVE  IInv'
<1> USE DEF IInv, Registry
<1>1. CASE get_ports(t)
  <2>1. PICK v \in Shown(ports) : view' = [view EXCEPT ![t] = v]
    BY <1>1 DEF get_ports
  <2>2. /\ moved' = [moved EXCEPT ![t] =
                       {p \in PortNumbers : \E n, m \in ListenIn(procs, p) : n # m}]
        /\ UNCHANGED <<ports, lastrowid, procs, pc, reg, found, confirmed, late, blind, twice, blinds>>
        /\ pc[t] = "idle" /\ requests' = requests + 1 /\ requests < MaxRequests
    BY <1>1 DEF get_ports, Requested
  <2>3. /\ DOMAIN v = DOMAIN ports
        /\ \A id \in DOMAIN ports : v[id] \in 0..Len(procs) /\ v[id] \in Listening(ports[id].port)
    BY <2>1 DEF Shown
  <2>4. TypeOK'
    BY <2>1, <2>2, <2>3, PortBounds DEF TypeOK, Alive
  <2>5. RowsAgree' /\ StartAgrees' /\ RequestsAgree'
    BY <2>2 DEF TypeOK, RowsAgree, Same, StartAgrees, RequestsAgree
  <2>6. ShownListens'
    <3> SUFFICES ASSUME NEW u \in Tabs, NEW id \in DOMAIN view'[u], id \in DOMAIN ports,
                        view'[u][id] # 0, ports[id].port \notin moved'[u]
                 PROVE  ListenIn(procs, ports[id].port) = {view'[u][id]}
      BY <2>2 DEF ShownListens
    <3>1. CASE u # t
      BY <2>1, <2>2, <3>1 DEF TypeOK, StopAgrees, ShownListens
    <3>2. CASE u = t
      <4>1. /\ view'[u][id] = v[id] /\ ports[id].port \in PortNumbers
            /\ moved'[u] = {p \in PortNumbers : \E n, m \in ListenIn(procs, p) : n # m}
        BY <2>1, <2>2, <3>2 DEF TypeOK, Row
      <4>2. v[id] \in ListenIn(procs, ports[id].port)
        BY <2>3, <4>1 DEF Listening
      <4> QED
        BY <4>1, <4>2
    <3> QED
      BY <3>1, <3>2
  <2>7. ConfirmedListens' /\ FoundIsConfirmed'
    BY <2>2 DEF TypeOK, StopAgrees, ConfirmedListens, FoundIsConfirmed
  <2> QED
    BY <2>4, <2>5, <2>6, <2>7 DEF StopAgrees
<1>2. CASE StartScan(t)
  <2>1. /\ pc[t] = "start" /\ pc' = [pc EXCEPT ![t] = "launch"] /\ blinds' \in 0..MaxBlind
        /\ \/ ListenIn(procs, reg[t].port) = {} /\ blind' = blind
           \/ blind' = [blind EXCEPT ![t] = TRUE]
        /\ UNCHANGED <<ports, lastrowid, procs, view, reg, found, confirmed, late, moved, twice, requests>>
    BY <1>2, PortBounds DEF StartScan, TypeOK
  <2>2. TypeOK'
    BY <2>1 DEF TypeOK, Alive
  <2>3. RowsAgree' /\ RequestsAgree'
    BY <2>1 DEF TypeOK, RowsAgree, Same, RequestsAgree
  <2>4. StartAgrees'
    BY <2>1 DEF TypeOK, StartAgrees
  <2>5. StopAgrees'
    BY <2>1 DEF TypeOK, StopAgrees, ShownListens, ConfirmedListens, FoundIsConfirmed
  <2> QED
    BY <2>2, <2>3, <2>4, <2>5
<1>3. CASE StopScan(t)
  <2>1. PICK n \in ListenIn(procs, reg[t].port) : found' = [found EXCEPT ![t] = n]
    BY <1>3 DEF StopScan
  <2>2. /\ pc[t] = "stop" /\ pc' = [pc EXCEPT ![t] = "kill"]
        /\ UNCHANGED <<ports, lastrowid, procs, view, reg, confirmed, late, blind, moved, twice,
                        requests, blinds>>
        /\ n \in DOMAIN procs /\ n \in Nat
    BY <1>3, <2>1 DEF StopScan, ListenIn, TypeOK
  <2>3. TypeOK'
    BY <2>1, <2>2 DEF TypeOK, Alive
  <2>4. RowsAgree' /\ StartAgrees' /\ RequestsAgree'
    BY <2>1, <2>2 DEF TypeOK, RowsAgree, Same, StartAgrees, RequestsAgree
  <2>5. ShownListens'
    BY <2>2, ShownHolds DEF StopAgrees
  <2>6. ConfirmedListens'
    BY <2>2 DEF TypeOK, StopAgrees, ConfirmedListens
  <2>7. FoundIsConfirmed'
    <3>1. reg[t].port \notin moved[t] => n = confirmed[t]
      BY <2>2 DEF StopAgrees, ConfirmedListens
    <3> QED
      BY <2>1, <2>2, <3>1 DEF TypeOK, StopAgrees, FoundIsConfirmed
  <2> QED
    BY <2>3, <2>4, <2>5, <2>6, <2>7 DEF StopAgrees
<1>4. CASE AlreadyRuns(t) \/ LaunchFails(t) \/ NotRunning(t) \/ KillFails(t)
  <2>1. Ends(t) /\ NotLate(t) /\ UNCHANGED <<table, procs, view, moved, twice, requests>>
    BY <1>4 DEF AlreadyRuns, LaunchFails, NotRunning, KillFails
  <2>2. blinds' \in 0..MaxBlind
    BY <1>4, PortBounds DEF AlreadyRuns, LaunchFails, NotRunning, KillFails, TypeOK
  <2> QED
    BY <2>1, <2>2, EndsHolds
<1>5. CASE \E id \in DOMAIN ports : start_port(t, id) \/ stop_port(t, id)
  <2>1. PICK id \in DOMAIN ports : start_port(t, id) \/ stop_port(t, id)
    BY <1>5
  <2>2. PICK w \in {"start", "stop"}, shown \in 0..Len(procs) :
          /\ Begins(t, w, ports[id], 0, shown) /\ UNCHANGED <<table, procs, view, moved, twice, blinds>>
          /\ w = "stop" => id \in DOMAIN view[t] /\ view[t][id] # 0 /\ shown = view[t][id]
    BY <2>1 DEF start_port, stop_port, TypeOK
  <2>3. /\ pc[t] = "idle" /\ pc' = [pc EXCEPT ![t] = w] /\ reg' = [reg EXCEPT ![t] = ports[id]]
        /\ found' = [found EXCEPT ![t] = 0] /\ confirmed' = [confirmed EXCEPT ![t] = shown]
        /\ requests' = requests + 1 /\ requests < MaxRequests
        /\ UNCHANGED <<ports, lastrowid, procs, view, moved, twice, blinds, late, blind>>
    BY <2>2 DEF Begins, Requested
  <2>4. ports[id] \in Row /\ shown \in Nat
    BY DEF TypeOK
  <2>5. TypeOK'
    BY <2>3, <2>4, PortBounds DEF TypeOK, Alive
  <2>6. RowsAgree' /\ StartAgrees' /\ RequestsAgree'
    BY <2>3, <2>4 DEF TypeOK, RowsAgree, Same, StartAgrees, RequestsAgree
  <2>7. ShownListens'
    BY <2>3, ShownHolds DEF StopAgrees
  <2>8. w = "stop" /\ ports[id].port \notin moved[t] => Holders(ports[id].port) = {shown}
    BY <2>2 DEF StopAgrees, ShownListens
  <2>9. ConfirmedListens'
    BY <2>3, <2>8 DEF TypeOK, StopAgrees, ConfirmedListens
  <2>10. FoundIsConfirmed'
    BY <2>3 DEF TypeOK, StopAgrees, FoundIsConfirmed
  <2> QED
    BY <2>5, <2>6, <2>7, <2>9, <2>10 DEF StopAgrees
<1> QED
  BY <1>1, <1>2, <1>3, <1>4, <1>5

\* The ports of processes: a process that starts changes nothing that is shown,
\* confirmed or found.
LEMMA StopHolds ==
  ASSUME IInv, UNCHANGED <<ports, view, moved, pc, reg, found, confirmed>>,
         \A n \in DOMAIN procs : n \in DOMAIN procs',
         \A p : ListenIn(procs', p) = ListenIn(procs, p)
  PROVE  StopAgrees'
<1>1. ShownListens'
  BY DEF IInv, Registry, StopAgrees, ShownListens
<1>2. ConfirmedListens' /\ FoundIsConfirmed'
  BY DEF IInv, Registry, StopAgrees, ConfirmedListens, FoundIsConfirmed
<1> QED
  BY <1>1, <1>2 DEF StopAgrees

\* A process moves, and every tab's list is out of date for its port.
LEMMA SeenHolds ==
  ASSUME IInv, NEW n \in DOMAIN procs, NEW q, q = procs[n].port, Seen(q),
         UNCHANGED <<ports, view, pc, reg, found, confirmed>>, DOMAIN procs' = DOMAIN procs,
         \A p : p # q => ListenIn(procs', p) = ListenIn(procs, p)
  PROVE  StopAgrees'
<1>1. \A u \in Tabs : moved'[u] = moved[u] \cup {q}
  BY DEF Seen
<1>2. ShownListens'
  <2> SUFFICES ASSUME NEW u \in Tabs, NEW id \in DOMAIN view[u], id \in DOMAIN ports,
                      view[u][id] # 0, ports[id].port \notin moved'[u]
               PROVE  ListenIn(procs', ports[id].port) = {view[u][id]}
    BY DEF ShownListens
  <2>1. ports[id].port \notin moved[u] /\ ports[id].port # q
    BY <1>1
  <2> QED
    BY <2>1 DEF IInv, Registry, StopAgrees, ShownListens
<1>3. ConfirmedListens' /\ FoundIsConfirmed'
  BY <1>1 DEF IInv, Registry, StopAgrees, ConfirmedListens, FoundIsConfirmed
<1> QED
  BY <1>2, <1>3 DEF StopAgrees

LEMMA PortOf ==
  ASSUME TypeOK, NEW n \in DOMAIN procs
  PROVE  procs[n].port \in PortNumbers
<1> DEFINE P == [pid : Pids, port : PortNumbers, life : {"starts", "listens", "gone"}]
<1>1. procs \in Seq(P)
  BY DEF TypeOK
<1> HIDE DEF P
<1>2. procs[n] \in P
  BY <1>1
<1> QED
  BY <1>2 DEF P

\* Processes start, listen and end.
LEMMA LaunchHolds ==
  ASSUME IInv, NEW t \in Tabs, Launch(t)
  PROVE  IInv'
<1> USE DEF IInv, Registry
<1>1. PICK pid \in Pids : Starts(pid, reg[t].port)
  BY DEF Launch
<1>2. /\ pc' = [pc EXCEPT ![t] = "idle"] /\ reg' = [reg EXCEPT ![t] = NoRow]
      /\ confirmed' = [confirmed EXCEPT ![t] = 0] /\ found' = [found EXCEPT ![t] = 0]
      /\ blind' = [blind EXCEPT ![t] = FALSE] /\ late' = [late EXCEPT ![t] = FALSE]
      /\ UNCHANGED <<ports, lastrowid, view, moved, twice, requests, blinds>> /\ pc[t] = "launch"
  BY DEF Launch, Ends, NotLate
<1>3. reg[t].port \in PortNumbers
  BY <1>2 DEF RequestsAgree, Row
<1>4. /\ procs' \in Seq([pid : Pids, port : PortNumbers, life : {"starts", "listens", "gone"}])
      /\ \A n, m \in DOMAIN procs' : Alive(n)' /\ Alive(m)' /\ procs'[n].pid = procs'[m].pid => n = m
      /\ Len(procs') = Len(procs) + 1 /\ Len(procs) \in Nat
      /\ \A n \in DOMAIN procs : n \in DOMAIN procs'
      /\ \A p : ListenIn(procs', p) = ListenIn(procs, p)
  BY <1>1, <1>3, StartsHolds
<1>5. TypeOK'
  <2>1. \A u \in Tabs : \A id \in DOMAIN view[u] : view[u][id] \in 0..Len(procs')
    BY <1>4 DEF TypeOK
  <2>2. /\ pc' \in [Tabs -> {"idle", "register", "start", "launch", "stop", "kill"}]
        /\ reg' \in [Tabs -> Row \cup {NoRow}] /\ found' \in [Tabs -> Nat]
        /\ confirmed' \in [Tabs -> Nat] /\ blind' \in [Tabs -> BOOLEAN] /\ late' \in [Tabs -> BOOLEAN]
    BY <1>2 DEF TypeOK
  <2>3. moved' \in [Tabs -> SUBSET PortNumbers]
    BY <1>2, <1>4 DEF TypeOK
  <2> QED
    BY <1>4, <1>2, <2>1, <2>2, <2>3 DEF TypeOK
<1>6. RowsAgree'
  BY <1>2 DEF TypeOK, RowsAgree, Same
<1>7. StartAgrees' /\ RequestsAgree'
  BY <1>2, <1>4 DEF TypeOK, StartAgrees, RequestsAgree
<1>8. ShownListens'
  BY <1>2, <1>4 DEF StopAgrees, ShownListens
<1>9. ConfirmedListens' /\ FoundIsConfirmed'
  BY <1>2, <1>4 DEF TypeOK, StopAgrees, ConfirmedListens, FoundIsConfirmed
<1> QED
  BY <1>5, <1>6, <1>7, <1>8, <1>9 DEF StopAgrees

LEMMA KillHolds ==
  ASSUME IInv, NEW t \in Tabs, Kill(t)
  PROVE  IInv'
<1> USE DEF IInv, Registry
<1>1. PICK n \in DOMAIN procs : Alive(n) /\ Gone(n) /\ Seen(procs[n].port)
  BY DEF Kill
<1>2. /\ pc' = [pc EXCEPT ![t] = "idle"] /\ reg' = [reg EXCEPT ![t] = NoRow]
      /\ confirmed' = [confirmed EXCEPT ![t] = 0] /\ found' = [found EXCEPT ![t] = 0]
      /\ blind' = [blind EXCEPT ![t] = FALSE] /\ late' = [late EXCEPT ![t] = FALSE]
      /\ UNCHANGED <<ports, lastrowid, view, twice, requests, blinds>> /\ pc[t] = "kill"
  BY DEF Kill, Ends, NotLate
<1> DEFINE q == procs[n].port
<1>3. /\ procs' \in Seq([pid : Pids, port : PortNumbers, life : {"starts", "listens", "gone"}])
      /\ \A i, m \in DOMAIN procs' : Alive(i)' /\ Alive(m)' /\ procs'[i].pid = procs'[m].pid => i = m
      /\ Len(procs') = Len(procs) /\ DOMAIN procs' = DOMAIN procs
      /\ \A p : p # q => ListenIn(procs', p) = ListenIn(procs, p)
      /\ \A p : ListenIn(procs', p) \subseteq ListenIn(procs, p)
  BY <1>1, MovesHolds DEF Gone
<1>4. q \in PortNumbers /\ moved' = [u \in Tabs |-> moved[u] \cup {q}]
  BY <1>1, PortOf DEF Seen
<1> HIDE DEF q
<1>5. TypeOK'
  <2>1. \A u \in Tabs : \A id \in DOMAIN view[u] : view[u][id] \in 0..Len(procs')
    BY <1>3 DEF TypeOK
  <2>2. /\ pc' \in [Tabs -> {"idle", "register", "start", "launch", "stop", "kill"}]
        /\ reg' \in [Tabs -> Row \cup {NoRow}] /\ found' \in [Tabs -> Nat]
        /\ confirmed' \in [Tabs -> Nat] /\ blind' \in [Tabs -> BOOLEAN] /\ late' \in [Tabs -> BOOLEAN]
    BY <1>2 DEF TypeOK
  <2>3. moved' \in [Tabs -> SUBSET PortNumbers]
    BY <1>2, <1>4 DEF TypeOK
  <2> QED
    BY <1>3, <1>2, <2>1, <2>2, <2>3 DEF TypeOK
<1>6. RowsAgree'
  BY <1>2 DEF TypeOK, RowsAgree, Same
<1>7. StartAgrees' /\ RequestsAgree'
  BY <1>2, <1>3 DEF TypeOK, StartAgrees, RequestsAgree
<1>8. ShownListens'
  <2> SUFFICES ASSUME NEW u \in Tabs, NEW id \in DOMAIN view[u], id \in DOMAIN ports,
                      view[u][id] # 0, ports[id].port \notin moved'[u]
               PROVE  ListenIn(procs', ports[id].port) = {view[u][id]}
    BY <1>2 DEF ShownListens
  <2>1. ports[id].port \notin moved[u] /\ ports[id].port # q
    BY <1>4
  <2> QED
    BY <1>3, <2>1 DEF StopAgrees, ShownListens
<1>9. ConfirmedListens' /\ FoundIsConfirmed'
  BY <1>2, <1>3, <1>4 DEF TypeOK, StopAgrees, ConfirmedListens, FoundIsConfirmed
<1> QED
  BY <1>5, <1>6, <1>7, <1>8, <1>9 DEF StopAgrees

LEMMA ProcessStep ==
  ASSUME IInv,
         \/ \E pid \in Pids, port \in PortNumbers : OtherStarts(pid, port)
         \/ \E n \in DOMAIN procs : Listens(n) \/ Exits(n)
  PROVE  IInv'
<1> USE DEF IInv, Registry
<1>1. CASE \E pid \in Pids, port \in PortNumbers : OtherStarts(pid, port)
  <2>1. PICK pid \in Pids, port \in PortNumbers : OtherStarts(pid, port)
    BY <1>1
  <2>2. UNCHANGED <<ports, lastrowid, view, pc, reg, found, confirmed, late, blind, moved, twice,
                    requests, blinds>>
    BY <2>1 DEF OtherStarts
  <2>3. /\ procs' \in Seq([pid : Pids, port : PortNumbers, life : {"starts", "listens", "gone"}])
        /\ \A n, m \in DOMAIN procs' : Alive(n)' /\ Alive(m)' /\ procs'[n].pid = procs'[m].pid => n = m
        /\ Len(procs') = Len(procs) + 1 /\ Len(procs) \in Nat
        /\ \A n \in DOMAIN procs : n \in DOMAIN procs'
        /\ \A p : ListenIn(procs', p) = ListenIn(procs, p)
    BY <2>1, StartsHolds DEF OtherStarts
  <2>4. TypeOK'
    BY <2>2, <2>3 DEF TypeOK
  <2>5. RowsAgree' /\ StartAgrees' /\ RequestsAgree'
    BY <2>2, <2>3 DEF RowsAgree, Same, StartAgrees, RequestsAgree
  <2>6. StopAgrees'
    BY <2>2, <2>3, StopHolds
  <2> QED
    BY <2>4, <2>5, <2>6
<1>2. CASE \E n \in DOMAIN procs : Listens(n)
  <2>1. PICK n \in DOMAIN procs : Listens(n)
    BY <1>2
  <2> DEFINE q == procs[n].port
  <2>2. /\ procs[n].life = "starts" /\ procs' = [procs EXCEPT ![n].life = "listens"] /\ Seen(q)
        /\ late' = [u \in Tabs |-> late[u] \/ (pc[u] = "launch" /\ reg[u].port = q)]
        /\ UNCHANGED <<ports, lastrowid, view, pc, reg, found, confirmed, blind, twice, requests, blinds>>
    BY <2>1 DEF Listens
  <2>3. /\ procs' \in Seq([pid : Pids, port : PortNumbers, life : {"starts", "listens", "gone"}])
        /\ \A i, m \in DOMAIN procs' : Alive(i)' /\ Alive(m)' /\ procs'[i].pid = procs'[m].pid => i = m
        /\ Len(procs') = Len(procs) /\ DOMAIN procs' = DOMAIN procs
        /\ \A p : p # q => ListenIn(procs', p) = ListenIn(procs, p)
    BY <2>2, MovesHolds DEF Alive
  <2>4. q \in PortNumbers /\ moved' = [u \in Tabs |-> moved[u] \cup {q}]
    BY <2>2, PortOf DEF Seen
  <2> HIDE DEF q
  <2>5. /\ late' \in [Tabs -> BOOLEAN]
        /\ \A u \in Tabs : late'[u] <=> late[u] \/ (pc[u] = "launch" /\ reg[u].port = q)
    BY <2>2, Zenon
  <2>6. TypeOK'
    BY <2>2, <2>3, <2>4, <2>5 DEF TypeOK
  <2>7. RowsAgree'
    BY <2>2, <2>5 DEF RowsAgree, Same
  <2>8. StartAgrees' /\ RequestsAgree'
    BY <2>2, <2>3, <2>5 DEF StartAgrees, RequestsAgree
  <2>9. StopAgrees'
    BY <2>2, <2>3, SeenHolds DEF q
  <2> QED
    BY <2>6, <2>7, <2>8, <2>9
<1>3. CASE \E n \in DOMAIN procs : Exits(n)
  <2>1. PICK n \in DOMAIN procs : Exits(n)
    BY <1>3
  <2> DEFINE q == procs[n].port
  <2>2. /\ Alive(n) /\ procs' = [procs EXCEPT ![n].life = "gone"] /\ Seen(q)
        /\ UNCHANGED <<ports, lastrowid, view, pc, reg, found, confirmed, late, blind, twice, requests, blinds>>
    BY <2>1 DEF Exits, Gone
  <2>3. /\ procs' \in Seq([pid : Pids, port : PortNumbers, life : {"starts", "listens", "gone"}])
        /\ \A i, m \in DOMAIN procs' : Alive(i)' /\ Alive(m)' /\ procs'[i].pid = procs'[m].pid => i = m
        /\ Len(procs') = Len(procs) /\ DOMAIN procs' = DOMAIN procs
        /\ \A p : p # q => ListenIn(procs', p) = ListenIn(procs, p)
        /\ \A p : ListenIn(procs', p) \subseteq ListenIn(procs, p)
    BY <2>2, MovesHolds
  <2>4. q \in PortNumbers /\ moved' = [u \in Tabs |-> moved[u] \cup {q}]
    BY <2>2, PortOf DEF Seen
  <2> HIDE DEF q
  <2>5. TypeOK'
    BY <2>2, <2>3, <2>4 DEF TypeOK
  <2>6. RowsAgree'
    BY <2>2 DEF RowsAgree, Same
  <2>7. StartAgrees' /\ RequestsAgree'
    BY <2>2, <2>3 DEF StartAgrees, RequestsAgree
  <2>8. StopAgrees'
    BY <2>2, <2>3, SeenHolds DEF q
  <2> QED
    BY <2>5, <2>6, <2>7, <2>8
<1> QED
  BY <1>1, <1>2, <1>3

LEMMA StepHolds == IInv /\ [Next]_vars => IInv'
<1> SUFFICES ASSUME IInv, [Next]_vars
             PROVE  IInv'
  OBVIOUS
<1>1. CASE \/ \E t \in Tabs : (\E row \in Row : register(t, row)) \/ Insert(t) \/ Update(t)
           \/ \E id \in DOMAIN ports : delete(id)
  BY <1>1, TableStep
<1>2. CASE \E t \in Tabs :
             \/ get_ports(t) \/ StartScan(t) \/ StopScan(t)
             \/ AlreadyRuns(t) \/ LaunchFails(t) \/ NotRunning(t) \/ KillFails(t)
             \/ \E id \in DOMAIN ports : start_port(t, id) \/ stop_port(t, id)
  BY <1>2, RequestStep
<1>3. CASE \E t \in Tabs : Launch(t)
  BY <1>3, LaunchHolds
<1>4. CASE \E t \in Tabs : Kill(t)
  BY <1>4, KillHolds
<1>5. CASE \/ \E pid \in Pids, port \in PortNumbers : OtherStarts(pid, port)
           \/ \E n \in DOMAIN procs : Listens(n) \/ Exits(n)
  BY <1>5, ProcessStep
<1>6. CASE UNCHANGED vars
  <2>1. TypeOK'
    BY <1>6 DEF vars, IInv, TypeOK, Alive
  <2>2. RowsAgree' /\ StartAgrees' /\ RequestsAgree'
    BY <1>6 DEF vars, IInv, Registry, RowsAgree, Same, StartAgrees, RequestsAgree
  <2>3. ShownListens'
    BY <1>6, ShownHolds DEF vars, IInv, Registry, StopAgrees
  <2>4. ConfirmedListens' /\ FoundIsConfirmed'
    BY <1>6 DEF vars, IInv, Registry, StopAgrees, ConfirmedListens, FoundIsConfirmed
  <2> QED
    BY <2>1, <2>2, <2>3, <2>4 DEF IInv, Registry, StopAgrees
<1> QED
  BY <1>1, <1>2, <1>3, <1>4, <1>5, <1>6 DEF Next

LEMMA AlwaysIInv == Spec => []IInv
  BY InitHolds, StepHolds, PTL DEF Spec

-----------------------------------------------------------------------------
\* Every variable keeps its type, and no two living processes have one pid.
THEOREM TypeCorrect == Spec => []TypeOK
<1>1. IInv => TypeOK
  BY DEF IInv
<1> QED
  BY <1>1, AlwaysIInv, PTL

\* A conflict that the screen reports is one of two projects, unless the two
\* registrations of the port overlapped (register_port looks and then inserts).
THEOREM ConflictsAreReal == Spec => []ConflictIsTwoProjects
<1>1. IInv => ConflictIsTwoProjects
  <2> SUFFICES ASSUME IInv, NEW p \in Conflicts(ports) \ twice
               PROVE  \E i, j \in DOMAIN ports :
                        ports[i].port = p /\ ports[j].port = p /\ ports[i].project # ports[j].project
    BY DEF ConflictIsTwoProjects
  <2>1. PICK i, j \in DOMAIN ports : i # j /\ ports[i].port = p /\ ports[j].port = p
    BY DEF Conflicts
  <2>2. ports[i] # ports[j]
    BY <2>1 DEF IInv, Registry, RowsAgree
  <2>3. ports[i] \in Row /\ ports[j] \in Row
    BY DEF IInv, TypeOK
  <2>4. ports[i].project # ports[j].project
    BY <2>1, <2>2, <2>3 DEF Row
  <2> QED
    BY <2>1, <2>4
<1> QED
  BY <1>1, AlwaysIInv, PTL

\* start_port puts no second server beside one that listens, unless it began
\* to listen after the scan or the scan failed.
THEOREM StartsAlone == Spec => NoSecondServer
<1>1. IInv /\ [Next]_vars =>
        [\A t \in Tabs :
           pc[t] = "launch" /\ Len(procs') > Len(procs) /\ pc'[t] = "idle"
             /\ Holders(reg[t].port) # {} => late[t] \/ blind[t]]_vars
  BY DEF IInv, Registry, StartAgrees
<1> QED
  BY <1>1, AlwaysIInv, PTL DEF Spec, NoSecondServer

\* The process that stop_port kills is the one the user confirmed, or the port
\* has seen a process begin or end listening since.
THEOREM KillsTheConfirmed == Spec => KilledAsConfirmed
<1> DEFINE Killed ==
      \A t \in Tabs, n \in DOMAIN procs :
        pc[t] = "kill" /\ pc'[t] = "idle" /\ Alive(n) /\ ~Alive(n)' =>
          n = confirmed[t] \/ reg[t].port \in moved[t]
<1>1. IInv /\ [Next]_vars => [Killed]_vars
  <2> SUFFICES ASSUME IInv, Next, NEW t \in Tabs, NEW n \in DOMAIN procs,
                      pc[t] = "kill", pc'[t] = "idle", Alive(n), ~Alive(n)', reg[t].port \notin moved[t]
               PROVE  n = confirmed[t]
    OBVIOUS
  <2>1. Kill(t)
    <3>1. ~Alive(n)' /\ Alive(n) => procs' # procs
      BY DEF Alive
    <3>2. \A u \in Tabs \ {t} : Ends(u) => pc'[t] = "kill"
      BY DEF Ends, IInv, TypeOK
    <3>3. CASE \E u \in Tabs : Launch(u)
      BY <3>2, <3>3 DEF Launch
    <3>4. CASE \E u \in Tabs : Kill(u)
      BY <3>2, <3>4 DEF Kill
    <3>5. CASE \/ \E pid \in Pids, port \in PortNumbers : OtherStarts(pid, port)
               \/ \E m \in DOMAIN procs : Listens(m) \/ Exits(m)
      BY <3>5 DEF OtherStarts, Listens, Exits
    <3> QED
      BY <3>1, <3>3, <3>4, <3>5 DEF Next, register, Insert, Update, get_ports, StartScan, AlreadyRuns,
         LaunchFails, StopScan, NotRunning, KillFails, start_port, stop_port, delete
  <2>2. PICK m \in DOMAIN procs : Alive(m) /\ procs[m].pid = procs[found[t]].pid /\ Gone(m)
    BY <2>1 DEF Kill
  <2>3. n = m
    BY <2>2 DEF Gone, Alive
  <2>4. found[t] = confirmed[t] /\ Holders(reg[t].port) = {confirmed[t]}
    BY DEF IInv, Registry, StopAgrees, FoundIsConfirmed, ConfirmedListens
  <2>5. Alive(found[t]) /\ found[t] \in DOMAIN procs
    BY <2>4 DEF ListenIn, Alive
  <2> QED
    BY <2>2, <2>3, <2>4, <2>5 DEF IInv, TypeOK
<1> QED
  BY <1>1, AlwaysIInv, PTL DEF Spec, KilledAsConfirmed
=============================================================================
