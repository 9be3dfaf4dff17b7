--------------------------- MODULE AdmissionProofs ---------------------------
(***************************************************************************)
(* Theorems about WorkerAdmission, for every number of nodes, processes,   *)
(* connections and generations.                                            *)
(***************************************************************************)
EXTENDS WorkerAdmission, TLAPS

(* A row without a generation has no process, and a route has one; the     *)
(* provider was assigned with the registration.                            *)
Held(r) ==
    /\ r.assigned
    /\ r.gen = None => r.inc = None
    /\ r.route # None => r.inc # None
    /\ r.state = "deleting" => r.inc = None

GoodRow(r) == r \in Rows /\ CheckConstraints(r) /\ Held(r)

(* The row's process belongs to its generation.                            *)
HolderCurrent(r, procs) == r.inc # None => procs[r.inc].gen = r.gen

(* The connection the row names, while it lives, is one of its process.    *)
RouteHeld(r, conns) ==
    \A c \in Conns :
        r.route = c /\ conns[c].phase # "free" => conns[c].proc = r.inc

Peopled(conns) ==
    \A c \in Conns : conns[c].phase # "free" =>
        conns[c].proc \in Processes /\ conns[c].node \in Nodes

(* A process is in the directory of its node until it begins to end.       *)
Listed ==
    \A c \in Conns : Live(c) => c \in dir[conn[c].node]

(* A send that has begun is on a route.                                    *)
Addressed(sends) ==
    /\ sends \in [Nodes -> Sends]
    /\ \A n \in Nodes : sends[n].pc # "idle" => sends[n].route \in Conns

Inv ==
    /\ GoodRow(row)
    /\ proc \in [Processes -> WorkerProcesses]
    /\ conn \in [Conns -> Channels]
    /\ dir \in [Nodes -> SUBSET Conns]
    /\ Addressed(send)
    /\ HolderCurrent(row, proc)
    /\ RouteHeld(row, conn)
    /\ Peopled(conn)
    /\ Listed

-----------------------------------------------------------------------------
(* The write actions of the row *)

USE DEF Rows, States, Beats, ConnectedStates, JoinStates

(* A connected row that loses its route stays a row the table accepts.     *)
LEMMA DisconnectGood ==
    ASSUME NEW r, GoodRow(r), CanDisconnect(r)
    PROVE  GoodRow(Disconnect(r))
<1>1. Disconnect(r) \in Rows
  BY DEF GoodRow, Disconnect, CanDisconnect
<1>2. CheckConstraints(Disconnect(r))
  BY DEF GoodRow, Disconnect, CanDisconnect, CheckConstraints, GenerationState,
         SeenWithGeneration, ProviderWithGeneration, RouteState, ReadyConnection
<1>3. Held(Disconnect(r))
  BY DEF GoodRow, Disconnect, CanDisconnect, Held
<1> QED
  BY <1>1, <1>2, <1>3 DEF GoodRow

(* So does a row that may be joined and is admitted.                       *)
LEMMA AdmitGood ==
    ASSUME NoneAssumption, NEW r, GoodRow(r), r.state \in JoinStates,
           NEW p \in Processes, NEW c \in Conns
    PROVE  GoodRow(Admit(r, p, c, 0))
<1>1. Admit(r, p, c, 0) \in Rows
  BY DEF GoodRow, Admit
<1>2. CheckConstraints(Admit(r, p, c, 0))
  BY DEF GoodRow, Admit, CheckConstraints, GenerationState, NoneAssumption,
         SeenWithGeneration, ProviderWithGeneration, RouteState, ReadyConnection
<1>3. Held(Admit(r, p, c, 0))
  BY DEF GoodRow, Admit, Held, CheckConstraints, GenerationState, NoneAssumption
<1> QED
  BY <1>1, <1>2, <1>3 DEF GoodRow

(* The heartbeat decides nothing of it.                                    *)
LEMMA BeatGood ==
    ASSUME NEW r, GoodRow(r), NEW beat \in Beats
    PROVE  GoodRow([r EXCEPT !.beat = beat])
<1> DEFINE s == [r EXCEPT !.beat = beat]
<1>1. s \in Rows
  BY DEF GoodRow
<1>2. CheckConstraints(s)
  BY DEF GoodRow, CheckConstraints, GenerationState, SeenWithGeneration,
         ProviderWithGeneration, RouteState, ReadyConnection
<1>3. Held(s)
  BY DEF GoodRow, Held
<1> QED
  BY <1>1, <1>2, <1>3 DEF GoodRow

(* A renewed heartbeat keeps it.                                           *)
LEMMA RenewGood ==
    ASSUME NEW r, GoodRow(r)
    PROVE  GoodRow(Renew(r, 0, 0))
<1>1. Renew(r, 0, 0) = [r EXCEPT !.beat = "fresh"]
  BY DEF GoodRow, Renew
<1> QED
  BY <1>1, BeatGood

(* A drain keeps it.                                                       *)
LEMMA DrainGood ==
    ASSUME NEW r, GoodRow(r), CanDrain(r),
           NEW reason \in {None, "shutdown", "replacement"}
    PROVE  GoodRow(Drain(r, reason))
<1>1. Drain(r, reason) \in Rows
  BY DEF GoodRow, Drain
<1>2. CheckConstraints(Drain(r, reason))
  BY DEF GoodRow, Drain, CanDrain, CheckConstraints, GenerationState,
         SeenWithGeneration, ProviderWithGeneration, RouteState, ReadyConnection
<1>3. Held(Drain(r, reason))
  BY DEF GoodRow, Drain, Held
<1> QED
  BY <1>1, <1>2, <1>3 DEF GoodRow

(* The end of a generation keeps it.                                       *)
LEMMA SettleGood ==
    ASSUME NEW r, GoodRow(r), r.gen # None
    PROVE  GoodRow(Settle(r, None))
<1> DEFINE s == Settle(r, None)
<1>1. s \in Rows
  BY DEF GoodRow, Settle, Cleared
<1>2. CheckConstraints(s)
  BY DEF GoodRow, Settle, Cleared, CheckConstraints, GenerationState,
         SeenWithGeneration, ProviderWithGeneration, RouteState, ReadyConnection
<1>3. Held(s)
  BY DEF GoodRow, Settle, Cleared, Held
<1> QED
  BY <1>1, <1>2, <1>3 DEF GoodRow

(* The deletion keeps it, and takes the process and its route.             *)
LEMMA MarkDeletingGood ==
    ASSUME NEW r, GoodRow(r)
    PROVE  GoodRow(MarkDeleting(r))
<1>1. MarkDeleting(r) \in Rows
  BY DEF GoodRow, MarkDeleting
<1>2. CheckConstraints(MarkDeleting(r))
  BY DEF GoodRow, MarkDeleting, CheckConstraints, GenerationState,
         SeenWithGeneration, ProviderWithGeneration, RouteState, ReadyConnection
<1>3. Held(MarkDeleting(r))
  BY DEF GoodRow, MarkDeleting, Held
<1> QED
  BY <1>1, <1>2, <1>3 DEF GoodRow

(* A generation begins on a row with neither.                              *)
LEMMA BeginGenerationGood ==
    ASSUME NoneAssumption, NEW r, GoodRow(r), r.state = "absent",
           NEW g \in Generations
    PROVE  GoodRow(BeginGeneration(r, g))
<1>1. r.gen = None /\ r.inc = None /\ r.route = None /\ r.assigned
  BY DEF GoodRow, Held, CheckConstraints, GenerationState
<1>2. BeginGeneration(r, g) \in Rows
  BY DEF GoodRow, BeginGeneration
<1>3. CheckConstraints(BeginGeneration(r, g))
  BY <1>1 DEF GoodRow, BeginGeneration, CheckConstraints, GenerationState,
         NoneAssumption, SeenWithGeneration, ProviderWithGeneration,
         RouteState, ReadyConnection
<1>4. Held(BeginGeneration(r, g))
  BY <1>1 DEF GoodRow, BeginGeneration, Held
<1> QED
  BY <1>2, <1>3, <1>4 DEF GoodRow

-----------------------------------------------------------------------------
(* Steps that only take things away *)

(* The row keeps its generation, process and route, or loses the route, or *)
(* loses process and route.                                                *)
RowKeeps ==
    /\ GoodRow(row')
    /\ \/ /\ row'.gen = row.gen /\ row'.inc = row.inc
          /\ row'.route \in {row.route, None}
       \/ row'.inc = None /\ row'.route = None

ProcKeeps ==
    /\ proc' \in [Processes -> WorkerProcesses]
    /\ \A p \in Processes : proc'[p].gen = proc[p].gen

(* No Channel process appears, changes hands, or comes to life again.      *)
ConnKeeps ==
    /\ conn' \in [Conns -> Channels]
    /\ \A c \in Conns :
         \/ conn'[c].phase = "free"
         \/ /\ conn[c].phase # "free"
            /\ conn'[c].proc = conn[c].proc /\ conn'[c].node = conn[c].node
            /\ Live(c)' => Live(c)

DirKeeps ==
    /\ dir' \in [Nodes -> SUBSET Conns]
    /\ \A c \in Conns :
         Live(c)' /\ c \in dir[conn[c].node] => c \in dir'[conn[c].node]

(* Such a step of every part keeps the invariant.                          *)
LEMMA QuietStep ==
    ASSUME Inv, RowKeeps, ProcKeeps, ConnKeeps, DirKeeps,
           Addressed(send')
    PROVE  Inv'
<1>1. HolderCurrent(row, proc)'
  BY DEF Inv, GoodRow, HolderCurrent, RowKeeps, ProcKeeps
<1>2. RouteHeld(row, conn)'
  <2> SUFFICES ASSUME NEW c \in Conns, row'.route = c,
                      conn'[c].phase # "free"
               PROVE  conn'[c].proc = row'.inc
    BY DEF RouteHeld
  <2>1. c # None
    BY NoneAssumption DEF NoneAssumption
  <2> QED
    BY <2>1 DEF Inv, RouteHeld, RowKeeps, ConnKeeps
<1>3. Peopled(conn)'
  BY DEF Inv, Peopled, ConnKeeps
<1>4. Listed'
  <2> SUFFICES ASSUME NEW c \in Conns, Live(c)'
               PROVE  c \in dir'[conn'[c].node]
    BY DEF Listed
  <2>1. conn'[c].phase # "free"
    BY DEF Live
  <2> QED
    BY <2>1 DEF Inv, Listed, ConnKeeps, DirKeeps
<1> QED
  BY <1>1, <1>2, <1>3, <1>4 DEF Inv, RowKeeps, ProcKeeps, ConnKeeps, DirKeeps

(* What leaves the row, the processes, the Channels or the directory alone *)
(* keeps them.                                                             *)
LEMMA Unchanged ==
    ASSUME Inv
    PROVE  /\ row' = row => RowKeeps
           /\ proc' = proc => ProcKeeps
           /\ conn' = conn => ConnKeeps
           /\ dir' = dir => DirKeeps
           /\ send' = send => Addressed(send')
BY DEF Inv, RowKeeps, ProcKeeps, ConnKeeps, DirKeeps, Live

(* A lost route is one.                                                    *)
LEMMA DisconnectKeeps ==
    ASSUME Inv, row.state \in ConnectedStates, row' = Disconnect(row)
    PROVE  RowKeeps
<1>1. GoodRow(row')
  BY DisconnectGood DEF Inv, CanDisconnect
<1> QED
  BY <1>1 DEF Inv, GoodRow, Disconnect, RowKeeps

(* So is MarkRouteUnusable, whoever takes it.                              *)
LEMMA MarkKeeps ==
    ASSUME Inv, NEW c \in Conns, MarkRouteUnusable(c)
    PROVE  RowKeeps
<1>1. CASE row.route = c
  <2>1. row.state \in ConnectedStates
    BY <1>1, NoneAssumption
    DEF Inv, GoodRow, CheckConstraints, RouteState, NoneAssumption
  <2> QED
    BY <1>1, <2>1, DisconnectKeeps DEF MarkRouteUnusable
<1>2. CASE row.route # c
  BY <1>2, Unchanged DEF MarkRouteUnusable
<1> QED
  BY <1>1, <1>2

(* One Channel takes a step that neither revives nor moves it.             *)
LEMMA PhaseKeeps ==
    ASSUME Inv, NEW c \in Conns, conn[c].phase # "free",
           NEW new \in Channels, conn' = [conn EXCEPT ![c] = new],
           \/ new.phase = "free"
           \/ /\ new.proc = conn[c].proc /\ new.node = conn[c].node
              /\ new.phase \in {"admitted", "open"} => Live(c)
              /\ new.phase # "tracked"
    PROVE  ConnKeeps
<1> SUFFICES ASSUME NEW d \in Conns
             PROVE  \/ conn'[d].phase = "free"
                    \/ /\ conn[d].phase # "free"
                       /\ conn'[d].proc = conn[d].proc
                       /\ conn'[d].node = conn[d].node
                       /\ Live(d)' => Live(d)
                    \/ conn'[d] = conn[d]
  BY DEF Inv, ConnKeeps, Live
<1>1. CASE d = c
  BY <1>1 DEF Inv, Live
<1>2. CASE d # c
  BY <1>2 DEF Inv, Live
<1> QED
  BY <1>1, <1>2

(* A Worker that loses its channel stays the process of its generation.    *)
LEMMA LoseKeeps ==
    ASSUME Inv, NEW c \in Conns, NEW socket \in BOOLEAN,
           LoseChannel(c, socket)
    PROVE  ProcKeeps
BY DEF Inv, LoseChannel, ProcKeeps, WorkerProcesses

(* A message to close changes nothing of the Channels but their mailboxes. *)
LEMMA CloseKeeps ==
    ASSUME Inv, NEW n \in Nodes, NEW c \in Conns,
           NEW table \in [Conns -> Channels]
    PROVE  /\ CloseConnection(table, n, c) \in [Conns -> Channels]
           /\ \A d \in Conns :
                /\ CloseConnection(table, n, c)[d].phase = table[d].phase
                /\ CloseConnection(table, n, c)[d].proc = table[d].proc
                /\ CloseConnection(table, n, c)[d].node = table[d].node
BY DEF CloseConnection, Channels

-----------------------------------------------------------------------------
(* The Worker process *)

(* A process that starts holds no row and no Channel yet.                  *)
LEMMA StartsKeeps ==
    ASSUME Inv, NEW p \in Processes, ProcessStarts(p)
    PROVE  Inv'
<1> USE DEF Inv
<1>1. row' = row /\ conn' = conn /\ dir' = dir /\ send' = send
  BY DEF ProcessStarts
<1>2. proc' \in [Processes -> WorkerProcesses]
  BY DEF ProcessStarts, WorkerProcesses, GoodRow
<1>3. HolderCurrent(row, proc)'
  <2>1. row.inc # p
    BY DEF ProcessStarts, FreshProcesses
  <2>2. row.inc # None => row.inc \in Processes
    BY DEF GoodRow
  <2> QED
    BY <1>1, <2>1, <2>2 DEF HolderCurrent, ProcessStarts
<1> QED
  BY <1>1, <1>2, <1>3 DEF RouteHeld, Peopled, Listed, Live

(* Nor does one that dies, connects or drops its socket change anything.   *)
LEMMA WorkerQuiet ==
    ASSUME Inv, NEW p \in Processes,
           \/ ProcessDies(p) \/ Drop(p) \/ \E n \in Nodes : Connect(p, n)
    PROVE  Inv'
<1>1. row' = row /\ conn' = conn /\ dir' = dir /\ send' = send
  BY DEF ProcessDies, Drop, Connect
<1>2. ProcKeeps
  <2>1. CASE ProcessDies(p) \/ Drop(p)
    <3>1. PICK q \in WorkerProcesses :
             q.gen = proc[p].gen /\ proc' = [proc EXCEPT ![p] = q]
      <4>1. CASE ProcessDies(p)
        <5>1. Dead(p) \in WorkerProcesses /\ Dead(p).gen = proc[p].gen
          BY DEF Inv, WorkerProcesses, Dead
        <5> QED
          BY <4>1, <5>1 DEF ProcessDies
      <4>2. CASE Drop(p)
        <5> DEFINE q == [proc[p] EXCEPT !.sock = None, !.conn = None]
        <5>1. q \in WorkerProcesses /\ q.gen = proc[p].gen
          BY DEF Inv, WorkerProcesses
        <5>2. proc' = [proc EXCEPT ![p] = q]
          BY <4>2 DEF Inv, Drop
        <5> HIDE DEF q
        <5> QED
          BY <5>1, <5>2
      <4> QED
        BY <2>1, <4>1, <4>2
    <3> QED
      BY <3>1 DEF Inv, ProcKeeps
  <2>2. CASE \E n \in Nodes : Connect(p, n)
    BY <2>2 DEF Inv, ProcKeeps, WorkerProcesses, Connect
  <2> QED
    BY <2>1, <2>2
<1> QED
  BY <1>1, <1>2, Unchanged, QuietStep

(* A heartbeat is a message.                                               *)
LEMMA SendBeatKeeps ==
    ASSUME Inv, NEW p \in Processes, SendBeat(p)
    PROVE  Inv' /\ ConnKeeps
<1>1. row' = row /\ proc' = proc /\ dir' = dir /\ send' = send
  BY DEF SendBeat
<1>2. ConnKeeps
  <2> DEFINE c == proc[p].conn
  <2>1. /\ c \in Conns /\ conn[c].phase = "open"
        /\ conn' = [conn EXCEPT ![c] = [conn[c] EXCEPT !.beat = TRUE]]
    BY DEF Inv, SendBeat, WorkerProcesses
  <2> HIDE DEF c
  <2>2. [conn[c] EXCEPT !.beat = TRUE] \in Channels
    BY <2>1 DEF Inv, Channels
  <2>3. /\ [conn[c] EXCEPT !.beat = TRUE].proc = conn[c].proc
        /\ [conn[c] EXCEPT !.beat = TRUE].node = conn[c].node
        /\ [conn[c] EXCEPT !.beat = TRUE].phase = "open"
        /\ Live(c)
    BY <2>1 DEF Inv, Channels, Live
  <2> QED
    BY <2>1, <2>2, <2>3, PhaseKeeps
<1> QED
  BY <1>1, <1>2, Unchanged, QuietStep

(* A Channel that starts is in the directory of its node and not yet on    *)
(* the row.                                                                *)
LEMMA JoinKeeps ==
    ASSUME Inv, NEW p \in Processes, NEW c \in Conns, JoinChannel(p, c)
    PROVE  Inv'
<1> USE DEF Inv
<1> DEFINE n == proc[p].sock
           new == [NoConn EXCEPT !.phase = "tracked", !.proc = p, !.node = n]
<1>1. row' = row /\ send' = send /\ n \in Nodes
  BY DEF JoinChannel, WorkerProcesses
<1>2. ProcKeeps
  BY DEF ProcKeeps, JoinChannel, WorkerProcesses
<1>3. /\ new.phase = "tracked" /\ new.proc = p /\ new.node = n
      /\ new \in Channels
  BY <1>1 DEF NoConn, Channels, Phases
<1>4. conn' = [conn EXCEPT ![c] = new]
  BY DEF JoinChannel
<1> HIDE DEF new
<1>5. row.route # c
  BY DEF JoinChannel, FreshConns
<1>6. RouteHeld(row, conn)'
  BY <1>1, <1>4, <1>5 DEF RouteHeld
<1>7. Peopled(conn)'
  BY <1>1, <1>3, <1>4 DEF Peopled
<1>8. dir' = [dir EXCEPT ![n] = @ \cup {c}]
  BY DEF JoinChannel, Track
<1>9. Listed'
  <2> SUFFICES ASSUME NEW d \in Conns, Live(d)'
               PROVE  d \in dir'[conn'[d].node]
    BY DEF Listed
  <2>1. CASE d = c
    BY <2>1, <1>1, <1>3, <1>4, <1>8
  <2>2. CASE d # c
    <3>1. conn'[d] = conn[d] /\ Live(d)
      BY <2>2, <1>4 DEF Live
    <3>2. d \in dir[conn[d].node] /\ conn[d].node \in Nodes
      BY <3>1 DEF Listed, Peopled, Live
    <3> QED
      BY <3>1, <3>2, <1>8
  <2> QED
    BY <2>1, <2>2
<1>10. HolderCurrent(row, proc)'
  BY <1>1, <1>2 DEF HolderCurrent, ProcKeeps, GoodRow
<1> QED
  BY <1>1, <1>2, <1>3, <1>4, <1>6, <1>7, <1>8, <1>9, <1>10 DEF ProcKeeps

-----------------------------------------------------------------------------
(* The Channel process *)

(* The row turns to the process and connection that are admitted, which    *)
(* belong together and to the row's generation.                            *)
LEMMA AdmitKeeps ==
    ASSUME Inv, NEW c \in Conns, AdmitJoin(c)
    PROVE  Inv' /\ ConnKeeps
<1> USE DEF Inv
<1> DEFINE p == conn[c].proc
           new == [conn[c] EXCEPT !.phase = "admitted", !.replaced = row.route]
<1>1. /\ proc' = proc /\ dir' = dir /\ send' = send
      /\ conn' = [conn EXCEPT ![c] = new]
      /\ row' = Admit(row, p, c, 0)
  BY DEF AdmitJoin
<1>2. conn[c].phase = "tracked" /\ p \in Processes
      /\ proc[p].gen = row.gen /\ row.state \in JoinStates
  BY DEF AdmitJoin, Admissible, CanAdmit, Peopled
<1>3. GoodRow(row')
  BY <1>1, <1>2, AdmitGood, NoneAssumption
<1>4. row'.inc = p /\ row'.route = c /\ row'.gen = row.gen
  BY <1>1 DEF Admit, GoodRow
<1>5. /\ new \in Channels /\ new.phase = "admitted"
      /\ new.proc = p /\ new.node = conn[c].node
  <2>1. row.route \in Conns \cup {None} /\ conn[c] \in Channels
    BY DEF GoodRow
  <2> QED
    BY <2>1 DEF Channels, Phases
<1> HIDE DEF new, p
<1>6. ConnKeeps
  BY <1>1, <1>2, <1>5, PhaseKeeps DEF Live, p
<1>7. HolderCurrent(row, proc)'
  BY <1>1, <1>2, <1>4 DEF HolderCurrent
<1>8. RouteHeld(row, conn)'
  BY <1>1, <1>4, <1>5 DEF RouteHeld
<1>9. Peopled(conn)'
  BY <1>6 DEF ConnKeeps, Peopled
<1>10. Listed'
  BY <1>1, <1>6 DEF ConnKeeps, Listed, Live
<1> QED
  BY <1>1, <1>3, <1>6, <1>7, <1>8, <1>9, <1>10 DEF ConnKeeps

(* A Channel that ends, at any point, leaves nothing to keep.              *)
LEMMA RefuseKeeps ==
    ASSUME Inv, NEW c \in Conns, RefuseJoin(c)
    PROVE  Inv' /\ ConnKeeps
<1>1. row' = row /\ dir' = dir /\ send' = send
  BY DEF RefuseJoin
<1>2. ProcKeeps
  BY LoseKeeps DEF RefuseJoin
<1>3. ConnKeeps
  <2>1. NoConn \in Channels /\ NoConn.phase = "free"
    BY DEF NoConn, Channels, Phases
  <2>2. conn[c].phase # "free" /\ conn' = [conn EXCEPT ![c] = NoConn]
    BY DEF RefuseJoin
  <2> QED
    BY <2>1, <2>2, PhaseKeeps
<1> QED
  BY <1>1, <1>2, <1>3, Unchanged, QuietStep

(* An admitted Channel opens, and tells the one it replaced to close.      *)
LEMMA PublishKeeps ==
    ASSUME Inv, NEW c \in Conns, PublishAdmission(c)
    PROVE  Inv' /\ ConnKeeps
<1>1. row' = row /\ proc' = proc /\ dir' = dir /\ send' = send
  BY DEF PublishAdmission
<1> DEFINE new == [conn[c] EXCEPT !.phase = "open", !.replaced = None]
           opened == [conn EXCEPT ![c] = new]
<1>2. conn[c].phase = "admitted"
  BY DEF PublishAdmission
<1>3. /\ new \in Channels /\ new.phase = "open"
      /\ new.proc = conn[c].proc /\ new.node = conn[c].node
  BY DEF Inv, Channels, Phases
<1>4. opened \in [Conns -> Channels]
  BY <1>3 DEF Inv
<1>5. conn' = opened
      \/ \E d \in Conns : conn' = CloseConnection(opened, conn[c].node, d)
  BY DEF Inv, PublishAdmission, Channels
<1>6. conn[c].node \in Nodes
  BY <1>2 DEF Inv, Peopled
<1>7. /\ conn' \in [Conns -> Channels]
      /\ \A d \in Conns : /\ conn'[d].phase = opened[d].phase
                           /\ conn'[d].proc = opened[d].proc
                           /\ conn'[d].node = opened[d].node
  <2> HIDE DEF opened
  <2> QED
    BY <1>4, <1>5, <1>6, CloseKeeps
<1> HIDE DEF new
<1>8. ConnKeeps
  <2> SUFFICES ASSUME NEW d \in Conns, conn'[d].phase # "free"
               PROVE  /\ conn[d].phase # "free"
                      /\ conn'[d].proc = conn[d].proc
                      /\ conn'[d].node = conn[d].node
                      /\ Live(d)' => Live(d)
    BY <1>7 DEF ConnKeeps
  <2>1. CASE d = c
    BY <2>1, <1>2, <1>3, <1>7 DEF Inv, Live
  <2>2. CASE d # c
    BY <2>2, <1>7 DEF Inv, Live
  <2> QED
    BY <2>1, <2>2
<1> QED
  BY <1>1, <1>8, Unchanged, QuietStep

(* A heartbeat is recorded, or the refused Channel begins to close.        *)
LEMMA BeatKeeps ==
    ASSUME Inv, NEW c \in Conns, HandleBeat(c)
    PROVE  Inv' /\ ConnKeeps
<1> DEFINE heard == [conn[c] EXCEPT !.beat = FALSE]
           left == [conn[c] EXCEPT !.beat = FALSE, !.phase = "closing"]
<1>1. conn[c].phase = "open" /\ dir' = dir /\ send' = send
  BY DEF HandleBeat
<1>2. /\ heard \in Channels /\ left \in Channels
      /\ heard.phase = "open" /\ left.phase = "closing"
      /\ heard.proc = conn[c].proc /\ left.proc = conn[c].proc
      /\ heard.node = conn[c].node /\ left.node = conn[c].node
  BY <1>1 DEF Inv, Channels, Phases
<1>3. conn' = [conn EXCEPT ![c] = heard] \/ conn' = [conn EXCEPT ![c] = left]
  <2>1. CASE CanRenew(row, conn[c].proc, c)
    BY <2>1 DEF Inv, Channels, HandleBeat
  <2>2. CASE ~CanRenew(row, conn[c].proc, c) /\ proc[conn[c].proc].conn = c
    BY <2>2 DEF Inv, Channels, HandleBeat, Refused
  <2>3. CASE ~CanRenew(row, conn[c].proc, c) /\ proc[conn[c].proc].conn # c
    BY <2>3 DEF Inv, Channels, HandleBeat, Refused
  <2> QED
    BY <2>1, <2>2, <2>3
<1> HIDE DEF heard, left
<1>4. ConnKeeps
  BY <1>1, <1>2, <1>3, PhaseKeeps DEF Live
<1>5. RowKeeps /\ ProcKeeps
  <2>1. CASE CanRenew(row, conn[c].proc, c)
    <3>1. row' = Renew(row, 0, 0) /\ proc' = proc
      BY <2>1 DEF HandleBeat
    <3>2. GoodRow(row')
      BY <3>1, RenewGood DEF Inv
    <3> QED
      BY <3>1, <3>2, Unchanged DEF Inv, GoodRow, Renew, RowKeeps
  <2>2. CASE ~CanRenew(row, conn[c].proc, c)
    <3>1. row' = row /\ LoseChannel(c, FALSE)
      BY <2>2 DEF HandleBeat, Refused
    <3> QED
      BY <3>1, Unchanged, LoseKeeps
  <2> QED
    BY <2>1, <2>2
<1> QED
  BY <1>1, <1>4, <1>5, Unchanged, QuietStep

(* The shutdown of a Worker drains its row.                                *)
LEMMA ShutdownKeeps ==
    ASSUME Inv, NEW c \in Conns, HandleShutdown(c)
    PROVE  Inv'
<1>1. proc' = proc /\ conn' = conn /\ dir' = dir /\ send' = send
  BY DEF HandleShutdown
<1>2. RowKeeps
  <2> DEFINE reason == IF row.drain = None THEN "shutdown" ELSE row.drain
  <2>1. row' = Drain(row, reason) /\ CanDrain(row)
    BY DEF HandleShutdown, CanDrain
  <2>2. reason \in {None, "shutdown", "replacement"}
    BY DEF Inv, GoodRow
  <2> HIDE DEF reason
  <2>3. GoodRow(row')
    BY <2>1, <2>2, DrainGood DEF Inv
  <2> QED
    BY <2>1, <2>3 DEF Inv, GoodRow, Drain, RowKeeps
<1> QED
  BY <1>1, <1>2, Unchanged, QuietStep

(* A Channel that closes for its row, its peer or itself is alive no more. *)
LEMMA CloseBegins ==
    ASSUME Inv, NEW c \in Conns, HandleClose(c) \/ TransportCloses(c)
    PROVE  Inv' /\ ConnKeeps
<1> DEFINE new == [conn[c] EXCEPT !.phase = "closing"]
<1>1. /\ row' = row /\ dir' = dir /\ send' = send
      /\ conn[c].phase = "open"
  BY DEF HandleClose, TransportCloses
<1>2. conn' = [conn EXCEPT ![c] = new]
  BY DEF Inv, HandleClose, TransportCloses
<1>3. /\ new \in Channels /\ new.phase = "closing"
      /\ new.proc = conn[c].proc /\ new.node = conn[c].node
  BY DEF Inv, Channels, Phases
<1> HIDE DEF new
<1>4. ConnKeeps
  BY <1>1, <1>2, <1>3, PhaseKeeps
<1>5. ProcKeeps
  BY LoseKeeps, Unchanged DEF HandleClose, TransportCloses
<1> QED
  BY <1>1, <1>4, <1>5, Unchanged, QuietStep

(* It leaves the directory only then.                                      *)
LEMMA UntrackKeeps ==
    ASSUME Inv, NEW c \in Conns, Untrack(c)
    PROVE  Inv' /\ ConnKeeps
<1> DEFINE new == [conn[c] EXCEPT !.phase = "ending"]
           n == conn[c].node
<1>1. /\ row' = row /\ proc' = proc /\ send' = send
      /\ conn[c].phase = "closing"
      /\ conn' = [conn EXCEPT ![c] = new]
      /\ dir' = [dir EXCEPT ![n] = @ \ {c}]
  BY DEF Untrack
<1>2. /\ new \in Channels /\ new.phase = "ending"
      /\ new.proc = conn[c].proc /\ new.node = n
  BY DEF Inv, Channels, Phases
<1>3. n \in Nodes
  BY <1>1 DEF Inv, Peopled
<1> HIDE DEF new
<1>4. ConnKeeps
  BY <1>1, <1>2, PhaseKeeps
<1>5. ~Live(c)'
  BY <1>1, <1>2 DEF Inv, Live
<1>6. DirKeeps
  BY <1>1, <1>3, <1>5 DEF Inv, DirKeeps
<1> QED
  BY <1>1, <1>4, <1>6, Unchanged, QuietStep

(* The end of a Channel takes its own route from the row, no other.        *)
LEMMA TerminateKeeps ==
    ASSUME Inv, NEW c \in Conns, Terminate(c)
    PROVE  Inv' /\ ConnKeeps
<1>1. proc' = proc /\ dir' = dir /\ send' = send
  BY DEF Terminate
<1>2. RowKeeps
  BY MarkKeeps DEF Terminate
<1>3. ConnKeeps
  <2>1. NoConn \in Channels /\ NoConn.phase = "free"
    BY DEF NoConn, Channels, Phases
  <2>2. conn[c].phase # "free" /\ conn' = [conn EXCEPT ![c] = NoConn]
    BY DEF Terminate
  <2> QED
    BY <2>1, <2>2, PhaseKeeps
<1> QED
  BY <1>1, <1>2, <1>3, Unchanged, QuietStep

-----------------------------------------------------------------------------
(* The nodes *)

(* An entry travels, or is dropped once the connection's node dropped it.  *)
LEMMA DirectoryQuiet ==
    ASSUME Inv, NEW n \in Nodes, NEW c \in Conns,
           DirectoryLearns(n, c) \/ DirectoryForgets(n, c)
    PROVE  Inv'
<1>1. row' = row /\ proc' = proc /\ conn' = conn /\ send' = send
  BY DEF DirectoryLearns, DirectoryForgets
<1>2. DirKeeps
  <2>1. dir' \in [Nodes -> SUBSET Conns]
    BY DEF Inv, DirectoryLearns, DirectoryForgets
  <2>2. ASSUME NEW d \in Conns, Live(d)', d \in dir[conn[d].node]
        PROVE  d \in dir'[conn[d].node]
    <3>1. conn[d].node \in Nodes /\ conn[d].phase # "free"
      BY <1>1, <2>2 DEF Inv, Peopled, Live
    <3>2. CASE DirectoryLearns(n, c)
      BY <3>1, <3>2, <2>2 DEF Inv, DirectoryLearns
    <3>3. CASE DirectoryForgets(n, c)
      BY <3>1, <3>3, <2>2 DEF Inv, DirectoryForgets
    <3> QED
      BY <3>2, <3>3
  <2> QED
    BY <2>1, <2>2 DEF DirKeeps
<1> QED
  BY <1>1, <1>2, Unchanged, QuietStep

(* A node that stops takes its Channels, its directory and its send.       *)
LEMMA CrashKeeps ==
    ASSUME Inv, NEW n \in Nodes, NodeCrashes(n)
    PROVE  Inv' /\ ConnKeeps
<1>1. row' = row
  BY DEF NodeCrashes
<1>2. ProcKeeps
  BY DEF Inv, ProcKeeps, WorkerProcesses, NodeCrashes
<1>3. ConnKeeps
  <2>1. NoConn \in Channels /\ NoConn.phase = "free"
    BY DEF NoConn, Channels, Phases
  <2> QED
    BY <2>1 DEF Inv, ConnKeeps, NodeCrashes, Live
<1>4. DirKeeps
  <2>1. dir' = [dir EXCEPT ![n] = {}] /\ dir' \in [Nodes -> SUBSET Conns]
    BY DEF Inv, NodeCrashes
  <2>2. \A c \in Conns : Live(c)' => conn[c].node # n /\ conn[c].node \in Nodes
    BY DEF Inv, NodeCrashes, NoConn, Live, Peopled
  <2> QED
    BY <2>1, <2>2 DEF Inv, DirKeeps
<1>5. Addressed(send')
  BY DEF Inv, Addressed, NodeCrashes, NoSend, Sends
<1> QED
  BY <1>1, <1>2, <1>3, <1>4, <1>5, Unchanged, QuietStep

(* The sweep's expiry disconnects the row and tells the Channel.           *)
LEMMA ExpireKeeps ==
    ASSUME Inv, NEW n \in Nodes, Expire(n)
    PROVE  Inv' /\ ConnKeeps
<1>1. proc' = proc /\ dir' = dir /\ send' = send
  BY DEF Expire
<1>2. RowKeeps
  BY DisconnectKeeps DEF Expire, Silent
<1>3. ConnKeeps
  <2>1. row.route \in Conns
    BY DEF Inv, GoodRow, Expire, Silent
  <2>2. conn' = CloseConnection(conn, n, row.route)
    BY DEF Expire
  <2>3. /\ conn' \in [Conns -> Channels]
        /\ \A d \in Conns : /\ conn'[d].phase = conn[d].phase
                             /\ conn'[d].proc = conn[d].proc
                             /\ conn'[d].node = conn[d].node
    BY <2>1, <2>2, CloseKeeps DEF Inv
  <2> QED
    BY <2>3 DEF ConnKeeps, Live
<1> QED
  BY <1>1, <1>2, <1>3, Unchanged, QuietStep

-----------------------------------------------------------------------------
(* The sends and the reconcile jobs *)

(* A send only moves its own program counter, until it marks the route.    *)
LEMMA SendKeeps ==
    ASSUME Inv, NEW n \in Nodes, SendStarts(n) \/ SendStep(n)
    PROVE  Inv'
<1>1. proc' = proc /\ conn' = conn /\ dir' = dir
  BY DEF SendStarts, SendStep, LookUp, CheckFence, CallChannel, MarkAfterSend
<1>2. RowKeeps
  <2>1. CASE MarkAfterSend(n)
    <3>1. send[n].route \in Conns
      BY <2>1 DEF Inv, Addressed, MarkAfterSend
    <3> QED
      BY <2>1, <3>1, MarkKeeps DEF MarkAfterSend
  <2>2. CASE ~MarkAfterSend(n)
    <3>1. row' = row
      BY <2>2 DEF SendStarts, SendStep, LookUp, CheckFence, CallChannel
    <3> QED
      BY <3>1, Unchanged
  <2> QED
    BY <2>1, <2>2
<1>3. Addressed(send')
  <2>1. CASE SendStarts(n)
    BY <2>1, NoneAssumption
    DEF Inv, GoodRow, Addressed, Sends, SendStarts
  <2>2. CASE \E pc \in {"fence", "call", "mark"} :
               send[n].pc # "idle" /\ Step(n, pc)
    BY <2>2 DEF Inv, Addressed, Sends, Step
  <2>3. CASE Done(n)
    BY <2>3 DEF Inv, Addressed, Sends, Done, NoSend
  <2> QED
    BY <2>1, <2>2, <2>3
    DEF SendStep, LookUp, CheckFence, CallChannel, MarkAfterSend
<1> QED
  BY <1>1, <1>2, <1>3, Unchanged, QuietStep

(* A generation begins on a row without process and route.                 *)
LEMMA BeginKeeps ==
    ASSUME Inv, BeginNext
    PROVE  Inv'
<1>1. proc' = proc /\ conn' = conn /\ dir' = dir /\ send' = send
  BY DEF BeginNext
<1>2. PICK g \in Generations : row' = BeginGeneration(row, g)
  BY DEF BeginNext, FreshGenerations
<1>3. row.state = "absent" /\ row.inc = None /\ row.route = None
  BY DEF Inv, BeginNext, CanBeginGeneration, GoodRow, Held, CheckConstraints,
         GenerationState
<1>4. GoodRow(row')
  BY <1>2, <1>3, BeginGenerationGood, NoneAssumption DEF Inv
<1>5. row'.inc = None /\ row'.route = None
  BY <1>2, <1>3 DEF Inv, GoodRow, BeginGeneration
<1> QED
  BY <1>1, <1>4, <1>5, Unchanged, QuietStep DEF RowKeeps

(* The other reconcile steps end a connection or a generation.             *)
LEMMA ReconcileKeeps ==
    ASSUME Inv, DrainWorker \/ SettleGeneration \/ DeleteWorker
    PROVE  Inv'
<1>1. proc' = proc /\ conn' = conn /\ dir' = dir /\ send' = send
  BY DEF DrainWorker, SettleGeneration, DeleteWorker
<1>2. RowKeeps
  <2>1. CASE DrainWorker
    <3>1. row' = Drain(row, "replacement") /\ GoodRow(row')
      BY <2>1, DrainGood DEF Inv, DrainWorker
    <3> QED
      BY <3>1 DEF Inv, GoodRow, Drain, RowKeeps
  <2>2. CASE SettleGeneration
    <3>1. row' = Settle(row, None) /\ GoodRow(row')
      BY <2>2, SettleGood DEF Inv, SettleGeneration
    <3>2. /\ Cleared(row, None).route = None
          /\ Cleared(row, None) \in Rows
      BY DEF Inv, GoodRow, Cleared
    <3>3. row'.inc = None /\ row'.route = None
      BY <3>1, <3>2 DEF Settle
    <3> QED
      BY <3>1, <3>3 DEF RowKeeps
  <2>3. CASE DeleteWorker
    <3>1. row' = MarkDeleting(row) /\ GoodRow(row')
      BY <2>3, MarkDeletingGood DEF Inv, DeleteWorker
    <3> QED
      BY <3>1 DEF Inv, GoodRow, MarkDeleting, RowKeeps
  <2> QED
    BY <2>1, <2>2, <2>3
<1> QED
  BY <1>1, <1>2, Unchanged, QuietStep

(* Time passes without a heartbeat.                                        *)
LEMMA AgeKeeps ==
    ASSUME Inv, BeatAges
    PROVE  Inv'
<1>1. proc' = proc /\ conn' = conn /\ dir' = dir /\ send' = send
  BY DEF BeatAges
<1>2. row' = [row EXCEPT !.beat = "old"] /\ GoodRow(row')
  BY BeatGood DEF Inv, BeatAges
<1>3. RowKeeps
  BY <1>2 DEF Inv, GoodRow, RowKeeps
<1> QED
  BY <1>1, <1>3, Unchanged, QuietStep

-----------------------------------------------------------------------------
(* A Worker registers without a generation, and nothing is connected.      *)
LEMMA InitInv == Init => Inv
<1> SUFFICES ASSUME Init
             PROVE  Inv
  OBVIOUS
<1>1. GoodRow(row)
  BY DEF Init, Register, GoodRow, Held, CheckConstraints, GenerationState,
         SeenWithGeneration, ProviderWithGeneration, RouteState, ReadyConnection
<1>2. /\ row.inc = None /\ row.route = None
      /\ \A c \in Conns : conn[c].phase = "free"
  BY DEF Init, Register, NoConn
<1>3. /\ proc \in [Processes -> WorkerProcesses]
      /\ conn \in [Conns -> Channels]
      /\ dir \in [Nodes -> SUBSET Conns]
  BY DEF Init, WorkerProcesses, Channels, Phases, NoConn
<1>4. Addressed(send)
  BY DEF Init, NoSend, Addressed, Sends
<1> QED
  BY <1>1, <1>2, <1>3, <1>4
  DEF Inv, HolderCurrent, RouteHeld, Peopled, Listed, Live

(* Every step of the Workers, the Channels, the nodes and the jobs keeps   *)
(* the invariant.                                                          *)
LEMMA NextInv == Inv /\ [Next]_vars => Inv'
<1> SUFFICES ASSUME Inv, [Next]_vars
             PROVE  Inv'
  OBVIOUS
<1>1. CASE \E p \in Processes : Worker(p)
  BY <1>1, StartsKeeps, WorkerQuiet, SendBeatKeeps, JoinKeeps DEF Worker
<1>2. CASE \E c \in Conns : Channel(c)
  BY <1>2, AdmitKeeps, RefuseKeeps, PublishKeeps, BeatKeeps, ShutdownKeeps,
     CloseBegins, UntrackKeeps, TerminateKeeps DEF Channel
<1>3. CASE \E n \in Nodes : Node(n)
  BY <1>3, CrashKeeps, ExpireKeeps, SendKeeps, DirectoryQuiet DEF Node
<1>4. CASE BeatAges
  BY <1>4, AgeKeeps
<1>5. CASE Reconcile
  BY <1>5, BeginKeeps, ReconcileKeeps DEF Reconcile
<1>6. CASE UNCHANGED vars
  BY <1>6 DEF vars, Inv, Peopled, Listed, Live, RouteHeld, HolderCurrent
<1> QED
  BY <1>1, <1>2, <1>3, <1>4, <1>5, <1>6 DEF Next

(* The invariant: what the row names is a process of its generation and a  *)
(* connection of that process, and a Channel is in its node's directory    *)
(* from before its admission until it begins to end (WorkerChannel).       *)
THEOREM Invariant == Spec => []Inv
<1> QED
  BY InitInv, NextInv, PTL DEF Spec

(* Every variable stays in its type, and no step breaks a check constraint *)
(* of the table.                                                           *)
THEOREM TypeCorrect == Spec => []TypeOK
<1>1. Inv => TypeOK
  BY DEF Inv, GoodRow, Addressed, TypeOK
<1> QED
  BY <1>1, Invariant, PTL

(* Admission binds the row to a connection of the row's own generation     *)
(* (WorkerAdmission.admit_in_tx/1), and nothing later parts them.          *)
THEOREM RouteOfGenerationHolds == Spec => []RouteOfGeneration
<1>1. Inv => RouteOfGeneration
  <2> SUFFICES ASSUME Inv, NEW c \in Conns, row.route = c,
                      conn[c].phase # "free"
               PROVE  conn[c].proc = row.inc /\ proc[conn[c].proc].gen = row.gen
    BY DEF RouteOfGeneration
  <2>1. conn[c].proc = row.inc /\ row.inc # None
    BY NoneAssumption DEF Inv, RouteHeld, GoodRow, Held, NoneAssumption
  <2> QED
    BY <2>1 DEF Inv, HolderCurrent
<1> QED
  BY <1>1, Invariant, PTL

(* A live route is in the directory of its node: WorkerChannel.join tracks *)
(* before it admits, and terminate/2 untracks before it marks the row.     *)
THEOREM FirstSendFindsRouteHolds == Spec => []FirstSendFindsRoute
<1>1. Inv => FirstSendFindsRoute
  BY DEF Inv, Listed, FirstSendFindsRoute
<1> QED
  BY <1>1, Invariant, PTL

-----------------------------------------------------------------------------
(* One node *)

OneNode == \A n, m \in Nodes : n = m

(* A send gives a route up only after its Channel ended.                   *)
Marked ==
    \A n \in Nodes : send[n].pc = "mark" => ~Live(send[n].route)

(* A Channel comes to life only under a name that no send holds.           *)
LEMMA NoRevival ==
    ASSUME Inv, [Next]_vars, NEW c \in Conns, Live(c)'
    PROVE  Live(c) \/ \A n \in Nodes : send[n].route # c
<1>1. ConnKeeps => Live(c)
  BY DEF ConnKeeps, Live
<1>2. conn' = conn => Live(c)
  BY DEF Live
<1>3. CASE \E p \in Processes : Worker(p)
  <2>1. PICK p \in Processes : Worker(p)
    BY <1>3
  <2>2. CASE \E d \in Conns : JoinChannel(p, d)
    <3>1. PICK d \in Conns : JoinChannel(p, d)
      BY <2>2
    <3>2. d = c => \A n \in Nodes : send[n].route # c
      BY <3>1 DEF JoinChannel, FreshConns
    <3>3. d # c => conn'[c] = conn[c]
      BY <3>1 DEF Inv, JoinChannel
    <3> QED
      BY <3>2, <3>3 DEF Live
  <2>3. CASE SendBeat(p)
    BY <2>3, <1>1, SendBeatKeeps
  <2> QED
    BY <2>1, <2>2, <2>3, <1>2
    DEF Worker, ProcessStarts, ProcessDies, Drop, Connect
<1>4. CASE \E d \in Conns : Channel(d)
  <2>1. PICK d \in Conns : Channel(d)
    BY <1>4
  <2>2. HandleShutdown(d) => conn' = conn
    BY DEF HandleShutdown
  <2> QED
    BY <2>1, <2>2, <1>1, <1>2, AdmitKeeps, RefuseKeeps, PublishKeeps, BeatKeeps,
       CloseBegins, UntrackKeeps, TerminateKeeps DEF Channel
<1>5. CASE \E n \in Nodes : Node(n)
  <2>1. PICK n \in Nodes : Node(n)
    BY <1>5
  <2>2. NodeCrashes(n) \/ Expire(n) => ConnKeeps
    BY CrashKeeps, ExpireKeeps
  <2>3. ~(NodeCrashes(n) \/ Expire(n)) => conn' = conn
    BY <2>1 DEF Node, SendStarts, SendStep, LookUp, CheckFence, CallChannel,
                MarkAfterSend, DirectoryLearns, DirectoryForgets
  <2> QED
    BY <2>2, <2>3, <1>1, <1>2
<1>6. CASE BeatAges \/ Reconcile \/ UNCHANGED vars
  BY <1>2, <1>6 DEF BeatAges, Reconcile, BeginNext, DrainWorker,
                    SettleGeneration, DeleteWorker, vars
<1> QED
  BY <1>3, <1>4, <1>5, <1>6 DEF Next

(* A send finds no entry only of a Channel that is ending: its own node's  *)
(* directory is the only one.                                              *)
LEMMA NextMarked ==
    ASSUME OneNode, Inv, Marked, [Next]_vars
    PROVE  Marked'
<1> SUFFICES ASSUME NEW n \in Nodes, NEW c \in Conns, send'[n].pc = "mark",
                    send'[n].route = c, Live(c)'
             PROVE  FALSE
  <2>1. Addressed(send')
    BY NextInv DEF Inv
  <2> QED
    BY <2>1 DEF Addressed, Marked, Live
<1>1. send'[n] = send[n] => send[n].route = c /\ send[n].pc = "mark"
  OBVIOUS
<1>2. CASE send'[n] = send[n]
  BY <1>1, <1>2, NoRevival DEF Marked
<1>3. CASE SendStep(n) /\ send'[n] # send[n]
  <2>1. conn' = conn
    BY <1>3 DEF SendStep, LookUp, CheckFence, CallChannel, MarkAfterSend
  <2>2. LookUp(n) \/ CallChannel(n)
    BY <1>3 DEF Inv, Addressed, Sends, SendStep, CheckFence, MarkAfterSend,
                Step, Done, NoSend
  <2>3. c = send[n].route
    BY <2>2 DEF Inv, Addressed, Sends, LookUp, CallChannel, Step, Done, NoSend
  <2>4. Live(c)
    BY <2>1 DEF Live
  <2>5. CASE LookUp(n)
    <3>1. c \notin dir[n]
      BY <2>3, <2>5 DEF Inv, Addressed, Sends, LookUp, Step
    <3>2. conn[c].node = n
      BY <2>4 DEF Inv, Peopled, Live, OneNode
    <3> QED
      BY <2>4, <3>1, <3>2 DEF Inv, Listed
  <2>6. CASE CallChannel(n)
    BY <2>3, <2>4, <2>6 DEF Inv, Addressed, Sends, CallChannel, Done, NoSend
  <2> QED
    BY <2>2, <2>5, <2>6
<1>4. CASE ~SendStep(n) /\ send'[n] # send[n]
  <2>1. \E m \in Nodes : NodeCrashes(m) \/ SendStarts(m) \/ SendStep(m)
    BY <1>4 DEF Next, Worker, ProcessStarts, ProcessDies, Drop, SendBeat,
       Connect, JoinChannel, Channel, AdmitJoin, RefuseJoin, PublishAdmission,
       HandleBeat, HandleShutdown, HandleClose, TransportCloses, Untrack,
       Terminate, Node, Expire, DirectoryLearns, DirectoryForgets, BeatAges,
       Reconcile, BeginNext, DrainWorker, SettleGeneration, DeleteWorker, vars
  <2>2. SendStarts(n) \/ NodeCrashes(n)
    BY <1>4, <2>1 DEF OneNode
  <2>3. ~SendStarts(n)
    BY DEF Inv, Addressed, SendStarts
  <2>4. ~NodeCrashes(n)
    <3>1. NodeCrashes(n) => send'[n] = NoSend
      BY DEF Inv, Addressed, NodeCrashes
    <3>2. NoSend.pc = "idle"
      BY DEF NoSend
    <3> QED
      BY <3>1, <3>2
  <2> QED
    BY <2>2, <2>3, <2>4
<1> QED
  BY <1>2, <1>3, <1>4

(* What may take the route from the row.                                   *)
LEMMA RouteLost ==
    ASSUME Inv, Marked, [Next]_vars, NEW c \in Conns,
           row.route = c, row'.route = None
    PROVE  \/ ~Live(c) \/ row.beat # "fresh"
           \/ row'.state \in {"absent", "deleting"}
<1>1. c # None /\ row' # row
  BY NoneAssumption DEF NoneAssumption
<1>2. CASE \E d \in Conns : Channel(d)
  <2>1. PICK d \in Conns : Channel(d)
    BY <1>2
  <2>2. ~AdmitJoin(d)
    BY <1>1, NoneAssumption DEF Inv, GoodRow, AdmitJoin, Admit, NoneAssumption
  <2>3. ~HandleBeat(d) /\ ~HandleShutdown(d)
    BY <1>1 DEF Inv, GoodRow, HandleBeat, HandleShutdown, Renew, Drain
  <2>4. Terminate(d)
    BY <1>1, <2>1, <2>2, <2>3 DEF Channel, RefuseJoin, PublishAdmission,
       HandleClose, TransportCloses, Untrack
  <2> QED
    BY <1>1, <2>4 DEF Terminate, MarkRouteUnusable, Live
<1>3. CASE \E n \in Nodes : Node(n)
  <2>1. PICK n \in Nodes : MarkAfterSend(n) \/ Expire(n)
    BY <1>1, <1>3 DEF Node, NodeCrashes, SendStarts, SendStep, LookUp,
       CheckFence, CallChannel, DirectoryLearns, DirectoryForgets
  <2> QED
    BY <1>1, <2>1 DEF Marked, MarkAfterSend, MarkRouteUnusable, Expire, Silent
<1>4. CASE Reconcile
  <2>1. ~BeginNext
    BY <1>1 DEF Inv, GoodRow, BeginNext, CanBeginGeneration, CheckConstraints,
                RouteState
  <2>2. ~DrainWorker
    BY <1>1 DEF Inv, GoodRow, DrainWorker, Drain
  <2>3. SettleGeneration => row'.state \in {"absent", "deleting"}
    BY DEF Inv, GoodRow, SettleGeneration, Settle, Cleared
  <2>4. DeleteWorker => row'.state = "deleting"
    BY DEF Inv, GoodRow, DeleteWorker, MarkDeleting
  <2> QED
    BY <1>4, <2>1, <2>2, <2>3, <2>4 DEF Reconcile
<1>5. ~(\E p \in Processes : Worker(p))
  BY <1>1 DEF Worker, ProcessStarts, ProcessDies, Drop, SendBeat, Connect,
              JoinChannel
<1>6. ~BeatAges
  BY <1>1 DEF Inv, GoodRow, BeatAges
<1> QED
  BY <1>1, <1>2, <1>3, <1>4, <1>5, <1>6 DEF Next, vars

(* With one control-plane node, a Worker becomes stale only when its       *)
(* Channel ended, it fell silent, or its generation is over (the run       *)
(* AdmissionDirectory shows why one node is assumed).                      *)
THEOREM StaleMeansGoneHolds ==
    ASSUME OneNode
    PROVE  Spec => StaleMeansGone
<1>1. Init => Marked
  BY DEF Init, Marked, NoSend
<1>2. Inv /\ Marked /\ [Next]_vars => Marked'
  BY NextMarked
<1>3. Inv /\ Marked /\ [Next]_vars =>
        [\A c \in Conns : row.route = c /\ row'.route = None =>
           \/ ~Live(c)
           \/ row.beat # "fresh"
           \/ row'.state \in {"absent", "deleting"}]_vars
  BY RouteLost
<1> QED
  BY <1>1, <1>2, <1>3, Invariant, PTL DEF Spec, StaleMeansGone
=============================================================================
