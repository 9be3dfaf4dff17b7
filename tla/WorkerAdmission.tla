--------------------------- MODULE WorkerAdmission ---------------------------
(***************************************************************************)
(* How the process of a Worker connects to the control plane, and how      *)
(* drivers reach it: sockets, Channel processes, the route directory that  *)
(* every control-plane node replicates, and the row that fences them.      *)
(*                                                                         *)
(* A connection is a Channel process named by its connection_id, which is  *)
(* the transport route.  It tracks itself in the directory of its node,    *)
(* then admits itself on the row, and clears both when it terminates.  The *)
(* directories of the other nodes follow later.  A driver reads the route  *)
(* from the row, finds its process in its own node's directory, checks the *)
(* row again and calls the process.                                        *)
(***************************************************************************)
EXTENDS AgentWorkerRow, FiniteSets

CONSTANTS
    Generations,   \* names of generations
    Processes,     \* Worker processes: their incarnation_id
    Conns,         \* Channel processes: their connection_id
    Nodes,         \* control-plane nodes
    Senders        \* the nodes with a driver that sends

ASSUME NoneAssumption ==
    None \notin Generations \cup Processes \cup Conns \cup Nodes
ASSUME SendersAssumption == Senders \subseteq Nodes

Phases == {"free", "tracked", "admitted", "open", "closing", "ending"}
Rows == [ assigned : BOOLEAN, state : States, gen : Generations \cup {None},
          ref : {None}, seen : BOOLEAN, sent : BOOLEAN, storage : {None},
          pending : BOOLEAN, wanted : BOOLEAN,
          drain : {None, "shutdown", "replacement"},
          inc : Processes \cup {None}, route : Conns \cup {None},
          beat : Beats, slots : {0}, active : {0} ]
WorkerProcesses == [ gen : Generations \cup {None}, up : BOOLEAN,
                     sock : Nodes \cup {None}, conn : Conns \cup {None} ]
Channels == [ phase : Phases, proc : Processes \cup {None},
              node : Nodes \cup {None}, replaced : Conns \cup {None},
              close : BOOLEAN, beat : BOOLEAN ]
Sends == [ pc : {"idle", "look", "fence", "call", "mark"},
           route : Conns \cup {None} ]

VARIABLES
    row,    \* the agent_workers row
    proc,   \* the Worker processes and the socket each one holds
    conn,   \* the Channel processes
    dir,    \* WorkerTracker: the connections each node knows
    send    \* the mandatory send each node's driver executes

vars == <<row, proc, conn, dir, send>>

NoConn == [ phase |-> "free", proc |-> None, node |-> None,
            replaced |-> None, close |-> FALSE, beat |-> FALSE ]
NoSend == [pc |-> "idle", route |-> None]
Dead(p) == [proc[p] EXCEPT !.up = FALSE, !.sock = None, !.conn = None]

Live(c) == conn[c].phase \in {"tracked", "admitted", "open"}

(* A connection_id and an incarnation_id are random: never one that        *)
(* anything still refers to.                                               *)
FreshConns ==
    {c \in Conns : /\ conn[c].phase = "free"
                   /\ row.route # c
                   /\ \A n \in Nodes : c \notin dir[n] /\ send[n].route # c
                   /\ \A d \in Conns : conn[d].replaced # c}
FreshProcesses ==
    {p \in Processes : /\ ~proc[p].up
                       /\ row.inc # p
                       /\ \A c \in Conns : conn[c].proc # p}
FreshGenerations ==
    {g \in Generations : row.gen # g /\ \A p \in Processes : proc[p].gen # g}

Init ==
    /\ row = Register(TRUE)
    /\ proc = [p \in Processes |->
                 [gen |-> None, up |-> FALSE, sock |-> None, conn |-> None]]
    /\ conn = [c \in Conns |-> NoConn]
    /\ dir = [n \in Nodes |-> {}]
    /\ send = [n \in Nodes |-> NoSend]

-----------------------------------------------------------------------------
(* The Worker process *)

(* It starts with the credential of the current generation.                *)
ProcessStarts(p) ==
    /\ p \in FreshProcesses
    /\ row.gen # None
    /\ proc' = [proc EXCEPT ![p] = [gen |-> row.gen, up |-> TRUE,
                                    sock |-> None, conn |-> None]]
    /\ UNCHANGED <<row, conn, dir, send>>

ProcessDies(p) ==
    /\ proc[p].up
    /\ proc' = [proc EXCEPT ![p] = Dead(p)]
    /\ UNCHANGED <<row, conn, dir, send>>

(* RuntimeFabricSocket.connect/3: the socket keeps the generation that     *)
(* authenticate/2 found.  Any node may take it.                            *)
Connect(p, n) ==
    /\ proc[p].up /\ proc[p].sock = None
    /\ proc[p].gen = row.gen
    /\ row.state \in JoinStates
    /\ proc' = [proc EXCEPT ![p].sock = n]
    /\ UNCHANGED <<row, conn, dir, send>>

(* The Worker's end of the socket is gone; the server's may not know.      *)
Drop(p) ==
    /\ proc[p].sock # None
    /\ proc' = [proc EXCEPT ![p].sock = None, ![p].conn = None]
    /\ UNCHANGED <<row, conn, dir, send>>

(* A heartbeat on its way to the Channel.                                  *)
SendBeat(p) ==
    LET c == proc[p].conn IN
    /\ c # None
    /\ conn[c].phase = "open" /\ ~conn[c].beat
    /\ conn' = [conn EXCEPT ![c].beat = TRUE]
    /\ UNCHANGED <<row, proc, dir, send>>

-----------------------------------------------------------------------------
(* The Channel process *)

(* The Worker's end loses the channel; with the socket when it is closed.  *)
LoseChannel(c, socket) ==
    proc' = [p \in Processes |->
               IF proc[p].conn # c THEN proc[p]
               ELSE [proc[p] EXCEPT !.conn = None,
                                    !.sock = IF socket THEN None ELSE @]]

(* Mutant of Track: the route enters the directory some other time.        *)
TrackLater(c, n) == dir' = dir

Track(c, n) == dir' = [dir EXCEPT ![n] = @ \cup {c}]

(* join/3 up to its call of admit_join/2.                                  *)
JoinChannel(p, c) ==
    LET n == proc[p].sock IN
    /\ n # None /\ proc[p].conn = None
    /\ c \in FreshConns
    /\ conn' = [conn EXCEPT ![c] = [NoConn EXCEPT !.phase = "tracked",
                                                  !.proc = p, !.node = n]]
    /\ proc' = [proc EXCEPT ![p].conn = c]
    /\ Track(c, n)
    /\ UNCHANGED <<row, send>>

(* Mutant of Admissible: the socket was authenticated already.             *)
AdmissibleSocket(p) == CanAdmit(row, p)

(* admit_in_tx/1 under the row lock.                                       *)
Admissible(p) == proc[p].gen = row.gen /\ CanAdmit(row, p)

AdmitJoin(c) ==
    LET p == conn[c].proc IN
    /\ conn[c].phase = "tracked"
    /\ Admissible(p)
    /\ row' = Admit(row, p, c, 0)
    /\ conn' = [conn EXCEPT ![c].phase = "admitted", ![c].replaced = row.route]
    /\ UNCHANGED <<proc, dir, send>>

(* The process of a failed join ends and the socket stays; the tracker     *)
(* drops the entry on its own.                                             *)
RefuseJoin(c) ==
    /\ conn[c].phase = "tracked"
    /\ ~Admissible(conn[c].proc)
    /\ conn' = [conn EXCEPT ![c] = NoConn]
    /\ LoseChannel(c, FALSE)
    /\ UNCHANGED <<row, dir, send>>

(* close_connection/3 from node n: a message to the process it knows.      *)
CloseConnection(table, n, c) ==
    IF c \in dir[n] /\ table[c].phase # "free"
    THEN [table EXCEPT ![c].close = TRUE] ELSE table

(* publish_admission/1, and the join's answer.                             *)
PublishAdmission(c) ==
    /\ conn[c].phase = "admitted"
    /\ LET opened == [conn EXCEPT ![c].phase = "open", ![c].replaced = None] IN
       conn' = IF conn[c].replaced = None THEN opened
               ELSE CloseConnection(opened, conn[c].node, conn[c].replaced)
    /\ UNCHANGED <<row, proc, dir, send>>

(* Mutant of Refused: the refusal is only logged.                          *)
RefusedLogged(c) ==
    /\ conn' = [conn EXCEPT ![c].beat = FALSE]
    /\ UNCHANGED proc

(* stale_transport_route: a Worker still on this channel leaves it, and    *)
(* joins again on the same socket.                                         *)
Refused(c) ==
    /\ conn' = [conn EXCEPT ![c].beat = FALSE,
                            ![c].phase = IF proc[conn[c].proc].conn = c
                                         THEN "closing" ELSE @]
    /\ LoseChannel(c, FALSE)

HandleBeat(c) ==
    /\ conn[c].phase = "open" /\ conn[c].beat
    /\ IF CanRenew(row, conn[c].proc, c)
       THEN /\ row' = Renew(row, 0, 0)
            /\ conn' = [conn EXCEPT ![c].beat = FALSE]
            /\ UNCHANGED proc
       ELSE row' = row /\ Refused(c)
    /\ UNCHANGED <<dir, send>>

(* handle_control_shutdown/2: the first reason to drain stays.             *)
HandleShutdown(c) ==
    /\ conn[c].phase = "open"
    /\ row.state \in ConnectedStates /\ row.route = c
    /\ row' = Drain(row, IF row.drain = None THEN "shutdown" ELSE row.drain)
    /\ UNCHANGED <<proc, conn, dir, send>>

(* {:close_connection, reason}: the socket is disconnected as well.        *)
HandleClose(c) ==
    /\ conn[c].phase = "open" /\ conn[c].close
    /\ conn' = [conn EXCEPT ![c].phase = "closing"]
    /\ LoseChannel(c, TRUE)
    /\ UNCHANGED <<row, dir, send>>

(* The server finds that the Worker's end of the socket is gone.           *)
TransportCloses(c) ==
    /\ conn[c].phase = "open"
    /\ proc[conn[c].proc].conn # c
    /\ conn' = [conn EXCEPT ![c].phase = "closing"]
    /\ UNCHANGED <<row, proc, dir, send>>

(* terminate/2, its first part.                                            *)
Untrack(c) ==
    /\ conn[c].phase = "closing"
    /\ dir' = [dir EXCEPT ![conn[c].node] = @ \ {c}]
    /\ conn' = [conn EXCEPT ![c].phase = "ending"]
    /\ UNCHANGED <<row, proc, send>>

(* Mutant of MarkRouteUnusable: the Worker's row, whatever its route.      *)
MarkWorkerUnusable(c) ==
    row' = IF CanDisconnect(row) THEN Disconnect(row) ELSE row

(* mark_route_unusable/2: only the row that is still on this route.        *)
MarkRouteUnusable(c) == row' = IF row.route = c THEN Disconnect(row) ELSE row

Terminate(c) ==
    /\ conn[c].phase = "ending"
    /\ MarkRouteUnusable(c)
    /\ conn' = [conn EXCEPT ![c] = NoConn]
    /\ UNCHANGED <<proc, dir, send>>

Channel(c) ==
    \/ AdmitJoin(c) \/ RefuseJoin(c) \/ PublishAdmission(c) \/ HandleBeat(c)
    \/ HandleShutdown(c) \/ HandleClose(c) \/ TransportCloses(c)
    \/ Untrack(c) \/ Terminate(c)

-----------------------------------------------------------------------------
(* The directory and the nodes *)

(* Another node's entry arrives.                                           *)
DirectoryLearns(n, c) ==
    /\ conn[c].phase # "free"
    /\ c \in dir[conn[c].node] \ dir[n]
    /\ dir' = [dir EXCEPT ![n] = @ \cup {c}]
    /\ UNCHANGED <<row, proc, conn, send>>

(* The process is gone, or its node has dropped the entry.                 *)
DirectoryForgets(n, c) ==
    /\ c \in dir[n]
    /\ conn[c].phase # "free" => c \notin dir[conn[c].node]
    /\ dir' = [dir EXCEPT ![n] = @ \ {c}]
    /\ UNCHANGED <<row, proc, conn, send>>

(* A node stops: nothing on it terminates in order.                        *)
NodeCrashes(n) ==
    /\ conn' = [c \in Conns |-> IF conn[c].node = n THEN NoConn ELSE conn[c]]
    /\ proc' = [p \in Processes |->
                  IF proc[p].sock = n
                  THEN [proc[p] EXCEPT !.sock = None, !.conn = None]
                  ELSE proc[p]]
    /\ dir' = [dir EXCEPT ![n] = {}]
    /\ send' = [send EXCEPT ![n] = NoSend]
    /\ UNCHANGED row

BeatAges ==
    /\ row.beat = "fresh"
    /\ row' = [row EXCEPT !.beat = "old"]
    /\ UNCHANGED <<proc, conn, dir, send>>

(* Mutant of Silent: a draining connection is left alone.                  *)
SilentReady == row.state = "ready" /\ row.route # None /\ row.beat # "fresh"

Silent == row.state \in ConnectedStates /\ row.route # None /\ row.beat # "fresh"

(* expire_connection/1 of a reconcile job on node n.                       *)
Expire(n) ==
    /\ Silent
    /\ row' = Disconnect(row)
    /\ conn' = CloseConnection(conn, n, row.route)
    /\ UNCHANGED <<proc, dir, send>>

-----------------------------------------------------------------------------
(* A mandatory send of the driver on node n *)

Step(n, pc) == send' = [send EXCEPT ![n].pc = pc]
Done(n) == send' = [send EXCEPT ![n] = NoSend]

(* target/1 of a row that is connected.                                    *)
SendStarts(n) ==
    /\ n \in Senders /\ send[n].pc = "idle"
    /\ row.state \in ConnectedStates /\ row.route # None
    /\ send' = [send EXCEPT ![n] = [pc |-> "look", route |-> row.route]]
    /\ UNCHANGED <<row, proc, conn, dir>>

(* No entry is :unknown_route.                                             *)
LookUp(n) ==
    /\ send[n].pc = "look"
    /\ Step(n, IF send[n].route \in dir[n] THEN "fence" ELSE "mark")
    /\ UNCHANGED <<row, proc, conn, dir>>

(* Another route on the row is :stale_route and fails only this send.      *)
CheckFence(n) ==
    /\ send[n].pc = "fence"
    /\ IF row.state \in ConnectedStates /\ row.route = send[n].route
       THEN Step(n, "call") ELSE Done(n)
    /\ UNCHANGED <<row, proc, conn, dir>>

(* The Worker acknowledges, is busy, or lets the call time out; a process  *)
(* that ends answers :socket_closed, one that is gone is :unknown_route.   *)
CallChannel(n) ==
    LET c == send[n].route IN
    /\ send[n].pc = "call"
    /\ \/ conn[c].phase = "open" /\ Done(n)
       \/ ~Live(c) /\ Step(n, "mark")
    /\ UNCHANGED <<row, proc, conn, dir>>

MarkAfterSend(n) ==
    /\ send[n].pc = "mark"
    /\ MarkRouteUnusable(send[n].route)
    /\ Done(n)
    /\ UNCHANGED <<proc, conn, dir>>

SendStep(n) ==
    LookUp(n) \/ CheckFence(n) \/ CallChannel(n) \/ MarkAfterSend(n)

-----------------------------------------------------------------------------
(* The reconcile jobs, as far as a connection sees them *)

BeginNext ==
    /\ CanBeginGeneration(row)
    /\ \E g \in FreshGenerations : row' = BeginGeneration(row, g)
    /\ UNCHANGED <<proc, conn, dir, send>>

DrainWorker ==
    /\ CanDrain(row) /\ row.state # "draining"
    /\ row' = Drain(row, "replacement")
    /\ UNCHANGED <<proc, conn, dir, send>>

(* The platform shows no instance of the generation any more.              *)
SettleGeneration ==
    /\ row.gen # None
    /\ \A p \in Processes : proc[p].gen = row.gen => ~proc[p].up
    /\ row' = Settle(row, None)
    /\ UNCHANGED <<proc, conn, dir, send>>

DeleteWorker ==
    /\ Exists(row) /\ row.state # "deleting"
    /\ row' = MarkDeleting(row)
    /\ UNCHANGED <<proc, conn, dir, send>>

Reconcile == BeginNext \/ DrainWorker \/ SettleGeneration \/ DeleteWorker

-----------------------------------------------------------------------------
Worker(p) ==
    \/ ProcessStarts(p) \/ ProcessDies(p) \/ Drop(p) \/ SendBeat(p)
    \/ \E n \in Nodes : Connect(p, n)
    \/ \E c \in Conns : JoinChannel(p, c)

Node(n) ==
    \/ NodeCrashes(n) \/ Expire(n) \/ SendStarts(n) \/ SendStep(n)
    \/ \E c \in Conns : DirectoryLearns(n, c) \/ DirectoryForgets(n, c)

Next ==
    \/ \E p \in Processes : Worker(p)
    \/ \E c \in Conns : Channel(c)
    \/ \E n \in Nodes : Node(n)
    \/ BeatAges
    \/ Reconcile

Spec == Init /\ [][Next]_vars

(* Processes, mailboxes, timers, the replication of the directory and the  *)
(* periodic sweep go on; failures of processes, sockets and nodes end some *)
(* day.                                                                    *)
Disturbance ==
    \/ \E p \in Processes : ProcessDies(p) \/ Drop(p)
    \/ \E n \in Nodes : NodeCrashes(n)

WorkerServed(p) ==
    \/ SendBeat(p)
    \/ \E n \in Nodes : Connect(p, n)
    \/ \E c \in Conns : JoinChannel(p, c)

ChannelServed(c) ==
    \/ AdmitJoin(c) \/ RefuseJoin(c) \/ PublishAdmission(c) \/ HandleBeat(c)
    \/ HandleClose(c) \/ TransportCloses(c) \/ Untrack(c) \/ Terminate(c)

Fairness ==
    /\ \A p \in Processes : WF_vars(WorkerServed(p))
    /\ \A c \in Conns : WF_vars(ChannelServed(c))
    /\ \A n \in Nodes :
         /\ WF_vars(SendStep(n))
         /\ WF_vars(\E c \in Conns : DirectoryForgets(n, c))
    /\ WF_vars(BeatAges)
    /\ WF_vars(\E n \in Nodes : Expire(n))
    /\ <>[][~Disturbance]_vars

FairSpec == Spec /\ Fairness

-----------------------------------------------------------------------------
(* Every variable stays in its type, and the row keeps the constraints of  *)
(* its table.                                                              *)
TypeOK ==
    /\ row \in Rows
    /\ proc \in [Processes -> WorkerProcesses]
    /\ conn \in [Conns -> Channels]
    /\ dir \in [Nodes -> SUBSET Conns]
    /\ send \in [Nodes -> Sends]
    /\ CheckConstraints(row)

(* The row never names a connection of another generation or of another    *)
(* process than its incarnation, although a socket proves its credential   *)
(* once and joins later (WorkerAdmission.admit_in_tx/1).                   *)
RouteOfGeneration ==
    \A c \in Conns : row.route = c /\ conn[c].phase # "free" =>
        conn[c].proc = row.inc /\ proc[conn[c].proc].gen = row.gen

(* From the admission on, a driver on the connection's own node finds its  *)
(* route, so the first send after the broadcast does (WorkerChannel.join). *)
FirstSendFindsRoute ==
    \A c \in Conns : row.route = c /\ Live(c) => c \in dir[conn[c].node]

(* A connected Worker loses its route only when its Channel has ended, its *)
(* heartbeat is silent, or its generation is over: no failed send and no   *)
(* end of a replaced connection costs it the route (WorkerAdmission).      *)
StaleMeansGone ==
    [][\A c \in Conns : row.route = c /\ row'.route = None =>
         \/ ~Live(c)
         \/ row.beat # "fresh"
         \/ row'.state \in {"absent", "deleting"}]_vars

(* A route whose Channel died with its node does not stay on the row.      *)
DeadRouteLeaves ==
    \A c \in Conns :
        row.route = c /\ conn[c].phase = "free" ~> row.route # c

(* A Channel that the row no longer names ends, also when the node that    *)
(* replaced or expired it did not know its process.                        *)
SupersededCloses ==
    \A c \in Conns :
        conn[c].phase = "open" /\ row.route # c ~> conn[c].phase # "open"

(* A stale Worker whose process still runs becomes ready again.            *)
StaleReconnects ==
    row.state = "stale" /\ (\E p \in Processes :
                              proc[p].up /\ proc[p].gen = row.gen)
      ~> \/ row.state # "stale"
         \/ \A p \in Processes : proc[p].gen = row.gen => ~proc[p].up
=============================================================================
