--------------------------- MODULE AgentWorkerRow ---------------------------
(***************************************************************************)
(* The agent_workers row: the durable lifecycle of one Agent's Worker, and *)
(* the write actions of the AgentWorker resource.                          *)
(*                                                                         *)
(* Every operator takes the locked row and returns the row one UPDATE      *)
(* leaves.  The guard of an action (its declared transitions and its       *)
(* filter) is the operator CanX next to it.  Timestamps that only feed     *)
(* diagnostics, error texts and the launch target are left out.            *)
(***************************************************************************)
EXTENDS Naturals

CONSTANT None

States == {"absent", "starting", "ready", "stale", "paused", "draining",
           "deleting", "removed"}

(* Mutant of JoinStates: a broken connection waits for a new generation.   *)
UnbrokenJoinStates == {"starting", "ready"}

JoinStates == {"starting", "stale", "ready"}
ConnectedStates == {"ready", "draining"}

(* A heartbeat is fresh for 60 seconds of database time.                   *)
Beats == {"none", "fresh", "old"}

(* The row insert_in_tx commits with the Agent.  `assigned' says that      *)
(* provider_id is set: rows from before providers have none.               *)
Register(assigned) ==
    [ assigned |-> assigned, state |-> "absent", gen |-> None, ref |-> None,
      seen |-> FALSE, sent |-> FALSE, storage |-> None, pending |-> assigned,
      wanted |-> FALSE, drain |-> None, inc |-> None, route |-> None,
      beat |-> "none", slots |-> 0, active |-> 0 ]

(* destroy :remove; the row is gone and every later read returns nil.      *)
CanRemove(row) == row.state = "deleting"
Removed == [Register(FALSE) EXCEPT !.state = "removed"]

Exists(row) == row.state # "removed"

CanBeginGeneration(row) == row.state = "absent"
BeginGeneration(row, g) ==
    [row EXCEPT !.state = "starting", !.gen = g, !.sent = FALSE]

CanResume(row) == row.state \in {"paused", "starting"}
Resume(row) == [row EXCEPT !.state = "starting"]

CanPause(row) == row.state = "draining"

(* Mutant of Pause: the route of the frozen process stays.                 *)
PauseWithRoute(row) == [row EXCEPT !.state = "paused", !.drain = None]

Pause(row) ==
    [row EXCEPT !.state = "paused", !.drain = None, !.route = None]

CanDrain(row) ==
    row.state \in {"starting", "ready", "stale", "paused", "draining"}
Drain(row, reason) ==
    [row EXCEPT !.state = "draining", !.drain = reason, !.slots = 0]

(* Mutant of CanAdmit: the socket has checked the state already.           *)
CanAdmitAnyState(row, inc) ==
    row.inc \in {None, inc} \/ row.route = None \/ row.beat # "fresh"

(* The conditional UPDATE of a Channel join: another incarnation with a    *)
(* fresh heartbeat on a live route keeps the row.                          *)
CanAdmit(row, inc) ==
    /\ row.state \in JoinStates
    /\ \/ row.inc \in {None, inc}
       \/ row.route = None
       \/ row.beat # "fresh"
Admit(row, inc, route, slots) ==
    [row EXCEPT !.state = "ready", !.inc = inc, !.route = route,
                !.beat = "fresh", !.seen = TRUE, !.pending = FALSE,
                !.slots = slots]

CanRenew(row, inc, route) ==
    row.state \in ConnectedStates /\ row.route = route /\ row.inc = inc
Renew(row, slots, active) ==
    [row EXCEPT !.beat = "fresh", !.slots = slots, !.active = active]

(* Only the connection owner clears a route; a draining row stays draining.*)
CanDisconnect(row) == row.state \in ConnectedStates
Disconnect(row) ==
    [row EXCEPT !.state = IF @ = "draining" THEN "draining" ELSE "stale",
                !.route = None]

(* Everything a generation leaves behind but its state and incarnation.    *)
Cleared(row, storage) ==
    [row EXCEPT !.gen = None, !.ref = None, !.seen = FALSE, !.sent = FALSE,
                !.storage = storage, !.drain = None, !.route = None,
                !.beat = "none", !.slots = 0, !.active = 0]

(* Mutants of Settle: the incarnation stays; a deletion is forgotten.      *)
SettleWithIncarnation(row, storage) ==
    [Cleared(row, storage) EXCEPT
        !.state = IF @ = "deleting" THEN "deleting" ELSE "absent"]
SettleToAbsent(row, storage) ==
    [Cleared(row, storage) EXCEPT !.state = "absent", !.inc = None]

(* The generation ends: every generation field is cleared and the storage  *)
(* reference read from the platform is committed by the same UPDATE.       *)
Settle(row, storage) ==
    [Cleared(row, storage) EXCEPT
        !.state = IF @ = "deleting" THEN "deleting" ELSE "absent",
        !.inc = None]

(* Mutant of MarkDeleting: the connection of the deleted Agent stays.      *)
MarkDeletingConnected(row) ==
    [row EXCEPT !.state = "deleting", !.inc = None, !.pending = FALSE,
                !.wanted = FALSE]

MarkDeleting(row) ==
    [row EXCEPT !.state = "deleting", !.inc = None, !.route = None,
                !.pending = FALSE, !.wanted = FALSE]

CanReserveSlot(row) == row.state = "ready" /\ row.slots > 0
ReserveSlot(row) == [row EXCEPT !.slots = @ - 1, !.active = @ + 1]

CanRequest(row) == row.state # "deleting"
Request(row) == [row EXCEPT !.wanted = TRUE]

CanAssign(row) == ~row.assigned /\ row.state # "deleting"
Assign(row) == [row EXCEPT !.assigned = TRUE]

(* The transitions of the resource's state machine, and the removal.       *)
Declared(row, next) ==
    \/ next.state = row.state
    \/ next.state = "starting" /\ (CanBeginGeneration(row) \/ CanResume(row))
    \/ next.state = "paused" /\ CanPause(row)
    \/ next.state = "draining" /\ CanDrain(row)
    \/ next.state = "ready" /\ row.state \in JoinStates
    \/ next.state = "stale" /\ CanDisconnect(row)
    \/ next.state = "absent" /\ Exists(row) /\ row.state # "deleting"
    \/ next.state = "deleting" /\ Exists(row)
    \/ next.state = "removed" /\ CanRemove(row)

(***************************************************************************)
(* The check constraints of the agent_workers table: an UPDATE that breaks *)
(* one raises and rolls its transaction back.                              *)
(***************************************************************************)
GenerationState(row) ==
    /\ row.state = "absent" => row.gen = None
    /\ row.state \notin {"absent", "deleting", "removed"} => row.gen # None

SeenWithGeneration(row) == (row.seen \/ row.sent) => row.gen # None

ProviderWithGeneration(row) == row.gen # None => row.assigned

RouteState(row) == row.route # None => row.state \in ConnectedStates

ReadyConnection(row) ==
    row.state = "ready" => row.route # None /\ row.inc # None

CheckConstraints(row) ==
    /\ GenerationState(row)
    /\ SeenWithGeneration(row)
    /\ ProviderWithGeneration(row)
    /\ RouteState(row)
    /\ ReadyConnection(row)
=============================================================================
