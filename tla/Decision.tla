------------------------------ MODULE Decision ------------------------------
(***************************************************************************)
(* AgentWorkers.Decision: the next action for one Agent's Worker, a pure   *)
(* function of the row, the platform's list of instances and the facts of  *)
(* the moment.                                                             *)
(*                                                                         *)
(* An observation is [gen, ref, phase, present]; `present' is FALSE for a  *)
(* partial resource such as a Kubernetes Secret without its Pod.           *)
(*                                                                         *)
(* facts.active       the Agent is active                                  *)
(* facts.turn         an active slot or a running Background Agent Job     *)
(* facts.noTasks      the last heartbeat reported no active task           *)
(* facts.idleLong     idle for at least idleReleaseAfter                   *)
(* facts.fresh        the last heartbeat is younger than 30 seconds        *)
(* facts.changed      image, protocol or settings differ from the target   *)
(* facts.protocol     the protocol version differs (implies changed)       *)
(* facts.aged         the instance passed 90% of its platform lifetime     *)
(* facts.late         not ready for longer than ready_timeout              *)
(* facts.graceOver    draining for longer than stopGraceSeconds            *)
(***************************************************************************)
EXTENDS AgentWorkerRow, FiniteSets

CONSTANT CanPauseInstances     \* definition().pause of the provider kind

PauseReasons == {"idle_release", "agent_inactive"}

Act(op, reason, obj) == [op |-> op, reason |-> reason, obj |-> obj]

(* What two actions are compared by: only delete_object names its object,  *)
(* the others find theirs again among the observations.                    *)
Same(act) == IF act.op = "delete_object" THEN act ELSE [act EXCEPT !.obj = None]
Wait == Act("wait", None, None)
NoAction == Act("none", None, None)
Do(op) == Act(op, None, None)

(* A saved reference selects one instance of a generation.                 *)
IsCurrent(row, o) ==
    /\ row.gen # None
    /\ o.gen = row.gen
    /\ row.ref \in {None, o.ref}

(* Enum.split_with: the first current observation and the first of the     *)
(* others; the order of a platform's list is its own.                      *)
Currents(row, objects) ==
    LET found == {o \in objects : IsCurrent(row, o)}
    IN  IF found = {} THEN {None} ELSE found

(* Mutant of Strays: an instance that ended needs no deletion.             *)
StraysThatRun(objects, current) ==
    LET others == {o \in objects \ {current} : o.phase # "exited"}
    IN  IF others = {} THEN {None} ELSE others

Strays(objects, current) ==
    LET others == objects \ {current}
    IN  IF others = {} THEN {None} ELSE others

PauseRelease(reason) == CanPauseInstances /\ reason \in PauseReasons

(* Mutant of Wanted: the start of a registration is no reason.             *)
WantedByRequest(row, facts) == facts.active /\ (row.wanted \/ facts.turn)

Wanted(row, facts) ==
    facts.active /\ (row.pending \/ row.wanted \/ facts.turn)

Idle(facts) == facts.noTasks /\ ~facts.turn

IdleRelease(row, facts) ==
    /\ facts.active /\ facts.fresh /\ facts.noTasks /\ facts.idleLong
    /\ ~facts.turn /\ ~row.pending /\ ~row.wanted

InactiveIdle(facts) == facts.fresh /\ facts.noTasks /\ ~facts.turn

(* A generation that no list ever showed may still be created: its create  *)
(* is repeated until it is seen or refused.                                *)

(* Mutant of Unsettled: a create that was sent needs no repetition.        *)
UnsettledUnsent(row) == ~row.seen /\ ~row.sent

Unsettled(row) == ~row.seen

(* Mutant of Deleting: an unsettled create is left alone.                  *)
DeletingWaits(row, current) ==
    IF current # None THEN Act("delete_object", None, current)
    ELSE IF row.gen = None THEN Do("delete_storage")
    ELSE IF Unsettled(row) THEN Wait
    ELSE Do("mark_absent")

(* The caller passes the current observation, or None.                     *)
Deleting(row, current) ==
    IF current # None THEN Act("delete_object", None, current)
    ELSE IF row.gen = None THEN Do("delete_storage")
    ELSE IF Unsettled(row) THEN Do("create")
    ELSE Do("mark_absent")

Partial(row, current) ==
    IF Unsettled(row) THEN Do("create") ELSE Act("delete_object", None, current)

Draining(row, facts, current) ==
    IF current.phase = "exited" THEN Act("delete_now", None, current)
    ELSE IF row.drain = "rename"
         THEN IF Idle(facts) THEN Act("delete_now", None, current) ELSE Wait
    ELSE IF current.phase = "paused" /\ PauseRelease(row.drain)
         THEN Do("mark_paused")
    ELSE IF facts.graceOver THEN Act("delete_now", None, current)
    ELSE IF PauseRelease(row.drain) THEN Act("pause", None, current)
    ELSE Wait

Paused(row, facts, current) ==
    IF facts.changed \/ facts.aged THEN Act("replace", "replacement", current)
    ELSE IF Wanted(row, facts) THEN Act("resume", None, current)
    ELSE IF current.phase \in {"running", "starting"}
         THEN Act("replace", "not_needed", current)
    ELSE NoAction

StartingInstance(row, current) ==
    IF CanPauseInstances /\ current.phase = "paused"
    THEN Act("resume", None, current)
    ELSE IF current.phase = "starting" /\ row.inc = None THEN Do("create")
    ELSE Wait

RunningInstance(row, facts, current) ==
    IF row.state = "starting" /\ ~Wanted(row, facts)
    THEN Act("release", "not_needed", current)
    ELSE IF row.state = "stale" /\ ~facts.active /\ ~facts.turn
    THEN Act("release", "agent_inactive", current)
    ELSE IF row.state = "stale" /\ ~Wanted(row, facts) /\ facts.idleLong
    THEN Act("release", "not_needed", current)
    ELSE IF row.state = "ready" /\ ~facts.active /\ InactiveIdle(facts)
    THEN Act("release", "agent_inactive", current)
    ELSE IF row.state = "ready" /\ IdleRelease(row, facts)
    THEN Act("release", "idle_release", current)
    ELSE IF row.state = "starting" THEN StartingInstance(row, current)
    ELSE NoAction

Running(row, facts, current) ==
    IF facts.protocol THEN Act("replace", "replacement", current)
    ELSE IF (facts.changed \/ facts.aged) /\ Idle(facts)
    THEN Act("replace", "replacement", current)
    ELSE IF row.state \in {"starting", "stale"} /\ facts.late
    THEN Act("replace", "rebuild", current)
    ELSE RunningInstance(row, facts, current)

NextAction(row, current, stray, facts) ==
        IF stray # None THEN Act("delete_object", None, stray)
        ELSE IF current # None /\ ~current.present THEN Partial(row, current)
        ELSE IF row.state = "deleting" THEN Deleting(row, current)
        ELSE IF row.state = "absent"
        THEN IF Wanted(row, facts) THEN Do("begin_create") ELSE NoAction
        ELSE IF current = None /\ Unsettled(row) THEN Do("create")
        ELSE IF row.route # None
                /\ (current = None \/ current.phase = "exited") THEN Wait
        ELSE IF current = None THEN Do("mark_absent")
        ELSE IF row.state = "draining" THEN Draining(row, facts, current)
        ELSE IF current.phase = "exited"
        THEN Act("replace", "exited", current)
        ELSE IF row.state = "paused" THEN Paused(row, facts, current)
        ELSE Running(row, facts, current)
=============================================================================
