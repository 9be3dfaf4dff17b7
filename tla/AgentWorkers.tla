---------------------------- MODULE AgentWorkers ----------------------------
(***************************************************************************)
(* One Agent's Worker: the durable row, the reconcile jobs that drive it,  *)
(* the platform that runs its instances, and the process that joins.       *)
(*                                                                         *)
(* A reconcile job never holds the row lock across a platform call.  Its   *)
(* loop is: read the row, list the instances, lock and decide (commit the  *)
(* intent), call the platform, lock and record.  Between any two of these  *)
(* the other jobs, the Worker's connection, the Agent's owner and the      *)
(* platform may act, and the job may die.  A platform call takes effect at *)
(* one point inside the "call" step, however late the job gets there.      *)
(***************************************************************************)
EXTENDS Decision

CONSTANTS
    Generations,   \* names of generations
    Refs,          \* names the platform gives to instances
    Jobs,          \* ReconcileJob executions that may overlap
    Kind,          \* "docker", "kubernetes", "cloudflare" or "pausing"
    Facts,         \* the moments' facts a decision may meet
    Progress       \* storage_ref while the platform deletes storage

ASSUME KindAssumption ==
    /\ Kind \in {"docker", "kubernetes", "cloudflare", "pausing"}
    /\ CanPauseInstances = (Kind = "pausing")

(* A Pod or a Durable Object is named after its generation; a container or *)
(* a VM gets an ID of its own.  Cloudflare reports no ID at all.           *)
NamedByGeneration == Kind \in {"kubernetes", "cloudflare"}
InstanceRefs == IF NamedByGeneration THEN Generations ELSE Refs

Phases == {"starting", "running", "suspending", "paused", "terminating",
           "exited", "partial"}
Ops == {"none", "wait", "begin_create", "create", "delete_object",
        "delete_now", "mark_absent", "mark_paused", "pause", "resume",
        "replace", "release", "delete_storage"}
Reasons == {"replacement", "exited", "rebuild", "not_needed", "rename",
            "idle_release", "agent_inactive", "shutdown"}
PCs == {"idle", "failed", "read", "list", "decide", "prepare", "call", "record"}

StorageRefs == Generations \cup {None, Progress}
Processes == [gen : Generations, ref : InstanceRefs]
Instances == [gen : Generations, ref : InstanceRefs, phase : Phases]
Observations == [ gen : Generations, ref : InstanceRefs \cup {None},
                  phase : Phases, present : BOOLEAN ]
Snapshots == [ assigned : BOOLEAN, state : States,
               gen : Generations \cup {None}, ref : InstanceRefs \cup {None},
               seen : BOOLEAN, storage : StorageRefs, sent : BOOLEAN ]
Acts == [ op : Ops, reason : Reasons \cup {None},
          obj : Observations \cup {None} ]
Answers == [op : {"ok"}, ref : InstanceRefs \cup {None}]
           \cup [op : {"settle", "rejected"}, ref : StorageRefs]
Rows == [ assigned : BOOLEAN, state : States, gen : Generations \cup {None},
          ref : InstanceRefs \cup {None}, seen : BOOLEAN, sent : BOOLEAN,
          storage : StorageRefs, pending : BOOLEAN, wanted : BOOLEAN,
          drain : Reasons \cup {None}, inc : Processes \cup {None},
          route : Processes \cup {None}, beat : Beats, slots : Nat,
          active : Nat ]
JobStates == [ pc : PCs, seen : Snapshots \cup {None},
               objs : SUBSET Observations, prev : Acts \cup {None},
               prepared : BOOLEAN, act : Acts \cup {None},
               res : Answers \cup {None} ]

ASSUME NoneAssumption ==
    /\ None \notin Generations \cup Refs \cup {Progress}
    /\ None \notin Processes
    /\ None \notin Observations
    /\ None \notin Snapshots \cup Acts \cup Answers

VARIABLES
    row,        \* the agent_workers row
    agent,      \* "active", "disabled" or "deleted"
    inst,       \* the platform's instances
    finished,   \* cloudflare: generations with a finished receipt
    home,       \* cloudflare: generation of the latest Home backup record
    job         \* the reconcile jobs

vars == <<row, agent, inst, finished, home, job>>

Observe(i) ==
    [ gen |-> i.gen, ref |-> IF Kind = "cloudflare" THEN None ELSE i.ref,
      phase |-> IF i.phase = "suspending" THEN "running"
                ELSE IF i.phase = "partial" THEN "exited" ELSE i.phase,
      present |-> i.phase # "partial" ]

Process(i) == [gen |-> i.gen, ref |-> i.ref]

(* The fields that a platform action depends on.                           *)
Lifecycle(r) ==
    [ assigned |-> r.assigned, state |-> r.state, gen |-> r.gen,
      ref |-> r.ref, seen |-> r.seen, storage |-> r.storage,
      sent |-> r.sent ]

(* Idle: no job is executing.  A failed one is waiting for its retry.      *)
Idling == [ pc |-> "idle", seen |-> None, objs |-> {}, prev |-> None,
            prepared |-> FALSE, act |-> None, res |-> None ]

Failed == [Idling EXCEPT !.pc = "failed"]
Executing(l) == l.pc \notin {"idle", "failed"}

(* The next round of a job's loop: the action it just took stays known.    *)
Loop(l, prev) == [Idling EXCEPT !.pc = "read", !.prev = prev,
                                !.prepared = l.prepared]
Reread(l) == Loop(l, l.prev)

(* A generation is random: never one that anything still refers to.        *)
KnownGenerations ==
    {row.gen} \cup {i.gen : i \in inst} \cup finished \cup {home, row.storage}
      \cup {job[j].seen.gen : j \in {k \in Jobs : job[k].seen # None}}
KnownRefs ==
    {row.ref} \cup {i.ref : i \in inst}
      \cup UNION {{o.ref : o \in job[j].objs} : j \in Jobs}
      \cup {job[j].seen.ref : j \in {k \in Jobs : job[k].seen # None}}

Init ==
    /\ \E assigned \in BOOLEAN : row = Register(assigned)
    /\ agent = "active"
    /\ inst = {}
    /\ finished = {}
    /\ home = None
    /\ job = [j \in Jobs |-> Idling]

-----------------------------------------------------------------------------
(* Reconcile jobs *)

(* Mutant of HeartbeatExpired: a draining connection is left alone.        *)
HeartbeatExpiredReady ==
    row.state = "ready" /\ row.route # None /\ row.beat # "fresh"

HeartbeatExpired ==
    row.state \in ConnectedStates /\ row.route # None /\ row.beat # "fresh"

(* run/1 starts by expiring a silent connection.                           *)
StartJob(j) ==
    /\ ~Executing(job[j])
    /\ Exists(row)
    /\ row' = IF HeartbeatExpired THEN Disconnect(row) ELSE row
    /\ job' = [job EXCEPT ![j] = Loop(Idling, None)]
    /\ UNCHANGED <<agent, inst, finished, home>>

(* observe/1, its unlocked read.                                           *)
ReadRow(j) ==
    /\ job[j].pc = "read"
    /\ job' = [job EXCEPT ![j] =
                IF ~Exists(row) \/ (~row.assigned /\ row.state # "deleting")
                THEN Idling
                ELSE [@ EXCEPT !.seen = Lifecycle(row),
                               !.pc = IF row.assigned THEN "list"
                                      ELSE "decide"]]
    /\ UNCHANGED <<row, agent, inst, finished, home>>

(* observe/1, the platform's answer.                                       *)
ListInstances(j) ==
    /\ job[j].pc = "list"
    /\ job' = [job EXCEPT ![j] = [@ EXCEPT !.objs = {Observe(i) : i \in inst},
                                           !.pc = "decide"]]
    /\ UNCHANGED <<row, agent, inst, finished, home>>

(* The job asks the platform after this commit.                            *)
Intend(j, r, act) ==
    /\ row' = r
    /\ job' = [job EXCEPT ![j] = [@ EXCEPT !.pc = "call", !.act = act,
                                           !.prev = None, !.objs = {},
                                           !.seen = Lifecycle(r)]]

(* The row changed and the loop goes around without a platform call.       *)
Continue(j, r, prev) ==
    /\ row' = r
    /\ job' = [job EXCEPT ![j] = Loop(@, prev)]

EndJob(j, r) ==
    /\ row' = r
    /\ job' = [job EXCEPT ![j] = Idling]

BeginCreate(j, r, act) ==
    \E g \in Generations \ KnownGenerations :
        Continue(j, BeginGeneration(r, g), act)

(* intend/2 under the row lock.  An action that repeats the previous one   *)
(* waits for the platform.                                                 *)
Take(j, r, act) ==
    IF act.op \in {"none", "wait"} \/ Same(act) = job[j].prev
    THEN EndJob(j, r)
    ELSE CASE act.op = "begin_create" /\ job[j].prepared ->
                BeginCreate(j, r, act)
           [] act.op = "begin_create" /\ ~job[j].prepared ->
                /\ row' = r
                /\ job' = [job EXCEPT ![j] = [@ EXCEPT !.pc = "prepare",
                                                      !.objs = {}]]
           [] act.op = "create" -> Intend(j, [r EXCEPT !.sent = TRUE], act)
           [] act.op = "mark_paused" -> Continue(j, Pause(r), act)
           [] act.op \in {"replace", "release"} ->
                Intend(j, Drain(r, act.reason), act)
           [] act.op = "resume" -> Intend(j, Resume(r), act)
           [] OTHER -> Intend(j, r, act)

(* decide_with/4.  record_observation/3 notes that the generation was seen *)
(* and commits a discovered reference before anything uses it.             *)
DecideWith(j, facts) ==
    LET objs  == job[j].objs
        found == {o \in objs : IsCurrent(row, o) /\ o.present}
        r     == IF found = {} THEN row ELSE [row EXCEPT !.seen = TRUE]
    IN  IF row.ref = None /\ \E o \in found : o.ref # None
        THEN \E o \in found : Continue(j, [r EXCEPT !.ref = o.ref], None)
        ELSE \E current \in Currents(r, objs) :
             \E stray \in Strays(objs, current) :
                Take(j, r, NextAction(r, current, stray, facts))

(* Mutant of Decide: every deleted Agent's row is removed at once.         *)
DecideRemoves(j) ==
    /\ job[j].pc = "decide"
    /\ IF ~Exists(row) THEN EndJob(j, row)
       ELSE IF row.state = "deleting" THEN EndJob(j, Removed)
       ELSE IF Lifecycle(row) # job[j].seen
       THEN row' = row /\ job' = [job EXCEPT ![j] = Reread(@)]
       ELSE \E facts \in Facts :
              DecideWith(j, [facts EXCEPT !.active = agent = "active"])
    /\ UNCHANGED <<agent, inst, finished, home>>

(* decide/4: a row whose lifecycle moved since it was read is read again.  *)
Decide(j) ==
    /\ job[j].pc = "decide"
    /\ IF ~Exists(row) THEN EndJob(j, row)
       ELSE IF row.state = "deleting" /\ ~row.assigned THEN EndJob(j, Removed)
       ELSE IF Lifecycle(row) # job[j].seen
       THEN row' = row /\ job' = [job EXCEPT ![j] = Reread(@)]
       ELSE \E facts \in Facts :
              DecideWith(j, [facts EXCEPT !.active = agent = "active"])
    /\ UNCHANGED <<agent, inst, finished, home>>

(* run({:prepare, _}): image and storage are ready.                        *)
Prepare(j) ==
    /\ job[j].pc = "prepare"
    /\ job' = [job EXCEPT ![j] = [Reread(@) EXCEPT !.prepared = TRUE]]
    /\ UNCHANGED <<row, agent, inst, finished, home>>

(* The job process dies, its node stops, it meets an error, or its twelve  *)
(* steps are over.                                                         *)
JobFails(j) ==
    /\ Executing(job[j])
    /\ job' = [job EXCEPT ![j] = Failed]
    /\ UNCHANGED <<row, agent, inst, finished, home>>

-----------------------------------------------------------------------------
(* Platform calls of a job.  Only answers that a job records are shown; an *)
(* error is JobFails, before or after the call took effect.                *)

Ok(ref) == [op |-> "ok", ref |-> ref]
SettleWith(ref) == [op |-> "settle", ref |-> ref]
Rejected(ref) == [op |-> "rejected", ref |-> ref]
Answer(j, res) ==
    job' = [job EXCEPT ![j] = [@ EXCEPT !.pc = "record", !.res = res]]

(* Mutant of StorageRef: the row's reference is good enough.               *)
StorageRefOfRow(snap) == snap.storage

(* current_storage_ref/2; a missing one keeps the row's.                   *)
StorageRef(snap) ==
    IF Kind = "cloudflare" /\ home # None THEN home ELSE snap.storage

OfGeneration(g) == {i \in inst : i.gen = g}

NewInstances(g, phase) ==
    {[gen |-> g, ref |-> r, phase |-> phase] :
       r \in IF NamedByGeneration THEN {g} ELSE InstanceRefs \ KnownRefs}

(* A second create of a generation answers with the instance that has its  *)
(* name: a stopped container is started, a missing Pod is added.           *)
Restarted(i) ==
    CASE Kind = "docker" /\ i.phase = "exited" -> [i EXCEPT !.phase = "running"]
      [] i.phase = "partial" -> [i EXCEPT !.phase = "starting"]
      [] OTHER -> i

CanCreate(g) ==
    \/ Kind # "cloudflare"
    \/ \A i \in inst : i.gen = g

CallCreate(j) ==
    LET g == job[j].seen.gen IN
    /\ job[j].pc = "call" /\ job[j].act.op = "create"
    /\ CanCreate(g)
    /\ g \notin finished
    /\ \/ /\ OfGeneration(g) = {}
          /\ \E i \in NewInstances(g, "starting") :
                /\ inst' = inst \cup {i}
                /\ Answer(j, Ok(IF Kind = "pausing" THEN i.ref ELSE None))
          /\ home' = IF Kind = "cloudflare" THEN job[j].seen.storage ELSE home
       \/ \E i \in OfGeneration(g) :
             /\ inst' = (inst \ {i}) \cup {Restarted(i)}
             /\ Answer(j, Ok(IF Kind = "pausing" THEN i.ref ELSE None))
             /\ UNCHANGED home
    /\ UNCHANGED <<row, agent, finished>>

(* Kubernetes: the Secret was written and the Pod was not.                 *)
CallCreateHalf(j) ==
    LET g == job[j].seen.gen IN
    /\ Kind = "kubernetes"
    /\ job[j].pc = "call" /\ job[j].act.op = "create"
    /\ OfGeneration(g) = {}
    /\ inst' = inst \cup NewInstances(g, "partial")
    /\ job' = [job EXCEPT ![j] = Failed]
    /\ UNCHANGED <<row, agent, finished, home>>

(* A definite refusal, followed by the read of the storage reference.  A   *)
(* Pod can be refused after its Secret was written.  Cloudflare refuses a  *)
(* finished generation, finishes one whose image is not deployed, and      *)
(* refuses a malformed contract; it answers an existing generation first.  *)
CallCreateRejected(j) ==
    LET g == job[j].seen.gen IN
    /\ job[j].pc = "call" /\ job[j].act.op = "create"
    /\ Kind = "cloudflare" => inst = {}
    /\ finished' \in IF Kind = "cloudflare" THEN {finished, finished \cup {g}}
                    ELSE {finished}
    /\ \/ inst' = inst
       \/ /\ Kind = "kubernetes" /\ OfGeneration(g) = {}
          /\ inst' = inst \cup NewInstances(g, "partial")
    /\ Answer(j, Rejected(StorageRef(job[j].seen)))
    /\ UNCHANGED <<row, agent, home>>

Targets(o) ==
    {i \in inst : i.gen = o.gen /\ (NamedByGeneration \/ i.ref = o.ref)}

(* delete_instance/3: an accepted request does not prove absence.          *)
DeleteInstance(o) ==
    inst' = (inst \ Targets(o)) \cup
            {[i EXCEPT !.phase = "terminating"] :
               i \in {k \in Targets(o) : k.phase \notin {"exited", "partial"}}}

IsPauseCall(act) ==
    act.op = "pause" \/ (act.op = "release" /\ PauseRelease(act.reason))

CallDelete(j) ==
    /\ job[j].pc = "call"
    /\ job[j].act.op \in {"delete_object", "delete_now", "replace", "release"}
    /\ ~IsPauseCall(job[j].act)
    /\ DeleteInstance(job[j].act.obj)
    /\ finished' = IF Kind = "cloudflare"
                   THEN finished \cup
                        {i.gen : i \in {k \in Targets(job[j].act.obj) :
                                          k.phase \in {"exited", "partial"}}}
                   ELSE finished
    /\ Answer(j, Ok(None))
    /\ UNCHANGED <<row, agent, home>>

(* pause_instance/2 of an instance that still runs or already pauses.      *)
CallPause(j) ==
    /\ job[j].pc = "call" /\ IsPauseCall(job[j].act)
    /\ \E i \in Targets(job[j].act.obj) :
         /\ i.phase \notin {"exited", "terminating"}
         /\ inst' = (inst \ {i}) \cup
                    {IF i.phase = "paused" THEN i
                     ELSE [i EXCEPT !.phase = "suspending"]}
    /\ Answer(j, Ok(None))
    /\ UNCHANGED <<row, agent, finished, home>>

CallResume(j) ==
    /\ job[j].pc = "call" /\ job[j].act.op = "resume"
    /\ \/ \E i \in Targets(job[j].act.obj) :
            /\ i.phase \notin {"exited", "terminating"}
            /\ inst' = (inst \ {i}) \cup
                 {IF i.phase = "paused" THEN [i EXCEPT !.phase = "running"]
                  ELSE i}
            /\ Answer(j, Ok(None))
       \/ /\ \A i \in Targets(job[j].act.obj) : i.phase = "exited"
          /\ Answer(j, SettleWith(StorageRef(job[j].seen)))
          /\ UNCHANGED inst
    /\ UNCHANGED <<row, agent, finished, home>>

CallMarkAbsent(j) ==
    /\ job[j].pc = "call" /\ job[j].act.op = "mark_absent"
    /\ Answer(j, SettleWith(StorageRef(job[j].seen)))
    /\ UNCHANGED <<row, agent, inst, finished, home>>

(* delete_storage/3; storage in use is an error.                           *)
CallDeleteStorage(j) ==
    /\ job[j].pc = "call" /\ job[j].act.op = "delete_storage"
    /\ inst = {}
    /\ \/ /\ home' = None
          /\ Answer(j, Ok(None))
       \/ /\ Kind \in {"kubernetes", "pausing"}
          /\ Answer(j, SettleWith(Progress))
          /\ UNCHANGED home
    /\ UNCHANGED <<row, agent, inst, finished>>

Call(j) ==
    \/ CallCreate(j) \/ CallCreateHalf(j) \/ CallCreateRejected(j)
    \/ CallDelete(j) \/ CallPause(j) \/ CallResume(j)
    \/ CallMarkAbsent(j) \/ CallDeleteStorage(j)

(* Mutant of Apply: the progress of a storage deletion lands in the wrong  *)
(* column.                                                                 *)
ApplyToRef(act, res) ==
    CASE act.op = "create" /\ res.op = "ok" ->
            [row EXCEPT !.ref = IF res.ref # None THEN res.ref ELSE @]
      [] act.op = "delete_storage" ->
            IF res.op = "ok" THEN Removed ELSE [row EXCEPT !.ref = res.ref]
      [] act.op # "delete_storage" /\ res.op \in {"rejected", "settle"} ->
            Settle(row, res.ref)
      [] OTHER -> row

(* apply_result/3 on the locked row.                                       *)
Apply(act, res) ==
    CASE act.op = "create" /\ res.op = "ok" ->
            [row EXCEPT !.ref = IF res.ref # None THEN res.ref ELSE @]
      [] act.op = "delete_storage" ->
            IF res.op = "ok" THEN Removed
            ELSE [row EXCEPT !.storage = res.ref]
      [] act.op # "delete_storage" /\ res.op \in {"rejected", "settle"} ->
            Settle(row, res.ref)
      [] OTHER -> row

(* record/3: the answer counts only while the row keeps the lifecycle that *)
(* the call was based on; a recorded rejection ends the job.               *)
Record(j) ==
    LET l == job[j]
        current == Exists(row) /\ Lifecycle(row) = l.seen
    IN
    /\ l.pc = "record"
    /\ row' = IF current THEN Apply(l.act, l.res) ELSE row
    /\ job' = [job EXCEPT ![j] = IF current /\ l.res.op = "rejected"
                                 THEN Idling ELSE Loop(@, Same(l.act))]
    /\ UNCHANGED <<agent, inst, finished, home>>

JobStep(j) ==
    \/ StartJob(j) \/ ReadRow(j) \/ ListInstances(j) \/ Decide(j)
    \/ Prepare(j) \/ Call(j) \/ Record(j)

-----------------------------------------------------------------------------
(* The Worker's process and its connection *)

Alive(i) == i.phase \in {"running", "suspending", "terminating"}

(* admit_in_tx/1: a Channel join with the credential of the row's current  *)
(* generation.  The socket checked the same credential before.             *)
Join(i) ==
    /\ Alive(i)
    /\ i.gen = row.gen
    /\ CanAdmit(row, Process(i))
    /\ row' = Admit(row, Process(i), Process(i), 0)
    /\ UNCHANGED <<agent, inst, finished, home, job>>

(* renew_in_tx/1, and the clock.                                           *)
Heartbeat(i) ==
    /\ Alive(i)
    /\ CanRenew(row, Process(i), Process(i))
    /\ row' = Renew(row, 0, 0)
    /\ UNCHANGED <<agent, inst, finished, home, job>>

HeartbeatAges ==
    /\ row.beat = "fresh"
    /\ row' = [row EXCEPT !.beat = "old"]
    /\ UNCHANGED <<agent, inst, finished, home, job>>

(* release_route_in_tx/1: the socket closed.                               *)
ReleaseRoute ==
    /\ row.route # None
    /\ CanDisconnect(row)
    /\ row' = Disconnect(row)
    /\ UNCHANGED <<agent, inst, finished, home, job>>

(* drain_in_tx/1: the Worker reports SIGTERM on its own connection.        *)
ControlShutdown ==
    /\ row.route # None /\ row.state \in ConnectedStates
    /\ row' = Drain(row, IF row.drain # None THEN row.drain ELSE "shutdown")
    /\ UNCHANGED <<agent, inst, finished, home, job>>

-----------------------------------------------------------------------------
(* The Agent's owner and its callers *)

SetAgent(status) ==
    /\ agent # "deleted" /\ agent # status
    /\ agent' = status
    /\ UNCHANGED <<row, inst, finished, home, job>>

DisableAgent == SetAgent("disabled")
EnableAgent == SetAgent("active")

(* mark_deleting_in_tx/1, in the Agent's deletion transaction.             *)
DeleteAgent ==
    /\ agent # "deleted"
    /\ agent' = "deleted"
    /\ row' = IF Exists(row) THEN MarkDeleting(row) ELSE row
    /\ UNCHANGED <<inst, finished, home, job>>

(* request/1 and the end of its five minutes.                              *)
RequestWorker ==
    /\ Exists(row) /\ CanRequest(row) /\ ~row.wanted
    /\ row' = Request(row)
    /\ UNCHANGED <<agent, inst, finished, home, job>>

WantedExpires ==
    /\ row.wanted
    /\ row' = [row EXCEPT !.wanted = FALSE]
    /\ UNCHANGED <<agent, inst, finished, home, job>>

AssignProvider ==
    /\ Exists(row) /\ CanAssign(row)
    /\ row' = Assign(row)
    /\ UNCHANGED <<agent, inst, finished, home, job>>

(* prepare_rename/1: a disabled Agent's instance is drained first.         *)
PrepareRename ==
    /\ agent = "disabled"
    /\ row.state \notin {"absent", "deleting", "removed"}
    /\ row' = Drain(row, "rename")
    /\ UNCHANGED <<agent, inst, finished, home, job>>

(* rename_worker_in_tx/2: the old name's row goes the way of a deleted     *)
(* Agent's; the new name gets a row of its own.                            *)
RenameWorker ==
    /\ agent = "disabled" /\ row.state = "absent"
    /\ agent' = "deleted"
    /\ row' = MarkDeleting(row)
    /\ UNCHANGED <<inst, finished, home, job>>

Owner ==
    \/ DisableAgent \/ EnableAgent \/ DeleteAgent \/ RequestWorker
    \/ WantedExpires \/ AssignProvider \/ PrepareRename \/ RenameWorker

-----------------------------------------------------------------------------
(* The platform by itself *)

Become(i, phase) ==
    /\ inst' = (inst \ {i}) \cup {[i EXCEPT !.phase = phase]}
    /\ UNCHANGED <<row, agent, finished, home, job>>

Boots(i) == i.phase = "starting" /\ Become(i, "running")
Suspends(i) == i.phase = "suspending" /\ Become(i, "paused")
OperatorResumes(i) == i.phase = "paused" /\ Become(i, "running")
Exits(i) ==
    /\ i.phase \in {"starting", "running", "paused", "suspending", "terminating"}
    /\ Become(i, "exited")

(* A stopped instance leaves the list.  A Pod leaves its Secret behind; a  *)
(* Cloudflare instance leaves its last backup and a finished receipt.      *)
Vanishes(i) ==
    /\ i.phase \in {"terminating", "exited"}
    /\ IF Kind = "kubernetes"
       THEN inst' = (inst \ {i}) \cup {[i EXCEPT !.phase = "partial"]}
       ELSE inst' = inst \ {i}
    /\ finished' = IF Kind = "cloudflare" THEN finished \cup {i.gen}
                   ELSE finished
    /\ home' \in IF Kind = "cloudflare" THEN {home, i.gen} ELSE {home}
    /\ UNCHANGED <<row, agent, job>>

(* A Cloudflare create that was listed while it started fails to start:    *)
(* the object forgets the instance and keeps no receipt.                   *)
StartFails(i) ==
    /\ Kind = "cloudflare" /\ i.phase = "starting"
    /\ inst' = inst \ {i}
    /\ UNCHANGED <<row, agent, finished, home, job>>

(* Mutant of SweepOrphan: a Secret without its Pod is no orphan.           *)
SweepOrphanPod(i) ==
    /\ ~Exists(row) /\ i.phase # "partial"
    /\ DeleteInstance(Observe(i))
    /\ UNCHANGED <<row, agent, finished, home, job>>

(* SweepJob.delete_orphan/3: nothing owns the instance any more.           *)
SweepOrphan(i) ==
    /\ ~Exists(row)
    /\ DeleteInstance(Observe(i))
    /\ UNCHANGED <<row, agent, finished, home, job>>

Platform(i) ==
    \/ Boots(i) \/ Suspends(i) \/ OperatorResumes(i)
    \/ Exits(i) \/ Vanishes(i) \/ StartFails(i)

Worker(i) == Join(i) \/ Heartbeat(i)
Connection == HeartbeatAges \/ ReleaseRoute \/ ControlShutdown

Next ==
    \/ \E j \in Jobs : JobStep(j) \/ JobFails(j)
    \/ \E i \in inst : Worker(i) \/ Platform(i) \/ SweepOrphan(i)
    \/ Connection
    \/ Owner

Spec == Init /\ [][Next]_vars

(***************************************************************************)
(* Fairness.  SweepJob enqueues a job for every row with work each minute  *)
(* and a failed job is retried, so jobs go on; a platform that keeps being *)
(* asked serves the request in the end, stops what it was told to stop and *)
(* boots what it created; a process joins; time passes.  From some moment  *)
(* on no job dies, no create is refused and no process exits of itself:    *)
(* with a crash in every round nothing could be promised.                  *)
(***************************************************************************)
CallServed(j) == Call(j) /\ job'[j].res # SettleWith(Progress)

Disturbance ==
    \/ \E j \in Jobs : JobFails(j) \/ CallCreateRejected(j) \/ CallCreateHalf(j)
    \/ \E i \in inst : Exits(i)

Fairness ==
    /\ \A j \in Jobs : /\ WF_vars(JobStep(j))
                        /\ SF_vars(CallServed(j))
    /\ WF_vars(\E i \in inst : i.phase = "terminating" /\ Vanishes(i))
    /\ WF_vars(\E i \in inst : Boots(i))
    /\ WF_vars(\E i \in inst : SweepOrphan(i))
    /\ SF_vars(\E i \in inst : Join(i))
    /\ WF_vars(HeartbeatAges)
    /\ <>[][~Disturbance]_vars

FairSpec == Spec /\ Fairness
-----------------------------------------------------------------------------
(* Every variable holds a value the code can hold.                         *)
TypeOK ==
    /\ row \in Rows
    /\ agent \in {"active", "disabled", "deleted"}
    /\ inst \subseteq Instances
    /\ finished \subseteq Generations
    /\ home \in StorageRefs
    /\ job \in [Jobs -> JobStates]

-----------------------------------------------------------------------------
(* Safety, for any number of overlapping jobs *)

(* No UPDATE of any actor, in any order, breaks a check constraint of the  *)
(* agent_workers table; a job or a join that broke one would raise.        *)
RowConstraints == CheckConstraints(row)

(* Every change of the row's state is a transition that the AgentWorker    *)
(* resource declares.  The resource refuses any other, and the job or the  *)
(* process that asked for it would crash.                                  *)
TransitionsDeclared == [][Declared(row, row')]_vars

(* The connection and the incarnation on the row belong to a process of    *)
(* the row's own generation: neither outlives its generation.              *)
ConnectionCurrent ==
    /\ row.route # None => row.route.gen = row.gen
    /\ row.inc # None => row.inc.gen = row.gen

(* A generation that was sent to the platform is given up only after one   *)
(* of its instances was observed, or by the answer of a refused create:    *)
(* an unobserved generation is an unsettled create.                        *)
UnsettledKept ==
    [][ row.gen # None /\ row.sent /\ ~row.seen /\ row'.gen # row.gen =>
          \E j \in Jobs : /\ job[j].pc = "record"
                          /\ job[j].res.op = "rejected"
                          /\ job[j].seen.gen = row.gen ]_vars

(* An Agent's deletion is final: the row accepts no process, begins no     *)
(* generation and leaves its state only by its removal.                    *)
DeletionFinal ==
    [][ row.state = "deleting" =>
          /\ row'.state \in {"deleting", "removed"}
          /\ row'.route = None
          /\ row'.gen \in {row.gen, None} ]_vars

-----------------------------------------------------------------------------
(* Safety, while jobs do not overlap *)

(* The Agent's Home has a single writer: the platform never holds two      *)
(* instances at once, stopped ones and left-over Secrets included.         *)
SingleWriter == \A i, k \in inst : i = k

(* What the documents promise for overlapping jobs too: no two running     *)
(* processes write the Agent's Home at once.                               *)
OneRunning ==
    \A i, k \in inst : i.phase = "running" /\ k.phase = "running" => i = k

(* The row of a deleted Agent is removed only when nothing is left on the  *)
(* platform and no create can still land.                                  *)
RemovedClean == ~Exists(row) => inst = {} /\ row.gen = None

(* A create restores Home from the latest backup: the storage reference    *)
(* was read and committed before the row could become absent.              *)
CreateRestoresLatest == [][inst = {} /\ inst' # {} => home' = home]_vars
-----------------------------------------------------------------------------
(* The lease of the Agent's Home that rows, jobs and platform implement:   *)
(* the row's generation is the grant, the instance on the platform is the  *)
(* holder.                                                                 *)
Holder == IF inst = {} THEN None ELSE (CHOOSE i \in inst : TRUE).gen

Lease == INSTANCE HomeLease WITH grant <- row.gen, holder <- Holder

(* Every step of the system is a step of the lease or leaves it alone; so  *)
(* a generation begins only when no instance of an earlier one is left,    *)
(* and an instance appears only for the generation granted at that moment. *)
ImplementsLease == Lease!Spec

-----------------------------------------------------------------------------
(* Liveness, under FairSpec *)

(* A deletion ends: whatever was running, unsettled or stored is taken     *)
(* away and the row is removed.                                            *)
DeletionCompletes == row.state = "deleting" ~> ~Exists(row)

(* A drain ends, also when the connection it waits for is never closed.    *)
DrainEnds == row.state = "draining" ~> row.state # "draining"

(* The first start asked for by a registration does not stay pending while *)
(* the Agent stays active.                                                 *)
StartupCompletes ==
    []<>(agent # "active" \/ ~row.assigned \/ ~row.pending)

(* An instance whose row is gone does not stay: a create that lands after  *)
(* the removal is swept.                                                   *)
OrphansSwept == ~Exists(row) ~> inst = {}
=============================================================================
