------------------------- MODULE AgentWorkersProofs -------------------------
(***************************************************************************)
(* Theorems about AgentWorkers, for every set of generations, references   *)
(* and jobs and for every provider kind.                                   *)
(***************************************************************************)
EXTENDS AgentWorkers, TLAPS

(* What every row keeps, whoever wrote it last.                            *)
Connected(r) ==
    /\ r.route # None => r.route.gen = r.gen
    /\ r.inc # None => r.inc.gen = r.gen

GoodRow(r) == r \in Rows /\ CheckConstraints(r) /\ Connected(r)

-----------------------------------------------------------------------------
(* The write actions of the row *)

(* A registered row and the mark of a removed one are good rows.           *)
LEMMA FreshRows ==
    /\ \A assigned \in BOOLEAN : GoodRow(Register(assigned))
    /\ GoodRow(Removed)
BY DEF GoodRow, Connected, Register, Removed, Rows, States, StorageRefs, Beats,
       CheckConstraints, GenerationState, SeenWithGeneration,
       ProviderWithGeneration, RouteState, ReadyConnection, ConnectedStates

USE DEF Rows, States, Reasons, Beats, ConnectedStates, JoinStates

(* A new generation begins on an assigned row that has none.               *)
LEMMA BeginGenerationGood ==
    ASSUME NoneAssumption,
           NEW r, GoodRow(r), r.state = "absent", r.assigned,
           NEW g \in Generations
    PROVE  GoodRow(BeginGeneration(r, g))
<1> DEFINE b == BeginGeneration(r, g)
<1>1. r.gen = None /\ r.inc = None /\ r.route = None
  BY DEF GoodRow, Connected, CheckConstraints, GenerationState, RouteState,
         NoneAssumption, Processes
<1>2. b \in Rows
  BY DEF GoodRow, BeginGeneration
<1>3. CheckConstraints(b)
  BY <1>1 DEF GoodRow, BeginGeneration, CheckConstraints, NoneAssumption,
       GenerationState, SeenWithGeneration, ProviderWithGeneration,
       RouteState, ReadyConnection
<1>4. Connected(b)
  BY <1>1 DEF GoodRow, BeginGeneration, Connected
<1> QED
  BY <1>2, <1>3, <1>4 DEF GoodRow

(* A drain leaves a row that had a generation a good one.                  *)
LEMMA DrainGood ==
    ASSUME NEW r, GoodRow(r), r.state \notin {"absent", "deleting", "removed"},
           NEW reason \in Reasons \cup {None}
    PROVE  GoodRow(Drain(r, reason))
<1>1. Drain(r, reason) \in Rows
  BY DEF GoodRow, Drain
<1>2. CheckConstraints(Drain(r, reason))
  BY DEF GoodRow, CheckConstraints, GenerationState, SeenWithGeneration,
         ProviderWithGeneration, RouteState, ReadyConnection, Drain
<1>3. Connected(Drain(r, reason))
  BY DEF GoodRow, Connected, Drain
<1> QED
  BY <1>1, <1>2, <1>3 DEF GoodRow

(* A paused or starting row has no route to lose.                          *)
LEMMA ResumeGood ==
    ASSUME NEW r, GoodRow(r), CanResume(r)
    PROVE  GoodRow(Resume(r))
<1>1. Resume(r) \in Rows
  BY DEF GoodRow, Resume, CanResume
<1>2. CheckConstraints(Resume(r))
  BY DEF GoodRow, CheckConstraints, GenerationState, SeenWithGeneration,
         ProviderWithGeneration, RouteState, ReadyConnection, Resume, CanResume
<1>3. Connected(Resume(r))
  BY DEF GoodRow, Connected, Resume, CanResume
<1> QED
  BY <1>1, <1>2, <1>3 DEF GoodRow

(* The instance of a draining row is frozen.                               *)
LEMMA PauseGood ==
    ASSUME NEW r, GoodRow(r), CanPause(r)
    PROVE  GoodRow(Pause(r))
<1>1. Pause(r) \in Rows
  BY DEF GoodRow, Pause, CanPause
<1>2. CheckConstraints(Pause(r))
  BY DEF GoodRow, CheckConstraints, GenerationState, SeenWithGeneration,
         ProviderWithGeneration, RouteState, ReadyConnection, Pause, CanPause
<1>3. Connected(Pause(r))
  BY DEF GoodRow, Connected, Pause, CanPause
<1> QED
  BY <1>1, <1>2, <1>3 DEF GoodRow

(* A process of the row's generation is admitted.                          *)
LEMMA AdmitGood ==
    ASSUME NoneAssumption,
           NEW r, GoodRow(r), NEW p \in Processes, p.gen = r.gen,
           r.state \in JoinStates
    PROVE  GoodRow(Admit(r, p, p, 0))
<1>1. Admit(r, p, p, 0) \in Rows
  BY DEF GoodRow, Admit
<1>2. CheckConstraints(Admit(r, p, p, 0))
  BY DEF GoodRow, CheckConstraints, GenerationState, SeenWithGeneration,
         ProviderWithGeneration, RouteState, ReadyConnection, Admit, Processes, NoneAssumption, InstanceRefs
<1>3. Connected(Admit(r, p, p, 0))
  BY DEF GoodRow, Connected, Admit, Processes, NoneAssumption, InstanceRefs
<1> QED
  BY <1>1, <1>2, <1>3 DEF GoodRow

(* A heartbeat.                                                            *)
LEMMA RenewGood ==
    ASSUME NEW r, GoodRow(r)
    PROVE  GoodRow(Renew(r, 0, 0))
<1>1. Renew(r, 0, 0) \in Rows
  BY DEF GoodRow, Renew
<1>2. CheckConstraints(Renew(r, 0, 0))
  BY DEF GoodRow, CheckConstraints, GenerationState, SeenWithGeneration,
         ProviderWithGeneration, RouteState, ReadyConnection, Renew
<1>3. Connected(Renew(r, 0, 0))
  BY DEF GoodRow, Connected, Renew
<1> QED
  BY <1>1, <1>2, <1>3 DEF GoodRow

(* The connection is lost.                                                 *)
LEMMA DisconnectGood ==
    ASSUME NEW r, GoodRow(r), CanDisconnect(r)
    PROVE  GoodRow(Disconnect(r))
<1>1. Disconnect(r) \in Rows
  <2> DEFINE after == IF r.state = "draining" THEN "draining" ELSE "stale"
  <2>1. Disconnect(r) = [r EXCEPT !.state = after, !.route = None]
    BY DEF GoodRow, Disconnect
  <2>2. after \in States
    OBVIOUS
  <2> HIDE DEF after
  <2> QED
    BY <2>1, <2>2 DEF GoodRow
<1>2. CheckConstraints(Disconnect(r))
  BY DEF GoodRow, CheckConstraints, GenerationState, SeenWithGeneration,
         ProviderWithGeneration, RouteState, ReadyConnection, Disconnect, CanDisconnect
<1>3. Connected(Disconnect(r))
  BY DEF GoodRow, Connected, Disconnect, CanDisconnect
<1> QED
  BY <1>1, <1>2, <1>3 DEF GoodRow

(* The generation ends.                                                    *)
LEMMA SettleGood ==
    ASSUME NEW r, GoodRow(r), Exists(r), NEW storage \in StorageRefs
    PROVE  GoodRow(Settle(r, storage))
<1>1. Settle(r, storage) \in Rows
  <2> DEFINE after == IF r.state = "deleting" THEN "deleting" ELSE "absent"
  <2>1. Cleared(r, storage) \in Rows /\ Cleared(r, storage).state = r.state
    BY DEF GoodRow, Cleared
  <2>2. Settle(r, storage)
          = [Cleared(r, storage) EXCEPT !.state = after, !.inc = None]
    BY <2>1 DEF Settle
  <2>3. after \in States
    OBVIOUS
  <2> HIDE DEF after
  <2> QED
    BY <2>1, <2>2, <2>3
<1>2. CheckConstraints(Settle(r, storage))
  BY DEF GoodRow, CheckConstraints, GenerationState, SeenWithGeneration,
         ProviderWithGeneration, RouteState, ReadyConnection, Settle, Cleared, Exists
<1>3. Connected(Settle(r, storage))
  BY DEF GoodRow, Connected, Settle, Cleared, Exists
<1> QED
  BY <1>1, <1>2, <1>3 DEF GoodRow

(* The Agent is deleted.                                                   *)
LEMMA MarkDeletingGood ==
    ASSUME NEW r, GoodRow(r)
    PROVE  GoodRow(MarkDeleting(r))
<1>1. MarkDeleting(r) \in Rows
  BY DEF GoodRow, MarkDeleting
<1>2. CheckConstraints(MarkDeleting(r))
  BY DEF GoodRow, CheckConstraints, GenerationState, SeenWithGeneration,
         ProviderWithGeneration, RouteState, ReadyConnection, MarkDeleting
<1>3. Connected(MarkDeleting(r))
  BY DEF GoodRow, Connected, MarkDeleting
<1> QED
  BY <1>1, <1>2, <1>3 DEF GoodRow

(* An observation is recorded on a row that has a generation.              *)
LEMMA SeenGood ==
    ASSUME NEW r, GoodRow(r), r.gen # None
    PROVE  GoodRow([r EXCEPT !.seen = TRUE])
<1>1. [r EXCEPT !.seen = TRUE] \in Rows
  BY DEF GoodRow
<1> QED
  BY <1>1 DEF GoodRow, Connected, CheckConstraints, GenerationState, SeenWithGeneration,
         ProviderWithGeneration, RouteState, ReadyConnection

(* The discovered reference is recorded.                                   *)
LEMMA RefGood ==
    ASSUME NEW r, GoodRow(r), NEW ref \in InstanceRefs \cup {None}
    PROVE  GoodRow([r EXCEPT !.ref = ref])
<1>1. [r EXCEPT !.ref = ref] \in Rows
  BY DEF GoodRow
<1> QED
  BY <1>1 DEF GoodRow, Connected, CheckConstraints, GenerationState, SeenWithGeneration,
         ProviderWithGeneration, RouteState, ReadyConnection

(* A create is about to be sent.                                           *)
LEMMA SentGood ==
    ASSUME NEW r, GoodRow(r), r.gen # None
    PROVE  GoodRow([r EXCEPT !.sent = TRUE])
<1>1. [r EXCEPT !.sent = TRUE] \in Rows
  BY DEF GoodRow
<1> QED
  BY <1>1 DEF GoodRow, Connected, CheckConstraints, GenerationState, SeenWithGeneration,
         ProviderWithGeneration, RouteState, ReadyConnection

(* The progress of a storage deletion is recorded.                         *)
LEMMA StorageGood ==
    ASSUME NEW r, GoodRow(r), NEW storage \in StorageRefs
    PROVE  GoodRow([r EXCEPT !.storage = storage])
<1>1. [r EXCEPT !.storage = storage] \in Rows
  BY DEF GoodRow
<1> QED
  BY <1>1 DEF GoodRow, Connected, CheckConstraints, GenerationState, SeenWithGeneration,
         ProviderWithGeneration, RouteState, ReadyConnection

(* Requests and time.                                                      *)
LEMMA WantedGood ==
    ASSUME NEW r, GoodRow(r), NEW wanted \in BOOLEAN
    PROVE  GoodRow([r EXCEPT !.wanted = wanted])
<1>1. [r EXCEPT !.wanted = wanted] \in Rows
  BY DEF GoodRow
<1> QED
  BY <1>1 DEF GoodRow, Connected, CheckConstraints, GenerationState, SeenWithGeneration,
         ProviderWithGeneration, RouteState, ReadyConnection

(* A heartbeat ages.                                                       *)
LEMMA BeatGood ==
    ASSUME NEW r, GoodRow(r), NEW beat \in Beats
    PROVE  GoodRow([r EXCEPT !.beat = beat])
<1>1. [r EXCEPT !.beat = beat] \in Rows
  BY DEF GoodRow
<1> QED
  BY <1>1 DEF GoodRow, Connected, CheckConstraints, GenerationState, SeenWithGeneration,
         ProviderWithGeneration, RouteState, ReadyConnection

(* A provider is assigned.                                                 *)
LEMMA AssignGood ==
    ASSUME NEW r, GoodRow(r)
    PROVE  GoodRow([r EXCEPT !.assigned = TRUE])
<1>1. [r EXCEPT !.assigned = TRUE] \in Rows
  BY DEF GoodRow
<1> QED
  BY <1>1 DEF GoodRow, Connected, CheckConstraints, GenerationState, SeenWithGeneration,
         ProviderWithGeneration, RouteState, ReadyConnection

-----------------------------------------------------------------------------
(* Decisions *)

Optional(S) == S \cup {None}

(* What a job may rely on when it takes the action that NextAction chose.  *)
SafeAct(r, current, stray, act) ==
    /\ act \in Acts
    /\ act.op = "begin_create" => r.state = "absent" /\ stray = None
    /\ act.op = "create" =>
          /\ r.gen # None /\ stray = None
          /\ current # None => current.gen = r.gen
    /\ act.op \in {"replace", "release", "resume"} =>
          r.state \notin {"absent", "deleting"}
    /\ act.op = "resume" => CanResume(r) /\ current # None /\ current.present
    /\ act.op = "mark_paused" => CanPause(r)
    /\ act.op = "mark_absent" => r.seen
    /\ act.op = "delete_storage" => r.state = "deleting" /\ r.gen = None

(* The branches of an instance that is on the platform.                    *)
LEMMA DrainingSafe ==
    ASSUME NEW r, GoodRow(r), r.state = "draining", NEW facts,
           NEW current \in Observations
    PROVE  SafeAct(r, current, None, Draining(r, facts, current))
<1> DEFINE safe(act) == SafeAct(r, current, None, act)
<1>1. safe(Wait) /\ safe(Do("mark_paused"))
  BY DEF SafeAct, Wait, Do, Act, Acts, Ops, Optional, CanPause
<1>2. \A op \in {"delete_now", "pause"} : safe(Act(op, None, current))
  BY DEF SafeAct, Act, Acts, Ops, Optional
<1> HIDE DEF safe
<1>3. safe(Draining(r, facts, current))
  BY <1>1, <1>2 DEF Draining
<1> QED
  BY <1>3 DEF safe

LEMMA PausedSafe ==
    ASSUME NoneAssumption,
           NEW r, GoodRow(r), r.state = "paused", NEW facts,
           NEW current \in Observations, current.present
    PROVE  SafeAct(r, current, None, Paused(r, facts, current))
<1> DEFINE safe(act) == SafeAct(r, current, None, act)
<1>1. safe(NoAction)
  BY DEF SafeAct, NoAction, Act, Acts, Ops, Optional
<1>2. \A reason \in {"replacement", "not_needed"} :
        safe(Act("replace", reason, current))
  BY DEF SafeAct, Act, Acts, Ops, Optional
<1>3. current # None => safe(Act("resume", None, current))
  BY DEF SafeAct, Act, Acts, Ops, Optional, CanResume
<1>4. current # None
  BY DEF NoneAssumption
<1> HIDE DEF safe
<1>5. safe(Paused(r, facts, current))
  BY <1>1, <1>2, <1>3, <1>4 DEF Paused
<1> QED
  BY <1>5 DEF safe

LEMMA StartingInstanceSafe ==
    ASSUME NoneAssumption,
           NEW r, GoodRow(r), r.state = "starting", NEW current \in Observations,
           IsCurrent(r, current), current.present
    PROVE  SafeAct(r, current, None, StartingInstance(r, current))
<1> DEFINE safe(act) == SafeAct(r, current, None, act)
<1>1. safe(Wait)
  BY DEF SafeAct, Wait, Act, Acts, Ops, Optional
<1>2. safe(Act("resume", None, current))
  BY DEF SafeAct, Act, Acts, Ops, Optional, CanResume, NoneAssumption
<1>3. safe(Do("create"))
  BY DEF SafeAct, Do, Act, Acts, Ops, Optional, IsCurrent
<1> HIDE DEF safe
<1>4. safe(StartingInstance(r, current))
  BY <1>1, <1>2, <1>3 DEF StartingInstance
<1> QED
  BY <1>4 DEF safe

LEMMA RunningSafe ==
    ASSUME NoneAssumption,
           NEW r, GoodRow(r), r.state \in {"starting", "stale", "ready"},
           NEW facts, NEW current \in Observations,
           IsCurrent(r, current), current.present
    PROVE  SafeAct(r, current, None, Running(r, facts, current))
<1> DEFINE safe(act) == SafeAct(r, current, None, act)
<1>1. \A reason \in {"replacement", "rebuild"} :
        safe(Act("replace", reason, current))
  BY DEF SafeAct, Act, Acts, Ops, Optional
<1>2. \A reason \in {"not_needed", "agent_inactive", "idle_release"} :
        safe(Act("release", reason, current))
  BY DEF SafeAct, Act, Acts, Ops, Optional
<1>3. safe(NoAction)
  BY DEF SafeAct, NoAction, Act, Acts, Ops, Optional
<1>4. r.state = "starting" => safe(StartingInstance(r, current))
  BY StartingInstanceSafe
<1> HIDE DEF safe
<1>5. safe(RunningInstance(r, facts, current))
  BY <1>2, <1>3, <1>4 DEF RunningInstance
<1>6. safe(Running(r, facts, current))
  BY <1>1, <1>5 DEF Running
<1> QED
  BY <1>6 DEF safe

(* Every branch of NextAction is safe for the row it looks at.             *)
LEMMA NextActionSafe ==
    ASSUME NoneAssumption,
           NEW r, GoodRow(r), Exists(r), NEW facts,
           NEW current \in Optional(Observations),
           NEW stray \in Optional(Observations),
           current # None => IsCurrent(r, current)
    PROVE  SafeAct(r, current, stray, NextAction(r, current, stray, facts))
<1> DEFINE safe(act) == SafeAct(r, current, stray, act)
<1>1. CASE stray # None
  BY <1>1 DEF NextAction, SafeAct, Act, Acts, Ops, Optional
<1>2. CASE stray = None /\ current # None /\ ~current.present
  BY <1>2 DEF NextAction, SafeAct, Partial, Unsettled, Do, Act, Acts, Ops,
              Optional, IsCurrent
<1>3. CASE stray = None /\ ~(current # None /\ ~current.present)
           /\ r.state = "deleting"
  BY <1>3 DEF NextAction, SafeAct, Deleting, Unsettled, Do, Act, Acts, Ops,
              Optional, IsCurrent, GoodRow
<1>4. CASE stray = None /\ ~(current # None /\ ~current.present)
           /\ r.state = "absent"
  BY <1>4 DEF NextAction, SafeAct, Do, NoAction, Act, Acts, Ops, Optional
<1>5. CASE stray = None /\ ~(current # None /\ ~current.present)
           /\ r.state \notin {"absent", "deleting"}
  <2>1. r.gen # None
    BY <1>5 DEF GoodRow, CheckConstraints, GenerationState, Exists
  <2>2. current = None /\ Unsettled(r) => safe(Do("create"))
    BY <1>5, <2>1 DEF SafeAct, Do, Act, Acts, Ops, Optional
  <2>3. safe(Wait)
    BY <1>5 DEF SafeAct, Wait, Act, Acts, Ops, Optional
  <2>4. current = None /\ ~Unsettled(r) => safe(Do("mark_absent"))
    BY <1>5 DEF SafeAct, Unsettled, GoodRow, Do, Act, Acts, Ops, Optional
  <2>5. current # None => safe(Act("replace", "exited", current))
    BY <1>5 DEF SafeAct, Act, Acts, Ops, Optional
  <2>6. current # None /\ r.state = "draining"
          => safe(Draining(r, facts, current))
    BY <1>5, DrainingSafe DEF Optional
  <2>7. current # None /\ r.state = "paused" => safe(Paused(r, facts, current))
    BY <1>5, PausedSafe DEF Optional
  <2>8. current # None /\ r.state \in {"starting", "stale", "ready"}
          => safe(Running(r, facts, current))
    BY <1>5, RunningSafe DEF Optional
  <2>9. r.state \in {"draining", "paused", "starting", "stale", "ready"}
    BY <1>5 DEF GoodRow, Exists
  <2> HIDE DEF safe
  <2>10. safe(NextAction(r, current, stray, facts))
    BY <1>5, <2>2, <2>3, <2>4, <2>5, <2>6, <2>7, <2>8, <2>9 DEF NextAction
  <2> QED
    BY <2>10 DEF safe
<1> QED
  BY <1>1, <1>2, <1>3, <1>4, <1>5

-----------------------------------------------------------------------------
(* The inductive invariant *)

SafeCall(seen, act) ==
    /\ act.op = "create" => seen.gen # None
    /\ act.op \in {"mark_absent", "resume"} => seen.seen
    /\ act.op = "delete_storage" => seen.gen = None /\ seen.state = "deleting"

(* Only a create is refused; only these three calls settle.                *)
AnswerTo(act, res) ==
    /\ res.op = "rejected" => act.op = "create"
    /\ res.op = "settle" =>
          act.op \in {"mark_absent", "resume", "delete_storage"}

(* What a job carries from one of its steps to the next.                   *)
JobOK(l) ==
    /\ l.pc \in {"list", "decide", "call", "record"} => l.seen \in Snapshots
    /\ l.pc = "list" => l.seen.assigned
    /\ l.pc = "decide" /\ ~l.seen.assigned => l.seen.state = "deleting"
    /\ l.pc \in {"call", "record"} => l.act \in Acts /\ SafeCall(l.seen, l.act)
    /\ l.pc = "record" =>
          /\ l.res \in Answers
          /\ AnswerTo(l.act, l.res)

Inv ==
    /\ TypeOK
    /\ GoodRow(row)
    /\ \A j \in Jobs : JobOK(job[j])

World ==
    /\ agent \in {"active", "disabled", "deleted"}
    /\ inst \subseteq Instances
    /\ finished \subseteq Generations
    /\ home \in StorageRefs

(* A step of a job replaces its local state and leaves a good row.         *)
LEMMA JobUpdate ==
    ASSUME Inv, GoodRow(row'), World',
           NEW j \in Jobs, NEW l \in JobStates, JobOK(l),
           job' = [job EXCEPT ![j] = l]
    PROVE  Inv'
<1>1. TypeOK'
  BY DEF Inv, TypeOK, World, GoodRow
<1>2. ASSUME NEW k \in Jobs PROVE JobOK(job[k])'
  <2>1. CASE k = j
    <3>1. job'[k] = l
      BY <2>1 DEF Inv, TypeOK
    <3> QED
      BY <3>1 DEF JobOK, SafeCall, AnswerTo, Answers, Acts, Snapshots
  <2>2. CASE k # j
    <3>1. job'[k] = job[k]
      BY <2>2 DEF Inv, TypeOK
    <3>2. JobOK(job[k])
      BY DEF Inv
    <3> QED
      BY <3>1, <3>2 DEF JobOK, SafeCall, AnswerTo
  <2> QED
    BY <2>1, <2>2
<1> QED
  BY <1>1, <1>2 DEF Inv

(* The other actors leave the jobs alone.                                  *)
LEMMA OtherUpdate ==
    ASSUME Inv, GoodRow(row'), World', job' = job
    PROVE  Inv'
BY DEF Inv, TypeOK, World, GoodRow, JobOK, SafeCall, AnswerTo

-----------------------------------------------------------------------------
(* Jobs, between platform calls *)

LEMMA IdlingOK == Idling \in JobStates /\ JobOK(Idling)
BY DEF Idling, JobStates, PCs, JobOK

LEMMA FailedOK == Failed \in JobStates /\ JobOK(Failed)
BY DEF Failed, Idling, JobStates, PCs, JobOK

LEMMA LoopOK ==
    ASSUME NEW l \in JobStates, NEW prev \in Acts \cup {None}
    PROVE  Loop(l, prev) \in JobStates /\ JobOK(Loop(l, prev))
BY DEF Loop, Idling, JobStates, PCs, JobOK

LEMMA LifecycleType ==
    ASSUME NEW r, GoodRow(r)
    PROVE  Lifecycle(r) \in Snapshots
BY DEF GoodRow, Lifecycle, Snapshots

LEMMA ObserveType ==
    ASSUME NEW i \in Instances
    PROVE  Observe(i) \in Observations
BY DEF Observe, Instances, Observations, Phases

LEMMA StartJobOK ==
    ASSUME Inv, NEW j \in Jobs, StartJob(j)
    PROVE  Inv'
<1>1. GoodRow(row')
  BY DisconnectGood DEF StartJob, Inv, HeartbeatExpired, CanDisconnect
<1>2. World'
  BY DEF StartJob, Inv, TypeOK, World
<1>3. job' = [job EXCEPT ![j] = Loop(Idling, None)]
  BY DEF StartJob
<1> QED
  BY <1>1, <1>2, <1>3, IdlingOK, LoopOK, JobUpdate

LEMMA ReadRowOK ==
    ASSUME Inv, NEW j \in Jobs, ReadRow(j)
    PROVE  Inv'
<1> DEFINE read == [job[j] EXCEPT !.seen = Lifecycle(row),
                                  !.pc = IF row.assigned THEN "list"
                                         ELSE "decide"]
<1>1. GoodRow(row') /\ World'
  BY DEF ReadRow, Inv, TypeOK, World, GoodRow, Connected, CheckConstraints,
         GenerationState, SeenWithGeneration, ProviderWithGeneration,
         RouteState, ReadyConnection
<1>2. CASE ~Exists(row) \/ (~row.assigned /\ row.state # "deleting")
  <2>1. job' = [job EXCEPT ![j] = Idling]
    BY <1>2 DEF ReadRow
  <2> QED
    BY <1>1, <2>1, IdlingOK, JobUpdate
<1>3. CASE ~(~Exists(row) \/ (~row.assigned /\ row.state # "deleting"))
  <2>1. job' = [job EXCEPT ![j] = read]
    BY <1>3 DEF ReadRow
  <2>2. read \in JobStates
    <3> DEFINE pc == IF row.assigned THEN "list" ELSE "decide"
    <3>1. job[j] \in JobStates /\ Lifecycle(row) \in Snapshots
      BY LifecycleType DEF Inv, TypeOK
    <3>2. pc \in PCs
      BY DEF PCs
    <3>3. read = [job[j] EXCEPT !.seen = Lifecycle(row), !.pc = pc]
      OBVIOUS
    <3> HIDE DEF pc, read
    <3> QED
      BY <3>1, <3>2, <3>3 DEF JobStates
  <2>3. JobOK(read)
    <3>1. Lifecycle(row) \in Snapshots
      BY LifecycleType DEF Inv
    <3>2. job[j] \in JobStates
      BY DEF Inv, TypeOK
    <3>3. /\ read.seen = Lifecycle(row)
          /\ read.pc = IF row.assigned THEN "list" ELSE "decide"
      BY <3>2 DEF JobStates
    <3>4. row.assigned = Lifecycle(row).assigned
          /\ row.state = Lifecycle(row).state
      BY DEF Lifecycle
    <3> HIDE DEF read
    <3> QED
      BY <1>3, <3>1, <3>3, <3>4 DEF JobOK
  <2> QED
    BY <1>1, <2>1, <2>2, <2>3, JobUpdate
<1> QED
  BY <1>2, <1>3

LEMMA ListInstancesOK ==
    ASSUME Inv, NEW j \in Jobs, ListInstances(j)
    PROVE  Inv'
<1> DEFINE list == [job[j] EXCEPT !.objs = {Observe(i) : i \in inst},
                                  !.pc = "decide"]
<1>1. GoodRow(row') /\ World'
  BY DEF ListInstances, Inv, TypeOK, World
<1>2. job' = [job EXCEPT ![j] = list]
  BY DEF ListInstances
<1>3. {Observe(i) : i \in inst} \subseteq Observations
  BY ObserveType DEF Inv, TypeOK
<1>4. job[j] \in JobStates /\ JobOK(job[j]) /\ job[j].pc = "list"
  BY DEF Inv, TypeOK, ListInstances
<1>5. list \in JobStates
  <2> DEFINE objs == {Observe(i) : i \in inst}
  <2>1. objs \in SUBSET Observations
    BY <1>3
  <2>2. list = [job[j] EXCEPT !.objs = objs, !.pc = "decide"]
    OBVIOUS
  <2> HIDE DEF objs, list
  <2> QED
    BY <1>4, <2>1, <2>2 DEF JobStates, PCs
<1>6. list.pc = "decide" /\ list.seen = job[j].seen
  BY <1>4 DEF JobStates
<1>7. JobOK(list)
  BY <1>4, <1>6 DEF JobOK
<1> QED
  BY <1>1, <1>2, <1>5, <1>7, JobUpdate

(* The local states that intend/2 leaves.                                  *)
LEMMA IntendOK ==
    ASSUME Inv, World', NEW j \in Jobs, NEW r, GoodRow(r),
           NEW act \in Acts, SafeCall(Lifecycle(r), act), Intend(j, r, act)
    PROVE  Inv'
<1> DEFINE call == [job[j] EXCEPT !.pc = "call", !.act = act, !.prev = None,
                                  !.objs = {}, !.seen = Lifecycle(r)]
<1>1. GoodRow(row') /\ job' = [job EXCEPT ![j] = call]
  BY DEF Intend
<1>2. job[j] \in JobStates /\ Lifecycle(r) \in Snapshots
  BY LifecycleType DEF Inv, TypeOK
<1>3. call \in JobStates
  BY <1>2 DEF JobStates, PCs
<1>4. call.pc = "call" /\ call.act = act /\ call.seen = Lifecycle(r)
  BY <1>2 DEF JobStates
<1> HIDE DEF call
<1>5. JobOK(call)
  BY <1>2, <1>4 DEF JobOK
<1> QED
  BY <1>1, <1>3, <1>5, JobUpdate

LEMMA ContinueOK ==
    ASSUME Inv, World', NEW j \in Jobs, NEW r, GoodRow(r),
           NEW prev \in Acts \cup {None}, Continue(j, r, prev)
    PROVE  Inv'
<1>1. GoodRow(row') /\ job' = [job EXCEPT ![j] = Loop(job[j], prev)]
  BY DEF Continue
<1>2. job[j] \in JobStates
  BY DEF Inv, TypeOK
<1> QED
  BY <1>1, <1>2, LoopOK, JobUpdate

LEMMA EndJobOK ==
    ASSUME Inv, World', NEW j \in Jobs, NEW r, GoodRow(r), EndJob(j, r)
    PROVE  Inv'
BY IdlingOK, JobUpdate DEF EndJob

(* intend/2 keeps the invariant for every safe action.                     *)
LEMMA TakeOK ==
    ASSUME NoneAssumption, Inv, World', NEW j \in Jobs,
           NEW r, GoodRow(r), Exists(r), r.state = "deleting" \/ r.assigned,
           NEW current, NEW stray, NEW act, SafeAct(r, current, stray, act),
           act.op = "resume" => r.seen,
           Take(j, r, act)
    PROVE  Inv'
<1>1. act \in Acts
  BY DEF SafeAct
<1>2. CASE act.op \in {"none", "wait"} \/ Same(act) = job[j].prev
  BY <1>2, EndJobOK DEF Take
<1>3. CASE ~(act.op \in {"none", "wait"} \/ Same(act) = job[j].prev)
  <2>1. CASE act.op = "begin_create" /\ job[j].prepared
    <3>1. PICK g \in Generations : Continue(j, BeginGeneration(r, g), act)
      BY <1>3, <2>1 DEF Take, BeginCreate
    <3>2. r.state = "absent" /\ r.assigned
      BY <2>1 DEF SafeAct
    <3> QED
      BY <1>1, <3>1, <3>2, BeginGenerationGood, ContinueOK
  <2>2. CASE act.op = "begin_create" /\ ~job[j].prepared
    <3> DEFINE prepare == [job[j] EXCEPT !.pc = "prepare", !.objs = {}]
    <3>1. row' = r /\ job' = [job EXCEPT ![j] = prepare]
      BY <1>3, <2>2 DEF Take
    <3>2. job[j] \in JobStates
      BY DEF Inv, TypeOK
    <3>3. prepare \in JobStates /\ prepare.pc = "prepare"
      BY <3>2 DEF JobStates, PCs
    <3> HIDE DEF prepare
    <3>4. JobOK(prepare)
      BY <3>3 DEF JobOK
    <3> QED
      BY <3>1, <3>3, <3>4, JobUpdate
  <2>3. CASE act.op = "create"
    <3>1. Intend(j, [r EXCEPT !.sent = TRUE], act)
      BY <1>3, <2>3 DEF Take
    <3>2. r.gen # None
      BY <2>3 DEF SafeAct
    <3>3. SafeCall(Lifecycle([r EXCEPT !.sent = TRUE]), act)
      BY <2>3, <3>2 DEF SafeCall, Lifecycle, GoodRow
    <3> QED
      BY <1>1, <3>1, <3>2, <3>3, SentGood, IntendOK
  <2>4. CASE act.op = "mark_paused"
    BY <1>1, <1>3, <2>4, PauseGood, ContinueOK DEF Take, SafeAct
  <2>5. CASE act.op \in {"replace", "release"}
    <3>1. Intend(j, Drain(r, act.reason), act)
      BY <1>3, <2>5 DEF Take
    <3>2. GoodRow(Drain(r, act.reason))
      BY <1>1, <2>5, DrainGood DEF SafeAct, Acts, Exists
    <3>3. SafeCall(Lifecycle(Drain(r, act.reason)), act)
      BY <2>5 DEF SafeCall
    <3> QED
      BY <1>1, <3>1, <3>2, <3>3, IntendOK
  <2>6. CASE act.op = "resume"
    <3>1. Intend(j, Resume(r), act)
      BY <1>3, <2>6 DEF Take
    <3>2. GoodRow(Resume(r))
      BY <2>6, ResumeGood DEF SafeAct
    <3>3. SafeCall(Lifecycle(Resume(r)), act)
      BY <2>6 DEF SafeCall, Lifecycle, Resume, GoodRow
    <3> QED
      BY <1>1, <3>1, <3>2, <3>3, IntendOK
  <2>7. CASE act.op \notin {"begin_create", "create", "mark_paused", "replace",
                           "release", "resume"}
    <3>1. Intend(j, r, act)
      BY <1>3, <2>7 DEF Take
    <3>2. SafeCall(Lifecycle(r), act)
      BY <2>7 DEF SafeCall, SafeAct, Lifecycle
    <3> QED
      BY <1>1, <3>1, <3>2, IntendOK
  <2> QED
    BY <2>1, <2>2, <2>3, <2>4, <2>5, <2>6, <2>7
<1> QED
  BY <1>2, <1>3

(* decide_with/4, with record_observation/3, on an existing row whose      *)
(* provider is known or that is being deleted.                             *)
LEMMA DecideWithOK ==
    ASSUME NoneAssumption, Inv, World', NEW j \in Jobs, NEW facts,
           Exists(row), row.state = "deleting" \/ row.assigned,
           DecideWith(j, facts)
    PROVE  Inv'
<1> DEFINE objs  == job[j].objs
           found == {o \in objs : IsCurrent(row, o) /\ o.present}
           r     == IF found = {} THEN row ELSE [row EXCEPT !.seen = TRUE]
<1>1. GoodRow(row) /\ job[j] \in JobStates /\ objs \subseteq Observations
  BY DEF Inv, TypeOK, JobStates
<1>2. found # {} => row.gen # None
  BY DEF IsCurrent
<1>3. GoodRow(r)
  BY <1>1, <1>2, SeenGood
<1>4. /\ r.gen = row.gen /\ r.ref = row.ref /\ r.state = row.state
      /\ r.assigned = row.assigned
      /\ found # {} => r.seen
  BY <1>1 DEF GoodRow
<1>5. CASE row.ref = None /\ \E o \in found : o.ref # None
  <2>1. PICK o \in found : Continue(j, [r EXCEPT !.ref = o.ref], None)
    BY <1>5 DEF DecideWith
  <2>2. o.ref \in InstanceRefs \cup {None}
    BY <1>1 DEF Observations
  <2> HIDE DEF r, found
  <2> QED
    BY <1>3, <2>1, <2>2, RefGood, ContinueOK
<1>6. CASE ~(row.ref = None /\ \E o \in found : o.ref # None)
  <2>0. PICK current \in Currents(r, objs) :
          \E stray \in Strays(objs, current) :
            Take(j, r, NextAction(r, current, stray, facts))
    BY <1>6 DEF DecideWith
  <2>1. PICK stray \in Strays(objs, current) :
          Take(j, r, NextAction(r, current, stray, facts))
    BY <2>0
  <2>2. /\ current \in Optional(Observations)
        /\ current # None => current \in objs /\ IsCurrent(r, current)
    BY <1>1 DEF Currents, Optional
  <2>3. stray \in Optional(Observations)
    BY <1>1 DEF Strays, Optional
  <2> DEFINE act == NextAction(r, current, stray, facts)
  <2>4. SafeAct(r, current, stray, act)
    BY <1>3, <1>4, <2>2, <2>3, NextActionSafe DEF Exists
  <2>5. act.op = "resume" => r.seen
    <3>1. act.op = "resume" => current # None /\ current.present
      BY <2>4 DEF SafeAct
    <3>2. IsCurrent(r, current) => IsCurrent(row, current)
      BY <1>4 DEF IsCurrent
    <3> QED
      BY <1>4, <2>2, <3>1, <3>2
  <2> HIDE DEF r, act
  <2> QED
    BY <1>3, <1>4, <2>1, <2>4, <2>5, TakeOK DEF act, Exists
<1> QED
  BY <1>5, <1>6

LEMMA DecideOK ==
    ASSUME NoneAssumption, Inv, NEW j \in Jobs, Decide(j)
    PROVE  Inv'
<1>1. World'
  BY DEF Decide, Inv, TypeOK, World
<1>2. GoodRow(row)
  BY DEF Inv
<1>3. CASE ~Exists(row)
  BY <1>1, <1>2, <1>3, EndJobOK DEF Decide
<1>4. CASE Exists(row) /\ row.state = "deleting" /\ ~row.assigned
  BY <1>1, <1>4, FreshRows, EndJobOK DEF Decide
<1>5. CASE /\ Exists(row) /\ ~(row.state = "deleting" /\ ~row.assigned)
           /\ Lifecycle(row) # job[j].seen
  <2>1. row' = row /\ job' = [job EXCEPT ![j] = Reread(job[j])]
    BY <1>5 DEF Decide
  <2>2. job[j] \in JobStates /\ job[j].prev \in Acts \cup {None}
    BY DEF Inv, TypeOK, JobStates
  <2>3. Reread(job[j]) = Loop(job[j], job[j].prev)
    BY DEF Reread
  <2>4. GoodRow(row')
    BY <1>2, <2>1
  <2> QED
    BY <1>1, <2>1, <2>2, <2>3, <2>4, LoopOK, JobUpdate
<1>6. CASE /\ Exists(row) /\ ~(row.state = "deleting" /\ ~row.assigned)
           /\ Lifecycle(row) = job[j].seen
  <2>1. PICK facts \in Facts :
          DecideWith(j, [facts EXCEPT !.active = agent = "active"])
    BY <1>6 DEF Decide
  <2>2. row.state = "deleting" \/ row.assigned
    <3>1. job[j].pc = "decide" /\ JobOK(job[j])
      BY DEF Decide, Inv
    <3>2. ~Lifecycle(row).assigned => Lifecycle(row).state = "deleting"
      BY <1>6, <3>1 DEF JobOK
    <3> QED
      BY <3>2 DEF Lifecycle
  <2> QED
    BY <1>1, <1>6, <2>1, <2>2, DecideWithOK
<1> QED
  BY <1>3, <1>4, <1>5, <1>6

LEMMA PrepareOK ==
    ASSUME Inv, NEW j \in Jobs, Prepare(j)
    PROVE  Inv'
<1> DEFINE next == [Reread(job[j]) EXCEPT !.prepared = TRUE]
<1>1. GoodRow(row') /\ World' /\ job' = [job EXCEPT ![j] = next]
  BY DEF Prepare, Inv, TypeOK, World
<1>2. job[j] \in JobStates
  BY DEF Inv, TypeOK
<1>3. next \in JobStates /\ next.pc = "read"
  BY <1>2 DEF Reread, Loop, Idling, JobStates, PCs
<1> HIDE DEF next
<1> QED
  BY <1>1, <1>3, JobUpdate DEF JobOK

LEMMA JobFailsOK ==
    ASSUME Inv, NEW j \in Jobs, JobFails(j)
    PROVE  Inv'
<1>1. GoodRow(row') /\ World' /\ job' = [job EXCEPT ![j] = Failed]
  BY DEF JobFails, Inv, TypeOK, World
<1> QED
  BY <1>1, FailedOK, JobUpdate

-----------------------------------------------------------------------------
(* Platform calls *)

(* The answer of a call is kept for the record step.                       *)
LEMMA AnswerOK ==
    ASSUME Inv, World', row' = row, NEW j \in Jobs, job[j].pc = "call",
           NEW res \in Answers, AnswerTo(job[j].act, res),
           Answer(j, res)
    PROVE  Inv'
<1> DEFINE answered == [job[j] EXCEPT !.pc = "record", !.res = res]
<1>1. GoodRow(row') /\ job' = [job EXCEPT ![j] = answered]
  BY DEF Answer, Inv
<1>2. job[j] \in JobStates /\ JobOK(job[j])
  BY DEF Inv, TypeOK
<1>3. answered \in JobStates
  BY <1>2 DEF JobStates, PCs
<1>4. /\ answered.pc = "record" /\ answered.res = res
      /\ answered.seen = job[j].seen /\ answered.act = job[j].act
  BY <1>2 DEF JobStates
<1> HIDE DEF answered
<1>5. JobOK(answered)
  BY <1>2, <1>4 DEF JobOK
<1> QED
  BY <1>1, <1>3, <1>5, JobUpdate

LEMMA AnswerTypes ==
    /\ \A ref \in InstanceRefs \cup {None} :
          Ok(ref) \in Answers /\ Ok(ref).op = "ok"
    /\ \A ref \in StorageRefs :
          /\ SettleWith(ref) \in Answers /\ SettleWith(ref).op = "settle"
          /\ Rejected(ref) \in Answers /\ Rejected(ref).op = "rejected"
BY DEF Ok, SettleWith, Rejected, Answers

(* A job that calls carries a snapshot and an action.                      *)
LEMMA CallState ==
    ASSUME Inv, NEW j \in Jobs, job[j].pc = "call"
    PROVE  /\ job[j].seen \in Snapshots
           /\ job[j].act \in Acts
           /\ job[j].seen.storage \in StorageRefs
           /\ StorageRef(job[j].seen) \in StorageRefs
           /\ job[j].act.op = "create" => job[j].seen.gen \in Generations
BY DEF Inv, TypeOK, JobOK, SafeCall, Snapshots, StorageRef, StorageRefs

LEMMA InstanceTypes ==
    /\ \A g \in Generations, phase \in Phases :
          NewInstances(g, phase) \subseteq Instances
    /\ \A i \in Instances, phase \in Phases :
          [i EXCEPT !.phase = phase] \in Instances
    /\ \A i \in Instances : Restarted(i) \in Instances
<1>1. \A i \in Instances, phase \in Phases :
        [i EXCEPT !.phase = phase] \in Instances
  BY DEF Instances
<1>2. \A g \in Generations, phase \in Phases :
        NewInstances(g, phase) \subseteq Instances
  BY DEF NewInstances, Instances, InstanceRefs
<1>3. "running" \in Phases /\ "starting" \in Phases
  BY DEF Phases
<1> QED
  BY <1>1, <1>2, <1>3 DEF Restarted

LEMMA CallCreateOK ==
    ASSUME Inv, NEW j \in Jobs, CallCreate(j)
    PROVE  Inv'
<1> DEFINE g == job[j].seen.gen
<1>1. job[j].pc = "call" /\ job[j].act.op = "create" /\ row' = row
  BY DEF CallCreate
<1>2. g \in Generations /\ job[j].seen.storage \in StorageRefs
  BY <1>1, CallState
<1>3. inst \subseteq Instances /\ home \in StorageRefs
      /\ finished \subseteq Generations
      /\ agent \in {"active", "disabled", "deleted"}
  BY DEF Inv, TypeOK
<1>4. PICK i \in Instances :
        /\ inst' \subseteq inst \cup {i, Restarted(i)}
        /\ home' \in {home, job[j].seen.storage}
        /\ Answer(j, Ok(IF Kind = "pausing" THEN i.ref ELSE None))
  <2>1. NewInstances(g, "starting") \subseteq Instances
    BY <1>2, InstanceTypes DEF Phases
  <2> QED
    BY <1>3, <2>1 DEF CallCreate, OfGeneration
<1>5. World'
  BY <1>2, <1>3, <1>4, InstanceTypes DEF World, CallCreate
<1>6. Ok(IF Kind = "pausing" THEN i.ref ELSE None) \in Answers
      /\ Ok(IF Kind = "pausing" THEN i.ref ELSE None).op = "ok"
  BY <1>4, AnswerTypes DEF Instances
<1> QED
  BY <1>1, <1>4, <1>5, <1>6, AnswerOK DEF AnswerTo

LEMMA CallCreateHalfOK ==
    ASSUME Inv, NEW j \in Jobs, CallCreateHalf(j)
    PROVE  Inv'
<1>1. job[j].pc = "call" /\ job[j].act.op = "create" /\ GoodRow(row')
  BY DEF CallCreateHalf, Inv
<1>2. NewInstances(job[j].seen.gen, "partial") \subseteq Instances
  BY <1>1, CallState, InstanceTypes DEF Phases
<1>3. World'
  BY <1>2 DEF CallCreateHalf, Inv, TypeOK, World
<1>4. job' = [job EXCEPT ![j] = Failed]
  BY DEF CallCreateHalf
<1> QED
  BY <1>1, <1>3, <1>4, FailedOK, JobUpdate

LEMMA CallCreateRejectedOK ==
    ASSUME Inv, NEW j \in Jobs, CallCreateRejected(j)
    PROVE  Inv'
<1>1. job[j].pc = "call" /\ job[j].act.op = "create" /\ row' = row
  BY DEF CallCreateRejected
<1>2. job[j].seen.gen \in Generations
      /\ NewInstances(job[j].seen.gen, "partial") \subseteq Instances
  BY <1>1, CallState, InstanceTypes DEF Phases
<1>3. World'
  BY <1>2 DEF CallCreateRejected, Inv, TypeOK, World
<1>4. Answer(j, Rejected(StorageRef(job[j].seen)))
      /\ Rejected(StorageRef(job[j].seen)) \in Answers
      /\ Rejected(StorageRef(job[j].seen)).op = "rejected"
  BY <1>1, CallState, AnswerTypes DEF CallCreateRejected
<1> QED
  BY <1>1, <1>3, <1>4, AnswerOK DEF AnswerTo

LEMMA DeleteType ==
    ASSUME inst \subseteq Instances, NEW o, DeleteInstance(o)
    PROVE  inst' \subseteq Instances
BY InstanceTypes DEF DeleteInstance, Targets, Phases

LEMMA CallDeleteOK ==
    ASSUME Inv, NEW j \in Jobs, CallDelete(j)
    PROVE  Inv'
<1>1. job[j].pc = "call" /\ row' = row /\ Answer(j, Ok(None))
  BY DEF CallDelete
<1>2. inst' \subseteq Instances
  BY DeleteType DEF CallDelete, Inv, TypeOK
<1>3. finished' \subseteq Generations
  BY DEF CallDelete, Inv, TypeOK, Targets, Instances
<1>4. World'
  BY <1>2, <1>3 DEF CallDelete, Inv, TypeOK, World
<1> QED
  BY <1>1, <1>4, AnswerTypes, AnswerOK DEF AnswerTo

LEMMA CallPauseOK ==
    ASSUME Inv, NEW j \in Jobs, CallPause(j)
    PROVE  Inv'
<1>1. job[j].pc = "call" /\ row' = row /\ Answer(j, Ok(None))
  BY DEF CallPause
<1>2. inst \subseteq Instances
  BY DEF Inv, TypeOK
<1>3. PICK i \in inst : inst' \subseteq inst \cup {[i EXCEPT !.phase = "suspending"]}
  BY DEF CallPause, Targets
<1>4. [i EXCEPT !.phase = "suspending"] \in Instances
  BY <1>2, InstanceTypes DEF Phases
<1>5. World'
  BY <1>2, <1>3, <1>4 DEF CallPause, Inv, TypeOK, World
<1> QED
  BY <1>1, <1>5, AnswerTypes, AnswerOK DEF AnswerTo

LEMMA CallResumeOK ==
    ASSUME Inv, NEW j \in Jobs, CallResume(j)
    PROVE  Inv'
<1>1. job[j].pc = "call" /\ row' = row /\ job[j].act.op = "resume"
  BY DEF CallResume
<1>2. inst \subseteq Instances
  BY DEF Inv, TypeOK
<1>3. CASE inst' = inst
  <2>1. World'
    BY <1>3 DEF CallResume, Inv, TypeOK, World
  <2>2. Answer(j, Ok(None)) \/ Answer(j, SettleWith(StorageRef(job[j].seen)))
    BY DEF CallResume
  <2> QED
    BY <1>1, <2>1, <2>2, CallState, AnswerTypes, AnswerOK DEF AnswerTo
<1>4. CASE inst' # inst
  <2>1. PICK i \in inst : inst' \subseteq inst \cup {[i EXCEPT !.phase = "running"]}
    BY <1>4 DEF CallResume, Targets
  <2>2. [i EXCEPT !.phase = "running"] \in Instances
    BY <1>2, InstanceTypes DEF Phases
  <2>3. World'
    BY <1>2, <2>1, <2>2 DEF CallResume, Inv, TypeOK, World
  <2>4. Answer(j, Ok(None))
    BY <1>4 DEF CallResume
  <2> QED
    BY <1>1, <2>3, <2>4, AnswerTypes, AnswerOK DEF AnswerTo
<1> QED
  BY <1>3, <1>4

LEMMA CallMarkAbsentOK ==
    ASSUME Inv, NEW j \in Jobs, CallMarkAbsent(j)
    PROVE  Inv'
<1>1. job[j].pc = "call" /\ row' = row /\ job[j].act.op = "mark_absent"
      /\ Answer(j, SettleWith(StorageRef(job[j].seen)))
  BY DEF CallMarkAbsent
<1>2. World'
  BY DEF CallMarkAbsent, Inv, TypeOK, World
<1> QED
  BY <1>1, <1>2, CallState, AnswerTypes, AnswerOK DEF AnswerTo

LEMMA CallDeleteStorageOK ==
    ASSUME Inv, NEW j \in Jobs, CallDeleteStorage(j)
    PROVE  Inv'
<1>1. job[j].pc = "call" /\ row' = row /\ job[j].act.op = "delete_storage"
  BY DEF CallDeleteStorage
<1>2. World'
  BY DEF CallDeleteStorage, Inv, TypeOK, World, StorageRefs
<1>3. Answer(j, Ok(None)) \/ Answer(j, SettleWith(Progress))
  BY DEF CallDeleteStorage
<1>4. Progress \in StorageRefs
  BY DEF StorageRefs
<1> QED
  BY <1>1, <1>2, <1>3, <1>4, AnswerTypes, AnswerOK DEF AnswerTo

(* record/3 settles with the answer that belongs to the snapshot.          *)
LEMMA ApplyGood ==
    ASSUME GoodRow(row), Exists(row), NEW act \in Acts, NEW res \in Answers
    PROVE  GoodRow(Apply(act, res))
<1>1. CASE act.op = "create" /\ res.op = "ok"
  <2>1. res.ref \in InstanceRefs \cup {None}
    BY <1>1 DEF Answers
  <2> DEFINE ref == IF res.ref # None THEN res.ref ELSE row.ref
  <2>2. ref \in InstanceRefs \cup {None}
    BY <2>1 DEF GoodRow
  <2>3. Apply(act, res) = [row EXCEPT !.ref = ref]
    BY <1>1 DEF Apply
  <2> HIDE DEF ref
  <2> QED
    BY <2>2, <2>3, RefGood
<1>2. CASE act.op = "delete_storage"
  <2>1. res.op # "ok" => res.ref \in StorageRefs
    BY DEF Answers
  <2> QED
    BY <1>2, <2>1, FreshRows, StorageGood DEF Apply
<1>3. CASE act.op # "delete_storage" /\ res.op \in {"rejected", "settle"}
  <2>1. res.ref \in StorageRefs
    BY <1>3 DEF Answers
  <2>2. Apply(act, res) = Settle(row, res.ref)
    BY <1>3 DEF Apply
  <2> QED
    BY <2>1, <2>2, SettleGood
<1>4. CASE /\ ~(act.op = "create" /\ res.op = "ok")
           /\ act.op # "delete_storage" /\ res.op \notin {"rejected", "settle"}
  BY <1>4 DEF Apply
<1> QED
  BY <1>1, <1>2, <1>3, <1>4

LEMMA RecordOK ==
    ASSUME Inv, NEW j \in Jobs, Record(j)
    PROVE  Inv'
<1>1. job[j] \in JobStates /\ job[j].act \in Acts /\ job[j].res \in Answers
  BY DEF Record, Inv, TypeOK, JobOK
<1>2. GoodRow(row')
  BY <1>1, ApplyGood DEF Record, Inv
<1>3. World'
  BY DEF Record, Inv, TypeOK, World
<1>4. Same(job[j].act) \in Acts
  BY <1>1 DEF Same, Acts
<1>5. job' = [job EXCEPT ![j] = Idling]
      \/ job' = [job EXCEPT ![j] = Loop(job[j], Same(job[j].act))]
  BY DEF Record
<1> QED
  BY <1>1, <1>2, <1>3, <1>4, <1>5, IdlingOK, LoopOK, JobUpdate

-----------------------------------------------------------------------------
(* The other actors *)

LEMMA JoinOK ==
    ASSUME NoneAssumption, Inv, NEW i \in inst, Join(i)
    PROVE  Inv'
<1>1. Process(i) \in Processes /\ Process(i).gen = row.gen
  BY DEF Join, Process, Processes, Inv, TypeOK, Instances
<1>2. GoodRow(row')
  BY <1>1, AdmitGood DEF Join, CanAdmit, Inv
<1>3. World'
  BY DEF Join, Inv, TypeOK, World
<1> QED
  BY <1>2, <1>3, OtherUpdate DEF Join

LEMMA HeartbeatOK ==
    ASSUME Inv, NEW i \in inst, Heartbeat(i)
    PROVE  Inv'
BY RenewGood, OtherUpdate DEF Heartbeat, Inv, TypeOK, World

LEMMA ConnectionOK ==
    ASSUME Inv, Connection
    PROVE  Inv'
<1>1. World' /\ job' = job
  BY DEF Connection, HeartbeatAges, ReleaseRoute, ControlShutdown, Inv, TypeOK,
         World
<1>2. CASE HeartbeatAges
  BY <1>1, <1>2, BeatGood, OtherUpdate DEF HeartbeatAges, Inv
<1>3. CASE ReleaseRoute
  BY <1>1, <1>3, DisconnectGood, OtherUpdate DEF ReleaseRoute, Inv
<1>4. CASE ControlShutdown
  <2> DEFINE reason == IF row.drain # None THEN row.drain ELSE "shutdown"
  <2>1. reason \in Reasons \cup {None} /\ row' = Drain(row, reason)
    BY <1>4 DEF ControlShutdown, Inv, GoodRow
  <2> HIDE DEF reason
  <2>2. row.state \notin {"absent", "deleting", "removed"} /\ GoodRow(row)
    BY <1>4 DEF ControlShutdown, Inv
  <2> QED
    BY <1>1, <2>1, <2>2, DrainGood, OtherUpdate
<1> QED
  BY <1>2, <1>3, <1>4 DEF Connection

LEMMA OwnerOK ==
    ASSUME Inv, Owner
    PROVE  Inv'
<1>1. World' /\ job' = job
  BY DEF Owner, DisableAgent, EnableAgent, SetAgent, DeleteAgent,
         RequestWorker, WantedExpires, AssignProvider, PrepareRename,
         RenameWorker, Inv, TypeOK, World
<1>2. CASE row' = row
  BY <1>1, <1>2, OtherUpdate DEF Inv
<1>3. CASE row' = MarkDeleting(row)
  BY <1>1, <1>3, MarkDeletingGood, OtherUpdate DEF Inv
<1>4. CASE RequestWorker \/ WantedExpires
  BY <1>1, <1>4, WantedGood, OtherUpdate
     DEF RequestWorker, WantedExpires, Request, Inv
<1>5. CASE AssignProvider
  BY <1>1, <1>5, AssignGood, OtherUpdate DEF AssignProvider, Assign, Inv
<1>6. CASE PrepareRename
  BY <1>1, <1>6, DrainGood, OtherUpdate DEF PrepareRename, Inv
<1> QED
  BY <1>2, <1>3, <1>4, <1>5, <1>6
     DEF Owner, DisableAgent, EnableAgent, SetAgent, DeleteAgent, RenameWorker

LEMMA PlatformOK ==
    ASSUME Inv, NEW i \in inst, Platform(i) \/ SweepOrphan(i)
    PROVE  Inv'
<1>1. GoodRow(row') /\ job' = job
      /\ inst \subseteq Instances /\ finished \subseteq Generations
      /\ home \in StorageRefs /\ agent \in {"active", "disabled", "deleted"}
  BY DEF Platform, Boots, Suspends, OperatorResumes, Exits, Become, Vanishes,
         StartFails, SweepOrphan, Inv, TypeOK
<1>2. CASE \E phase \in Phases : Become(i, phase)
  BY <1>1, <1>2, InstanceTypes, OtherUpdate DEF Become, World
<1>3. CASE Vanishes(i)
  <2>1. [i EXCEPT !.phase = "partial"] \in Instances /\ i.gen \in Generations
    BY <1>1, InstanceTypes DEF Phases, Instances
  <2>2. inst' \subseteq inst \cup {[i EXCEPT !.phase = "partial"]}
    BY <1>3 DEF Vanishes
  <2>3. home' \in StorageRefs /\ finished' \subseteq Generations
    BY <1>1, <1>3, <2>1 DEF Vanishes, StorageRefs
  <2>4. World'
    BY <1>1, <1>3, <2>1, <2>2, <2>3 DEF Vanishes, World
  <2> QED
    BY <1>1, <2>4, OtherUpdate
<1>4. CASE StartFails(i)
  BY <1>1, <1>4, OtherUpdate DEF StartFails, World
<1>5. CASE SweepOrphan(i)
  BY <1>1, <1>5, DeleteType, OtherUpdate DEF SweepOrphan, World
<1> QED
  BY <1>2, <1>3, <1>4, <1>5
     DEF Platform, Boots, Suspends, OperatorResumes, Exits, Phases

-----------------------------------------------------------------------------
(* Invariance *)

LEMMA JobStepOK ==
    ASSUME NoneAssumption, Inv, NEW j \in Jobs, JobStep(j) \/ JobFails(j)
    PROVE  Inv'
BY StartJobOK, ReadRowOK, ListInstancesOK, DecideOK, PrepareOK, JobFailsOK,
   CallCreateOK, CallCreateHalfOK, CallCreateRejectedOK, CallDeleteOK,
   CallPauseOK, CallResumeOK, CallMarkAbsentOK, CallDeleteStorageOK, RecordOK
   DEF JobStep, Call

LEMMA InvInit ==
    ASSUME Init
    PROVE  Inv
<1>1. GoodRow(row)
  BY FreshRows DEF Init
<1>2. TypeOK
  BY <1>1, IdlingOK DEF Init, TypeOK, GoodRow, StorageRefs
<1>3. \A j \in Jobs : JobOK(job[j])
  BY IdlingOK DEF Init
<1> QED
  BY <1>1, <1>2, <1>3 DEF Inv

LEMMA InvNext ==
    ASSUME Inv, [Next]_vars
    PROVE  Inv'
<1> USE NoneAssumption
<1>1. ASSUME NEW j \in Jobs, JobStep(j) \/ JobFails(j) PROVE Inv'
  BY <1>1, JobStepOK
<1>2. ASSUME NEW i \in inst, Worker(i) \/ Platform(i) \/ SweepOrphan(i)
      PROVE  Inv'
  BY <1>2, JoinOK, HeartbeatOK, PlatformOK DEF Worker
<1>3. CASE Connection
  BY <1>3, ConnectionOK
<1>4. CASE Owner
  BY <1>4, OwnerOK
<1>5. CASE UNCHANGED vars
  BY <1>5, OtherUpdate DEF vars, Inv, TypeOK, World
<1> QED
  BY <1>1, <1>2, <1>3, <1>4, <1>5 DEF Next

THEOREM Invariant == Spec => []Inv
<1>1. Init => Inv
  BY InvInit
<1>2. Inv /\ [Next]_vars => Inv'
  BY InvNext
<1> QED
  BY <1>1, <1>2, PTL DEF Spec

(* Every variable keeps its type, for any number of overlapping jobs and   *)
(* any platform.                                                           *)
THEOREM TypeCorrect == Spec => []TypeOK
<1>1. Inv => TypeOK
  BY DEF Inv
<1> QED
  BY <1>1, Invariant, PTL

(* No UPDATE of any actor, in any order, breaks a check constraint of the  *)
(* agent_workers table.                                                    *)
THEOREM RowConstraintsHold == Spec => []RowConstraints
<1>1. Inv => RowConstraints
  BY DEF Inv, GoodRow, RowConstraints
<1> QED
  BY <1>1, Invariant, PTL

(* The route and the incarnation never outlive their generation.           *)
THEOREM ConnectionCurrentHolds == Spec => []ConnectionCurrent
<1>1. Inv => ConnectionCurrent
  BY DEF Inv, GoodRow, Connected, ConnectionCurrent
<1> QED
  BY <1>1, Invariant, PTL

-----------------------------------------------------------------------------
(* What a decision does to the row *)

(* A decision leaves the row, removes it, notes an observation, or takes   *)
(* an action that is safe for the row with its observation.                *)
LEMMA DecideCases ==
    ASSUME Inv, NEW j \in Jobs, Decide(j)
    PROVE  \/ row' = row
           \/ row.state = "deleting" /\ ~row.assigned /\ row' = Removed
           \/ \E r \in {row, [row EXCEPT !.seen = TRUE]} :
                /\ GoodRow(r) /\ Exists(r)
                /\ r.gen = row.gen /\ r.state = row.state
                /\ \/ \E ref : row' = [r EXCEPT !.ref = ref]
                   \/ \E current, stray, act :
                        SafeAct(r, current, stray, act) /\ Take(j, r, act)
<1> USE NoneAssumption
<1>1. GoodRow(row) /\ row \in Rows /\ job[j] \in JobStates
  BY DEF Inv, TypeOK, GoodRow
<1>2. CASE \/ row' = row
           \/ row.state = "deleting" /\ ~row.assigned /\ row' = Removed
  BY <1>2
<1>3. CASE Exists(row) /\ \E facts : DecideWith(j, facts)
  <2>1. PICK facts : DecideWith(j, facts)
    BY <1>3
  <2> DEFINE objs  == job[j].objs
             found == {o \in objs : IsCurrent(row, o) /\ o.present}
             r     == IF found = {} THEN row ELSE [row EXCEPT !.seen = TRUE]
  <2>2. found # {} => row.gen # None
    BY DEF IsCurrent
  <2>3. /\ r \in {row, [row EXCEPT !.seen = TRUE]}
        /\ GoodRow(r) /\ Exists(r) /\ r.gen = row.gen /\ r.state = row.state
    BY <1>1, <1>3, <2>2, SeenGood DEF GoodRow, Exists
  <2>4. objs \subseteq Observations
    BY <1>1 DEF JobStates
  <2>5. CASE row.ref = None /\ \E o \in found : o.ref # None
    <3>1. PICK o \in found : row' = [r EXCEPT !.ref = o.ref]
      BY <2>1, <2>5 DEF DecideWith, Continue
    <3> HIDE DEF r, found
    <3> QED
      BY <2>3, <3>1
  <2>6. CASE ~(row.ref = None /\ \E o \in found : o.ref # None)
    <3>1. PICK current \in Currents(r, objs) :
            \E stray \in Strays(objs, current) :
              Take(j, r, NextAction(r, current, stray, facts))
      BY <2>1, <2>6 DEF DecideWith
    <3>2. PICK stray \in Strays(objs, current) :
            Take(j, r, NextAction(r, current, stray, facts))
      BY <3>1
    <3>3. /\ current \in Optional(Observations)
          /\ current # None => IsCurrent(r, current)
          /\ stray \in Optional(Observations)
      BY <2>4 DEF Currents, Strays, Optional
    <3>4. SafeAct(r, current, stray, NextAction(r, current, stray, facts))
      BY <2>3, <3>3, NextActionSafe
    <3> HIDE DEF r
    <3> QED
      BY <2>3, <3>2, <3>4
  <2> QED
    BY <2>5, <2>6
<1> QED
  BY <1>2, <1>3 DEF Decide, EndJob

(* The row writes of everyone but a decision or a recorded answer.         *)
LEMMA OtherWrites ==
    ASSUME Inv,
           \/ \E i \in inst : Worker(i) \/ Platform(i) \/ SweepOrphan(i)
           \/ Connection
           \/ Owner
           \/ \E j \in Jobs : StartJob(j)
    PROVE  \/ row' = row
           \/ Exists(row) /\ row' = MarkDeleting(row)
           \/ CanDisconnect(row) /\ row' = Disconnect(row)
           \/ CanDrain(row) /\ \E reason : row' = Drain(row, reason)
           \/ row.state \in JoinStates /\ \E v, w : row' = Admit(row, v, w, 0)
           \/ row.state \in ConnectedStates /\ row' = Renew(row, 0, 0)
           \/ Exists(row) /\ row' = Assign(row)
           \/ row' = Request(row)
           \/ \E v : \/ row' = [row EXCEPT !.wanted = v]
                     \/ row' = [row EXCEPT !.beat = v]
<1>1. row \in Rows
  BY DEF Inv, GoodRow
<1>2. CASE \E i \in inst : Worker(i)
  BY <1>2 DEF Worker, Join, Heartbeat, CanAdmit, CanRenew
<1>3. CASE \E i \in inst : Platform(i) \/ SweepOrphan(i)
  BY <1>3 DEF Platform, Boots, Suspends, OperatorResumes, Exits, Become,
              Vanishes, StartFails, SweepOrphan
<1>4. CASE Connection
  BY <1>4 DEF Connection, HeartbeatAges, ReleaseRoute, ControlShutdown, CanDrain
<1>5. CASE Owner
  BY <1>1, <1>5
     DEF Owner, DisableAgent, EnableAgent, SetAgent, DeleteAgent,
         RequestWorker, WantedExpires, AssignProvider, PrepareRename,
         RenameWorker, CanDrain, Exists
<1>6. CASE \E j \in Jobs : StartJob(j)
  BY <1>6 DEF StartJob, HeartbeatExpired, CanDisconnect
<1> QED
  BY <1>2, <1>3, <1>4, <1>5, <1>6

(* Every other step of a job leaves the row alone.                         *)
LEMMA QuietJobSteps ==
    ASSUME NEW j \in Jobs, JobStep(j) \/ JobFails(j), row' # row
    PROVE  StartJob(j) \/ Decide(j) \/ Record(j)
BY DEF JobStep, JobFails, Call, ReadRow, ListInstances, Prepare,
       CallCreate, CallCreateHalf, CallCreateRejected, CallDelete,
       CallPause, CallResume, CallMarkAbsent, CallDeleteStorage

LEMMA RowWriters ==
    ASSUME [Next]_vars, row' # row
    PROVE  \/ \E j \in Jobs : StartJob(j) \/ Decide(j) \/ Record(j)
           \/ \E i \in inst : Worker(i) \/ Platform(i) \/ SweepOrphan(i)
           \/ Connection
           \/ Owner
BY QuietJobSteps DEF Next, vars

(* A recorded answer writes the row only as Apply does, and a removal      *)
(* answers a deletion.                                                     *)
LEMMA RecordCases ==
    ASSUME Inv, NEW j \in Jobs, Record(j)
    PROVE  \/ row' = row
           \/ row.state = "deleting" /\ row' = Removed
           \/ \E ref : \/ row' = [row EXCEPT !.ref = ref]
                       \/ row' = [row EXCEPT !.storage = ref]
                       \/ Exists(row) /\ row' = Settle(row, ref)
<1>1. CASE row' # row
  <2>1. /\ Exists(row) /\ Lifecycle(row) = job[j].seen
        /\ row' = Apply(job[j].act, job[j].res)
        /\ JobOK(job[j]) /\ job[j].pc = "record"
    BY <1>1 DEF Record, Inv
  <2>2. job[j].act.op = "delete_storage" => row.state = "deleting"
    BY <2>1 DEF JobOK, SafeCall, Lifecycle
  <2> QED
    BY <2>1, <2>2 DEF Apply
<1> QED
  BY <1>1

-----------------------------------------------------------------------------
(* Declared transitions *)

(* A job that takes a safe action makes a declared transition.             *)
LEMMA TakeDeclared ==
    ASSUME NEW j, NEW r, GoodRow(r), Exists(r),
           NEW current, NEW stray, NEW act, SafeAct(r, current, stray, act),
           Take(j, r, act)
    PROVE  Declared(r, row')
<1>1. r \in Rows
  BY DEF GoodRow
<1>2. CASE row' = r \/ row' = [r EXCEPT !.sent = TRUE]
  BY <1>1, <1>2 DEF Declared
<1>3. CASE act.op = "begin_create" /\ \E g : row' = BeginGeneration(r, g)
  BY <1>1, <1>3 DEF SafeAct, Declared, BeginGeneration, CanBeginGeneration
<1>4. CASE act.op = "mark_paused" /\ row' = Pause(r)
  BY <1>1, <1>4 DEF SafeAct, Declared, Pause
<1>5. CASE act.op \in {"replace", "release"} /\ row' = Drain(r, act.reason)
  BY <1>1, <1>5 DEF SafeAct, Declared, Drain, CanDrain, Exists
<1>6. CASE act.op = "resume" /\ row' = Resume(r)
  BY <1>1, <1>6 DEF SafeAct, Declared, Resume
<1> QED
  BY <1>2, <1>3, <1>4, <1>5, <1>6
     DEF Take, EndJob, Intend, Continue, BeginCreate

LEMMA DecideDeclared ==
    ASSUME Inv, NEW j \in Jobs, Decide(j)
    PROVE  Declared(row, row')
<1>1. CASE row' = row \/ (row.state = "deleting" /\ row' = Removed)
  BY <1>1 DEF Declared, Removed, Register, CanRemove
<1>2. CASE ~(row' = row \/ (row.state = "deleting" /\ row' = Removed))
  <2>1. PICK r \in {row, [row EXCEPT !.seen = TRUE]} :
          /\ GoodRow(r) /\ Exists(r)
          /\ r.gen = row.gen /\ r.state = row.state
          /\ \/ \E ref : row' = [r EXCEPT !.ref = ref]
             \/ \E current, stray, act :
                  SafeAct(r, current, stray, act) /\ Take(j, r, act)
    BY <1>2, DecideCases
  <2>2. r \in Rows
    BY <2>1 DEF GoodRow
  <2>3. Declared(r, row') => Declared(row, row')
    BY <2>1 DEF Declared, CanBeginGeneration, CanResume, CanPause, CanDrain,
                CanDisconnect, CanRemove, Exists
  <2>4. CASE \E ref : row' = [r EXCEPT !.ref = ref]
    BY <2>2, <2>3, <2>4 DEF Declared
  <2> QED
    BY <2>1, <2>3, <2>4, TakeDeclared
<1> QED
  BY <1>1, <1>2

(* Every change of the row's state is a declared transition: no job and no *)
(* process ever asks the resource for one that it refuses.                 *)
THEOREM TransitionsDeclaredHolds == Spec => TransitionsDeclared
<1>1. ASSUME Inv, [Next]_vars PROVE Declared(row, row')
  <2> USE <1>1
  <2>1. row \in Rows
    BY DEF Inv, GoodRow
  <2>2. CASE row' = row
    BY <2>2 DEF Declared
  <2>3. ASSUME NEW j \in Jobs, Record(j) PROVE Declared(row, row')
    <3>1. CASE row.state = "deleting" /\ row' = Removed
      BY <3>1 DEF Declared, Removed, Register, CanRemove
    <3>2. CASE \E ref : row' = [row EXCEPT !.ref = ref]
                       \/ row' = [row EXCEPT !.storage = ref]
      BY <2>1, <3>2 DEF Declared
    <3>3. CASE \E ref : Exists(row) /\ row' = Settle(row, ref)
      BY <2>1, <3>3 DEF Declared, Settle, Cleared
    <3> QED
      BY <2>2, <2>3, <3>1, <3>2, <3>3, RecordCases
  <2>4. CASE \/ Exists(row) /\ row' = MarkDeleting(row)
             \/ CanDisconnect(row) /\ row' = Disconnect(row)
             \/ CanDrain(row) /\ \E reason : row' = Drain(row, reason)
    BY <2>1, <2>4 DEF Declared, MarkDeleting, Disconnect, Drain
  <2>5. CASE row.state \in JoinStates /\ \E v, w : row' = Admit(row, v, w, 0)
    BY <2>1, <2>5 DEF Declared, Admit
  <2>6. CASE \/ row' = Renew(row, 0, 0) \/ row' = Request(row) \/ row' = Assign(row)
             \/ \E v : \/ row' = [row EXCEPT !.wanted = v]
                       \/ row' = [row EXCEPT !.beat = v]
    BY <2>1, <2>6 DEF Declared, Renew, Request, Assign
  <2> QED
    BY <2>2, <2>3, <2>4, <2>5, <2>6, DecideDeclared, OtherWrites, RowWriters
<1>2. Inv /\ [Next]_vars => [Declared(row, row')]_vars
  BY <1>1
<1> QED
  BY <1>2, Invariant, PTL DEF Spec, TransitionsDeclared

-----------------------------------------------------------------------------
(* Deletion is final *)

StaysDeleting(r, q) ==
    /\ q.state \in {"deleting", "removed"}
    /\ q.route = None
    /\ q.gen \in {r.gen, None}

(* A job that takes a safe action leaves a deleted Agent's row deleted.    *)
LEMMA TakeDeleting ==
    ASSUME NEW j, NEW r, GoodRow(r), r.state = "deleting",
           NEW current, NEW stray, NEW act, SafeAct(r, current, stray, act),
           Take(j, r, act)
    PROVE  StaysDeleting(r, row')
<1>1. r.route = None /\ r \in Rows
  BY DEF GoodRow, CheckConstraints, RouteState
<1>2. act.op \notin {"begin_create", "mark_paused", "replace", "release", "resume"}
  BY DEF SafeAct, CanPause
<1>3. row' = r \/ row' = [r EXCEPT !.sent = TRUE]
  BY <1>2 DEF Take, EndJob, Intend
<1> QED
  BY <1>1, <1>3 DEF StaysDeleting

LEMMA DecideDeleting ==
    ASSUME Inv, NEW j \in Jobs, Decide(j), row.state = "deleting"
    PROVE  StaysDeleting(row, row')
<1>1. row.route = None /\ row \in Rows
  BY DEF Inv, GoodRow, CheckConstraints, RouteState
<1>2. CASE row' = row \/ row' = Removed
  BY <1>1, <1>2 DEF StaysDeleting, Removed, Register
<1>3. CASE ~(row' = row \/ row' = Removed)
  <2>1. PICK r \in {row, [row EXCEPT !.seen = TRUE]} :
          /\ GoodRow(r) /\ Exists(r)
          /\ r.gen = row.gen /\ r.state = row.state
          /\ \/ \E ref : row' = [r EXCEPT !.ref = ref]
             \/ \E current, stray, act :
                  SafeAct(r, current, stray, act) /\ Take(j, r, act)
    BY <1>3, DecideCases
  <2>2. r \in Rows /\ r.route = None
    BY <1>1, <2>1 DEF GoodRow
  <2>3. CASE \E ref : row' = [r EXCEPT !.ref = ref]
    BY <2>1, <2>2, <2>3 DEF StaysDeleting
  <2>4. StaysDeleting(r, row')
    BY <2>1, <2>2, <2>3, TakeDeleting DEF StaysDeleting
  <2> QED
    BY <2>1, <2>4 DEF StaysDeleting
<1> QED
  BY <1>2, <1>3

LEMMA RecordDeleting ==
    ASSUME Inv, NEW j \in Jobs, Record(j), row.state = "deleting"
    PROVE  StaysDeleting(row, row')
<1>1. row \in Rows /\ row.route = None
  BY DEF Inv, GoodRow, CheckConstraints, RouteState
<1>2. CASE row' = row
  BY <1>1, <1>2 DEF StaysDeleting
<1>3. CASE row' = Removed
  BY <1>3 DEF StaysDeleting, Removed, Register
<1>4. CASE \E ref : row' = [row EXCEPT !.ref = ref]
                  \/ row' = [row EXCEPT !.storage = ref]
  BY <1>1, <1>4 DEF StaysDeleting
<1>5. CASE \E ref : row' = Settle(row, ref)
  BY <1>1, <1>5 DEF StaysDeleting, Settle, Cleared
<1> QED
  BY <1>2, <1>3, <1>4, <1>5, RecordCases

(* An Agent's deletion is final, for any number of overlapping jobs: the   *)
(* row accepts no process, begins no generation and leaves its state only  *)
(* by its removal.                                                         *)
THEOREM DeletionFinalHolds == Spec => DeletionFinal
<1>1. ASSUME Inv, [Next]_vars, row.state = "deleting"
      PROVE  StaysDeleting(row, row')
  <2> USE <1>1
  <2>1. row \in Rows /\ row.route = None
    BY DEF Inv, GoodRow, CheckConstraints, RouteState
  <2>2. CASE row' = row
    BY <2>1, <2>2 DEF StaysDeleting
  <2>3. CASE \/ row' = MarkDeleting(row) \/ row' = Request(row) \/ row' = Assign(row)
             \/ \E v : \/ row' = [row EXCEPT !.wanted = v]
                       \/ row' = [row EXCEPT !.beat = v]
    BY <2>1, <2>3 DEF StaysDeleting, MarkDeleting, Request, Assign
  <2>4. ~CanDisconnect(row) /\ ~CanDrain(row)
        /\ row.state \notin JoinStates \cup ConnectedStates
    BY DEF CanDisconnect, CanDrain
  <2> QED
    BY <2>2, <2>3, <2>4, DecideDeleting, RecordDeleting, OtherWrites, RowWriters
<1>2. Inv /\ [Next]_vars =>
        [ row.state = "deleting" =>
            /\ row'.state \in {"deleting", "removed"}
            /\ row'.route = None
            /\ row'.gen \in {row.gen, None} ]_vars
  BY <1>1 DEF StaysDeleting
<1> QED
  BY <1>2, Invariant, PTL DEF Spec, DeletionFinal

-----------------------------------------------------------------------------
(* An unsettled create is kept *)

(* A job that takes a safe action gives up no generation.                  *)
LEMMA TakeKeeps ==
    ASSUME NoneAssumption, NEW j, NEW r, GoodRow(r), r.gen # None,
           NEW current, NEW stray, NEW act, SafeAct(r, current, stray, act),
           Take(j, r, act)
    PROVE  row'.gen = r.gen
<1>1. r \in Rows /\ act.op # "begin_create"
  BY DEF GoodRow, CheckConstraints, GenerationState, SafeAct
<1>2. \/ row' = r \/ row' = [r EXCEPT !.sent = TRUE] \/ row' = Pause(r)
      \/ row' = Drain(r, act.reason) \/ row' = Resume(r)
  BY <1>1 DEF Take, EndJob, Intend, Continue
<1>3. [r EXCEPT !.sent = TRUE].gen = r.gen
  BY <1>1
<1>4. Pause(r).gen = r.gen /\ Drain(r, act.reason).gen = r.gen
      /\ Resume(r).gen = r.gen
  BY <1>1 DEF Pause, Drain, Resume
<1> QED
  BY <1>2, <1>3, <1>4

LEMMA DecideKeeps ==
    ASSUME Inv, NEW j \in Jobs, Decide(j), row.gen # None
    PROVE  row'.gen = row.gen
<1>1. row \in Rows /\ row.assigned
  BY DEF Inv, GoodRow, CheckConstraints, ProviderWithGeneration
<1>2. CASE row' = row
  BY <1>2
<1>3. CASE row' # row
  <2>1. PICK r \in {row, [row EXCEPT !.seen = TRUE]} :
          /\ GoodRow(r) /\ Exists(r)
          /\ r.gen = row.gen /\ r.state = row.state
          /\ \/ \E ref : row' = [r EXCEPT !.ref = ref]
             \/ \E current, stray, act :
                  SafeAct(r, current, stray, act) /\ Take(j, r, act)
    BY <1>1, <1>3, DecideCases
  <2>2. r \in Rows
    BY <2>1 DEF GoodRow
  <2>3. CASE \E ref : row' = [r EXCEPT !.ref = ref]
    BY <2>1, <2>2, <2>3
  <2> QED
    BY <2>1, <2>3, TakeKeeps, NoneAssumption
<1> QED
  BY <1>2, <1>3

(* A recorded answer ends only a generation that was seen, or one whose    *)
(* create it refuses.                                                      *)
LEMMA RecordKeeps ==
    ASSUME Inv, NEW j \in Jobs, Record(j),
           row.gen # None, ~row.seen, row'.gen # row.gen
    PROVE  job[j].res.op = "rejected" /\ job[j].seen.gen = row.gen
<1>1. row \in Rows /\ JobOK(job[j]) /\ job[j].pc = "record"
  BY DEF Inv, GoodRow, Record
<1>2. Lifecycle(row) = job[j].seen /\ row' = Apply(job[j].act, job[j].res)
  BY DEF Record
<1>3. job[j].seen.gen = row.gen /\ job[j].seen.seen = row.seen
  BY <1>2 DEF Lifecycle
<1>4. job[j].act.op \notin {"mark_absent", "resume", "delete_storage"}
  BY <1>1, <1>3 DEF JobOK, SafeCall
<1>5. job[j].res.op # "settle"
  BY <1>1, <1>4 DEF JobOK, AnswerTo
<1>6. CASE job[j].res.op # "rejected"
  <2>1. row' = row \/ \E ref : row' = [row EXCEPT !.ref = ref]
    BY <1>2, <1>4, <1>5, <1>6 DEF Apply
  <2> QED
    BY <1>1, <2>1
<1> QED
  BY <1>3, <1>6

LEMMA OthersKeep ==
    ASSUME Inv,
           \/ \E i \in inst : Worker(i) \/ Platform(i) \/ SweepOrphan(i)
           \/ Connection
           \/ Owner
           \/ \E j \in Jobs : StartJob(j)
    PROVE  row'.gen = row.gen
<1>1. row \in Rows
  BY DEF Inv, GoodRow
<1>2. CASE \/ row' = row \/ row' = MarkDeleting(row) \/ row' = Disconnect(row)
           \/ row' = Renew(row, 0, 0) \/ row' = Request(row) \/ row' = Assign(row)
  BY <1>1, <1>2 DEF MarkDeleting, Disconnect, Renew, Request, Assign
<1>3. ASSUME NEW v, NEW w,
             \/ row' = Drain(row, v) \/ row' = Admit(row, v, w, 0)
             \/ row' = [row EXCEPT !.wanted = v] \/ row' = [row EXCEPT !.beat = v]
      PROVE  row'.gen = row.gen
  BY <1>1, <1>3 DEF Drain, Admit
<1> QED
  BY <1>2, <1>3, OtherWrites

(* A generation that was sent to the platform is given up only after one   *)
(* of its instances was observed, or by the answer of a refused create,    *)
(* for any number of overlapping jobs.                                     *)
THEOREM UnsettledKeptHolds == Spec => UnsettledKept
<1> DEFINE Kept ==
      row.gen # None /\ row.sent /\ ~row.seen /\ row'.gen # row.gen =>
        \E j \in Jobs : /\ job[j].pc = "record"
                        /\ job[j].res.op = "rejected"
                        /\ job[j].seen.gen = row.gen
<1>1. ASSUME Inv, [Next]_vars, row.gen # None, ~row.seen, row'.gen # row.gen
      PROVE  \E j \in Jobs : /\ job[j].pc = "record"
                             /\ job[j].res.op = "rejected"
                             /\ job[j].seen.gen = row.gen
  <2> USE <1>1
  <2>1. row' # row
    OBVIOUS
  <2>2. PICK j \in Jobs : Decide(j) \/ Record(j)
    BY <2>1, OthersKeep, RowWriters
  <2>3. Record(j) /\ job[j].pc = "record"
    BY <2>2, DecideKeeps DEF Record
  <2> QED
    BY <2>3, RecordKeeps
<1>2. Inv /\ [Next]_vars => [Kept]_vars
  BY <1>1
<1> QED
  BY <1>2, Invariant, PTL DEF Spec, UnsettledKept
=============================================================================
