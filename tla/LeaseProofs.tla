----------------------------- MODULE LeaseProofs -----------------------------
(***************************************************************************)
(* The single writer of an Agent's Home, while jobs do not overlap: the    *)
(* platform never holds two instances, and the system implements the lease *)
(* of HomeLease.  For every set of generations and references, every kind  *)
(* of provider and every moment's facts.                                   *)
(***************************************************************************)
EXTENDS AgentWorkersProofs

OneJob == \A j, k \in Jobs : j = k

(* What a job knows of the platform's instances while it decides, and      *)
(* while its create is on the way.                                         *)
JobWrites(l) ==
    /\ l.pc = "decide" /\ l.seen.assigned =>
          \A i \in inst : \E o \in l.objs : o.gen = i.gen
    /\ l.pc = "call" /\ l.act.op = "create" =>
          /\ row.gen = l.seen.gen
          /\ \A i \in inst : i.gen = l.seen.gen

Writer ==
    /\ SingleWriter
    /\ \A j \in Jobs : JobWrites(job[j])

(* A step of the platform replaces an instance by its next state, or drops *)
(* it.                                                                     *)
Narrows ==
    \/ inst' \subseteq inst
    \/ \E i \in inst : \E k : k.gen = i.gen /\ inst' \subseteq (inst \ {i}) \cup {k}

(* The first instance of the generation that is granted.                   *)
Arrives ==
    inst = {} /\ row.gen # None /\ \A i \in inst' : i.gen = row.gen

(* What a step may do to the grant.                                        *)
GrantStep ==
    \/ row'.gen \in {row.gen, None}
    \/ row.gen = None /\ inst = {} /\ row'.gen \in Generations

LEMMA InstanceFields ==
    \A i \in Instances, phase \in Phases :
        /\ [i EXCEPT !.phase = phase].gen = i.gen
        /\ [i EXCEPT !.phase = phase] \in Instances
BY DEF Instances

-----------------------------------------------------------------------------
(* Decisions *)

(* An observed platform without strays holds the current generation only.  *)
LEMMA NoStray ==
    ASSUME NEW objs, NEW r, NEW current \in Currents(r, objs),
           None \in Strays(objs, current), None \notin objs,
           \A i \in inst : \E o \in objs : o.gen = i.gen
    PROVE  /\ r.gen = None => inst = {}
           /\ \A i \in inst : i.gen = r.gen
<1>1. objs \ {current} = {}
  BY DEF Strays
<1>2. current # None => IsCurrent(r, current)
  BY DEF Currents
<1>3. \A i \in inst : current # None /\ current.gen = i.gen
  BY <1>1
<1> QED
  BY <1>2, <1>3 DEF IsCurrent

LEMMA TakeWrites ==
    ASSUME NoneAssumption, NEW j \in Jobs, job \in [Jobs -> JobStates],
           NEW r, GoodRow(r), NEW current, NEW stray, NEW act,
           SafeAct(r, current, stray, act), Take(j, r, act), inst' = inst,
           act.op = "create" => \A i \in inst : i.gen = r.gen,
           act.op = "begin_create" => inst = {}
    PROVE  /\ JobWrites(job[j])'
           /\ \/ row'.gen = r.gen
              \/ r.gen = None /\ inst = {} /\ row'.gen \in Generations
<1>1. r \in Rows /\ (act.op = "begin_create" => r.gen = None)
  BY DEF GoodRow, CheckConstraints, GenerationState, SafeAct
<1>2. CASE act.op \in {"none", "wait"} \/ Same(act) = job[j].prev
  BY <1>2 DEF Take, EndJob, Idling, JobWrites
<1>3. CASE ~(act.op \in {"none", "wait"} \/ Same(act) = job[j].prev)
  <2>1. CASE act.op = "begin_create" /\ job[j].prepared
    <3>1. PICK g \in Generations : Continue(j, BeginGeneration(r, g), act)
      BY <1>3, <2>1 DEF Take, BeginCreate
    <3> QED
      BY <1>1, <2>1, <3>1
         DEF Continue, Loop, Idling, JobWrites, BeginGeneration, Rows
  <2>2. CASE act.op = "begin_create" /\ ~job[j].prepared
    BY <1>3, <2>2 DEF Take, JobWrites, JobStates
  <2>3. CASE act.op = "create"
    <3>1. Intend(j, [r EXCEPT !.sent = TRUE], act)
      BY <1>3, <2>3 DEF Take
    <3>2. [r EXCEPT !.sent = TRUE].gen = r.gen
      BY <1>1 DEF Rows
    <3>3. row'.gen = r.gen /\ job'[j].seen.gen = r.gen /\ job'[j].pc = "call"
      BY <3>1, <3>2 DEF Intend, Lifecycle, JobStates
    <3>4. \A i \in inst' : i.gen = job'[j].seen.gen
      BY <2>3, <3>3
    <3>5. JobWrites(job[j])'
      BY <3>3, <3>4 DEF JobWrites
    <3> QED
      BY <3>3, <3>5
  <2>4. CASE act.op = "mark_paused"
    <3>1. Continue(j, Pause(r), act)
      BY <1>3, <2>4 DEF Take
    <3>2. Pause(r).gen = r.gen
      BY <1>1 DEF Pause, Rows
    <3> QED
      BY <3>1, <3>2 DEF Continue, Loop, Idling, JobWrites
  <2>5. CASE act.op \notin {"begin_create", "create", "mark_paused"}
    <3>1. \E q : Intend(j, q, act) /\ q.gen = r.gen
      <4>1. CASE act.op \in {"replace", "release"}
        <5>1. Drain(r, act.reason).gen = r.gen
          BY <1>1 DEF Drain, Rows
        <5>2. Intend(j, Drain(r, act.reason), act)
          BY <1>3, <4>1 DEF Take
        <5> QED
          BY <5>1, <5>2
      <4>2. CASE act.op = "resume"
        BY <1>1, <1>3, <4>2 DEF Take, Resume, Rows
      <4>3. CASE act.op \notin {"replace", "release", "resume"}
        BY <1>3, <2>5, <4>3 DEF Take
      <4> QED
        BY <4>1, <4>2, <4>3
    <3>2. job'[j].pc = "call" /\ job'[j].act = act /\ row'.gen = r.gen
      BY <3>1 DEF Intend, JobStates
    <3> QED
      BY <2>5, <3>2 DEF JobWrites
  <2> QED
    BY <2>1, <2>2, <2>3, <2>4, <2>5
<1> QED
  BY <1>2, <1>3

LEMMA DecideWrites ==
    ASSUME Inv, Writer, NEW j \in Jobs, Decide(j)
    PROVE  JobWrites(job[j])' /\ GrantStep
<1> USE NoneAssumption
<1>1. /\ GoodRow(row) /\ row \in Rows /\ job \in [Jobs -> JobStates]
      /\ job[j] \in JobStates /\ JobOK(job[j]) /\ JobWrites(job[j])
      /\ job[j].pc = "decide" /\ inst' = inst
  BY DEF Inv, TypeOK, GoodRow, Writer, Decide
<1>2. CASE EndJob(j, row) \/ EndJob(j, Removed)
  BY <1>1, <1>2 DEF EndJob, Idling, JobWrites, GrantStep, Removed, Register
<1>3. CASE row' = row /\ job' = [job EXCEPT ![j] = Reread(job[j])]
  BY <1>1, <1>3 DEF Reread, Loop, Idling, JobWrites, GrantStep
<1>4. CASE /\ Exists(row) /\ Lifecycle(row) = job[j].seen
           /\ ~(row.state = "deleting" /\ ~row.assigned)
           /\ \E facts : DecideWith(j, facts)
  <2>1. job[j].seen.assigned /\ job[j].seen.state = row.state
    BY <1>1, <1>4 DEF Lifecycle, JobOK
  <2> DEFINE objs  == job[j].objs
             found == {o \in objs : IsCurrent(row, o) /\ o.present}
             r     == IF found = {} THEN row ELSE [row EXCEPT !.seen = TRUE]
  <2>2. \A i \in inst : \E o \in objs : o.gen = i.gen
    BY <1>1, <2>1 DEF JobWrites
  <2>3. GoodRow(r) /\ r \in Rows /\ r.gen = row.gen /\ r.state = row.state
    <3>1. found # {} => row.gen # None
      BY DEF IsCurrent
    <3> QED
      BY <1>1, <3>1, SeenGood DEF GoodRow, Rows
  <2>4. objs \subseteq Observations /\ None \notin objs
    BY <1>1 DEF JobStates, NoneAssumption
  <2>5. PICK facts : DecideWith(j, facts)
    BY <1>4
  <2>6. CASE row.ref = None /\ \E o \in found : o.ref # None
    <3>1. PICK o \in found : Continue(j, [r EXCEPT !.ref = o.ref], None)
      BY <2>5, <2>6 DEF DecideWith
    <3> HIDE DEF r, found
    <3>2. [r EXCEPT !.ref = o.ref].gen = row.gen
      BY <2>3 DEF Rows
    <3> QED
      BY <1>1, <3>1, <3>2 DEF Continue, Loop, Idling, JobWrites, GrantStep
  <2>7. CASE ~(row.ref = None /\ \E o \in found : o.ref # None)
    <3>1. PICK current \in Currents(r, objs) :
            \E stray \in Strays(objs, current) :
              Take(j, r, NextAction(r, current, stray, facts))
      BY <2>5, <2>7 DEF DecideWith
    <3>2. PICK stray \in Strays(objs, current) :
            Take(j, r, NextAction(r, current, stray, facts))
      BY <3>1
    <3>3. /\ current \in Optional(Observations)
          /\ current # None => IsCurrent(r, current)
          /\ stray \in Optional(Observations)
      BY <2>4 DEF Currents, Strays, Optional
    <3> DEFINE act == NextAction(r, current, stray, facts)
    <3>4. SafeAct(r, current, stray, act)
      BY <1>4, <2>3, <3>3, NextActionSafe DEF Exists
    <3>5. act.op \in {"create", "begin_create"} => stray = None
      BY <3>4 DEF SafeAct
    <3> HIDE DEF r, objs, act
    <3>6. act.op \in {"create", "begin_create"} =>
            /\ r.gen = None => inst = {}
            /\ \A i \in inst : i.gen = r.gen
      <4>1. current \in Currents(r, objs) /\ stray \in Strays(objs, current)
        BY <3>1, <3>2
      <4>2. None \in Strays(objs, current) =>
              /\ r.gen = None => inst = {}
              /\ \A i \in inst : i.gen = r.gen
        BY <2>2, <2>4, <4>1, NoStray
      <4> QED
        BY <3>5, <4>1, <4>2
    <3>7. act.op = "begin_create" => r.gen = None
      BY <2>3, <3>4 DEF SafeAct, GoodRow, CheckConstraints, GenerationState
    <3>8. Take(j, r, act)
      BY <3>2 DEF act
    <3>9. /\ JobWrites(job[j])'
          /\ \/ row'.gen = r.gen
             \/ r.gen = None /\ inst = {} /\ row'.gen \in Generations
      BY <1>1, <2>3, <3>4, <3>6, <3>7, <3>8, TakeWrites
    <3> QED
      BY <2>3, <3>9 DEF GrantStep
  <2> QED
    BY <2>6, <2>7
<1> QED
  BY <1>2, <1>3, <1>4 DEF Decide

-----------------------------------------------------------------------------
(* Platform calls *)

(* A call leaves its job in a state that owes nothing.                     *)
LEMMA Answered ==
    ASSUME NEW j \in Jobs, job \in [Jobs -> JobStates],
           \/ \E res : Answer(j, res)
           \/ job' = [job EXCEPT ![j] = Failed]
    PROVE  JobWrites(job[j])'
<1>1. job'[j].pc \in {"record", "failed"}
  BY DEF Answer, Failed, Idling, JobStates
<1> QED
  BY <1>1 DEF JobWrites

(* A create on the way takes effect on an empty platform, or on the        *)
(* instance of its own generation.                                         *)
LEMMA CreateWrites ==
    ASSUME Inv, Writer, NEW j \in Jobs,
           CallCreate(j) \/ CallCreateHalf(j) \/ CallCreateRejected(j)
    PROVE  SingleWriter' /\ (Narrows \/ Arrives)
<1> DEFINE g == job[j].seen.gen
<1>1. /\ job[j].pc = "call" /\ job[j].act.op = "create"
      /\ inst \subseteq Instances /\ g \in Generations
  BY CallState DEF CallCreate, CallCreateHalf, CallCreateRejected, Inv, TypeOK
<1>2. row.gen = g /\ \A i \in inst : i.gen = g
  BY <1>1 DEF Writer, JobWrites
<1>3. OfGeneration(g) = inst
  BY <1>2 DEF OfGeneration
<1>4. g # None
  BY <1>1, NoneAssumption DEF NoneAssumption
<1>5. ASSUME NEW phase, NEW i \in NewInstances(g, phase) PROVE i.gen = g
  BY <1>5 DEF NewInstances
<1>6. CASE inst' = inst
  BY <1>6 DEF Writer, SingleWriter, Narrows
<1>7. CASE inst = {} /\ \E i \in NewInstances(g, "starting") : inst' = inst \cup {i}
  BY <1>2, <1>4, <1>5, <1>7 DEF SingleWriter, Arrives
<1>8. CASE /\ Kind = "kubernetes" /\ inst = {}
           /\ inst' = inst \cup NewInstances(g, "partial")
  BY <1>2, <1>4, <1>5, <1>8
     DEF SingleWriter, Arrives, NewInstances, NamedByGeneration
<1>9. CASE \E i \in inst : inst' = (inst \ {i}) \cup {Restarted(i)}
  <2>1. PICK i \in inst : inst' = (inst \ {i}) \cup {Restarted(i)}
    BY <1>9
  <2>2. Restarted(i).gen = i.gen
    BY <1>1, InstanceFields DEF Restarted, Phases
  <2> QED
    BY <2>1, <2>2 DEF Writer, SingleWriter, Narrows
<1> QED
  BY <1>3, <1>6, <1>7, <1>8, <1>9
     DEF CallCreate, CallCreateHalf, CallCreateRejected

(* A deletion only moves its targets on.                                   *)
LEMMA DeleteNarrows ==
    ASSUME inst \subseteq Instances, SingleWriter, NEW o, DeleteInstance(o)
    PROVE  Narrows
<1>1. CASE inst = {}
  BY <1>1 DEF DeleteInstance, Targets, Narrows
<1>2. CASE inst # {}
  <2>1. PICK i \in inst : inst = {i}
    BY <1>2 DEF SingleWriter
  <2> DEFINE ended == [i EXCEPT !.phase = "terminating"]
  <2>2. ended.gen = i.gen
    BY <2>1, InstanceFields DEF Phases
  <2>3. Targets(o) = {i} \/ Targets(o) = {}
    BY <2>1 DEF Targets
  <2>4. inst' \subseteq inst \/ inst' \subseteq (inst \ {i}) \cup {ended}
    BY <2>1, <2>3 DEF DeleteInstance
  <2> HIDE DEF ended
  <2> QED
    BY <2>2, <2>4 DEF Narrows
<1> QED
  BY <1>1, <1>2

LEMMA BecomeNarrows ==
    ASSUME inst \subseteq Instances, NEW i \in inst, NEW phase \in Phases,
           inst' \subseteq (inst \ {i}) \cup {[i EXCEPT !.phase = phase]}
    PROVE  Narrows
BY InstanceFields DEF Narrows

LEMMA OtherCallsNarrow ==
    ASSUME Inv, SingleWriter, NEW j \in Jobs,
           \/ CallDelete(j) \/ CallPause(j) \/ CallResume(j)
           \/ CallMarkAbsent(j) \/ CallDeleteStorage(j)
    PROVE  Narrows
<1>1. inst \subseteq Instances
  BY DEF Inv, TypeOK
<1>2. CASE inst' = inst
  BY <1>2 DEF Narrows
<1>3. CASE CallDelete(j)
  BY <1>1, <1>3, DeleteNarrows DEF CallDelete
<1>4. CASE CallPause(j)
  <2>1. PICK i \in inst : inst' = (inst \ {i}) \cup
            {IF i.phase = "paused" THEN i ELSE [i EXCEPT !.phase = "suspending"]}
    BY <1>4 DEF CallPause, Targets
  <2> QED
    BY <1>1, <1>2, <2>1, BecomeNarrows DEF Phases
<1>5. CASE CallResume(j) /\ inst' # inst
  <2>1. PICK i \in inst : inst' = (inst \ {i}) \cup
            {IF i.phase = "paused" THEN [i EXCEPT !.phase = "running"] ELSE i}
    BY <1>5 DEF CallResume, Targets
  <2> QED
    BY <1>1, <1>2, <2>1, BecomeNarrows DEF Phases
<1> QED
  BY <1>2, <1>3, <1>4, <1>5 DEF CallMarkAbsent, CallDeleteStorage

LEMMA PlatformNarrows ==
    ASSUME Inv, SingleWriter, NEW i \in inst, Platform(i) \/ SweepOrphan(i)
    PROVE  Narrows
<1>1. inst \subseteq Instances
  BY DEF Inv, TypeOK
<1>2. CASE \E phase \in Phases : Become(i, phase)
  BY <1>1, <1>2, BecomeNarrows DEF Become
<1>3. CASE Vanishes(i)
  BY <1>1, <1>3, BecomeNarrows DEF Vanishes, Phases, Narrows
<1>4. CASE StartFails(i)
  BY <1>4 DEF StartFails, Narrows
<1>5. CASE SweepOrphan(i)
  BY <1>1, <1>5, DeleteNarrows DEF SweepOrphan
<1> QED
  BY <1>2, <1>3, <1>4, <1>5
     DEF Platform, Boots, Suspends, OperatorResumes, Exits, Phases

-----------------------------------------------------------------------------
(* Every step *)

(* A recorded answer ends the generation or keeps it.                      *)
LEMMA RecordGrant ==
    ASSUME Inv, NEW j \in Jobs, Record(j)
    PROVE  GrantStep
<1>1. row \in Rows
  BY DEF Inv, TypeOK
<1>2. CASE row' = row \/ row' = Removed \/ \E ref : row' = Settle(row, ref)
  BY <1>1, <1>2 DEF GrantStep, Removed, Register, Settle, Cleared, Rows
<1>3. CASE \E ref : row' = [row EXCEPT !.ref = ref]
                  \/ row' = [row EXCEPT !.storage = ref]
  BY <1>1, <1>3 DEF GrantStep, Rows
<1> QED
  BY <1>2, <1>3 DEF Record, Apply

(* What a step does to grant and holder.  Only a decision or a record      *)
(* changes the grant, only a platform step the instances.                  *)
LeaseStep ==
    \/ row'.gen = row.gen /\ Narrows
    \/ row'.gen = row.gen /\ Arrives
    \/ inst' = inst /\ GrantStep

LEMMA JobSteps ==
    ASSUME Inv, Writer, NEW j \in Jobs, JobStep(j) \/ JobFails(j)
    PROVE  LeaseStep
<1>1. CASE StartJob(j)
  BY <1>1, OthersKeep DEF StartJob, LeaseStep, GrantStep
<1>2. CASE ReadRow(j) \/ ListInstances(j) \/ Prepare(j) \/ JobFails(j)
  BY <1>2 DEF ReadRow, ListInstances, Prepare, JobFails, LeaseStep, GrantStep
<1>3. CASE Decide(j)
  BY <1>3, DecideWrites DEF Decide, LeaseStep
<1>4. CASE Record(j)
  BY <1>4, RecordGrant DEF Record, LeaseStep
<1>5. CASE Call(j)
  <2>1. row' = row
    BY <1>5 DEF Call, CallCreate, CallCreateHalf, CallCreateRejected,
                CallDelete, CallPause, CallResume, CallMarkAbsent,
                CallDeleteStorage
  <2>2. Narrows \/ Arrives
    BY <1>5, CreateWrites, OtherCallsNarrow DEF Call, Writer
  <2> QED
    BY <2>1, <2>2 DEF LeaseStep
<1> QED
  BY <1>1, <1>2, <1>3, <1>4, <1>5 DEF JobStep

LEMMA OtherSteps ==
    ASSUME Inv, Writer,
           \/ \E i \in inst : Worker(i) \/ Platform(i) \/ SweepOrphan(i)
           \/ Connection
           \/ Owner
    PROVE  row'.gen = row.gen /\ Narrows /\ job' = job
<1>1. row'.gen = row.gen
  BY OthersKeep
<1>2. CASE Connection \/ Owner \/ \E i \in inst : Worker(i)
  <2>1. inst' = inst /\ job' = job
    BY <1>2 DEF Connection, HeartbeatAges, ReleaseRoute, ControlShutdown,
                Owner, DisableAgent, EnableAgent, SetAgent, DeleteAgent,
                RequestWorker, WantedExpires, AssignProvider, PrepareRename,
                RenameWorker, Worker, Join, Heartbeat
  <2> QED
    BY <1>1, <2>1 DEF Narrows
<1>3. CASE \E i \in inst : Platform(i) \/ SweepOrphan(i)
  <2>1. job' = job
    BY <1>3 DEF Platform, Boots, Suspends, OperatorResumes, Exits, Become,
                Vanishes, StartFails, SweepOrphan
  <2> QED
    BY <1>1, <1>3, <2>1, PlatformNarrows DEF Writer
<1> QED
  BY <1>2, <1>3

-----------------------------------------------------------------------------
(* Invariance *)

(* Fewer instances and the same grant owe a job nothing new.               *)
LEMMA NarrowsKeeps ==
    ASSUME Writer, Narrows, row'.gen = row.gen, job' = job
    PROVE  Writer'
<1>1. SingleWriter'
  BY DEF Writer, SingleWriter, Narrows
<1>2. \A i \in inst' : \E k \in inst : k.gen = i.gen
  BY DEF Narrows
<1>3. ASSUME NEW j \in Jobs PROVE JobWrites(job[j])'
  <2>1. JobWrites(job[j])
    BY DEF Writer
  <2> QED
    BY <1>2, <2>1 DEF JobWrites
<1> QED
  BY <1>1, <1>3 DEF Writer

LEMMA JobKeeps ==
    ASSUME OneJob, Inv, Writer, NEW j \in Jobs, JobStep(j) \/ JobFails(j)
    PROVE  Writer'
<1>1. /\ job \in [Jobs -> JobStates] /\ SingleWriter
      /\ \A k \in Jobs : k = j
  BY DEF OneJob, Inv, TypeOK, Writer
<1>2. SingleWriter'
  <2>1. CASE Call(j)
    BY <2>1, CreateWrites, OtherCallsNarrow
       DEF Call, Writer, SingleWriter, Narrows
  <2>2. CASE ~Call(j)
    <3>1. inst' = inst
      BY <2>2 DEF JobStep, JobFails, StartJob, ReadRow, ListInstances, Decide,
                  Prepare, Record
    <3> QED
      BY <1>1, <3>1 DEF SingleWriter
  <2> QED
    BY <2>1, <2>2
<1>3. JobWrites(job[j])'
  <2>1. CASE StartJob(j) \/ Prepare(j) \/ Record(j) \/ JobFails(j)
    <3>1. /\ Idling.pc = "idle" /\ Failed.pc = "failed"
          /\ \A l, prev : Loop(l, prev).pc = "read"
          /\ \A l, prev : [Loop(l, prev) EXCEPT !.prepared = TRUE].pc = "read"
      BY DEF Idling, Failed, Loop
    <3>2. CASE StartJob(j)
      BY <1>1, <3>1, <3>2 DEF StartJob, JobWrites
    <3>3. CASE Prepare(j)
      BY <1>1, <3>1, <3>3 DEF Prepare, Reread, JobWrites
    <3>4. CASE Record(j)
      BY <1>1, <3>1, <3>4 DEF Record, JobWrites
    <3>5. CASE JobFails(j)
      BY <1>1, <3>1, <3>5 DEF JobFails, JobWrites
    <3> QED
      BY <2>1, <3>2, <3>3, <3>4, <3>5
  <2>2. CASE ReadRow(j)
    <3>1. /\ job'[j].pc \in {"idle", "list", "decide"}
          /\ job'[j].pc = "decide" => ~job'[j].seen.assigned
      BY <1>1, <2>2 DEF ReadRow, Idling, Lifecycle, JobStates
    <3> QED
      BY <3>1 DEF JobWrites
  <2>3. CASE ListInstances(j)
    <3>1. /\ job'[j].pc = "decide" /\ inst' = inst
          /\ job'[j].objs = {Observe(i) : i \in inst}
      BY <1>1, <2>3 DEF ListInstances, JobStates
    <3>2. \A i \in inst : Observe(i).gen = i.gen
      BY DEF Observe
    <3> QED
      BY <3>1, <3>2 DEF JobWrites
  <2>4. CASE Decide(j)
    BY <2>4, DecideWrites
  <2>5. CASE Call(j)
    BY <1>1, <2>5, Answered
       DEF Call, CallCreate, CallCreateHalf, CallCreateRejected, CallDelete,
           CallPause, CallResume, CallMarkAbsent, CallDeleteStorage
  <2> QED
    BY <2>1, <2>2, <2>3, <2>4, <2>5 DEF JobStep
<1> QED
  BY <1>1, <1>2, <1>3 DEF Writer

LEMMA WriterInit ==
    ASSUME Init
    PROVE  Writer
BY DEF Init, Writer, SingleWriter, JobWrites, Idling

LEMMA WriterNext ==
    ASSUME OneJob, Inv, Writer, [Next]_vars
    PROVE  Writer' /\ (LeaseStep \/ UNCHANGED <<row, inst>>)
<1>1. CASE \E j \in Jobs : JobStep(j) \/ JobFails(j)
  BY <1>1, JobKeeps, JobSteps
<1>2. CASE \/ \E i \in inst : Worker(i) \/ Platform(i) \/ SweepOrphan(i)
           \/ Connection
           \/ Owner
  BY <1>2, OtherSteps, NarrowsKeeps DEF LeaseStep
<1>3. CASE UNCHANGED vars
  BY <1>3, NarrowsKeeps DEF vars, Narrows
<1> QED
  BY <1>1, <1>2, <1>3 DEF Next

THEOREM WriterInvariant ==
    ASSUME OneJob
    PROVE  Spec => []Writer
<1>1. Init => Writer
  BY WriterInit
<1>2. Inv /\ Writer /\ [Next]_vars => Writer'
  BY WriterNext
<1> QED
  BY <1>1, <1>2, Invariant, PTL DEF Spec

(* While jobs do not overlap, the platform never holds two instances of an *)
(* Agent, stopped ones and left-over Secrets included.                     *)
THEOREM SingleWriterHolds ==
    ASSUME OneJob
    PROVE  Spec => []SingleWriter
<1>1. Writer => SingleWriter
  BY DEF Writer
<1> QED
  BY <1>1, WriterInvariant, PTL

-----------------------------------------------------------------------------
(* A removed row leaves nothing behind *)

(* Without a provider there is no instance, and the deletion of storage    *)
(* succeeds only on an empty platform.                                     *)
Clean ==
    /\ ~Exists(row) => ~row.assigned
    /\ ~row.assigned => inst = {}
    /\ \A j \in Jobs : job[j].pc = "record" /\ job[j].act.op = "delete_storage"
                        /\ job[j].res.op = "ok" => inst = {}

(* A safe action neither removes the row nor changes its provider.         *)
LEMMA TakeRow ==
    ASSUME NEW j, NEW r, GoodRow(r), Exists(r),
           NEW current, NEW stray, NEW act, SafeAct(r, current, stray, act),
           Take(j, r, act)
    PROVE  row'.assigned = r.assigned /\ Exists(row')
<1>1. r \in Rows
  BY DEF GoodRow
<1>2. CASE row' = r \/ row' = [r EXCEPT !.sent = TRUE]
  BY <1>1, <1>2 DEF Exists, Rows
<1>3. CASE \E v : \/ row' = BeginGeneration(r, v) \/ row' = Drain(r, v)
                 \/ row' = Pause(r) \/ row' = Resume(r)
  BY <1>1, <1>3 DEF Exists, Rows, BeginGeneration, Drain, Pause, Resume
<1> QED
  BY <1>2, <1>3 DEF Take, EndJob, Intend, Continue, BeginCreate

RowStep ==
    \/ row'.assigned = row.assigned /\ row'.state = row.state
    \/ row'.assigned = row.assigned /\ Exists(row')
    \/ row'.assigned /\ Exists(row')
    \/ ~row'.assigned /\ inst = {} /\ inst' = inst

LEMMA DecideRow ==
    ASSUME Inv, Clean, NEW j \in Jobs, Decide(j)
    PROVE  RowStep
<1>1. row \in Rows /\ inst' = inst
  BY DEF Inv, GoodRow, Decide
<1>2. CASE row' = row
  BY <1>2 DEF RowStep
<1>3. CASE ~row.assigned /\ row' = Removed
  BY <1>1, <1>3 DEF RowStep, Clean, Removed, Register
<1>4. CASE row' # row /\ ~(~row.assigned /\ row' = Removed)
  <2>1. PICK r \in {row, [row EXCEPT !.seen = TRUE]} :
          /\ GoodRow(r) /\ Exists(r)
          /\ r.gen = row.gen /\ r.state = row.state
          /\ \/ \E ref : row' = [r EXCEPT !.ref = ref]
             \/ \E current, stray, act :
                  SafeAct(r, current, stray, act) /\ Take(j, r, act)
    BY <1>4, DecideCases
  <2>2. r \in Rows /\ r.assigned = row.assigned
    BY <1>1, <2>1 DEF GoodRow, Rows
  <2>3. CASE \E ref : row' = [r EXCEPT !.ref = ref]
    BY <2>1, <2>2, <2>3 DEF RowStep, Rows, Exists
  <2> QED
    BY <2>1, <2>2, <2>3, TakeRow DEF RowStep
<1> QED
  BY <1>2, <1>3, <1>4

LEMMA RecordRow ==
    ASSUME Inv, Clean, NEW j \in Jobs, Record(j)
    PROVE  RowStep
<1>1. row \in Rows /\ inst' = inst /\ job[j].pc = "record"
  BY DEF Inv, GoodRow, Record
<1>2. CASE row' = row
  BY <1>2 DEF RowStep
<1>3. CASE /\ job[j].act.op = "delete_storage" /\ job[j].res.op = "ok"
           /\ row' = Removed
  BY <1>1, <1>3 DEF RowStep, Clean, Removed, Register
<1>4. CASE \E ref : row' = [row EXCEPT !.ref = ref]
                  \/ row' = [row EXCEPT !.storage = ref]
  BY <1>1, <1>4 DEF RowStep, Rows
<1>5. CASE \E ref : row' = Settle(row, ref)
  BY <1>1, <1>5 DEF RowStep, Rows, Settle, Cleared, Exists
<1> QED
  BY <1>2, <1>3, <1>4, <1>5 DEF Record, Apply

LEMMA OtherRow ==
    ASSUME Inv,
           \/ \E i \in inst : Worker(i) \/ Platform(i) \/ SweepOrphan(i)
           \/ Connection
           \/ Owner
           \/ \E j \in Jobs : StartJob(j)
    PROVE  RowStep
<1>1. row \in Rows
  BY DEF Inv, GoodRow
<1>2. CASE row' = row \/ (Exists(row) /\ row' = MarkDeleting(row))
           \/ (Exists(row) /\ row' = Assign(row))
  BY <1>1, <1>2 DEF RowStep, Rows, MarkDeleting, Assign, Exists
<1>3. CASE \/ row' = Disconnect(row) \/ row' = Renew(row, 0, 0)
           \/ row' = Request(row) \/ \E reason : row' = Drain(row, reason)
           \/ \E v, w : row' = Admit(row, v, w, 0)
  BY <1>1, <1>3 DEF RowStep, Rows, Disconnect, Renew, Request, Drain, Admit,
                    Exists
<1>4. CASE \E v : \/ row' = [row EXCEPT !.wanted = v]
                 \/ row' = [row EXCEPT !.beat = v]
  BY <1>1, <1>4 DEF RowStep, Rows
<1> QED
  BY <1>2, <1>3, <1>4, OtherWrites

(* An empty platform stays empty while nothing is granted.                 *)
LEMMA EmptyStays ==
    ASSUME LeaseStep \/ UNCHANGED <<row, inst>>, inst = {},
           ~Arrives
    PROVE  inst' = {}
BY DEF LeaseStep, Narrows

(* A decision is followed by a call, never by an answer.                   *)
LEMMA TakeIdles ==
    ASSUME NEW j \in Jobs, job \in [Jobs -> JobStates], NEW r, NEW act,
           Take(j, r, act)
    PROVE  job'[j].pc # "record"
<1>1. Idling.pc = "idle" /\ \A l, prev : Loop(l, prev).pc = "read"
  BY DEF Idling, Loop
<1>2. CASE EndJob(j, r) \/ \E q, prev : Continue(j, q, prev)
  BY <1>1, <1>2 DEF EndJob, Continue
<1>3. CASE \E q : Intend(j, q, act)
  BY <1>3 DEF Intend, JobStates
<1>4. CASE job' = [job EXCEPT ![j] = [job[j] EXCEPT !.pc = "prepare",
                                                  !.objs = {}]]
  BY <1>4 DEF JobStates
<1> QED
  BY <1>2, <1>3, <1>4 DEF Take, BeginCreate

LEMMA CleanNext ==
    ASSUME OneJob, Inv, Writer, Clean, [Next]_vars
    PROVE  Clean'
<1>1. LeaseStep \/ UNCHANGED <<row, inst>>
  BY WriterNext
<1>2. RowStep
  <2>1. CASE row' = row
    BY <2>1 DEF RowStep
  <2> QED
    BY <2>1, RowWriters, DecideRow, RecordRow, OtherRow
<1>3. ~row.assigned => row.gen = None
  BY DEF Inv, GoodRow, CheckConstraints, ProviderWithGeneration
<1>4. ~Exists(row)' => ~row'.assigned
  BY <1>2 DEF RowStep, Clean, Exists
<1>5. ~row'.assigned => inst' = {}
  BY <1>1, <1>2, <1>3, EmptyStays DEF RowStep, Clean, Arrives
<1>6. ASSUME NEW j \in Jobs, job'[j].pc = "record",
             job'[j].act.op = "delete_storage", job'[j].res.op = "ok"
      PROVE  inst' = {}
  <2>1. job \in [Jobs -> JobStates] /\ \A k \in Jobs : k = j
    BY DEF Inv, TypeOK, OneJob
  <2>2. CASE job' = job
    <3>1. inst = {}
      BY <1>6, <2>2 DEF Clean
    <3>2. Narrows \/ inst' = inst
      <4>1. CASE UNCHANGED vars
        BY <4>1 DEF vars
      <4>2. CASE \/ \E i \in inst : Worker(i) \/ Platform(i) \/ SweepOrphan(i)
                 \/ Connection
                 \/ Owner
        BY <4>2, OtherSteps
      <4>3. CASE JobStep(j) \/ JobFails(j)
        BY <1>6, <2>1, <2>2, <4>3
           DEF JobStep, JobFails, Executing, StartJob, ReadRow, ListInstances,
               Decide, Prepare, Record, Call, CallCreate, CallCreateHalf,
               CallCreateRejected, CallDelete, CallPause, CallResume,
               CallMarkAbsent, CallDeleteStorage, Failed, Idling
      <4> QED
        BY <2>1, <4>1, <4>2, <4>3 DEF Next
    <3> QED
      BY <3>1, <3>2 DEF Narrows
  <2>3. CASE CallDeleteStorage(j)
    BY <2>3 DEF CallDeleteStorage
  <2>4. CASE job' # job /\ ~CallDeleteStorage(j)
    <3>1. JobStep(j) \/ JobFails(j)
      BY <2>1, <2>4, OtherSteps DEF Next, vars
    <3>2. ~Call(j)
      <4>1. ASSUME Call(j), ~CallDeleteStorage(j)
            PROVE  job'[j].pc # "record" \/ job'[j].act.op # "delete_storage"
        BY <2>1, <4>1
           DEF Call, CallCreate, CallCreateHalf, CallCreateRejected, CallDelete,
               CallPause, CallResume, CallMarkAbsent, Answer, Failed, Idling,
               JobStates, IsPauseCall
      <4> QED
        BY <1>6, <2>4, <4>1
    <3>3. /\ Idling.pc = "idle" /\ Failed.pc = "failed"
          /\ \A l, prev : Loop(l, prev).pc = "read"
          /\ \A l, prev : [Loop(l, prev) EXCEPT !.prepared = TRUE].pc = "read"
      BY DEF Idling, Failed, Loop
    <3>4. ~(StartJob(j) \/ Prepare(j) \/ Record(j) \/ JobFails(j))
      <4>1. ~StartJob(j) /\ ~JobFails(j)
        BY <1>6, <2>1, <3>3 DEF StartJob, JobFails
      <4>2. ~Prepare(j)
        BY <1>6, <2>1, <3>3 DEF Prepare, Reread
      <4>3. ~Record(j)
        BY <1>6, <2>1, <3>3 DEF Record
      <4> QED
        BY <4>1, <4>2, <4>3
    <3>5. ~ReadRow(j) /\ ~ListInstances(j)
      BY <1>6, <2>1, <3>3 DEF ReadRow, ListInstances, JobStates
    <3>6. Decide(j)
      BY <3>1, <3>2, <3>4, <3>5 DEF JobStep
    <3>7. job'[j].pc # "record"
      <4>1. CASE job' = [job EXCEPT ![j] = Idling]
                 \/ job' = [job EXCEPT ![j] = Reread(job[j])]
        BY <2>1, <3>3, <4>1 DEF Reread
      <4>2. CASE \E facts : DecideWith(j, facts)
        <5>1. CASE \E r, prev : Continue(j, r, prev)
          BY <2>1, <3>3, <5>1 DEF Continue
        <5>2. CASE \E r, act : Take(j, r, act)
          BY <2>1, <5>2, TakeIdles
        <5> QED
          BY <4>2, <5>1, <5>2 DEF DecideWith
      <4> QED
        BY <3>6, <4>1, <4>2 DEF Decide, EndJob
    <3> QED
      BY <1>6, <3>7
  <2> QED
    BY <2>2, <2>3, <2>4
<1> QED
  BY <1>4, <1>5, <1>6 DEF Clean

(* While jobs do not overlap, an Agent without a provider has no instance, *)
(* and storage is reported as deleted only on an empty platform.           *)
THEOREM CleanInvariant ==
    ASSUME OneJob
    PROVE  Spec => []Clean
<1>1. Init => Clean
  BY DEF Init, Clean, Exists, Register, Idling
<1>2. Inv /\ Writer /\ Clean /\ [Next]_vars => Clean'
  BY CleanNext
<1> QED
  BY <1>1, <1>2, Invariant, WriterInvariant, PTL DEF Spec

(* While jobs do not overlap, the row of a deleted Agent is removed only   *)
(* when nothing is left on the platform and no create can still land.      *)
THEOREM RemovedCleanHolds ==
    ASSUME OneJob
    PROVE  Spec => []RemovedClean
<1>1. Inv /\ Clean => RemovedClean
  BY DEF Inv, Clean, RemovedClean, GoodRow, CheckConstraints,
         ProviderWithGeneration
<1> QED
  BY <1>1, Invariant, CleanInvariant, PTL

-----------------------------------------------------------------------------
(* Refinement *)

(* The holder of the lease is the generation of the only instance.         *)
HolderKnown ==
    /\ inst = {} => Holder = None
    /\ \A i \in inst : Holder = i.gen

LEMMA HolderGeneration == SingleWriter => HolderKnown
<1> SUFFICES ASSUME SingleWriter PROVE HolderKnown
  OBVIOUS
<1>1. ASSUME NEW i \in inst PROVE Holder = i.gen
  <2>1. inst = {i}
    BY DEF SingleWriter
  <2>2. (CHOOSE k \in inst : TRUE) = i
    BY <2>1
  <2> QED
    BY <2>1, <2>2 DEF Holder
<1> QED
  BY <1>1 DEF Holder, HolderKnown

LEMMA HolderAfter == SingleWriter' => HolderKnown'
BY HolderGeneration, PTL

LEMMA LeaseNext ==
    ASSUME Inv, Writer, Writer', LeaseStep \/ UNCHANGED <<row, inst>>
    PROVE  [Lease!Next]_(Lease!leaseVars)
<1>1. inst \subseteq Instances /\ row.gen \in Generations \cup {None}
  BY DEF Inv, TypeOK, Rows
<1>2. None \notin Generations
  BY NoneAssumption DEF NoneAssumption
<1>3. HolderKnown /\ HolderKnown'
  BY HolderGeneration, HolderAfter DEF Writer
<1> USE DEF Lease!Next, Lease!leaseVars, Lease!Grant, Lease!Take, Lease!Leave,
            Lease!Revoke
<1>4. CASE row'.gen = row.gen /\ Narrows
  <2>1. CASE inst' = {}
    BY <1>1, <1>2, <1>3, <1>4, <2>1 DEF Instances, HolderKnown
  <2>2. CASE inst' # {}
    <3>1. PICK i \in inst' : TRUE
      BY <2>2
    <3>2. PICK k \in inst : k.gen = i.gen
      BY <1>4, <3>1 DEF Narrows
    <3> QED
      BY <1>3, <1>4, <3>1, <3>2 DEF HolderKnown
  <2> QED
    BY <2>1, <2>2
<1>5. CASE row'.gen = row.gen /\ Arrives
  BY <1>3, <1>5 DEF Arrives, HolderKnown
<1>6. CASE inst' = inst /\ GrantStep
  <2>1. Holder' = Holder
    BY <1>6 DEF Holder
  <2> QED
    BY <1>1, <1>2, <1>3, <1>6, <2>1 DEF GrantStep, HolderKnown
<1>7. CASE UNCHANGED <<row, inst>>
  BY <1>7 DEF Holder
<1> QED
  BY <1>4, <1>5, <1>6, <1>7 DEF LeaseStep

(* While jobs do not overlap, rows, jobs and platform implement the lease: *)
(* a generation begins only when no instance of an earlier one is left,    *)
(* and an instance appears only for the generation granted at that moment. *)
THEOREM ImplementsLeaseHolds ==
    ASSUME OneJob
    PROVE  Spec => ImplementsLease
<1>1. Init => Lease!Init
  BY DEF Init, Lease!Init, Holder, Register
<1>2. Inv /\ Writer /\ [Next]_vars => [Lease!Next]_(Lease!leaseVars)
  BY WriterNext, LeaseNext
<1> QED
  BY <1>1, <1>2, Invariant, WriterInvariant, PTL
     DEF Spec, ImplementsLease, Lease!Spec
=============================================================================
