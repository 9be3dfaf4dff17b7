----------------------------- MODULE HomeProofs -----------------------------
(***************************************************************************)
(* The Home of a Cloudflare Worker, while jobs do not overlap: a create    *)
(* restores the latest backup.  The platform's latest backup record and    *)
(* the row's storage reference differ only after a generation ended and    *)
(* before its end is recorded, and no create can land in between.          *)
(***************************************************************************)
EXTENDS LeaseProofs

(* The deletion of storage has begun or is over.                           *)
Retired == row.gen = None /\ row.state \in {"deleting", "removed"}

(* A generation that left its last backup also left a finished receipt.    *)
HomeKnown ==
    \/ home = row.storage
    \/ row.gen \in finished /\ inst = {} /\ home # None
    \/ Retired

(* What a call that is on the way, or its answer, says about Home.         *)
Backed(l) ==
    /\ l.pc = "call" => l.act.op # "resume"
    /\ l.pc = "call" /\ l.act.op = "create" => l.seen.storage = row.storage
    /\ l.pc = "call" /\ l.act.op = "mark_absent" => inst = {}
    /\ l.pc = "call" /\ l.act.op = "delete_storage" => Retired
    /\ l.pc = "record" /\ l.act.op # "delete_storage"
          /\ l.res.op \in {"rejected", "settle"} =>
            inst = {} /\ l.res.ref = StorageRef(l.seen)

Restored ==
    /\ row.state # "paused"
    /\ \A i \in inst : i.gen = row.gen
    /\ HomeKnown
    /\ \A j \in Jobs : Backed(job[j])

(* A write of the row that says nothing new about Home.                    *)
Quiet(r, q) ==
    /\ q.gen = r.gen /\ q.storage = r.storage
    /\ r.state \in {"deleting", "removed"} =>
          q.state \in {"deleting", "removed"}
    /\ r.state # "paused" => q.state # "paused"

(* A generation begins.                                                    *)
Begun(r, q) ==
    r.state = "absent" /\ q.storage = r.storage /\ q.state = "starting"

-----------------------------------------------------------------------------
(* Writes of the row *)

LEMMA OthersQuiet ==
    ASSUME Inv,
           \/ \E i \in inst : Worker(i) \/ Platform(i) \/ SweepOrphan(i)
           \/ Connection
           \/ Owner
           \/ \E j \in Jobs : StartJob(j)
    PROVE  Quiet(row, row')
<1>1. row \in Rows
  BY DEF Inv, GoodRow
<1>2. CASE \/ row' = row \/ row' = Renew(row, 0, 0) \/ row' = Request(row)
           \/ row' = Assign(row) \/ row' = MarkDeleting(row)
  BY <1>1, <1>2 DEF Quiet, Rows, Renew, Request, Assign, MarkDeleting
<1>3. CASE CanDisconnect(row) /\ row' = Disconnect(row)
  BY <1>1, <1>3 DEF Quiet, Rows, CanDisconnect, Disconnect,
       ConnectedStates
<1>4. CASE \E v : \/ CanDrain(row) /\ row' = Drain(row, v)
                 \/ row' = [row EXCEPT !.wanted = v]
                 \/ row' = [row EXCEPT !.beat = v]
  BY <1>1, <1>4 DEF Quiet, Rows, CanDrain, Drain
<1>5. CASE row.state \in JoinStates /\ \E v, w : row' = Admit(row, v, w, 0)
  BY <1>1, <1>5 DEF Quiet, Rows, JoinStates, Admit
<1> QED
  BY <1>2, <1>3, <1>4, <1>5, OtherWrites

(* A provider that cannot pause never resumes, and finds its instance      *)
(* absent only when the platform lists nothing.                            *)
LEMMA WithoutPause ==
    ASSUME ~CanPauseInstances, NEW r, r.state # "paused", NEW facts,
           NEW current, NEW stray
    PROVE  LET act == NextAction(r, current, stray, facts) IN
           /\ act.op \notin {"resume", "mark_paused"}
           /\ act.op = "mark_absent" => current = None /\ stray = None
<1> DEFINE plain(act) == act.op \notin {"resume", "mark_paused", "mark_absent"}
<1>1. plain(Draining(r, facts, current))
  BY DEF Draining, PauseRelease, Act, Wait, Do
<1>2. plain(Running(r, facts, current))
  BY DEF Running, RunningInstance, StartingInstance, Act, Wait, Do, NoAction
<1>3. plain(Partial(r, current))
  BY DEF Partial, Act, Do
<1>4. /\ plain(Wait) /\ plain(NoAction) /\ plain(Do("create"))
      /\ plain(Do("begin_create")) /\ plain(Do("delete_storage"))
      /\ \A reason, obj : /\ plain(Act("delete_object", reason, obj))
                          /\ plain(Act("replace", reason, obj))
  BY DEF Act, Wait, Do, NoAction
<1>5. Do("mark_absent").op = "mark_absent"
  BY DEF Do, Act
<1>6. \/ plain(Deleting(r, current))
      \/ Deleting(r, current) = Do("mark_absent") /\ current = None
  BY <1>4 DEF Deleting
<1>7. \/ plain(NextAction(r, current, stray, facts))
      \/ /\ NextAction(r, current, stray, facts) = Do("mark_absent")
         /\ current = None /\ stray = None
  <2> HIDE DEF plain
  <2> QED
    BY <1>1, <1>2, <1>3, <1>4, <1>6 DEF NextAction
<1> QED
  BY <1>5, <1>7

LEMMA TakeBacked ==
    ASSUME NEW j \in Jobs, job \in [Jobs -> JobStates], inst' = inst,
           NEW r \in Rows, Exists(r),
           NEW current, NEW stray, NEW act, SafeAct(r, current, stray, act),
           act.op \notin {"resume", "mark_paused"},
           act.op = "mark_absent" => inst = {},
           Take(j, r, act)
    PROVE  Backed(job[j])' /\ (Quiet(r, row') \/ Begun(r, row'))
<1>1. Idling.pc = "idle" /\ \A l, prev : Loop(l, prev).pc = "read"
  BY DEF Idling, Loop
<1>2. CASE \/ EndJob(j, r)
           \/ /\ act.op = "begin_create"
              /\ \E g : Continue(j, BeginGeneration(r, g), act)
  <2>1. job'[j].pc \in {"idle", "read"}
    BY <1>1, <1>2 DEF EndJob, Continue
  <2>2. Backed(job[j])'
    BY <2>1 DEF Backed
  <2>3. CASE EndJob(j, r)
    BY <2>2, <2>3 DEF EndJob, Quiet
  <2>4. ASSUME act.op = "begin_create", NEW g, row' = BeginGeneration(r, g)
        PROVE  Begun(r, row')
    BY <2>4 DEF SafeAct, Begun, BeginGeneration, Rows
  <2> QED
    BY <1>2, <2>2, <2>3, <2>4 DEF Continue
<1>3. CASE /\ job' = [job EXCEPT ![j] =
                        [job[j] EXCEPT !.pc = "prepare", !.objs = {}]]
           /\ row' = r
  <2>1. job'[j].pc = "prepare"
    BY <1>3 DEF JobStates
  <2> QED
    BY <1>3, <2>1 DEF Backed, Quiet
<1>4. ASSUME NEW q, Intend(j, q, act),
             \/ q = r
             \/ q = [r EXCEPT !.sent = TRUE]
             \/ act.op \in {"replace", "release"} /\ q = Drain(r, act.reason)
      PROVE  Backed(job[j])' /\ Quiet(r, row')
  <2>1. /\ row' = q /\ job'[j].pc = "call" /\ job'[j].act = act
        /\ job'[j].seen = Lifecycle(q)
    BY <1>4 DEF Intend, JobStates
  <2>2. job'[j].seen.storage = q.storage
    BY <2>1 DEF Lifecycle
  <2>3. Quiet(r, q)
    BY <1>4 DEF SafeAct, Quiet, Rows, Drain, Exists
  <2>4. act.op = "delete_storage" => Retired'
    BY <2>1, <2>3 DEF SafeAct, Quiet, Retired
  <2> QED
    BY <2>1, <2>2, <2>3, <2>4 DEF Backed
<1> QED
  BY <1>2, <1>3, <1>4 DEF Take, BeginCreate

(* A decision of a job: its call is backed, and the row is left, given a   *)
(* generation, or removed without a provider.                              *)
LEMMA DecideBacked ==
    ASSUME Inv, Writer, ~CanPauseInstances, row.state # "paused",
           NEW j \in Jobs, Decide(j)
    PROVE  /\ Backed(job[j])'
           /\ \/ Quiet(row, row') \/ Begun(row, row')
              \/ ~row.assigned /\ row' = Removed
<1> USE NoneAssumption
<1>1. /\ GoodRow(row) /\ row \in Rows /\ job \in [Jobs -> JobStates]
      /\ job[j] \in JobStates /\ JobOK(job[j]) /\ JobWrites(job[j])
      /\ job[j].pc = "decide" /\ inst' = inst
  BY DEF Inv, TypeOK, GoodRow, Writer, Decide
<1>2. CASE \/ EndJob(j, row) \/ (~row.assigned /\ EndJob(j, Removed))
           \/ row' = row /\ job' = [job EXCEPT ![j] = Reread(job[j])]
  <2>1. Idling.pc = "idle" /\ Reread(job[j]).pc = "read"
    BY DEF Reread, Loop, Idling
  <2>2. job'[j].pc \in {"idle", "read"}
    BY <1>1, <1>2, <2>1 DEF EndJob
  <2>3. row' = row \/ (~row.assigned /\ row' = Removed)
    BY <1>2 DEF EndJob
  <2> QED
    BY <2>2, <2>3 DEF Backed, Quiet
<1>3. CASE /\ Exists(row) /\ Lifecycle(row) = job[j].seen
           /\ ~(row.state = "deleting" /\ ~row.assigned)
           /\ \E facts : DecideWith(j, facts)
  <2>1. job[j].seen.assigned /\ job[j].seen.state = row.state
    BY <1>1, <1>3 DEF Lifecycle, JobOK
  <2> DEFINE objs  == job[j].objs
             found == {o \in objs : IsCurrent(row, o) /\ o.present}
             r     == IF found = {} THEN row ELSE [row EXCEPT !.seen = TRUE]
  <2>2. \A i \in inst : \E o \in objs : o.gen = i.gen
    BY <1>1, <2>1 DEF JobWrites
  <2>3. /\ GoodRow(r) /\ r \in Rows /\ r.gen = row.gen
        /\ r.state = row.state /\ r.storage = row.storage
    <3>1. found # {} => row.gen # None
      BY DEF IsCurrent
    <3> QED
      BY <1>1, <3>1, SeenGood DEF GoodRow, Rows
  <2>4. objs \subseteq Observations /\ None \notin objs
    BY <1>1 DEF JobStates, NoneAssumption
  <2>5. PICK facts : DecideWith(j, facts)
    BY <1>3
  <2>6. CASE row.ref = None /\ \E o \in found : o.ref # None
    <3>1. PICK o \in found : Continue(j, [r EXCEPT !.ref = o.ref], None)
      BY <2>5, <2>6 DEF DecideWith
    <3> HIDE DEF r, found
    <3>2. Quiet(row, [r EXCEPT !.ref = o.ref])
      BY <2>3 DEF Quiet, Rows
    <3> QED
      BY <1>1, <3>1, <3>2 DEF Continue, Loop, Idling, Backed
  <2>7. CASE ~(row.ref = None /\ \E o \in found : o.ref # None)
    <3>1. PICK current \in Currents(r, objs) :
            \E stray \in Strays(objs, current) :
              Take(j, r, NextAction(r, current, stray, facts))
      BY <2>5, <2>7 DEF DecideWith
    <3>2. PICK stray \in Strays(objs, current) :
            Take(j, r, NextAction(r, current, stray, facts))
      BY <3>1
    <3>3. /\ current \in Optional(Observations)
          /\ current # None => IsCurrent(r, current)
          /\ stray \in Optional(Observations)
      BY <2>4 DEF Currents, Strays, Optional
    <3> DEFINE act == NextAction(r, current, stray, facts)
    <3>4. SafeAct(r, current, stray, act)
      BY <1>3, <2>3, <3>3, NextActionSafe DEF Exists
    <3>5. /\ act.op \notin {"resume", "mark_paused"}
          /\ act.op = "mark_absent" => current = None /\ stray = None
      <4>1. r.state # "paused"
        BY <2>3
      <4> QED
        BY <4>1, WithoutPause
    <3>6. current = None /\ stray = None => inst = {}
      BY <2>2, <2>4, <3>2 DEF Strays
    <3>7. Take(j, r, act) /\ Exists(r)
      BY <1>3, <2>3, <3>2 DEF Exists
    <3> HIDE DEF r, objs, found, act
    <3>8. Backed(job[j])' /\ (Quiet(r, row') \/ Begun(r, row'))
      BY <1>1, <2>3, <3>4, <3>5, <3>6, <3>7, TakeBacked
    <3> QED
      BY <2>3, <3>8 DEF Quiet, Begun
  <2> QED
    BY <2>6, <2>7
<1> QED
  BY <1>2, <1>3 DEF Decide

-----------------------------------------------------------------------------
(* Every step *)

(* What nobody touches, Home keeps.                                        *)
LEMMA HomeStays ==
    ASSUME HomeKnown, Quiet(row, row'), home' = home, finished \subseteq finished',
           inst = {} => inst' = {}
    PROVE  HomeKnown'
<1>1. Retired => Retired'
  BY DEF Retired, Quiet
<1> QED
  BY <1>1 DEF HomeKnown, Quiet

LEMMA BackedStays ==
    ASSUME NEW j \in Jobs, Backed(job[j]), job'[j] = job[j],
           Quiet(row, row'), inst = {} => inst' = {} /\ home' = home
    PROVE  Backed(job[j])'
<1>1. Retired => Retired'
  BY DEF Retired, Quiet
<1>2. inst = {} => StorageRef(job[j].seen)' = StorageRef(job[j].seen)
  BY DEF StorageRef
<1> QED
  BY <1>1, <1>2 DEF Backed, Quiet

(* The instances stay those of the generation, also when they move on.     *)
LEMMA GenerationStays ==
    ASSUME \A i \in inst : i.gen = row.gen, LeaseStep, row'.gen = row.gen
    PROVE  \A i \in inst' : i.gen = row'.gen
BY DEF LeaseStep, Narrows, Arrives

LEMMA OthersRestored ==
    ASSUME Inv, Writer, Restored, Kind = "cloudflare",
           \/ \E i \in inst : Worker(i) \/ Platform(i) \/ SweepOrphan(i)
           \/ Connection
           \/ Owner
    PROVE  Restored'
<1>1. /\ row'.gen = row.gen /\ Narrows /\ job' = job /\ Quiet(row, row')
      /\ inst \subseteq Instances
  BY OtherSteps, OthersQuiet DEF Inv, TypeOK
<1>2. inst = {} => inst' = {}
  BY <1>1 DEF Narrows
<1>3. row'.state # "paused" /\ \A i \in inst' : i.gen = row'.gen
  BY <1>1, GenerationStays DEF Restored, Quiet, LeaseStep
<1>4. CASE \E i \in inst : Vanishes(i)
  <2>1. PICK i \in inst : Vanishes(i)
    BY <1>4
  <2>2. i.gen = row.gen /\ i.gen # None /\ row' = row
    BY <1>1, <2>1, NoneAssumption
       DEF Restored, Instances, Vanishes, NoneAssumption
  <2>3. inst' = {}
    BY <2>1 DEF Vanishes, Writer, SingleWriter
  <2>4. HomeKnown'
    <3>1. home = row.storage \/ Retired
      BY <2>1 DEF Restored, HomeKnown
    <3>2. CASE home' = home
      BY <2>2, <3>1, <3>2 DEF HomeKnown, Retired
    <3>3. CASE home' = i.gen
      BY <2>1, <2>2, <2>3, <3>3 DEF HomeKnown, Vanishes
    <3> QED
      BY <2>1, <3>2, <3>3 DEF Vanishes
  <2>5. \A j \in Jobs : Backed(job[j])'
    BY <1>1, <1>2, <2>1, BackedStays DEF Restored
  <2> QED
    BY <1>3, <2>4, <2>5 DEF Restored
<1>5. CASE ~(\E i \in inst : Vanishes(i))
  <2>1. home' = home /\ finished' = finished
    BY <1>5 DEF Connection, HeartbeatAges, ReleaseRoute, ControlShutdown,
                Owner, DisableAgent, EnableAgent, SetAgent, DeleteAgent,
                RequestWorker, WantedExpires, AssignProvider, PrepareRename,
                RenameWorker, Worker, Join, Heartbeat, Platform, Boots,
                Suspends, OperatorResumes, Exits, Become, StartFails,
                SweepOrphan
  <2>2. HomeKnown'
    BY <1>1, <1>2, <2>1, HomeStays DEF Restored
  <2>3. \A j \in Jobs : Backed(job[j])'
    BY <1>1, <1>2, <2>1, BackedStays DEF Restored
  <2> QED
    BY <1>3, <2>2, <2>3 DEF Restored
<1> QED
  BY <1>4, <1>5

(* A create that finds the platform empty restores the backup on record.   *)
LEMMA CreateRestores ==
    ASSUME Inv, Writer, Restored, Kind = "cloudflare",
           NEW j \in Jobs, CallCreate(j)
    PROVE  /\ home' = home
           /\ home = row.storage
<1>1. /\ job[j].pc = "call" /\ job[j].act.op = "create"
      /\ job[j].seen.gen \notin finished
      /\ home' \in {home, job[j].seen.storage}
  BY DEF CallCreate
<1>2. job[j].seen.storage = row.storage /\ job[j].seen.gen = row.gen
  BY <1>1 DEF Restored, Backed, Writer, JobWrites
<1>3. row.gen # None
  BY <1>1, <1>2, CallState, NoneAssumption DEF NoneAssumption
<1> QED
  BY <1>1, <1>2, <1>3 DEF Restored, HomeKnown, Retired

LEMMA AnsweredFields ==
    ASSUME NEW j \in Jobs, job \in [Jobs -> JobStates], NEW res, Answer(j, res)
    PROVE  /\ job'[j].pc = "record" /\ job'[j].res = res
           /\ job'[j].act = job[j].act /\ job'[j].seen = job[j].seen
BY DEF Answer, JobStates

LEMMA CallBacked ==
    ASSUME Inv, Restored, Kind = "cloudflare", NEW j \in Jobs, Call(j)
    PROVE  Backed(job[j])'
<1>1. job \in [Jobs -> JobStates] /\ Backed(job[j])
  BY DEF Inv, TypeOK, Restored
<1>2. ASSUME NEW ref, Answer(j, Ok(ref)) PROVE Backed(job[j])'
  <2>1. job'[j].pc = "record" /\ job'[j].res.op = "ok"
    BY <1>1, <1>2, AnsweredFields DEF Ok
  <2> QED
    BY <2>1 DEF Backed
<1>3. ASSUME NEW res, Answer(j, res), res.ref = StorageRef(job[j].seen),
             inst = {}, inst' = inst, home' = home
      PROVE  Backed(job[j])'
  <2>1. /\ job'[j].pc = "record" /\ job'[j].res = res
        /\ job'[j].seen = job[j].seen
    BY <1>1, <1>3, AnsweredFields
  <2>2. StorageRef(job[j].seen)' = StorageRef(job[j].seen)
    BY <1>3, <2>1 DEF StorageRef
  <2>3. inst' = {} /\ job'[j].res.ref = StorageRef(job[j].seen)'
    BY <1>3, <2>1, <2>2
  <2> QED
    BY <2>1, <2>3 DEF Backed
<1>4. /\ \A ref : Rejected(ref).ref = ref /\ SettleWith(ref).ref = ref
      /\ Kind # "kubernetes"
  BY DEF Rejected, SettleWith
<1>5. CASE CallCreate(j) \/ CallDelete(j) \/ CallPause(j)
  BY <1>2, <1>5 DEF CallCreate, CallDelete, CallPause
<1>6. CASE CallCreateHalf(j)
  BY <1>4, <1>6 DEF CallCreateHalf
<1>7. CASE CallCreateRejected(j)
  BY <1>3, <1>4, <1>7 DEF CallCreateRejected
<1>8. CASE CallResume(j)
  BY <1>1, <1>8 DEF CallResume, Backed
<1>9. CASE CallMarkAbsent(j)
  BY <1>1, <1>3, <1>4, <1>9 DEF CallMarkAbsent, Backed
<1>10. CASE CallDeleteStorage(j)
  <2>1. \E res : Answer(j, res) /\ job[j].act.op = "delete_storage"
    BY <1>10 DEF CallDeleteStorage
  <2>2. job'[j].pc = "record" /\ job'[j].act.op = "delete_storage"
    BY <1>1, <2>1, AnsweredFields
  <2> QED
    BY <2>2 DEF Backed
<1> QED
  BY <1>5, <1>6, <1>7, <1>8, <1>9, <1>10 DEF Call

LEMMA CallHome ==
    ASSUME Inv, Writer, Restored, Kind = "cloudflare", NEW j \in Jobs, Call(j)
    PROVE  HomeKnown'
<1>1. row' = row /\ finished \subseteq finished'
  BY DEF Call, CallCreate, CallCreateHalf, CallCreateRejected, CallDelete,
         CallPause, CallResume, CallMarkAbsent, CallDeleteStorage
<1>2. CASE CallCreate(j)
  BY <1>1, <1>2, CreateRestores DEF HomeKnown
<1>3. CASE CallDeleteStorage(j)
  <2>1. Retired
    BY <1>3 DEF CallDeleteStorage, Restored, Backed
  <2> QED
    BY <1>1, <2>1 DEF HomeKnown, Retired
<1>4. CASE ~CallCreate(j) /\ ~CallDeleteStorage(j)
  <2>1. home' = home /\ Quiet(row, row')
    BY <1>1, <1>4 DEF Call, CallCreateHalf, CallCreateRejected, CallDelete,
                CallPause, CallResume, CallMarkAbsent, Quiet
  <2>2. inst = {} => inst' = {}
    <3>1. CASE CallCreateHalf(j) \/ CallCreateRejected(j)
      BY <3>1 DEF CallCreateHalf, CallCreateRejected
    <3>2. CASE Narrows
      BY <3>2 DEF Narrows
    <3> QED
      BY <1>4, <3>1, <3>2, OtherCallsNarrow DEF Call, Writer
  <2> QED
    BY <1>1, <2>1, <2>2, HomeStays DEF Restored
<1> QED
  BY <1>2, <1>3, <1>4

(* The end of a generation commits the backup that was read for it.        *)
LEMMA RecordHome ==
    ASSUME Inv, Clean, Restored, Kind = "cloudflare", NEW j \in Jobs, Record(j)
    PROVE  /\ HomeKnown' /\ row'.state # "paused"
           /\ row'.gen = row.gen \/ inst = {}
<1>1. /\ row \in Rows /\ job[j].pc = "record" /\ inst' = inst /\ home' = home
      /\ finished' = finished /\ JobOK(job[j]) /\ Backed(job[j])
  BY DEF Inv, GoodRow, Record, Restored
<1>2. CASE Quiet(row, row')
  BY <1>1, <1>2, HomeStays DEF Restored, Quiet
<1>3. CASE /\ row' = Removed /\ job[j].act.op = "delete_storage"
           /\ job[j].res.op = "ok"
  <2>1. inst = {}
    BY <1>1, <1>3 DEF Clean
  <2> QED
    BY <1>3, <2>1 DEF HomeKnown, Retired, Removed, Register
<1>4. CASE /\ Exists(row) /\ Lifecycle(row) = job[j].seen
           /\ job[j].act.op = "delete_storage"
           /\ row' = [row EXCEPT !.storage = job[j].res.ref]
  <2>1. row.gen = None /\ row.state = "deleting"
    BY <1>1, <1>4 DEF JobOK, SafeCall, Lifecycle
  <2>2. row'.gen = row.gen /\ row'.state = row.state
    BY <1>1, <1>4 DEF Rows
  <2> QED
    BY <2>1, <2>2 DEF HomeKnown, Retired
<1>5. CASE /\ Exists(row) /\ Lifecycle(row) = job[j].seen
           /\ job[j].act.op # "delete_storage"
           /\ job[j].res.op \in {"rejected", "settle"}
           /\ row' = Settle(row, job[j].res.ref)
  <2>1. inst = {} /\ job[j].res.ref = StorageRef(job[j].seen)
    BY <1>1, <1>5 DEF Backed
  <2>2. /\ row'.gen = None /\ row'.storage = job[j].res.ref
        /\ row'.state = IF row.state = "deleting" THEN "deleting" ELSE "absent"
    BY <1>1, <1>5 DEF Rows, Settle, Cleared
  <2>3. job[j].seen.storage = row.storage
    BY <1>5 DEF Lifecycle
  <2>4. CASE home # None
    BY <1>1, <2>1, <2>2, <2>4 DEF HomeKnown, StorageRef
  <2>5. CASE home = None
    <3>1. home = row.storage \/ Retired
      BY <2>5 DEF Restored, HomeKnown
    <3>2. row'.storage = row.storage
      BY <2>1, <2>2, <2>3, <2>5 DEF StorageRef
    <3> QED
      BY <1>1, <1>5, <2>1, <2>2, <3>1, <3>2 DEF HomeKnown, Retired, Exists
  <2> QED
    BY <2>1, <2>2, <2>4, <2>5
<1>6. ASSUME NEW ref, row' = row \/ row' = [row EXCEPT !.ref = ref]
      PROVE  Quiet(row, row')
  BY <1>1, <1>6 DEF Quiet, Rows
<1>7. CASE row' # row
  <2>1. /\ Exists(row) /\ Lifecycle(row) = job[j].seen
        /\ row' = Apply(job[j].act, job[j].res) /\ job[j].res \in Answers
    BY <1>1, <1>7 DEF Record, JobOK
  <2>2. CASE job[j].act.op = "delete_storage"
    BY <1>3, <1>4, <2>1, <2>2 DEF Apply
  <2>3. CASE job[j].act.op # "delete_storage"
    BY <1>2, <1>5, <1>6, <2>1, <2>3 DEF Apply
  <2> QED
    BY <2>2, <2>3
<1> QED
  BY <1>2, <1>6, <1>7

LEMMA JobRestored ==
    ASSUME OneJob, KindAssumption, Inv, Writer, Clean, Restored,
           Kind = "cloudflare", NEW j \in Jobs, JobStep(j) \/ JobFails(j)
    PROVE  Restored'
<1>1. /\ job \in [Jobs -> JobStates] /\ ~CanPauseInstances /\ LeaseStep
      /\ row \in Rows /\ row.state # "paused"
  BY JobSteps DEF Inv, TypeOK, KindAssumption, Restored
<1>2. SUFFICES /\ Backed(job[j])' /\ HomeKnown' /\ row'.state # "paused"
               /\ row'.gen = row.gen \/ (inst = {} /\ inst' = inst)
  BY <1>1, GenerationStays DEF Restored, OneJob
<1>3. /\ Idling.pc = "idle" /\ Failed.pc = "failed"
      /\ \A l, prev : Loop(l, prev).pc = "read"
      /\ \A l, prev : [Loop(l, prev) EXCEPT !.prepared = TRUE].pc = "read"
  BY DEF Idling, Failed, Loop
<1>4. CASE Call(j)
  <2>1. row' = row
    BY <1>4 DEF Call, CallCreate, CallCreateHalf, CallCreateRejected, CallDelete,
                CallPause, CallResume, CallMarkAbsent, CallDeleteStorage
  <2> QED
    BY <1>1, <1>4, <2>1, CallBacked, CallHome
<1>5. CASE Record(j)
  <2>1. job'[j].pc \in {"idle", "read"} /\ inst' = inst
    BY <1>1, <1>3, <1>5 DEF Record
  <2> QED
    BY <1>5, <2>1, RecordHome DEF Backed
<1>6. CASE Decide(j)
  <2>1. home' = home /\ finished' = finished /\ inst' = inst
    BY <1>6 DEF Decide
  <2>2. /\ Backed(job[j])'
        /\ \/ Quiet(row, row') \/ Begun(row, row')
           \/ ~row.assigned /\ row' = Removed
    BY <1>1, <1>6, DecideBacked
  <2>3. CASE Quiet(row, row')
    BY <1>1, <2>1, <2>2, <2>3, HomeStays DEF Restored, Quiet
  <2>4. CASE Begun(row, row')
    <3>1. row.gen = None
      BY <2>4 DEF Begun, Inv, GoodRow, CheckConstraints, GenerationState
    <3>2. row.gen \notin finished /\ ~Retired
      BY <2>4, <3>1, NoneAssumption
         DEF Inv, TypeOK, NoneAssumption, Begun, Retired
    <3>3. HomeKnown'
      BY <2>1, <2>4, <3>2 DEF Restored, HomeKnown, Begun
    <3>4. row'.gen = row.gen \/ inst = {}
      BY <1>6, <3>1, DecideWrites DEF GrantStep
    <3> QED
      BY <2>1, <2>2, <2>4, <3>3, <3>4 DEF Begun
  <2>5. CASE ~row.assigned /\ row' = Removed
    BY <2>1, <2>2, <2>5 DEF Clean, HomeKnown, Retired, Removed, Register
  <2> QED
    BY <2>2, <2>3, <2>4, <2>5
<1>7. CASE \/ StartJob(j) \/ ReadRow(j) \/ ListInstances(j) \/ Prepare(j)
           \/ JobFails(j)
  <2>1. /\ home' = home /\ finished' = finished /\ inst' = inst
        /\ StartJob(j) \/ row' = row
    BY <1>7 DEF StartJob, ReadRow, ListInstances, Prepare, JobFails
  <2>2. Quiet(row, row')
    BY <2>1, OthersQuiet DEF Quiet
  <2>3. job'[j].pc \in {"read", "idle", "list", "decide", "failed"}
    <3>1. CASE StartJob(j) \/ Prepare(j) \/ JobFails(j)
      <4>1. CASE StartJob(j)
        BY <1>1, <1>3, <4>1 DEF StartJob
      <4>2. CASE Prepare(j)
        BY <1>1, <1>3, <4>2 DEF Prepare, Reread
      <4>3. CASE JobFails(j)
        BY <1>1, <1>3, <4>3 DEF JobFails
      <4> QED
        BY <3>1, <4>1, <4>2, <4>3
    <3>2. CASE ReadRow(j)
      BY <1>1, <3>2 DEF ReadRow, Idling, Lifecycle, JobStates
    <3>3. CASE ListInstances(j)
      BY <1>1, <3>3 DEF ListInstances, JobStates
    <3> QED
      BY <1>7, <3>1, <3>2, <3>3
  <2>4. Backed(job[j])'
    BY <2>3 DEF Backed
  <2> QED
    BY <1>1, <2>1, <2>2, <2>4, HomeStays DEF Restored, Quiet
<1> QED
  BY <1>4, <1>5, <1>6, <1>7 DEF JobStep

LEMMA RestoredNext ==
    ASSUME OneJob, KindAssumption, Inv, Writer, Clean, Restored,
           Kind = "cloudflare", [Next]_vars
    PROVE  Restored'
<1>1. CASE UNCHANGED vars
  <2>1. \A j \in Jobs : Backed(job[j])'
    BY <1>1 DEF vars, Restored, Backed, Retired, StorageRef
  <2> QED
    BY <1>1, <2>1 DEF vars, Restored, HomeKnown, Retired
<1> QED
  BY <1>1, JobRestored, OthersRestored DEF Next

(* While jobs do not overlap, the row names the latest backup of Home from *)
(* the record of one generation's end to the end of the next.              *)
THEOREM RestoredInvariant ==
    ASSUME OneJob, Kind = "cloudflare"
    PROVE  Spec => []Restored
<1>1. Init => Restored
  BY DEF Init, Restored, HomeKnown, Backed, Register, Idling
<1>2. Inv /\ Writer /\ Clean /\ Restored /\ [Next]_vars => Restored'
  BY RestoredNext, KindAssumption
<1> QED
  BY <1>1, <1>2, Invariant, WriterInvariant, CleanInvariant, PTL DEF Spec

(* While jobs do not overlap, a create restores Home from the latest       *)
(* backup: the storage reference was read and committed before the row     *)
(* could become absent, whatever failed, expired or was refused before.    *)
THEOREM CreateRestoresLatestHolds ==
    ASSUME OneJob
    PROVE  Spec => CreateRestoresLatest
<1>1. ASSUME Inv, Writer, Kind = "cloudflare" => Restored, [Next]_vars,
             inst = {}, inst' # {}
      PROVE  home' = home
  <2> USE <1>1
  <2>1. PICK j \in Jobs : JobStep(j) \/ JobFails(j)
    BY OtherSteps DEF Next, vars, Narrows
  <2>2. Call(j)
    BY <2>1 DEF JobStep, JobFails, StartJob, ReadRow, ListInstances, Decide,
                Prepare, Record
  <2>3. CASE CallCreate(j)
    BY <2>3, CreateRestores DEF CallCreate
  <2>4. CASE ~CallCreate(j)
    BY <2>2, <2>4 DEF Call, CallCreateHalf, CallCreateRejected, CallDelete,
                      CallPause, CallResume, CallMarkAbsent, CallDeleteStorage
  <2> QED
    BY <2>3, <2>4
<1>2. Inv /\ Writer /\ (Kind = "cloudflare" => Restored) /\ [Next]_vars
        => [inst = {} /\ inst' # {} => home' = home]_vars
  BY <1>1
<1>3. CASE Kind = "cloudflare"
  <2>1. Spec => []Restored
    BY <1>3, RestoredInvariant
  <2> QED
    BY <1>2, <2>1, Invariant, WriterInvariant, PTL DEF Spec, CreateRestoresLatest
<1>4. CASE Kind # "cloudflare"
  <2>1. Inv /\ Writer /\ [Next]_vars
          => [inst = {} /\ inst' # {} => home' = home]_vars
    BY <1>2, <1>4
  <2> QED
    BY <2>1, Invariant, WriterInvariant, PTL DEF Spec, CreateRestoresLatest
<1> QED
  BY <1>3, <1>4
=============================================================================
