# A verification project for Ankole: Agent Workers, Sessions and Jobs

Ankole runs every AI Agent's tools in a Worker: one process on a container or
sandbox platform (Docker, Kubernetes, Cloudflare, Lambda, ...) that owns the
Agent's Home directory.  Two processes on one Home would corrupt it, a lost
create would leave an Agent without a Worker, and a forgotten container costs
money for ever.  The control plane has to get this right although its jobs
crash, overlap and retry, although platform calls are slow, lost and repeated,
and although the Agent may be deleted, disabled or renamed at any moment.  That
protocol, and the one by which the Worker's process then connects to any of the
control plane's nodes, are the first subject of this project.  The second is the
Session that uses the Worker: the driver that runs an Agent's inputs through
model responses and tool calls, and must neither lose an input nor repeat a
tool's write when it dies in the middle.  The third is the Background Agent Job,
whose attempts run inside the Worker: two of them must never execute at once, nor
one of them twice, although the control plane that claims them and the process
that executes them know of each other only what a connection has carried.

- [Inventory](#inventory)
- [Modules](#modules)
- [How the models correspond to the code](#how-the-models-correspond-to-the-code)
- [Runs and bounds](#runs-and-bounds)
- [Fairness](#fairness)
- [Proofs](#proofs)
- [Findings](#findings)
- [What is not modelled](#what-is-not-modelled)
- [Plan](#plan)

File names without a directory are under
`src/app/control_plane/lib/ankole/agent_workers/`, where a Session is the
subject under `sessions/`, and where a Job is the subject under
`background_agent_jobs/` beside it; the `.ts` files of a Job's Worker are under
`src/app/agent_computer/src/worker/`, and `machine.ts` is
`src/tools/deploy/cloudflare/agent-workers/src/machine.ts`.

## Inventory

### The Worker subsystem

| Component | State it keeps | Operations | What makes it correct |
| --- | --- | --- | --- |
| `agent_worker.ex`, the `agent_workers` row | state, generation, instance reference, seen/sent marks, storage reference, connection (incarnation, route, heartbeat), capacity | register, begin_generation, resume, pause, drain, admit, heartbeat, disconnect, settle, mark_deleting, assign_provider, request, reserve_slot, remove | declared transitions, the table's check constraints, no field outlives its generation |
| `decision.ex` | none (pure) | `next/1` | never gives an unsettled create up; deletes strays before anything else |
| `reconcile_job.ex` | a round's observation, intent and answer | observe, decide under the lock, call the platform, record under the lock; rename | one writer of Home; every generation ends; intents survive crashes |
| `sweep_job.ex` | none | enqueue jobs for rows with work, delete orphans | nothing stays forgotten |
| `worker_admission.ex` | connection columns of the row | join, heartbeat, shutdown, expiry, route release | only a process of the current generation is admitted, in a state that admits |
| `worker_channel.ex`, `worker_route.ex`, `worker_tracker.ex` | sockets, the directory of routes | join, close, deliver | a live connection is findable, a closed one disturbs nobody |
| provider clients (`docker.ex`, `kubernetes.ex`, `cloudflare.ex`, `lambda.ex`, ...) | the platform's | create, delete, pause, resume, list, storage | idempotent per generation; a delete is not a proof of absence |
| `machine.ts`, the Cloudflare Durable Object | contract, backup pointer, flags, receipts, alarm; R2 records; the container | create, remove, alarm, exit watch, restore, backup, storage, restart | receipts outlive everything; the newest backup is never lost |

The parts interact in four ways: by the locked row (jobs, joins, owner actions
and placement are transactions on it), by platform calls outside any
transaction, by the Worker's own connection, and by jobs that anyone enqueues.

The hard behaviours: a platform call that lands after the row moved on; an
observation that is old when the decision uses it; a job that dies between
intent, call and record; two jobs of one Agent (Oban's `unique` does not cover
executing jobs); creates that were sent and never observed; resources that are
created or deleted in two halves; a Durable Object evicted between two awaits;
requests that arrive long after their generation ended.

### The Session subsystem

| Component | State it keeps | Operations | What makes it correct |
| --- | --- | --- | --- |
| `signals.ex`, `signals/signal.ex`, `queue.ex` | the inputs: status, attempts, when they are due | accept, admit, start, defer, refund, complete, dead-letter | an open input is found again, an ended one stays ended |
| `admission.ex`, `fence.ex` | the epoch of the Session's workspace | advance it, check it in every write | a driver without the epoch writes nothing |
| `run/tape.ex`, `round_state.ex`, the responses of AI Gateway | responses, their rounds' journals, the inputs that joined | restore, reclaim, record | the next driver continues where the last one durably was |
| `receipts.ex` | the result of a committed call, until its round is journaled | execute under an advisory lock, fetch, delete | a write happens once |
| `turn.ex`, `driver.ex`, `driver/tasks.ex` | the stage of the turn, results, tasks | admit, restore, request, execute, record, inject, finalize, retry, stop | none of it is needed after a crash |
| `reconciler.ex`, `jobs/ensure_driver.ex` | none | find due input without a driver | no wakeup is needed twice, a lost one is repaired |

They interact through the database: an input's transaction enqueues the job
that starts a driver, a driver's transactions lock the Session's row and check
the epoch, a response and a tool transaction are committed by processes of their
own which may outlive the driver.

The hard behaviours: a driver that dies between any two transactions, or is cut
off while a second one runs; a tool task that outlives its driver; a response
that completes with nobody to read it; messages that join a turn which then
ends; an urgent input that overtakes an interrupted one; attempts that are
charged, given back and exhausted.

### The Job subsystem

| Component | State it keeps | Operations | What makes it correct |
| --- | --- | --- | --- |
| the Job row, `lifecycle.ex`, `control.ex` | status, attempts, charged failures, the Signal of the last attempt | claim, report, abort, stop, complete | only the current attempt writes, an ended Job stays ended |
| `admission.ex`, `worker_wait.ex`, the Signals of the Job's session | the dispatch and the messages that steer the Job | admit the oldest, reject, resolve a wait | the Signal at the head is the one that the running attempt was claimed for |
| `sessions/job_driver.ex` with its start task | the attempt, the connection it was sent on, the mode | rebuild, admit, send, observe | a start is repeated until accepted, a new connection adopts |
| `turn_watchdog.ex`, called by the driver's observation | none | find a stalled attempt, abort it | its abort is checked like any other; it ends what a failed abort has left |
| `active_turns.ts` with `Slots` | Turns by attempt, slots in use, the drain state | start, confirm, retire older attempts, launch, report, abort, release | slots are counted once, one attempt of a Job executes |
| `turn_completion.ts` | terminal calls without an answer | report, abort, reject, repeat | a repeated call changes nothing |

They interact by messages and calls over the Worker's connection, which loses
what it carries when it breaks, and by the row of the Worker, where placement
takes a slot and every heartbeat overwrites the count.

The hard behaviours: a start that is repeated while the first is being accepted;
a stop that is lost, or overtaken by the end it asks for; an attempt that the
control plane has replaced while the Worker still executes it, and that has the
only slot; a report whose answer is lost; a refusal that arrives when the Job
has gone on; an abort whose handler fails, which the Worker takes for the last
word while the Job stays as it is; a process that dies with calls on their way.

### The rest of the system

| Part | State, in a sentence | Hard behaviour |
| --- | --- | --- |
| Conversations and delivery | inbound batches, deliveries per native room | ordering and redelivery across adapters |
| Schedule, Workflow, Automation Jobs | fires, task trees, applet attempts | missed and doubled fires, parents waiting for children |
| AI Gateway | responses, credential attempts, quotas | a stream that ends twice, quota at its limit |
| RuntimeFabric, the rest of `agent_computer` | frames and lanes of one connection, mailboxes, workspaces | reconnects inside an operation |
| Files, Browser sessions, Offboarding | objects, logins | multi-step external effects |
| Signals, Tenants, Principals, AuthZ, AuthN, OIDC | rows | mostly request/response |
| Brain, Pods, Connectors, Plugins, Skills, web apps, kernel | content and adapters | little shared mutable state |

`PROJECT.json` lists every part with its status, and the hazards at their lines.

## Modules

| Module | Models | Built from |
| --- | --- | --- |
| `AgentWorkerRow` | the row and its write actions, the check constraints, the declared transitions; operators only | |
| `Decision` | `Decision.next/1`; operators only | `AgentWorkerRow` |
| `AgentWorkers` | jobs, platform, process, owner and sweep around one row | `Decision`, `HomeLease` |
| `HomeLease` | what the lifecycle promises: a lease of Home with one holder | |
| `CloudflareMachine` | the Durable Object with its container, R2 and the control plane as environment | |
| `WorkerAdmission` | sockets, Channel processes, the directory of every node, mandatory sends, around one row | `AgentWorkerRow` |
| `SessionDriver` | the inputs of one Session, its drivers, tape, receipts and tool tasks | |
| `JobAttempts` | one Job, its Signals and driver, the Worker that executes its attempts, the connection between them | |
| `MCAgentWorkers`, `MCCloudflareMachine`, `MCWorkerAdmission`, `MCSessionDriver` | small instances (`JobAttempts` has only numbers and sets for constants and needs none) | |
| `AgentWorkersProofs` | theorems for any number of overlapping jobs | `AgentWorkers` |
| `LeaseProofs` | theorems for jobs that do not overlap, and the refinement of `HomeLease` | `AgentWorkersProofs` |
| `HomeProofs` | the theorem on the Home that a create restores | `LeaseProofs` |
| `AdmissionProofs` | theorems for any number of nodes, processes, connections and generations | `WorkerAdmission` |
| `CloudflareProofs` | theorems for any number of generations and writes | `CloudflareMachine` |
| `SessionProofs` | theorems for any number of drivers, inputs and calls | `SessionDriver` |
| `JobProofs` | theorems for any number of slots, claims, messages and faults | `JobAttempts` |

`AgentWorkers` treats a platform abstractly (`Kind`); `CloudflareMachine` is the
inside of the kind `"cloudflare"`.  `AgentWorkers` and `WorkerAdmission` share
the row: the first has every reconcile step and reduces a connection to the row
updates of an instance's process, the second has every step of a connection and
reduces reconciliation to what a connection can see of it (`Reconcile`: a
generation begins, drains, ends, is deleted).

## How the models correspond to the code

**The row.** Every operator takes the locked row and returns what one UPDATE
leaves.  `CanX` is the transition and filter of action `x`.  Timestamps become
flags where a decision reads them: `sent` is `create_sent_at`, `seen` is
`instance_seen_at`, `wanted` is "`wanted_until` lies ahead", `beat` is the age
of the last heartbeat (`fresh`: below 60 seconds).

**A job** is a program counter.  Each label is the code between two points at
which others may act:

| `pc` | Action | Code |
| --- | --- | --- |
| `idle`, `failed` | `StartJob` | `run/1`, which first expires a silent connection |
| `read`, `list` | `ReadRow`, `ListInstances` | `observe/1`: unlocked read, then the platform's list |
| `decide` | `Decide` | `decide_in_tx`: lock, compare the lifecycle columns, record what was observed, decide, commit the intent |
| `prepare` | `Prepare` | image and storage preparation |
| `call` | `CallCreate`, `CallDelete`, ... | the platform call takes effect, at any later moment |
| `record` | `Record` | `record_in_tx`: lock, compare again, apply or drop the answer |

`JobFails` stands for every way a round ends without recording: the process or
node dies, an error is returned, twelve steps are over.  A call whose answer is
lost is the call action followed by `JobFails`; a call that never happened is
`JobFails` before it.  A failed job has its own `pc` because fairness must not
take its death for progress.

**A list** is a set.  `Currents` and `Strays` choose any current and any other
instance, which is what the first element of a list in an unspecified order
is.  **Facts** of the moment (idle, late, image changed, a Turn runs) are chosen
anew for each decision; only the Agent's status is state.

**The platform.** An instance is a generation, a reference and a phase; phase
`partial` is a Kubernetes Secret without its Pod.  `Kind` says how instances are
named (Pods and Durable Objects by generation, containers and sandboxes by an ID
of their own), whether a list carries the reference, and what is left when an
instance goes.  The kind `"pausing"` is a platform that suspends instances.
A Cloudflare create answers an instance that exists before it looks at
anything else, and the credential that could be refused in its stead is the one
the round's list was just made with; so a rejection comes only while no
instance is there.

**The process** joins, beats and leaves with the credential of its instance's
generation.  Join and heartbeat are single conditional UPDATEs under the row
lock, so each is one action.

**A connection** (`WorkerAdmission`) is a Channel process, named by its
`connection_id`, which is also the row's `transport_route`.  Its `phase` is the
point its code has reached:

| `phase` | Reached by | Code |
| --- | --- | --- |
| `tracked` | `JoinChannel` | `WorkerChannel.join/3` up to `admit_join`: the entry is in the node's directory |
| `admitted` | `AdmitJoin` | `admit_in_tx` has committed; `replaced` is the route it found on the row |
| `open` | `PublishAdmission` | `publish_admission` has told the replaced connection to close, the join is answered |
| `closing` | `HandleClose`, `Refused`, `TransportCloses` | the process stops, `terminate/2` is to run |
| `ending` | `Untrack` | the entry is gone, the route is still on the row |
| `free` | `Terminate`, `RefuseJoin`, `NodeCrashes` | no such process |

`close` and `beat` are the two messages of its mailbox that the row depends on.
The Worker's end is `proc`: the node its socket leads to and the channel it
holds on it.  The two ends part (`Drop`, `Refused`, `LoseChannel`) before the
server notices; then `TransportCloses` is the server's own discovery.

`dir[n]` is the tracker's replica on node `n`.  A process writes the entry of
its own node itself; `DirectoryLearns` and `DirectoryForgets` carry it to and
from the others at any later time.  `NodeCrashes` ends every process of a node
without `terminate/2`.

A mandatory send is a program counter per node (`look`, `fence`, `call`,
`mark`): the lookup in the node's replica, the comparison with the row, the call
of the process, and `mark_route_unusable`.  Between any two of them anything
may happen.  Only the failures that `send_mandatory` acts on reach `mark`: no
entry, a process that ended before or during the call.

Connection and incarnation ids are random in the code.  The model uses a name
again once nothing refers to it (`FreshConns`, `FreshProcesses`,
`FreshGenerations`), so a run has any number of connections.

**The Durable Object.** One action is the code between two waits for something
outside the object: its storage admits no other event in between (the input
gate of Durable Objects), R2, the registry and the container do.  The two
queues of `WorkerMachine` are the variables `lifecycle` and `home`: an operation
that waits in a queue has not begun, so only the running one is state.  A
restart (`ObjectRestarts`) is the loss of both, of the exit watch, and
`resume/0`, which runs before any other event (`blockConcurrencyWhile`).  The
content of Home is a version number, a backup record is named by the version it
holds.  The control plane is reduced to what the object can tell: it may send a
create again at any time (`sent` only grows), and it ends a generation that it
saw and no longer sees, or whose create was refused for good.
A restore or backup of Home that runs or waits counts as an instance
(`home.pending`), so no generation begins beside it; `requireGeneration`, which
looks again before the pointer is written, is a second guard that never decides
in this model, and no property says anything of it.

**An input** (`SessionDriver`) is a Signal: its status, the admissions charged to
it, and `started` (`last_attempt_at` is set).  `Kinds` are what the code tells
apart here: a `message` is urgent and may join a running turn
(`injectable?/1`), a `task` is neither, a `stop` is a command.  Time is left out:
a deferred input (`queued` and `started`) is due or not at any moment, so
`MayLead` allows each deferred input to be the head or to be absent.

**A driver** is the stage of its turn, named as in `turn.ex` where the code has a
name (`preparing` and `restoring` are the two halves of `Tape.restore/1`).  One
action is one transaction, or the code between two of them:

| Action | Code |
| --- | --- |
| `Admit`, `Exhaust`, `AdmitCapacity`, `AdmitOther` | the four answers of `admit_in_tx/5` |
| `Reclaim`, `Restore` | what still generates is failed in a transaction; tape and receipts are then read without one |
| `OpenModel`, `ModelCommits`, `ModelFails` | the generating response is inserted under the fence; AI Gateway ends it, whether or not its driver lives |
| `ToolBegins`, `ToolCommits`, `ToolFails`, `TaskRejected` | `Receipts.execute_in_tx/4`, cut where it locks the Session |
| `Record` | `record_round_in_tx/1` |
| `Boundary` | `inject_pending/2` and `next_round/1` |
| `Finalize` | `finalize_in_tx/4`: journal what is pending, end the inputs, delete receipts |
| `FailsRetryable`, `FailsForGood`, `Interrupt` | `failed/3` with `defer_retry` or `finalize(:dead_letter)`, a stop |
| `Rejected`, `Shutdown`, `Kill`, `Retire` | the ends of a driver |

`tape` holds the complete responses of the Session, each with the journal of its
round (`done`, `results`), the inputs that had joined when it was requested
(`steers`), and its calls' receipts.  `commits` and `purged` are history: how
often the domain write of a call committed, and which receipts the end of
another run has deleted.  A tool transaction between its first fence and its
end is a member of `tasks`, carrying the epoch of the driver that started it,
which need not live.  `EnsureDriver` is the job of the input's transaction or the
reconciler's; it costs a fault when a driver lives, for then the process
registry is split.

**A Job** (`JobAttempts`) is its row and the Signals of its session: 0 is the
dispatch, the others are messages (steers), numbered as they are queued.  A
transaction of the control plane locks the Worker's row and the Job, so each is
one action.  An attempt is a number, as in the code; the Worker's key of a Turn
is one attempt.

| Action | Code |
| --- | --- |
| `DriverStart`, `AdmitStart`, `AdmitAdopt`, `AdmitTerminal`, `AdmitExhausted` | `rebuild/2`, then the answers of `admit/3` |
| `RejectJob`, `RejectSteer` | `reject_admission_in_tx/5` and the end of a wait for the Worker |
| `StartTask`, `SendStart`, `StartEnds` | the task of `start/1`, cut between its check of the attempt and its send; its end, when a start was asked for meanwhile (`start_dirty`) |
| `ObserveFinished`, `ObserveAdopt` | `observe/1` |
| `Message`, `Stop`, `ExternalComplete` | the owner |
| `StallIdle`, `StallSlow` | the watchdog's inspection at the start of each observation; its abort is a call like those of the Worker |
| `HandleReport`, `HandleAbort` | a report or an abort is applied or refused, for a call that is handled now |
| `AbortFails` | the handler of an abort answers with an error and the Job stays as it is |
| `Receive` | the Worker's receive loop: `start/1` and `control/1` of `active_turns.ts` |
| `ConfirmArrives`, `AckArrives`, `Launch` | the acceptance, its answer, `stopOlderAttempts` and the wait for it |
| `Report`, `Fail`, `ProgressRefused`, `Release` | how a Turn ends |
| `DrainBegins`, `ReportDrain`, `ConnectionLost`, `Join`, `ProcessDies`, `Replaced` | the process and its connection |

The row's count of free slots is not state.  `reserve_slot` takes one, but the next
heartbeat writes what the Worker saw when it sent it, so at any time a row that
admits may have a slot to offer (`MayPlace`), and what keeps the Worker within
its slots is its own count.  `inbox` is what the control plane has sent over the
connection and is lost with it.  `calls` are terminal RPCs: one is handled at any
later time, its answer may be lost, and who waits repeats it (`Awaits`); the
answer says nothing about who asked, so a set is enough.  A refusal of a start
(`reject`) is repeated by a task that outlives no process.  A Turn that has gone
on to its abort asks for no second acceptance.

A terminal call may also fail: `dispatch_method_safely/2` of `rpc_lane.ex` turns a
defect or a failed transaction into an RPC error, which for an abort is not
retryable (`retryable_handler_failure?/1`).  The Worker takes it for the answer
(`abortTurnWithAck`) and releases the Turn, or, for a rejection, logs it.  So an
attempt may be the current one of a running Job while nobody works on it.
`dropped` is history: the attempts to which this happened while they were
current.  Like `launched` it is read by properties only.

What ends such an attempt is the driver.  If it is still `starting` it sends the
start again, which the Worker accepts as new.  If it has seen the acceptance
(`running`), only the watchdog is left: every observation begins with
`reconcile_stuck_job/1`, which aborts an attempt that has made no progress for an
hour, by its Turn rows or, before there is one, by the Job's own time.  With nobody
at work (`Deserted`) that hour passes, so `StallIdle` costs no fault; a Turn, a
start or a connection that takes an hour is a fault (`StallSlow`).

A driver runs one start at a time.  A poll or an adoption that asks for another
sets `start_dirty`, and the end of the first sends the second: also when the
attempt was accepted meanwhile, which takes the driver from `running` back to
`starting`.  `driver.sending` is the task between its check and its send,
`driver.dirty` the mark; since nobody sees the mark before the task ends,
`SendStart` chooses it for all the polls before it.

## Runs and bounds

| Run | Question | Result |
| --- | --- | --- |
| `WorkerPausing` | does one job at a time keep the row legal, Home single-written and the lease implemented, on the platform with the most phases, at moments with any facts | holds, 96 000 states |
| `WorkerKubernetes` | do deletions, drains and first starts end, and is an orphan swept, when every resource comes and goes in two halves | holds, 85 000 states |
| `WorkerCloudflare` | is the newest backup the one restored, the deletion final, the row removed last | holds, 154 000 states |
| `OverlapKubernetes` | may two jobs of one Agent start two writers | yes: see Findings |
| `CloudflareMachine` | receipts, backup pointer, records, exit watch, end of a deletion | holds, 162 000 states |
| `AdmissionLive` | does the row name only a connection of its own generation and process, and does only the end of a connection cost the Worker its route; does a dead route leave the row, does a stale Worker come back | holds, 209 000 states |
| `AdmissionSuperseded` | is a live route in its node's directory; does a superseded Channel end on a node that nobody tells it from | holds, 305 000 states |
| `AdmissionDirectory` | the first of these on two nodes | violated: see Findings |
| `SessionDriver` | writes once, true journals, exact recovery, no input lost or ended silently, and every input ends | holds, 474 000 states |
| `SessionOvertaken` | does a takeover never repeat a committed write, as the documentation says | violated: see Findings |
| `JobAttempts` | are the Worker's slots counted once, does one attempt at a time execute, and each once unless an abort of it failed, does a running attempt stand for the head of the queue and get on | holds, 756 000 states |
| `CloudflareLate` | the same Home property when an observed start may still fail | violated: see Findings |

Bounds, and why they are enough:

- *Two generations, two references* (`Generations`, `Refs`).  A generation is a
  random name; `KnownGenerations` and `KnownRefs` keep a new one distinct from
  every name that anything still refers to, and a name that nothing refers to
  can be used again, so a run has any number of rounds and only two generations
  alive at once.  The protocol compares a generation only with the row's.
- *One job* in the passing runs: jobs that do not overlap.  A call of a job that
  died is covered by `JobFails` before or after it; a call that lands after its
  job died and the next began is an overlapping job, two of which are in
  `OverlapKubernetes`.  The properties that hold for overlapping jobs too are
  proved for any number of them.
- *Facts* (`AllFacts`, `CalmFacts`, `LateCalmFacts`): the pausing run takes every
  combination that the decision can tell apart there; `protocol` and `aged`
  lead to the same action as `changed`, and a heartbeat that is not fresh only
  withholds a release.  The liveness run takes calm moments: an owner that
  keeps changing settings can replace a Worker for ever.
- *Two generations, two connections, one process, one node and a driver* in
  `AdmissionLive`: an ended generation beside the current one, a route and the
  one it supersedes.  Every comparison of the code is between the row's value
  and one other, and a process name that nothing refers to is used again, so
  the process of one generation is followed by that of the next.  A send is
  judged on one node, for on two its property fails: `AdmissionDirectory` is
  the same instance with a second node.  What the row may name was also checked
  with two of everything before it was proved for any number.  `AdmissionSuperseded` has two nodes and no
  driver, so a join on one node replaces a connection whose entry it may not
  have, and a deletion clears a route without a message.
- *`MaxVersion = 2`*: three contents of Home, so a first, a newer and a newest.
- *Two drivers, a task and then a message or a stop, one call, two responses, two
  attempts, one fault, one lost stream* in `SessionDriver`: a driver and the one
  that takes over, an input and one that overtakes or joins it, a round and the
  one after it.  The fault is a driver that dies, a second one that starts while
  the first lives, or a step that fails; a stream whose end nobody read costs
  nothing when it is given up and one loss when it is retried.  A provider
  without capacity and a retry both give an attempt back, so attempts need no
  more than the two that separate "again" from "given up".  `SessionOvertaken` is
  the same instance with one driver: the counterexample needs no split.
- *One slot, two claims, one charged failure, one steer, one fault, one message on
  its way* in `JobAttempts`: with one slot the second attempt of the Job finds it
  taken by the first, which is the case in which it is handed over
  (`MaxSlots`, `MaxClaims`); the fault is a crash, a drain, a lost connection, a
  lost answer, an abort that fails, a workspace that takes the slot, or a stall
  found while somebody is still at work (`MaxFaults`);
  one message (`MaxInbox`) because the driver sends one start at a time, and a
  stop that finds no room is one that is lost.  `Outcomes` and `Failures` are the
  ones that let the Job go on: an outcome that ends it does what `Stop` and
  `ExternalComplete` do.  The theorems hold for every value of these.
- *Symmetry* over generations, references and jobs: they are only compared for
  equality, and the runs that use it check no liveness property.
- *`Undisturbed`* bounds `OverlapKubernetes`, which only has to find a
  behaviour, to an active or deleted Agent that nobody asks for twice.
- `OrphanInit` starts the Kubernetes run also from an instance without a row,
  which a single job never produces and the late create of an overlapping job
  does.

`CHECK_DEADLOCK FALSE`: an Agent whose row is removed and whose platform is
empty has nothing left to do, a Durable Object may have spent its versions
and generations, and a Session whose inputs, or a Job whose Signals, have ended
is at rest.

## Fairness

`SweepJob` runs every minute and enqueues a job for each row with work; Oban
retries a failed job (`backoff/1`).  So a job that can step does (`WF JobStep`),
and a platform call that is repeated round after round is served one day
(`SF CallServed`): a platform that answers errors for ever allows no promise.
A platform that was told to stop an instance stops it, boots what it created,
and the process that booted joins (`SF Join`, for it retries while heartbeats
come and go).  Time passes (`WF HeartbeatAges`).

The last conjunct says that disturbances (a job that dies, a create that is
refused or half done, a process that exits of itself) come to an end.  With one
in every round, nothing could be promised; no bound is put on their number, and
nothing says when they end.

For connections (`AdmissionLive`, `AdmissionSuperseded`): a Worker process goes
on (`WorkerServed`: it connects, joins again and sends heartbeats; Phoenix
retries the first two), a Channel process goes on (`ChannelServed`: its join, its
mailbox, its end, and the transport timeout by which it notices a peer that is
gone), the tracker drops entries of dead processes,
and `expire_connection` is called by a job that the sweep enqueues.  Processes,
sockets and nodes stop failing one day; deletions, drains and new generations
need not, and nothing is assumed of sends beyond that a begun one goes on.

For a Session: a driver that can go on does (`WF Step`), a response and a tool
transaction that were begun end (`WF StartedEnds`; both have deadlines), and the
reconciler looks every minute, so an input that is due again and again is found
due once (`SF TakesInput`) and, being found, is admitted or answered once (`SF` of
`Admit`, `Exhaust`, `Control`): a backoff ends.  Faults need no fairness, their
number is bounded.  Nothing is assumed of hints, jobs or what a tool answers.

For a Job: the driver's process runs (`WF DriverSteps`, its start task
`WF StartTask`, `WF SendStart`: both are timers that ring again), the Worker reads
its connection (`WF Receive`), a call that is repeated is handled (`WF Handle(n)`),
a Turn goes on when it can (`WF TurnSteps(n)`), workspaces end, a process that
lost its connection joins and one that has drained is replaced
(`WF ProcessSteps`).  The end of a start that was asked for again is handled
(`WF StartEnds`).  The watchdog is called by every poll of a driver that observes,
so when the driver has seen the attempt accepted and no Turn of it is left, the
stall is found (`WF` of `StallIdle`): nothing refreshes the time it reads.  No
fairness is assumed of a stall that is found while a Turn or a start is on its
way (`StallSlow`), nor of errors.  Nothing is assumed of what a Turn executes: it
may neither report nor fail for ever.

For the Durable Object: alarms ring and are repeated while they fail, creates
return or fail, a destroy that keeps being asked for succeeds.  Nothing is
assumed of the container or of a restore or backup, which may hang for ever.

## Proofs

`AgentWorkersProofs` proves, for every kind of platform and any number of
overlapping jobs, generations and references:

- `TypeCorrect`, `RowConstraintsHold`, `ConnectionCurrentHolds`,
- `TransitionsDeclaredHolds`, `DeletionFinalHolds`, `UnsettledKeptHolds`.

The inductive invariant `Inv` adds to the types and constraints what a job in
the middle of a round relies on.  None of the properties is inductive alone: an
answer is applied in a later transaction than the one that decided on it, so
the invariant says of each job in `call` or `record` that its action fits the
lifecycle it saw (a resume was decided on a row that is `starting`, a storage
deletion on one that is `deleting`).  Whether the row still has that lifecycle is
what `Record` compares, and the proof of each property uses the comparison
exactly there.

`LeaseProofs` assumes `OneJob` (jobs do not overlap) and proves

- `SingleWriterHolds`: at most one instance, with the invariant `Writer`;
- `RemovedCleanHolds`: the row goes last, with the invariant `Clean`;
- `ImplementsLeaseHolds`: `Spec => Lease!Spec` with the row's generation as the
  grant and the instance's as the holder.

`Writer` ties the job to the platform: the list that a decision will use has an
object of every instance's generation, and while a create is on its way it is
for the row's generation and so is every instance that is there.  `Clean` says
that a row without a provider has an empty platform, which the removal of the
row needs because storage is deleted two transactions before.  `OneJob` is
needed: `OverlapKubernetes` is a counterexample with two jobs.

`HomeProofs` proves, for jobs that do not overlap and whatever the kind of
platform is,

- `CreateRestoresLatestHolds`: a create restores Home from the latest backup.

Only the kind `"cloudflare"` keeps Home in a reference that the row must learn,
so for the others a create leaves `home` alone; for Cloudflare the theorem rests
on the invariant `Restored`.  The property alone is not inductive, for the
backup of a generation that ends is newer than the row's reference until its
end is recorded, and many steps lie in between.  `Restored` says that the two are
the same, or else the row's generation has finished, is gone and has left a
backup, or else the deletion of storage has begun (`HomeKnown`).  What makes it
hold is in `Backed`: while a create is on its way the job still carries the row's
reference; `mark_absent`, a settlement and a rejection, the three ways to give a
generation up, are only on their way while the platform is empty, and the
answer that is recorded with them carries the finished receipt's reference.  A
Cloudflare row is never `paused`, and every instance is of the row's generation.

`AdmissionProofs` proves, for any number of nodes, processes, connections and
generations:

- `TypeCorrect`, `RouteOfGenerationHolds`, `FirstSendFindsRouteHolds`;
- `StaleMeansGoneHolds`, under `OneNode` (all nodes are the same one).

Its invariant says of the row that a route comes with a process and a process
with a generation (`Held`), that the row's process is of the row's generation
(`HolderCurrent`), that the connection it names, while it lives, is one of that
process (`RouteHeld`), and that a Channel is in its node's directory from before
its admission until it begins to end (`Listed`).  `RouteOfGeneration` is not
inductive without the second: admission compares the socket's generation with
the row's, and it is the process that carries it to the connection.  Most steps
only take something away (`RowKeeps`, `ProcKeeps`, `ConnKeeps`, `DirKeeps`), and
one lemma, `QuietStep`, serves them all; starting a process, joining and
admitting are proved one by one.  `StaleMeansGoneHolds` adds `Marked`: a send
that is about to give a route up does so for a Channel that is not alive, which
stays so because a new Channel takes a name that no send holds.  That a missing
entry proves this is where `OneNode` is used; `AdmissionDirectory` is the
counterexample without it.

`SessionProofs` proves, for any number of drivers, inputs and calls, any kinds of
input, and whatever the bounds of the runs are:

- `TypeCorrect`, `WritesOnceWhileKept`, `JournalIsTruthful`, `CurrentViewIsExact`,
- `NoInputEndsSilently`.

Its invariant starts from what an epoch means (`Driven`): no two drivers have the
same one and none is ahead of the Session's, so at most one driver's fence is
up.  Then it says, of each party that may write later than it has read, what
that party may rely on.

- A task (`Working`, `Exclusive`) holds the lock of a call that has no receipt,
  and its round is not journaled while the fence of the driver that began it is
  up.  So a commit never meets a receipt: two commits of one call need a receipt
  that was deleted in between.
- A driver (`Good`) knows all its tasks: they are of the round that it executes
  and it has none of their results (`Owns`).  A success that it holds has
  committed (`Seen`), and as long as its fence is up the round is open, newest
  and still has its receipts (`Newest`), because nothing else generates (`Quiet`).
- A round (`Kept`): a receipt means that the call has committed, and a call that
  has committed still has its receipt unless the round is journaled or another
  run's end has deleted the receipt.

None of the properties is inductive without these.  `OnceWhileKept` rests on the
lock and the fence of a task together: the task of a driver that lost the epoch
holds the lock of a call whose round a successor may journal, and only its own
second fence keeps it from committing then.  `JournalTruthful` rests on `Kept`: a
call without a receipt is journaled as interrupted, and `Kept` says what its
absence can mean.  `NoInputEndsSilently` needs `Placed` (the round of a driver that
finishes is its own input's), for an input that a run ends as answered must have
a response.  The proof of the invariant has one lemma for each action that adds
to the tape, to the tasks or to what a driver holds, and one for each group of
actions that only take something away.

`CloudflareProofs` proves, for any number of generations and of writes to Home:

- `TypeCorrect`, `ExitWatchesContractHolds`, `FinishedNeverStartsHolds`,
  `PointerForwardHolds`, whatever the control plane does;
- `RecordKeptHolds`, `HomeNotStaleHolds`, under `Observed` (no start fails after
  the control plane has listed it).

The first four rest on `MachineInv`, which looks only at the object: whatever runs
or is watched is of the generation on the record (`Owned`), a generation that has
neither a receipt nor a watch has not begun, so its pointer is the one its
create brought (`Pristine`), and Home and what is uploaded of it are as new as the
pointer (`Newer`).  `PointerForward` needs `Pristine` for a create that is repeated
after it failed, and `Newer` for a backup that ends after its container did.  The
other two need to know what the control plane may conclude: a generation that it
has given up has a receipt (`Receipts`), so only its current one comes to run
(`Current`), on a pointer that is no older than the committed one (`Committed`).
`Receipts` is the conjunct that an observed start which fails breaks, and
`CloudflareLate` is the counterexample.

`JobProofs` proves, for any number of slots, claims, failures, steers and faults
and any length of the connection's queue:

- `TypeCorrect`, `SlotsExactHolds`, `OneExecutionHolds`, `TriggerIsHeadHolds`,
- `StartsOnceHolds`.

Of these only the types and `SlotsExact` are conjuncts of the inductive invariant
as they stand.

- `OneExecution` follows from `Retires`: an attempt that waits for its older ones
  waits for all that there are, and when it executes there is none.  It stays
  so because starts reach the Worker in the order in which attempts were claimed
  (`Ordered`): an older attempt cannot arrive behind a newer one.
- `TriggerIsHead` is `Heads`, strengthened by what a report may close: `AdmitStart`
  takes the oldest open Signal, and what is queued later has a larger number.
- `StartsOnce` needs to know why an execution that ended cannot begin again.
  A Turn is released only after a stop, a refusal or an answer, and each of
  them means that its attempt is no longer the current one (`StopsTrue`,
  `Settled`), with one exception: an abort that failed while the attempt was
  current, which puts it into `dropped`.  For an attempt outside `dropped`, a
  start that may still arrive (`MayArrive`, which includes a start in flight and
  one that is marked to be sent again) is one of an attempt that the Worker still
  has, or that is not the current one, and that is then refused when the Worker
  asks for confirmation (`Once`).  The death of a process breaks its connection,
  and the driver adopts on the next.  The exception is needed: without it TLC
  finds an attempt that executes, fails, has its abort answered with an error, is
  released, and is executed again by the start that was marked.

The assumptions are the modules' own: `KindAssumption` (which kinds pause),
`NoneAssumption` and `MachineAssumption` (the null value is no value of a type, a
version is a number), `SendersAssumption` (drivers run on nodes),
`KindsAssumption` (the kinds of input), `SlotsAssumption`, `ClaimsAssumption`,
`BoundsAssumption` and `ReportsAssumption` (numbers are numbers, a Worker has a
slot, what a Turn may report), and the hypotheses `OneJob`, `OneNode` and
`Observed` where a theorem names them.

Every invariant and every action property of the passing runs has a theorem.
Only model-checked are the liveness properties (deletions, drains, starts,
sweeps, reconnects, `InputsEnd`, `AttemptMoves`): liveness under fairness and
ENABLED are outside the prover's reach.

## Findings

1. **Overlapping jobs can start two writers** (`OverlapKubernetes`).  The design
   document and the moduledoc of `reconcile_job.ex` say that overlapping jobs at
   most repeat an idempotent call.  A create that is slow in one job while
   another job's create of the same generation is refused, settled and followed
   by the next generation, lands beside it.  The same document describes the
   late create elsewhere: it fails admission and is swept.
2. **A failed start leaves no receipt** (`CloudflareLate`).  The control plane may
   have listed the generation while it started, and then settles it; a duplicate
   of its create that arrives later is admitted, restores an older Home and
   removes the committed backup.  `CloudflareMachine` shows that the property
   holds when a start that was observed does not fail.
3. **A lagging directory makes a live Worker stale** (`AdmissionDirectory`).  The
   documentation of the directory and of the five steps of a send say that a
   missing entry fails only the send and that the directory drives no durable
   decision.  The code answers `:unknown_route`, which `send_mandatory` takes for
   the end of the connection: a driver on a node that has not received the new
   entry yet releases the route of a Worker that was just admitted on another
   node.  The Worker finds out by its next heartbeat and joins again
   (`StaleReconnects`).
4. **The end of one run deletes the receipts of another** (`SessionOvertaken`).
   `Receipts.delete_run_in_tx/1` filters by Session, not by run.  A task that was
   interrupted after a tool committed is overtaken by a message (messages are due
   first); when the message's run ends, the task's receipt is gone, and the
   task's next driver repeats the write that the moduledoc of `receipts.ex` and
   RuntimeFabric.md promise to recover.  `OnceWhileKept` is what does hold.

On Jobs, three statements are weaker in the code than in its text; no run is
about them, for each shows only after an abort has failed or concerns who calls
whom.  RuntimeFabric.md:473-474 says "duplicate `turn_start` commands never spawn a
second execution": one does when an abort of the current attempt failed and
released the Turn before the duplicate came (`StartsOnce` says what holds).  A
comment in `background_agent_jobs.ex` (line 333) says that `running` always
means an active runtime Turn: in the same case it does not, for up to an hour.
BackgroundAgentJob.md:844 has the watchdog run by an Oban sweep: its only caller is
the driver's observation (`codex_job.ex:332`), so a Job whose driver is neither
`starting` nor `running` is not looked at.

Two smaller observations on Sessions that no run is about: a tool task that dies
between its commit and its answer is journaled as an error, although the
receipt is there (`complete/4` takes any error of the task for the result); and a
stop that is handled while the input it is meant for waits for its retry
without a driver only answers, the input runs later.

## What is not modelled

In the modelled components: error columns and diagnostics, the launch target
(image, protocol, settings) beyond "differs", preparation of images, storage and
caches beyond its success, credentials beyond the generation they belong to,
provider conflicts of the Durable Object.  Components without a module are
listed above and in `PROJECT.json` with the reason.

Of a connection: sequence numbers, windows, credit, acknowledgements, RPC tasks,
capacity and the protocol version.  A network split between living nodes, which
lets a call fail with `:nodedown` on a Channel that lives, is not in the model;
it would violate `StaleMeansGone` on several nodes as the lagging directory does.

Of a Session: calls that a Worker executes, their reconnects and waits
(`pending_call.ex`, `worker_acquisition.ex`), commands other than stop, edited and
withdrawn input, Workflow tasks and peer replies, the notices and deliveries that
the end of a run posts, iteration limits and nudges, the conversation's text.
Sessions of one Agent share its Worker; the model has one Session.

Of a Job: the rows of its Turns and the count of their consecutive failures (any
claim after the first may be refused for it), the successor that a success
leaves its steers to, the number of Jobs that an Agent may run, wakeups, the
texts of results.  Of its Worker: frames and windows of the connection, what a
Turn does, updates of its mailbox, browsers and mounts.

## Plan

1. Done: row, decision, reconciliation, lease, Durable Object; their theorems.
2. Done: `WorkerAdmission`: sockets, Channel processes, directories and sends;
   its theorems.
3. Done: `SessionDriver`: inputs, epoch, tape, receipts, reconciler; its
   theorems.
4. Done: `JobAttempts`: attempts of a Job, slots, starts and ends; its theorems.
5. A Lambda-like platform kind with unknown instances, clientToken and two-step
   launch.
6. The calls that a Worker executes inside a round (`pending_call.ex`,
   `worker_acquisition.ex`), composed with `WorkerAdmission`'s connections.
