---------------------------- MODULE SessionDriver ----------------------------
(***************************************************************************)
(* One Session of an Agent: its queue of inputs (Signals), the driver      *)
(* process that runs them, and the durable facts a later driver recovers   *)
(* from: the Session's epoch, the response tape, the tool receipts.        *)
(*                                                                         *)
(* A driver admits an input, which advances the epoch, restores what       *)
(* earlier drivers left on the tape, and then alternates model responses   *)
(* and rounds of control-plane tool calls until it finalizes the input.    *)
(* It may die at any point; while the process registry is split, a second  *)
(* driver may run.  Every durable write checks the epoch (Fence), and a    *)
(* tool commits its domain write with a receipt (Receipts).                *)
(*                                                                         *)
(* A fenced transaction locks the Session's row, so it is one action.      *)
(* Reads outside a transaction, tool transactions up to their fence, and   *)
(* everything between two transactions are steps of their own.             *)
(***************************************************************************)
EXTENDS Integers, Sequences, FiniteSets

CONSTANTS
    Drivers,       \* driver processes: numbers, the least free one is taken
    Inputs,        \* inputs, numbered by queue_sequence
    Kinds,         \* the kinds an input may have
    Calls,         \* call ids of control-plane tools
    MaxAttempts,   \* admissions charged to an input before it is given up
    MaxResponses,  \* bound: complete responses on the tape
    MaxFaults,     \* bound: splits, ends of drivers, failures of steps
    MaxLosses      \* bound: retried streams

ASSUME DriversAssumption == Drivers \subseteq Nat
ASSUME InputsAssumption == Inputs \subseteq Nat \ {0}
ASSUME KindsAssumption == Kinds \in [Inputs -> SUBSET {"message", "task", "stop"}]
ASSUME MaxAttemptsAssumption == MaxAttempts \in Nat

Stages == {"down", "idle", "control", "waiting",
           "preparing", "restoring", "requesting", "streaming",
           "executing", "boundary", "finalizing"}
Results == {"none", "ok", "error", "interrupted"}
Outcomes == {"none", "loop_finished", "stopped", "dead_letter"}
Statuses == {"absent", "queued", "running", "completed", "dead_letter"}

VARIABLES
    epoch,      \* the epoch of the Session's workspace
    input,      \* the Signals of the Session
    tape,       \* the complete responses, with the journal of each round
    gen,        \* the generating responses
    tasks,      \* tool transactions that have passed their first fence
    drv,        \* the driver processes
    faults      \* the faults so far that the bounds count

vars == <<epoch, input, tape, gen, tasks, drv, faults>>
durable == <<epoch, input, tape, gen>>

NoResults == [c \in Calls |-> "none"]
(* attempts: the admissions charged, provider capacity's taken off.        *)
NoInput == [kind |-> "message", status |-> "absent", attempts |-> 0,
            started |-> FALSE]
(* epoch 0: the driver holds no run.                                       *)
Down == [stage |-> "down", event |-> 0, epoch |-> 0, round |-> 0,
         calls |-> {}, results |-> NoResults, steers |-> {},
         outcome |-> "none"]
At(stage, s) == [Down EXCEPT !.stage = stage, !.event = s]

Init ==
    /\ epoch = 0
    /\ input = [s \in Inputs |-> NoInput]
    /\ tape = <<>>
    /\ gen = {} /\ tasks = {}
    /\ drv = [d \in Drivers |-> Down]
    /\ faults = [steps |-> 0, streams |-> 0]

-----------------------------------------------------------------------------
(* The queue *)

Open(s) == input[s].status \in {"queued", "running"}

(* session_queue/3: messages and commands first, then in arrival order.    *)
Urgent(s) == input[s].kind \in {"message", "stop"}
Before(r, s) == \/ Urgent(r) /\ ~Urgent(s)
                \/ (Urgent(r) <=> Urgent(s)) /\ r < s

(* A deferred input is available again at some later time, so the queue of *)
(* due inputs has any of the deferred ones; s may be the head of it.       *)
Deferred(s) == input[s].status = "queued" /\ input[s].started
MayLead(s) ==
    Open(s) /\ \A r \in Inputs : Open(r) /\ ~Deferred(r) /\ r # s => Before(s, r)
Others(s, steers) == {r \in Inputs : Open(r) /\ r \notin {s} \cup steers}
Stops == {s \in Inputs : Open(s) /\ input[s].kind = "stop"}

Up == {d \in Drivers : drv[d].stage # "down"}
Running(d) == drv[d].epoch > 0
Fault ==
    faults.steps < MaxFaults /\ faults' = [faults EXCEPT !.steps = @ + 1]
Loss ==
    faults.streams < MaxLosses /\ faults' = [faults EXCEPT !.streams = @ + 1]
Become(d, r) == drv' = [drv EXCEPT ![d] = r]

(* Mutant of Fenced: the input is open, whoever runs it.                   *)
FencedInput(e, s) == Open(s)

(* Fence.check_in_tx/2: the run's epoch is the Session's and its input is  *)
(* open.                                                                   *)
Fenced(e, s) == e = epoch /\ Open(s)
MayWrite(d) == Fenced(drv[d].epoch, drv[d].event)

(* The responses of s that visible_response_suffix/3 gives: the newest     *)
(* ones, back to the first of another input.                               *)
Suffix(s) == {i \in 1 .. Len(tape) :
                \A j \in i .. Len(tape) : tape[j].input = s}
Latest(s) == IF Suffix(s) = {} THEN 0 ELSE Len(tape)
TapedSteers(s) == UNION {tape[i].steers : i \in Suffix(s)}
Unrecorded(i) == IF i = 0 \/ tape[i].done THEN {} ELSE tape[i].calls

TasksOf(d) == {t \in tasks : t.epoch = drv[d].epoch}

-----------------------------------------------------------------------------
(* Intake, wakeups and the reconciler *)

Accept(s, kind) ==
    /\ input[s].status = "absent"
    /\ \A r \in Inputs : r < s => input[r].status # "absent"
    /\ input' = [input EXCEPT ![s] = [NoInput EXCEPT
                     !.kind = kind, !.status = "queued"]]
    /\ UNCHANGED <<epoch, tape, gen, tasks, drv, faults>>

(* Run.rebuild/2 as the end of a step: the driver takes the head of the    *)
(* queue.  A command is processed; any other input waits until it may be   *)
(* admitted, at once unless an earlier attempt was interrupted.            *)
Rebuilds(d) ==
    \/ /\ \A s \in Inputs : Open(s)' => Deferred(s)'
       /\ Become(d, At("idle", 0))
    \/ \E s \in Inputs :
         /\ MayLead(s)'
         /\ Become(d, At(IF input'[s].kind = "stop" THEN "control" ELSE "waiting", s))

(* Mutant of Waiting: only input that has not started is looked for.       *)
WaitingQueued == \E s \in Inputs : input[s].status = "queued"

(* due_sessions/2 *)
Waiting == \E s \in Inputs : Open(s)

(* ensure_driver/1, from the job of the input's own transaction or, when   *)
(* that was lost, from the reconciler's, which looks every minute for due  *)
(* input without a driver.  A node that sees no registered driver starts   *)
(* one; a driver rebuilds before it handles any message.                   *)
EnsureDriver(d) ==
    /\ d \notin Up /\ \A e \in Drivers \ Up : d <= e
    /\ Waiting
    /\ UNCHANGED <<durable, tasks>>
    /\ IF Up = {} THEN faults' = faults ELSE Fault
    /\ Rebuilds(d)

(* An idle driver hears of an input.                                       *)
Rebuild(d) ==
    /\ drv[d].stage = "idle" /\ \E s \in Inputs : Open(s)
    /\ UNCHANGED <<durable, tasks, faults>>
    /\ Rebuilds(d)

-----------------------------------------------------------------------------
(* Admission *)

(* current_queue_head/1: a message that never ran must still be the head.  *)
MayClaim(s) ==
    Open(s) /\ (input[s].started \/ input[s].kind = "task" \/ MayLead(s))
MayRefuse(s) ==
    \/ ~Open(s)
    \/ /\ ~input[s].started /\ input[s].kind = "message"
       /\ \E r \in Inputs : Open(r) /\ Before(r, s)

(* Mutant of RecordPending: the results in memory are taken for all.       *)
RecordPendingMemory(i, calls, results) ==
    [k \in 1 .. Len(tape) |->
       IF k = i /\ calls # {}
       THEN [tape[k] EXCEPT !.done = TRUE, !.receipts = {},
               !.results = [c \in Calls |->
                  IF c \in calls /\ results[c] = "none" THEN "interrupted"
                  ELSE results[c]]]
       ELSE [tape[k] EXCEPT !.purged = @ \cup tape[k].receipts, !.receipts = {}]]

Recorded(t, results) ==
    [t EXCEPT !.done = TRUE, !.receipts = {}, !.results = results]

(* The round that waits for results is journaled from its receipts, else   *)
(* from the results in memory, else as interrupted.                        *)
Journaled(t, calls, results) ==
    Recorded(t, [c \in Calls |->
                   IF c \notin calls THEN "none"
                   ELSE IF c \in t.receipts THEN "ok"
                   ELSE IF results[c] = "none" THEN "interrupted"
                   ELSE results[c]])

Discarded(t) == [t EXCEPT !.purged = @ \cup t.receipts, !.receipts = {}]

(* Run.finalize_in_tx/4 up to its receipts: the pending round is journaled *)
(* and the receipts of the Session go.                                     *)
RecordPending(i, calls, results) ==
    [k \in 1 .. Len(tape) |->
       IF k = i /\ calls # {} THEN Journaled(tape[k], calls, results)
       ELSE Discarded(tape[k])]

(* Mutant of EndInputs: the outcome of the turn is taken for the status.   *)
EndInputsOutcome(S, outcome) ==
    [s \in Inputs |-> IF s \in S /\ Open(s)
                      THEN [input[s] EXCEPT !.status = outcome] ELSE input[s]]

(* commit_terminal_in_tx: the inputs of the run that are still open end.   *)
EndInputs(S, outcome) ==
    [s \in Inputs |->
       IF s \in S /\ input[s].status \in {"queued", "running"}
       THEN [input[s] EXCEPT !.status =
               IF outcome = "dead_letter" THEN "dead_letter" ELSE "completed"]
       ELSE input[s]]

(* Mutant of Applied: every injected input ends with the run.              *)
AppliedInjected(s, steers, outcome) == {s} \cup TapedSteers(s) \cup steers

(* lock_applied_events/2: the steers that a response has answered, and for *)
(* a stop also the ones only injected.                                     *)
Applied(s, steers, outcome) ==
    {s} \cup TapedSteers(s) \cup (IF outcome = "stopped" THEN steers ELSE {})

Retracted(s, outcome) ==
    IF outcome = "loop_finished" THEN gen ELSE {g \in gen : g.input # s}

(* Every admission advances the epoch and charges an attempt.              *)
Claimed(s) ==
    [input[s] EXCEPT !.status = "running", !.started = TRUE,
                     !.attempts = @ + 1]

Exhausted(s) == input[s].attempts + 1 > MaxAttempts

(* The backoff, available_at or 30 s are over.  An admission that fails    *)
(* without a write leaves the driver waiting, or ends it (Kill).           *)
Ready(d) == drv[d].stage = "waiting"

(* admit_in_tx/5 of an input with attempts left.                           *)
Admit(d) ==
    LET s == drv[d].event IN
    /\ Ready(d) /\ MayClaim(s) /\ ~Exhausted(s)
    /\ epoch' = epoch + 1
    /\ input' = [input EXCEPT ![s] = Claimed(s)]
    /\ Become(d, [At("preparing", s) EXCEPT !.epoch = epoch + 1])
    /\ UNCHANGED <<tape, gen, tasks, faults>>

(* finish_admission_in_tx/4 of one without: it is dead-lettered with what  *)
(* the tape and the receipts hold (finalize_recovered_in_tx/3).            *)
Exhaust(d) ==
    LET s == drv[d].event IN
    /\ Ready(d) /\ MayClaim(s) /\ Exhausted(s)
    /\ epoch' = epoch + 1
    /\ tape' = RecordPending(Latest(s), Unrecorded(Latest(s)), NoResults)
    /\ input' = EndInputs(Applied(s, {}, "dead_letter"), "dead_letter")
    /\ gen' = Retracted(s, "dead_letter")
    /\ Rebuilds(d)
    /\ UNCHANGED <<tasks, faults>>

(* The input is gone or no longer the next one.                            *)
AdmitOther(d) ==
    /\ Ready(d) /\ MayRefuse(drv[d].event)
    /\ UNCHANGED <<durable, tasks, faults>>
    /\ Rebuilds(d)

(* Deferral in one transaction with the attempt it does not charge.        *)
AdmitCapacity(d) ==
    LET s == drv[d].event IN
    /\ Ready(d) /\ MayClaim(s) /\ Fault
    /\ epoch' = epoch + 1
    /\ input' = [input EXCEPT ![s] = [Claimed(s) EXCEPT
                     !.status = "queued", !.attempts = @ - 1]]
    /\ IF Running(d) THEN Rebuilds(d) ELSE drv' = drv
    /\ UNCHANGED <<tape, gen, tasks>>

-----------------------------------------------------------------------------
(* Recovery: Model.prepare/1 and Tape.restore/1 *)

(* Reclaim in its own transaction: what still generates has failed.        *)
Reclaim(d) ==
    /\ drv[d].stage = "preparing" /\ MayWrite(d)
    /\ gen' = {}
    /\ Become(d, [drv[d] EXCEPT !.stage = "restoring"])
    /\ UNCHANGED <<epoch, input, tape, tasks, faults>>

(* inject_in_tx/3: the inputs join the turn.                               *)
Joined(joins) ==
    [s \in Inputs |->
       IF s \in joins
       THEN [input[s] EXCEPT !.status = "running", !.started = TRUE]
       ELSE input[s]]

(* restore_tape/2 and the receipts are read outside a transaction.  When   *)
(* the run starts, due inputs an earlier attempt had injected join it      *)
(* again, in a fenced transaction.  Durable controls precede resumed work. *)
Restore(d) ==
    LET s == drv[d].event
        i == Latest(s)
        calls == Unrecorded(i)
        steers == TapedSteers(s)
        again == {r \in Others(s, steers) : i = 0 /\ input[r].started
                                        /\ input[r].kind = "message"}
    IN
    /\ drv[d].stage = "restoring"
    /\ i = 0 => MayWrite(d)
    /\ \E later \in SUBSET {r \in again : Deferred(r)} :
         /\ input' = Joined(again \ later)
         /\ Become(d, [drv[d] EXCEPT
              !.stage = IF Stops # {} THEN "finalizing"
                        ELSE IF i = 0 THEN "requesting"
                        ELSE IF calls # {} THEN "executing" ELSE "boundary",
              !.outcome = IF Stops # {} THEN "stopped" ELSE "none",
              !.round = i, !.calls = calls,
              !.results = [c \in Calls |->
                  IF c \in calls /\ c \in tape[i].receipts THEN "ok" ELSE "none"],
              !.steers = steers \cup (again \ later)])
    /\ UNCHANGED <<epoch, tape, gen, tasks, faults>>

-----------------------------------------------------------------------------
(* The model *)

(* Model.open/2: AIGateway inserts the generating response, with the round *)
(* state, in a transaction that checks the fence.                          *)
OpenModel(d) ==
    /\ drv[d].stage = "requesting" /\ MayWrite(d)
    /\ gen' = gen \cup {[input |-> drv[d].event, by |-> drv[d].epoch,
                         steers |-> drv[d].steers]}
    /\ Become(d, [drv[d] EXCEPT !.stage = "streaming"])
    /\ UNCHANGED <<epoch, input, tape, tasks, faults>>

(* AIGateway commits the terminal of a response that still generates,      *)
(* whatever became of its driver.  A driver whose stream is still open     *)
(* reads the response; the stream may also break at that moment.           *)
Streams(d, g) == drv[d].stage = "streaming" /\ drv[d].epoch = g.by

Response(g, calls) ==
    [input |-> g.input, steers |-> g.steers, calls |-> calls,
     done |-> FALSE, results |-> NoResults,
     receipts |-> {}, commits |-> [c \in Calls |-> 0], purged |-> {}]

ModelCommits(g, calls) ==
    /\ Len(tape) < MaxResponses
    /\ gen' = gen \ {g}
    /\ tape' = Append(tape, Response(g, calls))
    /\ \/ drv' = drv
       \/ \E d \in Drivers : Streams(d, g) /\ Become(d, [drv[d] EXCEPT
            !.stage = IF calls = {} THEN "boundary" ELSE "executing",
            !.round = Len(tape) + 1, !.calls = calls, !.results = NoResults])
    /\ UNCHANGED <<epoch, input, tasks, faults>>

ModelFails(g) ==
    /\ gen' = gen \ {g}
    /\ UNCHANGED <<epoch, input, tape, tasks, drv, faults>>

-----------------------------------------------------------------------------
(* Control-plane tools: Receipts.execute/4 *)

(* The advisory lock of (response_id, call_id) is held by one transaction. *)
Locked(i, c) == \E t \in tasks : t.round = i /\ t.call = c

WithResult(p, c, r) == [p EXCEPT !.results[c] = r]

(* The first half of the transaction, which does not lock the Session: the *)
(* epoch is current; a receipt is returned, else the operation prepares.   *)
ToolBegins(d, c) ==
    LET i == drv[d].round IN
    /\ drv[d].stage = "executing" /\ c \in drv[d].calls
    /\ drv[d].results[c] = "none"
    /\ ~Locked(i, c) /\ MayWrite(d)
    /\ IF c \in tape[i].receipts
       THEN Become(d, WithResult(drv[d], c, "ok")) /\ tasks' = tasks
       ELSE /\ tasks' = tasks \cup {[epoch |-> drv[d].epoch,
                    input |-> drv[d].event, round |-> i, call |-> c]}
            /\ drv' = drv
    /\ UNCHANGED <<durable, faults>>

(* The driver of a task takes its result while its round executes.         *)
Deliver(t, r) ==
    drv' = [d \in Drivers |->
              IF drv[d].epoch = t.epoch /\ drv[d].stage = "executing"
              THEN WithResult(drv[d], t.call, r) ELSE drv[d]]

(* Mutant of Committed: the driver keeps the receipt, once it is told.     *)
CommittedByDriver(t) ==
    [tape EXCEPT ![t.round].commits[t.call] = @ + 1,
                 ![t.round].receipts =
                    IF \E d \in Drivers : drv[d].epoch = t.epoch
                    THEN @ \cup {t.call} ELSE @]

(* The domain write and its receipt.                                       *)
WithReceipt(r, c) ==
    [r EXCEPT !.commits = [r.commits EXCEPT ![c] = @ + 1],
              !.receipts = @ \cup {c}]
Committed(t) == [tape EXCEPT ![t.round] = WithReceipt(tape[t.round], t.call)]

(* The second half: under the Session's lock the fence is checked and the  *)
(* domain write commits with its receipt.  The task can still die before   *)
(* its driver has the result, which is an error then.                      *)
ToolCommits(t) ==
    /\ Fenced(t.epoch, t.input)
    /\ tape' = Committed(t)
    /\ tasks' = tasks \ {t}
    /\ \E r \in {"ok", "error"} : Deliver(t, r)
    /\ UNCHANGED <<epoch, input, gen, faults>>

(* The operation fails, or the task dies: the transaction rolls back.      *)
ToolFails(t) ==
    /\ tasks' = tasks \ {t}
    /\ Deliver(t, "error")
    /\ UNCHANGED <<durable, faults>>

-----------------------------------------------------------------------------
(* The end of a round, of a turn and of an attempt *)

(* record_round_in_tx/1: the round's results go to the tape, its receipts  *)
(* go.                                                                     *)
Record(d) ==
    LET i == drv[d].round IN
    /\ drv[d].stage = "executing" /\ MayWrite(d)
    /\ \A c \in drv[d].calls : drv[d].results[c] # "none"
    /\ tape' = [tape EXCEPT ![i] = Recorded(tape[i], drv[d].results)]
    /\ Become(d, [drv[d] EXCEPT !.stage = "boundary", !.calls = {},
                                !.results = NoResults])
    /\ UNCHANGED <<epoch, input, gen, tasks, faults>>

(* inject_pending/2 and next_round/1: of the due inputs the driver has     *)
(* heard of, the messages before the first other one join the turn.        *)
Joining(heard) ==
    {s \in heard : \A r \in heard :
        r = s \/ Before(r, s) => input[r].kind = "message"}

Boundary(d) ==
    /\ drv[d].stage = "boundary" /\ MayWrite(d)
    /\ \E heard \in SUBSET Others(drv[d].event, drv[d].steers) :
         LET joins == Joining(heard) IN
         /\ input' = Joined(joins)
         /\ Become(d, IF tape[drv[d].round].calls # {} \/ joins # {}
              THEN [drv[d] EXCEPT !.steers = @ \cup joins,
                                  !.stage = "requesting"]
              ELSE [drv[d] EXCEPT !.stage = "finalizing",
                                  !.outcome = "loop_finished"])
    /\ UNCHANGED <<epoch, tape, gen, tasks, faults>>

(* Run.finalize/3.  After a stop the command itself is processed next.     *)
Finalize(d) ==
    LET s == drv[d].event
        o == drv[d].outcome
    IN
    /\ drv[d].stage = "finalizing" /\ MayWrite(d)
    /\ tape' = RecordPending(drv[d].round, drv[d].calls, drv[d].results)
    /\ input' = EndInputs(Applied(s, drv[d].steers, o), o)
    /\ gen' = Retracted(s, o)
    /\ tasks' = tasks \ TasksOf(d)
    /\ IF o = "stopped" /\ Stops # {}
       THEN \E c \in Stops : Become(d, At("control", c))
       ELSE Rebuilds(d)
    /\ UNCHANGED <<epoch, faults>>

(* Commands.process/2 of a stop: it only answers.                          *)
Control(d) ==
    LET s == drv[d].event IN
    /\ drv[d].stage = "control"
    /\ input' = EndInputs({s}, "stopped")
    /\ Rebuilds(d)
    /\ UNCHANGED <<epoch, tape, gen, tasks, faults>>

(* The stages in which a step of the run may fail.                         *)
Failing(d) ==
    /\ Running(d)
    /\ drv[d].stage \in {"waiting", "preparing", "restoring", "requesting",
                         "streaming", "executing", "boundary", "finalizing"}

(* A stream that ended without its response.                               *)
StreamLost(d) == drv[d].stage = "streaming" /\ \A g \in gen : ~Streams(d, g)

(* A retryable failure: Run.defer_retry/3 charges the attempt unless the   *)
(* provider lacked capacity, and wakes the Session when it is over.        *)
FailsRetryable(d) ==
    LET s == drv[d].event IN
    /\ Failing(d) /\ MayWrite(d)
    /\ \E n \in IF drv[d].stage = "waiting" THEN {0} ELSE {0, 1} :
         /\ input' = [input EXCEPT ![s].status = "queued", ![s].attempts = @ - n]
         /\ IF StreamLost(d) /\ n = 0 THEN Loss ELSE Fault
    /\ tasks' = tasks \ TasksOf(d)
    /\ Become(d, [drv[d] EXCEPT !.stage = "waiting", !.outcome = "none"])
    /\ UNCHANGED <<epoch, tape, gen>>

(* Any other failure ends the turn; tool tasks run on.                     *)
FailsForGood(d) ==
    /\ Failing(d) /\ drv[d].outcome # "dead_letter"
    /\ IF StreamLost(d) THEN faults' = faults ELSE Fault
    /\ Become(d, [drv[d] EXCEPT !.stage = "finalizing",
                             !.outcome = "dead_letter"])
    /\ UNCHANGED <<durable, tasks>>

(* A stop arrives, from intake or again from the reconciler, in the stages *)
(* that do not postpone the mailbox: it interrupts the run.                *)
Interrupt(d) ==
    /\ drv[d].stage \in {"waiting", "requesting", "streaming", "executing",
                         "boundary"}
    /\ IF Running(d)
       THEN /\ Stops # {}
            /\ Become(d, [drv[d] EXCEPT !.stage = "finalizing",
                                        !.outcome = "stopped"])
            /\ tasks' = tasks \ TasksOf(d)
       ELSE /\ \E c \in Stops : Become(d, At("control", c))
            /\ tasks' = tasks
    /\ UNCHANGED <<durable, faults>>

-----------------------------------------------------------------------------
(* The end of a driver *)

Refunded(s) ==
    IF Open(s) /\ input[s].attempts > 0
    THEN [input EXCEPT ![s].attempts = @ - 1] ELSE input

(* A fenced write finds another epoch or a closed input: stale_driver and  *)
(* run_closed stop the driver.  The successor's admission is refunded.     *)
Rejected(d) ==
    /\ Failing(d) /\ ~MayWrite(d)
    /\ input' = IF epoch > drv[d].epoch THEN Refunded(drv[d].event) ELSE input
    /\ tasks' = tasks \ TasksOf(d)
    /\ Become(d, Down)
    /\ UNCHANGED <<epoch, tape, gen, faults>>

(* An orphaned tool transaction is rejected the same way.                  *)
TaskRejected(t) ==
    /\ ~Fenced(t.epoch, t.input)
    /\ tasks' = tasks \ {t}
    /\ UNCHANGED <<durable, drv, faults>>

(* terminate/3 on a shutdown of the node refunds the attempt it cuts off.  *)
Shutdown(d) ==
    /\ d \in Up /\ Fault
    /\ input' = IF /\ Running(d) /\ epoch = drv[d].epoch
                   /\ drv[d].stage # "waiting"
                THEN Refunded(drv[d].event) ELSE input
    /\ tasks' = tasks \ TasksOf(d)
    /\ Become(d, Down)
    /\ UNCHANGED <<epoch, tape, gen>>

(* The process is killed, or its node dies: then its tool tasks die too.   *)
Kill(d) ==
    /\ d \in Up /\ Fault
    /\ tasks' \in {tasks, tasks \ TasksOf(d)}
    /\ Become(d, Down)
    /\ UNCHANGED durable

(* An idle driver leaves after five minutes.                               *)
Retire(d) ==
    /\ drv[d].stage = "idle"
    /\ Become(d, Down)
    /\ UNCHANGED <<durable, tasks, faults>>

-----------------------------------------------------------------------------

Advance(d) ==
    \/ Rebuild(d) \/ Admit(d) \/ Exhaust(d) \/ AdmitOther(d)
    \/ Reclaim(d) \/ Restore(d) \/ OpenModel(d)
    \/ Record(d) \/ Boundary(d) \/ Finalize(d) \/ Control(d) \/ Rejected(d)

Disturb(d) ==
    \/ AdmitCapacity(d)
    \/ FailsRetryable(d) \/ FailsForGood(d)
    \/ Shutdown(d) \/ Kill(d) \/ Retire(d)

Next ==
    \/ \E s \in Inputs : \E kind \in Kinds[s] : Accept(s, kind)
    \/ \E d \in Drivers : EnsureDriver(d) \/ Advance(d) \/ Interrupt(d) \/ Disturb(d)
    \/ \E d \in Drivers, c \in Calls : ToolBegins(d, c)
    \/ \E g \in gen : ModelFails(g) \/ \E calls \in SUBSET Calls : ModelCommits(g, calls)
    \/ \E t \in tasks : ToolCommits(t) \/ ToolFails(t) \/ TaskRejected(t)

Spec == Init /\ [][Next]_vars

StreamFails(d) == StreamLost(d) /\ (FailsRetryable(d) \/ FailsForGood(d))

(* A driver finds an input that is due.                                    *)
TakesInput(d) ==
    /\ EnsureDriver(d) \/ Rebuild(d)
    /\ drv'[d].stage # "idle"

(* What a driver does next by itself, and the end of what it has started.  *)
Step(d) ==
    \/ Advance(d) \/ Interrupt(d) \/ StreamFails(d)
    \/ \E c \in Calls : ToolBegins(d, c)
StartedEnds ==
    \/ \E g \in gen : ModelCommits(g, {}) \/ ModelFails(g)
    \/ \E t \in tasks : ToolCommits(t) \/ ToolFails(t) \/ TaskRejected(t)

(* Drivers go on, and started work ends.  Backoffs end, so an input that   *)
(* is looked for again and again is found due once, and the admission or   *)
(* the answer behind it is reached.                                        *)
Fairness ==
    /\ WF_vars(\E d \in Drivers : Step(d))
    /\ WF_vars(StartedEnds)
    /\ SF_vars(\E d \in Drivers : TakesInput(d))
    /\ SF_vars(\E d \in Drivers : Admit(d) \/ Exhaust(d) \/ Control(d))
FairSpec == Spec /\ Fairness

-----------------------------------------------------------------------------

TypeOK ==
    /\ epoch \in Nat
    /\ input \in [Inputs -> [kind : {"message", "task", "stop"}, status : Statuses,
            attempts : Int, started : BOOLEAN]]
    /\ tape \in Seq([input : Inputs, steers : SUBSET Inputs,
            calls : SUBSET Calls, done : BOOLEAN, results : [Calls -> Results],
            receipts : SUBSET Calls, commits : [Calls -> Nat],
            purged : SUBSET Calls])
    /\ gen \subseteq [input : Inputs, by : Nat, steers : SUBSET Inputs]
    /\ tasks \subseteq [epoch : Nat, input : Inputs, round : Nat, call : Calls]
    /\ drv \in [Drivers -> [stage : Stages, event : Inputs \cup {0},
            epoch : Nat, round : Nat,
            calls : SUBSET Calls, results : [Calls -> Results],
            steers : SUBSET Inputs, outcome : Outcomes]]
    /\ faults \in [steps : Nat, streams : Nat]

(* receipts.ex, moduledoc: a takeover recovers committed writes without    *)
(* repeating them.                                                         *)
EffectsOnce == \A i \in 1 .. Len(tape), c \in Calls : tape[i].commits[c] <= 1

(* What the code keeps of it: the domain write of a call commits twice     *)
(* only after the end of another input has deleted its receipt.            *)
OnceWhileKept ==
    \A i \in 1 .. Len(tape), c \in Calls :
        tape[i].commits[c] > 1 => c \in tape[i].purged

(* The journal of a round says what became of each call: "ok" is a write   *)
(* that committed, and "interrupted" (its result is unknown) is never one  *)
(* whose receipt was there to be read.                                     *)
JournalTruthful ==
    \A i \in 1 .. Len(tape), c \in Calls : tape[i].done =>
        /\ tape[i].results[c] = "ok" => tape[i].commits[c] > 0
        /\ tape[i].results[c] = "interrupted" =>
              tape[i].commits[c] = 0 \/ c \in tape[i].purged

(* The driver that holds the epoch works from what is durable: its round   *)
(* is the newest response, is its input's and is not journaled, and every  *)
(* result it holds as a success has its receipt.                           *)
CurrentViewExact ==
    \A d \in Drivers : LET r == drv[d] IN
        r.stage = "executing" /\ MayWrite(d) =>
            /\ r.round = Len(tape) /\ tape[r.round].input = r.event
            /\ ~tape[r.round].done /\ r.calls = tape[r.round].calls
            /\ \A c \in r.calls : r.results[c] = "ok" => c \in tape[r.round].receipts

(* An ended input stays ended.  An input that only joined a run ends with  *)
(* it when a response on the tape has answered it or a stop ended the run; *)
(* the run's own input may also be given up, and a command is answered.    *)
Ended(status) == status \in {"completed", "dead_letter"}
Answered(s) == \E i \in 1 .. Len(tape) : s = tape[i].input \/ s \in tape[i].steers
GivenUp(s) ==
    \E d \in Drivers : drv[d].event = s /\ drv[d].stage \in {"waiting", "finalizing"}
Stopped(s) ==
    \E d \in Drivers :
        /\ drv[d].stage = "finalizing" /\ drv[d].outcome = "stopped" /\ MayWrite(d)
        /\ s = drv[d].event \/ s \in drv[d].steers

EndsWithCause(s) ==
    /\ Ended(input[s].status) => input'[s].status = input[s].status
    /\ Ended(input'[s].status) /\ ~Ended(input[s].status) =>
          \/ input[s].kind = "stop" \/ Answered(s) \/ Stopped(s)
          \/ input'[s].status = "dead_letter" /\ GivenUp(s)
NoSilentEnd == [][\A s \in Inputs : EndsWithCause(s)]_vars

(* Every accepted input ends, through lost jobs and hints, kills, splits   *)
(* and retries.                                                            *)
InputsEnd == \A s \in Inputs :
    input[s].status # "absent" ~> Ended(input[s].status)
=============================================================================
