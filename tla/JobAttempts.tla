----------------------------- MODULE JobAttempts -----------------------------
(***************************************************************************)
(* One Background Agent Job and the Worker that executes its attempts.     *)
(*                                                                         *)
(* The control plane keeps the Job, the Signals of its session (the        *)
(* dispatch, then steers) and the Worker's row.  A driver claims an        *)
(* attempt for the oldest open Signal, takes a slot on the row, and tells  *)
(* the Worker to start it.  The count of free slots on the row is whatever *)
(* the last heartbeat wrote over it, so placement may always find one.     *)
(* The Worker decides alone whether it has room, asks whether the attempt  *)
(* is still the current one, retires older attempts of the Job, executes,  *)
(* and reports.  Nothing is locked across the connection: messages are     *)
(* lost with it, answers are lost, and either side may act on what the     *)
(* other has replaced.                                                     *)
(*                                                                         *)
(* A transaction locks the Worker's row and the Job, so it is one action.  *)
(***************************************************************************)
EXTENDS Integers, Sequences, FiniteSets, FiniteSetsExt

CONSTANTS
    MaxSlots,      \* maxConcurrentSlots of the Worker
    MaxClaims,     \* attempts a Job may claim
    MaxFailures,   \* charged failures after which its dispatch is given up
    Outcomes,      \* what an execution may report: a subset of waiting, succeeded, failed
    Failures,      \* how one may fail: a subset of infra, charged, final
    MaxSteers,     \* bound: messages to the Job
    MaxFaults,     \* bound: crashes, stalls, drains, lost connections and answers
    MaxInbox       \* bound: messages on their way to the Worker

ASSUME SlotsAssumption == MaxSlots \in Nat \ {0}
ASSUME ClaimsAssumption == MaxClaims \in Nat
ASSUME BoundsAssumption ==
    /\ MaxFailures \in Nat /\ MaxSteers \in Nat
    /\ MaxFaults \in Nat /\ MaxInbox \in Nat
ASSUME ReportsAssumption ==
    /\ Outcomes \subseteq {"waiting", "succeeded", "failed"}
    /\ Failures \subseteq {"infra", "charged", "final"}

Attempts == 1 .. MaxClaims
Steers == 1 .. MaxSteers
(* The Signals of the Job's session by queue_sequence; 0 is the dispatch.  *)
Signals == 0 .. MaxSteers
Terminal == {"succeeded", "failed", "stopped"}
Waiting == {"queued", "waiting"}

VARIABLES
    job,       \* the Job row; trigger: the Signal its last attempt was claimed for
    input,     \* the Signals
    driver,    \* the JobDriver process, its attempt, and its task that sends a start
    row,       \* the state of the Worker's row
    inbox,     \* control plane to Worker
    worker,    \* the process: connection, draining, slots in use, those of others
    turn,      \* its Turns, by attempt
    calls,     \* terminal RPCs not answered yet, and stalls the watchdog found
    launched,  \* the attempts that were executed
    dropped,   \* those an abort of which failed while they were the current one
    faults

plane == <<job, input, driver>>
(* Nothing but the properties reads these two.                             *)
history == <<launched, dropped>>
vars == <<job, input, driver, row, inbox, worker, turn, calls,
          launched, dropped, faults>>

Idle == [phase |-> "idle", n |-> 0, conn |-> 0, mode |-> "start",
         sending |-> FALSE, dirty |-> FALSE]
NoTurn == [phase |-> "none", stop |-> FALSE, over |-> FALSE, donor |-> 0,
           ack |-> "none", wait |-> {}, reply |-> "none"]
(* executionStarted                                                        *)
Running == {"executing", "reporting"}

Init ==
    /\ job = [status |-> "queued", attempts |-> 0, failures |-> 0, trigger |-> 0]
    /\ input = [s \in Signals |-> IF s = 0 THEN "open" ELSE "absent"]
    /\ driver = Idle
    /\ row = "ready"
    /\ inbox = <<>>
    /\ worker = [up |-> TRUE, conn |-> 1, drain |-> FALSE, used |-> 0, other |-> 0]
    /\ turn = [n \in Attempts |-> NoTurn]
    /\ calls = {}
    /\ launched = {} /\ dropped = {}
    /\ faults = 0

-----------------------------------------------------------------------------
Open == {s \in Signals : input[s] = "open"}
(* oldest_open/2: a Job's session has no priorities.                       *)
Oldest == Min(Open)
Close(S) == [s \in Signals |->
                IF s \in S /\ input[s] = "open" THEN "closed" ELSE input[s]]
(* authorize_turn_in_tx/4 for a :read or :write                            *)
Live(n) == job.status = "running" /\ job.attempts = n
Present == {n \in Attempts : turn[n].phase # "none"}
Older(n) == {m \in Present : m < n}

(* TurnControl.dispatch/1 after the commit: once, and it may not arrive.   *)
Control(n) ==
    \/ inbox' = inbox
    \/ worker.up /\ Len(inbox) < MaxInbox
       /\ inbox' = Append(inbox, [kind |-> "stop", n |-> n])

-----------------------------------------------------------------------------
(* The driver: rebuild/2, then admit/3, in one transaction each; the       *)
(* second takes only the Signal that is still the oldest open one.         *)
DriverStart ==
    /\ driver.phase = "down"
    /\ driver' = Idle
    /\ UNCHANGED <<job, input, row, inbox, worker, turn, calls, history, faults>>

Admits == driver.phase = "idle" /\ Open # {}

(* The Job has ended: its oldest Signal is completed.                      *)
AdmitTerminal ==
    /\ Admits /\ job.status \in Terminal
    /\ input' = Close({Oldest})
    /\ UNCHANGED <<job, driver, row, inbox, worker, turn, calls, history, faults>>

(* start/1 for an attempt on the connection of the day.  A start in flight *)
(* is of another connection: it reaches nobody, and when it ends the new   *)
(* one is sent.                                                            *)
Drives(n, mode) ==
    driver' = [phase |-> "starting", n |-> n, conn |-> worker.conn, mode |-> mode,
               sending |-> FALSE, dirty |-> driver.sending \/ driver.dirty]

(* A running attempt is adopted on the connection of the day.              *)
AdmitAdopt ==
    /\ Admits /\ job.status = "running" /\ worker.up
    /\ Drives(job.attempts, "adopt")
    /\ UNCHANGED <<job, input, row, inbox, worker, turn, calls, history, faults>>

(* reserve_slot_in_tx/1                                                    *)
MayPlace == worker.up /\ row = "ready"

(* Mutant of Claimable: one claim too many.                                *)
ClaimableOnceMore ==
    /\ job.attempts <= MaxClaims
    /\ Oldest = 0 => job.status = "queued" /\ job.failures < MaxFailures

(* claim_attempt/4 for the dispatch, claim_continuation/4 for a steer      *)
Claimable ==
    /\ job.attempts < MaxClaims
    /\ Oldest = 0 => job.status = "queued" /\ job.failures < MaxFailures

AdmitStart ==
    /\ Admits /\ job.status \in Waiting /\ MayPlace /\ Claimable
    /\ job' = [job EXCEPT !.status = "running", !.attempts = @ + 1, !.trigger = Oldest]
    /\ Drives(job.attempts + 1, "start")
    /\ UNCHANGED <<input, row, inbox, worker, turn, calls, history, faults>>

(* A budget is used up; for a steer it may be that of consecutive Turn     *)
(* failures.  The Job fails now, its trigger is completed by the next      *)
(* transaction: here by AdmitTerminal.                                     *)
AdmitExhausted ==
    /\ Admits /\ job.status \in Waiting /\ MayPlace
    /\ \/ job.attempts = MaxClaims
       \/ Oldest = 0 /\ job.failures = MaxFailures
       \/ Oldest # 0 /\ job.attempts > 0
    /\ job' = [job EXCEPT !.status = "failed"]
    /\ input' = Close(Steers)
    /\ UNCHANGED <<driver, row, inbox, worker, turn, calls, history, faults>>

(* reject_admission_in_tx/5, and the end of a queued Job's wait for its    *)
(* Worker: resolve_timeout_in_tx/3.                                        *)
RejectJob ==
    /\ Admits /\ job.status \in Waiting
    /\ job' = [job EXCEPT !.status = "failed"]
    /\ input' = Close({Oldest} \cup Steers)
    /\ UNCHANGED <<driver, row, inbox, worker, turn, calls, history, faults>>

(* Mutant of RejectSteer: the Job may have been claimed meanwhile.         *)
RejectSteerLate ==
    /\ Admits /\ job.status \in Waiting \cup {"running"} /\ Oldest # 0
    /\ input' = Close({Oldest})
    /\ UNCHANGED <<job, driver, row, inbox, worker, turn, calls, history, faults>>

(* A revoked steer, or a waiting Job whose Worker does not come: only the  *)
(* steer is dead-lettered.                                                 *)
RejectSteer ==
    /\ Admits /\ job.status \in Waiting /\ Oldest # 0
    /\ input' = Close({Oldest})
    /\ UNCHANGED <<job, driver, row, inbox, worker, turn, calls, history, faults>>

(* start/1: a task that checks the attempt and then sends.                 *)
StartTask ==
    /\ driver.phase = "starting" /\ ~driver.sending /\ ~driver.dirty /\ Live(driver.n)
    /\ driver' = [driver EXCEPT !.sending = TRUE]
    /\ UNCHANGED <<job, input, row, inbox, worker, turn, calls, history, faults>>

(* send_mandatory/2, to the connection of the attempt.  One such task runs *)
(* at a time: a poll that asks for a start before its end marks it         *)
(* (start_dirty), which nobody else sees until then.                       *)
SendStart ==
    /\ driver.sending
    /\ \E marked \in {FALSE, Live(driver.n) /\ worker.up /\ driver.conn = worker.conn} :
          driver' = [driver EXCEPT !.sending = FALSE, !.dirty = marked]
    /\ IF worker.up /\ driver.conn = worker.conn
       THEN /\ Len(inbox) < MaxInbox
            /\ inbox' = Append(inbox, [kind |-> driver.mode, n |-> driver.n])
       ELSE inbox' = inbox
    /\ UNCHANGED <<job, input, row, worker, turn, calls, history, faults>>

(* The end of a marked start starts again, though the attempt may be       *)
(* running by now; the end of another changes nothing.                     *)
StartEnds ==
    /\ driver.dirty
    /\ driver' = [driver EXCEPT !.phase = "starting", !.dirty = FALSE]
    /\ UNCHANGED <<job, input, row, inbox, worker, turn, calls, history, faults>>

(* observe/1                                                               *)
Observes == driver.phase \in {"starting", "running"}

ObserveFinished ==
    /\ Observes /\ ~Live(driver.n)
    /\ driver' = Idle
    /\ UNCHANGED <<job, input, row, inbox, worker, turn, calls, history, faults>>

(* Mutant of ObserveAdopt: a new connection gets the start again.          *)
ObserveAgain ==
    /\ Observes /\ Live(driver.n) /\ worker.up /\ driver.conn # worker.conn
    /\ Drives(driver.n, "start")
    /\ UNCHANGED <<job, input, row, inbox, worker, turn, calls, history, faults>>

ObserveAdopt ==
    /\ Observes /\ Live(driver.n) /\ worker.up /\ driver.conn # worker.conn
    /\ Drives(driver.n, "adopt")
    /\ UNCHANGED <<job, input, row, inbox, worker, turn, calls, history, faults>>

DriverCrash ==
    /\ faults < MaxFaults /\ driver.phase # "down"
    /\ faults' = faults + 1
    /\ driver' = [Idle EXCEPT !.phase = "down"]
    /\ UNCHANGED <<job, input, row, inbox, worker, turn, calls, history>>

-----------------------------------------------------------------------------
(* The owner of the Job                                                    *)
Message ==
    /\ job.status \notin Terminal
    /\ \E s \in Steers :
        /\ \A r \in Steers : input[r] = "absent" <=> r >= s
        /\ input' = [input EXCEPT ![s] = "open"]
    /\ UNCHANGED <<job, driver, row, inbox, worker, turn, calls, history, faults>>

(* request_stop_locked_in_tx/3: the Signals of a running Job stay open.    *)
Stop ==
    /\ job.status \notin Terminal
    /\ job' = [job EXCEPT !.status = "stopped"]
    /\ IF job.status = "running"
       THEN input' = input /\ Control(job.attempts)
       ELSE input' = Close(Signals) /\ inbox' = inbox
    /\ UNCHANGED <<driver, row, worker, turn, calls, history, faults>>

(* request_complete_in_tx/2 closes the steers and leaves the dispatch.     *)
ExternalComplete ==
    /\ job.status \notin Terminal
    /\ job' = [job EXCEPT !.status = "succeeded"]
    /\ input' = Close(Steers)
    /\ IF job.status = "running" THEN Control(job.attempts) ELSE inbox' = inbox
    /\ UNCHANGED <<driver, row, worker, turn, calls, history, faults>>

-----------------------------------------------------------------------------
(* Terminal writes                                                         *)
Call(op, n, what, applied) == [op |-> op, n |-> n, what |-> what, applied |-> applied]

Watched == Observes /\ job.status = "running" /\ Open # {}
Stalls(what) ==
    /\ calls' = calls \cup {Call("stall", job.attempts, what, {})}
    /\ UNCHANGED <<job, input, driver, row, inbox, worker, turn, history>>

(* The driver has seen the attempt accepted, and nobody is at work on it.  *)
Deserted == driver.phase = "running" /\ turn[job.attempts].phase = "none"

(* Mutant of StallIdle: the activity of a Turn's row alone, without the    *)
(* claim time.                                                             *)
StallStarted(what) ==
    /\ Watched /\ Deserted /\ job.attempts \in launched
    /\ Stalls(what)
    /\ UNCHANGED faults

(* inspect_stall_in_tx/2, before each observation, ends before the abort   *)
(* begins.  Without anybody at work the hour without progress passes.      *)
StallIdle(what) ==
    /\ Watched /\ Deserted
    /\ Stalls(what)
    /\ UNCHANGED faults

(* A Turn, a start or a connection may also take that long.                *)
StallSlow(what) ==
    /\ Watched /\ ~Deserted /\ faults < MaxFaults
    /\ Stalls(what)
    /\ faults' = faults + 1

(* Who made the call waits for its answer and repeats it.                  *)
Awaits(c) ==
    \/ c.op = "reject"
    \/ c.op = "report" /\ turn[c.n].phase = "reporting"
    \/ c.op = "abort" /\ turn[c.n].phase = "aborting"

Answer(c, reply) ==
    \/ /\ calls' = calls \ {c}
       /\ turn' = IF c.op # "reject" /\ Awaits(c)
                  THEN [turn EXCEPT ![c.n].reply = reply] ELSE turn
       /\ faults' = faults
    \/ /\ faults < MaxFaults /\ Awaits(c)
       /\ faults' = faults + 1
       /\ UNCHANGED <<calls, turn>>

(* commit_status_after_runtime_prefix_in_tx/7: a report that comes again   *)
(* is answered as before.  A waiting Job keeps the steers that were not    *)
(* applied, an ended one closes all (a success moves them to a successor). *)
Reported(c) ==
    /\ job' = [job EXCEPT !.status = c.what]
    /\ input' = Close({job.trigger} \cup c.applied
                      \cup (IF c.what = "waiting" THEN {} ELSE Steers))

HandleReport(c) ==
    /\ c.op = "report"
    /\ \/ Live(c.n) /\ Reported(c) /\ Answer(c, "ok")
       \/ Live(c.n) /\ UNCHANGED <<job, input>> /\ Answer(c, "refused")
       \/ /\ ~Live(c.n)
          /\ UNCHANGED <<job, input>>
          /\ Answer(c, IF job.attempts = c.n /\ job.status = c.what
                       THEN "ok" ELSE "refused")
    /\ UNCHANGED <<driver, row, inbox, worker, history>>

(* abort_attempt_in_tx/4: a retryable failure returns the Job to queued,   *)
(* any other ends it.                                                      *)
Aborted(what) ==
    IF what = "final"
    THEN job' = [job EXCEPT !.status = "failed"] /\ input' = Close(Signals)
    ELSE /\ job' = [job EXCEPT !.status = "queued",
                               !.failures = IF what = "charged" THEN @ + 1 ELSE @]
         /\ input' = input

HandleAbort(c) ==
    /\ c.op # "report"
    /\ IF Live(c.n) THEN Aborted(c.what) ELSE UNCHANGED <<job, input>>
    /\ Answer(c, IF job.attempts = c.n THEN "ok" ELSE "refused")
    /\ IF c.op = "stall" /\ job.attempts = c.n THEN Control(c.n) ELSE inbox' = inbox
    /\ UNCHANGED <<driver, row, worker, history>>

(* The handler fails and the Job stays as it is.  The Worker takes the     *)
(* error for the last word and releases the Turn; a rejection and a stall  *)
(* are only logged.                                                        *)
AbortFails(c) ==
    /\ c.op # "report" /\ faults < MaxFaults
    /\ calls' = calls \ {c}
    /\ faults' = faults + 1
    /\ IF c.op = "abort" /\ Awaits(c)
       THEN /\ turn' = [turn EXCEPT ![c.n].reply = "refused"]
            /\ dropped' = IF Live(c.n) THEN dropped \cup {c.n} ELSE dropped
       ELSE UNCHANGED <<turn, dropped>>
    /\ UNCHANGED <<job, input, driver, row, inbox, worker, launched>>

Handle(n) ==
    \E c \in calls : c.n = n /\ (HandleReport(c) \/ HandleAbort(c) \/ AbortFails(c))

-----------------------------------------------------------------------------
(* The Worker's receive loop                                               *)
Received(m) == inbox # <<>> /\ m = Head(inbox) /\ inbox' = Tail(inbox)

(* start/1 for a key it has, confirm/1: a second acceptance while the Turn *)
(* executes; one that is being accepted, stopped or aborted needs none.    *)
ReceiveAgain(m) ==
    /\ m.kind # "stop" /\ m.n \in Present
    /\ turn' = IF turn[m.n].phase \in Running /\ turn[m.n].ack = "none" /\ ~turn[m.n].stop
               THEN [turn EXCEPT ![m.n].ack = "sent"] ELSE turn
    /\ UNCHANGED <<worker, calls>>

Donors(n) == {m \in Older(n) : ~turn[m].over}
Accepts(m) == m.kind = "start" /\ m.n \notin Present /\ ~worker.drain
Confirming == [NoTurn EXCEPT !.phase = "confirming", !.ack = "sent"]

(* Mutant of ReceiveNew: the placement has made sure of a slot.            *)
ReceivePlaced(m) ==
    /\ Accepts(m)
    /\ worker' = [worker EXCEPT !.used = @ + 1]
    /\ turn' = [turn EXCEPT ![m.n] = Confirming]
    /\ UNCHANGED calls

(* A free slot; or, when workspaces and Turns of other Jobs use the rest,  *)
(* that of an older attempt of the same Job.                               *)
ReceiveNew(m) ==
    /\ Accepts(m)
    /\ \/ /\ worker.used < MaxSlots
          /\ worker' = [worker EXCEPT !.used = @ + 1]
          /\ turn' = [turn EXCEPT ![m.n] = Confirming]
       \/ /\ worker.used = MaxSlots
          /\ \E d \in Donors(m.n) :
                turn' = [turn EXCEPT ![d].over = TRUE,
                                     ![m.n] = [Confirming EXCEPT !.donor = d]]
          /\ UNCHANGED worker
    /\ UNCHANGED calls

(* job_attempt_unknown, worker_draining, worker_busy                       *)
ReceiveRefused(m) ==
    /\ m.kind # "stop" /\ m.n \notin Present
    /\ Accepts(m) => worker.used = MaxSlots /\ Donors(m.n) = {}
    /\ calls' = calls \cup {Call("reject", m.n, "infra", {})}
    /\ UNCHANGED <<worker, turn>>

(* control/1                                                               *)
ReceiveStop(m) ==
    /\ m.kind = "stop"
    /\ turn' = IF m.n \in Present THEN [turn EXCEPT ![m.n].stop = TRUE] ELSE turn
    /\ UNCHANGED <<worker, calls>>

Receive ==
    /\ \E m \in {inbox[i] : i \in 1 .. Len(inbox)} :
        /\ Received(m)
        /\ ReceiveAgain(m) \/ ReceiveNew(m) \/ ReceiveRefused(m) \/ ReceiveStop(m)
    /\ UNCHANGED <<plane, row, history, faults>>

-----------------------------------------------------------------------------
(* A Turn, from its acceptance to its release                              *)

(* turn_accepted reaches the control plane, which checks the attempt and   *)
(* tells the driver.                                                       *)
ConfirmArrives(n) ==
    /\ turn[n].ack = "sent" /\ worker.up
    /\ turn' = [turn EXCEPT ![n].ack = IF Live(n) THEN "ok" ELSE "refused"]
    /\ driver' = IF Live(n) /\ driver.phase = "starting" /\ driver.n = n
                 THEN [driver EXCEPT !.phase = "running"] ELSE driver
    /\ UNCHANGED <<job, input, row, inbox, worker, calls, history, faults>>

(* confirmAndLaunch/1, and stopOlderAttempts/1 up to its wait              *)
AckArrives(n) ==
    /\ turn[n].ack \in {"ok", "refused"}
    /\ IF turn[n].ack = "refused"
       THEN turn' = [turn EXCEPT ![n].ack = "none", ![n].stop = TRUE]
       ELSE IF turn[n].phase = "confirming" /\ ~turn[n].stop
       THEN turn' = [m \in Attempts |->
                CASE m = n -> [turn[m] EXCEPT !.phase = "retiring", !.ack = "none",
                                              !.wait = Older(n)]
                  [] m \in Older(n) -> [turn[m] EXCEPT !.stop = TRUE]
                  [] OTHER -> turn[m]]
       ELSE turn' = [turn EXCEPT ![n].ack = "none"]
    /\ UNCHANGED <<plane, row, inbox, worker, calls, history, faults>>

(* Mutant of Launch: older attempts are told to stop, not waited for.      *)
LaunchAtOnce(n) ==
    /\ turn[n].phase = "retiring" /\ ~turn[n].stop
    /\ turn' = [turn EXCEPT ![n].phase = "executing"]
    /\ launched' = launched \cup {n}
    /\ UNCHANGED <<plane, row, inbox, worker, calls, dropped, faults>>

(* executionStarted, when the older attempts have ended                    *)
Launch(n) ==
    /\ turn[n].phase = "retiring" /\ turn[n].wait = {} /\ ~turn[n].stop
    /\ turn' = [turn EXCEPT ![n].phase = "executing"]
    /\ launched' = launched \cup {n}
    /\ UNCHANGED <<plane, row, inbox, worker, calls, dropped, faults>>

(* The steers applied are among those the mailbox has delivered.           *)
Report(n) ==
    /\ turn[n].phase = "executing" /\ ~turn[n].stop
    /\ turn' = [turn EXCEPT ![n].phase = "reporting"]
    /\ \E what \in Outcomes,
          applied \in SUBSET {s \in Open \cap Steers : s > job.trigger} :
          calls' = calls \cup {Call("report", n, what, applied)}
    /\ UNCHANGED <<plane, row, inbox, worker, history, faults>>

(* abortTurnWithAck/4 for a failed acceptance or execution; its calls go   *)
(* on after a stop.                                                        *)
Fail(n) ==
    /\ ~turn[n].stop
    /\ \/ /\ turn[n].phase \in {"confirming", "executing"}
          /\ \E what \in Failures :
                calls' = calls \cup {Call("abort", n, what, {})}
       \/ /\ turn[n].phase = "reporting" /\ turn[n].reply = "refused"
          /\ calls' = calls \cup {Call("abort", n, "final", {})}
    /\ turn' = [turn EXCEPT ![n].phase = "aborting", ![n].ack = "none", ![n].reply = "none"]
    /\ UNCHANGED <<plane, row, inbox, worker, history, faults>>

(* A checkpoint of an attempt that is not the current one is refused.      *)
ProgressRefused(n) ==
    /\ turn[n].phase \in Running /\ ~turn[n].stop /\ worker.up /\ ~Live(n)
    /\ turn' = [turn EXCEPT ![n].stop = TRUE]
    /\ UNCHANGED <<plane, row, inbox, worker, calls, history, faults>>

Ended(t) ==
    \/ t.stop /\ t.phase \in {"confirming", "executing", "reporting"}
    \/ t.stop /\ t.phase = "retiring" /\ t.wait = {}
    \/ t.phase = "reporting" /\ t.reply = "ok"
    \/ t.phase = "aborting" /\ t.reply # "none"

(* release/1: the slot goes to the Turn that uses it, else back to the     *)
(* Turn it came from, else to the Worker.                                  *)
Release(n) ==
    LET t == turn[n]
        heirs == {m \in Present : t.over /\ turn[m].donor = n}
        back == {t.donor} \cap Present
    IN  /\ Ended(t)
        /\ turn' = [m \in Attempts |->
             IF m = n THEN NoTurn
             ELSE [turn[m] EXCEPT
                    !.wait = @ \ {n},
                    !.donor = IF m \in heirs THEN (IF back = {} THEN 0 ELSE t.donor) ELSE @,
                    !.over = IF heirs = {} /\ m \in back THEN FALSE ELSE @]]
        /\ worker' = IF heirs = {} /\ back = {}
                     THEN [worker EXCEPT !.used = @ - 1] ELSE worker
        /\ UNCHANGED <<plane, row, inbox, calls, history, faults>>

-----------------------------------------------------------------------------
(* The process and its connection                                          *)

(* Workspaces and Turns of other Jobs                                      *)
OtherStarts ==
    /\ ~worker.drain /\ worker.used < MaxSlots /\ faults < MaxFaults
    /\ worker' = [worker EXCEPT !.used = @ + 1, !.other = @ + 1]
    /\ faults' = faults + 1
    /\ UNCHANGED <<plane, row, inbox, turn, calls, history>>

OtherEnds ==
    /\ worker.other > 0
    /\ worker' = [worker EXCEPT !.used = @ - 1, !.other = @ - 1]
    /\ UNCHANGED <<plane, row, inbox, turn, calls, history, faults>>

(* beginDrain/0 stops the Turns that have not started to execute.          *)
DrainBegins ==
    /\ ~worker.drain /\ faults < MaxFaults
    /\ worker' = [worker EXCEPT !.drain = TRUE]
    /\ turn' = [n \in Attempts |->
                 IF turn[n].phase \in {"confirming", "retiring"}
                 THEN [turn[n] EXCEPT !.stop = TRUE] ELSE turn[n]]
    /\ faults' = faults + 1
    /\ UNCHANGED <<plane, row, inbox, calls, history>>

ReportDrain ==
    /\ worker.drain /\ worker.up /\ row = "ready"
    /\ row' = "draining"
    /\ UNCHANGED <<plane, inbox, worker, turn, calls, history, faults>>

(* The route of a draining row is gone, the row stays draining.  A Turn    *)
(* whose answer was lost confirms again.                                   *)
ConnectionLost ==
    /\ worker.up /\ faults < MaxFaults
    /\ faults' = faults + 1
    /\ worker' = [worker EXCEPT !.up = FALSE]
    /\ row' = IF row = "ready" THEN "stale" ELSE row
    /\ inbox' = <<>>
    /\ turn' = [n \in Attempts |->
                 IF turn[n].ack = "none" THEN turn[n] ELSE [turn[n] EXCEPT !.ack = "sent"]]
    /\ UNCHANGED <<plane, calls, history>>

(* admit_join/2: a draining row admits no process.                         *)
Join ==
    /\ ~worker.up /\ row = "stale"
    /\ worker' = [worker EXCEPT !.up = TRUE, !.conn = @ + 1]
    /\ row' = "ready"
    /\ UNCHANGED <<plane, inbox, turn, calls, history, faults>>

(* A new process of the next generation; calls that were sent may still    *)
(* be handled, but nobody repeats them.                                    *)
NewProcess ==
    /\ worker' = [up |-> FALSE, conn |-> worker.conn, drain |-> FALSE, used |-> 0, other |-> 0]
    /\ row' = "stale"
    /\ turn' = [n \in Attempts |-> NoTurn]
    /\ inbox' = <<>>
    /\ UNCHANGED <<plane, history>>

Sent(c) == IF c.op = "reject" THEN [c EXCEPT !.op = "abort"] ELSE c

ProcessDies ==
    /\ faults < MaxFaults
    /\ faults' = faults + 1
    /\ \E lost \in SUBSET {c \in calls : Awaits(c)} :
        calls' = {Sent(c) : c \in calls \ lost}
    /\ NewProcess

(* The tasks of a draining process are done; or its row, which no longer   *)
(* admits it, is given to the next one.                                    *)
Replaced ==
    /\ \/ worker.drain /\ Present = {} /\ worker.other = 0
          /\ \A c \in calls : c.op # "reject"
       \/ row = "draining" /\ ~worker.up
    /\ \E lost \in SUBSET {c \in calls : Awaits(c)} :
        calls' = {Sent(c) : c \in calls \ lost}
    /\ UNCHANGED faults
    /\ NewProcess

-----------------------------------------------------------------------------
DriverNext ==
    \/ DriverStart \/ AdmitTerminal \/ AdmitAdopt \/ AdmitStart \/ AdmitExhausted
    \/ RejectJob \/ RejectSteer \/ StartTask \/ SendStart \/ StartEnds
    \/ ObserveFinished \/ ObserveAdopt \/ DriverCrash
OwnerNext == Message \/ Stop \/ ExternalComplete
TurnNext(n) ==
    \/ ConfirmArrives(n) \/ AckArrives(n) \/ Launch(n) \/ Report(n) \/ Fail(n)
    \/ ProgressRefused(n) \/ Release(n)
WorkerNext ==
    \/ Receive \/ OtherStarts \/ OtherEnds
    \/ DrainBegins \/ ReportDrain \/ ConnectionLost \/ Join \/ ProcessDies \/ Replaced

Interrupts == Failures \ {"infra"}
Watchdog == \E what \in Interrupts : StallIdle(what) \/ StallSlow(what)

Next ==
    \/ DriverNext \/ OwnerNext
    \/ Watchdog
    \/ \E n \in Attempts : Handle(n) \/ TurnNext(n)
    \/ WorkerNext

Spec == Init /\ [][Next]_vars

DriverSteps == DriverStart \/ AdmitTerminal \/ AdmitAdopt \/ ObserveFinished \/ ObserveAdopt
ProcessSteps == OtherEnds \/ Join \/ Replaced \/ ReportDrain
TurnSteps(n) ==
    ConfirmArrives(n) \/ AckArrives(n) \/ Launch(n) \/ ProgressRefused(n) \/ Release(n)

Fairness ==
    /\ WF_vars(DriverSteps) /\ WF_vars(StartTask) /\ WF_vars(SendStart) /\ WF_vars(StartEnds)
    /\ WF_vars(\E what \in Interrupts : StallIdle(what))
    /\ WF_vars(Receive) /\ WF_vars(ProcessSteps)
    /\ \A n \in Attempts : WF_vars(Handle(n)) /\ WF_vars(TurnSteps(n))

FairSpec == Spec /\ Fairness

-----------------------------------------------------------------------------
JobRows == [status : Waiting \cup Terminal \cup {"running"}, attempts : 0 .. MaxClaims,
            failures : Nat, trigger : Signals]
Drivers == [phase : {"down", "idle", "starting", "running"}, n : 0 .. MaxClaims,
            conn : Nat, mode : {"start", "adopt"},
            sending : BOOLEAN, dirty : BOOLEAN]
Messages == [kind : {"start", "adopt", "stop"}, n : Attempts]
Workers == [up : BOOLEAN, conn : Nat, drain : BOOLEAN, used : Nat, other : Nat]
Phases == {"none", "confirming", "retiring", "executing", "reporting", "aborting"}
Turns == [phase : Phases, stop : BOOLEAN, over : BOOLEAN, donor : 0 .. MaxClaims,
          ack : {"none", "sent", "ok", "refused"}, wait : SUBSET Attempts,
          reply : {"none", "ok", "refused"}]
Calls ==
    [op : {"report"}, n : Attempts, what : Outcomes, applied : SUBSET Steers]
    \cup [op : {"abort", "reject", "stall"}, n : Attempts,
          what : {"infra", "charged", "final"}, applied : {{}}]

(* The state has its types.                                                *)
TypeOK ==
    /\ job \in JobRows
    /\ input \in [Signals -> {"absent", "open", "closed"}]
    /\ driver \in Drivers
    /\ row \in {"ready", "draining", "stale"}
    /\ inbox \in Seq(Messages)
    /\ worker \in Workers
    /\ turn \in [Attempts -> Turns]
    /\ calls \subseteq Calls
    /\ launched \subseteq Attempts /\ dropped \subseteq Attempts
    /\ faults \in 0 .. MaxFaults

Owners == {n \in Present : turn[n].donor = 0}
Handed(d, n) == d \in Present /\ d < n /\ turn[d].over

(* Whatever the row says is free, the Worker never uses more slots than it *)
(* has, and counts each once: a slot in use is held by a workspace, a Turn *)
(* of another Job or an attempt that owns it, and an attempt that has      *)
(* handed its slot over has handed it to exactly one newer attempt         *)
(* (Slots, start/1 and release/1 of ActiveTurns).                          *)
SlotsExact ==
    /\ worker.used <= MaxSlots
    /\ worker.used = worker.other + Cardinality(Owners)
    /\ \A n \in Present : turn[n].donor # 0 => Handed(turn[n].donor, n)
    /\ \A d \in Present : turn[d].over =>
          \E n \in Present : /\ turn[n].donor = d
                             /\ \A m \in Present : turn[m].donor = d => m = n

(* Two attempts of a Job never execute on one Worker at the same time,     *)
(* although stops are lost and the control plane has long gone on          *)
(* (stopOlderAttempts/1).                                                  *)
OneExecution ==
    \A m, n \in Attempts : turn[m].phase \in Running /\ turn[n].phase \in Running => m = n

(* The oldest open Signal of a running Job is the one its attempt was      *)
(* claimed for, so a driver that starts anew finds the attempt, and what   *)
(* the attempt's report completes is the head of the queue (admit/3,       *)
(* complete_applied_in_tx/4).                                              *)
TriggerIsHead == job.status = "running" => Open # {} /\ Oldest = job.trigger

Launches(n) == turn[n].phase # "executing" /\ turn'[n].phase = "executing"

(* An attempt is executed once: not again by a start that is repeated or   *)
(* sent again, by the process after the one that died, or after a          *)
(* reconnect (mode adopt, ActiveTurns.start/1).  The one way to a second   *)
(* execution is an abort of the current attempt that failed.               *)
StartsOnce ==
    [][\A n \in Attempts : Launches(n) => n \notin launched \/ n \in dropped]_vars

(* A running attempt begins to execute or ends: no lost start, refusal,    *)
(* answer or process leaves the Job running with nobody at work on it, and *)
(* what a failed abort has left the watchdog ends, also when the Turn had  *)
(* not begun to execute (the claim time bounds that gap).                  *)
AttemptMoves ==
    job.status = "running"
        ~> (job.status = "running" => turn[job.attempts].phase \in Running)
=============================================================================
