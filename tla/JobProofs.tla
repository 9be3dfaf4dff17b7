------------------------------ MODULE JobProofs ------------------------------
(***************************************************************************)
(* Theorems about JobAttempts, for any number of slots, attempts, steers   *)
(* and faults, and any length of the connection's queue.                   *)
(***************************************************************************)
EXTENDS JobAttempts, FiniteSetTheorems, SequenceTheorems, TLAPS

USE DEF history

-----------------------------------------------------------------------------
(* Least elements, finite sets and queues *)

(* A set of numbers that is not empty has a least element, and Min is it.  *)
LEMMA MinIs ==
    ASSUME NEW S \in SUBSET Nat, S # {}
    PROVE  Min(S) \in S /\ \A s \in S : Min(S) <= s
<1> DEFINE R == {p \in Nat \X Nat : p[1] < p[2]}
<1>1. IsWellFoundedOn(R, Nat)
  BY NatLessThanWellFounded DEF OpToRel
<1>2. PICK x \in S : \A y \in S : <<y, x>> \notin R
  BY <1>1, WFMin
<1>3. ASSUME NEW y \in S PROVE x <= y
  <2>1. y < x => <<y, x>> \in R
    OBVIOUS
  <2> QED
    BY <1>2, <2>1
<1> QED
  BY <1>3 DEF Min

(* Adding to a queue of messages and taking its first one.                 *)
LEMMA AppendIs ==
    ASSUME NEW S, NEW q \in Seq(S), NEW e \in S
    PROVE  /\ Append(q, e) \in Seq(S)
           /\ Len(q) \in Nat /\ Len(Append(q, e)) = Len(q) + 1
           /\ \A i \in 1 .. Len(q) : Append(q, e)[i] = q[i]
           /\ Append(q, e)[Len(q) + 1] = e
  BY AppendProperties, LenProperties

LEMMA TailIs ==
    ASSUME NEW S, NEW q \in Seq(S), q # <<>>
    PROVE  /\ Head(q) \in S /\ Tail(q) \in Seq(S)
           /\ Len(q) \in Nat \ {0} /\ Len(Tail(q)) = Len(q) - 1
           /\ Head(q) = q[1]
           /\ \A i \in 1 .. Len(Tail(q)) : i + 1 \in 1 .. Len(q) /\ Tail(q)[i] = q[i + 1]
  BY HeadTailProperties, LenProperties
-----------------------------------------------------------------------------
(* Types, and what a driver is about *)

(* The driver's attempt is the Job's last one, and it is on a connection   *)
(* that there has been.                                                    *)
Driving ==
    /\ job.status = "running" => job.attempts \in Attempts
    /\ driver.phase \in {"starting", "running"} =>
          driver.n = job.attempts /\ job.attempts \in Attempts
    /\ driver.sending \/ driver.dirty => driver.phase \in {"starting", "running"}
    /\ driver.conn <= worker.conn

(* The Worker has the slots that it counts.                                *)
Counted == worker.used >= worker.other
           /\ \A n \in Owners : worker.used > worker.other

LEMMA OwnersFinite == IsFiniteSet(Owners) /\ Cardinality(Owners) \in Nat
<1>1. IsFiniteSet(Attempts)
  BY ClaimsAssumption, FS_Interval DEF Attempts
<1>2. Owners \in SUBSET Attempts
  BY DEF Owners, Present
<1> QED
  BY <1>1, <1>2, FS_Subset, FS_CardinalityType

LEMMA SlotsCount ==
    ASSUME TypeOK, SlotsExact
    PROVE  Counted
<1>1. Owners # {} => Cardinality(Owners) > 0
  BY OwnersFinite, FS_EmptySet
<1> QED
  BY <1>1, OwnersFinite DEF SlotsExact, Counted, TypeOK, Workers

Base == TypeOK /\ Driving

LEMMA CloseTyped ==
    ASSUME TypeOK, NEW S
    PROVE  Close(S) \in [Signals -> {"absent", "open", "closed"}]
  BY DEF TypeOK, Close

LEMMA OldestIs ==
    ASSUME Open # {}
    PROVE  Oldest \in Open /\ Oldest \in Signals /\ \A s \in Open : Oldest <= s
<1>1. Open \in SUBSET Nat
  BY BoundsAssumption DEF Open, Signals
<1> QED
  BY <1>1, MinIs DEF Oldest, Open

LEMMA ControlTyped ==
    ASSUME TypeOK, NEW n \in Attempts, Control(n)
    PROVE  inbox' \in Seq(Messages)
<1>1. [kind |-> "stop", n |-> n] \in Messages
  BY DEF Messages
<1> QED
  BY <1>1, AppendIs DEF TypeOK, Control

LEMMA DriverTyped ==
    ASSUME Base, DriverNext
    PROVE  Base'
<1> USE DEF Base
<1>1. CASE DriverStart
  BY <1>1, ClaimsAssumption DEF DriverStart, TypeOK, Driving, Idle, Drivers, Workers
<1>2. CASE AdmitTerminal
  BY <1>2, CloseTyped DEF AdmitTerminal, TypeOK, Driving
<1>3. CASE AdmitAdopt
  BY <1>3 DEF AdmitAdopt, Drives, TypeOK, Driving, Attempts, JobRows, Drivers, Workers
<1>4. CASE AdmitStart
  <2>1. Oldest \in Signals /\ job.attempts < MaxClaims
    BY <1>4, OldestIs DEF AdmitStart, Admits, Claimable
  <2>2. job.attempts \in Nat /\ job.attempts + 1 \in Attempts
    BY <2>1, ClaimsAssumption DEF TypeOK, JobRows, Attempts
  <2>3. job' = [status |-> "running", attempts |-> job.attempts + 1,
                failures |-> job.failures, trigger |-> Oldest]
    BY <1>4 DEF AdmitStart, TypeOK, JobRows
  <2>5. job' \in JobRows
    BY <2>1, <2>2, <2>3 DEF TypeOK, JobRows, Attempts
  <2>4. driver' \in Drivers /\ driver'.n = job'.attempts /\ driver'.conn = worker.conn
        /\ driver'.phase = "starting"
    BY <1>4, <2>2, <2>3, ClaimsAssumption DEF AdmitStart, Drives, TypeOK, Drivers, Workers, Attempts
  <2> QED
    BY <1>4, <2>2, <2>3, <2>4, <2>5 DEF AdmitStart, TypeOK, Driving, Workers
<1>5. CASE AdmitExhausted
  BY <1>5, CloseTyped DEF AdmitExhausted, Admits, TypeOK, Driving, Terminal, JobRows
<1>6. CASE RejectJob
  BY <1>6, CloseTyped DEF RejectJob, Admits, TypeOK, Driving, Terminal, JobRows
<1>7. CASE RejectSteer
  BY <1>7, CloseTyped DEF RejectSteer, TypeOK, Driving
<1>8. CASE StartTask
  BY <1>8 DEF StartTask, TypeOK, Driving, Drivers
<1>9. CASE SendStart
  <2>1. [kind |-> driver.mode, n |-> driver.n] \in Messages
    BY <1>9 DEF SendStart, TypeOK, Driving, Messages, Drivers
  <2>2. inbox' \in Seq(Messages)
    BY <1>9, <2>1, AppendIs DEF SendStart, TypeOK
  <2> QED
    BY <1>9, <2>2 DEF SendStart, TypeOK, Driving, Drivers
<1>10. CASE ObserveFinished
  BY <1>10, ClaimsAssumption DEF ObserveFinished, TypeOK, Driving, Idle, Drivers, Workers
<1>11. CASE ObserveAdopt
  BY <1>11 DEF ObserveAdopt, Drives, Observes, TypeOK, Driving, Attempts, Drivers, Workers
<1>12. CASE DriverCrash
  <2>1. driver' = [phase |-> "down", n |-> 0, conn |-> 0, mode |-> "start",
                 sending |-> FALSE, dirty |-> FALSE]
    BY <1>12 DEF DriverCrash, Idle
  <2>2. driver' \in Drivers
    BY <2>1, ClaimsAssumption DEF Drivers
  <2>3. faults' \in 0 .. MaxFaults
    BY <1>12, BoundsAssumption DEF DriverCrash, TypeOK
  <2> QED
    BY <1>12, <2>1, <2>2, <2>3 DEF DriverCrash, TypeOK, Driving, Workers
<1>13. CASE StartEnds
  BY <1>13 DEF StartEnds, TypeOK, Driving, Drivers
<1> QED
  BY <1>1, <1>2, <1>3, <1>4, <1>5, <1>6, <1>7, <1>8, <1>9, <1>10, <1>11, <1>12, <1>13
  DEF DriverNext

LEMMA OwnerTyped ==
    ASSUME Base, OwnerNext
    PROVE  Base'
<1> USE DEF Base
<1>1. CASE Message
  BY <1>1 DEF Message, TypeOK, Driving, Steers, Signals
<1>2. CASE Stop
  <2>1. inbox' \in Seq(Messages)
    BY <1>2, ControlTyped DEF Stop, TypeOK, Driving, JobRows
  <2> QED
    BY <1>2, <2>1, CloseTyped DEF Stop, TypeOK, Driving, Terminal, JobRows
<1>3. CASE ExternalComplete
  <2>1. inbox' \in Seq(Messages)
    BY <1>3, ControlTyped DEF ExternalComplete, TypeOK, Driving
  <2> QED
    BY <1>3, <2>1, CloseTyped DEF ExternalComplete, TypeOK, Driving, Terminal, JobRows
<1> QED
  BY <1>1, <1>2, <1>3 DEF OwnerNext

LEMMA OneFaultMore ==
    ASSUME TypeOK, faults < MaxFaults
    PROVE  faults + 1 \in 0 .. MaxFaults
  BY BoundsAssumption DEF TypeOK

LEMMA ReportedTyped ==
    ASSUME TypeOK, NEW c \in Calls, c.what \in Outcomes, Reported(c)
    PROVE  /\ job' \in JobRows /\ job'.status # "running" /\ job'.attempts = job.attempts
           /\ input' \in [Signals -> {"absent", "open", "closed"}]
<1>1. job'.status \in {"waiting", "succeeded", "failed"}
  BY ReportsAssumption DEF Reported, TypeOK, JobRows
<1> QED
  BY <1>1, CloseTyped DEF Reported, TypeOK, JobRows, Waiting, Terminal

LEMMA AbortedTyped ==
    ASSUME TypeOK, NEW what, Aborted(what)
    PROVE  /\ job' \in JobRows /\ job'.status # "running" /\ job'.attempts = job.attempts
           /\ input' \in [Signals -> {"absent", "open", "closed"}]
<1>1. CASE what = "final"
  BY <1>1, CloseTyped DEF Aborted, TypeOK, JobRows, Waiting, Terminal
<1>2. CASE what = "charged"
  <2>1. job' = [status |-> "queued", attempts |-> job.attempts,
                failures |-> job.failures + 1, trigger |-> job.trigger]
    BY <1>2 DEF Aborted, TypeOK, JobRows
  <2> QED
    BY <1>2, <2>1 DEF Aborted, TypeOK, JobRows, Waiting
<1>3. CASE what \notin {"final", "charged"}
  BY <1>3 DEF Aborted, TypeOK, JobRows, Waiting, Terminal
<1> QED
  BY <1>1, <1>2, <1>3

LEMMA AnswerTyped ==
    ASSUME TypeOK, NEW c \in calls, NEW reply \in {"ok", "refused"}, Answer(c, reply)
    PROVE  /\ calls' \subseteq Calls /\ turn' \in [Attempts -> Turns]
           /\ faults' \in 0 .. MaxFaults
<1>1. c.n \in Attempts
  BY DEF TypeOK, Calls
<1>2. turn[c.n] \in Turns
  BY <1>1 DEF TypeOK
<1>3. [turn[c.n] EXCEPT !.reply = reply] \in Turns
  BY <1>2 DEF Turns
<1>4. [turn EXCEPT ![c.n].reply = reply] \in [Attempts -> Turns]
  BY <1>1, <1>3 DEF TypeOK
<1> QED
  BY <1>4, OneFaultMore DEF Answer, TypeOK

LEMMA HandleTyped ==
    ASSUME Base, NEW n \in Attempts, Handle(n)
    PROVE  Base'
<1> USE DEF Base
<1>1. PICK c \in calls : c.n = n /\ (HandleReport(c) \/ HandleAbort(c) \/ AbortFails(c))
  BY DEF Handle
<1>2. c \in Calls
  BY DEF TypeOK
<1>3. CASE HandleReport(c)
  <2>1. c.what \in Outcomes
    BY <1>2, <1>3 DEF HandleReport, Calls
  <2>2. \E reply \in {"ok", "refused"} : Answer(c, reply)
    BY <1>3 DEF HandleReport
  <2>3. \/ job' = job /\ input' = input
        \/ Reported(c)
    BY <1>3 DEF HandleReport
  <2> QED
    BY <1>2, <1>3, <2>1, <2>2, <2>3, AnswerTyped, ReportedTyped
    DEF HandleReport, TypeOK, Driving
<1>4. CASE HandleAbort(c)
  <2>2. \E reply \in {"ok", "refused"} : Answer(c, reply)
    BY <1>4 DEF HandleAbort
  <2>3. \/ job' = job /\ input' = input
        \/ Aborted(c.what)
    BY <1>4 DEF HandleAbort
  <2>4. inbox' \in Seq(Messages)
    BY <1>1, <1>4, ControlTyped DEF HandleAbort, TypeOK
  <2> QED
    BY <1>4, <2>2, <2>3, <2>4, AnswerTyped, AbortedTyped
    DEF HandleAbort, TypeOK, Driving
<1>5. CASE AbortFails(c)
  <2>1. turn[n] \in Turns /\ [turn[n] EXCEPT !.reply = "refused"] \in Turns
    BY DEF TypeOK, Turns
  <2>2. turn' \in [Attempts -> Turns] /\ dropped' \subseteq Attempts
    BY <1>1, <1>5, <2>1 DEF AbortFails, TypeOK
  <2>3. calls' \subseteq Calls /\ faults' \in 0 .. MaxFaults
    BY <1>5, OneFaultMore DEF AbortFails, TypeOK
  <2> QED
    BY <1>5, <2>2, <2>3 DEF AbortFails, TypeOK, Driving
<1> QED
  BY <1>1, <1>3, <1>4, <1>5

LEMMA WatchdogTyped ==
    ASSUME Base, Watchdog
    PROVE  Base'
<1> USE DEF Base
<1>1. PICK what \in Interrupts : StallIdle(what) \/ StallSlow(what)
  BY DEF Watchdog
<1>2. Stalls(what) /\ job.status = "running" /\ faults' \in 0 .. MaxFaults
  BY <1>1, OneFaultMore DEF StallIdle, StallSlow, Watched, TypeOK
<1>3. Call("stall", job.attempts, what, {}) \in Calls
  BY <1>2, ReportsAssumption DEF Interrupts, Driving, Call, Calls
<1> QED
  BY <1>2, <1>3 DEF Stalls, TypeOK, Driving

(* One Turn changes.                                                       *)
LEMMA TurnTyped ==
    ASSUME TypeOK, NEW n \in Attempts, NEW t \in Turns
    PROVE  [turn EXCEPT ![n] = t] \in [Attempts -> Turns]
  BY DEF TypeOK

LEMMA ConfirmingTyped ==
    /\ NoTurn \in Turns
    /\ Confirming \in Turns
    /\ \A d \in Attempts : [Confirming EXCEPT !.donor = d] \in Turns
<1>1. NoTurn \in Turns
  BY ClaimsAssumption DEF NoTurn, Turns, Phases
<1>2. \A t \in Turns : [t EXCEPT !.phase = "confirming", !.ack = "sent"] \in Turns
  BY DEF Turns, Phases
<1>3. Confirming \in Turns
  BY <1>1, <1>2 DEF Confirming
<1>4. ASSUME NEW d \in Attempts
      PROVE  [Confirming EXCEPT !.donor = d] \in Turns
  <2>1. d \in 0 .. MaxClaims
    BY ClaimsAssumption DEF Attempts
  <2> QED
    BY <1>3, <2>1 DEF Turns
<1> QED
  BY <1>1, <1>3, <1>4

LEMMA ReceiveTyped ==
    ASSUME Base, Receive
    PROVE  Base'
<1> USE DEF Base
<1>1. PICK m : Received(m)
               /\ (ReceiveAgain(m) \/ ReceiveNew(m) \/ ReceiveRefused(m) \/ ReceiveStop(m))
  BY DEF Receive
<1>2. m \in Messages /\ inbox' \in Seq(Messages)
  BY <1>1, TailIs DEF Received, TypeOK
<1>3. m.n \in Attempts /\ turn[m.n] \in Turns
  BY <1>2 DEF Messages, TypeOK
<1>4. UNCHANGED <<plane, row, history, faults>>
  BY DEF Receive
<1>5. CASE ReceiveAgain(m)
  <2>1. [turn[m.n] EXCEPT !.ack = "sent"] \in Turns
    BY <1>3 DEF Turns
  <2>2. turn' \in [Attempts -> Turns]
    BY <1>3, <1>5, <2>1 DEF ReceiveAgain, TypeOK
  <2> QED
    BY <1>2, <1>4, <1>5, <2>2 DEF ReceiveAgain, TypeOK, Driving, plane
<1>6. CASE ReceiveNew(m)
  <2>1. CASE /\ worker' = [worker EXCEPT !.used = @ + 1]
             /\ turn' = [turn EXCEPT ![m.n] = Confirming]
    <3>1. worker' \in Workers /\ worker'.conn = worker.conn
      BY <2>1 DEF TypeOK, Workers
    <3>2. turn' \in [Attempts -> Turns]
      BY <1>3, <2>1, ConfirmingTyped, TurnTyped
    <3> QED
      BY <1>2, <1>4, <1>6, <3>1, <3>2 DEF ReceiveNew, TypeOK, Driving, plane
  <2>2. ASSUME NEW d \in Donors(m.n), UNCHANGED worker,
               turn' = [turn EXCEPT ![d].over = TRUE, ![m.n] = [Confirming EXCEPT !.donor = d]]
        PROVE  Base'
    <3>1. d \in Attempts /\ turn[d] \in Turns
      BY <2>2 DEF Donors, Older, Present, TypeOK
    <3>2. [turn[d] EXCEPT !.over = TRUE] \in Turns
      BY <3>1 DEF Turns
    <3>3. turn' \in [Attempts -> Turns]
      BY <1>3, <2>2, <3>1, <3>2, ConfirmingTyped DEF TypeOK
    <3> QED
      BY <1>2, <1>4, <1>6, <2>2, <3>3 DEF ReceiveNew, TypeOK, Driving, plane
  <2> QED
    BY <1>6, <2>1, <2>2 DEF ReceiveNew
<1>7. CASE ReceiveRefused(m)
  <2>1. Call("reject", m.n, "infra", {}) \in Calls
    BY <1>3 DEF Call, Calls
  <2> QED
    BY <1>2, <1>4, <1>7, <2>1 DEF ReceiveRefused, TypeOK, Driving, plane
<1>8. CASE ReceiveStop(m)
  <2>1. [turn[m.n] EXCEPT !.stop = TRUE] \in Turns
    BY <1>3 DEF Turns
  <2>2. turn' \in [Attempts -> Turns]
    BY <1>3, <1>8, <2>1 DEF ReceiveStop, TypeOK
  <2> QED
    BY <1>2, <1>4, <1>8, <2>2 DEF ReceiveStop, TypeOK, Driving, plane
<1> QED
  BY <1>1, <1>5, <1>6, <1>7, <1>8

LEMMA TurnStepTyped ==
    ASSUME Base, SlotsExact, NEW n \in Attempts, TurnNext(n)
    PROVE  Base'
<1> USE DEF Base
<1>1. turn[n] \in Turns
  BY DEF TypeOK
<1>2. CASE ConfirmArrives(n)
  <2>1. \A a \in {"ok", "refused"} : [turn[n] EXCEPT !.ack = a] \in Turns
    BY <1>1 DEF Turns
  <2>2. turn' \in [Attempts -> Turns]
    BY <1>2, <2>1, TurnTyped DEF ConfirmArrives, TypeOK
  <2>3. driver' \in Drivers /\ driver'.n = driver.n /\ driver'.conn = driver.conn
        /\ driver'.sending = driver.sending
        /\ (driver'.phase = driver.phase
            \/ (driver.phase = "starting" /\ driver'.phase = "running"))
    BY <1>2 DEF ConfirmArrives, TypeOK, Drivers
  <2> QED
    BY <1>2, <2>2, <2>3 DEF ConfirmArrives, TypeOK, Driving
<1>3. CASE AckArrives(n)
  <2>1. /\ [turn[n] EXCEPT !.ack = "none"] \in Turns
        /\ [turn[n] EXCEPT !.ack = "none", !.stop = TRUE] \in Turns
    BY <1>1 DEF Turns
  <2>2. [turn[n] EXCEPT !.phase = "retiring", !.ack = "none", !.wait = Older(n)] \in Turns
    <3>1. Older(n) \in SUBSET Attempts
      BY DEF Older, Present
    <3>2. \A w \in SUBSET Attempts :
             [turn[n] EXCEPT !.phase = "retiring", !.ack = "none", !.wait = w] \in Turns
      BY <1>1 DEF Turns, Phases
    <3> QED
      BY <3>1, <3>2
  <2>3. \A m \in Attempts : [turn[m] EXCEPT !.stop = TRUE] \in Turns
    <3> SUFFICES ASSUME NEW m \in Attempts
                 PROVE  [turn[m] EXCEPT !.stop = TRUE] \in Turns
      OBVIOUS
    <3>1. turn[m] \in Turns
      BY DEF TypeOK
    <3> QED
      BY <3>1 DEF Turns
  <2>4. CASE turn[n].ack = "refused"
    BY <1>3, <2>1, <2>4 DEF AckArrives, TypeOK, Driving, plane
  <2>5. CASE turn[n].ack # "refused" /\ turn[n].phase = "confirming" /\ ~turn[n].stop
    <3>1. turn' \in [Attempts -> Turns]
      BY <1>3, <2>2, <2>3, <2>5 DEF AckArrives, TypeOK
    <3> QED
      BY <1>3, <3>1 DEF AckArrives, TypeOK, Driving, plane
  <2>6. CASE turn[n].ack # "refused" /\ ~(turn[n].phase = "confirming" /\ ~turn[n].stop)
    BY <1>3, <2>1, <2>6 DEF AckArrives, TypeOK, Driving, plane
  <2> QED
    BY <2>4, <2>5, <2>6
<1>4. CASE Launch(n)
  <2>1. [turn[n] EXCEPT !.phase = "executing"] \in Turns
    BY <1>1 DEF Turns, Phases
  <2> QED
    BY <1>4, <2>1 DEF Launch, TypeOK, Driving, plane
<1>5. CASE Report(n)
  <2>1. [turn[n] EXCEPT !.phase = "reporting"] \in Turns
    BY <1>1 DEF Turns, Phases
  <2>2. \A what \in Outcomes : \A applied \in SUBSET Steers :
           Call("report", n, what, applied) \in Calls
    BY DEF Call, Calls
  <2>3. calls' \subseteq Calls
    BY <1>5, <2>2 DEF Report, TypeOK
  <2> QED
    BY <1>5, <2>1, <2>3 DEF Report, TypeOK, Driving, plane
<1>6. CASE Fail(n)
  <2>1. [turn[n] EXCEPT !.phase = "aborting", !.ack = "none", !.reply = "none"] \in Turns
    BY <1>1 DEF Turns, Phases
  <2>2. turn' \in [Attempts -> Turns]
    BY <1>6, <2>1 DEF Fail, TypeOK
  <2>3. \A what \in Failures \cup {"final"} : Call("abort", n, what, {}) \in Calls
    BY ReportsAssumption DEF Call, Calls
  <2>4. calls' \subseteq Calls
    BY <1>6, <2>3 DEF Fail, TypeOK
  <2> QED
    BY <1>6, <2>2, <2>4 DEF Fail, TypeOK, Driving, plane
<1>7. CASE ProgressRefused(n)
  <2>1. [turn[n] EXCEPT !.stop = TRUE] \in Turns
    BY <1>1 DEF Turns
  <2> QED
    BY <1>7, <2>1 DEF ProgressRefused, TypeOK, Driving, plane
<1>8. CASE Release(n)
  <2> DEFINE heirs == {m \in Present : turn[n].over /\ turn[m].donor = n}
             back == {turn[n].donor} \cap Present
  <2>1. ASSUME NEW m \in Attempts, NEW b \in BOOLEAN, NEW d \in 0 .. MaxClaims
        PROVE  [turn[m] EXCEPT !.wait = @ \ {n}, !.donor = d, !.over = b] \in Turns
    <3>1. turn[m] \in Turns /\ turn[m].wait \ {n} \in SUBSET Attempts
      BY DEF TypeOK, Turns
    <3>2. \A w \in SUBSET Attempts :
            [turn[m] EXCEPT !.wait = w, !.donor = d, !.over = b] \in Turns
      BY <3>1 DEF Turns
    <3> QED
      BY <3>1, <3>2
  <2>2. turn[n].donor \in 0 .. MaxClaims /\ 0 \in 0 .. MaxClaims
        /\ \A m \in Attempts : turn[m].donor \in 0 .. MaxClaims /\ turn[m].over \in BOOLEAN
    BY <1>1, ClaimsAssumption DEF TypeOK, Turns
  <2>3. turn' \in [Attempts -> Turns]
    <3>1. ASSUME NEW m \in Attempts PROVE turn'[m] \in Turns
      <4>1. CASE m = n
        BY <1>8, <4>1, ConfirmingTyped DEF Release
      <4>2. CASE m # n
        <5> DEFINE d == IF m \in heirs THEN (IF back = {} THEN 0 ELSE turn[n].donor)
                        ELSE turn[m].donor
                   b == IF heirs = {} /\ m \in back THEN FALSE ELSE turn[m].over
        <5>1. turn'[m] = [turn[m] EXCEPT !.wait = @ \ {n}, !.donor = d, !.over = b]
          BY <1>8, <4>2 DEF Release
        <5>2. d \in 0 .. MaxClaims /\ b \in BOOLEAN
          BY <2>2
        <5> HIDE DEF d, b
        <5>3. [turn[m] EXCEPT !.wait = @ \ {n}, !.donor = d, !.over = b] \in Turns
          BY <2>1, <5>2
        <5> QED
          BY <5>1, <5>3
      <4> QED
        BY <4>1, <4>2
    <3>2. turn' = [m \in Attempts |-> turn'[m]]
      BY <1>8 DEF Release
    <3> QED
      BY <3>1, <3>2
  <2>4. worker' \in Workers /\ worker'.conn = worker.conn
    <3>1. CASE heirs = {} /\ back = {}
      <4>1. n \in Owners
        <5>1. n \in Present
          BY <1>8 DEF Release, Ended, Present
        <5>2. turn[n].donor = 0
          BY <3>1, <5>1 DEF SlotsExact, Handed
        <5> QED
          BY <5>1, <5>2 DEF Owners
      <4>2. worker.used - 1 \in Nat
        BY <4>1, SlotsCount DEF TypeOK, Workers, Counted
      <4> QED
        BY <1>8, <3>1, <4>2 DEF Release, TypeOK, Workers
    <3>2. CASE ~(heirs = {} /\ back = {})
      BY <1>8, <3>2 DEF Release, TypeOK
    <3> QED
      BY <3>1, <3>2
  <2> QED
    BY <1>8, <2>3, <2>4 DEF Release, TypeOK, Driving, plane
<1> QED
  BY <1>2, <1>3, <1>4, <1>5, <1>6, <1>7, <1>8 DEF TurnNext

LEMMA SentTyped ==
    ASSUME TypeOK, NEW S \in SUBSET calls
    PROVE  {Sent(c) : c \in S} \subseteq Calls
<1> SUFFICES ASSUME NEW c \in S
             PROVE  Sent(c) \in Calls
  OBVIOUS
<1>1. c \in Calls
  BY DEF TypeOK
<1> QED
  BY <1>1 DEF Sent, Calls

LEMMA NewProcessTyped ==
    ASSUME Base, NewProcess
    PROVE  /\ worker' \in Workers /\ worker'.conn = worker.conn
           /\ row' \in {"ready", "draining", "stale"}
           /\ turn' \in [Attempts -> Turns]
           /\ inbox' \in Seq(Messages)
           /\ UNCHANGED <<job, input, driver, history>>
<1>1. worker.conn \in Nat
  BY DEF Base, TypeOK, Workers
<1> QED
  BY <1>1, ConfirmingTyped DEF NewProcess, Workers, plane

LEMMA WorkerTyped ==
    ASSUME Base, SlotsExact, WorkerNext
    PROVE  Base'
<1> USE DEF Base
<1>1. CASE Receive
  BY <1>1, ReceiveTyped
<1>2. CASE OtherStarts
  <2>1. worker' \in Workers /\ worker'.conn = worker.conn
    <3>1. worker.used + 1 \in Nat /\ worker.other + 1 \in Nat /\ worker \in Workers
      BY DEF TypeOK, Workers
    <3> QED
      BY <1>2, <3>1 DEF OtherStarts, Workers
  <2> QED
    BY <1>2, <2>1, OneFaultMore DEF OtherStarts, TypeOK, Driving, plane
<1>3. CASE OtherEnds
  <2>1. worker.used \in Nat /\ worker.other \in Nat /\ worker.used - 1 \in Nat /\ worker.other - 1 \in Nat
    BY <1>3, SlotsCount DEF OtherEnds, TypeOK, Workers, Counted
  <2>2. worker' \in Workers /\ worker'.conn = worker.conn
    BY <1>3, <2>1 DEF OtherEnds, TypeOK, Workers
  <2> QED
    BY <1>3, <2>2 DEF OtherEnds, TypeOK, Driving, plane
<1>4. CASE DrainBegins
  <2>1. worker' \in Workers /\ worker'.conn = worker.conn
    BY <1>4 DEF DrainBegins, TypeOK, Workers
  <2>2. ASSUME NEW n \in Attempts
        PROVE  turn[n] \in Turns /\ [turn[n] EXCEPT !.stop = TRUE] \in Turns
    <3>1. turn[n] \in Turns
      BY DEF TypeOK
    <3> QED
      BY <3>1 DEF Turns
  <2>3. turn' \in [Attempts -> Turns]
    BY <1>4, <2>2 DEF DrainBegins
  <2> QED
    BY <1>4, <2>1, <2>3, OneFaultMore DEF DrainBegins, TypeOK, Driving, plane
<1>5. CASE ReportDrain
  BY <1>5 DEF ReportDrain, TypeOK, Driving, plane
<1>6. CASE ConnectionLost
  <2>1. worker' \in Workers /\ worker'.conn = worker.conn
    BY <1>6 DEF ConnectionLost, TypeOK, Workers
  <2>2. ASSUME NEW n \in Attempts
        PROVE  turn[n] \in Turns /\ [turn[n] EXCEPT !.ack = "sent"] \in Turns
    <3>1. turn[n] \in Turns
      BY DEF TypeOK
    <3> QED
      BY <3>1 DEF Turns
  <2>3. turn' \in [Attempts -> Turns]
    BY <1>6, <2>2 DEF ConnectionLost
  <2>4. row' \in {"ready", "draining", "stale"} /\ inbox' \in Seq(Messages)
    BY <1>6 DEF ConnectionLost, TypeOK
  <2> QED
    BY <1>6, <2>1, <2>3, <2>4, OneFaultMore DEF ConnectionLost, TypeOK, Driving, plane
<1>7. CASE Join
  <2>1. worker' \in Workers /\ worker'.conn = worker.conn + 1
    <3>1. worker.conn + 1 \in Nat /\ worker \in Workers
      BY DEF TypeOK, Workers
    <3> QED
      BY <1>7, <3>1 DEF Join, Workers
  <2>2. driver.conn \in Nat /\ worker.conn \in Nat
    BY DEF TypeOK, Drivers, Workers
  <2> QED
    BY <1>7, <2>1, <2>2 DEF Join, TypeOK, Driving, plane
<1>8. CASE ProcessDies
  <2>1. calls' \subseteq Calls
    BY <1>8, SentTyped DEF ProcessDies
  <2> QED
    BY <1>8, <2>1, NewProcessTyped, OneFaultMore DEF ProcessDies, TypeOK, Driving
<1>9. CASE Replaced
  <2>1. calls' \subseteq Calls
    BY <1>9, SentTyped DEF Replaced
  <2> QED
    BY <1>9, <2>1, NewProcessTyped DEF Replaced, TypeOK, Driving
<1> QED
  BY <1>1, <1>2, <1>3, <1>4, <1>5, <1>6, <1>7, <1>8, <1>9 DEF WorkerNext

LEMMA BaseInit == Init => Base
<1> SUFFICES ASSUME Init
             PROVE  Base
  OBVIOUS
<1>1. job \in JobRows /\ job.status = "queued"
  BY ClaimsAssumption, BoundsAssumption DEF Init, JobRows, Waiting, Signals
<1>2. /\ driver \in Drivers /\ driver.phase = "idle" /\ driver.conn = 0
      /\ driver.sending = FALSE /\ driver.dirty = FALSE
  BY ClaimsAssumption DEF Init, Drivers, Idle
<1>3. worker \in Workers /\ worker.conn = 1
  BY DEF Init, Workers
<1>4. turn \in [Attempts -> Turns]
  BY ConfirmingTyped DEF Init
<1> QED
  BY <1>1, <1>2, <1>3, <1>4, BoundsAssumption DEF Init, Base, TypeOK, Driving

LEMMA BaseKept ==
    ASSUME Base, SlotsExact, [Next]_vars
    PROVE  Base'
<1>1. CASE Next
  BY <1>1, DriverTyped, OwnerTyped, WatchdogTyped, HandleTyped, TurnStepTyped, WorkerTyped DEF Next
<1>2. CASE UNCHANGED vars
  BY <1>2 DEF vars, Base, TypeOK, Driving
<1> QED
  BY <1>1, <1>2
-----------------------------------------------------------------------------
(* The invariant *)

(* Attempts reach the Worker in their order, and none that is not claimed. *)
Ordered ==
    /\ \A n \in Present \cup launched : n <= job.attempts
    /\ \A i \in 1 .. Len(inbox) : inbox[i].n <= job.attempts
    /\ \A i, j \in 1 .. Len(inbox) :
          i < j /\ inbox[i].kind # "stop" /\ inbox[j].kind # "stop" => inbox[i].n <= inbox[j].n
    /\ \A n \in Present : \A i \in 1 .. Len(inbox) :
          inbox[i].kind # "stop" => n <= inbox[i].n

(* The trigger of a running attempt is open, and nothing open is older.    *)
Heads == job.status = "running" => job.trigger \in Open /\ \A s \in Open : job.trigger <= s

(* An attempt waits for all older ones before it executes.                 *)
Retires == \A n \in Attempts :
    /\ turn[n].phase = "retiring" => turn[n].wait = Older(n)
    /\ turn[n].phase \in Running => Older(n) = {}

(* What ends an execution also means that its attempt is not the current   *)
(* one: a stop, a refusal, the answer to its last call unless that is the  *)
(* error of an abort.                                                      *)
Settled(n) ==
    LET t == turn[n] IN
    /\ t.phase = "none" => t.ack = "none"
    /\ t.phase \notin {"reporting", "aborting"} => t.reply = "none"
    /\ t.stop /\ t.phase \in Running => ~Live(n)
    /\ t.ack = "refused" => ~Live(n)
    /\ t.phase = "reporting" /\ t.reply = "ok" => ~Live(n)
    /\ t.phase = "aborting" /\ t.reply # "none" => ~Live(n) \/ n \in dropped
StopsTrue == \A i \in 1 .. Len(inbox) : inbox[i].kind = "stop" => ~Live(inbox[i].n)

(* A start of attempt n may still reach the process that is connected.     *)
MayArrive(n) ==
    \/ \E i \in 1 .. Len(inbox) : inbox[i].kind = "start" /\ inbox[i].n = n
    \/ /\ driver.phase \in {"starting", "running"} /\ driver.mode = "start" /\ driver.n = n
       /\ worker.up /\ driver.conn = worker.conn

(* An attempt that was executed, and not dropped by a failed abort, is     *)
(* still with the Worker if a start of it could be accepted and confirmed. *)
Once(n) ==
    n \in launched /\ n \notin dropped =>
        /\ turn[n].phase = "confirming" => ~Live(n) /\ turn[n].ack # "ok"
        /\ turn[n].phase # "retiring"
        /\ MayArrive(n) /\ Live(n) => n \in Present

Inv ==
    /\ Base /\ SlotsExact /\ Ordered /\ Heads /\ Retires /\ StopsTrue
    /\ \A n \in Attempts : Settled(n) /\ Once(n)
-----------------------------------------------------------------------------
(* Steps that leave the Turns alone *)

(* Attempts are claimed in order, and one that is not the current one does *)
(* not become it again.                                                    *)
JobSteady ==
    /\ job.attempts <= job'.attempts
    /\ \A n \in Attempts : n <= job.attempts /\ Live(n)' => Live(n)

(* A message for a claimed attempt: a stop of one that has ended, or the   *)
(* driver's for the last one.                                              *)
InboxGrows ==
    \/ inbox' = inbox
    \/ \E m \in Messages :
        /\ inbox' = Append(inbox, m)
        /\ \/ m.kind = "stop" /\ m.n <= job'.attempts /\ ~(Live(m.n)')
           \/ m.kind # "stop" /\ m.n = job'.attempts

ArrivalsKept == \A n \in Attempts : n <= job.attempts /\ MayArrive(n)' => MayArrive(n)

LEMMA InboxIs ==
    ASSUME TypeOK
    PROVE  /\ Len(inbox) \in Nat
           /\ \A i \in 1 .. Len(inbox) : inbox[i] \in Messages /\ inbox[i].n \in Attempts
<1>1. inbox \in Seq(Messages)
  BY DEF TypeOK
<1>2. Len(inbox) \in Nat /\ \A i \in 1 .. Len(inbox) : inbox[i] \in Messages
  BY <1>1, LenProperties, ElementOfSeq
<1>3. \A m \in Messages : m.n \in Attempts
  BY DEF Messages
<1> QED
  BY <1>2, <1>3

LEMMA GrowsOrdered ==
    ASSUME Inv, Base', JobSteady, InboxGrows, Present' = Present, UNCHANGED launched
    PROVE  Ordered' /\ StopsTrue'
<1> USE DEF Inv, Base
<1>1. job.attempts \in Nat /\ job'.attempts \in Nat
  BY ClaimsAssumption DEF TypeOK, JobRows
<1>2. Present' = Present
  OBVIOUS
<1>3. \A n \in Present \cup launched : n \in Attempts /\ n \in Nat
  BY DEF Present, Attempts, TypeOK
<1>4. CASE inbox' = inbox
  <2>1. Ordered'
    BY <1>1, <1>2, <1>3, <1>4, InboxIs DEF Ordered, JobSteady, Attempts
  <2>2. StopsTrue'
    BY <1>4, InboxIs DEF Ordered, StopsTrue, JobSteady
  <2> QED
    BY <2>1, <2>2
<1>5. ASSUME NEW m \in Messages, inbox' = Append(inbox, m),
             \/ m.kind = "stop" /\ m.n <= job'.attempts /\ ~(Live(m.n)')
             \/ m.kind # "stop" /\ m.n = job'.attempts
      PROVE  Ordered' /\ StopsTrue'
  <2>1. /\ Len(inbox) \in Nat /\ Len(inbox') = Len(inbox) + 1
        /\ \A i \in 1 .. Len(inbox) : inbox'[i] = inbox[i]
        /\ inbox'[Len(inbox) + 1] = m
    BY <1>5, AppendIs DEF TypeOK
  <2>2. m.n \in Nat /\ \A i \in 1 .. Len(inbox) : inbox[i].n \in Attempts /\ inbox[i].n \in Nat
    BY InboxIs DEF Messages, Attempts
  <2>3. \A i \in 1 .. Len(inbox') : i \in 1 .. Len(inbox) \/ i = Len(inbox) + 1
    BY <2>1
  <2>4. \A i \in 1 .. Len(inbox) : inbox[i].n <= job'.attempts
    BY <1>1, <2>2 DEF Ordered, JobSteady
  <2>5. \A n \in Present \cup launched : n <= job'.attempts
    BY <1>1, <1>3 DEF Ordered, JobSteady
  <2>6. Ordered'
    <3>1. \A i \in 1 .. Len(inbox') : inbox'[i].n <= job'.attempts
      BY <1>1, <1>5, <2>1, <2>2, <2>3, <2>4
    <3>2. ASSUME NEW i \in 1 .. Len(inbox'), NEW j \in 1 .. Len(inbox'),
                 i < j, inbox'[i].kind # "stop", inbox'[j].kind # "stop"
          PROVE  inbox'[i].n <= inbox'[j].n
      <4>1. i \in 1 .. Len(inbox)
        BY <2>1, <2>3, <3>2
      <4>2. CASE j \in 1 .. Len(inbox)
        BY <2>1, <3>2, <4>1, <4>2 DEF Ordered
      <4>3. CASE j = Len(inbox) + 1
        BY <1>5, <2>1, <2>4, <3>2, <4>1, <4>3
      <4> QED
        BY <2>3, <4>2, <4>3
    <3>3. ASSUME NEW n \in Present, NEW i \in 1 .. Len(inbox'), inbox'[i].kind # "stop"
          PROVE  n <= inbox'[i].n
      BY <1>5, <2>1, <2>3, <2>5, <3>3 DEF Ordered
    <3> QED
      BY <1>2, <2>5, <3>1, <3>2, <3>3 DEF Ordered
  <2>7. StopsTrue'
    BY <1>5, <2>1, <2>2, <2>3 DEF StopsTrue, Ordered, JobSteady
  <2> QED
    BY <2>6, <2>7
<1> QED
  BY <1>4, <1>5 DEF InboxGrows

LEMMA SameSlots ==
    ASSUME SlotsExact, worker'.used = worker.used, worker'.other = worker.other,
           \A n \in Attempts : /\ turn'[n].phase = "none" <=> turn[n].phase = "none"
                               /\ turn'[n].donor = turn[n].donor /\ turn'[n].over = turn[n].over
    PROVE  SlotsExact' /\ Present' = Present
<1>1. Present' = Present
  BY DEF Present
<1>2. Owners' = Owners
  BY <1>1 DEF Owners, Present
<1>3. \A d, n \in Present : Handed(d, n) => Handed(d, n)'
  BY <1>1 DEF Handed, Present
<1>4. \A n \in Present : n \in Attempts
  BY DEF Present
<1> QED
  BY <1>1, <1>2, <1>3, <1>4 DEF SlotsExact, Handed

(* A step in which no Turn enters another phase or passes a slot on.       *)
SamePhase(n) ==
    /\ turn'[n].phase = turn[n].phase /\ turn'[n].wait = turn[n].wait
    /\ turn'[n].donor = turn[n].donor /\ turn'[n].over = turn[n].over

LEMMA SteadyStep ==
    ASSUME Inv, Base', Ordered', StopsTrue', Heads',
           launched' = launched, dropped \subseteq dropped',
           worker'.used = worker.used, worker'.other = worker.other,
           \A n \in Attempts : SamePhase(n) /\ Settled(n)',
           \A n \in launched \ dropped :
                               /\ Live(n)' => Live(n)
                               /\ MayArrive(n)' => MayArrive(n)
                               /\ turn'[n].phase = "confirming" => turn'[n].ack # "ok"
    PROVE  Inv'
<1>1. SlotsExact' /\ Present' = Present
  BY SameSlots DEF Inv, SamePhase
<1>2. Retires'
  <2>1. \A n \in Attempts : Older(n)' = Older(n)
    BY <1>1 DEF Older
  <2> QED
    BY <2>1 DEF Inv, Retires, SamePhase
<1>3. \A n \in Attempts : Once(n)'
  BY <1>1 DEF Inv, Once, SamePhase
<1> QED
  BY <1>1, <1>2, <1>3 DEF Inv

LEMMA QuietStep ==
    ASSUME Inv, Base', JobSteady, InboxGrows, ArrivalsKept, Heads',
           UNCHANGED <<turn, launched>>, dropped \subseteq dropped',
           worker'.used = worker.used, worker'.other = worker.other
    PROVE  Inv'
<1>1. Present' = Present
  BY DEF Present
<1>2. Ordered' /\ StopsTrue'
  BY <1>1, GrowsOrdered
<1>3. ASSUME NEW n \in Attempts
      PROVE  /\ SamePhase(n)
             /\ n \in Present \cup launched => (Live(n)' => Live(n))
             /\ n \in launched => (MayArrive(n)' => MayArrive(n))
  BY DEF Inv, Ordered, JobSteady, ArrivalsKept, SamePhase
<1>4. ASSUME NEW n \in Attempts
      PROVE  Settled(n)'
  <2>1. n \notin Present => turn[n].phase = "none"
    BY DEF Present
  <2> QED
    BY <1>3, <2>1 DEF Inv, Settled, Running
<1>5. ASSUME NEW n \in launched \ dropped
      PROVE  turn[n].phase = "confirming" => turn[n].ack # "ok"
  BY DEF Inv, Once, Base, TypeOK
<1> QED
  BY <1>2, <1>3, <1>4, <1>5, SteadyStep DEF Inv, Base, TypeOK

LEMMA JobKept ==
    ASSUME TypeOK, job'.attempts = job.attempts, job' = job \/ job'.status # "running"
    PROVE  JobSteady
<1>1. job.attempts \in Nat
  BY ClaimsAssumption DEF TypeOK, JobRows
<1> QED
  BY <1>1 DEF JobSteady, Live

(* Nothing is sent, or something that is no start.                         *)
NoStart ==
    \/ inbox' = inbox
    \/ \E m \in Messages : inbox' = Append(inbox, m) /\ m.kind # "start"

LEMMA NoNewStart ==
    ASSUME TypeOK, NoStart,
           worker'.up => worker.up, worker'.conn = worker.conn,
           driver'.phase \in {"starting", "running"} /\ driver'.mode = "start" =>
              /\ driver.phase \in {"starting", "running"} /\ driver.mode = "start"
              /\ driver.n = driver'.n /\ driver.conn = driver'.conn
    PROVE  ArrivalsKept
<1>1. ASSUME NEW n \in Attempts, NEW i \in 1 .. Len(inbox'),
             inbox'[i].kind = "start", inbox'[i].n = n
      PROVE  \E k \in 1 .. Len(inbox) : inbox[k].kind = "start" /\ inbox[k].n = n
  <2>1. CASE inbox' = inbox
    BY <1>1, <2>1
  <2>2. ASSUME NEW m \in Messages, inbox' = Append(inbox, m), m.kind # "start"
        PROVE  \E k \in 1 .. Len(inbox) : inbox[k].kind = "start" /\ inbox[k].n = n
    <3>1. /\ Len(inbox) \in Nat /\ Len(inbox') = Len(inbox) + 1
          /\ \A k \in 1 .. Len(inbox) : inbox'[k] = inbox[k]
          /\ inbox'[Len(inbox) + 1] = m
      BY <2>2, AppendIs DEF TypeOK
    <3>2. i \in 1 .. Len(inbox)
      BY <1>1, <2>2, <3>1
    <3> QED
      BY <1>1, <3>1, <3>2
  <2> QED
    BY <2>1, <2>2 DEF NoStart
<1> QED
  BY <1>1 DEF ArrivalsKept, MayArrive

LEMMA Controlled ==
    ASSUME TypeOK, NEW n \in Attempts, n <= job'.attempts, ~(Live(n)'), Control(n)
    PROVE  InboxGrows /\ NoStart
<1> DEFINE m == [kind |-> "stop", n |-> n]
<1>1. m \in Messages
  BY DEF Messages
<1> QED
  BY <1>1 DEF Control, InboxGrows, NoStart

LEMMA DriverKeeps ==
    ASSUME Inv, Base', DriverNext
    PROVE  Inv'
<1> USE DEF Inv, Base
<1>1. TypeOK /\ Driving /\ Heads
  OBVIOUS
<1>2. job.attempts \in Nat
  BY ClaimsAssumption DEF TypeOK, JobRows
<1>3. SUFFICES ASSUME UNCHANGED <<row, worker, turn, calls, history>>
               PROVE  JobSteady /\ InboxGrows /\ ArrivalsKept /\ Heads'
  <2>1. UNCHANGED <<row, worker, turn, calls, history>>
    BY DEF DriverNext, DriverStart, AdmitTerminal, AdmitAdopt, AdmitStart, AdmitExhausted,
           RejectJob, RejectSteer, StartTask, SendStart, StartEnds, ObserveFinished,
           ObserveAdopt, DriverCrash
  <2> QED
    BY <1>3, <2>1, QuietStep
<1>4. CASE UNCHANGED <<job, input, inbox>> /\ (driver'.phase \in {"down", "idle"}
                                              \/ driver'.mode = "adopt")
  BY <1>1, <1>3, <1>4, JobKept, NoNewStart DEF InboxGrows, NoStart, Heads, Open
<1>5. CASE DriverStart \/ ObserveFinished \/ DriverCrash
  BY <1>4, <1>5 DEF DriverStart, ObserveFinished, DriverCrash, Idle
<1>6. CASE AdmitAdopt \/ ObserveAdopt
  BY <1>4, <1>6 DEF AdmitAdopt, ObserveAdopt, Drives
<1>7. CASE AdmitTerminal \/ AdmitExhausted \/ RejectJob \/ RejectSteer
  <2>1. driver' = driver /\ inbox' = inbox /\ job'.attempts = job.attempts
        /\ (job' = job \/ job'.status # "running")
    BY <1>7 DEF AdmitTerminal, AdmitExhausted, RejectJob, RejectSteer, TypeOK, JobRows
  <2>2. job'.status # "running"
    BY <1>7 DEF AdmitTerminal, AdmitExhausted, RejectJob, RejectSteer, TypeOK, JobRows,
                Terminal, Waiting
  <2> QED
    BY <1>1, <1>3, <2>1, <2>2, JobKept, NoNewStart DEF InboxGrows, NoStart, Heads
<1>8. CASE AdmitStart
  <2>1. Open # {} /\ input' = input /\ inbox' = inbox
    BY <1>8 DEF AdmitStart, Admits
  <2>2. job'.attempts = job.attempts + 1 /\ job'.trigger = Oldest
    BY <1>8 DEF AdmitStart, TypeOK, JobRows
  <2>3. driver'.n = job.attempts + 1
    BY <1>8 DEF AdmitStart, Drives
  <2>4. JobSteady /\ InboxGrows
    BY <1>2, <2>1, <2>2 DEF JobSteady, Live, InboxGrows
  <2>5. ArrivalsKept
    BY <1>2, <2>1, <2>3 DEF ArrivalsKept, MayArrive
  <2>6. Heads'
    BY <2>1, <2>2, OldestIs DEF Heads, Open
  <2> QED
    BY <2>4, <2>5, <2>6
<1>9. CASE StartTask
  <2>1. UNCHANGED <<job, input, inbox>> /\ driver'.phase = driver.phase
        /\ driver'.mode = driver.mode /\ driver'.n = driver.n /\ driver'.conn = driver.conn
    BY <1>9 DEF StartTask, TypeOK, Drivers
  <2> QED
    BY <1>1, <1>3, <2>1, JobKept, NoNewStart DEF InboxGrows, NoStart, Heads, Open
<1>10. CASE SendStart
  <2> DEFINE m == [kind |-> driver.mode, n |-> driver.n]
  <2>1. UNCHANGED <<job, input>> /\ driver'.phase = driver.phase
        /\ driver'.mode = driver.mode /\ driver'.n = driver.n /\ driver'.conn = driver.conn
    BY <1>10 DEF SendStart, TypeOK, Drivers
  <2>2. driver.phase \in {"starting", "running"} /\ driver.n = job.attempts
        /\ m \in Messages /\ m.kind # "stop"
    BY <1>10 DEF SendStart, Driving, TypeOK, Drivers, Messages
  <2>3. JobSteady /\ Heads'
    BY <1>1, <2>1, JobKept DEF Heads, Open
  <2>4. CASE inbox' = inbox
    BY <1>1, <1>3, <2>1, <2>3, <2>4, NoNewStart DEF InboxGrows, NoStart
  <2>5. CASE inbox' = Append(inbox, m) /\ worker.up /\ driver.conn = worker.conn
    <3>1. InboxGrows
      BY <2>1, <2>2, <2>5 DEF InboxGrows
    <3>2. /\ Len(inbox) \in Nat /\ Len(inbox') = Len(inbox) + 1
          /\ \A k \in 1 .. Len(inbox) : inbox'[k] = inbox[k]
          /\ inbox'[Len(inbox) + 1] = m
      BY <2>2, <2>5, AppendIs DEF TypeOK
    <3>3. ASSUME NEW n \in Attempts, MayArrive(n)'
          PROVE  MayArrive(n)
      <4>1. CASE \E i \in 1 .. Len(inbox') : inbox'[i].kind = "start" /\ inbox'[i].n = n
        <5>1. PICK i \in 1 .. Len(inbox') : inbox'[i].kind = "start" /\ inbox'[i].n = n
          BY <4>1
        <5>2. CASE i \in 1 .. Len(inbox)
          BY <3>2, <5>1, <5>2 DEF MayArrive
        <5>3. CASE i = Len(inbox) + 1
          BY <2>2, <2>5, <3>2, <5>1, <5>3 DEF MayArrive
        <5> QED
          BY <3>2, <5>2, <5>3
      <4>2. CASE ~ \E i \in 1 .. Len(inbox') : inbox'[i].kind = "start" /\ inbox'[i].n = n
        BY <1>3, <2>1, <3>3, <4>2 DEF MayArrive
      <4> QED
        BY <4>1, <4>2
    <3> QED
      BY <2>3, <3>1, <3>3 DEF ArrivalsKept
  <2> QED
    BY <1>10, <2>4, <2>5 DEF SendStart
<1>11. CASE StartEnds
  <2>1. /\ driver.phase \in {"starting", "running"} /\ driver'.mode = driver.mode
        /\ driver'.n = driver.n /\ driver'.conn = driver.conn
        /\ UNCHANGED <<job, input, inbox>>
    BY <1>11 DEF StartEnds, Driving, TypeOK, Drivers
  <2> QED
    BY <1>1, <1>3, <2>1, JobKept, NoNewStart DEF InboxGrows, NoStart, Heads, Open
<1> QED
  BY <1>5, <1>6, <1>7, <1>8, <1>9, <1>10, <1>11 DEF DriverNext

LEMMA OwnerKeeps ==
    ASSUME Inv, Base', OwnerNext
    PROVE  Inv'
<1> USE DEF Inv, Base
<1>1. TypeOK /\ Driving /\ Heads /\ job.attempts \in Nat
  BY ClaimsAssumption DEF TypeOK, JobRows
<1>2. UNCHANGED <<driver, row, worker, turn, calls, history, faults>>
  BY DEF OwnerNext, Message, Stop, ExternalComplete
<1>3. CASE Message
  <2>1. PICK s \in Steers :
               /\ \A r \in Steers : input[r] = "absent" <=> r >= s
               /\ input' = [input EXCEPT ![s] = "open"]
    BY <1>3 DEF Message
  <2>2. job' = job /\ inbox' = inbox
    BY <1>3 DEF Message
  <2>3. s \in Nat /\ s > 0 /\ s \in Signals
    BY <2>1, BoundsAssumption DEF Steers, Signals
  <2>4. Open' = Open \cup {s}
    BY <2>1, <2>3 DEF Open, TypeOK
  <2>5. \A r \in Open : r < s
    <3>1. \A r \in Open : r \in Signals /\ input[r] # "absent"
      BY DEF Open
    <3>2. \A r \in Signals : r = 0 \/ r \in Steers
      BY BoundsAssumption DEF Signals, Steers
    <3>3. \A r \in Signals : r \in Nat
      BY BoundsAssumption DEF Signals
    <3>4. ASSUME NEW r \in Open PROVE r < s
      <4>1. r = 0 \/ (r \in Steers /\ ~(r >= s))
        BY <2>1, <3>1, <3>2
      <4>2. r \in Nat
        BY <3>1, <3>3
      <4> QED
        BY <2>3, <4>1, <4>2
    <3> QED
      BY <3>4
  <2>6. Heads'
    <3>1. \A r \in Open : r \in Nat
      BY BoundsAssumption DEF Open, Signals
    <3> QED
      BY <1>1, <2>2, <2>3, <2>4, <2>5, <3>1 DEF Heads
  <2> QED
    BY <1>1, <1>2, <2>2, <2>6, JobKept, NoNewStart, QuietStep DEF InboxGrows, NoStart
<1>4. CASE Stop \/ ExternalComplete
  <2>1. job'.attempts = job.attempts /\ job'.status # "running"
    BY <1>4 DEF Stop, ExternalComplete, TypeOK, JobRows
  <2>2. InboxGrows /\ NoStart
    <3>1. CASE job.status = "running" /\ Control(job.attempts)
      <4>1. job.attempts \in Attempts /\ ~(Live(job.attempts)')
        BY <2>1, <3>1 DEF Driving, Live
      <4> QED
        BY <1>1, <2>1, <3>1, <4>1, Controlled
    <3>2. CASE inbox' = inbox
      BY <3>2 DEF InboxGrows, NoStart
    <3> QED
      BY <1>4, <3>1, <3>2 DEF Stop, ExternalComplete
  <2> QED
    BY <1>1, <1>2, <2>1, <2>2, JobKept, NoNewStart, QuietStep DEF Heads
<1> QED
  BY <1>3, <1>4 DEF OwnerNext

LEMMA WatchdogKeeps ==
    ASSUME Inv, Base', Watchdog
    PROVE  Inv'
<1>1. UNCHANGED <<job, input, driver, row, inbox, worker, turn, history>>
  BY DEF Watchdog, StallIdle, StallSlow, Stalls
<1> QED
  BY <1>1, JobKept, NoNewStart, QuietStep DEF Inv, Base, InboxGrows, NoStart, Heads, Open

LEMMA AnswerIs ==
    ASSUME TypeOK, NEW c \in calls, NEW reply \in {"ok", "refused"}, Answer(c, reply)
    PROVE  \/ turn' = turn
           \/ /\ turn' = [turn EXCEPT ![c.n].reply = reply]
              /\ \/ c.op = "report" /\ turn[c.n].phase = "reporting"
                 \/ c.op = "abort" /\ turn[c.n].phase = "aborting"
  BY DEF Answer, Awaits

LEMMA HandleKeeps ==
    ASSUME Inv, Base', NEW n \in Attempts, Handle(n)
    PROVE  Inv'
<1> USE DEF Inv, Base
<1>1. TypeOK /\ Driving /\ Heads /\ job.attempts \in Nat /\ n \in Nat
  BY ClaimsAssumption DEF TypeOK, JobRows, Attempts
<1>2. PICK c \in calls : c.n = n /\ (HandleReport(c) \/ HandleAbort(c) \/ AbortFails(c))
  BY DEF Handle
<1>3. c \in Calls
  BY <1>1 DEF TypeOK
<1>4. UNCHANGED <<driver, row, worker, launched>> /\ dropped \subseteq dropped'
  BY <1>2 DEF HandleReport, HandleAbort, AbortFails
<1>5. PICK reply \in {"ok", "refused"} :
             /\ \/ turn' = turn
                \/ /\ turn' = [turn EXCEPT ![n].reply = reply]
                   /\ \/ c.op = "report" /\ turn[n].phase = "reporting"
                      \/ c.op = "abort" /\ turn[n].phase = "aborting"
             /\ \/ /\ job' = job /\ input' = input
                   /\ reply = "ok" => ~Live(n) \/ c.op # "report"
                   /\ c.op = "abort" => ~Live(n) \/ n \in dropped' \/ turn' = turn
                \/ job'.status # "running" /\ job'.attempts = job.attempts
  <2>1. CASE HandleReport(c)
    <3>1. c.what \in Outcomes
      BY <1>3, <2>1 DEF HandleReport, Calls
    <3>2. CASE Reported(c) /\ Answer(c, "ok")
      BY <1>1, <1>2, <1>3, <3>1, <3>2, ReportedTyped, AnswerIs
    <3>3. CASE job' = job /\ input' = input /\ Answer(c, "refused")
      BY <1>1, <1>2, <2>1, <3>3, AnswerIs DEF HandleReport
    <3>4. CASE ~Live(n) /\ job' = job /\ input' = input
               /\ \E reply \in {"ok", "refused"} : Answer(c, reply)
      BY <1>1, <1>2, <3>4, AnswerIs
    <3> QED
      BY <1>2, <2>1, <3>2, <3>3, <3>4 DEF HandleReport
  <2>2. CASE HandleAbort(c)
    <3>1. \E reply \in {"ok", "refused"} : Answer(c, reply)
      BY <2>2 DEF HandleAbort
    <3>2. \/ job' = job /\ input' = input /\ ~Live(n)
          \/ job'.status # "running" /\ job'.attempts = job.attempts
      BY <1>1, <1>2, <2>2, AbortedTyped DEF HandleAbort
    <3>3. c.op # "report"
      BY <2>2 DEF HandleAbort
    <3> QED
      BY <1>1, <1>2, <3>1, <3>2, <3>3, AnswerIs
  <2>3. CASE AbortFails(c)
    <3>1. job' = job /\ input' = input /\ c.op # "report"
      BY <2>3 DEF AbortFails
    <3>2. CASE turn' = turn
      BY <3>1, <3>2
    <3>3. CASE /\ c.op = "abort" /\ turn[n].phase = "aborting"
               /\ turn' = [turn EXCEPT ![n].reply = "refused"]
               /\ Live(n) => n \in dropped'
      BY <3>1, <3>3
    <3> QED
      BY <1>2, <2>3, <3>2, <3>3 DEF AbortFails, Awaits
  <2> QED
    BY <1>2, <2>1, <2>2, <2>3
<1>6. JobSteady /\ Heads' /\ job'.attempts = job.attempts
      /\ \A m \in Attempts : Live(m)' => Live(m)
  BY <1>1, <1>5, JobKept DEF Heads, Open, Live
<1>7. InboxGrows /\ NoStart
  <2>1. CASE inbox' = inbox
    BY <2>1 DEF InboxGrows, NoStart
  <2>2. CASE HandleAbort(c) /\ job.attempts = n /\ Control(n)
    <3>1. ~(Live(n)')
      BY <1>1, <1>2, <2>2, AbortedTyped DEF HandleAbort, Live
    <3> QED
      BY <1>1, <1>6, <2>2, <3>1, Controlled
  <2> QED
    BY <1>2, <2>1, <2>2 DEF HandleReport, HandleAbort, AbortFails
<1>8. ArrivalsKept
  BY <1>1, <1>4, <1>7, NoNewStart
<1>9. CASE turn' = turn
  BY <1>4, <1>6, <1>7, <1>8, <1>9, QuietStep
<1>10. CASE /\ turn' # turn /\ turn' = [turn EXCEPT ![n].reply = reply]
            /\ \/ c.op = "report" /\ turn[n].phase = "reporting"
               \/ c.op = "abort" /\ turn[n].phase = "aborting"
  <2>1. /\ \A m \in Attempts \ {n} : turn'[m] = turn[m]
        /\ turn[n] \in Turns /\ turn'[n] = [turn[n] EXCEPT !.reply = reply]
    BY <1>1, <1>10 DEF TypeOK
  <2>2. /\ turn'[n].reply = reply /\ turn'[n].phase = turn[n].phase
        /\ turn'[n].stop = turn[n].stop /\ turn'[n].ack = turn[n].ack
        /\ SamePhase(n)
    BY <2>1 DEF Turns, SamePhase
  <2>3. \A m \in Attempts : SamePhase(m)
    BY <2>1, <2>2 DEF SamePhase
  <2>4. ASSUME NEW m \in Attempts PROVE Settled(m)'
    <3>1. Settled(m)
      OBVIOUS
    <3>2. CASE m # n
      BY <1>4, <1>6, <2>1, <3>1, <3>2 DEF Settled, Running
    <3>3. CASE m = n
      <4>1. turn[n].phase = "reporting" /\ reply = "ok" => ~(Live(n)')
        BY <1>5, <1>10 DEF Live
      <4>2. turn[n].phase = "aborting" => ~(Live(n)') \/ n \in dropped' \/ turn' = turn
        BY <1>5, <1>10 DEF Live
      <4>3. turn[n].phase \in {"reporting", "aborting"}
        BY <1>10
      <4> QED
        BY <1>6, <1>10, <2>2, <3>1, <3>3, <4>1, <4>2, <4>3 DEF Settled, Running
    <3> QED
      BY <3>2, <3>3
  <2>5. Present' = Present
    BY <2>3 DEF Present, SamePhase
  <2>6. Ordered' /\ StopsTrue'
    BY <1>4, <1>6, <1>7, <2>5, GrowsOrdered
  <2>7. ASSUME NEW m \in launched \ dropped
        PROVE  /\ MayArrive(m)' => MayArrive(m)
               /\ turn'[m].phase = "confirming" => turn'[m].ack # "ok"
    <3>1. m \in Attempts /\ m <= job.attempts /\ Once(m)
      BY <1>1 DEF Ordered, TypeOK
    <3> QED
      BY <1>8, <2>1, <2>2, <3>1 DEF ArrivalsKept, Once
  <2> QED
    BY <1>1, <1>4, <1>6, <2>3, <2>4, <2>6, <2>7, SteadyStep DEF TypeOK
<1> QED
  BY <1>5, <1>9, <1>10
-----------------------------------------------------------------------------
(* Steps of the Worker *)

(* The first message is taken; an attempt that it starts is the newest.    *)
LEMMA TakenOrdered ==
    ASSUME Inv, Base', inbox # <<>>, inbox' = Tail(inbox), UNCHANGED <<job, driver, launched>>,
           worker'.up = worker.up, worker'.conn = worker.conn,
           \A n \in Present' : n \in Present \/ (n = Head(inbox).n /\ Head(inbox).kind # "stop")
    PROVE  /\ Ordered' /\ StopsTrue'
           /\ \A n \in Attempts : MayArrive(n)' => MayArrive(n)
<1> USE DEF Inv, Base
<1>1. /\ Len(inbox) \in Nat \ {0} /\ Len(inbox') = Len(inbox) - 1
      /\ Head(inbox) = inbox[1]
      /\ \A i \in 1 .. Len(inbox') : i + 1 \in 1 .. Len(inbox) /\ inbox'[i] = inbox[i + 1]
  BY TailIs DEF TypeOK
<1>2. 1 \in 1 .. Len(inbox)
  BY <1>1
<1>3. \A i \in 1 .. Len(inbox) : inbox[i].n \in Attempts
  BY InboxIs
<1>4. Ordered'
  <2>1. \A n \in Present' \cup launched' : n <= job'.attempts
    BY <1>1, <1>2 DEF Ordered
  <2>2. \A i \in 1 .. Len(inbox') : inbox'[i].n <= job'.attempts
    BY <1>1 DEF Ordered
  <2>3. ASSUME NEW i \in 1 .. Len(inbox'), NEW j \in 1 .. Len(inbox'),
               i < j, inbox'[i].kind # "stop", inbox'[j].kind # "stop"
        PROVE  inbox'[i].n <= inbox'[j].n
    <3>1. i + 1 < j + 1
      BY <1>1, <2>3
    <3> QED
      BY <1>1, <2>3, <3>1 DEF Ordered
  <2>4. ASSUME NEW n \in Present', NEW i \in 1 .. Len(inbox'), inbox'[i].kind # "stop"
        PROVE  n <= inbox'[i].n
    <3>1. CASE n \in Present
      BY <1>1, <2>4, <3>1 DEF Ordered
    <3>2. CASE n = inbox[1].n /\ inbox[1].kind # "stop"
      <4>1. 1 < i + 1
        BY <1>1
      <4> QED
        BY <1>1, <1>2, <2>4, <3>2, <4>1 DEF Ordered
    <3> QED
      BY <1>1, <3>1, <3>2
  <2> QED
    BY <2>1, <2>2, <2>3, <2>4 DEF Ordered
<1>5. StopsTrue'
  BY <1>1 DEF StopsTrue, Live
<1>6. \A n \in Attempts : MayArrive(n)' => MayArrive(n)
  BY <1>1 DEF MayArrive
<1> QED
  BY <1>4, <1>5, <1>6

LEMMA LaunchedIs ==
    ASSUME Inv, NEW n \in launched
    PROVE  n \in Attempts /\ n <= job.attempts /\ Once(n)
  BY DEF Inv, Base, TypeOK, Ordered

(* A start makes the attempt the newest on the Worker.                     *)
LEMMA NewestFirst ==
    ASSUME Inv, inbox # <<>>, Head(inbox).kind # "stop", Head(inbox).n \notin Present
    PROVE  \A m \in Present : m < Head(inbox).n
<1>1. Len(inbox) \in Nat \ {0} /\ Head(inbox) = inbox[1] /\ Head(inbox).n \in Attempts
  BY InboxIs, TailIs DEF Inv, Base, TypeOK, Messages
<1>2. 1 \in 1 .. Len(inbox)
  BY <1>1
<1>3. \A m \in Present : m <= Head(inbox).n /\ m # Head(inbox).n /\ m \in Nat
  BY <1>1, <1>2 DEF Inv, Ordered, Present, Attempts
<1> QED
  BY <1>1, <1>3 DEF Attempts

LEMMA ReceiveKeeps ==
    ASSUME Inv, Base', Receive
    PROVE  Inv'
<1> USE DEF Inv, Base
<1>1. PICK m : Received(m)
               /\ (ReceiveAgain(m) \/ ReceiveNew(m) \/ ReceiveRefused(m) \/ ReceiveStop(m))
  BY DEF Receive
<1>2. inbox # <<>> /\ m = Head(inbox) /\ inbox' = Tail(inbox) /\ m \in Messages
  BY <1>1, TailIs DEF Received, TypeOK
<1>3. m.n \in Attempts /\ turn[m.n] \in Turns /\ TypeOK
  BY <1>2 DEF Messages, TypeOK
<1>4. UNCHANGED <<job, input, driver, row, history>>
  BY DEF Receive, plane
<1>5. Heads' /\ \A n \in Attempts : Live(n)' = Live(n)
  BY <1>4 DEF Heads, Open, Live
<1>6. ASSUME UNCHANGED worker,
             \A n \in Attempts : SamePhase(n) /\ Settled(n)',
             \A n \in Attempts : turn'[n].ack = turn[n].ack \/ turn'[n].ack = "sent"
      PROVE  Inv'
  <2>1. Present' = Present
    BY <1>6 DEF Present, SamePhase
  <2>2. Ordered' /\ StopsTrue' /\ \A n \in Attempts : MayArrive(n)' => MayArrive(n)
    BY <1>2, <1>4, <1>6, <2>1, TakenOrdered
  <2>3. ASSUME NEW n \in launched \ dropped
        PROVE  turn'[n].phase = "confirming" => turn'[n].ack # "ok"
    BY <1>6, LaunchedIs DEF Once, SamePhase
  <2> QED
    BY <1>4, <1>5, <1>6, <2>2, <2>3, LaunchedIs, SteadyStep
<1>7. CASE turn' = turn /\ UNCHANGED worker
  BY <1>4, <1>5, <1>6, <1>7 DEF Settled, SamePhase
<1>8. CASE ReceiveAgain(m) /\ turn' # turn
  <2>1. turn[m.n].phase \in Running /\ turn[m.n].ack = "none" /\ ~turn[m.n].stop
        /\ turn' = [turn EXCEPT ![m.n].ack = "sent"] /\ UNCHANGED worker
    BY <1>8 DEF ReceiveAgain
  <2>2. /\ \A n \in Attempts \ {m.n} : turn'[n] = turn[n]
        /\ turn'[m.n] = [turn[m.n] EXCEPT !.ack = "sent"]
    BY <1>3, <2>1 DEF TypeOK
  <2>3. /\ SamePhase(m.n) /\ turn'[m.n].ack = "sent"
        /\ turn'[m.n].stop = turn[m.n].stop /\ turn'[m.n].reply = turn[m.n].reply
        /\ turn'[m.n].phase = turn[m.n].phase
    BY <1>3, <2>2 DEF Turns, SamePhase
  <2>4. Settled(m.n)'
    BY <1>3, <1>5, <2>1, <2>3 DEF Settled, Running
  <2>5. \A n \in Attempts \ {m.n} : Settled(n)' /\ SamePhase(n)
    BY <1>4, <1>5, <2>2 DEF Settled, SamePhase
  <2> QED
    BY <1>6, <2>1, <2>2, <2>3, <2>4, <2>5
<1>9. CASE ReceiveStop(m) /\ turn' # turn
  <2>1. turn' = [turn EXCEPT ![m.n].stop = TRUE] /\ UNCHANGED worker /\ m.kind = "stop"
    BY <1>9 DEF ReceiveStop
  <2>2. /\ \A n \in Attempts \ {m.n} : turn'[n] = turn[n]
        /\ turn'[m.n] = [turn[m.n] EXCEPT !.stop = TRUE]
    BY <1>3, <2>1 DEF TypeOK
  <2>3. /\ SamePhase(m.n) /\ turn'[m.n].ack = turn[m.n].ack
        /\ turn'[m.n].reply = turn[m.n].reply /\ turn'[m.n].phase = turn[m.n].phase
    BY <1>3, <2>2 DEF Turns, SamePhase
  <2>4. ~Live(m.n)
    <3>1. 1 \in 1 .. Len(inbox) /\ m = inbox[1]
      BY <1>2, TailIs DEF TypeOK
    <3> QED
      BY <2>1, <3>1 DEF StopsTrue
  <2>5. Settled(m.n)'
    BY <1>3, <1>5, <2>3, <2>4 DEF Settled, Running
  <2>6. \A n \in Attempts \ {m.n} : Settled(n)' /\ SamePhase(n)
    BY <1>4, <1>5, <2>2 DEF Settled, SamePhase
  <2> QED
    BY <1>6, <2>1, <2>2, <2>3, <2>5, <2>6
<1>10. CASE ReceiveNew(m)
  <2> DEFINE n == m.n
  <2>1. m.kind = "start" /\ n \notin Present
    BY <1>10 DEF ReceiveNew, Accepts
  <2>2. \A k \in Present : k < n
    BY <1>2, <2>1, NewestFirst
  <2>3. PICK d \in 0 .. MaxClaims :
          /\ turn'[n] = [Confirming EXCEPT !.donor = d]
          /\ d # 0 => d \in Donors(n) /\ turn'[d] = [turn[d] EXCEPT !.over = TRUE]
                      /\ UNCHANGED worker
          /\ d = 0 => worker.used < MaxSlots /\ worker' = [worker EXCEPT !.used = @ + 1]
          /\ \A k \in Attempts \ {n, d} : turn'[k] = turn[k]
    <3>1. CASE /\ worker.used < MaxSlots
               /\ worker' = [worker EXCEPT !.used = @ + 1]
               /\ turn' = [turn EXCEPT ![n] = Confirming]
      <4>1. Confirming = [Confirming EXCEPT !.donor = 0]
        <5>1. \A t \in Turns : t.donor = 0 => t = [t EXCEPT !.donor = 0]
          BY DEF Turns
        <5>2. Confirming.donor = 0
          BY DEF Confirming, NoTurn
        <5> QED
          BY <5>1, <5>2, ConfirmingTyped
      <4>2. 0 \in 0 .. MaxClaims
        BY ClaimsAssumption
      <4>3. turn'[n] = Confirming /\ \A k \in Attempts \ {n} : turn'[k] = turn[k]
        BY <1>3, <3>1 DEF TypeOK
      <4> QED
        BY <3>1, <4>1, <4>2, <4>3
    <3>2. ASSUME NEW d \in Donors(n), UNCHANGED worker,
                 turn' = [turn EXCEPT ![d].over = TRUE, ![n] = [Confirming EXCEPT !.donor = d]]
          PROVE  /\ d \in 0 .. MaxClaims /\ d # 0 /\ d # n
                 /\ turn'[n] = [Confirming EXCEPT !.donor = d]
                 /\ turn'[d] = [turn[d] EXCEPT !.over = TRUE]
                 /\ \A k \in Attempts \ {n, d} : turn'[k] = turn[k]
      <4>1. d \in Attempts /\ d # n
        BY <2>1, <3>2 DEF Donors, Older, Present
      <4>2. d \in 0 .. MaxClaims /\ d # 0
        BY <4>1, ClaimsAssumption DEF Attempts
      <4> QED
        BY <1>3, <3>2, <4>1, <4>2 DEF TypeOK
    <3> QED
      BY <1>10, <3>1, <3>2 DEF ReceiveNew
  <2>4. /\ d # 0 => d \in Present /\ d < n /\ ~turn[d].over /\ turn[d] \in Turns
        /\ \A k \in Present : k \in Attempts /\ k # 0 /\ turn[k] \in Turns
        /\ n \in Attempts /\ n \in Nat /\ n # 0 /\ d # n
    <3>1. n \in Attempts /\ n \in Nat /\ n # 0
      BY <1>3 DEF Attempts
    <3>2. d # 0 => d \in Present /\ d < n /\ ~turn[d].over
      BY <2>3 DEF Donors, Older
    <3>3. \A k \in Present : k \in Attempts /\ k # 0 /\ turn[k] \in Turns
      BY DEF Present, Attempts, TypeOK
    <3> QED
      BY <2>1, <3>1, <3>2, <3>3
  <2>5. /\ turn'[n].phase = "confirming" /\ turn'[n].donor = d /\ ~turn'[n].over
        /\ turn'[n].ack = "sent" /\ ~turn'[n].stop /\ turn'[n].reply = "none"
    <3>1. \A t \in Turns : \A e \in 0 .. MaxClaims :
             [t EXCEPT !.donor = e] = [phase |-> t.phase, stop |-> t.stop, over |-> t.over,
                donor |-> e, ack |-> t.ack, wait |-> t.wait, reply |-> t.reply]
      BY DEF Turns
    <3>2. turn'[n] = [phase |-> Confirming.phase, stop |-> Confirming.stop, over |-> Confirming.over,
                donor |-> d, ack |-> Confirming.ack, wait |-> Confirming.wait, reply |-> Confirming.reply]
      BY <2>3, <3>1, ConfirmingTyped
    <3> QED
      BY <3>2 DEF Confirming, NoTurn
  <2>6. \A k \in Attempts \ {n} :
           /\ turn'[k].phase = turn[k].phase /\ turn'[k].donor = turn[k].donor
           /\ turn'[k].wait = turn[k].wait /\ turn'[k].ack = turn[k].ack
           /\ turn'[k].stop = turn[k].stop /\ turn'[k].reply = turn[k].reply
           /\ turn'[k].over = (turn[k].over \/ k = d)
    <3>1. d # 0 => /\ turn'[d].phase = turn[d].phase /\ turn'[d].donor = turn[d].donor
                   /\ turn'[d].wait = turn[d].wait /\ turn'[d].ack = turn[d].ack
                   /\ turn'[d].stop = turn[d].stop /\ turn'[d].reply = turn[d].reply
                   /\ turn'[d].over = TRUE
      BY <2>3, <2>4 DEF Turns
    <3>2. 0 \notin Attempts
      BY DEF Attempts
    <3>3. \A k \in Attempts : turn[k].over \in BOOLEAN
      BY <1>3 DEF TypeOK, Turns
    <3> QED
      BY <2>3, <3>1, <3>2, <3>3
  <2>7. Present' = Present \cup {n}
    BY <2>4, <2>5, <2>6 DEF Present
  <2>8. worker'.up = worker.up /\ worker'.conn = worker.conn
    BY <2>3, <1>3 DEF TypeOK, Workers
  <2>9. Ordered' /\ StopsTrue' /\ \A k \in Attempts : MayArrive(k)' => MayArrive(k)
    BY <1>2, <1>4, <2>1, <2>7, <2>8, TakenOrdered
  <2>10. \A k \in Present : Older(k)' = Older(k)
    BY <2>2, <2>4, <2>7 DEF Older, Attempts
  <2>11. Retires'
    <3>1. \A k \in Attempts : turn'[k].phase = "retiring" \/ turn'[k].phase \in Running
             => k \in Present /\ k # n
      BY <2>1, <2>5, <2>6 DEF Running, Present
    <3> QED
      BY <2>6, <2>10, <3>1 DEF Retires
  <2>12. ASSUME NEW k \in Attempts PROVE Settled(k)' /\ Once(k)'
    <3>1. CASE k = n
      <4>1. Settled(n)'
        BY <2>5 DEF Settled, Running
      <4>2. n \in launched => ~Live(n) \/ n \in dropped
        <5>1. MayArrive(n)
          <6>1. 1 \in 1 .. Len(inbox) /\ m = inbox[1]
            BY <1>2, TailIs DEF TypeOK
          <6> QED
            BY <2>1, <6>1 DEF MayArrive
        <5> QED
          BY <2>1, <5>1, LaunchedIs DEF Once
      <4>3. Once(n)'
        BY <1>4, <1>5, <2>4, <2>5, <2>7, <4>2 DEF Once
      <4> QED
        BY <3>1, <4>1, <4>3
    <3>2. CASE k # n
      BY <1>4, <1>5, <2>6, <2>7, <2>9, <3>2 DEF Settled, Once, Running
    <3> QED
      BY <3>1, <3>2
  <2>13. SlotsExact'
    <3>1. worker'.used <= MaxSlots /\ worker'.used = worker'.other + Cardinality(Owners')
      <4>1. CASE d = 0
        <5>1. Owners' = Owners \cup {n} /\ n \notin Owners
          BY <2>1, <2>4, <2>5, <2>6, <2>7, <4>1 DEF Owners
        <5>2. Cardinality(Owners') = Cardinality(Owners) + 1
          BY <5>1, OwnersFinite, FS_AddElement
        <5>3. /\ worker.used \in Nat /\ worker.other \in Nat /\ worker'.used = worker.used + 1
              /\ worker'.other = worker.other /\ worker.used < MaxSlots
          BY <1>3, <2>3, <4>1 DEF TypeOK, Workers
        <5> QED
          BY <5>2, <5>3, OwnersFinite, SlotsAssumption DEF SlotsExact
      <4>2. CASE d # 0
        <5>1. Owners' = Owners
          BY <2>1, <2>4, <2>5, <2>6, <2>7, <4>2 DEF Owners
        <5> QED
          BY <2>3, <4>2, <5>1 DEF SlotsExact
      <4> QED
        BY <4>1, <4>2
    <3>2. ASSUME NEW k \in Present', turn'[k].donor # 0
          PROVE  /\ turn'[k].donor \in Present' /\ turn'[k].donor < k
                 /\ turn'[turn'[k].donor].over
      <4>1. CASE k = n
        BY <2>4, <2>5, <2>6, <2>7, <3>2, <4>1 DEF Handed
      <4>2. CASE k # n
        <5>1. k \in Present /\ turn'[k].donor = turn[k].donor
          BY <2>4, <2>6, <2>7, <4>2
        <5>2. Handed(turn[k].donor, k)
          BY <3>2, <5>1 DEF SlotsExact
        <5>3. turn[k].donor \in Present /\ turn[k].donor # n
          BY <2>1, <5>2 DEF Handed
        <5> QED
          BY <2>4, <2>6, <2>7, <5>1, <5>2, <5>3 DEF Handed
      <4> QED
        BY <4>1, <4>2
    <3>3. ASSUME NEW e \in Present', turn'[e].over
          PROVE  \E k \in Present' : /\ turn'[k].donor = e
                                     /\ \A l \in Present' : turn'[l].donor = e => l = k
      <4>1. e \in Present /\ e # n /\ e # 0
        BY <2>4, <2>5, <2>7, <3>3
      <4>2. CASE e = d
        <5>1. \A l \in Present : turn[l].donor # d
          BY <2>4, <4>1, <4>2 DEF SlotsExact, Handed
        <5> QED
          BY <2>4, <2>5, <2>6, <2>7, <4>2, <5>1
      <4>3. CASE e # d
        <5>1. turn[e].over
          BY <2>4, <2>6, <3>3, <4>1, <4>3
        <5>2. PICK k \in Present : /\ turn[k].donor = e
                                   /\ \A l \in Present : turn[l].donor = e => l = k
          BY <4>1, <5>1 DEF SlotsExact
        <5> QED
          BY <2>1, <2>4, <2>5, <2>6, <2>7, <4>3, <5>2
      <4> QED
        BY <4>2, <4>3
    <3> QED
      BY <3>1, <3>2, <3>3 DEF SlotsExact, Handed
  <2> QED
    BY <1>5, <2>9, <2>11, <2>12, <2>13
<1> QED
  BY <1>1, <1>7, <1>8, <1>9, <1>10 DEF ReceiveAgain, ReceiveRefused, ReceiveStop
-----------------------------------------------------------------------------
(* Steps of a Turn *)

(* The queue, the Job and the driver's start stay as they are.             *)
LEMMA SameOrder ==
    ASSUME Inv, Base', UNCHANGED <<job, input, inbox, worker>>, Present' \subseteq Present,
           launched' \subseteq launched \cup Present,
           driver'.phase \in {"starting", "running"} => driver.phase \in {"starting", "running"},
           driver'.mode = driver.mode, driver'.n = driver.n, driver'.conn = driver.conn
    PROVE  /\ Ordered' /\ StopsTrue' /\ Heads'
           /\ \A n \in Attempts : (Live(n)' <=> Live(n)) /\ (MayArrive(n)' => MayArrive(n))
<1>1. Ordered'
  BY DEF Inv, Ordered
<1>2. StopsTrue'
  BY DEF Inv, StopsTrue, Live
<1>3. Heads'
  BY DEF Inv, Heads, Open
<1> QED
  BY <1>1, <1>2, <1>3 DEF MayArrive, Live

(* One Turn changes, and not its phase.                                    *)
LEMMA OneTurnSteady ==
    ASSUME Inv, Base', UNCHANGED <<job, input, inbox, worker, history>>, NEW n \in Attempts,
           driver'.phase \in {"starting", "running"} => driver.phase \in {"starting", "running"},
           driver'.mode = driver.mode, driver'.n = driver.n, driver'.conn = driver.conn,
           \A m \in Attempts \ {n} : turn'[m] = turn[m],
           SamePhase(n), Settled(n)',
           n \in launched /\ n \notin dropped /\ turn'[n].phase = "confirming"
              => turn'[n].ack # "ok"
    PROVE  Inv'
<1>1. Present' = Present
  BY DEF Present, SamePhase
<1>2. /\ Ordered' /\ StopsTrue' /\ Heads'
      /\ \A m \in Attempts : (Live(m)' <=> Live(m)) /\ (MayArrive(m)' => MayArrive(m))
  BY <1>1, SameOrder
<1>3. \A m \in Attempts : SamePhase(m) /\ Settled(m)'
  BY <1>2 DEF Inv, Settled, SamePhase
<1>4. \A m \in launched \ dropped : turn'[m].phase = "confirming" => turn'[m].ack # "ok"
  BY LaunchedIs DEF Once
<1> QED
  BY <1>2, <1>3, <1>4, LaunchedIs, SteadyStep

LEMMA ConfirmKeeps ==
    ASSUME Inv, Base', NEW n \in Attempts, ConfirmArrives(n)
    PROVE  Inv'
<1> DEFINE a == IF Live(n) THEN "ok" ELSE "refused"
<1>1. turn \in [Attempts -> Turns] /\ turn[n] \in Turns /\ driver \in Drivers
  BY DEF Inv, Base, TypeOK
<1>2. /\ \A m \in Attempts \ {n} : turn'[m] = turn[m]
      /\ turn'[n] = [turn[n] EXCEPT !.ack = a]
      /\ UNCHANGED <<job, input, inbox, worker, history>>
  BY <1>1 DEF ConfirmArrives
<1>3. /\ SamePhase(n) /\ turn'[n].ack = a /\ turn'[n].phase = turn[n].phase
      /\ turn'[n].stop = turn[n].stop /\ turn'[n].reply = turn[n].reply
  BY <1>1, <1>2 DEF Turns, SamePhase
<1>4. /\ driver'.phase \in {"starting", "running"} => driver.phase \in {"starting", "running"}
      /\ driver'.mode = driver.mode /\ driver'.n = driver.n /\ driver'.conn = driver.conn
  BY <1>1 DEF ConfirmArrives, Drivers
<1>5. turn[n].phase # "none"
  BY DEF ConfirmArrives, Inv, Settled
<1>6. Live(n)' <=> Live(n)
  BY <1>2 DEF Live
<1>7. Settled(n)'
  <2>1. Settled(n)
    BY DEF Inv
  <2> QED
    BY <1>2, <1>3, <1>5, <1>6, <2>1 DEF Settled
<1>8. n \in launched /\ n \notin dropped /\ turn'[n].phase = "confirming"
         => turn'[n].ack # "ok"
  BY <1>3, LaunchedIs DEF Once
<1> QED
  BY <1>2, <1>3, <1>4, <1>7, <1>8, OneTurnSteady

LEMMA AckKeeps ==
    ASSUME Inv, Base', NEW n \in Attempts, AckArrives(n)
    PROVE  Inv'
<1>1. turn \in [Attempts -> Turns] /\ turn[n] \in Turns
  BY DEF Inv, Base, TypeOK
<1>2. UNCHANGED <<job, input, driver, inbox, worker, history>>
  BY DEF AckArrives, plane
<1>3. turn[n].phase # "none" /\ Settled(n)
  BY DEF AckArrives, Inv, Settled
<1>4. Live(n)' <=> Live(n)
  BY <1>2 DEF Live
<1>5. CASE \/ turn[n].ack = "refused"
           \/ ~(turn[n].phase = "confirming" /\ ~turn[n].stop)
  <2>1. /\ \A m \in Attempts \ {n} : turn'[m] = turn[m]
        /\ turn'[n] = IF turn[n].ack = "refused"
                      THEN [turn[n] EXCEPT !.ack = "none", !.stop = TRUE]
                      ELSE [turn[n] EXCEPT !.ack = "none"]
    BY <1>1, <1>5 DEF AckArrives
  <2>2. /\ SamePhase(n) /\ turn'[n].ack = "none" /\ turn'[n].phase = turn[n].phase
        /\ turn'[n].reply = turn[n].reply
        /\ turn'[n].stop = turn[n].stop \/ turn[n].ack = "refused"
    BY <1>1, <2>1 DEF Turns, SamePhase
  <2>3. Settled(n)'
    BY <1>2, <1>3, <1>4, <2>2 DEF Settled
  <2> QED
    BY <1>2, <2>1, <2>2, <2>3, OneTurnSteady
<1>6. CASE turn[n].ack = "ok" /\ turn[n].phase = "confirming" /\ ~turn[n].stop
  <2>1. \A m \in Attempts : turn'[m] =
          CASE m = n -> [turn[m] EXCEPT !.phase = "retiring", !.ack = "none", !.wait = Older(n)]
            [] m \in Older(n) -> [turn[m] EXCEPT !.stop = TRUE]
            [] OTHER -> turn[m]
    BY <1>6 DEF AckArrives
  <2>2. n \in Present /\ n \in Nat /\ n \notin Older(n)
    BY <1>3 DEF Present, Older, Attempts
  <2>3. /\ turn'[n].phase = "retiring" /\ turn'[n].ack = "none" /\ turn'[n].wait = Older(n)
        /\ turn'[n].reply = turn[n].reply
        /\ turn'[n].donor = turn[n].donor /\ turn'[n].over = turn[n].over
    <3>1. \A w : LET t == [turn[n] EXCEPT !.phase = "retiring", !.ack = "none", !.wait = w] IN
             /\ t.phase = "retiring" /\ t.ack = "none" /\ t.wait = w /\ t.reply = turn[n].reply
             /\ t.donor = turn[n].donor /\ t.over = turn[n].over
      BY <1>1 DEF Turns
    <3>2. turn'[n] = [turn[n] EXCEPT !.phase = "retiring", !.ack = "none", !.wait = Older(n)]
      BY <2>1, <2>2
    <3> QED
      BY <3>1, <3>2
  <2>4. ASSUME NEW m \in Attempts, m # n
        PROVE  /\ SamePhase(m) /\ turn'[m].phase = turn[m].phase /\ turn'[m].wait = turn[m].wait
               /\ turn'[m].ack = turn[m].ack /\ turn'[m].reply = turn[m].reply
               /\ turn'[m].donor = turn[m].donor /\ turn'[m].over = turn[m].over
               /\ turn'[m].stop = turn[m].stop \/ m \in Older(n)
    <3>1. turn[m] \in Turns
      BY <1>1
    <3>2. \/ turn'[m] = [turn[m] EXCEPT !.stop = TRUE] /\ m \in Older(n)
          \/ turn'[m] = turn[m]
      BY <2>1, <2>4
    <3>3. \A t \in Turns : LET u == [t EXCEPT !.stop = TRUE] IN
             /\ u.phase = t.phase /\ u.over = t.over /\ u.donor = t.donor
             /\ u.ack = t.ack /\ u.wait = t.wait /\ u.reply = t.reply
      BY DEF Turns
    <3> QED
      BY <3>1, <3>2, <3>3 DEF SamePhase
  <2>5. SlotsExact' /\ Present' = Present
    BY <1>2, <1>6, <2>3, <2>4, SameSlots DEF Inv
  <2>6. /\ Ordered' /\ StopsTrue' /\ Heads'
        /\ \A m \in Attempts : (Live(m)' <=> Live(m)) /\ (MayArrive(m)' => MayArrive(m))
    BY <1>2, <2>5, SameOrder
  <2>7. \A m \in Attempts : Older(m)' = Older(m)
    BY <2>5 DEF Older
  <2>8. Retires'
    BY <2>3, <2>4, <2>7 DEF Inv, Retires, Running
  <2>9. ASSUME NEW m \in Older(n) PROVE ~Live(m)
    <3>1. m < n /\ n <= job.attempts /\ m \in Nat /\ n \in Nat /\ job.attempts \in Nat
      BY <2>2, ClaimsAssumption DEF Older, Present, Attempts, Inv, Ordered, Base, TypeOK, JobRows
    <3> QED
      BY <3>1 DEF Live
  <2>10. ASSUME NEW m \in Attempts PROVE Settled(m)'
    <3>1. Settled(m)
      BY DEF Inv
    <3>2. CASE m = n
      BY <1>6, <2>3, <3>1, <3>2 DEF Settled, Running
    <3>3. CASE m # n
      BY <1>2, <2>4, <2>6, <2>9, <3>1, <3>3 DEF Settled
    <3> QED
      BY <3>2, <3>3
  <2>11. ASSUME NEW m \in Attempts PROVE Once(m)'
    <3>1. Once(m)
      BY DEF Inv
    <3>2. m = n => m \notin launched \/ m \in dropped
      BY <1>6, <3>1 DEF Once
    <3> QED
      BY <1>2, <2>4, <2>5, <2>6, <3>1, <3>2 DEF Once
  <2> QED
    BY <2>5, <2>6, <2>8, <2>10, <2>11 DEF Inv
<1> QED
  BY <1>5, <1>6 DEF AckArrives

(* A Turn enters the next phase: it has waited for the older ones before   *)
(* it executes, and no message about it is out.                            *)
LEMMA NextPhaseKeeps ==
    ASSUME Inv, Base', UNCHANGED <<job, input, driver, inbox, worker, dropped>>, NEW n \in Attempts,
           \A m \in Attempts \ {n} : turn'[m] = turn[m],
           launched' = launched \/ launched' = launched \cup {n},
           turn[n].phase # "none", turn'[n].phase \in {"executing", "reporting", "aborting"},
           turn'[n].donor = turn[n].donor, turn'[n].over = turn[n].over,
           turn'[n].phase \in Running => Older(n) = {},
           ~turn'[n].stop, turn'[n].ack \in {turn[n].ack, "none"}, turn'[n].reply = "none"
    PROVE  Inv'
<1>1. SlotsExact' /\ Present' = Present
  BY SameSlots DEF Inv
<1>2. n \in Present
  BY DEF Present
<1>3. /\ Ordered' /\ StopsTrue' /\ Heads'
      /\ \A m \in Attempts : (Live(m)' <=> Live(m)) /\ (MayArrive(m)' => MayArrive(m))
  BY <1>1, <1>2, SameOrder
<1>4. Retires'
  <2>1. \A m \in Attempts : Older(m)' = Older(m)
    BY <1>1 DEF Older
  <2> QED
    BY <2>1 DEF Inv, Retires
<1>5. ASSUME NEW m \in Attempts PROVE Settled(m)' /\ Once(m)'
  <2>1. Settled(m) /\ Once(m)
    BY DEF Inv
  <2>2. CASE m = n
    BY <1>1, <1>2, <1>3, <2>1, <2>2 DEF Settled, Once
  <2>3. CASE m # n
    BY <1>1, <1>3, <2>1, <2>3 DEF Settled, Once
  <2> QED
    BY <2>2, <2>3
<1> QED
  BY <1>1, <1>3, <1>4, <1>5 DEF Inv

LEMMA ExecutionKeeps ==
    ASSUME Inv, Base', NEW n \in Attempts, Launch(n) \/ Report(n) \/ Fail(n)
    PROVE  Inv'
<1>1. turn \in [Attempts -> Turns] /\ turn[n] \in Turns /\ Settled(n)
  BY DEF Inv, Base, TypeOK
<1>2. UNCHANGED <<job, input, driver, inbox, worker, dropped>>
      /\ (launched' = launched \/ launched' = launched \cup {n})
  BY DEF Launch, Report, Fail, plane
<1>3. CASE Launch(n)
  <2>1. /\ \A m \in Attempts \ {n} : turn'[m] = turn[m]
        /\ turn'[n] = [turn[n] EXCEPT !.phase = "executing"]
        /\ turn[n].phase = "retiring" /\ ~turn[n].stop /\ turn[n].wait = {}
    BY <1>1, <1>3 DEF Launch
  <2>2. /\ turn'[n].phase = "executing" /\ turn'[n].donor = turn[n].donor
        /\ turn'[n].over = turn[n].over /\ turn'[n].stop = turn[n].stop
        /\ turn'[n].ack = turn[n].ack /\ turn'[n].reply = turn[n].reply
    BY <1>1, <2>1 DEF Turns
  <2>3. Older(n) = {}
    BY <2>1 DEF Inv, Retires
  <2>4. turn[n].reply = "none"
    BY <1>1, <2>1 DEF Settled
  <2> QED
    BY <1>2, <2>1, <2>2, <2>3, <2>4, NextPhaseKeeps
<1>4. CASE Report(n)
  <2>1. /\ \A m \in Attempts \ {n} : turn'[m] = turn[m]
        /\ turn'[n] = [turn[n] EXCEPT !.phase = "reporting"]
        /\ turn[n].phase = "executing" /\ ~turn[n].stop
    BY <1>1, <1>4 DEF Report
  <2>2. /\ turn'[n].phase = "reporting" /\ turn'[n].donor = turn[n].donor
        /\ turn'[n].over = turn[n].over /\ turn'[n].stop = turn[n].stop
        /\ turn'[n].ack = turn[n].ack /\ turn'[n].reply = turn[n].reply
    BY <1>1, <2>1 DEF Turns
  <2>3. Older(n) = {}
    BY <2>1 DEF Inv, Retires, Running
  <2>4. turn[n].reply = "none"
    BY <1>1, <2>1 DEF Settled
  <2> QED
    BY <1>2, <2>1, <2>2, <2>3, <2>4, NextPhaseKeeps
<1>5. CASE Fail(n)
  <2>1. /\ \A m \in Attempts \ {n} : turn'[m] = turn[m]
        /\ turn'[n] = [turn[n] EXCEPT !.phase = "aborting", !.ack = "none", !.reply = "none"]
        /\ turn[n].phase # "none" /\ ~turn[n].stop
    BY <1>1, <1>5 DEF Fail
  <2>2. /\ turn'[n].phase = "aborting" /\ turn'[n].donor = turn[n].donor
        /\ turn'[n].over = turn[n].over /\ turn'[n].stop = turn[n].stop
        /\ turn'[n].ack = "none" /\ turn'[n].reply = "none"
    BY <1>1, <2>1 DEF Turns
  <2>3. turn'[n].phase \notin Running
    BY <2>2 DEF Running
  <2> QED
    BY <1>2, <2>1, <2>2, <2>3, NextPhaseKeeps
<1> QED
  BY <1>3, <1>4, <1>5

LEMMA RefusedKeeps ==
    ASSUME Inv, Base', NEW n \in Attempts, ProgressRefused(n)
    PROVE  Inv'
<1>1. turn \in [Attempts -> Turns] /\ turn[n] \in Turns /\ Settled(n)
  BY DEF Inv, Base, TypeOK
<1>2. /\ \A m \in Attempts \ {n} : turn'[m] = turn[m]
      /\ turn'[n] = [turn[n] EXCEPT !.stop = TRUE]
      /\ turn[n].phase \in Running /\ ~Live(n)
      /\ UNCHANGED <<job, input, driver, inbox, worker, history>>
  BY <1>1 DEF ProgressRefused, plane
<1>3. /\ SamePhase(n) /\ turn'[n].ack = turn[n].ack /\ turn'[n].phase = turn[n].phase
      /\ turn'[n].reply = turn[n].reply
  BY <1>1, <1>2 DEF Turns, SamePhase
<1>4. Settled(n)'
  BY <1>1, <1>2, <1>3 DEF Settled, Live
<1>5. turn'[n].phase # "confirming"
  BY <1>2, <1>3 DEF Running
<1> QED
  BY <1>2, <1>3, <1>4, <1>5, OneTurnSteady

(* The slot of a Turn that ends passes to its heir, back to its donor, or  *)
(* to the Worker.                                                          *)
LEMMA ReleaseSlots ==
    ASSUME Inv, Base', NEW n \in Attempts, Release(n)
    PROVE  SlotsExact' /\ Present' = Present \ {n}
<1> DEFINE heirs == {m \in Present : turn[n].over /\ turn[m].donor = n}
           back == {turn[n].donor} \cap Present
<1>1. turn \in [Attempts -> Turns] /\ SlotsExact /\ TypeOK
  BY DEF Inv, Base, TypeOK
<1>2. n \in Present
  BY DEF Release, Ended, Present
<1>3. ASSUME NEW m \in Attempts, m # n
      PROVE  /\ turn'[m].phase = turn[m].phase
             /\ turn'[m].donor = IF m \in heirs THEN (IF back = {} THEN 0 ELSE turn[n].donor)
                                 ELSE turn[m].donor
             /\ turn'[m].over = IF heirs = {} /\ m \in back THEN FALSE ELSE turn[m].over
  <2> DEFINE d == IF m \in heirs THEN (IF back = {} THEN 0 ELSE turn[n].donor)
                  ELSE turn[m].donor
             b == IF heirs = {} /\ m \in back THEN FALSE ELSE turn[m].over
  <2>1. turn[m] \in Turns
    BY <1>1
  <2>2. turn'[m] = [turn[m] EXCEPT !.wait = @ \ {n}, !.donor = d, !.over = b]
    BY <1>3 DEF Release
  <2>3. \A t \in Turns : \A w, e, c :
           LET u == [t EXCEPT !.wait = w, !.donor = e, !.over = c] IN
           u.phase = t.phase /\ u.donor = e /\ u.over = c
    BY DEF Turns
  <2> HIDE DEF d, b
  <2>4. turn'[m].phase = turn[m].phase /\ turn'[m].donor = d /\ turn'[m].over = b
    BY <2>1, <2>2, <2>3
  <2> QED
    BY <2>4 DEF d, b
<1>4. turn'[n].phase = "none"
  BY DEF Release, NoTurn
<1>5. Present' = Present \ {n}
  BY <1>3, <1>4 DEF Present
<1>6. \A m \in Present : m \in Attempts /\ m \in Nat /\ m # 0
  BY DEF Present, Attempts
<1>7. worker' = IF heirs = {} /\ back = {} THEN [worker EXCEPT !.used = @ - 1] ELSE worker
  BY DEF Release
<1>8. \A m \in Present : turn[m].donor # 0 =>
         /\ turn[m].donor \in Present /\ turn[m].donor < m /\ turn[turn[m].donor].over
         /\ \A k \in Present : turn[k].donor = turn[m].donor => k = m
  <2> SUFFICES ASSUME NEW m \in Present, turn[m].donor # 0
               PROVE  /\ Handed(turn[m].donor, m)
                      /\ \A k \in Present : turn[k].donor = turn[m].donor => k = m
    BY DEF Handed
  <2>1. Handed(turn[m].donor, m)
    BY <1>1 DEF SlotsExact
  <2>2. PICK h \in Present : \A k \in Present : turn[k].donor = turn[m].donor => k = h
    BY <1>1, <2>1 DEF SlotsExact, Handed
  <2> QED
    BY <2>1, <2>2
<1>9. \A d \in Present : turn[d].over => \E h \in Present : turn[h].donor = d
  BY <1>1 DEF SlotsExact
<1>10. \A m \in Present : turn[m].donor = n => m \in heirs /\ m # n /\ n < m
  BY <1>2, <1>6, <1>8
<1>11. \A m \in heirs : /\ m \in Present /\ turn[m].donor = n /\ m # n /\ n < m
                        /\ heirs = {m}
  <2>1. ASSUME NEW m \in heirs
        PROVE  m \in Present /\ turn[m].donor = n /\ m # n /\ n < m
    BY <1>10
  <2>2. ASSUME NEW m \in heirs, NEW k \in heirs PROVE k = m
    BY <1>2, <1>6, <1>8, <2>1, <2>2
  <2> HIDE DEF heirs
  <2> QED
    BY <2>1, <2>2
<1>12. back = {} <=> turn[n].donor = 0
  BY <1>2, <1>6, <1>8
<1>13. back # {} => LET d == turn[n].donor IN
          /\ d \in Present /\ d # n /\ d < n /\ d # 0 /\ turn[d].over /\ back = {d}
          /\ \A k \in Present : turn[k].donor = d => k = n
  BY <1>2, <1>6, <1>8, <1>12
<1> HIDE DEF heirs, back
(* The donors, and their heirs                                             *)
<1>14. ASSUME NEW m \in Present', turn'[m].donor # 0
       PROVE  /\ turn'[m].donor \in Present' /\ turn'[m].donor < m
              /\ turn'[turn'[m].donor].over
  <2>1. m \in Present /\ m # n /\ m \in Attempts /\ m \in Nat /\ n \in Nat
    BY <1>2, <1>5, <1>6
  <2>2. CASE m \in heirs
    <3>1. back # {} /\ turn'[m].donor = turn[n].donor
      BY <1>3, <1>14, <2>1, <2>2
    <3>2. turn[n].donor < m
      <4>1. n < m
        BY <1>11, <2>2
      <4>2. turn[n].donor \in Nat /\ turn[n].donor < n
        BY <1>6, <1>13, <3>1
      <4> QED
        BY <2>1, <4>1, <4>2
    <3> QED
      BY <1>3, <1>5, <1>6, <1>13, <2>2, <3>1, <3>2
  <2>3. CASE m \notin heirs
    <3>1. turn'[m].donor = turn[m].donor /\ turn[m].donor # n
      BY <1>3, <1>10, <2>1, <2>3
    <3>2. turn[m].donor \in Present /\ turn[m].donor < m /\ turn[turn[m].donor].over
          /\ turn[m].donor \notin back
      BY <1>8, <1>13, <1>14, <2>1, <3>1
    <3> QED
      BY <1>3, <1>5, <1>6, <3>1, <3>2
  <2> QED
    BY <2>2, <2>3
<1>15. ASSUME NEW e \in Present', turn'[e].over
       PROVE  \E h \in Present' : /\ turn'[h].donor = e
                                  /\ \A k \in Present' : turn'[k].donor = e => k = h
  <2>1. e \in Present /\ e # n /\ e # 0 /\ turn[e].over /\ (heirs = {} => e \notin back)
    BY <1>3, <1>5, <1>6, <1>15
  <2>2. PICK h \in Present : turn[h].donor = e
    BY <1>9, <2>1
  <2>3. \A k \in Present : turn[k].donor = e => k = h
    BY <1>8, <2>1, <2>2
  <2>4. CASE e \in back
    <3>1. turn[n].donor = e /\ h = n
      BY <1>13, <2>2, <2>3, <2>4
    <3>2. PICK j : j \in heirs
      BY <2>1, <2>4
    <3>3. j \in Present' /\ turn'[j].donor = e
      BY <1>3, <1>5, <1>6, <1>11, <2>4, <3>1, <3>2
    <3>4. ASSUME NEW k \in Present', turn'[k].donor = e PROVE k = j
      <4>1. k \in Present /\ k # n /\ k \in Attempts
        BY <1>5, <1>6
      <4>2. k \notin heirs => turn[k].donor = e
        BY <1>3, <3>4, <4>1
      <4>3. k \in heirs
        BY <2>3, <3>1, <4>1, <4>2
      <4> QED
        BY <1>11, <3>2, <4>3
    <3> QED
      BY <3>3, <3>4
  <2>5. CASE e \notin back
    <3>1. h # n /\ h \notin heirs
      BY <1>11, <1>12, <1>13, <2>1, <2>2, <2>5
    <3>2. h \in Present' /\ turn'[h].donor = e
      BY <1>3, <1>5, <1>6, <2>2, <3>1
    <3>3. ASSUME NEW k \in Present', turn'[k].donor = e PROVE k = h
      <4>1. k \in Present /\ k # n /\ k \in Attempts
        BY <1>5, <1>6
      <4>2. k \notin heirs
        BY <1>3, <1>13, <2>1, <2>5, <3>3, <4>1
      <4> QED
        BY <1>3, <2>3, <3>3, <4>1, <4>2
    <3> QED
      BY <3>2, <3>3
  <2> QED
    BY <2>4, <2>5
(* The count                                                               *)
<1>16. worker'.used <= MaxSlots /\ worker'.used = worker'.other + Cardinality(Owners')
  <2>1. /\ worker.used \in Nat /\ worker.other \in Nat /\ worker.used <= MaxSlots
        /\ worker.used = worker.other + Cardinality(Owners) /\ worker \in Workers
    BY <1>1 DEF TypeOK, Workers, SlotsExact
  <2>2. \A m \in Present' : m \in Present /\ m # n /\ m \in Attempts
    BY <1>5, <1>6
  <2>3. CASE heirs = {} /\ back = {}
    <3>1. n \in Owners
      BY <1>2, <1>12, <2>3 DEF Owners
    <3>2. Owners' = Owners \ {n}
      BY <1>3, <1>5, <1>6, <2>2, <2>3 DEF Owners
    <3>3. Cardinality(Owners') = Cardinality(Owners) - 1
      BY <3>1, <3>2, OwnersFinite, FS_RemoveElement
    <3>4. worker'.used = worker.used - 1 /\ worker'.other = worker.other
      BY <1>7, <2>1, <2>3 DEF Workers
    <3> QED
      BY <2>1, <3>3, <3>4, OwnersFinite, SlotsAssumption
  <2>4. CASE back # {}
    <3>1. n \notin Owners /\ turn[n].donor # 0
      BY <1>12, <2>4 DEF Owners
    <3>2. \A m \in Present' : turn'[m].donor = 0 <=> turn[m].donor = 0
      <4>1. \A m \in heirs : turn[m].donor # 0
        BY <1>2, <1>6, <1>11
      <4> QED
        BY <1>3, <2>2, <2>4, <3>1, <4>1
    <3>3. Owners' = Owners
      BY <1>5, <3>1, <3>2 DEF Owners
    <3> QED
      BY <1>7, <2>1, <2>4, <3>3
  <2>5. CASE heirs # {} /\ back = {}
    <3>1. PICK h : h \in heirs
      BY <2>5
    <3>2. n \in Owners /\ h \notin Owners /\ heirs = {h} /\ h \in Present /\ h # n
      BY <1>2, <1>6, <1>11, <1>12, <2>5, <3>1 DEF Owners
    <3>3. \A m \in Present' : turn'[m].donor = IF m = h THEN 0 ELSE turn[m].donor
      BY <1>3, <2>2, <2>5, <3>2
    <3>4. Owners' = (Owners \ {n}) \cup {h}
      BY <1>5, <3>2, <3>3 DEF Owners
    <3>5. IsFiniteSet(Owners \ {n}) /\ Cardinality(Owners \ {n}) = Cardinality(Owners) - 1
      BY <3>2, OwnersFinite, FS_RemoveElement
    <3>6. Cardinality((Owners \ {n}) \cup {h}) = Cardinality(Owners \ {n}) + 1
      BY <3>2, <3>5, FS_AddElement
    <3>7. Cardinality(Owners') = Cardinality(Owners)
      BY <3>4, <3>5, <3>6, OwnersFinite
    <3> QED
      BY <1>7, <2>1, <2>5, <3>7
  <2> QED
    BY <2>3, <2>4, <2>5
<1> QED
  BY <1>5, <1>14, <1>15, <1>16 DEF SlotsExact, Handed

LEMMA ReleaseKeeps ==
    ASSUME Inv, Base', NEW n \in Attempts, Release(n)
    PROVE  Inv'
<1>1. turn \in [Attempts -> Turns] /\ turn[n] \in Turns /\ Settled(n) /\ Once(n)
  BY DEF Inv, Base, TypeOK
<1>2. UNCHANGED <<job, input, driver, inbox, history>>
      /\ worker'.up = worker.up /\ worker'.conn = worker.conn
  <2>1. worker \in Workers
    BY DEF Inv, Base, TypeOK
  <2> QED
    BY <2>1 DEF Release, plane, Workers
<1>3. SlotsExact' /\ Present' = Present \ {n}
  BY ReleaseSlots
<1>4. turn'[n] = NoTurn
  BY DEF Release
<1>5. ASSUME NEW m \in Attempts, m # n
      PROVE  /\ turn'[m].phase = turn[m].phase /\ turn'[m].stop = turn[m].stop
             /\ turn'[m].ack = turn[m].ack /\ turn'[m].reply = turn[m].reply
             /\ turn'[m].wait = turn[m].wait \ {n}
  <2>1. turn[m] \in Turns
    BY <1>1
  <2>2. \E d, b : turn'[m] = [turn[m] EXCEPT !.wait = @ \ {n}, !.donor = d, !.over = b]
    BY <1>5 DEF Release
  <2>3. \A t \in Turns : \A w, d, b :
           LET u == [t EXCEPT !.wait = w, !.donor = d, !.over = b] IN
           /\ u.phase = t.phase /\ u.stop = t.stop /\ u.ack = t.ack /\ u.reply = t.reply
           /\ u.wait = w
    BY DEF Turns
  <2> QED
    BY <2>1, <2>2, <2>3
<1>6. Ordered' /\ StopsTrue' /\ Heads'
      /\ \A m \in Attempts : (Live(m)' <=> Live(m)) /\ (MayArrive(m)' => MayArrive(m))
  <2>1. Ordered'
    BY <1>2, <1>3 DEF Inv, Ordered
  <2>2. StopsTrue' /\ Heads'
    BY <1>2 DEF Inv, StopsTrue, Heads, Open, Live
  <2> QED
    BY <1>2, <2>1, <2>2 DEF MayArrive, Live
<1>7. Retires'
  <2>1. \A m \in Attempts : Older(m)' = Older(m) \ {n}
    BY <1>3 DEF Older
  <2>2. turn'[n].phase = "none"
    BY <1>4 DEF NoTurn
  <2>3. ASSUME NEW m \in Attempts
        PROVE  /\ turn'[m].phase = "retiring" => turn'[m].wait = Older(m) \ {n}
               /\ turn'[m].phase \in Running => Older(m) \ {n} = {}
    <3>1. CASE m = n
      BY <2>2, <3>1 DEF Running
    <3>2. CASE m # n
      BY <1>5, <3>2 DEF Inv, Retires
    <3> QED
      BY <3>1, <3>2
  <2> QED
    BY <2>1, <2>3 DEF Retires
<1>8. n \in launched => ~Live(n) \/ n \in dropped
  BY <1>1 DEF Release, Ended, Settled, Once, Running
<1>9. ASSUME NEW m \in Attempts PROVE Settled(m)' /\ Once(m)'
  <2>1. CASE m = n
    BY <1>2, <1>4, <1>6, <1>8, <2>1 DEF Settled, Once, NoTurn, Running
  <2>2. CASE m # n
    <3>1. Settled(m) /\ Once(m)
      BY DEF Inv
    <3> QED
      BY <1>2, <1>3, <1>5, <1>6, <2>2, <3>1 DEF Settled, Once
  <2> QED
    BY <2>1, <2>2
<1> QED
  BY <1>3, <1>6, <1>7, <1>9 DEF Inv

LEMMA TurnKeeps ==
    ASSUME Inv, Base', NEW n \in Attempts, TurnNext(n)
    PROVE  Inv'
  BY ConfirmKeeps, AckKeeps, ExecutionKeeps, RefusedKeeps, ReleaseKeeps DEF TurnNext
-----------------------------------------------------------------------------
(* Steps of the process *)

(* The process keeps its Turns and their slots.                            *)
LEMMA ProcessKeeps ==
    ASSUME Inv, Base', OtherStarts \/ OtherEnds \/ ReportDrain \/ Join
    PROVE  Inv'
<1> USE DEF Inv, Base
<1>1. worker \in Workers /\ driver \in Drivers /\ driver.conn <= worker.conn /\ TypeOK
  BY DEF TypeOK, Driving
<1>2. UNCHANGED <<job, input, driver, inbox, turn, history>>
  BY DEF OtherStarts, OtherEnds, ReportDrain, Join, plane
<1>3. JobSteady /\ InboxGrows /\ Heads'
  BY <1>1, <1>2, JobKept DEF InboxGrows, Heads, Open
<1>4. ArrivalsKept
  <2>1. CASE Join
    <3>1. worker'.conn = worker.conn + 1
      BY <1>1, <2>1 DEF Join, Workers
    <3>2. driver.conn # worker'.conn
      BY <1>1, <3>1 DEF Drivers, Workers
    <3> QED
      BY <1>2, <3>2 DEF ArrivalsKept, MayArrive
  <2>2. CASE ~Join
    <3>1. worker'.up = worker.up /\ worker'.conn = worker.conn
      BY <1>1, <2>2 DEF OtherStarts, OtherEnds, ReportDrain, Workers
    <3> QED
      BY <1>2, <3>1 DEF ArrivalsKept, MayArrive
  <2> QED
    BY <2>1, <2>2
<1>5. CASE ReportDrain \/ Join
  <2>1. worker'.used = worker.used /\ worker'.other = worker.other
    BY <1>1, <1>5 DEF ReportDrain, Join, Workers
  <2> QED
    BY <1>2, <1>3, <1>4, <2>1, QuietStep
<1>6. CASE OtherStarts \/ OtherEnds
  <2>1. /\ worker.used \in Nat /\ worker.other \in Nat
        /\ \/ /\ worker.used < MaxSlots
              /\ worker'.used = worker.used + 1 /\ worker'.other = worker.other + 1
           \/ worker'.used = worker.used - 1 /\ worker'.other = worker.other - 1
    BY <1>1, <1>6 DEF OtherStarts, OtherEnds, Workers
  <2>2. Present' = Present /\ Owners' = Owners
    BY <1>2 DEF Present, Owners
  <2>3. SlotsExact'
    <3>1. worker'.used <= MaxSlots /\ worker'.used = worker'.other + Cardinality(Owners')
      BY <2>1, <2>2, OwnersFinite, SlotsAssumption DEF SlotsExact
    <3> QED
      BY <1>2, <2>2, <3>1 DEF SlotsExact, Handed
  <2>4. Ordered' /\ StopsTrue'
    BY <1>2, <1>3, <2>2, GrowsOrdered
  <2>5. Retires'
    BY <1>2, <2>2 DEF Retires, Older
  <2>6. ASSUME NEW n \in Attempts PROVE Settled(n)' /\ Once(n)'
    <3>1. Live(n)' <=> Live(n)
      BY <1>2 DEF Live
    <3>2. n \in launched => (MayArrive(n)' => MayArrive(n))
      BY <1>4, LaunchedIs DEF ArrivalsKept
    <3> QED
      BY <1>2, <2>2, <3>1, <3>2 DEF Settled, Once
  <2> QED
    BY <1>3, <2>3, <2>4, <2>5, <2>6
<1> QED
  BY <1>5, <1>6

LEMMA DrainKeeps ==
    ASSUME Inv, Base', DrainBegins
    PROVE  Inv'
<1> USE DEF Inv, Base
<1>1. worker \in Workers /\ turn \in [Attempts -> Turns] /\ TypeOK
  BY DEF TypeOK
<1>2. /\ UNCHANGED <<job, input, driver, inbox, history>>
      /\ worker'.up = worker.up /\ worker'.conn = worker.conn
      /\ worker'.used = worker.used /\ worker'.other = worker.other
  BY <1>1 DEF DrainBegins, plane, Workers
<1>3. ASSUME NEW n \in Attempts
      PROVE  /\ SamePhase(n) /\ turn'[n].ack = turn[n].ack /\ turn'[n].reply = turn[n].reply
             /\ turn'[n].phase = turn[n].phase
             /\ turn[n].phase \in Running => turn'[n].stop = turn[n].stop
  <2>1. turn[n] \in Turns
    BY <1>1
  <2>2. \/ turn'[n] = turn[n]
        \/ turn'[n] = [turn[n] EXCEPT !.stop = TRUE] /\ turn[n].phase \in {"confirming", "retiring"}
    BY DEF DrainBegins
  <2>3. \A t \in Turns : LET u == [t EXCEPT !.stop = TRUE] IN
           /\ u.phase = t.phase /\ u.over = t.over /\ u.donor = t.donor
           /\ u.ack = t.ack /\ u.wait = t.wait /\ u.reply = t.reply
    BY DEF Turns
  <2> QED
    BY <2>1, <2>2, <2>3 DEF SamePhase, Running
<1>4. Present' = Present
  BY <1>3 DEF Present
<1>5. Ordered' /\ StopsTrue'
  BY <1>1, <1>2, <1>4, JobKept, GrowsOrdered DEF InboxGrows
<1>6. Heads'
  BY <1>2 DEF Heads, Open
<1>7. \A n \in Attempts : (Live(n)' <=> Live(n)) /\ (MayArrive(n)' => MayArrive(n))
  BY <1>2 DEF Live, MayArrive
<1>8. \A n \in Attempts : Settled(n)'
  BY <1>2, <1>3, <1>7 DEF Settled
<1>9. \A n \in launched \ dropped : turn'[n].phase = "confirming" => turn'[n].ack # "ok"
  BY <1>3, LaunchedIs DEF Once
<1> QED
  BY <1>2, <1>3, <1>5, <1>6, <1>7, <1>8, <1>9, LaunchedIs, SteadyStep

(* With the connection its messages are lost, and the answers on it.       *)
LEMMA LostKeeps ==
    ASSUME Inv, Base', ConnectionLost
    PROVE  Inv'
<1> USE DEF Inv, Base
<1>1. worker \in Workers /\ turn \in [Attempts -> Turns]
  BY DEF TypeOK
<1>2. /\ UNCHANGED <<job, input, driver, history>> /\ inbox' = <<>> /\ ~worker'.up
      /\ worker'.used = worker.used /\ worker'.other = worker.other
  BY <1>1 DEF ConnectionLost, plane, Workers
<1>3. ASSUME NEW n \in Attempts
      PROVE  /\ SamePhase(n) /\ turn'[n].reply = turn[n].reply /\ turn'[n].stop = turn[n].stop
             /\ turn'[n].phase = turn[n].phase
             /\ turn'[n].ack \in {"none", "sent"}
             /\ turn[n].ack = "none" => turn'[n].ack = "none"
  <2>1. turn[n] \in Turns
    BY <1>1
  <2>2. \/ turn'[n] = turn[n] /\ turn[n].ack = "none"
        \/ turn'[n] = [turn[n] EXCEPT !.ack = "sent"] /\ turn[n].ack # "none"
    BY DEF ConnectionLost
  <2>3. \A t \in Turns : LET u == [t EXCEPT !.ack = "sent"] IN
           /\ u.phase = t.phase /\ u.over = t.over /\ u.donor = t.donor
           /\ u.ack = "sent" /\ u.wait = t.wait /\ u.reply = t.reply /\ u.stop = t.stop
    BY DEF Turns
  <2> QED
    BY <2>1, <2>2, <2>3 DEF SamePhase
<1>4. Present' = Present
  BY <1>3 DEF Present
<1>5. Len(inbox') = 0
  BY <1>2
<1>6. Ordered' /\ StopsTrue'
  BY <1>2, <1>4, <1>5 DEF Ordered, StopsTrue
<1>7. Heads'
  BY <1>2 DEF Heads, Open
<1>8. \A n \in Attempts : (Live(n)' <=> Live(n)) /\ ~(MayArrive(n)')
  BY <1>2, <1>5 DEF Live, MayArrive
<1>9. \A n \in Attempts : Settled(n)'
  BY <1>2, <1>3, <1>8 DEF Settled
<1>10. \A n \in launched \ dropped : turn'[n].phase = "confirming" => turn'[n].ack # "ok"
  BY <1>3, LaunchedIs
<1> QED
  BY <1>2, <1>3, <1>6, <1>7, <1>8, <1>9, <1>10, LaunchedIs, SteadyStep

(* A new process has no Turn, and nothing reaches it before it has joined. *)
LEMMA NewProcessKeeps ==
    ASSUME Inv, Base', NewProcess
    PROVE  Inv'
<1> USE DEF Inv, Base
<1>1. /\ UNCHANGED <<job, input, driver, history>> /\ inbox' = <<>>
      /\ ~worker'.up /\ worker'.used = 0 /\ worker'.other = 0
      /\ \A n \in Attempts : turn'[n] = NoTurn
  BY DEF NewProcess, plane
<1>2. Present' = {} /\ Owners' = {} /\ Len(inbox') = 0
  BY <1>1 DEF Present, Owners, NoTurn
<1>3. SlotsExact'
  <2>1. Cardinality(Owners') = 0
    BY <1>2, FS_EmptySet
  <2> QED
    BY <1>1, <1>2, <2>1, SlotsAssumption DEF SlotsExact
<1>4. Ordered' /\ StopsTrue' /\ Heads'
  <2>1. Ordered'
    BY <1>1, <1>2 DEF Ordered
  <2>2. StopsTrue'
    BY <1>1, <1>2 DEF StopsTrue
  <2> QED
    BY <1>1, <2>1, <2>2 DEF Heads, Open
<1>5. Retires'
  BY <1>1 DEF Retires, NoTurn, Running
<1>6. \A n \in Attempts : Settled(n)' /\ Once(n)'
  BY <1>1, <1>2 DEF Settled, Once, MayArrive, NoTurn, Running
<1> QED
  BY <1>3, <1>4, <1>5, <1>6

LEMMA WorkerKeeps ==
    ASSUME Inv, Base', WorkerNext
    PROVE  Inv'
  BY ReceiveKeeps, ProcessKeeps, DrainKeeps, LostKeeps, NewProcessKeeps
  DEF WorkerNext, ProcessDies, Replaced
-----------------------------------------------------------------------------
(* Invariance, and what follows from it *)

LEMMA InitInv == Init => Inv
<1> SUFFICES ASSUME Init
             PROVE  Inv
  OBVIOUS
<1>1. Base
  BY BaseInit
<1>2. Present = {} /\ Owners = {} /\ inbox = <<>> /\ Len(inbox) = 0
  BY DEF Init, Present, Owners, NoTurn
<1>3. SlotsExact
  <2>1. Cardinality(Owners) = 0
    BY <1>2, FS_EmptySet
  <2> QED
    BY <1>2, <2>1, SlotsAssumption DEF Init, SlotsExact
<1>4. Ordered
  BY <1>2 DEF Init, Ordered
<1>5. Heads /\ StopsTrue
  BY <1>2 DEF Init, Heads, StopsTrue
<1>6. Retires
  BY DEF Init, Retires, NoTurn, Running
<1>7. \A n \in Attempts : Settled(n) /\ Once(n)
  BY DEF Init, Settled, Once, NoTurn, Running
<1> QED
  BY <1>1, <1>3, <1>4, <1>5, <1>6, <1>7 DEF Inv

LEMMA NextInv == Inv /\ [Next]_vars => Inv'
<1> SUFFICES ASSUME Inv, [Next]_vars
             PROVE  Inv'
  OBVIOUS
<1>1. Base'
  BY BaseKept DEF Inv
<1>2. CASE Next
  BY <1>1, <1>2, DriverKeeps, OwnerKeeps, WatchdogKeeps, HandleKeeps, TurnKeeps, WorkerKeeps
  DEF Next
<1>3. CASE UNCHANGED vars
  <2>1. UNCHANGED <<job, input, driver, inbox, worker, turn, history>>
    BY <1>3 DEF vars
  <2>2. JobSteady /\ InboxGrows /\ ArrivalsKept /\ Heads'
    BY <2>1, JobKept DEF Inv, Base, InboxGrows, ArrivalsKept, MayArrive, Heads, Open
  <2> QED
    BY <1>1, <2>1, <2>2, QuietStep
<1> QED
  BY <1>2, <1>3

(* The inductive invariant holds of every reachable state: types, slots,   *)
(* and what the Worker, the queue and the driver know of the attempts.     *)
THEOREM Invariance == Spec => []Inv
<1>1. Init => Inv
  BY InitInv
<1>2. Inv /\ [Next]_vars => Inv'
  BY NextInv
<1> QED
  BY <1>1, <1>2, PTL DEF Spec

(* Every state has its types.                                              *)
THEOREM TypeCorrect == Spec => []TypeOK
<1>1. Inv => TypeOK
  BY DEF Inv, Base
<1> QED
  BY <1>1, Invariance, PTL

(* The Worker never uses more slots than it has, counts each once, and     *)
(* passes each on to one attempt, whatever the row says is free.           *)
THEOREM SlotsExactHolds == Spec => []SlotsExact
<1>1. Inv => SlotsExact
  BY DEF Inv
<1> QED
  BY <1>1, Invariance, PTL

(* Two attempts of a Job never execute at the same time on its Worker.     *)
THEOREM OneExecutionHolds == Spec => []OneExecution
<1>1. Inv => OneExecution
  <2> SUFFICES ASSUME Inv, NEW m \in Attempts, NEW n \in Attempts,
                      turn[m].phase \in Running, turn[n].phase \in Running
               PROVE  m = n
    BY DEF OneExecution
  <2>1. m \in Present /\ n \in Present
    BY DEF Present, Running
  <2>2. Older(m) = {} /\ Older(n) = {}
    BY DEF Inv, Retires
  <2>3. ~(m < n) /\ ~(n < m)
    BY <2>1, <2>2 DEF Older
  <2> QED
    BY <2>3 DEF Attempts
<1> QED
  BY <1>1, Invariance, PTL

(* The trigger of a running attempt is the head of the Job's queue.        *)
THEOREM TriggerIsHeadHolds == Spec => []TriggerIsHead
<1>1. Inv => TriggerIsHead
  <2> SUFFICES ASSUME Inv, job.status = "running"
               PROVE  Open # {} /\ Oldest = job.trigger
    BY DEF TriggerIsHead
  <2>1. job.trigger \in Open /\ \A s \in Open : job.trigger <= s
    BY DEF Inv, Heads
  <2>2. Oldest \in Open /\ \A s \in Open : Oldest <= s
    BY <2>1, OldestIs
  <2>3. \A s \in Open : s \in Nat
    BY BoundsAssumption DEF Open, Signals
  <2> QED
    BY <2>1, <2>2, <2>3
<1> QED
  BY <1>1, Invariance, PTL

(* Only Launch lets an attempt execute.                                    *)
LEMMA OnlyLaunch ==
    ASSUME TypeOK, [Next]_vars, NEW n \in Attempts, Launches(n)
    PROVE  Launch(n)
<1>1. /\ turn \in [Attempts -> Turns] /\ turn[n] \in Turns
      /\ \A m \in Attempts : turn[m] \in Turns
      /\ turn[n].phase # "executing" /\ turn'[n].phase = "executing"
  BY DEF TypeOK, Launches
<1>2. turn' # turn
  BY <1>1
<1>3. ASSUME NEW m \in Attempts, Handle(m) PROVE FALSE
  <2>1. PICK c \in calls : \/ \E reply \in {"ok", "refused"} : Answer(c, reply)
                           \/ AbortFails(c)
    BY <1>3 DEF Handle, HandleReport, HandleAbort
  <2>2. c.n \in Attempts
    BY DEF TypeOK, Calls
  <2>3. PICK reply : turn' = [turn EXCEPT ![c.n].reply = reply]
    BY <1>2, <2>1, AnswerIs DEF AbortFails
  <2>4. turn'[n] = turn[n] \/ turn'[n] = [turn[n] EXCEPT !.reply = reply]
    BY <1>1, <2>2, <2>3
  <2> QED
    BY <1>1, <2>4 DEF Turns
<1>4. ASSUME NEW m \in Attempts, TurnNext(m) PROVE Launch(n)
  <2>1. CASE Launch(m)
    BY <1>1, <2>1 DEF Launch
  <2>2. CASE ConfirmArrives(m)
    <3>1. \E a : turn' = [turn EXCEPT ![m].ack = a]
      BY <2>2 DEF ConfirmArrives
    <3>2. turn'[n] = turn[n] \/ \E a : turn'[n] = [turn[n] EXCEPT !.ack = a]
      BY <1>1, <3>1
    <3> QED
      BY <1>1, <3>2 DEF Turns
  <2>3. CASE AckArrives(m)
    <3>1. \/ turn'[n] = turn[n]
          \/ turn'[n] = [turn[n] EXCEPT !.ack = "none", !.stop = TRUE]
          \/ turn'[n] = [turn[n] EXCEPT !.ack = "none"]
          \/ turn'[n] = [turn[n] EXCEPT !.stop = TRUE]
          \/ turn'[n] = [turn[n] EXCEPT !.phase = "retiring", !.ack = "none", !.wait = Older(m)]
      <4>1. m \notin Older(m)
        BY DEF Older, Attempts
      <4> QED
        BY <1>1, <2>3, <4>1 DEF AckArrives
    <3> QED
      BY <1>1, <3>1 DEF Turns
  <2>4. CASE Report(m) \/ Fail(m)
    <3>1. \/ turn'[n] = turn[n]
          \/ turn'[n] = [turn[n] EXCEPT !.phase = "reporting"]
          \/ turn'[n] = [turn[n] EXCEPT !.phase = "aborting", !.ack = "none", !.reply = "none"]
      BY <1>1, <2>4 DEF Report, Fail
    <3> QED
      BY <1>1, <3>1 DEF Turns
  <2>5. CASE ProgressRefused(m)
    <3>1. turn'[n] = turn[n] \/ turn'[n] = [turn[n] EXCEPT !.stop = TRUE]
      BY <1>1, <2>5 DEF ProgressRefused
    <3> QED
      BY <1>1, <3>1 DEF Turns
  <2>6. CASE Release(m)
    <3>1. \/ turn'[n] = NoTurn
          \/ \E d, b : turn'[n] = [turn[n] EXCEPT !.wait = @ \ {m}, !.donor = d, !.over = b]
      BY <2>6 DEF Release
    <3>2. \A t \in Turns : \A w, d, b :
             LET u == [t EXCEPT !.wait = w, !.donor = d, !.over = b] IN u.phase = t.phase
      BY DEF Turns
    <3>3. turn[n] \in Turns /\ turn[n].phase # "executing" /\ turn'[n].phase = "executing"
      BY <1>1
    <3>4. ASSUME NEW d, NEW b,
                 turn'[n] = [turn[n] EXCEPT !.wait = @ \ {m}, !.donor = d, !.over = b]
          PROVE  FALSE
      BY <3>2, <3>3, <3>4
    <3>5. turn'[n] # NoTurn
      BY <3>3 DEF NoTurn
    <3> QED
      BY <3>1, <3>4, <3>5
  <2> QED
    BY <1>4, <2>1, <2>2, <2>3, <2>4, <2>5, <2>6 DEF TurnNext
<1>5. ASSUME Receive PROVE FALSE
  <2>1. PICK m : Received(m)
                 /\ (ReceiveAgain(m) \/ ReceiveNew(m) \/ ReceiveRefused(m) \/ ReceiveStop(m))
    BY <1>5 DEF Receive
  <2>2. m.n \in Attempts
    <3>1. m \in Messages
      BY <2>1, TailIs DEF Received, TypeOK
    <3> QED
      BY <3>1 DEF Messages
  <2>3. \/ turn'[n] = turn[n]
        \/ turn'[n] = [turn[n] EXCEPT !.ack = "sent"]
        \/ turn'[n] = [turn[n] EXCEPT !.stop = TRUE]
        \/ turn'[n] = [turn[n] EXCEPT !.over = TRUE]
        \/ turn'[n] = Confirming
        \/ \E d : turn'[n] = [Confirming EXCEPT !.donor = d]
    <3>1. \/ turn' = [turn EXCEPT ![m.n].ack = "sent"]
          \/ turn' = [turn EXCEPT ![m.n].stop = TRUE]
          \/ turn' = [turn EXCEPT ![m.n] = Confirming]
          \/ \E d \in Attempts :
                turn' = [turn EXCEPT ![d].over = TRUE, ![m.n] = [Confirming EXCEPT !.donor = d]]
      BY <1>2, <2>1
      DEF ReceiveAgain, ReceiveNew, ReceiveRefused, ReceiveStop, Donors, Older, Present
    <3> QED
      BY <1>1, <2>2, <3>1
  <2>4. Confirming.phase = "confirming"
    BY DEF Confirming, NoTurn
  <2> QED
    BY <1>1, <2>3, <2>4, ConfirmingTyped DEF Turns
<1>6. ASSUME DrainBegins \/ ConnectionLost PROVE FALSE
  <2>1. \/ turn'[n] = turn[n]
        \/ turn'[n] = [turn[n] EXCEPT !.ack = "sent"]
        \/ turn'[n] = [turn[n] EXCEPT !.stop = TRUE]
    BY <1>6 DEF DrainBegins, ConnectionLost
  <2> QED
    BY <1>1, <2>1 DEF Turns
<1>7. ASSUME ProcessDies \/ Replaced PROVE FALSE
  BY <1>1, <1>7 DEF ProcessDies, Replaced, NewProcess, NoTurn
<1>8. ASSUME OtherStarts \/ OtherEnds \/ ReportDrain \/ Join PROVE FALSE
  BY <1>2, <1>8 DEF OtherStarts, OtherEnds, ReportDrain, Join
<1>9. ASSUME DriverNext \/ OwnerNext \/ Watchdog PROVE FALSE
  BY <1>2, <1>9 DEF DriverNext, DriverStart, AdmitTerminal, AdmitAdopt, AdmitStart,
     AdmitExhausted, RejectJob, RejectSteer, StartTask, SendStart, StartEnds,
     ObserveFinished, ObserveAdopt, DriverCrash, OwnerNext, Message, Stop,
     ExternalComplete, Watchdog, StallIdle, StallSlow, Stalls
<1>10. ~UNCHANGED vars
  BY <1>2 DEF vars
<1> QED
  BY <1>3, <1>4, <1>5, <1>6, <1>7, <1>8, <1>9, <1>10 DEF Next, WorkerNext

(* What begins to execute has not been executed before, unless an abort of *)
(* it failed while it was the current attempt: only a Turn that has        *)
(* retired the older ones is launched, and no other that was executed is   *)
(* confirmed again, by this process or by the next.                        *)
THEOREM StartsOnceHolds == Spec => StartsOnce
<1>1. ASSUME Inv, [Next]_vars, NEW n \in Attempts, Launches(n)
      PROVE  n \notin launched \/ n \in dropped
  <2>1. Launch(n)
    BY <1>1, OnlyLaunch DEF Inv, Base
  <2> QED
    BY <1>1, <2>1 DEF Launch, Inv, Once
<1>2. Inv /\ [Next]_vars =>
        [\A n \in Attempts : Launches(n) => n \notin launched \/ n \in dropped]_vars
  BY <1>1
<1> QED
  BY <1>2, Invariance, PTL DEF Spec, StartsOnce
=============================================================================
