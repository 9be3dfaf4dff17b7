---------------------------- MODULE SessionProofs ----------------------------
(***************************************************************************)
(* Theorems about SessionDriver, for every number of drivers, inputs and   *)
(* calls, and for every bound.                                             *)
(***************************************************************************)
EXTENDS SessionDriver, SequenceTheorems, TLAPS

Entries == [input : Inputs, steers : SUBSET Inputs, calls : SUBSET Calls,
            done : BOOLEAN, results : [Calls -> Results], receipts : SUBSET Calls,
            commits : [Calls -> Nat], purged : SUBSET Calls]
Signals == [kind : {"message", "task", "stop"}, status : Statuses,
            attempts : Int, started : BOOLEAN]
Processes == [stage : Stages, event : Inputs \cup {0}, epoch : Nat, round : Nat,
              calls : SUBSET Calls, results : [Calls -> Results],
              steers : SUBSET Inputs, outcome : Outcomes]
Generations == [input : Inputs, by : Nat, steers : SUBSET Inputs]
Transactions == [epoch : Nat, input : Inputs, round : Nat, call : Calls]

Rounds == 1 .. Len(tape)
Accepted(s) == s \in Inputs /\ input[s].status # "absent"

(* A driver with something to do has an input to do it for; a running one  *)
(* has an epoch of its own, no later than the Session's.                   *)
Busy(r) == r.stage \notin {"down", "idle"}
Runs(r) == r.stage \notin {"down", "idle", "control", "waiting"}
Driven ==
    /\ \A d \in Drivers : Busy(drv[d]) => Accepted(drv[d].event)
    /\ \A d \in Drivers : drv[d].stage = "control" => input[drv[d].event].kind = "stop"
    /\ \A d \in Drivers : Running(d) => drv[d].epoch <= epoch /\ Busy(drv[d])
    /\ \A d \in Drivers : Runs(drv[d]) => Running(d)
    /\ \A d, e \in Drivers : Running(d) /\ drv[d].epoch = drv[e].epoch => d = e

(* So has what a driver has started.                                       *)
Started ==
    /\ \A t \in tasks : t.epoch \in 1 .. epoch /\ Accepted(t.input)
    /\ \A g \in gen : g.by \in 1 .. epoch

Typed ==
    /\ epoch \in Nat
    /\ input \in [Inputs -> Signals]
    /\ tape \in Seq(Entries)
    /\ gen \subseteq Generations
    /\ tasks \subseteq Transactions
    /\ drv \in [Drivers -> Processes]
    /\ faults \in [steps : Nat, streams : Nat]

Base == Typed /\ Driven /\ Started

(* A task holds the lock of a call of some round, without a receipt yet;   *)
(* the round is not journaled while the task's fence is up.                *)
Working(t) ==
    /\ t.round \in Rounds
    /\ t.call \in tape[t.round].calls \ tape[t.round].receipts
    /\ Fenced(t.epoch, t.input) => ~tape[t.round].done
Exclusive ==
    \A t, u \in tasks : t.round = u.round /\ t.call = u.call => t = u

(* The tasks of a driver are of the round that it executes, and it has not *)
(* taken their results.                                                    *)
Owns(d) ==
    LET r == drv[d] IN
    \A t \in tasks : t.epoch = r.epoch =>
        /\ r.stage \in {"executing", "finalizing"}
        /\ r.stage = "executing" =>
             t.round = r.round /\ t.call \in r.calls /\ r.results[t.call] = "none"

(* The calls of a driver are those of its round, which only it may journal *)
(* while it holds the epoch; what it holds for a success has committed.    *)
Seen(d) ==
    LET r == drv[d] IN
    /\ \A c \in Calls : r.results[c] # "interrupted"
    /\ \A c \in Calls : r.results[c] = "ok" =>
         /\ c \in r.calls /\ r.round \in Rounds
         /\ tape[r.round].commits[c] > 0
    /\ r.calls # {} =>
         /\ r.round \in Rounds /\ r.calls = tape[r.round].calls
         /\ MayWrite(d) => ~tape[r.round].done
Newest(d) ==
    LET r == drv[d] IN
    MayWrite(d) /\ r.stage = "executing" =>
        /\ r.calls # {} /\ r.round = Len(tape)
        /\ \A c \in Calls : r.results[c] = "ok" => c \in tape[r.round].receipts

(* The round of a driver that executes it, or has finished with it, is its *)
(* own input's.                                                            *)
Placed(d) ==
    LET r == drv[d] IN
    \/ r.stage \in {"executing", "boundary"}
    \/ r.stage = "finalizing" /\ r.outcome \notin {"stopped", "dead_letter"}
    => r.round \in Rounds /\ tape[r.round].input = r.event

(* What generates for a driver is for its input.  While one that holds the *)
(* epoch works on a round, nothing generates but the response it waits for.*)
Generates(d) ==
    \A g \in gen : g.by = drv[d].epoch => g.input = drv[d].event
Quiet(d) ==
    MayWrite(d) =>
        /\ drv[d].stage \in {"restoring", "requesting", "executing", "boundary"}
              => gen = {}
        /\ drv[d].stage = "streaming"
              => gen \subseteq {[input |-> drv[d].event, by |-> drv[d].epoch,
                                 steers |-> drv[d].steers]}
Good(d) ==
    Running(d) =>
        Owns(d) /\ Seen(d) /\ Newest(d) /\ Placed(d) /\ Generates(d) /\ Quiet(d)

(* What a receipt, its absence and a journal say of a call.                *)
Kept(t) ==
    \A c \in Calls :
        /\ c \in t.receipts => t.commits[c] > 0
        /\ t.commits[c] = 0 \/ c \in t.receipts \/ t.done \/ c \in t.purged
        /\ t.commits[c] > 1 => c \in t.purged
        /\ t.done => /\ t.results[c] = "ok" => t.commits[c] > 0
                     /\ t.results[c] = "interrupted" =>
                          t.commits[c] = 0 \/ c \in t.purged

Inv ==
    /\ Base
    /\ \A t \in tasks : Working(t)
    /\ Exclusive
    /\ \A d \in Drivers : Good(d)
    /\ \A i \in Rounds : Kept(tape[i])
-----------------------------------------------------------------------------
(* Sequences and records *)

(* A function on 1 .. n is a sequence of length n.                         *)
LEMMA SeqOf ==
    ASSUME NEW S, NEW n \in Nat, NEW f \in [1 .. n -> S]
    PROVE  f \in Seq(S) /\ Len(f) = n
<1>1. f \in Seq(S)
  BY SeqDef
<1>2. DOMAIN f = 1 .. Len(f) /\ Len(f) \in Nat
  BY <1>1, LenProperties
<1>3. DOMAIN f = 1 .. n
  OBVIOUS
<1> QED
  BY <1>1, <1>2, <1>3

(* The tape as a function.                                                 *)
LEMMA TapeFun ==
    ASSUME tape \in Seq(Entries)
    PROVE  Len(tape) \in Nat /\ tape \in [Rounds -> Entries]
  BY LenProperties DEF Rounds

(* A journaled round.                                                      *)
LEMMA RecordedIs ==
    ASSUME NEW t \in Entries, NEW results \in [Calls -> Results]
    PROVE  LET new == Recorded(t, results) IN
           /\ new \in Entries
           /\ new.input = t.input /\ new.steers = t.steers /\ new.calls = t.calls
           /\ new.commits = t.commits /\ new.purged = t.purged
           /\ new.done /\ new.receipts = {} /\ new.results = results
  BY DEF Recorded, Entries

(* The journal that a pending round gets.                                  *)
LEMMA JournaledIs ==
    ASSUME NEW t \in Entries, NEW calls \in SUBSET Calls,
           NEW results \in [Calls -> Results]
    PROVE  LET new == Journaled(t, calls, results) IN
           /\ new \in Entries
           /\ new.input = t.input /\ new.steers = t.steers /\ new.calls = t.calls
           /\ new.commits = t.commits /\ new.purged = t.purged
           /\ new.done /\ new.receipts = {}
           /\ \A c \in Calls : new.results[c] =
                 IF c \notin calls THEN "none"
                 ELSE IF c \in t.receipts THEN "ok"
                 ELSE IF results[c] = "none" THEN "interrupted"
                 ELSE results[c]
<1> DEFINE journal == [c \in Calls |->
                 IF c \notin calls THEN "none"
                 ELSE IF c \in t.receipts THEN "ok"
                 ELSE IF results[c] = "none" THEN "interrupted"
                 ELSE results[c]]
<1>1. journal \in [Calls -> Results]
  BY DEF Results
<1>2. \A c \in Calls : journal[c] =
                 IF c \notin calls THEN "none"
                 ELSE IF c \in t.receipts THEN "ok"
                 ELSE IF results[c] = "none" THEN "interrupted"
                 ELSE results[c]
  OBVIOUS
<1>3. Journaled(t, calls, results) = Recorded(t, journal)
  BY DEF Journaled
<1> HIDE DEF journal
<1> QED
  BY <1>1, <1>2, <1>3, RecordedIs

(* A round whose receipts have gone.                                       *)
LEMMA DiscardedIs ==
    ASSUME NEW t \in Entries
    PROVE  LET new == Discarded(t) IN
           /\ new \in Entries
           /\ new.input = t.input /\ new.steers = t.steers /\ new.calls = t.calls
           /\ new.commits = t.commits /\ new.done = t.done
           /\ new.results = t.results
           /\ new.receipts = {} /\ new.purged = t.purged \cup t.receipts
  BY DEF Discarded, Entries

(* A round one of whose calls has committed.                               *)
LEMMA WithReceiptIs ==
    ASSUME NEW t \in Entries, NEW c \in Calls
    PROVE  LET new == WithReceipt(t, c) IN
           /\ new \in Entries
           /\ new.input = t.input /\ new.steers = t.steers /\ new.calls = t.calls
           /\ new.done = t.done /\ new.results = t.results
           /\ new.purged = t.purged /\ new.receipts = t.receipts \cup {c}
           /\ new.commits[c] = t.commits[c] + 1
           /\ \A b \in Calls : b # c => new.commits[b] = t.commits[b]
<1> DEFINE counts == [t.commits EXCEPT ![c] = @ + 1]
<1>1. counts \in [Calls -> Nat] /\ counts[c] = t.commits[c] + 1
      /\ \A b \in Calls : b # c => counts[b] = t.commits[b]
  BY DEF Entries
<1>2. WithReceipt(t, c)
        = [t EXCEPT !.commits = counts, !.receipts = t.receipts \cup {c}]
  BY DEF WithReceipt
<1> HIDE DEF counts
<1>3. WithReceipt(t, c)
        = [input |-> t.input, steers |-> t.steers, calls |-> t.calls,
           done |-> t.done, results |-> t.results,
           receipts |-> t.receipts \cup {c}, commits |-> counts,
           purged |-> t.purged]
  BY <1>2 DEF Entries
<1> QED
  BY <1>1, <1>3 DEF Entries

(* What the end of a run makes of the tape.                                *)
LEMMA RecordPendingIs ==
    ASSUME tape \in Seq(Entries), NEW i, NEW calls \in SUBSET Calls,
           NEW results \in [Calls -> Results]
    PROVE  LET new == RecordPending(i, calls, results) IN
           /\ new \in Seq(Entries) /\ Len(new) = Len(tape)
           /\ \A k \in Rounds : new[k] =
                IF k = i /\ calls # {} THEN Journaled(tape[k], calls, results)
                ELSE Discarded(tape[k])
<1> DEFINE NewRound(k) == IF k = i /\ calls # {}
                          THEN Journaled(tape[k], calls, results)
                          ELSE Discarded(tape[k])
           new == [k \in Rounds |-> NewRound(k)]
<1>1. Len(tape) \in Nat /\ tape \in [Rounds -> Entries]
  BY TapeFun
<1>2. \A k \in Rounds : NewRound(k) \in Entries
  BY <1>1, JournaledIs, DiscardedIs
<1>3. \A k \in Rounds : new[k] = NewRound(k)
  OBVIOUS
<1>4. RecordPending(i, calls, results) = new
  BY DEF RecordPending, Rounds
<1> HIDE DEF NewRound
<1>5. new \in [1 .. Len(tape) -> Entries]
  BY <1>2 DEF Rounds
<1> HIDE DEF new
<1>6. new \in Seq(Entries) /\ Len(new) = Len(tape)
  BY <1>1, <1>5, SeqOf
<1> QED
  BY <1>3, <1>4, <1>6 DEF NewRound

(* What a change of one round makes of it.                                 *)
LEMMA OneRoundIs ==
    ASSUME tape \in Seq(Entries), NEW i \in Rounds, NEW e \in Entries
    PROVE  LET new == [tape EXCEPT ![i] = e] IN
           /\ new \in Seq(Entries) /\ Len(new) = Len(tape)
           /\ \A k \in Rounds : new[k] = IF k = i THEN e ELSE tape[k]
<1>1. Len(tape) \in Nat /\ tape \in [Rounds -> Entries]
  BY TapeFun
<1> DEFINE new == [tape EXCEPT ![i] = e]
<1>2. new \in [1 .. Len(tape) -> Entries]
  BY <1>1 DEF Rounds
<1>3. \A k \in Rounds : new[k] = IF k = i THEN e ELSE tape[k]
  BY <1>1
<1> HIDE DEF new
<1>4. new \in Seq(Entries) /\ Len(new) = Len(tape)
  BY <1>1, <1>2, SeqOf
<1> QED
  BY <1>3, <1>4 DEF new

-----------------------------------------------------------------------------
(* What a step does to the inputs: one that is accepted stays so, and one  *)
(* that has ended stays ended.                                             *)

InputKeeps ==
    \A s \in Inputs : Accepted(s) =>
        /\ Accepted(s)'
        /\ input'[s].kind = input[s].kind
        /\ Open(s)' => Open(s)
        /\ ~Open(s) => input'[s] = input[s]

(* An input that has not ended by itself.                                  *)
Lives(s) == Ended(input'[s].status) => input'[s].status = input[s].status

(* An input that stands still, moves while it is open, or is accepted.     *)
Moves(old, new) ==
    \/ new = old
    \/ /\ new \in Signals /\ new.status # "absent"
       /\ old.status \in {"queued", "running"} /\ new.kind = old.kind
    \/ new \in Signals /\ old.status = "absent"

(* Inputs that move as they may keep their types.                          *)
LEMMA MovesKeep ==
    ASSUME input \in [Inputs -> Signals], DOMAIN input' = Inputs,
           input' = [s \in Inputs |-> input'[s]],
           \A s \in Inputs : Moves(input[s], input'[s])
    PROVE  input' \in [Inputs -> Signals] /\ InputKeeps
<1>1. \A s \in Inputs : input'[s] \in Signals
  BY DEF Moves
<1>2. input' \in [Inputs -> Signals]
  BY <1>1
<1>3. InputKeeps
  BY DEF InputKeeps, Moves, Accepted, Open
<1> QED
  BY <1>2, <1>3

(* One input moves.                                                        *)
LEMMA OneMoves ==
    ASSUME input \in [Inputs -> Signals], NEW s \in Inputs, NEW r,
           Moves(input[s], r), input' = [input EXCEPT ![s] = r],
           Ended(r.status) => r.status = input[s].status
    PROVE  /\ input' \in [Inputs -> Signals] /\ InputKeeps
           /\ \A q \in Inputs : Lives(q)
<1>1. \A q \in Inputs : input'[q] = IF q = s THEN r ELSE input[q]
  OBVIOUS
<1>2. \A q \in Inputs : Moves(input[q], input'[q])
  BY <1>1 DEF Moves
<1>3. DOMAIN input' = Inputs /\ input' = [q \in Inputs |-> input'[q]]
  OBVIOUS
<1>4. \A q \in Inputs : Lives(q)
  BY <1>1 DEF Lives
<1> QED
  BY <1>2, <1>3, <1>4, MovesKeep

(* Inputs end.                                                             *)
LEMMA EndsMove ==
    ASSUME input \in [Inputs -> Signals], NEW S, NEW o, input' = EndInputs(S, o)
    PROVE  input' \in [Inputs -> Signals] /\ InputKeeps
<1>1. \A q \in Inputs : Moves(input[q], input'[q])
  BY DEF EndInputs, Moves, Signals, Statuses
<1>2. DOMAIN input' = Inputs /\ input' = [q \in Inputs |-> input'[q]]
  BY DEF EndInputs
<1> QED
  BY <1>1, <1>2, MovesKeep

(* Open inputs join.                                                       *)
LEMMA JoinedMove ==
    ASSUME input \in [Inputs -> Signals], NEW S \in SUBSET Inputs,
           \A s \in S : Open(s), input' = Joined(S)
    PROVE  /\ input' \in [Inputs -> Signals] /\ InputKeeps
           /\ \A q \in Inputs : Lives(q)
<1>1. \A q \in Inputs : Moves(input[q], input'[q])
  BY DEF Joined, Moves, Signals, Statuses, Open
<1>2. DOMAIN input' = Inputs /\ input' = [q \in Inputs |-> input'[q]]
  BY DEF Joined
<1>3. \A q \in Inputs : Lives(q)
  BY DEF Joined, Lives, Ended, Signals
<1> QED
  BY <1>1, <1>2, <1>3, MovesKeep

(* An attempt is given back.                                               *)
LEMMA RefundedMove ==
    ASSUME input \in [Inputs -> Signals], NEW s \in Inputs, input' = Refunded(s)
    PROVE  /\ input' \in [Inputs -> Signals] /\ InputKeeps
           /\ \A q \in Inputs : Lives(q)
<1> DEFINE r == [input[s] EXCEPT !.attempts = @ - 1]
<1>1. CASE Open(s) /\ input[s].attempts > 0
  <2>1. input' = [input EXCEPT ![s] = r]
    BY <1>1 DEF Refunded
  <2>2. Moves(input[s], r) /\ r.status = input[s].status
    BY <1>1 DEF Moves, Open, Signals
  <2> HIDE DEF r
  <2> QED
    BY <2>1, <2>2, OneMoves
<1>2. CASE ~(Open(s) /\ input[s].attempts > 0)
  BY <1>2 DEF Refunded, InputKeeps, Accepted, Open, Lives
<1> QED
  BY <1>1, <1>2

(* The records of an input that is accepted, admitted or deferred.         *)
AsAccepted(kind) == [NoInput EXCEPT !.kind = kind, !.status = "queued"]
AsRunning(r, n) == [r EXCEPT !.status = "running", !.started = TRUE, !.attempts = n]
AsQueued(r, n) == [r EXCEPT !.status = "queued", !.attempts = @ - n]
Becomes(q, kind, status) == q \in Signals /\ q.kind = kind /\ q.status = status

(* An accepted input.                                                      *)
LEMMA AcceptedIs ==
    \A kind \in {"message", "task", "stop"} :
        Becomes(AsAccepted(kind), kind, "queued")
<1>1. NoInput \in Signals
  BY DEF NoInput, Signals, Statuses
<1> QED
  BY <1>1 DEF AsAccepted, Becomes, Signals, Statuses

(* An admitted input.                                                      *)
LEMMA RunningIs ==
    \A r \in Signals, n \in Int : Becomes(AsRunning(r, n), r.kind, "running")
  BY DEF AsRunning, Becomes, Signals, Statuses

(* An input that goes back to the queue.                                   *)
LEMMA QueuedIs ==
    ASSUME NEW r \in Signals, NEW n \in Int
    PROVE  Becomes(AsQueued(r, n), r.kind, "queued")
<1> DEFINE m == r.attempts - n
           q == [r EXCEPT !.status = "queued", !.attempts = m]
<1>1. m \in Int
  BY DEF Signals
<1>2. AsQueued(r, n) = q
  BY DEF AsQueued
<1> HIDE DEF m
<1>3. Becomes(q, r.kind, "queued")
  BY <1>1 DEF Becomes, Signals, Statuses
<1> QED
  BY <1>2, <1>3

(* An input that its driver claims.                                        *)
LEMMA ClaimedIs ==
    ASSUME input \in [Inputs -> Signals], NEW s \in Inputs
    PROVE  Becomes(Claimed(s), input[s].kind, "running")
<1> DEFINE n == input[s].attempts + 1
<1>1. input[s] \in Signals /\ n \in Int
  BY DEF Signals
<1>2. Claimed(s) = AsRunning(input[s], n)
  BY DEF Claimed, AsRunning
<1> HIDE DEF n
<1> QED
  BY <1>1, <1>2, RunningIs

(* The steps that end inputs.                                              *)
EndsInputs == \E d \in Drivers : Exhaust(d) \/ Finalize(d) \/ Control(d)

(* What a step makes of the inputs.                                        *)
LEMMA InputMoves ==
    ASSUME Base, Next
    PROVE  /\ input' \in [Inputs -> Signals] /\ InputKeeps
           /\ EndsInputs \/ \A s \in Inputs : Lives(s)
<1> DEFINE Goal == /\ input' \in [Inputs -> Signals] /\ InputKeeps
                   /\ EndsInputs \/ \A s \in Inputs : Lives(s)
<1> USE DEF Base
<1>t. input \in [Inputs -> Signals] /\ drv \in [Drivers -> Processes]
  BY DEF Typed
<1>e. \A d \in Drivers : Busy(drv[d]) => drv[d].event \in Inputs
  BY DEF Driven, Accepted
<1>u. input' = input => Goal
  BY <1>t DEF InputKeeps, Accepted, Open, Lives
<1> HIDE DEF Goal, Base
<1>1. ASSUME NEW s \in Inputs, NEW kind \in Kinds[s], Accept(s, kind) PROVE Goal
  <2> DEFINE r == AsAccepted(kind)
  <2>0. kind \in {"message", "task", "stop"}
    BY KindsAssumption
  <2>1. r \in Signals /\ r.status = "queued"
    BY <2>0, AcceptedIs DEF Becomes
  <2>2. input' = [input EXCEPT ![s] = r]
    BY <1>1 DEF Accept, AsAccepted
  <2>3. Moves(input[s], r)
    BY <1>1, <2>1 DEF Accept, Moves
  <2> HIDE DEF r
  <2> QED
    BY <1>t, <2>1, <2>2, <2>3, OneMoves DEF Goal, Ended
<1>2. ASSUME NEW d \in Drivers, Admit(d) PROVE Goal
  <2> DEFINE s == drv[d].event
             r == Claimed(s)
  <2>1. s \in Inputs
    BY <1>2, <1>e DEF Admit, Ready, Busy
  <2>2. Open(s) /\ input' = [input EXCEPT ![s] = r]
    BY <1>2 DEF Admit, MayClaim
  <2>3. Moves(input[s], r) /\ r.status = "running"
    BY <1>t, <2>1, <2>2, ClaimedIs DEF Open, Moves, Becomes
  <2> HIDE DEF r, s
  <2> QED
    BY <1>t, <2>1, <2>2, <2>3, OneMoves DEF Goal, Ended
<1>3. ASSUME NEW d \in Drivers, AdmitCapacity(d) PROVE Goal
  <2> DEFINE s == drv[d].event
             r == AsQueued(Claimed(s), 1)
  <2>1. s \in Inputs
    BY <1>3, <1>e DEF AdmitCapacity, Ready, Busy
  <2>2. Open(s) /\ input' = [input EXCEPT ![s] = r]
    BY <1>3 DEF AdmitCapacity, MayClaim, AsQueued
  <2>3. Becomes(Claimed(s), input[s].kind, "running")
    BY <1>t, <2>1, ClaimedIs
  <2>4. Becomes(r, input[s].kind, "queued")
    BY <2>3, QueuedIs DEF Becomes
  <2>5. Moves(input[s], r) /\ r.status = "queued"
    BY <2>2, <2>4 DEF Open, Moves, Becomes
  <2> HIDE DEF r, s
  <2> QED
    BY <1>t, <2>1, <2>2, <2>5, OneMoves DEF Goal, Ended
<1>4. ASSUME NEW d \in Drivers, Restore(d) PROVE Goal
  <2> DEFINE s == drv[d].event
             again == {r \in Others(s, TapedSteers(s)) :
                         /\ Latest(s) = 0 /\ input[r].started
                         /\ input[r].kind = "message"}
  <2>1. PICK later : input' = Joined(again \ later)
    BY <1>4 DEF Restore
  <2>2. again \ later \in SUBSET Inputs /\ \A r \in again \ later : Open(r)
    BY DEF Others
  <2> HIDE DEF again
  <2> QED
    BY <1>t, <2>1, <2>2, JoinedMove DEF Goal
<1>5. ASSUME NEW d \in Drivers, Boundary(d) PROVE Goal
  <2>1. PICK heard \in SUBSET Others(drv[d].event, drv[d].steers) :
           input' = Joined(Joining(heard))
    BY <1>5 DEF Boundary
  <2>2. Joining(heard) \in SUBSET Inputs /\ \A r \in Joining(heard) : Open(r)
    BY DEF Others, Joining
  <2> QED
    BY <1>t, <2>1, <2>2, JoinedMove DEF Goal
<1>6. ASSUME NEW d \in Drivers, Exhaust(d) \/ Finalize(d) \/ Control(d) PROVE Goal
  <2>1. \E S, o : input' = EndInputs(S, o)
    BY <1>6 DEF Exhaust, Finalize, Control
  <2> QED
    BY <1>6, <1>t, <2>1, EndsMove DEF Goal, EndsInputs
<1>7. ASSUME NEW d \in Drivers, FailsRetryable(d) PROVE Goal
  <2> DEFINE s == drv[d].event
  <2>1. s \in Inputs /\ Open(s)
    BY <1>7, <1>e DEF FailsRetryable, Failing, Busy, MayWrite, Fenced
  <2>2. PICK n \in {0, 1} : input' =
           [input EXCEPT ![s].status = "queued", ![s].attempts = @ - n]
    BY <1>7 DEF FailsRetryable
  <2> DEFINE r == AsQueued(input[s], n)
  <2>3. input' = [input EXCEPT ![s] = r]
    BY <1>t, <2>1, <2>2 DEF AsQueued
  <2>4. Becomes(r, input[s].kind, "queued")
    BY <1>t, <2>1, QueuedIs
  <2>5. Moves(input[s], r) /\ r.status = "queued"
    BY <2>1, <2>4 DEF Open, Moves, Becomes
  <2> HIDE DEF r, s
  <2> QED
    BY <1>t, <2>1, <2>3, <2>5, OneMoves DEF Goal, Ended
<1>8. ASSUME NEW d \in Drivers, Rejected(d) PROVE Goal
  <2>1. drv[d].event \in Inputs
    BY <1>8, <1>e DEF Rejected, Failing, Busy
  <2> QED
    BY <1>8, <1>t, <1>u, <2>1, RefundedMove DEF Rejected, Goal
<1>9. ASSUME NEW d \in Drivers, Shutdown(d) PROVE Goal
  <2>1. Running(d) => drv[d].event \in Inputs
    BY <1>e DEF Base, Driven
  <2> QED
    BY <1>9, <1>t, <1>u, <2>1, RefundedMove DEF Shutdown, Goal
<1>10. ASSUME NEW d \in Drivers,
              \/ EnsureDriver(d) \/ Rebuild(d) \/ AdmitOther(d) \/ Reclaim(d)
              \/ OpenModel(d) \/ Record(d) \/ FailsForGood(d) \/ Interrupt(d)
              \/ Kill(d) \/ Retire(d)
              \/ \E c \in Calls : ToolBegins(d, c)
       PROVE  Goal
  BY <1>10, <1>u DEF EnsureDriver, Rebuild, AdmitOther, Reclaim, OpenModel, Record,
     FailsForGood, Interrupt, Kill, Retire, ToolBegins, durable
<1>11. ASSUME NEW g \in gen,
              ModelFails(g) \/ \E calls \in SUBSET Calls : ModelCommits(g, calls)
       PROVE  Goal
  BY <1>11, <1>u DEF ModelFails, ModelCommits
<1>12. ASSUME NEW t \in tasks, ToolCommits(t) \/ ToolFails(t) \/ TaskRejected(t)
       PROVE  Goal
  BY <1>12, <1>u DEF ToolCommits, ToolFails, TaskRejected, durable
<1> QED
  BY <1>1, <1>2, <1>3, <1>4, <1>5, <1>6, <1>7, <1>8, <1>9, <1>10, <1>11, <1>12
  DEF Next, Advance, Disturb, Goal

-----------------------------------------------------------------------------
(* What a step does to the tape: rounds stay, and so do the calls they     *)
(* have committed.                                                         *)

Grows(old, new) ==
    /\ new \in Entries
    /\ new.input = old.input /\ new.steers = old.steers /\ new.calls = old.calls
    /\ \A c \in Calls : old.commits[c] <= new.commits[c]

TapeKeeps ==
    /\ tape' \in Seq(Entries) /\ Len(tape') \in Nat /\ Len(tape) <= Len(tape')
    /\ \A i \in Rounds : Grows(tape[i], tape'[i])

(* The tape may stay.                                                      *)
LEMMA SameTape ==
    ASSUME tape \in Seq(Entries), tape' = tape
    PROVE  TapeKeeps
<1>1. Len(tape) \in Nat /\ \A i \in Rounds : tape[i] \in Entries
  BY TapeFun
<1>2. \A e \in Entries : Grows(e, e)
  BY DEF Grows, Entries
<1> QED
  BY <1>1, <1>2 DEF TapeKeeps

(* A response is added.                                                    *)
LEMMA ResponseIs ==
    ASSUME NEW g \in Generations, NEW calls \in SUBSET Calls
    PROVE  LET new == Response(g, calls) IN
           /\ new \in Entries
           /\ new.input = g.input /\ new.steers = g.steers /\ new.calls = calls
           /\ ~new.done /\ new.receipts = {} /\ new.purged = {}
           /\ new.results = NoResults /\ \A c \in Calls : new.commits[c] = 0
<1>1. NoResults \in [Calls -> Results]
  BY DEF NoResults, Results
<1> DEFINE zero == [c \in Calls |-> 0]
<1>2. zero \in [Calls -> Nat] /\ \A c \in Calls : zero[c] = 0
  OBVIOUS
<1>3. Response(g, calls)
        = [input |-> g.input, steers |-> g.steers, calls |-> calls,
           done |-> FALSE, results |-> NoResults, receipts |-> {},
           commits |-> zero, purged |-> {}]
  BY DEF Response
<1> HIDE DEF zero, NoResults
<1> QED
  BY <1>1, <1>2, <1>3 DEF Entries, Generations

(* The tape with one response more.                                        *)
LEMMA AppendIs ==
    ASSUME tape \in Seq(Entries), NEW e \in Entries, tape' = Append(tape, e)
    PROVE  /\ tape' \in Seq(Entries) /\ Len(tape') = Len(tape) + 1
           /\ tape'[Len(tape) + 1] = e
           /\ \A i \in Rounds : tape'[i] = tape[i]
           /\ TapeKeeps
<1>1. Len(tape) \in Nat /\ \A i \in Rounds : tape[i] \in Entries
  BY TapeFun
<1>2. /\ tape' \in Seq(Entries) /\ Len(tape') = Len(tape) + 1
      /\ tape'[Len(tape) + 1] = e
      /\ \A i \in 1 .. Len(tape) : tape'[i] = tape[i]
  BY AppendProperties
<1>3. \A q \in Entries : Grows(q, q)
  BY DEF Grows, Entries
<1> QED
  BY <1>1, <1>2, <1>3 DEF TapeKeeps, Rounds

(* One round grows, or all do.                                             *)
LEMMA RoundGrows ==
    ASSUME tape \in Seq(Entries), NEW i, NEW e,
           i \in Rounds => Grows(tape[i], e), tape' = [tape EXCEPT ![i] = e]
    PROVE  TapeKeeps
<1>1. Len(tape) \in Nat /\ tape \in [Rounds -> Entries]
  BY TapeFun
<1>2. CASE i \in Rounds
  <2>1. e \in Entries
    BY <1>2 DEF Grows
  <2>2. /\ tape' \in Seq(Entries) /\ Len(tape') = Len(tape)
        /\ \A k \in Rounds : tape'[k] = IF k = i THEN e ELSE tape[k]
    BY <1>2, <2>1, OneRoundIs
  <2>3. \A q \in Entries : Grows(q, q)
    BY DEF Grows, Entries
  <2> QED
    BY <1>1, <1>2, <2>2, <2>3 DEF TapeKeeps
<1>3. CASE i \notin Rounds
  <2>1. tape' = tape
    BY <1>1, <1>3
  <2> QED
    BY <2>1, SameTape
<1> QED
  BY <1>2, <1>3

(* What a step makes of the tape.                                          *)
LEMMA TapeMoves ==
    ASSUME Base, Next
    PROVE  TapeKeeps
<1>t. /\ tape \in Seq(Entries) /\ gen \subseteq Generations
      /\ tasks \subseteq Transactions /\ drv \in [Drivers -> Processes]
      /\ Len(tape) \in Nat /\ \A i \in Rounds : tape[i] \in Entries
  BY TapeFun DEF Base, Typed
<1>u. tape' = tape => TapeKeeps
  BY <1>t, SameTape
<1>p. ASSUME NEW i, NEW calls \in SUBSET Calls, NEW results \in [Calls -> Results],
             tape' = RecordPending(i, calls, results)
      PROVE  TapeKeeps
  <2>1. /\ tape' \in Seq(Entries) /\ Len(tape') = Len(tape)
        /\ \A k \in Rounds : tape'[k] =
             IF k = i /\ calls # {} THEN Journaled(tape[k], calls, results)
             ELSE Discarded(tape[k])
    BY <1>t, <1>p, RecordPendingIs
  <2>2. \A k \in Rounds : /\ Grows(tape[k], Journaled(tape[k], calls, results))
                          /\ Grows(tape[k], Discarded(tape[k]))
    <3> TAKE k \in Rounds
    <3> DEFINE t == tape[k]
               new == Journaled(t, calls, results)
    <3>1. t \in Entries /\ \A c \in Calls : t.commits[c] \in Nat
      BY <1>t DEF Entries
    <3> HIDE DEF t
    <3>2. /\ new \in Entries /\ new.commits = t.commits
          /\ new.input = t.input /\ new.steers = t.steers /\ new.calls = t.calls
      BY <3>1, JournaledIs
    <3> HIDE DEF new
    <3>3. Grows(t, new)
      BY <3>1, <3>2 DEF Grows
    <3>4. Grows(t, Discarded(t))
      BY <3>1, DiscardedIs DEF Grows
    <3> QED
      BY <3>3, <3>4 DEF t, new
  <2> QED
    BY <1>t, <2>1, <2>2 DEF TapeKeeps
<1>1. ASSUME NEW d \in Drivers, Exhaust(d) PROVE TapeKeeps
  <2> DEFINE i == Latest(drv[d].event)
  <2>1. Unrecorded(i) \in SUBSET Calls
    <3>1. i \in 0 .. Len(tape)
      BY <1>t DEF Latest
    <3> QED
      BY <1>t, <3>1 DEF Unrecorded, Entries, Rounds
  <2>2. NoResults \in [Calls -> Results]
    BY DEF NoResults, Results
  <2> QED
    BY <1>1, <1>p, <2>1, <2>2 DEF Exhaust
<1>2. ASSUME NEW d \in Drivers, Finalize(d) PROVE TapeKeeps
  <2>1. drv[d].calls \in SUBSET Calls /\ drv[d].results \in [Calls -> Results]
    BY <1>t DEF Processes
  <2> QED
    BY <1>2, <1>p, <2>1 DEF Finalize
<1>3. ASSUME NEW d \in Drivers, Record(d) PROVE TapeKeeps
  <2> DEFINE i == drv[d].round
             e == Recorded(tape[i], drv[d].results)
  <2>1. drv[d].results \in [Calls -> Results]
    BY <1>t DEF Processes
  <2>2. ASSUME i \in Rounds PROVE Grows(tape[i], e)
    <3>1. tape[i] \in Entries /\ \A c \in Calls : tape[i].commits[c] \in Nat
      BY <1>t, <2>2 DEF Entries
    <3> QED
      BY <2>1, <3>1, RecordedIs DEF Grows
  <2>3. tape' = [tape EXCEPT ![i] = e]
    BY <1>3 DEF Record
  <2> HIDE DEF e, i
  <2> QED
    BY <1>t, <2>2, <2>3, RoundGrows
<1>4. ASSUME NEW t \in tasks, ToolCommits(t) PROVE TapeKeeps
  <2> DEFINE i == t.round
             e == WithReceipt(tape[i], t.call)
  <2>1. t.call \in Calls
    BY <1>t DEF Transactions
  <2>2. ASSUME i \in Rounds PROVE Grows(tape[i], e)
    <3>1. tape[i] \in Entries /\ \A c \in Calls : tape[i].commits[c] \in Nat
      BY <1>t, <2>2 DEF Entries
    <3>2. \A c \in Calls : tape[i].commits[c] <= e.commits[c]
      BY <2>1, <3>1, WithReceiptIs
    <3> QED
      BY <2>1, <3>1, <3>2, WithReceiptIs DEF Grows
  <2>3. tape' = [tape EXCEPT ![i] = e]
    BY <1>4 DEF ToolCommits, Committed
  <2> HIDE DEF e, i
  <2> QED
    BY <1>t, <2>2, <2>3, RoundGrows
<1>5. ASSUME NEW g \in gen, NEW calls \in SUBSET Calls, ModelCommits(g, calls)
      PROVE  TapeKeeps
  <2>1. Response(g, calls) \in Entries
    BY <1>t, ResponseIs
  <2> QED
    BY <1>t, <1>5, <2>1, AppendIs DEF ModelCommits
<1>6. ASSUME NEW s \in Inputs, NEW kind \in Kinds[s], Accept(s, kind) PROVE TapeKeeps
  BY <1>6, <1>u DEF Accept
<1>7. ASSUME NEW d \in Drivers,
             \/ EnsureDriver(d) \/ Rebuild(d) \/ AdmitOther(d) \/ Reclaim(d)
             \/ OpenModel(d) \/ FailsForGood(d) \/ Interrupt(d)
             \/ Kill(d) \/ Retire(d) \/ Admit(d) \/ AdmitCapacity(d)
             \/ Restore(d) \/ Boundary(d) \/ Control(d) \/ FailsRetryable(d)
             \/ Rejected(d) \/ Shutdown(d)
             \/ \E c \in Calls : ToolBegins(d, c)
      PROVE  TapeKeeps
  BY <1>7, <1>u DEF EnsureDriver, Rebuild, AdmitOther, Reclaim, OpenModel,
     FailsForGood, Interrupt, Kill, Retire, ToolBegins, durable, Admit,
     AdmitCapacity, Restore, Boundary, Control, FailsRetryable, Rejected, Shutdown
<1>8. ASSUME NEW g \in gen, ModelFails(g) PROVE TapeKeeps
  BY <1>8, <1>u DEF ModelFails
<1>9. ASSUME NEW t \in tasks, ToolFails(t) \/ TaskRejected(t) PROVE TapeKeeps
  BY <1>9, <1>u DEF ToolFails, TaskRejected, durable
<1> QED
  BY <1>1, <1>2, <1>3, <1>4, <1>5, <1>6, <1>7, <1>8, <1>9 DEF Next, Advance, Disturb

-----------------------------------------------------------------------------
(* What a step does to the drivers: each goes on with its run, or lets it  *)
(* go, and one may be admitted with the next epoch.                        *)

Blank(r, stage, s) ==
    /\ r \in Processes /\ r.stage = stage /\ r.event = s /\ r.epoch = 0
    /\ r.round = 0 /\ r.calls = {} /\ r.results = NoResults /\ r.steers = {}
    /\ r.outcome = "none"

(* No results yet.                                                         *)
LEMMA NoResultsIs ==
    NoResults \in [Calls -> Results] /\ \A c \in Calls : NoResults[c] = "none"
  BY DEF NoResults, Results

(* A driver that is down.                                                  *)
LEMMA DownIs == Blank(Down, "down", 0)
<1> HIDE DEF NoResults
<1> QED
  BY NoResultsIs DEF Down, Blank, Processes, Stages, Outcomes

(* A driver without a run.                                                 *)
LEMMA AtIs == \A stage \in Stages, s \in Inputs \cup {0} : Blank(At(stage, s), stage, s)
<1> HIDE DEF NoResults
<1> QED
  BY DownIs DEF At, Blank, Processes

(* A driver with one result more.                                          *)
LEMMA WithResultIs ==
    ASSUME NEW p \in Processes, NEW c \in Calls, NEW x \in Results
    PROVE  LET q == WithResult(p, c, x) IN
           /\ q \in Processes /\ q.stage = p.stage /\ q.event = p.event
           /\ q.epoch = p.epoch /\ q.round = p.round /\ q.calls = p.calls
           /\ q.steers = p.steers /\ q.outcome = p.outcome
           /\ q.results[c] = x
           /\ \A b \in Calls : b # c => q.results[b] = p.results[b]
  BY DEF WithResult, Processes

(* A driver that has looked for work.                                      *)
Fresh(r) ==
    /\ r.stage \in {"idle", "control", "waiting"} /\ Blank(r, r.stage, r.event)
    /\ r.stage # "idle" =>
          r.event \in Inputs /\ input'[r.event].status # "absent"
    /\ r.stage = "control" => input'[r.event].kind = "stop"

(* A driver that looks for its next input.                                 *)
LEMMA RebuildsTo ==
    ASSUME drv \in [Drivers -> Processes], input' \in [Inputs -> Signals],
           NEW d \in Drivers, Rebuilds(d)
    PROVE  \E r : Fresh(r) /\ drv' = [drv EXCEPT ![d] = r]
<1>1. CASE Become(d, At("idle", 0))
  <2>1. Fresh(At("idle", 0))
    BY AtIs DEF Fresh, Blank, Stages
  <2> QED
    BY <1>1, <2>1 DEF Become
<1>2. ASSUME NEW s \in Inputs, MayLead(s)',
             Become(d, At(IF input'[s].kind = "stop" THEN "control" ELSE "waiting", s))
      PROVE  \E r : Fresh(r) /\ drv' = [drv EXCEPT ![d] = r]
  <2> DEFINE stage == IF input'[s].kind = "stop" THEN "control" ELSE "waiting"
  <2>1. input'[s].status # "absent"
    BY <1>2 DEF MayLead, Open
  <2>2. stage \in Stages
    BY DEF Stages
  <2>3. Blank(At(stage, s), stage, s)
    BY <2>2, AtIs
  <2>4. Fresh(At(stage, s))
    BY <2>1, <2>3 DEF Fresh, Blank
  <2>5. drv' = [drv EXCEPT ![d] = At(stage, s)]
    BY <1>2 DEF Become
  <2> HIDE DEF stage
  <2> QED
    BY <2>4, <2>5
<1> QED
  BY <1>1, <1>2 DEF Rebuilds

(* A driver that goes on with its run.                                     *)
GoesOn(p, r) ==
    /\ r \in Processes /\ r.event = p.event /\ r.epoch = p.epoch /\ p.epoch > 0
    /\ Busy(p) /\ Busy(r) /\ r.stage # "control"

(* One that has admitted its input.                                        *)
Admitted(p, r) ==
    /\ r \in Processes /\ r.event = p.event /\ r.epoch = epoch'
    /\ epoch' = epoch + 1
    /\ Busy(p) /\ r.stage = "preparing"
    /\ r.calls = {} /\ r.results = NoResults

DriverMoves(p, r) ==
    \/ r = p \/ GoesOn(p, r) \/ Admitted(p, r) \/ Fresh(r) \/ r = Down

(* One driver moves, or some take a result.                                *)
OneMovesOn ==
    \/ \E d \in Drivers : \E r : DriverMoves(drv[d], r) /\ drv' = [drv EXCEPT ![d] = r]
    \/ /\ drv' \in [Drivers -> Processes]
       /\ \A d \in Drivers :
             /\ drv'[d].stage = drv[d].stage /\ drv'[d].event = drv[d].event
             /\ drv'[d].epoch = drv[d].epoch

(* Drivers that move as they may keep their types and epochs.              *)
LEMMA DrivenKept ==
    ASSUME Base, InputKeeps, input' \in [Inputs -> Signals],
           epoch' \in {epoch, epoch + 1}, OneMovesOn
    PROVE  drv' \in [Drivers -> Processes] /\ Driven'
<1>t. /\ epoch \in Nat /\ drv \in [Drivers -> Processes]
      /\ \A d \in Drivers : drv[d].epoch \in Nat
  BY DEF Base, Typed, Processes
<1>1. /\ \A d \in Drivers : Busy(drv[d]) =>
           drv[d].event \in Inputs /\ input'[drv[d].event].status # "absent"
      /\ \A d \in Drivers : drv[d].stage = "control" =>
           input'[drv[d].event].kind = "stop"
  BY DEF Base, Driven, InputKeeps, Accepted, Busy
<1>2. /\ \A d \in Drivers : drv[d].epoch > 0 => drv[d].epoch <= epoch /\ Busy(drv[d])
      /\ \A d, e \in Drivers : drv[d].epoch > 0 /\ drv[d].epoch = drv[e].epoch => d = e
      /\ \A d \in Drivers : Runs(drv[d]) => drv[d].epoch > 0
  BY DEF Base, Driven, Running
<1> DEFINE Sound(r) ==
       /\ Busy(r) => r.event \in Inputs /\ input'[r.event].status # "absent"
       /\ r.stage = "control" => input'[r.event].kind = "stop"
       /\ r.epoch > 0 => r.epoch <= epoch' /\ Busy(r)
       /\ Runs(r) => r.epoch > 0
       Goal == drv' \in [Drivers -> Processes] /\ Driven'
<1>3. ASSUME drv' \in [Drivers -> Processes], \A d \in Drivers : Sound(drv'[d]),
             \A d, e \in Drivers :
                drv'[d].epoch > 0 /\ drv'[d].epoch = drv'[e].epoch => d = e
      PROVE  Goal
  BY <1>3 DEF Driven, Running, Accepted
<1> HIDE DEF Goal
<1>4. \A d \in Drivers : Sound(drv[d])
  BY <1>t, <1>1, <1>2
<1>5. ASSUME NEW d \in Drivers, NEW r, DriverMoves(drv[d], r),
             drv' = [drv EXCEPT ![d] = r]
      PROVE  Goal
  <2>1. r \in Processes /\ Sound(r)
    <3>1. CASE r = drv[d]
      BY <1>t, <1>4, <3>1
    <3>2. CASE GoesOn(drv[d], r)
      BY <1>t, <1>4, <3>2 DEF GoesOn
    <3>3. CASE Admitted(drv[d], r)
      BY <1>t, <1>4, <3>3 DEF Admitted, Busy
    <3>4. CASE Fresh(r)
      BY <3>4 DEF Fresh, Blank, Busy, Runs
    <3>5. CASE r = Down
      BY <3>5, DownIs DEF Blank, Busy, Runs
    <3> QED
      BY <1>5, <3>1, <3>2, <3>3, <3>4, <3>5 DEF DriverMoves
  <2>2. r.epoch \in {0, drv[d].epoch} \/ r.epoch = epoch + 1
    BY <1>5, DownIs DEF DriverMoves, GoesOn, Admitted, Fresh, Blank
  <2>3. \A e \in Drivers : drv'[e] = IF e = d THEN r ELSE drv[e]
    BY <1>t, <1>5
  <2>4. drv' \in [Drivers -> Processes]
    BY <1>t, <1>5, <2>1
  <2>5. \A e \in Drivers : Sound(drv'[e])
    BY <1>4, <2>1, <2>3
  <2> HIDE DEF Sound
  <2>6. \A e, f \in Drivers :
           drv'[e].epoch > 0 /\ drv'[e].epoch = drv'[f].epoch => e = f
    BY <1>t, <1>2, <2>2, <2>3
  <2> QED
    BY <1>3, <2>4, <2>5, <2>6
<1>6. ASSUME drv' \in [Drivers -> Processes],
             \A d \in Drivers :
                /\ drv'[d].stage = drv[d].stage /\ drv'[d].event = drv[d].event
                /\ drv'[d].epoch = drv[d].epoch
      PROVE  Goal
  BY <1>2, <1>3, <1>4, <1>6 DEF Busy, Runs
<1> QED
  BY <1>5, <1>6 DEF OneMovesOn, Goal

(* What a step makes of the drivers and of the epoch.                      *)
LEMMA DriversMove ==
    ASSUME Base, Next
    PROVE  OneMovesOn /\ epoch' \in {epoch, epoch + 1}
<1> DEFINE Goal == OneMovesOn /\ epoch' \in {epoch, epoch + 1}
<1>t. /\ epoch \in Nat /\ drv \in [Drivers -> Processes]
      /\ tape \in Seq(Entries) /\ Len(tape) \in Nat
      /\ \A i \in Rounds : tape[i] \in Entries
  BY TapeFun DEF Base, Typed
<1>i. input' \in [Inputs -> Signals] /\ InputKeeps
  BY InputMoves
<1>e. \A d \in Drivers : drv[d] \in Processes
  BY <1>t
<1>g. \A d \in Drivers : Runs(drv[d]) => drv[d].epoch > 0
  BY DEF Base, Driven, Running
<1>u. drv' = drv /\ epoch' \in {epoch, epoch + 1} => Goal
  BY <1>t DEF OneMovesOn
<1>m. ASSUME NEW d \in Drivers, NEW r, DriverMoves(drv[d], r), Become(d, r),
             epoch' \in {epoch, epoch + 1}
      PROVE  Goal
  BY <1>m DEF OneMovesOn, Become
<1>r. ASSUME NEW d \in Drivers, Rebuilds(d), epoch' \in {epoch, epoch + 1} PROVE Goal
  BY <1>t, <1>i, <1>r, RebuildsTo DEF OneMovesOn, DriverMoves
<1>d. ASSUME NEW d \in Drivers, Become(d, Down), epoch' = epoch PROVE Goal
  BY <1>d, <1>m DEF DriverMoves
<1>c. ASSUME NEW d \in Drivers, NEW c \in Stops, Become(d, At("control", c)),
             epoch' = epoch
      PROVE  Goal
  <2>1. Blank(At("control", c), "control", c)
    BY AtIs DEF Stages, Stops
  <2>2. c \in Inputs /\ input'[c].status # "absent" /\ input'[c].kind = "stop"
    BY <1>i DEF Stops, InputKeeps, Accepted, Open
  <2>3. Fresh(At("control", c))
    BY <2>1, <2>2 DEF Fresh, Blank
  <2> QED
    BY <1>c, <1>m, <2>3 DEF DriverMoves
<1>w. ASSUME NEW d \in Drivers, NEW r, GoesOn(drv[d], r), Become(d, r), epoch' = epoch
      PROVE  Goal
  BY <1>m, <1>w DEF DriverMoves
<1>k. ASSUME NEW t \in Transactions, NEW x \in Results, Deliver(t, x), epoch' = epoch
      PROVE  Goal
  <2>1. t.call \in Calls
    BY DEF Transactions
  <2>2. \A d \in Drivers :
          drv'[d] = IF drv[d].epoch = t.epoch /\ drv[d].stage = "executing"
                    THEN WithResult(drv[d], t.call, x) ELSE drv[d]
    BY <1>k DEF Deliver
  <2>3. \A d \in Drivers :
          /\ drv'[d] \in Processes
          /\ drv'[d].stage = drv[d].stage /\ drv'[d].event = drv[d].event
          /\ drv'[d].epoch = drv[d].epoch
    BY <1>e, <2>1, <2>2, WithResultIs
  <2>4. drv' \in [Drivers -> Processes]
    BY <1>k, <2>3 DEF Deliver
  <2> QED
    BY <1>k, <2>3, <2>4 DEF OneMovesOn
<1> HIDE DEF Goal
<1>1. ASSUME NEW s \in Inputs, NEW kind \in Kinds[s], Accept(s, kind) PROVE Goal
  BY <1>1, <1>u DEF Accept
<1>2. ASSUME NEW d \in Drivers,
             EnsureDriver(d) \/ Rebuild(d) \/ AdmitOther(d) \/ Control(d)
      PROVE  Goal
  BY <1>2, <1>r DEF EnsureDriver, Rebuild, AdmitOther, Control, durable
<1>3. ASSUME NEW d \in Drivers, Exhaust(d) PROVE Goal
  BY <1>3, <1>r DEF Exhaust
<1>4. ASSUME NEW d \in Drivers, AdmitCapacity(d) PROVE Goal
  BY <1>4, <1>r, <1>u DEF AdmitCapacity
<1>5. ASSUME NEW d \in Drivers, Admit(d) PROVE Goal
  <2> DEFINE s == drv[d].event
             p == At("preparing", s)
             n == epoch + 1
             r == [p EXCEPT !.epoch = n]
  <2>1. Busy(drv[d]) /\ Become(d, r) /\ epoch' = n
    BY <1>5 DEF Admit, Ready, Busy
  <2>2. s \in Inputs \cup {0}
    BY <1>e DEF Processes
  <2>3. Blank(p, "preparing", s)
    BY <2>2, AtIs DEF Stages
  <2>a. n \in Nat
    BY <1>t
  <2> HIDE DEF p, s, n
  <2>4. r \in Processes /\ r.event = s /\ r.epoch = n
        /\ r.stage = "preparing" /\ r.calls = {} /\ r.results = NoResults
    BY <2>3, <2>a DEF Blank, Processes
  <2> HIDE DEF r
  <2>5. Admitted(drv[d], r)
    BY <2>1, <2>4 DEF Admitted, s, n
  <2> QED
    BY <1>m, <2>1, <2>5 DEF DriverMoves, n
<1>6. ASSUME NEW d \in Drivers, NEW stage \in Stages, NEW o \in Outcomes,
             Busy(drv[d]), drv[d].epoch > 0,
             stage \notin {"down", "idle", "control"}, epoch' = epoch,
             \/ Become(d, [drv[d] EXCEPT !.stage = stage, !.outcome = o])
             \/ Become(d, [drv[d] EXCEPT !.stage = stage])
      PROVE  Goal
  <2> DEFINE p == drv[d]
             q == [p EXCEPT !.stage = stage, !.outcome = o]
             r == [p EXCEPT !.stage = stage]
  <2>1. p \in Processes /\ Busy(p) /\ p.epoch > 0
    BY <1>e, <1>6
  <2>2. Become(d, q) \/ Become(d, r)
    BY <1>6
  <2> HIDE DEF p
  <2>3. GoesOn(p, q)
    BY <1>6, <2>1 DEF GoesOn, Processes, Busy
  <2>4. GoesOn(p, r)
    BY <1>6, <2>1 DEF GoesOn, Processes, Busy
  <2> HIDE DEF q, r
  <2> QED
    BY <1>6, <1>w, <2>2, <2>3, <2>4 DEF p
<1>7. ASSUME NEW d \in Drivers, Reclaim(d) PROVE Goal
  <2>1. Become(d, [drv[d] EXCEPT !.stage = "restoring"]) /\ Busy(drv[d])
        /\ drv[d].epoch > 0 /\ epoch' = epoch
    BY <1>g, <1>7 DEF Reclaim, Busy, Runs
  <2> QED
    BY <1>6, <2>1 DEF Stages, Outcomes
<1>8. ASSUME NEW d \in Drivers, OpenModel(d) PROVE Goal
  <2>1. Become(d, [drv[d] EXCEPT !.stage = "streaming"]) /\ Busy(drv[d])
        /\ drv[d].epoch > 0 /\ epoch' = epoch
    BY <1>g, <1>8 DEF OpenModel, Busy, Runs
  <2> QED
    BY <1>6, <2>1 DEF Stages, Outcomes
<1>9. ASSUME NEW d \in Drivers, FailsRetryable(d) PROVE Goal
  <2>1. /\ Become(d, [drv[d] EXCEPT !.stage = "waiting", !.outcome = "none"])
        /\ Busy(drv[d]) /\ drv[d].epoch > 0 /\ epoch' = epoch
    BY <1>9 DEF FailsRetryable, Failing, Busy, Running
  <2> QED
    BY <1>6, <2>1 DEF Stages, Outcomes
<1>10. ASSUME NEW d \in Drivers, FailsForGood(d) PROVE Goal
  <2>1. /\ Become(d, [drv[d] EXCEPT !.stage = "finalizing",
                                    !.outcome = "dead_letter"])
        /\ Busy(drv[d]) /\ drv[d].epoch > 0 /\ epoch' = epoch
    BY <1>10 DEF FailsForGood, Failing, Busy, Running, durable
  <2> QED
    BY <1>6, <2>1 DEF Stages, Outcomes
<1>11. ASSUME NEW d \in Drivers, Interrupt(d) PROVE Goal
  <2>1. epoch' = epoch /\ Busy(drv[d])
    BY <1>11 DEF Interrupt, durable, Busy
  <2>2. CASE Running(d)
    <3>1. Become(d, [drv[d] EXCEPT !.stage = "finalizing", !.outcome = "stopped"])
      BY <1>11, <2>2 DEF Interrupt
    <3> QED
      BY <1>6, <2>1, <2>2, <3>1 DEF Stages, Outcomes, Running
  <2>3. CASE ~Running(d)
    <3>1. \E c \in Stops : Become(d, At("control", c))
      BY <1>11, <2>3 DEF Interrupt
    <3> QED
      BY <1>c, <2>1, <3>1
  <2> QED
    BY <2>2, <2>3
<1>12. ASSUME NEW d \in Drivers, Rejected(d) \/ Shutdown(d) \/ Kill(d) \/ Retire(d)
       PROVE  Goal
  BY <1>12, <1>d DEF Rejected, Shutdown, Kill, Retire, durable
<1>13. ASSUME NEW d \in Drivers, Finalize(d) PROVE Goal
  BY <1>13, <1>c, <1>r DEF Finalize
<1>14. ASSUME NEW t \in tasks, ToolCommits(t) \/ ToolFails(t) PROVE Goal
  <2>1. t \in Transactions
    BY DEF Base, Typed
  <2>2. PICK x \in {"ok", "error"} : Deliver(t, x) /\ epoch' = epoch
    BY <1>14 DEF ToolCommits, ToolFails, durable
  <2> QED
    BY <1>k, <2>1, <2>2 DEF Results
<1>15. ASSUME NEW t \in tasks, TaskRejected(t) PROVE Goal
  BY <1>15, <1>u DEF TaskRejected, durable
<1>16. ASSUME NEW g \in gen, ModelFails(g) PROVE Goal
  BY <1>16, <1>u DEF ModelFails
<1>17. ASSUME NEW d \in Drivers, Restore(d) PROVE Goal
  <2> DEFINE p == drv[d]
             s == p.event
             i == Latest(s)
             calls == Unrecorded(i)
             results == [c \in Calls |->
                  IF c \in calls /\ c \in tape[i].receipts THEN "ok" ELSE "none"]
             again == {r \in Others(s, TapedSteers(s)) : i = 0 /\ input[r].started
                                        /\ input[r].kind = "message"}
             stage == IF Stops # {} THEN "finalizing"
                        ELSE IF i = 0 THEN "requesting"
                        ELSE IF calls # {} THEN "executing" ELSE "boundary"
             outcome == IF Stops # {} THEN "stopped" ELSE "none"
             R(x) == [p EXCEPT !.stage = stage, !.outcome = outcome, !.round = i,
                         !.calls = calls, !.results = results,
                         !.steers = TapedSteers(s) \cup (again \ x)]
  <2>1. /\ Busy(p) /\ p.epoch > 0 /\ p \in Processes /\ epoch' = epoch
        /\ \E x : Become(d, R(x))
    BY <1>e, <1>g, <1>17 DEF Restore, Busy, Runs
  <2>2. i \in 0 .. Len(tape)
    BY <1>t DEF Latest
  <2>3. calls \in SUBSET Calls
    BY <1>t, <2>2 DEF Unrecorded, Entries, Rounds
  <2>4. results \in [Calls -> Results]
    BY DEF Results
  <2>5. TapedSteers(s) \in SUBSET Inputs
    <3>1. \A k \in Suffix(s) : tape[k].steers \in SUBSET Inputs
      BY <1>t DEF Suffix, Rounds, Entries
    <3> QED
      BY <3>1 DEF TapedSteers
  <2>6. again \in SUBSET Inputs
    BY DEF Others
  <2>7. /\ stage \in {"finalizing", "requesting", "executing", "boundary"}
        /\ outcome \in Outcomes /\ i \in Nat
    BY <1>t, <2>2 DEF Outcomes
  <2> HIDE DEF stage, outcome, again, results, calls, i, s, p
  <2>8. ASSUME NEW x PROVE GoesOn(p, R(x))
    <3> DEFINE steers == TapedSteers(s) \cup (again \ x)
    <3>1. steers \in SUBSET Inputs
      BY <2>5, <2>6
    <3> HIDE DEF steers
    <3> DEFINE q == [p EXCEPT !.stage = stage, !.outcome = outcome, !.round = i,
                         !.calls = calls, !.results = results, !.steers = steers]
    <3>2. GoesOn(p, q)
      BY <2>1, <2>3, <2>4, <2>7, <3>1 DEF GoesOn, Processes, Busy, Stages
    <3> QED
      BY <3>2 DEF steers
  <2> HIDE DEF R
  <2> QED
    BY <1>w, <2>1, <2>8 DEF p
<1>18. ASSUME NEW d \in Drivers, Boundary(d) PROVE Goal
  <2> DEFINE p == drv[d]
  <2>1. p \in Processes /\ Busy(p) /\ p.epoch > 0 /\ epoch' = epoch
    BY <1>e, <1>g, <1>18 DEF Boundary, Busy, Runs
  <2>2. PICK heard \in SUBSET Others(p.event, p.steers) :
          \/ Become(d, [p EXCEPT !.steers = @ \cup Joining(heard),
                                 !.stage = "requesting"])
          \/ Become(d, [p EXCEPT !.stage = "finalizing",
                                 !.outcome = "loop_finished"])
    BY <1>18 DEF Boundary
  <2> DEFINE joins == Joining(heard)
             q == [p EXCEPT !.steers = @ \cup joins, !.stage = "requesting"]
  <2>3. joins \in SUBSET Inputs
    BY DEF Others, Joining
  <2> HIDE DEF joins, p
  <2>4. GoesOn(p, q)
    BY <2>1, <2>3 DEF GoesOn, Processes, Busy, Stages
  <2> HIDE DEF q
  <2>5. CASE Become(d, q)
    BY <1>w, <2>1, <2>4, <2>5 DEF p
  <2>6. CASE Become(d, [p EXCEPT !.stage = "finalizing",
                                 !.outcome = "loop_finished"])
    BY <1>6, <2>1, <2>6 DEF p, Stages, Outcomes
  <2> QED
    BY <2>2, <2>5, <2>6 DEF q, joins
<1>19. ASSUME NEW d \in Drivers, Record(d) PROVE Goal
  <2> DEFINE p == drv[d]
             q == [p EXCEPT !.stage = "boundary", !.calls = {},
                            !.results = NoResults]
  <2>1. /\ p \in Processes /\ Busy(p) /\ p.epoch > 0 /\ epoch' = epoch
        /\ Become(d, q)
    BY <1>e, <1>g, <1>19 DEF Record, Busy, Runs
  <2> HIDE DEF p
  <2>2. GoesOn(p, q)
    BY <2>1, NoResultsIs DEF GoesOn, Processes, Busy, Stages
  <2> HIDE DEF q
  <2> QED
    BY <1>w, <2>1, <2>2 DEF p
<1>20. ASSUME NEW g \in gen, NEW calls \in SUBSET Calls, ModelCommits(g, calls)
       PROVE  Goal
  <2>1. CASE drv' = drv
    BY <1>20, <1>u, <2>1 DEF ModelCommits
  <2>2. ASSUME NEW d \in Drivers, Streams(d, g),
               Become(d, [drv[d] EXCEPT
                  !.stage = IF calls = {} THEN "boundary" ELSE "executing",
                  !.round = Len(tape) + 1, !.calls = calls, !.results = NoResults])
        PROVE  Goal
    <3> DEFINE p == drv[d]
               stage == IF calls = {} THEN "boundary" ELSE "executing"
               n == Len(tape) + 1
               q == [p EXCEPT !.stage = stage, !.round = n, !.calls = calls,
                              !.results = NoResults]
    <3>1. /\ p \in Processes /\ Busy(p) /\ p.epoch > 0 /\ epoch' = epoch
          /\ Become(d, q)
      BY <1>e, <1>g, <1>20, <2>2 DEF ModelCommits, Streams, Busy, Runs
    <3>2. n \in Nat /\ stage \in {"boundary", "executing"}
      BY <1>t
    <3> HIDE DEF p, n, stage
    <3>3. GoesOn(p, q)
      BY <3>1, <3>2, NoResultsIs DEF GoesOn, Processes, Busy, Stages
    <3> HIDE DEF q
    <3> QED
      BY <1>w, <3>1, <3>3 DEF p
  <2> QED
    BY <1>20, <2>1, <2>2 DEF ModelCommits
<1>21. ASSUME NEW d \in Drivers, NEW c \in Calls, ToolBegins(d, c) PROVE Goal
  <2> DEFINE q == WithResult(drv[d], c, "ok")
  <2>1. epoch' = epoch /\ (drv' = drv \/ Become(d, q)) /\ Busy(drv[d])
        /\ drv[d].stage = "executing" /\ drv[d].epoch > 0
    BY <1>g, <1>21 DEF ToolBegins, durable, Busy, Runs
  <2>2. /\ q \in Processes /\ q.stage = drv[d].stage
        /\ q.event = drv[d].event /\ q.epoch = drv[d].epoch
    <3>1. "ok" \in Results
      BY DEF Results
    <3> QED
      BY <1>e, <3>1, WithResultIs
  <2> HIDE DEF q
  <2>3. GoesOn(drv[d], q)
    BY <2>1, <2>2 DEF GoesOn, Busy
  <2> QED
    BY <1>u, <1>w, <2>1, <2>3 DEF q
<1> QED
  BY <1>1, <1>2, <1>3, <1>4, <1>5, <1>7, <1>8, <1>9, <1>10, <1>11, <1>12, <1>13,
     <1>14, <1>15, <1>16, <1>17, <1>18, <1>19, <1>20, <1>21
  DEF Next, Advance, Disturb, Goal

(* What the drivers start.                                                 *)
LEMMA StartedKept ==
    ASSUME Base, Next, InputKeeps, epoch' \in {epoch, epoch + 1}
    PROVE  gen' \subseteq Generations /\ tasks' \subseteq Transactions /\ Started'
<1>t. /\ epoch \in Nat /\ drv \in [Drivers -> Processes]
      /\ gen \subseteq Generations /\ tasks \subseteq Transactions
      /\ \A d \in Drivers : drv[d] \in Processes
  BY DEF Base, Typed
<1>s. /\ \A t \in tasks : t.epoch \in 1 .. epoch' /\ Accepted(t.input)
                          /\ t.input \in Inputs /\ input'[t.input].status # "absent"
      /\ \A g \in gen : g.by \in 1 .. epoch'
  <2>1. /\ \A t \in tasks : t.epoch \in 1 .. epoch /\ Accepted(t.input)
        /\ \A g \in gen : g.by \in 1 .. epoch
    BY DEF Base, Started
  <2> QED
    BY <1>t, <2>1 DEF InputKeeps, Accepted
<1>g. \A d \in Drivers : Runs(drv[d]) =>
         /\ drv[d].epoch \in 1 .. epoch /\ drv[d].event \in Inputs
         /\ Accepted(drv[d].event)
  BY <1>t DEF Base, Driven, Running, Runs, Busy, Accepted, Processes
<1>1. \/ gen' \subseteq gen
      \/ \E d \in Drivers : /\ Runs(drv[d])
                           /\ gen' = gen \cup {[input |-> drv[d].event,
                                 by |-> drv[d].epoch, steers |-> drv[d].steers]}
  BY DEF Next, Advance, Disturb, EnsureDriver, Rebuild, AdmitOther, Reclaim, OpenModel,
     FailsForGood, Interrupt, Kill, Retire, ToolBegins, durable, Admit, Exhaust,
     AdmitCapacity, Restore, Boundary, Control, FailsRetryable, Rejected, Shutdown,
     Accept, Record, Finalize, ModelFails, ModelCommits, ToolCommits, ToolFails,
     TaskRejected, Retracted, Runs
<1>2. \/ tasks' \subseteq tasks
      \/ \E d \in Drivers : \E c \in Calls :
            /\ Runs(drv[d])
            /\ tasks' = tasks \cup {[epoch |-> drv[d].epoch,
                   input |-> drv[d].event, round |-> drv[d].round, call |-> c]}
  BY DEF Next, Advance, Disturb, EnsureDriver, Rebuild, AdmitOther, Reclaim, OpenModel,
     FailsForGood, Interrupt, Kill, Retire, ToolBegins, durable, Admit, Exhaust,
     AdmitCapacity, Restore, Boundary, Control, FailsRetryable, Rejected, Shutdown,
     Accept, Record, Finalize, ModelFails, ModelCommits, ToolCommits, ToolFails,
     TaskRejected, Runs
<1>3. gen' \subseteq Generations /\ \A g \in gen' : g.by \in 1 .. epoch'
  <2>1. CASE gen' \subseteq gen
    BY <1>t, <1>s, <2>1
  <2>2. ASSUME NEW d \in Drivers, Runs(drv[d]),
               gen' = gen \cup {[input |-> drv[d].event, by |-> drv[d].epoch,
                                 steers |-> drv[d].steers]}
        PROVE  gen' \subseteq Generations /\ \A g \in gen' : g.by \in 1 .. epoch'
    <3> DEFINE new == [input |-> drv[d].event, by |-> drv[d].epoch,
                       steers |-> drv[d].steers]
    <3>1. new \in Generations /\ new.by \in 1 .. epoch'
      BY <1>t, <1>g, <2>2 DEF Generations, Processes
    <3> HIDE DEF new
    <3> QED
      BY <1>t, <1>s, <2>2, <3>1 DEF new
  <2> QED
    BY <1>1, <2>1, <2>2
<1>4. /\ tasks' \subseteq Transactions
      /\ \A t \in tasks' : /\ t.epoch \in 1 .. epoch'
                           /\ t.input \in Inputs /\ input'[t.input].status # "absent"
  <2>1. CASE tasks' \subseteq tasks
    BY <1>t, <1>s, <2>1
  <2>2. ASSUME NEW d \in Drivers, NEW c \in Calls, Runs(drv[d]),
               tasks' = tasks \cup {[epoch |-> drv[d].epoch,
                   input |-> drv[d].event, round |-> drv[d].round, call |-> c]}
        PROVE  /\ tasks' \subseteq Transactions
               /\ \A t \in tasks' :
                    /\ t.epoch \in 1 .. epoch'
                    /\ t.input \in Inputs /\ input'[t.input].status # "absent"
    <3> DEFINE new == [epoch |-> drv[d].epoch,
                   input |-> drv[d].event, round |-> drv[d].round, call |-> c]
    <3>1. new \in Transactions /\ new.epoch \in 1 .. epoch'
          /\ new.input \in Inputs /\ input'[new.input].status # "absent"
      BY <1>t, <1>g, <2>2 DEF Transactions, Processes, InputKeeps, Accepted
    <3> HIDE DEF new
    <3> QED
      BY <1>t, <1>s, <2>2, <3>1 DEF new
  <2> QED
    BY <1>2, <2>1, <2>2
<1> QED
  BY <1>3, <1>4 DEF Started, Accepted

(* The counters of faults keep their type.                                 *)
LEMMA FaultsKept ==
    ASSUME faults \in [steps : Nat, streams : Nat], Next
    PROVE  faults' \in [steps : Nat, streams : Nat]
<1>1. Fault => faults' \in [steps : Nat, streams : Nat]
  BY DEF Fault
<1>2. Loss => faults' \in [steps : Nat, streams : Nat]
  BY DEF Loss
<1>3. faults' = faults \/ Fault \/ Loss
  BY DEF Next, Advance, Disturb, EnsureDriver, Rebuild, AdmitOther, Reclaim, OpenModel,
     FailsForGood, Interrupt, Kill, Retire, ToolBegins, durable, Admit, Exhaust,
     AdmitCapacity, Restore, Boundary, Control, FailsRetryable, Rejected, Shutdown,
     Accept, Record, Finalize, ModelFails, ModelCommits, ToolCommits, ToolFails,
     TaskRejected
<1> QED
  BY <1>1, <1>2, <1>3

(* The initial states are well formed.                                     *)
LEMMA BaseInit ==
    ASSUME Init
    PROVE  Base
<1>1. input \in [Inputs -> Signals] /\ tape \in Seq(Entries)
  BY DEF Init, NoInput, Signals, Statuses
<1>2. /\ drv \in [Drivers -> Processes]
      /\ \A d \in Drivers : drv[d].stage = "down" /\ drv[d].epoch = 0
  BY DownIs DEF Init, Blank
<1>3. /\ epoch = 0 /\ gen = {} /\ tasks = {}
      /\ faults \in [steps : Nat, streams : Nat]
  BY DEF Init
<1>4. Typed
  BY <1>1, <1>2, <1>3 DEF Typed
<1>5. Driven /\ Started
  BY <1>2, <1>3 DEF Driven, Started, Busy, Runs, Running
<1> QED
  BY <1>4, <1>5 DEF Base

(* Every step keeps the state well formed.                                 *)
LEMMA BaseKept ==
    ASSUME Base, Next
    PROVE  Base'
<1>1. input' \in [Inputs -> Signals] /\ InputKeeps
  BY InputMoves
<1>2. tape' \in Seq(Entries)
  BY TapeMoves DEF TapeKeeps
<1>3. OneMovesOn /\ epoch' \in {epoch, epoch + 1}
  BY DriversMove
<1>4. drv' \in [Drivers -> Processes] /\ Driven'
  BY <1>1, <1>3, DrivenKept
<1>5. gen' \subseteq Generations /\ tasks' \subseteq Transactions /\ Started'
  BY <1>1, <1>3, StartedKept
<1>6. epoch' \in Nat /\ faults' \in [steps : Nat, streams : Nat]
  BY <1>3, FaultsKept DEF Base, Typed
<1> QED
  BY <1>1, <1>2, <1>4, <1>5, <1>6 DEF Base, Typed

(* Every variable keeps its type.                                          *)
THEOREM TypeCorrect == Spec => []TypeOK
<1>1. Init => Base
  BY BaseInit
<1>2. Base /\ [Next]_vars => Base'
  <2>1. CASE Base /\ Next
    BY <2>1, BaseKept
  <2>2. CASE Base /\ UNCHANGED vars
    BY <2>2 DEF vars, Base, Typed, Driven, Started, Running, Busy, Runs, Accepted
  <2> QED
    BY <2>1, <2>2
<1>3. Base => TypeOK
  BY DEF Base, Typed, TypeOK, Signals, Entries, Generations, Transactions, Processes
<1> QED
  BY <1>1, <1>2, <1>3, PTL DEF Spec

-----------------------------------------------------------------------------
(* What every step gives.                                                  *)
Steady == /\ TapeKeeps /\ InputKeeps /\ Base /\ Base'
          /\ epoch' \in {epoch, epoch + 1}

(* What the lemmas on single steps assume holds of every step.             *)
LEMMA AlwaysSteady ==
    ASSUME Base, Next
    PROVE  Steady
  BY InputMoves, TapeMoves, DriversMove, BaseKept DEF Steady

(* A fence that is up has been up, and the epoch has not changed.          *)
LEMMA FencedBefore ==
    ASSUME Steady, NEW e, e <= epoch, NEW s, Accepted(s),
           e = epoch', input'[s].status \in {"queued", "running"}
    PROVE  Fenced(e, s) /\ epoch' = epoch
<1>1. epoch \in Nat
  BY DEF Steady, Base, Typed
<1>2. epoch' = epoch
  BY <1>1 DEF Steady
<1>3. Open(s)
  BY DEF Steady, InputKeeps, Accepted, Open
<1> QED
  BY <1>2, <1>3 DEF Fenced

(* A driver whose fence is up has had it up.                               *)
LEMMA MayWriteBefore ==
    ASSUME Steady, NEW d \in Drivers, Running(d),
           drv'[d].epoch = drv[d].epoch, drv'[d].event = drv[d].event, MayWrite(d)'
    PROVE  MayWrite(d) /\ epoch' = epoch
<1>1. drv[d].epoch <= epoch /\ Accepted(drv[d].event)
  BY DEF Steady, Base, Typed, Driven, Running, Busy, Processes
<1>2. /\ drv[d].epoch = epoch'
      /\ input'[drv[d].event].status \in {"queued", "running"}
  BY DEF MayWrite, Fenced, Open
<1> QED
  BY <1>1, <1>2, FencedBefore DEF MayWrite

(* Only one driver holds the epoch.                                        *)
LEMMA OneWriter ==
    ASSUME Base, NEW d \in Drivers, NEW e \in Drivers,
           Running(d), MayWrite(d), MayWrite(e)
    PROVE  e = d
<1>1. \A f, g \in Drivers : Running(f) /\ drv[f].epoch = drv[g].epoch => f = g
  BY DEF Base, Driven
<1>2. drv[d].epoch = drv[e].epoch
  BY DEF MayWrite, Fenced
<1> QED
  BY <1>1, <1>2

(* A step that leaves a driver as it is, and does not disturb it.          *)
Calm(e) ==
    /\ drv'[e] = drv[e]
    /\ \A t \in tasks' : t \in tasks \/ t.epoch # drv[e].epoch
    /\ \A g \in gen' : g \in gen \/ g.by # drv[e].epoch
    /\ MayWrite(e) /\ epoch' = epoch =>
         /\ gen' \subseteq gen
         /\ gen = {} => Len(tape') = Len(tape)
         /\ \A i \in Rounds : /\ tape'[i].done => tape[i].done
                              /\ tape[i].receipts \subseteq tape'[i].receipts

(* A driver that a step leaves alone stays as good as it was.              *)
LEMMA CalmGood ==
    ASSUME Steady, NEW e \in Drivers, Good(e), Calm(e)
    PROVE  Good(e)'
<1> SUFFICES ASSUME Running(e)
             PROVE  (/\ Owns(e) /\ Seen(e) /\ Newest(e) /\ Placed(e)
                     /\ Generates(e) /\ Quiet(e))'
  BY DEF Good, Calm, Running
<1>1. drv'[e] = drv[e]
  BY DEF Calm
<1>2. Owns(e) /\ Seen(e) /\ Newest(e) /\ Placed(e) /\ Generates(e) /\ Quiet(e)
  BY DEF Good
<1>3. MayWrite(e)' => MayWrite(e) /\ epoch' = epoch
  BY <1>1, MayWriteBefore
<1>4. /\ Len(tape) \in Nat /\ Len(tape') \in Nat /\ Len(tape) <= Len(tape')
      /\ \A i \in Rounds : /\ i \in Rounds'
                           /\ tape'[i].input = tape[i].input
                           /\ tape'[i].calls = tape[i].calls
                           /\ \A c \in Calls : tape[i].commits[c] \in Nat /\ tape'[i].commits[c] \in Nat
                                 /\ tape[i].commits[c] <= tape'[i].commits[c]
  <2>1. tape \in Seq(Entries)
    BY DEF Steady, Base, Typed
  <2>2. Len(tape) \in Nat /\ \A i \in Rounds : tape[i] \in Entries
    BY <2>1, TapeFun
  <2>3. /\ Len(tape') \in Nat /\ Len(tape) <= Len(tape')
        /\ \A i \in Rounds : Grows(tape[i], tape'[i])
    BY DEF Steady, TapeKeeps
  <2>4. \A i \in Rounds : i \in Rounds'
    BY <2>2, <2>3 DEF Rounds
  <2> QED
    BY <2>2, <2>3, <2>4 DEF Grows, Entries
<1>5. Owns(e)'
  BY <1>1, <1>2 DEF Owns, Calm
<1>6. Seen(e)'
  BY <1>1, <1>2, <1>3, <1>4 DEF Seen, Calm
<1>7. Newest(e)'
  <2>1. SUFFICES ASSUME MayWrite(e)', drv[e].stage = "executing"
        PROVE  Newest(e)'
    BY <1>1 DEF Newest
  <2>2. gen = {} /\ Len(tape') = Len(tape)
    BY <1>2, <1>3, <2>1 DEF Quiet, Calm
  <2>3. drv[e].round \in Rounds
    BY <1>2, <1>3, <2>1 DEF Newest, Seen
  <2> QED
    BY <1>1, <1>2, <1>3, <2>1, <2>2, <2>3 DEF Newest, Calm
<1>8. Placed(e)'
  BY <1>1, <1>2, <1>4 DEF Placed
<1>9. Generates(e)'
  BY <1>1, <1>2 DEF Generates, Calm
<1>10. Quiet(e)'
  BY <1>1, <1>2, <1>3 DEF Quiet, Calm
<1> QED
  BY <1>5, <1>6, <1>7, <1>8, <1>9, <1>10

(* A driver that has let its run go, or has been admitted.                 *)
LEMMA RestedGood ==
    ASSUME Steady, NEW d \in Drivers, NEW r, drv' = [drv EXCEPT ![d] = r],
           r.epoch = 0 \/ Admitted(drv[d], r),
           tasks' \subseteq tasks, gen' \subseteq gen
    PROVE  Good(d)'
<1>1. drv'[d] = r
  BY DEF Steady, Base, Typed
<1>2. CASE r.epoch = 0
  BY <1>1, <1>2 DEF Good, Running
<1>3. CASE Admitted(drv[d], r)
  <2>1. /\ \A t \in tasks' : t.epoch # r.epoch
        /\ \A g \in gen' : g.by # r.epoch
    BY <1>3 DEF Steady, Base, Typed, Started, Admitted
  <2>2. \A c \in Calls : r.results[c] = "none"
    BY <1>3, NoResultsIs DEF Admitted
  <2>3. r.stage = "preparing" /\ r.calls = {}
    BY <1>3 DEF Admitted
  <2>4. Owns(d)' /\ Generates(d)'
    BY <1>1, <2>1 DEF Owns, Generates
  <2>5. Seen(d)' /\ Newest(d)' /\ Placed(d)' /\ Quiet(d)'
    BY <1>1, <2>2, <2>3 DEF Seen, Newest, Placed, Quiet
  <2> QED
    BY <2>4, <2>5 DEF Good
<1> QED
  BY <1>2, <1>3

(* What holds of tasks and rounds holds on while the tape stays.           *)
LEMMA TapeStays ==
    ASSUME Steady, Inv, tape' = tape, tasks' \subseteq tasks
    PROVE  /\ (\A t \in tasks : Working(t))'
           /\ Exclusive'
           /\ (\A i \in Rounds : Kept(tape[i]))'
<1>1. ASSUME NEW t \in tasks, t \in tasks' PROVE Working(t)'
  <2>1. Working(t)
    BY DEF Inv
  <2>2. t.epoch <= epoch /\ Accepted(t.input) /\ epoch \in Nat
    BY DEF Steady, Base, Started, Typed
  <2>3. Fenced(t.epoch, t.input)' => Fenced(t.epoch, t.input)
    <3>1. Fenced(t.epoch, t.input)' =>
            t.epoch = epoch' /\ input'[t.input].status \in {"queued", "running"}
      BY DEF Fenced, Open
    <3> QED
      BY <2>2, <3>1, FencedBefore
  <2> QED
    BY <2>1, <2>3 DEF Working, Rounds
<1>2. Exclusive'
  BY DEF Inv, Exclusive
<1>3. (\A i \in Rounds : Kept(tape[i]))'
  BY DEF Inv, Rounds, Kept
<1> QED
  BY <1>1, <1>2, <1>3

(* A step in which drivers stop, look for work or are admitted.            *)
LEMMA RestStep ==
    ASSUME Steady, Inv, tape' = tape, tasks' \subseteq tasks, gen' \subseteq gen,
           \/ drv' = drv
           \/ \E d \in Drivers : \E r :
                /\ drv' = [drv EXCEPT ![d] = r]
                /\ r.epoch = 0 \/ Admitted(drv[d], r)
    PROVE  Inv'
<1>1. ASSUME NEW e \in Drivers, drv'[e] = drv[e] PROVE Good(e)'
  <2>1. Calm(e)
    <3>1. tape'= tape /\ Len(tape') = Len(tape)
      OBVIOUS
    <3> QED
      BY <1>1, <3>1 DEF Calm
  <2> QED
    BY <2>1, CalmGood DEF Inv
<1>2. \A d \in Drivers : Good(d)'
  <2>1. CASE drv' = drv
    BY <1>1, <2>1
  <2>2. ASSUME NEW d \in Drivers, NEW r, drv' = [drv EXCEPT ![d] = r],
               r.epoch = 0 \/ Admitted(drv[d], r)
        PROVE  \A e \in Drivers : Good(e)'
    <3>1. Good(d)'
      BY <2>2, RestedGood
    <3>2. \A e \in Drivers : e # d => drv'[e] = drv[e]
      BY <2>2 DEF Steady, Base, Typed
    <3> QED
      BY <1>1, <3>1, <3>2
  <2> QED
    BY <2>1, <2>2
<1> QED
  BY <1>2, TapeStays DEF Inv, Steady

(* A step in which a driver goes on, with what it has of its round.        *)
LEMMA GoesOnStep ==
    ASSUME Steady, Inv, tape' = tape, tasks' \subseteq tasks,
           NEW d \in Drivers, NEW r, drv' = [drv EXCEPT ![d] = r],
           GoesOn(drv[d], r), r.stage # "executing",
           r.round = drv[d].round, r.calls = drv[d].calls, r.results = drv[d].results,
           r.stage = "finalizing" \/ \A t \in tasks' : t.epoch # r.epoch,
           \/ r.stage \in {"waiting", "restoring", "requesting", "streaming"}
           \/ r.stage = "finalizing" /\ r.outcome \in {"stopped", "dead_letter"}
           \/ r.stage = "finalizing" /\ drv[d].stage = "boundary",
           gen' \subseteq gen \/ MayWrite(d),
           \A g \in gen' : g \in gen \/ (g.by = r.epoch /\ g.input = r.event),
           MayWrite(d) =>
             /\ r.stage \in {"restoring", "requesting", "boundary"} => gen' = {}
             /\ r.stage = "streaming" =>
                  gen' \subseteq {[input |-> r.event, by |-> r.epoch, steers |-> r.steers]}
    PROVE  Inv'
<1>t. drv \in [Drivers -> Processes] /\ drv'[d] = r
  BY DEF Steady, Base, Typed
<1>p. r.epoch = drv[d].epoch /\ r.event = drv[d].event /\ Running(d)
  BY DEF GoesOn, Running
<1>1. ASSUME NEW e \in Drivers, e # d PROVE Good(e)'
  <2>1. drv'[e] = drv[e]
    BY <1>1, <1>t
  <2>2. drv[e].epoch # r.epoch
    BY <1>1, <1>p DEF Steady, Base, Driven
  <2>3. MayWrite(e) => gen' \subseteq gen
    BY <1>1, <1>p, OneWriter DEF Steady
  <2>4. Calm(e)
    BY <2>1, <2>2, <2>3 DEF Calm
  <2> QED
    BY <2>4, CalmGood DEF Inv
<1>2. Good(d)'
  <2>1. Owns(d) /\ Seen(d) /\ Placed(d) /\ Generates(d)
    BY <1>p DEF Inv, Good
  <2>2. MayWrite(d)' => MayWrite(d)
    BY <1>p, <1>t, MayWriteBefore
  <2>3. Owns(d)'
    BY <1>t DEF Owns
  <2>4. Seen(d)'
    BY <1>t, <2>1, <2>2 DEF Seen, Rounds
  <2>5. Newest(d)'
    BY <1>t DEF Newest
  <2>6. Placed(d)'
    BY <1>t, <1>p, <2>1 DEF Placed, Rounds, GoesOn
  <2>7. Generates(d)'
    BY <1>t, <1>p, <2>1 DEF Generates
  <2>8. Quiet(d)'
    BY <1>t, <2>2 DEF Quiet
  <2> QED
    BY <2>3, <2>4, <2>5, <2>6, <2>7, <2>8 DEF Good
<1> QED
  BY <1>1, <1>2, TapeStays DEF Inv, Steady

-----------------------------------------------------------------------------
(* The actions, one group at a time.                                       *)

(* Steps in which a driver starts, admits or lets its run go.              *)
LEMMA RestActions ==
    ASSUME Steady, Inv, NEW d \in Drivers,
           \/ EnsureDriver(d) \/ Rebuild(d) \/ AdmitOther(d) \/ Control(d)
           \/ AdmitCapacity(d) \/ Admit(d) \/ Rejected(d) \/ Shutdown(d)
           \/ Kill(d) \/ Retire(d)
    PROVE  Inv'
<1>t. /\ drv \in [Drivers -> Processes] /\ input' \in [Inputs -> Signals]
      /\ epoch \in Nat /\ drv[d].event \in Inputs \cup {0}
  BY DEF Steady, Base, Typed, Processes
<1>1. tape' = tape /\ tasks' \subseteq tasks /\ gen' \subseteq gen
  BY DEF EnsureDriver, Rebuild, AdmitOther, Control, AdmitCapacity, Admit, Rejected,
     Shutdown, Kill, Retire, durable
<1>2. Rebuilds(d) => \E r : drv' = [drv EXCEPT ![d] = r] /\ r.epoch = 0
  BY <1>t, RebuildsTo DEF Fresh, Blank
<1>3. Become(d, Down) => \E r : drv' = [drv EXCEPT ![d] = r] /\ r.epoch = 0
  BY DownIs DEF Become, Blank
<1>4. ASSUME Admit(d)
      PROVE  \E r : drv' = [drv EXCEPT ![d] = r] /\ Admitted(drv[d], r)
  <2> DEFINE s == drv[d].event
             p == At("preparing", s)
             n == epoch + 1
             r == [p EXCEPT !.epoch = n]
  <2>1. /\ Busy(drv[d]) /\ drv' = [drv EXCEPT ![d] = r] /\ epoch' = n
    BY <1>4 DEF Admit, Ready, Busy, Become
  <2>2. n \in Nat /\ Blank(p, "preparing", s)
    BY <1>t, AtIs DEF Stages
  <2> HIDE DEF p, s, n
  <2>3. r \in Processes /\ r.event = s /\ r.epoch = n
        /\ r.stage = "preparing" /\ r.calls = {} /\ r.results = NoResults
    BY <2>2 DEF Blank, Processes
  <2> HIDE DEF r
  <2>4. Admitted(drv[d], r)
    BY <2>1, <2>3 DEF Admitted, s, n
  <2> QED
    BY <2>1, <2>4
<1>5. \/ drv' = drv \/ Rebuilds(d) \/ Become(d, Down) \/ Admit(d)
  BY DEF EnsureDriver, Rebuild, AdmitOther, Control, AdmitCapacity, Rejected,
     Shutdown, Kill, Retire
<1> QED
  BY <1>1, <1>2, <1>3, <1>4, <1>5, RestStep

(* Steps in which an attempt fails or is stopped.                          *)
LEMMA FailingActions ==
    ASSUME Steady, Inv, NEW d \in Drivers,
           FailsRetryable(d) \/ FailsForGood(d) \/ Interrupt(d)
    PROVE  Inv'
<1> DEFINE p == drv[d]
<1>t. p \in Processes /\ Busy(p) /\ drv \in [Drivers -> Processes]
  BY DEF Steady, Base, Typed, FailsRetryable, FailsForGood, Failing, Interrupt, Busy
<1>a. tape' = tape /\ gen' = gen /\ tasks' \subseteq tasks
  BY DEF FailsRetryable, FailsForGood, Interrupt, durable
<1>1. ASSUME NEW stage \in {"waiting", "finalizing"},
             NEW o \in {"none", "stopped", "dead_letter"},
             stage = "finalizing" => o \in {"stopped", "dead_letter"},
             stage = "waiting" => tasks' = tasks \ TasksOf(d),
             p.epoch > 0, Become(d, [p EXCEPT !.stage = stage, !.outcome = o])
      PROVE  Inv'
  <2> DEFINE r == [p EXCEPT !.stage = stage, !.outcome = o]
  <2>1. drv' = [drv EXCEPT ![d] = r] /\ p.epoch > 0
    BY <1>1 DEF Become
  <2>2. stage = "waiting" => \A t \in tasks' : t.epoch # p.epoch
    BY <1>1 DEF TasksOf
  <2> HIDE DEF p
  <2>3. /\ r \in Processes /\ r.event = p.event /\ r.epoch = p.epoch
        /\ r.stage = stage /\ r.outcome = o /\ r.round = p.round
        /\ r.calls = p.calls /\ r.results = p.results
    BY <1>t, <1>1 DEF Processes, Stages, Outcomes
  <2> HIDE DEF r
  <2>4. GoesOn(p, r)
    BY <1>t, <1>1, <2>1, <2>3 DEF GoesOn, Busy
  <2> USE DEF p
  <2> QED
    BY <1>a, <1>1, <2>1, <2>2, <2>3, <2>4, GoesOnStep
<1>2. CASE FailsRetryable(d)
  <2>1. /\ p.epoch > 0 /\ tasks' = tasks \ TasksOf(d)
        /\ Become(d, [p EXCEPT !.stage = "waiting", !.outcome = "none"])
    BY <1>2 DEF FailsRetryable, Failing, Running
  <2> QED
    BY <1>1, <2>1
<1>3. CASE FailsForGood(d)
  <2>1. /\ p.epoch > 0
        /\ Become(d, [p EXCEPT !.stage = "finalizing", !.outcome = "dead_letter"])
    BY <1>3 DEF FailsForGood, Failing, Running
  <2> QED
    BY <1>1, <2>1
<1>4. CASE Interrupt(d) /\ Running(d)
  <2>1. /\ p.epoch > 0
        /\ Become(d, [p EXCEPT !.stage = "finalizing", !.outcome = "stopped"])
    BY <1>4 DEF Interrupt, Running
  <2> QED
    BY <1>1, <2>1
<1>5. CASE Interrupt(d) /\ ~Running(d)
  <2>1. PICK c \in Stops : Become(d, At("control", c))
    BY <1>5 DEF Interrupt
  <2>2. Blank(At("control", c), "control", c)
    BY AtIs DEF Stages, Stops
  <2>3. drv' = [drv EXCEPT ![d] = At("control", c)] /\ At("control", c).epoch = 0
    BY <2>1, <2>2 DEF Become, Blank
  <2> QED
    BY <1>a, <2>3, RestStep
<1> QED
  BY <1>2, <1>3, <1>4, <1>5

(* Steps in which a driver goes on.                                        *)
LEMMA GoingActions ==
    ASSUME Steady, Inv, NEW d \in Drivers,
           Reclaim(d) \/ OpenModel(d) \/ Boundary(d)
    PROVE  Inv'
<1> DEFINE p == drv[d]
<1>t. /\ p \in Processes /\ Busy(p) /\ Runs(p) /\ drv \in [Drivers -> Processes]
      /\ p.stage \in {"preparing", "requesting", "boundary"}
  BY DEF Steady, Base, Typed, Reclaim, OpenModel, Boundary, Busy, Runs
<1>r. Running(d) /\ p.epoch > 0
  BY <1>t DEF Steady, Base, Driven, Running
<1>a. tape' = tape /\ tasks' = tasks /\ MayWrite(d)
  BY DEF Reclaim, OpenModel, Boundary
<1>b. \A t \in tasks' : t.epoch # p.epoch
  BY <1>t, <1>r, <1>a DEF Inv, Good, Owns
<1>q. p.stage \in {"requesting", "boundary"} => gen = {}
  BY <1>r, <1>a DEF Inv, Good, Quiet
<1>1. CASE Reclaim(d)
  <2> DEFINE r == [p EXCEPT !.stage = "restoring"]
  <2>1. drv' = [drv EXCEPT ![d] = r] /\ gen' = {}
    BY <1>1 DEF Reclaim, Become
  <2> HIDE DEF p
  <2>3. /\ r \in Processes /\ r.event = p.event /\ r.epoch = p.epoch
        /\ r.stage = "restoring" /\ r.round = p.round
        /\ r.calls = p.calls /\ r.results = p.results
    BY <1>t DEF Processes, Stages
  <2> HIDE DEF r
  <2>4. GoesOn(p, r)
    BY <1>t, <1>r, <2>3 DEF GoesOn, Busy
  <2> USE DEF p
  <2> QED
    BY <1>a, <1>b, <2>1, <2>3, <2>4, GoesOnStep
<1>2. CASE OpenModel(d)
  <2> DEFINE r == [p EXCEPT !.stage = "streaming"]
             g == [input |-> p.event, by |-> p.epoch, steers |-> p.steers]
  <2>1. drv' = [drv EXCEPT ![d] = r] /\ gen' = gen \cup {g} /\ gen = {}
    BY <1>2, <1>q DEF OpenModel, Become
  <2>2. g.by = p.epoch /\ g.input = p.event
    OBVIOUS
  <2> HIDE DEF p, g
  <2>3. /\ r \in Processes /\ r.event = p.event /\ r.epoch = p.epoch
        /\ r.stage = "streaming" /\ r.round = p.round /\ r.steers = p.steers
        /\ r.calls = p.calls /\ r.results = p.results
    BY <1>t DEF Processes, Stages
  <2> HIDE DEF r
  <2>4. GoesOn(p, r)
    BY <1>t, <1>r, <2>3 DEF GoesOn, Busy
  <2>5. g = [input |-> r.event, by |-> r.epoch, steers |-> r.steers]
    BY <2>3 DEF g
  <2>6. gen' \subseteq {[input |-> r.event, by |-> r.epoch, steers |-> r.steers]}
    BY <2>1, <2>5
  <2>7. \A h \in gen' : h.by = r.epoch /\ h.input = r.event
    BY <2>1, <2>2, <2>3
  <2> USE DEF p
  <2> QED
    BY <1>a, <1>b, <2>1, <2>3, <2>4, <2>6, <2>7, GoesOnStep
<1>3. CASE Boundary(d)
  <2>1. PICK heard \in SUBSET Others(p.event, p.steers) :
          \/ Become(d, [p EXCEPT !.steers = @ \cup Joining(heard),
                                 !.stage = "requesting"])
          \/ Become(d, [p EXCEPT !.stage = "finalizing",
                                 !.outcome = "loop_finished"])
    BY <1>3 DEF Boundary
  <2>2. gen' = gen /\ gen = {} /\ p.stage = "boundary"
    BY <1>3, <1>q DEF Boundary
  <2> DEFINE joins == Joining(heard)
             r == [p EXCEPT !.steers = @ \cup joins, !.stage = "requesting"]
             q == [p EXCEPT !.stage = "finalizing", !.outcome = "loop_finished"]
  <2>3. joins \in SUBSET Inputs
    BY DEF Others, Joining
  <2>a. drv' = [drv EXCEPT ![d] = r] \/ drv' = [drv EXCEPT ![d] = q]
    BY <2>1 DEF Become
  <2> HIDE DEF joins, p
  <2>4. /\ r \in Processes /\ r.event = p.event /\ r.epoch = p.epoch
        /\ r.stage = "requesting" /\ r.round = p.round
        /\ r.calls = p.calls /\ r.results = p.results
    BY <1>t, <2>3 DEF Processes, Stages
  <2>5. /\ q \in Processes /\ q.event = p.event /\ q.epoch = p.epoch
        /\ q.stage = "finalizing" /\ q.round = p.round
        /\ q.calls = p.calls /\ q.results = p.results
    BY <1>t DEF Processes, Stages, Outcomes
  <2> HIDE DEF r, q
  <2>6. GoesOn(p, r) /\ GoesOn(p, q)
    BY <1>t, <1>r, <2>4, <2>5 DEF GoesOn, Busy
  <2> USE DEF p
  <2>7. CASE drv' = [drv EXCEPT ![d] = r]
    BY <1>a, <1>b, <2>2, <2>4, <2>6, <2>7, GoesOnStep
  <2>8. CASE drv' = [drv EXCEPT ![d] = q]
    BY <1>a, <1>b, <2>2, <2>5, <2>6, <2>8, GoesOnStep
  <2> QED
    BY <2>a, <2>7, <2>8
<1> QED
  BY <1>1, <1>2, <1>3

(* Steps that no driver takes.                                             *)
LEMMA OutsideActions ==
    ASSUME Steady, Inv,
           \/ \E s \in Inputs : \E kind \in Kinds[s] : Accept(s, kind)
           \/ \E g \in gen : ModelFails(g)
           \/ \E t \in tasks : TaskRejected(t)
    PROVE  Inv'
<1>1. /\ tape' = tape /\ tasks' \subseteq tasks /\ gen' \subseteq gen /\ drv' = drv
  BY DEF Accept, ModelFails, TaskRejected, durable
<1> QED
  BY <1>1, RestStep

(* What a driver has for its round when it has restored the tape.          *)
LEMMA RestoreAction ==
    ASSUME Steady, Inv, NEW d \in Drivers, Restore(d)
    PROVE  Inv'
<1> DEFINE p == drv[d]
           s == p.event
           i == Latest(s)
           calls == Unrecorded(i)
           results == [c \in Calls |->
                IF c \in calls /\ c \in tape[i].receipts THEN "ok" ELSE "none"]
           r == drv'[d]
<1>t. /\ p \in Processes /\ drv \in [Drivers -> Processes] /\ p.stage = "restoring"
      /\ Len(tape) \in Nat /\ \A k \in Rounds : tape[k] \in Entries
  BY TapeFun DEF Steady, Base, Typed, Restore
<1>r. Running(d)
  BY <1>t DEF Steady, Base, Driven, Runs
<1>a. tape' = tape /\ tasks' = tasks /\ gen' = gen /\ Len(tape') = Len(tape)
  BY DEF Restore
<1>1. /\ \A e \in Drivers : e # d => drv'[e] = drv[e]
      /\ r.event = s /\ r.epoch = p.epoch /\ r.round = i
      /\ r.calls = calls /\ r.results = results
      /\ r.stage = IF Stops # {} THEN "finalizing"
                   ELSE IF i = 0 THEN "requesting"
                   ELSE IF calls # {} THEN "executing" ELSE "boundary"
      /\ r.outcome = IF Stops # {} THEN "stopped" ELSE "none"
  <2> DEFINE stage == IF Stops # {} THEN "finalizing"
                      ELSE IF i = 0 THEN "requesting"
                      ELSE IF calls # {} THEN "executing" ELSE "boundary"
             outcome == IF Stops # {} THEN "stopped" ELSE "none"
             again == {q \in Others(s, TapedSteers(s)) : i = 0 /\ input[q].started
                                        /\ input[q].kind = "message"}
             R(x) == [p EXCEPT !.stage = stage, !.outcome = outcome, !.round = i,
                         !.calls = calls, !.results = results,
                         !.steers = TapedSteers(s) \cup (again \ x)]
  <2>1. PICK x : drv' = [drv EXCEPT ![d] = R(x)]
    BY DEF Restore, Become
  <2> DEFINE steers == TapedSteers(s) \cup (again \ x)
             q == [p EXCEPT !.stage = stage, !.outcome = outcome, !.round = i,
                       !.calls = calls, !.results = results, !.steers = steers]
  <2>2. drv' = [drv EXCEPT ![d] = q]
    BY <2>1
  <2>3. r = q /\ \A e \in Drivers : e # d => drv'[e] = drv[e]
    BY <1>t, <2>2
  <2>4. s = p.event
    OBVIOUS
  <2> HIDE DEF p, stage, outcome, calls, results, i, steers, r, s
  <2>5. /\ q.event = p.event /\ q.epoch = p.epoch /\ q.round = i
        /\ q.calls = calls /\ q.results = results
        /\ q.stage = stage /\ q.outcome = outcome
    BY <1>t DEF Processes
  <2> HIDE DEF q
  <2> QED
    BY <2>3, <2>4, <2>5 DEF stage, outcome
<1>2. i \in {0, Len(tape)} /\ (i # 0 => i \in Rounds /\ tape[i].input = s)
  BY <1>t DEF Latest, Suffix, Rounds
<1>3. calls # {} => i \in Rounds /\ i = Len(tape) /\ calls = tape[i].calls /\ ~tape[i].done
  BY <1>t, <1>2 DEF Unrecorded
<1>4. /\ \A c \in Calls : results[c] \in {"ok", "none"}
      /\ \A c \in Calls : results[c] = "ok" => c \in calls /\ c \in tape[i].receipts
  OBVIOUS
<1>5. Owns(d) /\ Generates(d) /\ (MayWrite(d) => gen = {})
  BY <1>r, <1>t DEF Inv, Good, Quiet
<1>b. \A t \in tasks' : t.epoch # p.epoch
  BY <1>t, <1>5, <1>a DEF Owns
<1>k. \A k \in Rounds, c \in Calls : c \in tape[k].receipts => tape[k].commits[c] > 0
  BY DEF Inv, Kept
<1> HIDE DEF p, i, calls, results, s, r
<1>6. ASSUME NEW e \in Drivers, e # d PROVE Good(e)'
  <2>1. Calm(e)
    BY <1>1, <1>6, <1>a DEF Calm
  <2> QED
    BY <2>1, CalmGood DEF Inv
<1>7. Good(d)'
  <2>1. MayWrite(d)' => MayWrite(d)
    BY <1>1, <1>r, MayWriteBefore DEF r, p, s
  <2>2. Owns(d)'
    BY <1>1, <1>b DEF Owns, r
  <2>3. Seen(d)'
    <3>1. \A c \in Calls : r.results[c] # "interrupted"
      BY <1>1, <1>4
    <3>2. \A c \in Calls : r.results[c] = "ok" =>
            c \in r.calls /\ r.round \in Rounds /\ tape[r.round].commits[c] > 0
      BY <1>1, <1>3, <1>4, <1>k
    <3>3. r.calls # {} => /\ r.round \in Rounds /\ r.calls = tape[r.round].calls
                         /\ ~tape[r.round].done
      BY <1>1, <1>3
    <3> QED
      BY <1>a, <3>1, <3>2, <3>3 DEF Seen, r, Rounds
  <2>4. Newest(d)'
    <3>1. r.stage = "executing" => r.calls # {} /\ r.round = Len(tape)
      BY <1>1, <1>3
    <3>2. \A c \in Calls : r.results[c] = "ok" => c \in tape[r.round].receipts
      BY <1>1, <1>4
    <3> QED
      BY <1>a, <3>1, <3>2 DEF Newest, r
  <2>5. Placed(d)'
    <3>1. r.stage \in {"executing", "boundary"} =>
            r.round \in Rounds /\ tape[r.round].input = r.event
      BY <1>1, <1>2
    <3>2. r.stage = "finalizing" => r.outcome = "stopped"
      BY <1>1
    <3> QED
      BY <1>a, <3>1, <3>2 DEF Placed, r, Rounds
  <2>6. Generates(d)'
    BY <1>1, <1>5, <1>a DEF Generates, r, p, s
  <2>7. Quiet(d)'
    <3>1. r.stage # "streaming"
      BY <1>1
    <3> QED
      BY <1>5, <1>a, <2>1, <3>1 DEF Quiet, r
  <2> QED
    BY <2>2, <2>3, <2>4, <2>5, <2>6, <2>7 DEF Good
<1> QED
  BY <1>6, <1>7, <1>a, TapeStays DEF Inv, Steady

(* The results of a round are journaled.                                   *)
LEMMA RecordAction ==
    ASSUME Steady, Inv, NEW d \in Drivers, Record(d)
    PROVE  Inv'
<1> DEFINE p == drv[d]
           i == p.round
           r == drv'[d]
           new == Recorded(tape[i], p.results)
<1>t. /\ p \in Processes /\ drv \in [Drivers -> Processes] /\ p.stage = "executing"
      /\ p.results \in [Calls -> Results]
      /\ tape \in Seq(Entries) /\ \A k \in Rounds : tape[k] \in Entries
  BY TapeFun DEF Steady, Base, Typed, Record, Processes
<1>r. Running(d) /\ MayWrite(d)
  BY <1>t DEF Steady, Base, Driven, Runs, Record
<1>a. tasks' = tasks /\ gen' = gen
  BY DEF Record
<1>1. /\ \A e \in Drivers : e # d => drv'[e] = drv[e]
      /\ r.event = p.event /\ r.epoch = p.epoch /\ r.round = i
      /\ r.calls = {} /\ r.results = NoResults /\ r.stage = "boundary"
  <2> DEFINE q == [p EXCEPT !.stage = "boundary", !.calls = {},
                            !.results = NoResults]
  <2>1. drv' = [drv EXCEPT ![d] = q]
    BY DEF Record, Become
  <2>2. r = q /\ \A e \in Drivers : e # d => drv'[e] = drv[e]
    BY <1>t, <2>1
  <2> HIDE DEF p, r
  <2>3. /\ q.event = p.event /\ q.epoch = p.epoch /\ q.round = p.round
        /\ q.calls = {} /\ q.results = NoResults /\ q.stage = "boundary"
    BY <1>t DEF Processes
  <2> HIDE DEF q
  <2> QED
    BY <2>2, <2>3
<1>2. Owns(d) /\ Seen(d) /\ Newest(d) /\ Placed(d) /\ Generates(d) /\ gen = {}
  BY <1>r, <1>t DEF Inv, Good, Quiet
<1>3. i \in Rounds /\ ~tape[i].done
  BY <1>2, <1>r, <1>t DEF Seen, Newest
<1>4. /\ new \in Entries /\ new.calls = tape[i].calls /\ new.input = tape[i].input
      /\ new.commits = tape[i].commits /\ new.purged = tape[i].purged
      /\ new.done /\ new.receipts = {} /\ new.results = p.results
  BY <1>t, <1>3, RecordedIs
<1>5. tape' = [tape EXCEPT ![i] = new]
  BY DEF Record
<1> HIDE DEF new
<1>6. /\ Len(tape') = Len(tape) /\ Rounds' = Rounds
      /\ \A k \in Rounds : tape'[k] = IF k = i THEN new ELSE tape[k]
  BY <1>t, <1>3, <1>4, <1>5, OneRoundIs DEF Rounds
<1>b. \A t \in tasks : t.epoch # p.epoch
  <2>1. \A t \in tasks : t.epoch = p.epoch =>
          t.call \in p.calls /\ p.results[t.call] = "none"
    BY <1>2, <1>t DEF Owns
  <2>2. \A c \in p.calls : p.results[c] # "none"
    BY DEF Record
  <2> QED
    BY <2>1, <2>2
<1>7. ASSUME NEW e \in Drivers, e # d PROVE Good(e)'
  <2>1. ~MayWrite(e)
    BY <1>7, <1>r, OneWriter DEF Steady
  <2>2. Calm(e)
    BY <1>1, <1>7, <1>a, <2>1 DEF Calm
  <2> QED
    BY <2>2, CalmGood DEF Inv
<1>8. Good(d)'
  <2>1. Owns(d)'
    BY <1>1, <1>a, <1>b DEF Owns
  <2>2. Seen(d)' /\ Newest(d)'
    BY <1>1, NoResultsIs DEF Seen, Newest
  <2>3. Placed(d)'
    BY <1>1, <1>2, <1>4, <1>6, <1>t DEF Placed
  <2>4. Generates(d)' /\ Quiet(d)'
    BY <1>1, <1>2, <1>a DEF Generates, Quiet
  <2> QED
    BY <2>1, <2>2, <2>3, <2>4 DEF Good
<1>9. ASSUME NEW t \in tasks PROVE Working(t)'
  <2>1. Working(t)
    BY DEF Inv
  <2>2. ~Fenced(t.epoch, t.input)'
    <3>1. t.epoch # epoch /\ epoch' = epoch
      BY <1>b, <1>r DEF Record, MayWrite, Fenced
    <3> QED
      BY <3>1 DEF Fenced
  <2> QED
    BY <1>4, <1>6, <2>1, <2>2 DEF Working
<1>10. ASSUME NEW k \in Rounds PROVE Kept(tape'[k])
  <2>1. Kept(tape[k])
    BY DEF Inv
  <2>2. \A c \in Calls : /\ p.results[c] # "interrupted"
                         /\ p.results[c] = "ok" => tape[i].commits[c] > 0
    BY <1>2 DEF Seen
  <2>3. k = i => Kept(new)
    BY <1>4, <2>1, <2>2 DEF Kept
  <2> QED
    BY <1>6, <2>1, <2>3
<1>11. Exclusive' /\ (\A t \in tasks : Working(t))' /\ (\A k \in Rounds : Kept(tape[k]))'
  BY <1>6, <1>9, <1>10, <1>a DEF Inv, Exclusive
<1> QED
  BY <1>7, <1>8, <1>11 DEF Inv, Steady

(* A response is complete; its driver may read it.                         *)
LEMMA ModelCommitsAction ==
    ASSUME Steady, Inv, NEW g \in gen, NEW calls \in SUBSET Calls,
           ModelCommits(g, calls)
    PROVE  Inv'
<1> DEFINE new == Response(g, calls)
           n == Len(tape) + 1
<1>t. /\ g \in Generations /\ drv \in [Drivers -> Processes]
      /\ tape \in Seq(Entries) /\ Len(tape) \in Nat
      /\ \A k \in Rounds : tape[k] \in Entries
  BY TapeFun DEF Steady, Base, Typed
<1>a. tasks' = tasks /\ gen' = gen \ {g} /\ epoch' = epoch
  BY DEF ModelCommits
<1>1. /\ new \in Entries /\ new.input = g.input /\ new.calls = calls
      /\ ~new.done /\ new.receipts = {} /\ \A c \in Calls : new.commits[c] = 0
  BY <1>t, ResponseIs
<1>2. tape' = Append(tape, new)
  BY DEF ModelCommits
<1> HIDE DEF new
<1>3. /\ Len(tape') = n /\ tape'[n] = new /\ n \in Rounds'
      /\ \A k \in Rounds : tape'[k] = tape[k] /\ k \in Rounds'
      /\ \A k \in Rounds' : k = n \/ k \in Rounds
  <2>1. Len(tape') = n /\ tape'[n] = new /\ \A k \in Rounds : tape'[k] = tape[k]
    BY <1>t, <1>1, <1>2, AppendIs
  <2> QED
    BY <1>t, <2>1 DEF Rounds
<1>4. ASSUME NEW e \in Drivers, drv'[e] = drv[e] PROVE Good(e)'
  <2>1. Calm(e)
    BY <1>3, <1>4, <1>a DEF Calm
  <2> QED
    BY <2>1, CalmGood DEF Inv
<1>5. ASSUME NEW d \in Drivers, Streams(d, g),
             Become(d, [drv[d] EXCEPT
                !.stage = IF calls = {} THEN "boundary" ELSE "executing",
                !.round = n, !.calls = calls, !.results = NoResults])
      PROVE  \A e \in Drivers : Good(e)'
  <2> DEFINE p == drv[d]
             r == drv'[d]
  <2>1. /\ \A e \in Drivers : e # d => drv'[e] = drv[e]
        /\ r.event = p.event /\ r.epoch = p.epoch /\ r.round = n
        /\ r.calls = calls /\ r.results = NoResults
        /\ r.stage = IF calls = {} THEN "boundary" ELSE "executing"
    <3> DEFINE stage == IF calls = {} THEN "boundary" ELSE "executing"
               q == [p EXCEPT !.stage = stage, !.round = n, !.calls = calls,
                              !.results = NoResults]
    <3>1. drv' = [drv EXCEPT ![d] = q]
      BY <1>5 DEF Become
    <3>2. r = q /\ (\A e \in Drivers : e # d => drv'[e] = drv[e]) /\ p \in Processes
      BY <1>t, <3>1
    <3> HIDE DEF p, r, stage, n
    <3>3. /\ q.event = p.event /\ q.epoch = p.epoch /\ q.round = n
          /\ q.calls = calls /\ q.results = NoResults /\ q.stage = stage
      BY <3>2 DEF Processes
    <3> HIDE DEF q
    <3> QED
      BY <3>2, <3>3 DEF stage
  <2>2. p.stage = "streaming" /\ p.epoch = g.by
    BY <1>5 DEF Streams
  <2>r. Running(d)
    BY <2>2 DEF Steady, Base, Driven, Runs
  <2>3. /\ Owns(d) /\ Generates(d)
        /\ MayWrite(d) => gen \subseteq {[input |-> p.event, by |-> p.epoch,
                                          steers |-> p.steers]}
    BY <2>r, <2>2 DEF Inv, Good, Quiet
  <2>4. \A t \in tasks : t.epoch # p.epoch
    BY <2>2, <2>3 DEF Owns
  <2>5. MayWrite(d)' => gen' = {}
    <3>1. MayWrite(d)' => MayWrite(d)
      BY <2>1, <2>r, MayWriteBefore
    <3> QED
      BY <1>a, <2>3, <3>1
  <2>6. g.input = p.event
    BY <2>2, <2>3 DEF Generates
  <2> HIDE DEF n
  <2>7. Good(d)'
    <3>1. Owns(d)'
      BY <1>a, <2>1, <2>4 DEF Owns
    <3>2. Seen(d)'
      BY <1>1, <1>3, <2>1, NoResultsIs DEF Seen
    <3>3. Newest(d)'
      BY <1>3, <2>1, NoResultsIs DEF Newest
    <3>4. Placed(d)'
      BY <1>1, <1>3, <2>1, <2>6 DEF Placed
    <3>5. Generates(d)'
      BY <1>a, <2>1, <2>3 DEF Generates
    <3>6. Quiet(d)'
      BY <2>1, <2>5 DEF Quiet
    <3> QED
      BY <3>1, <3>2, <3>3, <3>4, <3>5, <3>6 DEF Good
  <2> QED
    BY <1>4, <2>1, <2>7
<1>6. \A e \in Drivers : Good(e)'
  BY <1>4, <1>5 DEF ModelCommits
<1> HIDE DEF n
<1>7. ASSUME NEW t \in tasks PROVE Working(t)'
  <2>1. Working(t)
    BY DEF Inv
  <2>2. Fenced(t.epoch, t.input)' => Fenced(t.epoch, t.input)
    <3>1. t.epoch <= epoch /\ Accepted(t.input)
      BY DEF Steady, Base, Started
    <3>2. Fenced(t.epoch, t.input)' =>
            t.epoch = epoch' /\ input'[t.input].status \in {"queued", "running"}
      BY DEF Fenced, Open
    <3> QED
      BY <3>1, <3>2, FencedBefore
  <2> QED
    BY <1>3, <2>1, <2>2 DEF Working
<1>8. ASSUME NEW k \in Rounds' PROVE Kept(tape'[k])
  <2>1. CASE k = n
    BY <1>1, <1>3, <2>1 DEF Kept
  <2>2. CASE k \in Rounds
    BY <1>3, <2>2 DEF Inv
  <2> QED
    BY <1>3, <2>1, <2>2
<1>9. Exclusive' /\ (\A t \in tasks : Working(t))' /\ (\A k \in Rounds : Kept(tape[k]))'
  BY <1>7, <1>8, <1>a DEF Inv, Exclusive
<1> QED
  BY <1>6, <1>9 DEF Inv, Steady

(* A tool transaction begins, or its receipt is found.                     *)
LEMMA ToolBeginsAction ==
    ASSUME Steady, Inv, NEW d \in Drivers, NEW c \in Calls, ToolBegins(d, c)
    PROVE  Inv'
<1> DEFINE p == drv[d]
           i == p.round
<1>t. /\ p \in Processes /\ drv \in [Drivers -> Processes] /\ p.stage = "executing"
      /\ c \in p.calls /\ p.results[c] = "none" /\ ~Locked(i, c) /\ MayWrite(d)
  BY DEF Steady, Base, Typed, ToolBegins
<1>r. Running(d)
  BY <1>t DEF Steady, Base, Driven, Runs
<1>a. tape' = tape /\ gen' = gen /\ input' = input /\ epoch' = epoch /\ Rounds' = Rounds
  BY DEF ToolBegins, durable, Rounds
<1>2. Owns(d) /\ Seen(d) /\ Newest(d) /\ Placed(d) /\ Generates(d) /\ Quiet(d)
  BY <1>r DEF Inv, Good
<1>3. i \in Rounds /\ p.calls = tape[i].calls /\ ~tape[i].done
  BY <1>2, <1>t DEF Seen
<1>4. CASE c \in tape[i].receipts
  <2> DEFINE r == drv'[d]
  <2>1. tasks' = tasks /\ drv' = [drv EXCEPT ![d] = WithResult(p, c, "ok")]
    BY <1>4 DEF ToolBegins, Become
  <2>2. r = WithResult(p, c, "ok") /\ \A e \in Drivers : e # d => drv'[e] = drv[e]
    BY <1>t, <2>1
  <2>3. "ok" \in Results
    BY DEF Results
  <2>4. /\ r.stage = p.stage /\ r.event = p.event /\ r.epoch = p.epoch
        /\ r.round = p.round /\ r.calls = p.calls /\ r.outcome = p.outcome
        /\ r.steers = p.steers /\ r.results[c] = "ok"
        /\ \A b \in Calls : b # c => r.results[b] = p.results[b]
    BY <1>t, <2>2, <2>3, WithResultIs
  <2>5. tape[i].commits[c] > 0
    BY <1>3, <1>4 DEF Inv, Kept
  <2>6. \A t \in tasks : t.epoch = p.epoch => t.round = i /\ t.call # c
    BY <1>2, <1>t DEF Owns, Locked
  <2>m. MayWrite(d)' <=> MayWrite(d)
    BY <1>a, <2>4 DEF MayWrite, Fenced, Open
  <2>t. \A t \in tasks : t.call \in Calls
    BY DEF Steady, Base, Typed, Transactions
  <2> HIDE DEF r
  <2>7. Good(d)'
    <3>1. Owns(d)'
      BY <1>2, <2>1, <2>4, <2>6, <2>t DEF Owns, r
    <3>2. Seen(d)'
      <4>1. \A b \in Calls : r.results[b] # "interrupted"
        BY <1>2, <2>4 DEF Seen
      <4>2. \A b \in Calls : r.results[b] = "ok" =>
              b \in r.calls /\ r.round \in Rounds /\ tape[r.round].commits[b] > 0
        BY <1>2, <1>3, <1>t, <2>4, <2>5 DEF Seen
      <4> QED
        BY <1>3, <1>a, <2>4, <4>1, <4>2 DEF Seen, r
    <3>3. Newest(d)'
      <4>1. \A b \in Calls : r.results[b] = "ok" => b \in tape[i].receipts
        BY <1>2, <1>4, <1>t, <2>4 DEF Newest
      <4>2. r.calls # {} /\ r.round = Len(tape)
        BY <1>2, <1>t, <2>4 DEF Newest
      <4> QED
        BY <1>a, <2>4, <4>1, <4>2 DEF Newest, r
    <3>4. Placed(d)' /\ Generates(d)' /\ Quiet(d)'
      BY <1>2, <1>a, <2>4, <2>m DEF Placed, Generates, Quiet, r
    <3> QED
      BY <3>1, <3>2, <3>3, <3>4 DEF Good
  <2>8. ASSUME NEW e \in Drivers, e # d PROVE Good(e)'
    <3>1. Calm(e)
      BY <1>a, <2>1, <2>2, <2>8 DEF Calm
    <3> QED
      BY <3>1, CalmGood DEF Inv
  <2> QED
    BY <1>a, <2>1, <2>7, <2>8, TapeStays DEF Inv, Steady
<1>5. CASE c \notin tape[i].receipts
  <2> DEFINE new == [epoch |-> p.epoch, input |-> p.event, round |-> i, call |-> c]
  <2>1. tasks' = tasks \cup {new} /\ drv' = drv
    BY <1>5 DEF ToolBegins
  <2>2. /\ new.epoch = p.epoch /\ new.input = p.event /\ new.round = i
        /\ new.call = c
    OBVIOUS
  <2> HIDE DEF new
  <2>3. ASSUME NEW e \in Drivers, e # d PROVE Good(e)'
    <3>1. p.epoch # drv[e].epoch
      BY <1>r, <2>3 DEF Steady, Base, Driven
    <3>2. Calm(e)
      BY <1>a, <2>1, <2>2, <3>1 DEF Calm
    <3> QED
      BY <3>2, CalmGood DEF Inv
  <2>4. Good(d)'
    <3>1. Owns(d)'
      BY <1>2, <1>t, <2>1, <2>2 DEF Owns
    <3>2. (MayWrite(d)' <=> MayWrite(d)) /\ (Running(d)' <=> Running(d))
      BY <1>a, <2>1 DEF MayWrite, Fenced, Open, Running
    <3>3. Seen(d)' /\ Newest(d)' /\ Placed(d)' /\ Generates(d)' /\ Quiet(d)'
      BY <1>2, <1>a, <2>1, <3>2 DEF Seen, Newest, Placed, Generates, Quiet
    <3> QED
      BY <3>1, <3>3 DEF Good
  <2>5. \A t \in tasks' : Working(t)'
    <3>1. ASSUME NEW t \in tasks PROVE Working(t)'
      <4>1. Working(t)
        BY DEF Inv
      <4>2. Fenced(t.epoch, t.input)' <=> Fenced(t.epoch, t.input)
        BY <1>a DEF Fenced, Open
      <4> QED
        BY <1>a, <4>1, <4>2 DEF Working
    <3>2. ASSUME NEW t, t = new PROVE Working(t)'
      <4>1. /\ t.round = i /\ t.call = c /\ i \in Rounds /\ c \in tape[i].calls
            /\ c \notin tape[i].receipts /\ ~tape[i].done
        BY <1>3, <1>5, <1>t, <2>2, <3>2
      <4> QED
        BY <1>a, <4>1 DEF Working
    <3> QED
      BY <2>1, <3>1, <3>2
  <2>6. Exclusive'
    BY <1>t, <2>1, <2>2 DEF Inv, Exclusive, Locked
  <2>7. (\A k \in Rounds : Kept(tape[k]))'
    BY <1>a DEF Inv
  <2> QED
    BY <2>3, <2>4, <2>5, <2>6, <2>7 DEF Inv, Steady
<1> QED
  BY <1>4, <1>5

(* A tool transaction ends, and its driver has the result.                 *)
LEMMA DeliverGood ==
    ASSUME Steady, Inv, NEW t \in tasks, NEW x \in {"ok", "error"}, Deliver(t, x),
           tasks' = tasks \ {t}, gen' = gen, input' = input, epoch' = epoch,
           Len(tape') = Len(tape),
           \A k \in Rounds : /\ tape'[k].done = tape[k].done
                             /\ tape[k].receipts \subseteq tape'[k].receipts,
           x = "ok" => /\ t.call \in tape'[t.round].receipts
                       /\ tape'[t.round].commits[t.call] > 0
    PROVE  \A d \in Drivers : Good(d)'
<1>t. /\ drv \in [Drivers -> Processes] /\ t.epoch > 0
      /\ x \in Results /\ \A u \in tasks : u.call \in Calls
  <2>1. t.epoch \in 1 .. epoch /\ epoch \in Nat
    BY DEF Steady, Base, Started, Typed
  <2> QED
    BY <2>1 DEF Steady, Base, Typed, Transactions, Results
<1> SUFFICES ASSUME NEW d \in Drivers PROVE Good(d)'
  OBVIOUS
<1>1. ASSUME drv'[d] = drv[d] PROVE Good(d)'
  <2>1. Calm(d)
    BY <1>1 DEF Calm
  <2> QED
    BY <2>1, CalmGood DEF Inv
<1>2. ASSUME drv[d].epoch = t.epoch, drv[d].stage = "executing",
             drv'[d] = WithResult(drv[d], t.call, x)
      PROVE  Good(d)'
  <2> DEFINE p == drv[d]
             r == drv'[d]
  <2>1. /\ r.stage = p.stage /\ r.event = p.event /\ r.epoch = p.epoch
        /\ r.round = p.round /\ r.calls = p.calls /\ r.outcome = p.outcome
        /\ r.steers = p.steers /\ r.results[t.call] = x
        /\ \A b \in Calls : b # t.call => r.results[b] = p.results[b]
    BY <1>t, <1>2, WithResultIs
  <2>2. Owns(d) /\ Seen(d) /\ Newest(d) /\ Placed(d) /\ Generates(d) /\ Quiet(d)
    BY <1>2, <1>t DEF Inv, Good, Running
  <2>3. t.round = p.round /\ t.call \in p.calls
    BY <1>2, <2>2 DEF Owns
  <2>4. p.round \in Rounds /\ p.calls = tape[p.round].calls
        /\ (MayWrite(d) => ~tape[p.round].done)
    BY <2>2, <2>3 DEF Seen
  <2>5. \A u \in tasks' : u.epoch = p.epoch =>
           /\ u.round = p.round /\ u.call \in p.calls /\ u.call # t.call
           /\ p.results[u.call] = "none"
    BY <1>2, <2>2, <2>3 DEF Owns, Inv, Exclusive
  <2>m. MayWrite(d)' <=> MayWrite(d)
    BY <2>1 DEF MayWrite, Fenced, Open
  <2>6. /\ Rounds' = Rounds
        /\ \A k \in Rounds : /\ tape'[k].calls = tape[k].calls
                              /\ tape'[k].input = tape[k].input
                              /\ \A b \in Calls : tape[k].commits[b] \in Nat
                                    /\ tape'[k].commits[b] \in Nat
                                    /\ tape[k].commits[b] <= tape'[k].commits[b]
    <3>1. tape \in Seq(Entries)
      BY DEF Steady, Base, Typed
    <3>2. \A k \in Rounds : tape[k] \in Entries
      BY <3>1, TapeFun
    <3> QED
      BY <3>2 DEF Steady, TapeKeeps, Grows, Rounds, Entries
  <2>7. Owns(d)'
    BY <1>2, <1>t, <2>1, <2>5 DEF Owns
  <2>8. Seen(d)'
    <3>1. \A b \in Calls : r.results[b] # "interrupted"
      BY <2>1, <2>2 DEF Seen
    <3>2. \A b \in Calls : r.results[b] = "ok" =>
            b \in r.calls /\ tape'[r.round].commits[b] > 0
      BY <2>1, <2>2, <2>3, <2>4, <2>6 DEF Seen
    <3> QED
      BY <2>1, <2>4, <2>6, <2>m, <3>1, <3>2 DEF Seen
  <2>9. Newest(d)'
    <3>1. ASSUME MayWrite(d)
          PROVE  /\ r.calls # {} /\ r.round = Len(tape')
                 /\ \A b \in Calls : r.results[b] = "ok" =>
                                       b \in tape'[r.round].receipts
      BY <1>2, <2>1, <2>2, <2>3, <2>4, <3>1 DEF Newest
    <3> QED
      BY <2>m, <3>1 DEF Newest
  <2>10. Placed(d)'
    BY <2>1, <2>2, <2>6 DEF Placed
  <2>11. Generates(d)' /\ Quiet(d)'
    BY <2>1, <2>2, <2>m DEF Generates, Quiet
  <2> QED
    BY <2>7, <2>8, <2>9, <2>10, <2>11 DEF Good
<1> QED
  BY <1>1, <1>2 DEF Deliver

(* A tool fails.                                                           *)
LEMMA ToolFailsAction ==
    ASSUME Steady, Inv, NEW t \in tasks, ToolFails(t)
    PROVE  Inv'
<1>1. /\ tape' = tape /\ gen' = gen /\ input' = input /\ epoch' = epoch
      /\ tasks' = tasks \ {t} /\ Deliver(t, "error") /\ Len(tape') = Len(tape)
  BY DEF ToolFails, durable
<1>2. \A d \in Drivers : Good(d)'
  BY <1>1, DeliverGood
<1> QED
  BY <1>1, <1>2, TapeStays DEF Inv, Steady

(* A tool commits.                                                         *)
LEMMA ToolCommitsAction ==
    ASSUME Steady, Inv, NEW t \in tasks, ToolCommits(t)
    PROVE  Inv'
<1> DEFINE i == t.round
           c == t.call
           old == tape[i]
           new == WithReceipt(old, c)
<1>t. /\ tape \in Seq(Entries) /\ Len(tape) \in Nat
      /\ \A k \in Rounds : tape[k] \in Entries
      /\ \A u \in tasks : u.call \in Calls
  BY TapeFun DEF Steady, Base, Typed, Transactions
<1>a. /\ gen' = gen /\ input' = input /\ epoch' = epoch /\ tasks' = tasks \ {t}
      /\ Fenced(t.epoch, t.input)
  BY DEF ToolCommits
<1>1. /\ i \in Rounds /\ c \in old.calls /\ c \notin old.receipts /\ ~old.done
  BY <1>a DEF Inv, Working
<1>2. old \in Entries /\ c \in Calls /\ \A b \in Calls : old.commits[b] \in Nat
  BY <1>t, <1>1 DEF Entries
<1> HIDE DEF old
<1>3. /\ new \in Entries /\ new.calls = old.calls /\ new.done = old.done
      /\ new.results = old.results /\ new.purged = old.purged
      /\ new.receipts = old.receipts \cup {c}
      /\ new.commits[c] = old.commits[c] + 1
      /\ \A b \in Calls : b # c => new.commits[b] = old.commits[b]
  BY <1>2, WithReceiptIs
<1>4. tape' = [tape EXCEPT ![i] = new]
  BY DEF ToolCommits, Committed, old
<1> HIDE DEF new
<1>5. /\ Len(tape') = Len(tape) /\ Rounds' = Rounds
      /\ \A k \in Rounds : tape'[k] = IF k = i THEN new ELSE tape[k]
  BY <1>t, <1>1, <1>3, <1>4, OneRoundIs DEF Rounds
<1>6. \A d \in Drivers : Good(d)'
  <2>1. PICK x \in {"ok", "error"} : Deliver(t, x)
    BY DEF ToolCommits
  <2>2. \A k \in Rounds : /\ tape'[k].done = tape[k].done
                          /\ tape[k].receipts \subseteq tape'[k].receipts
    BY <1>3, <1>5 DEF old
  <2>3. c \in tape'[i].receipts /\ tape'[i].commits[c] > 0
    BY <1>1, <1>2, <1>3, <1>5
  <2> QED
    BY <1>5, <1>a, <2>1, <2>2, <2>3, DeliverGood
<1>7. ASSUME NEW u \in tasks, u # t PROVE Working(u)'
  <2>1. Working(u)
    BY DEF Inv
  <2>2. u.round = i => u.call # c
    BY <1>7 DEF Inv, Exclusive
  <2>3. Fenced(u.epoch, u.input)' <=> Fenced(u.epoch, u.input)
    BY <1>a DEF Fenced, Open
  <2> QED
    BY <1>3, <1>5, <2>1, <2>2, <2>3 DEF Working, old
<1>8. ASSUME NEW k \in Rounds PROVE Kept(tape'[k])
  <2>1. Kept(tape[k])
    BY DEF Inv
  <2>2. ASSUME k = i PROVE Kept(new)
    <3>1. Kept(old)
      BY <2>1, <2>2 DEF old
    <3>2. /\ new.commits[c] > 0 /\ c \in new.receipts
          /\ new.commits[c] > 1 => c \in new.purged
      BY <1>1, <1>2, <1>3, <3>1 DEF Kept
    <3> QED
      BY <1>1, <1>3, <3>1, <3>2 DEF Kept
  <2> QED
    BY <1>5, <2>1, <2>2
<1>9. Exclusive' /\ (\A u \in tasks : Working(u))' /\ (\A k \in Rounds : Kept(tape[k]))'
  BY <1>5, <1>7, <1>8, <1>a DEF Inv, Exclusive
<1> QED
  BY <1>6, <1>9 DEF Inv, Steady

(* The end of a run, or of an input that has no attempts left, with        *)
(* results that what has committed backs.                                  *)
Backed(i, results) ==
    \A c \in Calls : /\ results[c] # "interrupted"
                     /\ results[c] = "ok" => tape[i].commits[c] > 0

(* The end of a run leaves the invariant of tasks and rounds.              *)
LEMMA EndedTape ==
    ASSUME Steady, Inv, NEW i, NEW calls \in SUBSET Calls,
           NEW results \in [Calls -> Results],
           tape' = RecordPending(i, calls, results),
           calls # {} => i \in Rounds /\ ~tape[i].done,
           Backed(i, results),
           tasks' \subseteq tasks, \A t \in tasks' : ~Fenced(t.epoch, t.input)'
    PROVE  /\ (\A t \in tasks : Working(t))' /\ Exclusive'
           /\ (\A k \in Rounds : Kept(tape[k]))'
<1>t. tape \in Seq(Entries) /\ \A k \in Rounds : tape[k] \in Entries
  BY TapeFun DEF Steady, Base, Typed
<1>0. /\ tape' \in Seq(Entries) /\ Len(tape') = Len(tape)
      /\ \A k \in Rounds : tape'[k] =
           IF k = i /\ calls # {} THEN Journaled(tape[k], calls, results)
           ELSE Discarded(tape[k])
  BY <1>t, RecordPendingIs
<1>1. /\ Len(tape') = Len(tape) /\ Rounds' = Rounds
      /\ \A k \in Rounds : tape'[k] =
           IF k = i /\ calls # {} THEN Journaled(tape[k], calls, results)
           ELSE Discarded(tape[k])
  BY <1>0 DEF Rounds
<1>2. \A k \in Rounds : tape'[k].receipts = {} /\ tape'[k].calls = tape[k].calls
  <2> TAKE k \in Rounds
  <2> DEFINE old == tape[k]
             journaled == Journaled(old, calls, results)
             discarded == Discarded(old)
  <2>1. tape'[k] = journaled \/ tape'[k] = discarded
    BY <1>1
  <2>2. old \in Entries
    BY <1>t
  <2> HIDE DEF old
  <2>3. journaled.receipts = {} /\ journaled.calls = old.calls
    BY <2>2 DEF Journaled, Recorded, Entries
  <2>4. discarded.receipts = {} /\ discarded.calls = old.calls
    BY <2>2, DiscardedIs
  <2> HIDE DEF journaled, discarded
  <2> QED
    BY <2>1, <2>3, <2>4 DEF old
<1>3. (\A t \in tasks : Working(t))'
  <2>1. ASSUME NEW t \in tasks, t \in tasks' PROVE Working(t)'
    <3>1. Working(t) /\ ~Fenced(t.epoch, t.input)'
      BY <2>1 DEF Inv
    <3> QED
      BY <1>1, <1>2, <3>1 DEF Working
  <2> QED
    BY <2>1
<1>4. Exclusive'
  BY DEF Inv, Exclusive
<1>5. ASSUME NEW k \in Rounds PROVE Kept(tape'[k])
  <2> DEFINE old == tape[k]
  <2>1. Kept(old) /\ old \in Entries
    BY <1>t DEF Inv
  <2>2. CASE k = i /\ calls # {}
    <3> DEFINE new == Journaled(old, calls, results)
    <3>1. ~old.done /\ tape'[k] = new
      BY <1>1, <2>2
    <3>a. \A c \in Calls : /\ results[c] # "interrupted"
                           /\ results[c] = "ok" => old.commits[c] > 0
      BY <2>2 DEF Backed
    <3> HIDE DEF old
    <3>2. /\ new.commits = old.commits /\ new.purged = old.purged
          /\ new.done /\ new.receipts = {}
          /\ \A c \in Calls : new.results[c] =
                 IF c \notin calls THEN "none"
                 ELSE IF c \in old.receipts THEN "ok"
                 ELSE IF results[c] = "none" THEN "interrupted"
                 ELSE results[c]
      BY <2>1, JournaledIs
    <3> HIDE DEF new
    <3>3. Kept(new)
      BY <2>1, <3>1, <3>2, <3>a DEF Kept
    <3> QED
      BY <3>1, <3>3
  <2>3. CASE ~(k = i /\ calls # {})
    <3> DEFINE new == Discarded(old)
    <3>1. tape'[k] = new
      BY <1>1, <2>3
    <3> HIDE DEF old
    <3>2. /\ new.commits = old.commits /\ new.done = old.done
          /\ new.results = old.results /\ new.receipts = {}
          /\ new.purged = old.purged \cup old.receipts
      BY <2>1, DiscardedIs
    <3> HIDE DEF new
    <3>3. Kept(new)
      BY <2>1, <3>2 DEF Kept
    <3> QED
      BY <3>1, <3>3
  <2> QED
    BY <2>2, <2>3
<1> QED
  BY <1>1, <1>3, <1>4, <1>5

(* An input is given up at its admission.                                  *)
LEMMA ExhaustAction ==
    ASSUME Steady, Inv, NEW d \in Drivers, Exhaust(d)
    PROVE  Inv'
<1> DEFINE i == Latest(drv[d].event)
           calls == Unrecorded(i)
<1>t. /\ drv \in [Drivers -> Processes] /\ input' \in [Inputs -> Signals]
      /\ epoch \in Nat /\ Len(tape) \in Nat /\ \A k \in Rounds : tape[k] \in Entries
  BY TapeFun DEF Steady, Base, Typed
<1>a. /\ epoch' = epoch + 1 /\ tasks' = tasks /\ gen' \subseteq gen
      /\ tape' = RecordPending(i, calls, NoResults) /\ Rebuilds(d)
  BY DEF Exhaust, Retracted
<1>1. PICK r : drv' = [drv EXCEPT ![d] = r] /\ r.epoch = 0
  BY <1>t, <1>a, RebuildsTo DEF Fresh, Blank
<1>2. Good(d)'
  BY <1>a, <1>1, RestedGood
<1>3. ASSUME NEW e \in Drivers, e # d PROVE Good(e)'
  <2>1. drv'[e] = drv[e]
    BY <1>t, <1>1, <1>3
  <2>2. epoch' # epoch
    BY <1>t, <1>a
  <2>3. Calm(e)
    BY <1>a, <2>1, <2>2 DEF Calm
  <2> QED
    BY <2>3, CalmGood DEF Inv
<1>4. i \in 0 .. Len(tape)
  BY <1>t DEF Latest
<1>5. calls \in SUBSET Calls /\ (calls # {} => i \in Rounds /\ ~tape[i].done)
  BY <1>t, <1>4 DEF Unrecorded, Rounds, Entries
<1>6. NoResults \in [Calls -> Results] /\ Backed(i, NoResults)
  BY NoResultsIs DEF Backed
<1>7. \A t \in tasks' : ~Fenced(t.epoch, t.input)'
  <2>1. \A t \in tasks' : t.epoch <= epoch /\ t.epoch \in Nat
    BY <1>a DEF Steady, Base, Started, Typed, Transactions
  <2> QED
    BY <1>t, <1>a, <2>1 DEF Fenced
<1> HIDE DEF i, calls
<1>8. /\ (\A t \in tasks : Working(t))' /\ Exclusive'
      /\ (\A k \in Rounds : Kept(tape[k]))'
  BY <1>a, <1>5, <1>6, <1>7, EndedTape
<1> QED
  BY <1>2, <1>3, <1>8 DEF Inv, Steady

(* A run ends.                                                             *)
LEMMA FinalizeAction ==
    ASSUME Steady, Inv, NEW d \in Drivers, Finalize(d)
    PROVE  Inv'
<1> DEFINE p == drv[d]
<1>t. /\ drv \in [Drivers -> Processes] /\ input' \in [Inputs -> Signals]
      /\ p \in Processes /\ p.calls \in SUBSET Calls
      /\ p.results \in [Calls -> Results] /\ p.stage = "finalizing"
  BY DEF Steady, Base, Typed, Processes, Finalize
<1>a. /\ epoch' = epoch /\ tasks' = tasks \ TasksOf(d) /\ gen' \subseteq gen
      /\ tape' = RecordPending(p.round, p.calls, p.results) /\ MayWrite(d)
  BY DEF Finalize, Retracted
<1>r. Running(d)
  BY <1>t DEF Steady, Base, Driven, Runs
<1>1. PICK r : drv' = [drv EXCEPT ![d] = r] /\ r.epoch = 0
  <2>1. CASE Rebuilds(d)
    BY <1>t, <2>1, RebuildsTo DEF Fresh, Blank
  <2>2. ASSUME NEW c \in Stops, Become(d, At("control", c))
        PROVE  \E r : drv' = [drv EXCEPT ![d] = r] /\ r.epoch = 0
    <3>1. Blank(At("control", c), "control", c)
      BY AtIs DEF Stages, Stops
    <3> QED
      BY <2>2, <3>1 DEF Become, Blank
  <2> QED
    BY <2>1, <2>2 DEF Finalize
<1>2. Good(d)'
  <2>1. tasks' \subseteq tasks
    BY <1>a
  <2> QED
    BY <1>a, <1>1, <2>1, RestedGood
<1>3. ASSUME NEW e \in Drivers, e # d PROVE Good(e)'
  <2>1. drv'[e] = drv[e]
    BY <1>t, <1>1, <1>3
  <2>2. ~MayWrite(e)
    BY <1>3, <1>a, <1>r, OneWriter DEF Steady
  <2>3. Calm(e)
    BY <1>a, <2>1, <2>2 DEF Calm
  <2> QED
    BY <2>3, CalmGood DEF Inv
<1>4. Seen(d)
  BY <1>r DEF Inv, Good
<1>5. p.calls # {} => p.round \in Rounds /\ ~tape[p.round].done
  BY <1>4, <1>a DEF Seen
<1>6. Backed(p.round, p.results)
  BY <1>4 DEF Seen, Backed
<1>7. \A t \in tasks' : ~Fenced(t.epoch, t.input)'
  <2>1. \A t \in tasks' : t.epoch # epoch
    BY <1>a DEF TasksOf, MayWrite, Fenced
  <2> QED
    BY <1>a, <2>1 DEF Fenced
<1> HIDE DEF p
<1>8. /\ (\A t \in tasks : Working(t))' /\ Exclusive'
      /\ (\A k \in Rounds : Kept(tape[k]))'
  BY <1>a, <1>t, <1>5, <1>6, <1>7, EndedTape
<1> QED
  BY <1>2, <1>3, <1>8 DEF Inv, Steady

-----------------------------------------------------------------------------

(* The invariant holds initially.                                          *)
LEMMA InvInit ==
    ASSUME Init
    PROVE  Inv
<1>1. Base
  BY BaseInit
<1>2. tasks = {} /\ Rounds = {}
  BY DEF Init, Rounds
<1>3. \A d \in Drivers : ~Running(d)
  BY DownIs DEF Init, Running, Blank
<1> QED
  BY <1>1, <1>2, <1>3 DEF Inv, Exclusive, Good

(* Every step keeps the invariant.                                         *)
LEMMA InvKept ==
    ASSUME Inv, Next
    PROVE  Inv'
<1>1. Steady
  BY AlwaysSteady DEF Inv
<1>2. ASSUME NEW d \in Drivers, EnsureDriver(d) \/ Advance(d) \/ Interrupt(d) \/ Disturb(d)
      PROVE  Inv'
  BY <1>1, <1>2, RestActions, FailingActions, GoingActions, RestoreAction,
     RecordAction, ExhaustAction, FinalizeAction DEF Advance, Disturb
<1>3. ASSUME NEW d \in Drivers, NEW c \in Calls, ToolBegins(d, c) PROVE Inv'
  BY <1>1, <1>3, ToolBeginsAction
<1>4. ASSUME NEW g \in gen, NEW calls \in SUBSET Calls, ModelCommits(g, calls)
      PROVE  Inv'
  BY <1>1, <1>4, ModelCommitsAction
<1>5. ASSUME NEW t \in tasks, ToolCommits(t) \/ ToolFails(t) PROVE Inv'
  BY <1>1, <1>5, ToolCommitsAction, ToolFailsAction
<1>6. ASSUME \/ \E s \in Inputs : \E kind \in Kinds[s] : Accept(s, kind)
             \/ \E g \in gen : ModelFails(g)
             \/ \E t \in tasks : TaskRejected(t)
      PROVE  Inv'
  BY <1>1, <1>6, OutsideActions
<1> QED
  BY <1>2, <1>3, <1>4, <1>5, <1>6 DEF Next

(* Unchanged variables keep it.                                            *)
LEMMA InvStutters ==
    ASSUME Inv, UNCHANGED vars
    PROVE  Inv'
<1>1. Base'
  BY DEF Inv, vars, Base, Typed, Driven, Started, Running, Busy, Runs, Accepted
<1>2. TapeKeeps
  BY SameTape DEF Inv, Base, Typed, vars
<1>3. Steady
  BY <1>1, <1>2 DEF Steady, Inv, vars, InputKeeps, Accepted, Open
<1> QED
  BY <1>3, RestStep DEF vars

(* The inductive invariant holds always.                                   *)
LEMMA Invariance == Spec => []Inv
<1>1. Inv /\ [Next]_vars => Inv'
  BY InvKept, InvStutters
<1> QED
  BY <1>1, InvInit, PTL DEF Spec

(* A domain write commits twice only where another input's end has taken   *)
(* its receipt.                                                            *)
THEOREM WritesOnceWhileKept == Spec => []OnceWhileKept
<1>1. Inv => OnceWhileKept
  BY DEF Inv, Kept, OnceWhileKept, Rounds
<1> QED
  BY <1>1, Invariance, PTL

(* The journal of a round tells what became of its calls.                  *)
THEOREM JournalIsTruthful == Spec => []JournalTruthful
<1>1. Inv => JournalTruthful
  BY DEF Inv, Kept, JournalTruthful, Rounds
<1> QED
  BY <1>1, Invariance, PTL

(* The driver that holds the epoch works from what is durable.             *)
THEOREM CurrentViewIsExact == Spec => []CurrentViewExact
<1>1. ASSUME Inv PROVE CurrentViewExact
  <2> SUFFICES ASSUME NEW d \in Drivers, drv[d].stage = "executing", MayWrite(d)
               PROVE  LET r == drv[d] IN
                      /\ r.round = Len(tape) /\ tape[r.round].input = r.event
                      /\ ~tape[r.round].done /\ r.calls = tape[r.round].calls
                      /\ \A c \in r.calls :
                           r.results[c] = "ok" => c \in tape[r.round].receipts
    BY DEF CurrentViewExact
  <2>1. Running(d) /\ drv[d].calls \in SUBSET Calls
    BY <1>1 DEF Inv, Base, Typed, Driven, Runs, Processes
  <2>2. Seen(d) /\ Newest(d) /\ Placed(d)
    BY <1>1, <2>1 DEF Inv, Good
  <2> QED
    BY <2>1, <2>2 DEF Seen, Newest, Placed
<1> QED
  BY <1>1, Invariance, PTL

(* An input that ends has been answered, stopped or given up.              *)
LEMMA EndsHaveCause ==
    ASSUME Inv, Next, NEW q \in Inputs
    PROVE  EndsWithCause(q)
<1>t. /\ drv \in [Drivers -> Processes] /\ input \in [Inputs -> Signals]
      /\ Len(tape) \in Nat
  BY TapeFun DEF Inv, Base, Typed
<1>m. /\ InputKeeps /\ (EndsInputs \/ Lives(q))
  BY InputMoves DEF Inv
<1>1. Ended(input[q].status) => input'[q].status = input[q].status
  BY <1>m DEF InputKeeps, Accepted, Ended, Open
<1>2. CASE Lives(q)
  BY <1>1, <1>2 DEF Lives, EndsWithCause
<1>3. ASSUME NEW s, q \in TapedSteers(s) PROVE Answered(q)
  BY <1>3 DEF TapedSteers, Suffix, Answered
<1>4. ASSUME NEW S, NEW o, input' = EndInputs(S, o),
             Ended(input'[q].status), ~Ended(input[q].status)
      PROVE  /\ q \in S
             /\ o = "dead_letter" => input'[q].status = "dead_letter"
  BY <1>4 DEF EndInputs, Ended
<1>5. ASSUME NEW d \in Drivers, Control(d) PROVE EndsWithCause(q)
  <2>1. input' = EndInputs({drv[d].event}, "stopped")
        /\ input[drv[d].event].kind = "stop"
    BY <1>5 DEF Control, Inv, Base, Driven
  <2> QED
    BY <1>1, <1>4, <2>1 DEF EndsWithCause
<1>6. ASSUME NEW d \in Drivers, Exhaust(d) PROVE EndsWithCause(q)
  <2> DEFINE s == drv[d].event
  <2>1. input' = EndInputs(Applied(s, {}, "dead_letter"), "dead_letter")
        /\ drv[d].stage = "waiting"
    BY <1>6 DEF Exhaust, Ready
  <2>2. q \in Applied(s, {}, "dead_letter") => q = s \/ Answered(q)
    BY <1>3 DEF Applied
  <2>3. q = s => GivenUp(q)
    BY <2>1 DEF GivenUp
  <2> QED
    BY <1>1, <1>4, <2>1, <2>2, <2>3 DEF EndsWithCause
<1>7. ASSUME NEW d \in Drivers, Finalize(d) PROVE EndsWithCause(q)
  <2> DEFINE s == drv[d].event
             o == drv[d].outcome
             S == Applied(s, drv[d].steers, o)
  <2>1. input' = EndInputs(S, o) /\ drv[d].stage = "finalizing" /\ MayWrite(d)
    BY <1>7 DEF Finalize
  <2>2. Placed(d)
    BY <2>1 DEF Inv, Base, Driven, Runs, Good
  <2>3. q \in S => \/ q = s \/ Answered(q)
                   \/ o = "stopped" /\ q \in drv[d].steers
    BY <1>3 DEF Applied
  <2>4. o = "stopped" /\ (q = s \/ q \in drv[d].steers) => Stopped(q)
    BY <2>1 DEF Stopped
  <2>5. q = s => GivenUp(q)
    BY <2>1 DEF GivenUp
  <2>6. o \notin {"stopped", "dead_letter"} /\ q = s => Answered(q)
    BY <2>1, <2>2 DEF Placed, Answered, Rounds
  <2> QED
    BY <1>1, <1>4, <2>1, <2>3, <2>4, <2>5, <2>6 DEF EndsWithCause
<1> QED
  BY <1>m, <1>2, <1>5, <1>6, <1>7 DEF EndsInputs

(* No input ends silently, and none that has ended ends again.             *)
THEOREM NoInputEndsSilently == Spec => NoSilentEnd
<1>1. Inv /\ [Next]_vars => [\A s \in Inputs : EndsWithCause(s)]_vars
  BY EndsHaveCause
<1> QED
  BY <1>1, Invariance, PTL DEF NoSilentEnd, Spec
=============================================================================
