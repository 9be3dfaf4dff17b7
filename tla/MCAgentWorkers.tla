--------------------------- MODULE MCAgentWorkers ---------------------------
(* Small instances of AgentWorkers for TLC.                                *)
EXTENDS AgentWorkers, TLC

CONSTANTS g1, g2, g3, r1, r2, r3, j1, j2

AllFacts ==
    [ active : {TRUE}, turn : BOOLEAN, noTasks : BOOLEAN, idleLong : BOOLEAN,
      fresh : {TRUE}, changed : BOOLEAN, protocol : {FALSE}, aged : {FALSE},
      late : BOOLEAN, graceOver : BOOLEAN ]

(* A calm moment: nothing is late, changed or idle.                        *)
CalmFacts ==
    [ active : {TRUE}, turn : {FALSE}, noTasks : {TRUE}, idleLong : {FALSE},
      fresh : {TRUE}, changed : {FALSE}, protocol : {FALSE}, aged : {FALSE},
      late : {FALSE}, graceOver : {FALSE} ]

(* A calm moment, late enough for every grace period to be over.           *)
LateCalmFacts == {[facts EXCEPT !.graceOver = TRUE] : facts \in CalmFacts}

(* Names are interchangeable: every list a platform returns is a set.      *)
Symmetry ==
    Permutations(Generations) \cup Permutations(Refs) \cup Permutations(Jobs)

(* A bound for overlapping jobs: an assigned Agent that is active or       *)
(* deleted, and no request beside the one of its registration.             *)
Undisturbed ==
    row.assigned /\ agent # "disabled" /\ ~row.wanted /\ row.inc = None

(***************************************************************************)
(* The run from Kubernetes starts from two states: a registration, and the *)
(* state that the late create of an overlapping job leaves behind (the     *)
(* violation run shows how it gets there): an instance without a row.      *)
(***************************************************************************)
OrphanInit ==
    /\ row = Removed
    /\ agent = "deleted"
    /\ inst = NewInstances(CHOOSE g \in Generations : TRUE, "starting")
    /\ finished = {}
    /\ home = None
    /\ job = [j \in Jobs |-> Idling]

KubernetesSpec == (Init \/ OrphanInit) /\ [][Next]_vars /\ Fairness
=============================================================================
