-------------------------- MODULE MCWorkerAdmission --------------------------
(* Small instances of WorkerAdmission for TLC.                             *)
EXTENDS WorkerAdmission

CONSTANTS g1, g2, p1, p2, c1, c2, n1, n2
=============================================================================
