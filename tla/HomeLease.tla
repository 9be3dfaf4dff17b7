------------------------------ MODULE HomeLease ------------------------------
(***************************************************************************)
(* What the Worker lifecycle promises about an Agent's Home: a lease with  *)
(* one holder.  The lease is granted to one generation at a time, a holder *)
(* takes it only under the grant of that moment, and a new grant waits for *)
(* the holder to be gone.  A grant may be revoked while its holder is      *)
(* still there, and the holder may leave at any time.                      *)
(***************************************************************************)
CONSTANTS Generations, None

VARIABLES grant, holder

leaseVars == <<grant, holder>>

Init == grant = None /\ holder = None

Grant ==
    /\ grant = None /\ holder = None
    /\ grant' \in Generations
    /\ UNCHANGED holder

Take ==
    /\ grant # None /\ holder = None
    /\ holder' = grant
    /\ UNCHANGED grant

Leave ==
    /\ holder # None
    /\ holder' = None
    /\ UNCHANGED grant

Revoke ==
    /\ grant # None
    /\ grant' = None
    /\ UNCHANGED holder

Next == Grant \/ Take \/ Leave \/ Revoke

Spec == Init /\ [][Next]_leaseVars
=============================================================================
