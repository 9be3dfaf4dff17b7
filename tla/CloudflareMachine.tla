-------------------------- MODULE CloudflareMachine --------------------------
(***************************************************************************)
(* The Durable Object that owns one Agent's container, its Home backups in *)
(* R2 and the receipts of its finished generations.                        *)
(*                                                                         *)
(* Two queues run the object's work.  `lifecycle' holds the create, remove,*)
(* alarm, exit or storage operation that waits for the platform, `home' the*)
(* restore or backup; a request that finds its queue busy is one that has  *)
(* not arrived yet.  Work between two waits for the platform is one step:  *)
(* the object's storage admits no event in between.  The control plane is  *)
(* the environment: it sends creates that have no expiry, and it settles a *)
(* generation that it saw and no longer sees, or whose create was refused. *)
(*                                                                         *)
(* The content of Home is a version number, and a backup record is named   *)
(* by the version it holds.                                                *)
(***************************************************************************)
EXTENDS Naturals

CONSTANTS
    None,
    Generations,
    MaxVersion,           \* bound on the writes to Home
    ObservedStartsFail    \* may a start fail after state() reported it

ASSUME MachineAssumption ==
    /\ None \notin Generations
    /\ None \notin 0..MaxVersion
    /\ MaxVersion \in Nat
    /\ ObservedStartsFail \in BOOLEAN

VARIABLES
    store,      \* the object's durable record
    finished,   \* its receipts
    cont,       \* the container, or None; disk is None until Home is restored
    exit,       \* the generation whose exit this object watches
    lifecycle,
    home,
    r2,         \* the backup records in R2
    last,       \* the newest version that was ever written
    plane,      \* the control plane's view of the Agent
    sent        \* the create requests it ever sent

vars == <<store, finished, cont, exit, lifecycle, home, r2, last, plane, sent>>

EmptyStore == [ contract |-> None, backup |-> None, restored |-> FALSE,
                starting |-> FALSE, deleting |-> None, alarm |-> FALSE ]

Init ==
    /\ store = EmptyStore
    /\ finished = {}
    /\ cont = None /\ exit = None /\ lifecycle = None /\ home = None
    /\ r2 = {} /\ last = 0
    /\ plane = [ gen |-> None, seen |-> FALSE, gone |-> FALSE,
                 committed |-> None, over |-> FALSE ]
    /\ sent = {}

(* Mutant of Present: the exit of the last container need not be seen.     *)
PresentWithoutExit ==
    cont # None \/ home # None \/ store.starting \/ store.deleting # None

Present ==
    \/ cont # None \/ exit # None \/ home # None
    \/ store.starting \/ store.deleting # None

(* state/1: the generation it reports, None for no instance.               *)
Finishing == exit # None \/ home # None \/ lifecycle # None
Reported ==
    IF cont # None \/ Finishing \/ store.deleting # None \/ store.starting
    THEN store.contract ELSE None

-----------------------------------------------------------------------------
(* Lifecycle operations *)

(* Mutants of Admissible: receipts are not read; a repeated create is not  *)
(* told from a new one.                                                    *)
AdmissibleFinished(c) ==
    /\ lifecycle = None
    /\ ~(store.contract # None /\ Present)

AdmissibleAgain(c) ==
    /\ lifecycle = None
    /\ c.gen = store.contract \/ ~(store.contract # None /\ Present)
    /\ c.gen \notin finished

Admissible(c) ==
    /\ lifecycle = None
    /\ ~(store.contract # None /\ Present)
    /\ c.gen \notin finished

(* createInstance up to registry.add: the pointer that the control plane   *)
(* committed replaces whatever the object remembers.                       *)
CreateBegins(c) ==
    /\ Admissible(c)
    /\ store' = [store EXCEPT !.contract = c.gen, !.backup = c.ref,
                              !.restored = FALSE, !.starting = TRUE]
    /\ lifecycle' = [op |-> "register", gen |-> c.gen]
    /\ UNCHANGED <<finished, cont, exit, home, r2, last, plane, sent>>

(* The image of the generation is not deployed.                            *)
CreateUnknownImage(c) ==
    /\ Admissible(c)
    /\ finished' = finished \cup {c.gen}
    /\ UNCHANGED <<store, cont, exit, lifecycle, home, r2, last, plane, sent>>

ContainerStarts ==
    /\ lifecycle # None /\ lifecycle.op = "register"
    /\ cont' = [gen |-> lifecycle.gen, disk |-> None]
    /\ exit' = IF exit = None THEN lifecycle.gen ELSE exit
    /\ lifecycle' = [lifecycle EXCEPT !.op = "timeout"]
    /\ UNCHANGED <<store, finished, home, r2, last, plane, sent>>

CreateEnds ==
    /\ lifecycle' = None
    /\ store' = [store EXCEPT !.starting = FALSE]
    /\ UNCHANGED <<finished, cont, exit, home, r2, last, plane, sent>>

CreateDone == lifecycle # None /\ lifecycle.op = "timeout" /\ CreateEnds

CreateFails ==
    /\ lifecycle # None
    /\ \/ lifecycle.op = "timeout"
       \/ /\ lifecycle.op = "register"
          /\ \/ ObservedStartsFail
             \/ ~(plane.gen = lifecycle.gen /\ plane.seen)
    /\ CreateEnds

(* Mutant of BeginDestroy: no receipt is written.                          *)
BeginDestroyUnrecorded(by) ==
    /\ finished' = finished
    /\ lifecycle' = [op |-> by, gen |-> store.contract]

(* destroyInstance up to container.destroy.                                *)
BeginDestroy(by) ==
    /\ finished' = finished \cup {store.contract}
    /\ lifecycle' = [op |-> by, gen |-> store.contract]

Remove(g, mode) ==
    /\ lifecycle = None
    /\ store.contract = g
    /\ store' = [store EXCEPT !.deleting = IF @ = None \/ mode = "now"
                                           THEN mode ELSE @,
                              !.alarm = TRUE]
    /\ IF cont = None THEN BeginDestroy("remove")
       ELSE UNCHANGED <<finished, lifecycle>>
    /\ UNCHANGED <<cont, exit, home, r2, last, plane, sent>>

(* checkDelete.  The deadline may have passed or not.                      *)
AlarmDestroys ==
    /\ store.alarm /\ lifecycle = None /\ store.deleting # None
    /\ store' = [store EXCEPT !.alarm = FALSE]
    /\ BeginDestroy("alarm")
    /\ UNCHANGED <<cont, exit, home, r2, last, plane, sent>>

AlarmIdle ==
    /\ store.alarm /\ lifecycle = None /\ store.deleting = None
    /\ store' = [store EXCEPT !.alarm = FALSE]
    /\ UNCHANGED <<finished, cont, exit, lifecycle, home, r2, last, plane, sent>>

(* The handler of watchExit; it does nothing for another contract.         *)
ExitSeen ==
    /\ exit # None /\ cont = None /\ lifecycle = None
    /\ store.contract = exit
    /\ store' = [store EXCEPT !.deleting = "now"]
    /\ BeginDestroy("exit")
    /\ UNCHANGED <<cont, exit, home, r2, last, plane, sent>>

Destroying == lifecycle # None /\ lifecycle.op \in {"remove", "alarm", "exit"}
ForgetExit == exit' = IF lifecycle.op = "exit" THEN None ELSE exit

Lost == IF home = None THEN None ELSE [home EXCEPT !.lost = TRUE]

DestroyDone ==
    /\ Destroying
    /\ cont' = None
    /\ home' = Lost
    /\ store' = [store EXCEPT !.deleting = None]
    /\ ForgetExit
    /\ lifecycle' = None
    /\ UNCHANGED <<finished, r2, last, plane, sent>>

(* Mutant of DestroyFails: nobody asks again.                              *)
DestroyFailsSilently ==
    /\ Destroying
    /\ store' = store
    /\ ForgetExit
    /\ lifecycle' = None
    /\ UNCHANGED <<finished, cont, home, r2, last, plane, sent>>

(* A failed handler sets the alarm; the platform repeats a failed alarm.   *)
DestroyFails ==
    /\ Destroying
    /\ store' = [store EXCEPT !.alarm = TRUE]
    /\ ForgetExit
    /\ lifecycle' = None
    /\ UNCHANGED <<finished, cont, home, r2, last, plane, sent>>

(* removeStorage, before and after it emptied R2; receipts are kept.       *)
StorageBegins ==
    /\ plane.over /\ plane.gen = None
    /\ lifecycle = None /\ ~Present
    /\ lifecycle' = [op |-> "storage", gen |-> None]
    /\ UNCHANGED <<store, finished, cont, exit, home, r2, last, plane, sent>>

StorageDone ==
    /\ lifecycle # None /\ lifecycle.op = "storage"
    /\ r2' = {}
    /\ store' = EmptyStore
    /\ lifecycle' = None
    /\ UNCHANGED <<finished, cont, exit, home, last, plane, sent>>

-----------------------------------------------------------------------------
(* Home operations, asked for by the container with its own credential *)

Authorized == cont # None /\ cont.gen = store.contract

RestoreBegins ==
    /\ Authorized /\ cont.disk = None /\ home = None
    /\ store' = [store EXCEPT !.restored = FALSE]
    /\ home' = [ op |-> IF store.backup = None THEN "tidy" ELSE "copy",
                 gen |-> store.contract, rec |-> store.backup, lost |-> FALSE ]
    /\ UNCHANGED <<finished, cont, exit, lifecycle, r2, last, plane, sent>>

RestoreCopied ==
    /\ home # None /\ home.op = "copy"
    /\ cont # None /\ home.rec \in r2
    /\ store.contract = home.gen
    /\ home' = [home EXCEPT !.op = "tidy"]
    /\ UNCHANGED <<store, finished, cont, exit, lifecycle, r2, last, plane, sent>>

(* removeOthers, and the flag.  The answer may reach a disk that is gone.  *)
RestoreDone ==
    /\ home # None /\ home.op = "tidy"
    /\ r2' = r2 \cap {home.rec}
    /\ store' = [store EXCEPT !.restored = TRUE]
    /\ cont' = IF cont # None /\ ~home.lost
               THEN [cont EXCEPT !.disk = IF home.rec = None THEN 0
                                          ELSE home.rec]
               ELSE cont
    /\ home' = None
    /\ UNCHANGED <<finished, exit, lifecycle, last, plane, sent>>

(* Mutant of BackupBegins: the pointer moves before the upload.            *)
BackupBeginsPublished ==
    /\ Authorized /\ cont.disk # None /\ home = None
    /\ home' = [ op |-> "upload", gen |-> store.contract, rec |-> cont.disk,
                 lost |-> FALSE ]
    /\ store' = [store EXCEPT !.backup = cont.disk]
    /\ UNCHANGED <<finished, cont, exit, lifecycle, r2, last, plane, sent>>

BackupBegins ==
    /\ Authorized /\ cont.disk # None /\ home = None
    /\ home' = [ op |-> "upload", gen |-> store.contract, rec |-> cont.disk,
                 lost |-> FALSE ]
    /\ UNCHANGED <<store, finished, cont, exit, lifecycle, r2, last, plane, sent>>

BackupDone ==
    /\ home # None /\ home.op = "upload"
    /\ r2' = r2 \cup {home.rec}
    /\ store' = IF store.contract = home.gen
                THEN [store EXCEPT !.backup = home.rec] ELSE store
    /\ home' = None
    /\ UNCHANGED <<finished, cont, exit, lifecycle, last, plane, sent>>

(* Mutant of HalfDone: any operation may have written its record.          *)
HalfDoneAny == IF home = None THEN {r2} ELSE {r2, r2 \cup {home.rec}}

(* What the platform may have done of an operation that did not return.    *)
HalfDone ==
    {r2} \cup (IF home # None /\ home.op = "upload"
               THEN {r2 \cup {home.rec}} ELSE {})
         \cup (IF home # None /\ home.op = "tidy"
               THEN {r2 \cap {home.rec}} ELSE {})

HomeFails ==
    /\ home # None
    /\ r2' \in HalfDone
    /\ home' = None
    /\ UNCHANGED <<store, finished, cont, exit, lifecycle, last, plane, sent>>

-----------------------------------------------------------------------------
(* The container and the platform *)

Write ==
    /\ cont # None /\ cont.disk # None /\ last < MaxVersion
    /\ last' = last + 1
    /\ cont' = [cont EXCEPT !.disk = last + 1]
    /\ UNCHANGED <<store, finished, exit, lifecycle, home, r2, plane, sent>>

ContainerExits ==
    /\ cont # None
    /\ cont' = None
    /\ home' = Lost
    /\ UNCHANGED <<store, finished, exit, lifecycle, r2, last, plane, sent>>

(* The container restarts within its generation, on a new disk.            *)
ContainerRestarts ==
    /\ cont # None /\ cont.disk # None
    /\ cont' = [cont EXCEPT !.disk = None]
    /\ home' = Lost
    /\ UNCHANGED <<store, finished, exit, lifecycle, r2, last, plane, sent>>

(* The object is evicted and built again: queues and watch are gone, and   *)
(* resume/0 runs before any other event.                                   *)
ObjectRestarts ==
    /\ lifecycle' = None /\ home' = None
    /\ r2' \in HalfDone
              \cup (IF lifecycle # None /\ lifecycle.op = "storage"
                    THEN {{}} ELSE {})
    /\ cont' \in {cont} \cup (IF Destroying THEN {None} ELSE {})
    /\ IF store.contract # None /\ cont' # None
       THEN /\ exit' = store.contract
            /\ store' = [store EXCEPT !.starting = FALSE,
                           !.alarm = @ \/ store.deleting # None]
            /\ UNCHANGED finished
       ELSE IF store.contract # None
               /\ (store.contract \notin finished \/ store.deleting # None)
       THEN /\ exit' = None
            /\ finished' = finished \cup {store.contract}
            /\ store' \in { [store EXCEPT !.starting = FALSE,
                                          !.deleting = None],
                            [store EXCEPT !.starting = FALSE,
                                          !.deleting = "now",
                                          !.alarm = TRUE] }
       ELSE /\ exit' = None
            /\ store' = [store EXCEPT !.starting = FALSE]
            /\ UNCHANGED finished
    /\ UNCHANGED <<last, plane, sent>>

-----------------------------------------------------------------------------
(* The control plane *)

PlaneBegins(g) ==
    /\ plane.gen = None /\ ~plane.over /\ Reported = None
    /\ \A c \in sent : c.gen # g
    /\ plane' = [plane EXCEPT !.gen = g, !.seen = FALSE, !.gone = FALSE]
    /\ sent' = sent \cup {[gen |-> g, ref |-> plane.committed]}
    /\ UNCHANGED <<store, finished, cont, exit, lifecycle, home, r2, last>>

PlaneObserves ==
    /\ plane.gen # None /\ Reported = plane.gen
    /\ plane' = [plane EXCEPT !.seen = TRUE]
    /\ UNCHANGED <<store, finished, cont, exit, lifecycle, home, r2, last, sent>>

(* Absent after it was seen, or refused for good.                          *)
PlaneMisses ==
    /\ plane.gen # None
    /\ \/ plane.seen /\ Reported = None
       \/ plane.gen \in finished /\ ~(store.contract = plane.gen /\ Present)
    /\ plane' = [plane EXCEPT !.gone = TRUE]
    /\ UNCHANGED <<store, finished, cont, exit, lifecycle, home, r2, last, sent>>

(* storageRef, committed with the end of the generation.                   *)
PlaneSettles ==
    /\ plane.gone
    /\ plane' = [plane EXCEPT !.gen = None, !.seen = FALSE, !.gone = FALSE,
                              !.committed = store.backup]
    /\ UNCHANGED <<store, finished, cont, exit, lifecycle, home, r2, last, sent>>

AgentDeleted ==
    /\ ~plane.over
    /\ plane' = [plane EXCEPT !.over = TRUE]
    /\ UNCHANGED <<store, finished, cont, exit, lifecycle, home, r2, last, sent>>

-----------------------------------------------------------------------------
Create ==
    \/ \E c \in sent : CreateBegins(c) \/ CreateUnknownImage(c)
    \/ ContainerStarts \/ CreateDone \/ CreateFails
Delete ==
    \/ \E g \in Generations, mode \in {"graceful", "now"} : Remove(g, mode)
    \/ AlarmDestroys \/ AlarmIdle \/ ExitSeen \/ DestroyDone \/ DestroyFails
    \/ StorageBegins \/ StorageDone
Home ==
    \/ RestoreBegins \/ RestoreCopied \/ RestoreDone
    \/ BackupBegins \/ BackupDone \/ HomeFails
Container == Write \/ ContainerExits \/ ContainerRestarts \/ ObjectRestarts
Plane ==
    \/ \E g \in Generations : PlaneBegins(g)
    \/ PlaneObserves \/ PlaneMisses \/ PlaneSettles \/ AgentDeleted

Next == Create \/ Delete \/ Home \/ Container \/ Plane

Spec == Init /\ [][Next]_vars

(* Alarms ring, a create returns, a deadline passes, and a platform that   *)
(* keeps being asked destroys in the end.  Nothing is asked of Home        *)
(* operations or of the container.                                         *)
FairSpec ==
    /\ Spec
    /\ WF_vars(CreateDone \/ CreateFails \/ ContainerStarts \/ StorageDone)
    /\ WF_vars(DestroyDone \/ DestroyFails)
    /\ SF_vars(AlarmDestroys)
    /\ SF_vars(DestroyDone)

-----------------------------------------------------------------------------
(* Properties *)

Records == 0..MaxVersion
Optional(S) == S \cup {None}

(* Every variable holds a value the code can hold.                         *)
TypeOK ==
    /\ store \in [ contract : Optional(Generations), backup : Optional(Records),
                   restored : BOOLEAN, starting : BOOLEAN,
                   deleting : {None, "graceful", "now"}, alarm : BOOLEAN ]
    /\ finished \subseteq Generations
    /\ cont \in Optional([gen : Generations, disk : Optional(Records)])
    /\ exit \in Optional(Generations)
    /\ lifecycle \in Optional([ op : {"register", "timeout", "remove", "alarm",
                                      "exit", "storage"},
                                gen : Optional(Generations) ])
    /\ home \in Optional([ op : {"copy", "tidy", "upload"}, gen : Generations,
                           rec : Optional(Records), lost : BOOLEAN ])
    /\ r2 \subseteq Records
    /\ last \in Records
    /\ plane \in [ gen : Optional(Generations), seen : BOOLEAN, gone : BOOLEAN,
                   committed : Optional(Records), over : BOOLEAN ]
    /\ sent \subseteq [gen : Generations, ref : Optional(Records)]

(* A generation with a receipt is never started again, whatever create is  *)
(* delivered late and wherever the object restarted in between.            *)
FinishedNeverStarts ==
    [][cont = None /\ cont' # None => cont'.gen \notin finished]_vars

(* The exit that the object waits for is its own generation's; a watch of  *)
(* another one would never end and refuse every later create.              *)
ExitWatchesContract == exit # None => exit = store.contract

AtLeast(a, b) == b = None \/ (a # None /\ a >= b)

(* Within a generation the backup pointer only moves forward: no retried   *)
(* create, restore or restart brings an older record back.                 *)
PointerForward ==
    [][ store.contract # None /\ store'.contract = store.contract =>
          AtLeast(store'.backup, store.backup) ]_vars

(* The record that the pointer names is in R2 until storage is deleted.    *)
RecordKept == store.backup # None /\ ~plane.over => store.backup \in r2

(* A container never gets a Home that is older than the one the control    *)
(* plane committed.                                                        *)
HomeNotStale ==
    cont # None /\ cont.disk # None => AtLeast(cont.disk, plane.committed)

(* A deletion ends although the container answers nothing and a restore or *)
(* a backup never returns.                                                 *)
DeletionEnds == store.deleting # None ~> store.deleting = None
=============================================================================
