--------------------------- MODULE CloudflareProofs ---------------------------
(***************************************************************************)
(* Theorems about CloudflareMachine, for any number of generations and     *)
(* any number of writes to Home.                                           *)
(***************************************************************************)
EXTENDS CloudflareMachine, TLAPS

-----------------------------------------------------------------------------
(* Types *)

Stores == [ contract : Optional(Generations), backup : Optional(Records),
            restored : BOOLEAN, starting : BOOLEAN,
            deleting : {None, "graceful", "now"}, alarm : BOOLEAN ]
Containers == [gen : Generations, disk : Optional(Records)]
Operations == [ op : {"register", "timeout", "remove", "alarm", "exit", "storage"},
                gen : Optional(Generations) ]
HomeOperations == [ op : {"copy", "tidy", "upload"}, gen : Generations,
                    rec : Optional(Records), lost : BOOLEAN ]
Views == [ gen : Optional(Generations), seen : BOOLEAN, gone : BOOLEAN,
           committed : Optional(Records), over : BOOLEAN ]
Requests == [gen : Generations, ref : Optional(Records)]
Typed ==
    /\ store \in Stores /\ finished \subseteq Generations
    /\ cont \in Optional(Containers) /\ exit \in Optional(Generations)
    /\ lifecycle \in Optional(Operations) /\ home \in Optional(HomeOperations)
    /\ r2 \subseteq Records /\ last \in Records
    /\ plane \in Views /\ sent \subseteq Requests

-----------------------------------------------------------------------------
(* The object *)

Does(ops) == lifecycle # None /\ lifecycle.op \in ops
Creating == Does({"register", "timeout"})

(* What runs or is watched belongs to the generation of the record, and a  *)
(* generation that is registered has no receipt and no container yet.      *)
Owned ==
    /\ ExitWatchesContract
    /\ cont # None => cont.gen = store.contract
    /\ home # None => home.gen = store.contract
    /\ Creating => lifecycle.gen = store.contract /\ store.starting
    /\ Does({"register"}) => store.contract \notin finished
    /\ Does({"timeout"}) => exit # None
    /\ Destroying => store.contract \in finished
    /\ Does({"storage"}) => /\ cont = None /\ exit = None /\ home = None
                            /\ plane.over /\ plane.gen = None
    /\ store.starting \/ store.deleting # None => store.contract # None

(* A generation without a receipt whose exit nobody watches has not begun: *)
(* its pointer is still the one that its create brought.                   *)
Pristine ==
    store.contract \notin finished \cup {None} /\ exit = None =>
        /\ cont = None /\ home = None /\ store.deleting = None
        /\ \A c \in sent : c.gen = store.contract => c.ref = store.backup

(* A create is sent once for each generation.                              *)
SentOnce ==
    /\ store.contract # None => \E c \in sent : c.gen = store.contract
    /\ \A c, d \in sent : c.gen = d.gen => c = d

(* What Home holds is as new as the pointer, and so is what is uploaded;   *)
(* a restore reads the pointer.                                            *)
Newer ==
    /\ cont # None /\ cont.disk # None => AtLeast(cont.disk, store.backup)
    /\ home # None /\ home.op # "upload" => home.rec = store.backup
    /\ home # None /\ home.op = "upload" =>
         /\ home.rec # None /\ AtLeast(home.rec, store.backup)
         /\ cont # None /\ cont.disk # None => AtLeast(cont.disk, home.rec)

(* Nothing is newer than the newest version written.                       *)
Written ==
    /\ AtLeast(last, store.backup) /\ AtLeast(last, plane.committed)
    /\ cont # None => AtLeast(last, cont.disk)
    /\ home # None => AtLeast(last, home.rec)
    /\ \A c \in sent : AtLeast(last, c.ref)

MachineInv == Typed /\ Owned /\ Pristine /\ SentOnce /\ Newer /\ Written

-----------------------------------------------------------------------------
(* The object and the control plane, when no observed start fails *)

Observed == ~ObservedStartsFail

(* A generation that the control plane has given up has a receipt.         *)
Receipts ==
    /\ plane.gen = None => ~plane.seen /\ ~plane.gone
    /\ \A c \in sent : c.gen = plane.gen \/ c.gen \in finished
    /\ \A c \in sent : c.gen = plane.gen => c.ref = plane.committed
    /\ plane.gone => plane.gen \in finished
    /\ plane.seen =>
         \/ plane.gen \in finished
         \/ store.contract = plane.gen /\ (store.starting \/ exit # None)

(* Only the generation of the control plane has a container.               *)
Current ==
    cont # None \/ home # None \/ store.starting =>
        store.contract = plane.gen /\ ~plane.gone

(* The pointer is the committed one until the control plane's generation   *)
(* runs, and no older from then on.                                        *)
Committed ==
    /\ store.contract # plane.gen \/ plane.gen = None =>
         plane.over \/ store.backup = plane.committed
    /\ store.contract = plane.gen /\ plane.gen # None =>
         AtLeast(store.backup, plane.committed)

PlaneInv == Receipts /\ Current /\ Committed /\ RecordKept

-----------------------------------------------------------------------------
(* Restarts *)

(* What a restart leaves: no operation, and a watch on the container that  *)
(* is there or a receipt for the one that is not.                          *)
LEMMA RestartIs ==
    ASSUME Typed, ObjectRestarts
    PROVE  /\ lifecycle' = None /\ home' = None /\ cont' \in {cont, None}
           /\ last' = last /\ plane' = plane /\ sent' = sent
           /\ store'.contract = store.contract /\ store'.backup = store.backup
           /\ ~store'.starting
           /\ \/ /\ store.contract # None /\ cont' # None
                 /\ exit' = store.contract
                 /\ store'.deleting = store.deleting /\ finished' = finished
              \/ /\ store.contract # None /\ cont' = None /\ exit' = None
                 /\ finished' = finished \cup {store.contract}
              \/ /\ store.contract = None \/ store.contract \in finished
                 /\ cont' = None \/ store.contract = None
                 /\ exit' = None
                 /\ store'.deleting = store.deleting /\ finished' = finished
<1>t. store \in Stores
  BY DEF Typed
<1>1. /\ lifecycle' = None /\ home' = None /\ cont' \in {cont, None}
      /\ last' = last /\ plane' = plane /\ sent' = sent
  BY Zenon DEF ObjectRestarts
<1>2. CASE store.contract # None /\ cont' # None
  <2>1. /\ exit' = store.contract /\ finished' = finished
        /\ store' = [store EXCEPT !.starting = FALSE,
                                  !.alarm = @ \/ store.deleting # None]
    BY <1>2 DEF ObjectRestarts
  <2> QED
    BY <1>t, <1>1, <1>2, <2>1 DEF Stores
<1>3. CASE /\ store.contract # None /\ cont' = None
           /\ store.contract \notin finished \/ store.deleting # None
  <2>1. /\ exit' = None /\ finished' = finished \cup {store.contract}
        /\ store' \in { [store EXCEPT !.starting = FALSE, !.deleting = None],
                        [store EXCEPT !.starting = FALSE, !.deleting = "now",
                                      !.alarm = TRUE] }
    BY <1>3 DEF ObjectRestarts
  <2> QED
    BY <1>t, <1>1, <1>3, <2>1 DEF Stores
<1>4. CASE \/ store.contract = None
           \/ cont' = None /\ store.contract \in finished /\ store.deleting = None
  <2>1. /\ exit' = None /\ finished' = finished
        /\ store' = [store EXCEPT !.starting = FALSE]
    BY <1>4, Zenon DEF ObjectRestarts
  <2> QED
    BY <1>t, <1>1, <1>4, <2>1 DEF Stores
<1> QED
  BY <1>2, <1>3, <1>4

-----------------------------------------------------------------------------
(* Types *)

(* The types are the ones of the type invariant.                           *)
LEMMA TypedIs == TypeOK <=> Typed
  BY DEF TypeOK, Typed, Stores, Containers, Operations, HomeOperations, Views,
    Requests

(* The object's record.                                                    *)
LEMMA StoreTyped ==
    ASSUME Typed, Next
    PROVE  store' \in Stores
<1>t. store \in Stores /\ sent \subseteq Requests
  BY DEF Typed
<1>1. ASSUME NEW c \in sent, CreateBegins(c)
      PROVE  store' \in Stores
  <2>1. c.gen \in Optional(Generations) /\ c.ref \in Optional(Records)
    BY <1>t DEF Requests, Optional
  <2> QED
    BY <1>1, <2>1, <1>t, Zenon DEF CreateBegins, Stores
<1>2. CASE CreateEnds \/ AlarmDestroys \/ AlarmIdle \/ ExitSeen
  BY <1>2, <1>t, Zenon DEF CreateEnds, AlarmDestroys, AlarmIdle, ExitSeen, Stores
<1>3. ASSUME NEW g \in Generations, NEW mode \in {"graceful", "now"}, Remove(g, mode)
      PROVE  store' \in Stores
  BY <1>3, <1>t, Zenon DEF Remove, Stores
<1>4. CASE DestroyDone \/ DestroyFails
  BY <1>4, <1>t, Zenon DEF DestroyDone, DestroyFails, Stores
<1>5. CASE StorageDone
  BY <1>5, Zenon DEF StorageDone, Stores, EmptyStore, Optional
<1>6. CASE RestoreBegins \/ RestoreDone
  BY <1>6, <1>t, Zenon DEF RestoreBegins, RestoreDone, Stores
<1>7. CASE BackupDone
  <2>1. home.rec \in Optional(Records)
    BY <1>7, Zenon DEF BackupDone, Typed, HomeOperations, Optional
  <2> QED
    BY <1>7, <2>1, <1>t, Zenon DEF BackupDone, Stores
<1>8. CASE ObjectRestarts
  <2>1. \/ store' = [store EXCEPT !.starting = FALSE,
                                  !.alarm = @ \/ store.deleting # None]
        \/ store' = [store EXCEPT !.starting = FALSE, !.deleting = None]
        \/ store' = [store EXCEPT !.starting = FALSE, !.deleting = "now",
                                  !.alarm = TRUE]
        \/ store' = [store EXCEPT !.starting = FALSE]
    BY <1>8, Zenon DEF ObjectRestarts
  <2>2. (store.alarm \/ store.deleting # None) \in BOOLEAN
    OBVIOUS
  <2> QED
    BY <2>1, <2>2, <1>t, Zenon DEF Stores
<1>9. CASE store' = store
  BY <1>9, <1>t
<1> QED
  BY <1>1, <1>2, <1>3, <1>4, <1>5, <1>6, <1>7, <1>8, <1>9
  DEF Next, Create, Delete, Home, Container, Plane, CreateUnknownImage,
    ContainerStarts, CreateDone, CreateFails, StorageBegins, RestoreCopied,
    BackupBegins, HomeFails, Write, ContainerExits, ContainerRestarts,
    PlaneBegins, PlaneObserves, PlaneMisses, PlaneSettles, AgentDeleted

(* Receipts, the exit watched and the operation of the lifecycle.          *)
LEMMA LifecycleTyped ==
    ASSUME Typed, Owned, Next
    PROVE  /\ finished' \subseteq Generations
           /\ exit' \in Optional(Generations)
           /\ lifecycle' \in Optional(Operations)
<1> DEFINE Goal == /\ finished' \subseteq Generations
                   /\ exit' \in Optional(Generations)
                   /\ lifecycle' \in Optional(Operations)
<1>t. /\ finished \subseteq Generations /\ sent \subseteq Requests
      /\ exit \in Generations \cup {None}
      /\ lifecycle \in Operations \cup {None}
      /\ store.contract \in Generations \cup {None}
  BY DEF Typed, Optional, Stores
<1> USE DEF Optional, Operations
<1>1. ASSUME NEW c \in sent, CreateBegins(c) \/ CreateUnknownImage(c)
      PROVE  Goal
  BY <1>1, <1>t DEF CreateBegins, CreateUnknownImage, Requests
<1>2. CASE ContainerStarts
  <2>1. lifecycle \in Operations /\ exit' \in {exit, lifecycle.gen}
    BY <1>2, <1>t DEF ContainerStarts
  <2>2. lifecycle.gen = store.contract
    BY <1>2 DEF ContainerStarts, Owned, Does, Creating
  <2>3. lifecycle' \in Operations
    BY <1>2, <2>1 DEF ContainerStarts
  <2>4. finished' = finished
    BY <1>2 DEF ContainerStarts
  <2> QED
    BY <1>t, <2>1, <2>2, <2>3, <2>4
<1>3. ASSUME NEW op \in {"remove", "alarm", "exit"}, BeginDestroy(op),
             store.contract # None, exit' = exit
      PROVE  Goal
  BY <1>3, <1>t DEF BeginDestroy
<1>4. ASSUME NEW g \in Generations, NEW mode \in {"graceful", "now"}, Remove(g, mode)
      PROVE  Goal
  <2>1. store.contract # None /\ exit' = exit
    BY <1>4, MachineAssumption DEF Remove
  <2>2. BeginDestroy("remove") \/ UNCHANGED <<finished, lifecycle>>
    BY <1>4, Zenon DEF Remove
  <2> QED
    BY <1>t, <1>3, <2>1, <2>2
<1>5. CASE AlarmDestroys \/ ExitSeen
  <2>1. store.contract # None /\ exit' = exit
    BY <1>5 DEF AlarmDestroys, ExitSeen, Owned
  <2> QED
    BY <1>3, <1>5, <2>1 DEF AlarmDestroys, ExitSeen
<1>6. CASE DestroyDone \/ DestroyFails \/ CreateEnds
  BY <1>6, <1>t DEF DestroyDone, DestroyFails, CreateEnds, ForgetExit
<1>7. CASE StorageBegins \/ StorageDone
  BY <1>7, <1>t DEF StorageBegins, StorageDone
<1>8. CASE ObjectRestarts
  BY <1>8, <1>t, RestartIs
<1>9. CASE finished' = finished /\ exit' = exit /\ lifecycle' = lifecycle
  BY <1>9, <1>t
<1> QED
  BY <1>1, <1>2, <1>4, <1>5, <1>6, <1>7, <1>8, <1>9
  DEF Next, Create, Delete, Home, Container, Plane, CreateDone, CreateFails,
    AlarmIdle, RestoreBegins, RestoreCopied, RestoreDone, BackupBegins,
    BackupDone, HomeFails, Write, ContainerExits, ContainerRestarts,
    PlaneBegins, PlaneObserves, PlaneMisses, PlaneSettles, AgentDeleted

(* The container, the operation on Home and the records.                   *)
LEMMA HomeTyped ==
    ASSUME Typed, Owned, Newer, Next
    PROVE  /\ cont' \in Optional(Containers) /\ home' \in Optional(HomeOperations)
           /\ r2' \subseteq Records /\ last' \in Records
<1> DEFINE Goal == /\ cont' \in Optional(Containers)
                   /\ home' \in Optional(HomeOperations)
                   /\ r2' \subseteq Records /\ last' \in Records
<1>t. /\ cont \in Containers \cup {None} /\ home \in HomeOperations \cup {None}
      /\ r2 \subseteq Records /\ last \in Records
      /\ store.backup \in Records \cup {None}
      /\ store.contract \in Generations \cup {None}
  BY DEF Typed, Optional, Stores
<1> USE DEF Optional
<1>l. Lost \in HomeOperations \cup {None}
  <2>1. CASE home = None
    BY <2>1 DEF Lost
  <2>2. CASE home \in HomeOperations
    BY <2>2, Zenon DEF Lost, HomeOperations
  <2> QED
    BY <1>t, <2>1, <2>2
<1>r. \A rec \in Records \cup {None}, g \in Generations, op \in {"copy", "tidy", "upload"} :
        [op |-> op, gen |-> g, rec |-> rec, lost |-> FALSE] \in HomeOperations
  BY Zenon DEF HomeOperations, Optional
<1>d. \A k \in Containers, v \in Records \cup {None} :
        [k EXCEPT !.disk = v] \in Containers
  BY DEF Containers
<1>h. home \in HomeOperations => home.rec \in Records \cup {None}
  BY DEF HomeOperations
<1>p. \A x \in HalfDone : x \subseteq Records
  <2>1. home # None /\ home.op = "upload" => home.rec \in Records
    BY <1>t, <1>h DEF Newer
  <2> QED
    BY <1>t, <2>1, Zenon DEF HalfDone
<1>1. CASE ContainerStarts
  <2>1. lifecycle.gen \in Generations
    BY <1>1, <1>t DEF ContainerStarts, Owned, Does, Creating, Typed, Operations
  <2> QED
    BY <1>1, <1>t, <2>1 DEF ContainerStarts, Containers
<1>2. CASE DestroyDone \/ ContainerExits
  BY <1>2, <1>t, <1>l DEF DestroyDone, ContainerExits
<1>3. CASE StorageDone
  BY <1>3, <1>t DEF StorageDone
<1>4. CASE RestoreBegins \/ BackupBegins
  <2>1. store.contract \in Generations /\ cont \in Containers
    BY <1>4, <1>t DEF RestoreBegins, BackupBegins, Authorized, Containers
  <2>2. cont.disk \in Records \cup {None}
    BY <2>1 DEF Containers
  <2> QED
    BY <1>4, <1>t, <1>r, <2>1, <2>2 DEF RestoreBegins, BackupBegins
<1>5. CASE RestoreCopied
  <2>1. home \in HomeOperations /\ home' = [home EXCEPT !.op = "tidy"]
    BY <1>5, <1>t DEF RestoreCopied
  <2>2. home' \in HomeOperations
    BY <2>1, Zenon DEF HomeOperations
  <2> QED
    BY <1>5, <1>t, <2>2 DEF RestoreCopied
<1>6. CASE RestoreDone
  <2> DEFINE v == IF home.rec = None THEN 0 ELSE home.rec
  <2>1. home.rec \in Records \cup {None}
    BY <1>6, <1>t, <1>h DEF RestoreDone
  <2>2. 0 \in Records
    BY MachineAssumption DEF Records
  <2>3. v \in Records \cup {None}
    BY <2>1, <2>2
  <2>4. cont' = cont \/ (cont # None /\ cont' = [cont EXCEPT !.disk = v])
    <3>1. cont' = IF cont # None /\ ~home.lost
                  THEN [cont EXCEPT !.disk = v] ELSE cont
      BY <1>6, Zenon DEF RestoreDone
    <3> QED
      BY <3>1, Zenon
  <2>5. cont' \in Containers \cup {None}
    BY <1>t, <1>d, <2>3, <2>4
  <2>6. r2' \subseteq r2 /\ home' = None /\ last' = last
    BY <1>6 DEF RestoreDone
  <2> QED
    BY <1>t, <2>5, <2>6
<1>7. CASE BackupDone
  <2>1. home.rec \in Records
    BY <1>7, <1>t, <1>h DEF BackupDone, Newer
  <2> QED
    BY <1>7, <1>t, <2>1 DEF BackupDone
<1>8. CASE HomeFails
  BY <1>8, <1>t, <1>p DEF HomeFails
<1>9. CASE Write
  <2>1. last + 1 \in Records
    BY <1>9, <1>t, MachineAssumption DEF Write, Records
  <2>2. cont' \in Containers
    BY <1>9, <1>t, <1>d, <2>1 DEF Write
  <2> QED
    BY <1>9, <1>t, <2>1, <2>2 DEF Write
<1>10. CASE ContainerRestarts
  BY <1>10, <1>t, <1>d, <1>l DEF ContainerRestarts
<1>11. CASE ObjectRestarts
  <2>1. r2' \in HalfDone \cup {{}}
    BY <1>11, Zenon DEF ObjectRestarts
  <2> QED
    BY <1>11, <1>t, <1>p, <2>1, RestartIs
<1>12. CASE cont' = cont /\ home' = home /\ r2' = r2 /\ last' = last
  BY <1>12, <1>t
<1> QED
  BY <1>1, <1>2, <1>3, <1>4, <1>5, <1>6, <1>7, <1>8, <1>9, <1>10, <1>11, <1>12
  DEF Next, Create, Delete, Home, Container, Plane, CreateBegins,
    CreateUnknownImage, CreateDone, CreateFails, CreateEnds, Remove,
    AlarmDestroys, AlarmIdle, ExitSeen, DestroyFails, StorageBegins,
    PlaneBegins, PlaneObserves, PlaneMisses, PlaneSettles, AgentDeleted

(* The control plane's view and its requests.                              *)
LEMMA PlaneTyped ==
    ASSUME Typed, Next
    PROVE  plane' \in Views /\ sent' \subseteq Requests
<1> DEFINE Goal == plane' \in Views /\ sent' \subseteq Requests
<1>t. /\ plane \in Views /\ sent \subseteq Requests
      /\ store.backup \in Optional(Records)
  BY DEF Typed, Stores
<1>1. ASSUME NEW g \in Generations, PlaneBegins(g)
      PROVE  Goal
  <2>1. g \in Optional(Generations)
    BY DEF Optional
  <2>2. plane' \in Views
    BY <1>1, <1>t, <2>1, Zenon DEF PlaneBegins, Views
  <2>3. [gen |-> g, ref |-> plane.committed] \in Requests
    BY <1>t DEF Requests, Views
  <2> QED
    BY <1>1, <1>t, <2>2, <2>3 DEF PlaneBegins
<1>2. CASE PlaneObserves \/ PlaneMisses \/ AgentDeleted
  BY <1>2, <1>t, Zenon DEF PlaneObserves, PlaneMisses, AgentDeleted, Views
<1>3. CASE PlaneSettles
  <2>1. None \in Optional(Generations)
    BY DEF Optional
  <2> QED
    BY <1>3, <1>t, <2>1, Zenon DEF PlaneSettles, Views
<1>4. CASE plane' = plane /\ sent' = sent
  BY <1>4, <1>t
<1> QED
  BY <1>1, <1>2, <1>3, <1>4
  DEF Next, Create, Delete, Home, Container, Plane, CreateBegins,
    CreateUnknownImage, ContainerStarts, CreateDone, CreateFails, CreateEnds,
    Remove, AlarmDestroys, AlarmIdle, ExitSeen, DestroyDone, DestroyFails,
    StorageBegins, StorageDone, RestoreBegins, RestoreCopied, RestoreDone,
    BackupBegins, BackupDone, HomeFails, Write, ContainerExits,
    ContainerRestarts, ObjectRestarts

(* Every variable keeps its type.                                          *)
LEMMA TypesKept ==
    ASSUME Typed, Owned, Newer, Next
    PROVE  Typed'
  BY StoreTyped, LifecycleTyped, HomeTyped, PlaneTyped DEF Typed

-----------------------------------------------------------------------------
(* The object, whatever the control plane does *)

(* What runs stays with the generation of the record.                      *)
LEMMA OwnedKept ==
    ASSUME MachineInv, Next
    PROVE  Owned'
<1>1. ASSUME NEW c \in sent, CreateBegins(c)
      PROVE  Owned'
  BY <1>1, MachineAssumption DEF MachineInv, Typed, Containers,
    HomeOperations, Requests, Optional, Owned, ExitWatchesContract, Does,
    Destroying, Admissible, Present, CreateBegins
<1>2. ASSUME NEW c \in sent, CreateUnknownImage(c)
      PROVE  Owned'
  BY <1>2 DEF MachineInv, Owned, ExitWatchesContract, Does, Creating,
    Destroying, Admissible, CreateUnknownImage
<1>3. CASE ContainerStarts
  BY SMTT(20), <1>3 DEF MachineInv, Owned, ExitWatchesContract, Does,
    Creating, Destroying, ContainerStarts
<1>4. CASE CreateDone \/ CreateFails
  BY <1>4 DEF MachineInv, Typed, Stores, Owned, ExitWatchesContract, Does,
    Creating, Destroying, CreateEnds, CreateDone, CreateFails
<1>5. ASSUME NEW g \in Generations, NEW mode \in {"graceful", "now"}, Remove(g, mode)
      PROVE  Owned'
  BY <1>5, MachineAssumption DEF MachineInv, Owned, ExitWatchesContract,
    Does, Creating, Destroying, BeginDestroy, Remove
<1>6. CASE AlarmDestroys \/ ExitSeen
  BY <1>6 DEF MachineInv, Typed, Stores, Owned, ExitWatchesContract, Does,
    Creating, BeginDestroy, AlarmDestroys, ExitSeen
<1>7. CASE AlarmIdle \/ RestoreCopied
  BY <1>7 DEF MachineInv, Typed, Stores, HomeOperations, Optional, Owned,
    ExitWatchesContract, Does, Creating, Destroying, AlarmIdle, RestoreCopied
<1>8. CASE DestroyDone \/ DestroyFails
  BY <1>8 DEF MachineInv, Typed, Stores, HomeOperations, Optional, Owned,
    ExitWatchesContract, Does, Creating, ForgetExit, Lost, DestroyDone,
    DestroyFails
<1>9. CASE StorageBegins
  BY <1>9 DEF Owned, ExitWatchesContract, Does, Creating, Destroying,
    Present, StorageBegins
<1>10. CASE StorageDone
  BY <1>10 DEF MachineInv, Owned, ExitWatchesContract, Does, Creating,
    Destroying, EmptyStore, StorageDone
<1>11. CASE RestoreBegins \/ BackupBegins
  BY <1>11 DEF MachineInv, Typed, Stores, Owned, ExitWatchesContract, Does,
    Creating, Destroying, Authorized, RestoreBegins, BackupBegins
<1>12. CASE RestoreDone
  BY <1>12 DEF MachineInv, Owned, ExitWatchesContract, Does, Creating,
    Destroying, RestoreDone
<1>13. CASE BackupDone
  BY <1>13 DEF MachineInv, Owned, ExitWatchesContract, Does, Creating,
    Destroying, BackupDone
<1>14. CASE HomeFails
  BY <1>14 DEF MachineInv, Owned, ExitWatchesContract, Does, Creating,
    Destroying, HomeFails
<1>15. CASE Write \/ ContainerRestarts
  BY <1>15 DEF MachineInv, Typed, Containers, HomeOperations, Optional,
    Owned, ExitWatchesContract, Does, Creating, Destroying, Lost, Write,
    ContainerRestarts
<1>16. CASE ContainerExits
  BY <1>16 DEF MachineInv, Owned, ExitWatchesContract, Does, Creating,
    Destroying, Lost, ContainerExits
<1>17. CASE ObjectRestarts
  BY <1>17, RestartIs DEF MachineInv, Owned, ExitWatchesContract, Does,
    Creating, Destroying
<1>18. ASSUME NEW g \in Generations, PlaneBegins(g)
      PROVE  Owned'
  BY <1>18 DEF MachineInv, Owned, ExitWatchesContract, Does, Creating,
    Destroying, PlaneBegins
<1>19. CASE PlaneObserves
  BY <1>19 DEF MachineInv, Owned, ExitWatchesContract, Does, Creating,
    Destroying, PlaneObserves
<1>20. CASE PlaneMisses
  BY <1>20 DEF MachineInv, Owned, ExitWatchesContract, Does, Creating,
    Destroying, PlaneMisses
<1>21. CASE PlaneSettles
  BY <1>21 DEF MachineInv, Owned, ExitWatchesContract, Does, Creating,
    Destroying, PlaneSettles
<1>22. CASE AgentDeleted
  BY <1>22 DEF MachineInv, Owned, ExitWatchesContract, Does, Creating,
    Destroying, AgentDeleted
<1> QED
  BY <1>1, <1>2, <1>3, <1>4, <1>5, <1>6, <1>7, <1>8, <1>9, <1>10, <1>11,
    <1>12, <1>13, <1>14, <1>15, <1>16, <1>17, <1>18, <1>19, <1>20, <1>21,
    <1>22 DEF Next, Create, Delete, Home, Container, Plane

(* A generation that has not begun keeps the pointer of its create.        *)
LEMMA PristineKept ==
    ASSUME MachineInv, Next
    PROVE  Pristine'
<1>1. ASSUME NEW c \in sent, CreateBegins(c)
      PROVE  Pristine'
  BY <1>1, MachineAssumption DEF MachineInv, Typed, Containers,
    HomeOperations, Optional, Owned, Pristine, SentOnce, Admissible, Present,
    CreateBegins
<1>2. ASSUME NEW c \in sent, CreateUnknownImage(c)
      PROVE  Pristine'
  BY <1>2 DEF MachineInv, Pristine, CreateUnknownImage
<1>3. CASE ContainerStarts
  BY <1>3 DEF MachineInv, Owned, Does, Creating, Pristine, ContainerStarts
<1>4. CASE CreateDone \/ CreateFails \/ AlarmIdle \/ StorageBegins
  BY <1>4 DEF MachineInv, Typed, Stores, Pristine, CreateEnds, CreateDone,
    CreateFails, AlarmIdle, StorageBegins
<1>5. ASSUME NEW g \in Generations, NEW mode \in {"graceful", "now"}, Remove(g, mode)
      PROVE  Pristine'
  BY <1>5 DEF MachineInv, Pristine, BeginDestroy, Remove
<1>6. CASE AlarmDestroys \/ ExitSeen
  BY <1>6 DEF MachineInv, Typed, Stores, Pristine, BeginDestroy,
    AlarmDestroys, ExitSeen
<1>7. CASE DestroyDone \/ DestroyFails
  BY <1>7 DEF MachineInv, Typed, Stores, Owned, Pristine, DestroyDone,
    DestroyFails
<1>8. CASE StorageDone
  BY <1>8 DEF Pristine, EmptyStore, StorageDone
<1>9. CASE RestoreBegins \/ BackupBegins
  BY <1>9 DEF MachineInv, Typed, Stores, Pristine, Authorized, RestoreBegins,
    BackupBegins
<1>10. CASE RestoreCopied \/ RestoreDone
  BY <1>10 DEF MachineInv, Typed, Stores, Pristine, RestoreCopied,
    RestoreDone
<1>11. CASE BackupDone
  BY <1>11 DEF MachineInv, Pristine, BackupDone
<1>12. CASE HomeFails
  BY <1>12 DEF MachineInv, Pristine, HomeFails
<1>13. CASE Write \/ ContainerRestarts
  BY <1>13 DEF MachineInv, Pristine, Write, ContainerRestarts
<1>14. CASE ContainerExits
  BY <1>14 DEF MachineInv, Pristine, ContainerExits
<1>15. CASE ObjectRestarts
  BY <1>15, RestartIs DEF MachineInv, Pristine
<1>16. ASSUME NEW g \in Generations, PlaneBegins(g)
      PROVE  Pristine'
  BY <1>16 DEF MachineInv, Pristine, SentOnce, PlaneBegins
<1>17. CASE PlaneObserves \/ PlaneMisses \/ PlaneSettles \/ AgentDeleted
  BY <1>17 DEF MachineInv, Pristine, PlaneObserves, PlaneMisses,
    PlaneSettles, AgentDeleted
<1> QED
  BY <1>1, <1>2, <1>3, <1>4, <1>5, <1>6, <1>7, <1>8, <1>9, <1>10, <1>11,
    <1>12, <1>13, <1>14, <1>15, <1>16, <1>17 DEF Next, Create, Delete, Home,
    Container, Plane

(* No generation is begun twice.                                           *)
LEMMA SentOnceKept ==
    ASSUME MachineInv, Next
    PROVE  SentOnce'
<1>1. ASSUME NEW c \in sent, CreateBegins(c)
      PROVE  SentOnce'
  BY <1>1 DEF MachineInv, SentOnce, CreateBegins
<1>2. CASE (\E c \in sent : CreateUnknownImage(c)) \/ ContainerStarts \/
  CreateDone \/ CreateFails
  BY <1>2 DEF MachineInv, Typed, Stores, SentOnce, CreateEnds,
    CreateUnknownImage, ContainerStarts, CreateDone, CreateFails
<1>3. ASSUME NEW g \in Generations, NEW mode \in {"graceful", "now"}, Remove(g, mode)
      PROVE  SentOnce'
  BY <1>3 DEF MachineInv, SentOnce, Remove
<1>4. CASE AlarmDestroys \/ AlarmIdle \/ ExitSeen \/ DestroyDone \/
  DestroyFails
  BY <1>4 DEF MachineInv, Typed, Stores, SentOnce, AlarmDestroys, AlarmIdle,
    ExitSeen, DestroyDone, DestroyFails
<1>5. CASE StorageBegins
  BY <1>5 DEF MachineInv, SentOnce, StorageBegins
<1>6. CASE StorageDone
  BY <1>6 DEF MachineInv, SentOnce, EmptyStore, StorageDone
<1>7. CASE RestoreBegins \/ RestoreCopied \/ RestoreDone
  BY <1>7 DEF MachineInv, Typed, Stores, SentOnce, RestoreBegins,
    RestoreCopied, RestoreDone
<1>8. CASE BackupBegins \/ BackupDone \/ HomeFails
  BY <1>8 DEF MachineInv, Typed, Stores, SentOnce, BackupBegins, BackupDone,
    HomeFails
<1>9. CASE Write \/ ContainerExits \/ ContainerRestarts
  BY <1>9 DEF MachineInv, SentOnce, Write, ContainerExits, ContainerRestarts
<1>10. CASE ObjectRestarts
  BY <1>10, RestartIs DEF MachineInv, SentOnce
<1>11. ASSUME NEW g \in Generations, PlaneBegins(g)
      PROVE  SentOnce'
  BY <1>11 DEF MachineInv, SentOnce, PlaneBegins
<1>12. CASE PlaneObserves \/ PlaneMisses \/ PlaneSettles \/ AgentDeleted
  BY <1>12 DEF MachineInv, SentOnce, PlaneObserves, PlaneMisses,
    PlaneSettles, AgentDeleted
<1> QED
  BY <1>1, <1>2, <1>3, <1>4, <1>5, <1>6, <1>7, <1>8, <1>9, <1>10, <1>11,
    <1>12 DEF Next, Create, Delete, Home, Container, Plane

(* Home and what is uploaded of it stay as new as the pointer.             *)
LEMMA NewerKept ==
    ASSUME MachineInv, Next
    PROVE  Newer'
<1>1. ASSUME NEW c \in sent, CreateBegins(c)
      PROVE  Newer'
  BY <1>1, MachineAssumption DEF MachineInv, Typed, Containers,
    HomeOperations, Optional, Owned, Newer, Admissible, Present, CreateBegins
<1>2. ASSUME NEW c \in sent, CreateUnknownImage(c)
      PROVE  Newer'
  BY <1>2 DEF MachineInv, Newer, CreateUnknownImage
<1>3. CASE ContainerStarts
  BY <1>3 DEF MachineInv, Newer, ContainerStarts
<1>4. CASE CreateDone \/ CreateFails
  BY <1>4 DEF MachineInv, Typed, Stores, Newer, CreateEnds, CreateDone,
    CreateFails
<1>5. ASSUME NEW g \in Generations, NEW mode \in {"graceful", "now"}, Remove(g, mode)
      PROVE  Newer'
  BY <1>5 DEF MachineInv, Newer, Remove
<1>6. CASE AlarmDestroys \/ AlarmIdle \/ ExitSeen
  BY <1>6 DEF MachineInv, Typed, Stores, Newer, AlarmDestroys, AlarmIdle,
    ExitSeen
<1>7. CASE DestroyDone \/ DestroyFails
  BY <1>7 DEF MachineInv, Typed, Stores, HomeOperations, Optional, Newer,
    Lost, DestroyDone, DestroyFails
<1>8. CASE StorageBegins
  BY <1>8 DEF MachineInv, Newer, StorageBegins
<1>9. CASE StorageDone
  BY <1>9 DEF MachineInv, Owned, Does, Newer, StorageDone
<1>10. CASE RestoreBegins
  BY <1>10 DEF Newer, RestoreBegins
<1>11. CASE RestoreCopied
  BY <1>11 DEF MachineInv, Newer, RestoreCopied
<1>12. CASE RestoreDone
  BY <1>12 DEF MachineInv, Typed, Stores, Optional, Records, Newer, AtLeast,
    RestoreDone
<1>13. CASE BackupBegins
  BY <1>13 DEF MachineInv, Typed, Containers, Optional, Records, Newer,
    AtLeast, Authorized, BackupBegins
<1>14. CASE BackupDone
  BY <1>14 DEF MachineInv, Newer, BackupDone
<1>15. CASE HomeFails
  BY <1>15 DEF MachineInv, Newer, HomeFails
<1>16. CASE Write
  BY <1>16 DEF MachineInv, Typed, Stores, HomeOperations, Optional, Records,
    Newer, AtLeast, Written, Write
<1>17. CASE ContainerExits \/ ContainerRestarts
  BY <1>17 DEF MachineInv, Typed, Containers, HomeOperations, Optional,
    Newer, Lost, ContainerExits, ContainerRestarts
<1>18. CASE ObjectRestarts
  BY <1>18, RestartIs DEF MachineInv, Newer
<1>19. ASSUME NEW g \in Generations, PlaneBegins(g)
      PROVE  Newer'
  BY <1>19 DEF Newer, MachineInv, PlaneBegins
<1>20. CASE PlaneObserves \/ PlaneMisses
  BY <1>20 DEF Newer, MachineInv, PlaneObserves, PlaneMisses
<1>21. CASE PlaneSettles \/ AgentDeleted
  BY <1>21 DEF Newer, MachineInv, PlaneSettles, AgentDeleted
<1> QED
  BY <1>1, <1>2, <1>3, <1>4, <1>5, <1>6, <1>7, <1>8, <1>9, <1>10, <1>11,
    <1>12, <1>13, <1>14, <1>15, <1>16, <1>17, <1>18, <1>19, <1>20, <1>21 DEF
    Next, Create, Delete, Home, Container, Plane

(* Nothing becomes newer than the newest version written.                  *)
LEMMA WrittenKept ==
    ASSUME MachineInv, Next
    PROVE  Written'
<1>1. ASSUME NEW c \in sent, CreateBegins(c)
      PROVE  Written'
  BY <1>1 DEF MachineInv, Written, CreateBegins
<1>2. ASSUME NEW c \in sent, CreateUnknownImage(c)
      PROVE  Written'
  BY <1>2 DEF MachineInv, Written, CreateUnknownImage
<1>3. CASE ContainerStarts
  BY <1>3 DEF MachineInv, AtLeast, Written, ContainerStarts
<1>4. CASE CreateDone \/ CreateFails
  BY <1>4 DEF MachineInv, Typed, Stores, Written, CreateEnds, CreateDone,
    CreateFails
<1>5. ASSUME NEW g \in Generations, NEW mode \in {"graceful", "now"}, Remove(g, mode)
      PROVE  Written'
  BY <1>5 DEF MachineInv, Written, Remove
<1>6. CASE AlarmDestroys \/ AlarmIdle \/ ExitSeen
  BY <1>6 DEF MachineInv, Typed, Stores, Written, AlarmDestroys, AlarmIdle,
    ExitSeen
<1>7. CASE DestroyDone \/ DestroyFails
  BY <1>7 DEF MachineInv, Typed, Stores, HomeOperations, Optional, Written,
    Lost, DestroyDone, DestroyFails
<1>8. CASE StorageBegins
  BY <1>8 DEF MachineInv, Written, StorageBegins
<1>9. CASE StorageDone
  BY <1>9 DEF MachineInv, AtLeast, Written, EmptyStore, StorageDone
<1>10. CASE RestoreBegins
  BY <1>10 DEF MachineInv, Written, RestoreBegins
<1>11. CASE RestoreCopied
  BY <1>11 DEF MachineInv, Written, RestoreCopied
<1>12. CASE RestoreDone
  BY <1>12, MachineAssumption DEF MachineInv, Typed, Records, AtLeast,
    Written, RestoreDone
<1>13. CASE BackupBegins
  BY <1>13 DEF MachineInv, Written, Authorized, BackupBegins
<1>14. CASE BackupDone
  BY <1>14 DEF MachineInv, Written, BackupDone
<1>15. CASE HomeFails
  BY <1>15 DEF MachineInv, Written, HomeFails
<1>16. CASE Write
  BY <1>16, MachineAssumption DEF MachineInv, Typed, Stores, HomeOperations,
    Views, Requests, Optional, Records, AtLeast, Written, Write
<1>17. CASE ContainerExits \/ ContainerRestarts
  BY <1>17 DEF MachineInv, Typed, Containers, HomeOperations, Optional,
    AtLeast, Written, Lost, ContainerExits, ContainerRestarts
<1>18. CASE ObjectRestarts
  BY <1>18, RestartIs DEF MachineInv, Written
<1>19. ASSUME NEW g \in Generations, PlaneBegins(g)
      PROVE  Written'
  BY <1>19 DEF MachineInv, Written, PlaneBegins
<1>20. CASE PlaneObserves \/ PlaneMisses
  BY <1>20 DEF MachineInv, Typed, Views, Written, PlaneObserves, PlaneMisses
<1>21. CASE PlaneSettles
  BY <1>21 DEF MachineInv, Written, PlaneSettles
<1>22. CASE AgentDeleted
  BY <1>22 DEF MachineInv, Written, AgentDeleted
<1> QED
  BY <1>1, <1>2, <1>3, <1>4, <1>5, <1>6, <1>7, <1>8, <1>9, <1>10, <1>11,
    <1>12, <1>13, <1>14, <1>15, <1>16, <1>17, <1>18, <1>19, <1>20, <1>21,
    <1>22 DEF Next, Create, Delete, Home, Container, Plane

(* A stuttering step keeps everything.                                     *)
LEMMA Stutters ==
    ASSUME UNCHANGED vars
    PROVE  /\ MachineInv => MachineInv'
           /\ PlaneInv => PlaneInv'
  BY DEF vars, MachineInv, Typed, Owned, ExitWatchesContract, Creating, Does,
    Destroying, Pristine, SentOnce, Newer, AtLeast, Written, PlaneInv, Receipts,
    Current, Committed, RecordKept

(* The invariant holds initially.                                          *)
LEMMA MachineInit ==
    ASSUME Init
    PROVE  MachineInv
<1>1. Typed
  <2>1. store \in Stores /\ plane \in Views
    BY Zenon DEF Init, EmptyStore, Stores, Views, Optional
  <2> QED
    BY <2>1, MachineAssumption DEF Init, Typed, Optional, Records
<1>2. Owned /\ Pristine /\ SentOnce /\ Newer /\ Written
  BY DEF Init, EmptyStore, Owned, ExitWatchesContract, Creating, Does,
    Destroying, Pristine, SentOnce, Newer, Written, AtLeast
<1> QED
  BY <1>1, <1>2 DEF MachineInv

(* Every step keeps the invariant.                                         *)
LEMMA MachineKept ==
    ASSUME MachineInv, [Next]_vars
    PROVE  MachineInv'
<1>1. CASE Next
  <2>1. Typed'
    BY <1>1, TypesKept DEF MachineInv
  <2> QED
    BY <1>1, <2>1, OwnedKept, PristineKept, SentOnceKept, NewerKept, WrittenKept
    DEF MachineInv
<1>2. CASE UNCHANGED vars
  BY <1>2, Stutters
<1> QED
  BY <1>1, <1>2

(* The inductive invariant of the object holds always.                     *)
THEOREM Invariant == Spec => []MachineInv
  BY MachineInit, MachineKept, PTL DEF Spec

(* Every variable holds a value the code can hold.                         *)
THEOREM TypeCorrect == Spec => []TypeOK
<1>1. MachineInv => TypeOK
  BY TypedIs DEF MachineInv
<1> QED
  BY <1>1, Invariant, PTL

(* The object waits for no other exit than its own generation's, so no     *)
(* watch stays for ever and refuses every later create.                    *)
THEOREM ExitWatchesContractHolds == Spec => []ExitWatchesContract
<1>1. MachineInv => ExitWatchesContract
  BY DEF MachineInv, Owned
<1> QED
  BY <1>1, Invariant, PTL

(* Only a registered create starts a container.                            *)
LEMMA OnlyStarts ==
    ASSUME Next, cont = None, cont' # None
    PROVE  ContainerStarts
<1>1. CASE ObjectRestarts
  <2>1. cont' \in {cont, None}
    BY <1>1, Zenon DEF ObjectRestarts
  <2> QED
    BY <2>1
<1>2. CASE RestoreDone
  BY <1>2, Zenon DEF RestoreDone
<1> QED
  BY <1>1, <1>2
  DEF Next, Create, Delete, Home, Container, Plane, CreateBegins,
    CreateUnknownImage, CreateDone, CreateFails, CreateEnds, Remove,
    AlarmDestroys, AlarmIdle, ExitSeen, DestroyDone, DestroyFails,
    StorageBegins, StorageDone, RestoreBegins, RestoreCopied, BackupBegins,
    BackupDone, HomeFails, Write, ContainerExits, ContainerRestarts,
    PlaneBegins, PlaneObserves, PlaneMisses, PlaneSettles, AgentDeleted

(* No late or repeated create and no restart starts a generation that has  *)
(* a receipt.                                                              *)
THEOREM FinishedNeverStartsHolds == Spec => FinishedNeverStarts
<1>1. ASSUME MachineInv, [Next]_vars, cont = None, cont' # None
      PROVE  cont'.gen \notin finished
  <2>1. ContainerStarts
    BY <1>1, OnlyStarts DEF vars
  <2> QED
    BY <1>1, <2>1 DEF ContainerStarts, MachineInv, Owned, Does, Creating
<1>2. MachineInv /\ [Next]_vars =>
        [cont = None /\ cont' # None => cont'.gen \notin finished]_vars
  BY <1>1
<1> QED
  BY <1>2, Invariant, PTL DEF Spec, FinishedNeverStarts

(* Only a create, the end of a backup and the deletion of storage change   *)
(* the pointer.                                                            *)
LEMMA PointerWriters ==
    ASSUME Typed, Next
    PROVE  \/ store'.backup = store.backup
           \/ \E c \in sent : CreateBegins(c)
           \/ BackupDone \/ StorageDone
<1>t. store \in Stores
  BY DEF Typed
<1>1. CASE ObjectRestarts
  BY <1>1, RestartIs
<1>2. CASE \E g \in Generations, mode \in {"graceful", "now"} : Remove(g, mode)
  BY <1>t, <1>2 DEF Remove, Stores
<1>3. CASE CreateEnds \/ AlarmDestroys \/ AlarmIdle \/ ExitSeen
  BY <1>t, <1>3 DEF CreateEnds, AlarmDestroys, AlarmIdle, ExitSeen, Stores
<1>4. CASE DestroyDone \/ DestroyFails \/ RestoreBegins \/ RestoreDone
  BY <1>t, <1>4 DEF DestroyDone, DestroyFails, RestoreBegins, RestoreDone, Stores
<1> QED
  BY <1>1, <1>2, <1>3, <1>4
  DEF Next, Create, Delete, Home, Container, Plane, CreateUnknownImage,
    ContainerStarts, CreateDone, CreateFails, StorageBegins, RestoreCopied,
    BackupBegins, HomeFails, Write, ContainerExits, ContainerRestarts,
    PlaneBegins, PlaneObserves, PlaneMisses, PlaneSettles, AgentDeleted

(* No repeated create, restore or restart moves the pointer of a           *)
(* generation back.                                                        *)
THEOREM PointerForwardHolds == Spec => PointerForward
<1> DEFINE Same == store.contract # None /\ store'.contract = store.contract
<1>1. ASSUME MachineInv, [Next]_vars, Same
      PROVE  AtLeast(store'.backup, store.backup)
  <2>t. /\ store \in Stores /\ store.backup \in Records \cup {None}
        /\ sent \subseteq Requests
    BY <1>1 DEF MachineInv, Typed, Stores, Optional
  <2>1. AtLeast(store.backup, store.backup)
    BY <2>t, MachineAssumption DEF AtLeast, Records
  <2>2. ASSUME NEW c \in sent, CreateBegins(c)
        PROVE  store'.backup = store.backup
    <3>1. c.gen = store.contract /\ store'.backup = c.ref
      BY <1>1, <2>2, <2>t DEF CreateBegins, Stores
    <3>2. exit = None /\ store.contract \notin finished
      BY <1>1, <2>2, <3>1 DEF CreateBegins, Admissible, Present
    <3> QED
      BY <1>1, <3>1, <3>2 DEF MachineInv, Pristine
  <2>3. CASE BackupDone
    BY <1>1, <2>3, <2>t DEF BackupDone, Stores, MachineInv, Owned, Newer
  <2>4. CASE StorageDone
    BY <1>1, <2>4 DEF StorageDone, EmptyStore
  <2> QED
    BY <1>1, <2>1, <2>2, <2>3, <2>4, PointerWriters DEF vars, MachineInv
<1>2. MachineInv /\ [Next]_vars =>
        [ store.contract # None /\ store'.contract = store.contract =>
            AtLeast(store'.backup, store.backup) ]_vars
  BY <1>1
<1> QED
  BY <1>2, Invariant, PTL DEF Spec, PointerForward

-----------------------------------------------------------------------------
(* The object and the control plane *)

(* A generation is given up only with its receipt.                         *)
LEMMA ReceiptsKept ==
    ASSUME Observed, MachineInv, PlaneInv, Next
    PROVE  Receipts'
<1>1. ASSUME NEW c \in sent, CreateBegins(c)
      PROVE  Receipts'
  BY <1>1 DEF PlaneInv, Receipts, Admissible, CreateBegins
<1>2. ASSUME NEW c \in sent, CreateUnknownImage(c)
      PROVE  Receipts'
  BY <1>2 DEF PlaneInv, Receipts, CreateUnknownImage
<1>3. CASE ContainerStarts
  BY <1>3 DEF PlaneInv, Receipts, ContainerStarts
<1>4. CASE CreateDone
  BY <1>4 DEF MachineInv, Owned, Does, PlaneInv, Receipts, CreateEnds,
    CreateDone
<1>5. CASE CreateFails
  BY <1>5 DEF MachineInv, Owned, Does, Creating, PlaneInv, Observed,
    Receipts, CreateEnds, CreateFails
<1>6. ASSUME NEW g \in Generations, NEW mode \in {"graceful", "now"}, Remove(g, mode)
      PROVE  Receipts'
  BY <1>6 DEF PlaneInv, Receipts, BeginDestroy, Remove
<1>7. CASE AlarmDestroys \/ ExitSeen
  BY <1>7 DEF PlaneInv, Receipts, BeginDestroy, AlarmDestroys, ExitSeen
<1>8. CASE AlarmIdle \/ StorageBegins
  BY <1>8 DEF MachineInv, Typed, Stores, PlaneInv, Receipts, AlarmIdle,
    StorageBegins
<1>9. CASE DestroyDone
  BY <1>9 DEF MachineInv, Owned, PlaneInv, Receipts, DestroyDone
<1>10. CASE DestroyFails
  BY <1>10 DEF MachineInv, Owned, PlaneInv, Receipts, DestroyFails
<1>11. CASE StorageDone
  BY <1>11 DEF MachineInv, Owned, Does, PlaneInv, Receipts, StorageDone
<1>12. CASE RestoreBegins \/ RestoreCopied \/ RestoreDone
  BY <1>12 DEF MachineInv, Typed, Stores, PlaneInv, Receipts, RestoreBegins,
    RestoreCopied, RestoreDone
<1>13. CASE BackupBegins \/ BackupDone \/ HomeFails
  BY <1>13 DEF MachineInv, Typed, Stores, PlaneInv, Receipts, BackupBegins,
    BackupDone, HomeFails
<1>14. CASE Write \/ ContainerExits \/ ContainerRestarts
  BY <1>14 DEF PlaneInv, Receipts, Write, ContainerExits, ContainerRestarts
<1>15. CASE ObjectRestarts
  BY <1>15, RestartIs DEF MachineInv, PlaneInv, Receipts
<1>16. ASSUME NEW g \in Generations, PlaneBegins(g)
      PROVE  Receipts'
  BY <1>16, MachineAssumption DEF MachineInv, Typed, Requests, PlaneInv,
    Receipts, PlaneBegins
<1>17. CASE PlaneObserves
  BY <1>17 DEF MachineInv, Typed, Operations, Optional, Owned, Does,
    Creating, Destroying, PlaneInv, Receipts, Pristine, Reported, Finishing,
    PlaneObserves
<1>18. CASE PlaneMisses
  BY <1>18 DEF PlaneInv, Receipts, Reported, Finishing, PlaneMisses
<1>19. CASE PlaneSettles
  BY <1>19, MachineAssumption DEF MachineInv, Typed, PlaneInv, Receipts,
    PlaneSettles
<1>20. CASE AgentDeleted
  BY <1>20 DEF PlaneInv, Receipts, AgentDeleted
<1> QED
  BY <1>1, <1>2, <1>3, <1>4, <1>5, <1>6, <1>7, <1>8, <1>9, <1>10, <1>11,
    <1>12, <1>13, <1>14, <1>15, <1>16, <1>17, <1>18, <1>19, <1>20 DEF Next,
    Create, Delete, Home, Container, Plane

(* Only the control plane's generation comes to run.                       *)
LEMMA CurrentKept ==
    ASSUME Observed, MachineInv, PlaneInv, Next
    PROVE  Current'
<1>1. ASSUME NEW c \in sent, CreateBegins(c)
      PROVE  Current'
  BY <1>1 DEF PlaneInv, Receipts, Current, Admissible, CreateBegins
<1>2. ASSUME NEW c \in sent, CreateUnknownImage(c)
      PROVE  Current'
  BY <1>2 DEF PlaneInv, Current, CreateUnknownImage
<1>3. CASE ContainerStarts
  BY <1>3 DEF MachineInv, Owned, Does, Creating, PlaneInv, Current,
    ContainerStarts
<1>4. CASE CreateDone \/ CreateFails
  BY <1>4 DEF MachineInv, Typed, Stores, PlaneInv, Current, CreateEnds,
    CreateDone, CreateFails
<1>5. ASSUME NEW g \in Generations, NEW mode \in {"graceful", "now"}, Remove(g, mode)
      PROVE  Current'
  BY <1>5 DEF PlaneInv, Current, Remove
<1>6. CASE AlarmDestroys \/ ExitSeen
  BY <1>6 DEF MachineInv, Typed, Stores, PlaneInv, Current, AlarmDestroys,
    ExitSeen
<1>7. CASE AlarmIdle \/ StorageBegins
  BY <1>7 DEF MachineInv, Typed, Stores, PlaneInv, Current, AlarmIdle,
    StorageBegins
<1>8. CASE DestroyDone \/ DestroyFails
  BY <1>8 DEF MachineInv, Typed, Stores, PlaneInv, Current, Lost,
    DestroyDone, DestroyFails
<1>9. CASE StorageDone
  BY <1>9 DEF MachineInv, Owned, Does, Current, EmptyStore, StorageDone
<1>10. CASE RestoreBegins \/ BackupBegins
  BY <1>10 DEF MachineInv, Typed, Stores, PlaneInv, Current, Authorized,
    RestoreBegins, BackupBegins
<1>11. CASE RestoreCopied
  BY <1>11 DEF PlaneInv, Current, RestoreCopied
<1>12. CASE RestoreDone
  BY <1>12 DEF PlaneInv, Current, RestoreDone
<1>13. CASE BackupDone
  BY <1>13 DEF PlaneInv, Current, BackupDone
<1>14. CASE HomeFails
  BY <1>14 DEF PlaneInv, Current, HomeFails
<1>15. CASE Write \/ ContainerRestarts
  BY <1>15 DEF PlaneInv, Current, Write, ContainerRestarts
<1>16. CASE ContainerExits
  BY <1>16 DEF PlaneInv, Current, ContainerExits
<1>17. CASE ObjectRestarts
  BY <1>17, RestartIs DEF MachineInv, PlaneInv, Current
<1>18. ASSUME NEW g \in Generations, PlaneBegins(g)
      PROVE  Current'
  BY <1>18, MachineAssumption DEF MachineInv, Typed, Containers,
    HomeOperations, Optional, Owned, PlaneInv, Current, PlaneBegins
<1>19. CASE PlaneObserves
  BY <1>19 DEF PlaneInv, Current, PlaneObserves
<1>20. CASE PlaneMisses
  BY <1>20 DEF PlaneInv, Current, Reported, Finishing, Present, PlaneMisses
<1>21. CASE PlaneSettles
  BY <1>21 DEF PlaneInv, Current, PlaneSettles
<1>22. CASE AgentDeleted
  BY <1>22 DEF PlaneInv, Current, AgentDeleted
<1> QED
  BY <1>1, <1>2, <1>3, <1>4, <1>5, <1>6, <1>7, <1>8, <1>9, <1>10, <1>11,
    <1>12, <1>13, <1>14, <1>15, <1>16, <1>17, <1>18, <1>19, <1>20, <1>21,
    <1>22 DEF Next, Create, Delete, Home, Container, Plane

(* The pointer is never older than the committed one.                      *)
LEMMA CommittedKept ==
    ASSUME Observed, MachineInv, PlaneInv, Next
    PROVE  Committed'
<1>1. ASSUME NEW c \in sent, CreateBegins(c)
      PROVE  Committed'
  BY <1>1 DEF MachineInv, Typed, Views, Optional, Records, PlaneInv,
    Committed, Receipts, AtLeast, Admissible, CreateBegins
<1>2. CASE (\E c \in sent : CreateUnknownImage(c)) \/ ContainerStarts \/
  CreateDone \/ CreateFails
  BY <1>2 DEF MachineInv, Typed, Stores, PlaneInv, Committed, CreateEnds,
    CreateUnknownImage, ContainerStarts, CreateDone, CreateFails
<1>3. ASSUME NEW g \in Generations, NEW mode \in {"graceful", "now"}, Remove(g, mode)
      PROVE  Committed'
  BY <1>3 DEF PlaneInv, Committed, Remove
<1>4. CASE AlarmDestroys \/ ExitSeen
  BY <1>4 DEF MachineInv, Typed, Stores, PlaneInv, Committed, AlarmDestroys,
    ExitSeen
<1>5. CASE AlarmIdle \/ StorageBegins
  BY <1>5 DEF MachineInv, Typed, Stores, PlaneInv, Committed, AlarmIdle,
    StorageBegins
<1>6. CASE DestroyDone \/ DestroyFails
  BY <1>6 DEF MachineInv, Typed, Stores, PlaneInv, Committed, DestroyDone,
    DestroyFails
<1>7. CASE StorageDone
  BY <1>7 DEF MachineInv, Owned, Does, Committed, StorageDone
<1>8. CASE RestoreBegins \/ RestoreCopied \/ RestoreDone
  BY <1>8 DEF MachineInv, Typed, Stores, PlaneInv, Committed, RestoreBegins,
    RestoreCopied, RestoreDone
<1>9. CASE BackupBegins \/ HomeFails
  BY <1>9 DEF PlaneInv, Committed, BackupBegins, HomeFails
<1>10. CASE BackupDone
  BY <1>10, MachineAssumption DEF MachineInv, Typed, Stores, HomeOperations,
    Views, Optional, Records, PlaneInv, Committed, Current, Newer, AtLeast,
    BackupDone
<1>11. CASE Write \/ ContainerExits \/ ContainerRestarts
  BY <1>11 DEF PlaneInv, Committed, Write, ContainerExits, ContainerRestarts
<1>12. CASE ObjectRestarts
  BY <1>12, RestartIs DEF MachineInv, PlaneInv, Committed
<1>13. ASSUME NEW g \in Generations, PlaneBegins(g)
      PROVE  Committed'
  BY <1>13 DEF MachineInv, PlaneInv, Committed, SentOnce, PlaneBegins
<1>14. CASE PlaneObserves \/ PlaneMisses
  BY <1>14 DEF MachineInv, Typed, Views, PlaneInv, Committed, PlaneObserves,
    PlaneMisses
<1>15. CASE PlaneSettles
  BY <1>15 DEF Committed, PlaneSettles
<1>16. CASE AgentDeleted
  BY <1>16 DEF PlaneInv, Committed, AgentDeleted
<1> QED
  BY <1>1, <1>2, <1>3, <1>4, <1>5, <1>6, <1>7, <1>8, <1>9, <1>10, <1>11,
    <1>12, <1>13, <1>14, <1>15, <1>16 DEF Next, Create, Delete, Home,
    Container, Plane

(* The record that the pointer names is not removed.                       *)
LEMMA RecordsKept ==
    ASSUME Observed, MachineInv, PlaneInv, Next
    PROVE  RecordKept'
<1>1. ASSUME NEW c \in sent, CreateBegins(c)
      PROVE  RecordKept'
  BY <1>1 DEF MachineInv, PlaneInv, RecordKept, Committed, Receipts,
    Pristine, Admissible, Present, CreateBegins
<1>2. CASE (\E c \in sent : CreateUnknownImage(c)) \/ ContainerStarts \/
  CreateDone \/ CreateFails
  BY <1>2 DEF MachineInv, Typed, Stores, PlaneInv, RecordKept, CreateEnds,
    CreateUnknownImage, ContainerStarts, CreateDone, CreateFails
<1>3. ASSUME NEW g \in Generations, NEW mode \in {"graceful", "now"}, Remove(g, mode)
      PROVE  RecordKept'
  BY <1>3 DEF PlaneInv, RecordKept, Remove
<1>4. CASE AlarmDestroys \/ ExitSeen
  BY <1>4 DEF MachineInv, Typed, Stores, PlaneInv, RecordKept, AlarmDestroys,
    ExitSeen
<1>5. CASE AlarmIdle \/ StorageBegins
  BY <1>5 DEF MachineInv, Typed, Stores, PlaneInv, RecordKept, AlarmIdle,
    StorageBegins
<1>6. CASE DestroyDone \/ DestroyFails
  BY <1>6 DEF MachineInv, Typed, Stores, PlaneInv, RecordKept, DestroyDone,
    DestroyFails
<1>7. CASE StorageDone
  BY <1>7 DEF MachineInv, Owned, Does, RecordKept, StorageDone
<1>8. CASE RestoreBegins \/ RestoreCopied
  BY <1>8 DEF MachineInv, Typed, Stores, PlaneInv, RecordKept, RestoreBegins,
    RestoreCopied
<1>9. CASE RestoreDone
  BY <1>9 DEF MachineInv, PlaneInv, RecordKept, Newer, RestoreDone
<1>10. CASE BackupBegins
  BY <1>10 DEF PlaneInv, RecordKept, BackupBegins
<1>11. CASE BackupDone
  BY <1>11 DEF MachineInv, Owned, RecordKept, BackupDone
<1>12. CASE HomeFails
  BY <1>12 DEF MachineInv, PlaneInv, RecordKept, Newer, HalfDone, HomeFails
<1>13. CASE Write \/ ContainerExits \/ ContainerRestarts
  BY <1>13 DEF PlaneInv, RecordKept, Write, ContainerExits, ContainerRestarts
<1>14. CASE ObjectRestarts
  <2>1. \/ r2' = r2
        \/ home # None /\ home.op = "upload" /\ r2' = r2 \cup {home.rec}
        \/ home # None /\ home.op = "tidy" /\ r2' = r2 \cap {home.rec}
        \/ Does({"storage"})
    BY <1>14, Zenon DEF ObjectRestarts, HalfDone, Does
  <2>2. store'.backup = store.backup /\ plane' = plane
    BY <1>14, RestartIs DEF MachineInv
  <2> QED
    BY <2>1, <2>2 DEF MachineInv, PlaneInv, RecordKept, Newer, Owned
<1>15. ASSUME NEW g \in Generations, PlaneBegins(g)
      PROVE  RecordKept'
  BY <1>15 DEF PlaneInv, RecordKept, PlaneBegins
<1>16. CASE PlaneObserves \/ PlaneMisses
  BY <1>16 DEF MachineInv, Typed, Views, PlaneInv, RecordKept, PlaneObserves,
    PlaneMisses
<1>17. CASE PlaneSettles
  BY <1>17 DEF PlaneInv, RecordKept, PlaneSettles
<1>18. CASE AgentDeleted
  BY <1>18 DEF RecordKept, AgentDeleted
<1> QED
  BY <1>1, <1>2, <1>3, <1>4, <1>5, <1>6, <1>7, <1>8, <1>9, <1>10, <1>11,
    <1>12, <1>13, <1>14, <1>15, <1>16, <1>17, <1>18 DEF Next, Create, Delete,
    Home, Container, Plane

(* With the control plane's view the invariant holds always, too.          *)
THEOREM PlaneInvariant ==
    ASSUME Observed
    PROVE  Spec => []PlaneInv
<1>1. Init => PlaneInv
  BY DEF Init, EmptyStore, PlaneInv, Receipts, Current, Committed, RecordKept,
    AtLeast
<1>2. ASSUME MachineInv, PlaneInv, [Next]_vars
      PROVE  PlaneInv'
  <2>1. CASE Next
    BY <1>2, <2>1, ReceiptsKept, CurrentKept, CommittedKept, RecordsKept
    DEF PlaneInv
  <2>2. CASE UNCHANGED vars
    BY <1>2, <2>2, Stutters
  <2> QED
    BY <1>2, <2>1, <2>2
<1> QED
  BY <1>1, <1>2, Invariant, PTL DEF Spec

(* The record that the pointer names is in R2 until storage is deleted.    *)
THEOREM RecordKeptHolds ==
    ASSUME Observed
    PROVE  Spec => []RecordKept
<1>1. PlaneInv => RecordKept
  BY DEF PlaneInv
<1> QED
  BY <1>1, PlaneInvariant, PTL

(* No container gets a Home that is older than the committed one.          *)
THEOREM HomeNotStaleHolds ==
    ASSUME Observed
    PROVE  Spec => []HomeNotStale
<1>1. ASSUME MachineInv, PlaneInv, cont # None, cont.disk # None
      PROVE  AtLeast(cont.disk, plane.committed)
  <2>1. /\ cont.gen \in Generations /\ cont.disk \in Records
        /\ store.backup \in Records \cup {None}
        /\ plane.committed \in Records \cup {None}
    BY <1>1 DEF MachineInv, Typed, Containers, Stores, Views, Optional
  <2>2. store.contract = plane.gen /\ plane.gen # None
    BY <1>1, <2>1, MachineAssumption DEF MachineInv, Owned, PlaneInv, Current
  <2>3. /\ AtLeast(cont.disk, store.backup)
        /\ AtLeast(store.backup, plane.committed)
    BY <1>1, <2>2 DEF MachineInv, Newer, PlaneInv, Committed
  <2> QED
    BY <2>1, <2>3, MachineAssumption DEF AtLeast, Records
<1>2. MachineInv /\ PlaneInv => HomeNotStale
  BY <1>1 DEF HomeNotStale
<1> QED
  BY <1>2, Invariant, PlaneInvariant, PTL
=============================================================================
