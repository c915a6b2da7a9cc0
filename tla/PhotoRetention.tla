---------------------------- MODULE PhotoRetention ----------------------------
(***************************************************************************)
(* What becomes of the objects of accepted photos.  The drive_sync worker  *)
(* copies directly uploaded photos to the club's Google Drive; the         *)
(* event_lifecycle worker looks for photos whose event ended               *)
(* PHOTO_STORAGE_RETENTION_DAYS_AFTER_EVENT_END ago and publishes a        *)
(* cleanup event for each; the storage_cleaner worker deletes their        *)
(* objects.  The consent of PhotoConsent.tla is one step here: a rejection *)
(* deletes the object, too.                                                *)
(*                                                                         *)
(* Events are delivered until they are acknowledged, also while a worker   *)
(* is still at one; photos of one ended event are modelled.                *)
(***************************************************************************)
EXTENDS Naturals, FiniteSets

CONSTANTS
  Photos,
  Direct,       \* those that were uploaded directly; the others come from Drive
  SyncWorkers,  \* processes that may be handed a drive sync event
  PassLimit,    \* LIMIT of ListPhotosDueForStorageCleanup
  Faults,       \* the kinds of failure that are counted: "broker", "crash"
  MaxFaults     \* how many of them

ASSUME PhotosAssumption == Direct \subseteq Photos
ASSUME LimitAssumption == PassLimit \in Nat \ {0}
ASSUME FaultsAssumption == Faults \subseteq {"broker", "crash"} /\ MaxFaults \in Nat

VARIABLES       \* committed rows of photos and of the event
  status,       \* photos.status, or "none" before the approval commits
  synced,       \* photos with drive_synced_at
  cleaned,      \* photos with storage_cleaned_at
  eventStatus   \* events.status
VARIABLES
  object,       \* photos in the store
  inDrive,      \* photos in Drive
  time,         \* of the event: see EventLifecycle
  refused,      \* photos that have ever been rejected
  syncEvent, cleanEvent,  \* of each photo: "none", "queued" or "acked"
  undeleted,    \* photos a deletion of which has failed
  faultsLeft
VARIABLES       \* of the workers
  sync,         \* of each sync worker: its step and the photo
  pass, todo, marked,     \* step of the cleanup pass, photos to come to, rows updated
  cleaner       \* the photo whose object the cleaner has dealt with, or NoPhoto

rows == <<status, synced, cleaned>>
event == <<time, eventStatus>>
events == <<syncEvent, cleanEvent>>
world == <<object, inDrive, event, refused, undeleted, faultsLeft>>
workers == <<sync, pass, todo, marked, cleaner>>
retentionVars == <<rows, events, world, workers>>

NoPhoto == "no photo"
Lifecycle == INSTANCE EventLifecycle WITH status <- eventStatus
over == time = "over"

Idle == [step |-> "idle", photo |-> NoPhoto]

RetentionInit ==
  /\ status = [p \in Photos |-> "none"]
  /\ synced = {} /\ cleaned = {}
  /\ object = {} /\ refused = {} /\ undeleted = {}
  /\ inDrive = Photos \ Direct
  /\ Lifecycle!Init
  /\ syncEvent = [p \in Photos |-> "none"]
  /\ cleanEvent = [p \in Photos |-> "none"]
  /\ faultsLeft = MaxFaults
  /\ sync = [w \in SyncWorkers |-> Idle]
  /\ pass = "idle" /\ todo = {} /\ marked = {}
  /\ cleaner = NoPhoto

Strike(kind) ==
  /\ kind \in Faults /\ faultsLeft > 0
  /\ faultsLeft' = faultsLeft - 1

(***************************************************************************)
(* Review, consent and time.                                               *)
(***************************************************************************)
\* The reviewer's approval has promoted the object and published the event; its
\* commit comes later, or never.
Promote(p) ==
  /\ status[p] = "none" /\ p \notin object /\ syncEvent[p] = "none"
  /\ object' = object \cup {p}
  /\ syncEvent' = [syncEvent EXCEPT ![p] = IF p \in Direct THEN "queued" ELSE "none"]
  /\ UNCHANGED <<rows, inDrive, event, refused, cleanEvent, undeleted, faultsLeft, workers>>

CommitApproval(p) ==
  /\ status[p] = "none" /\ p \in object
  /\ status' = [status EXCEPT ![p] = "pending"]
  /\ UNCHANGED <<synced, cleaned, events, world, workers>>

Consent(p, verdict) ==
  /\ status[p] # "none"
  /\ status' = [status EXCEPT ![p] = verdict]
  /\ IF verdict = "rejected"
     THEN object' = object \ {p} /\ refused' = refused \cup {p}
     ELSE UNCHANGED <<object, refused>>
  /\ UNCHANGED <<synced, cleaned, events, inDrive, event, undeleted, faultsLeft, workers>>

EventGoesOn ==
  /\ Lifecycle!Next
  /\ UNCHANGED <<rows, events, object, inDrive, refused, undeleted, faultsLeft, workers>>

(***************************************************************************)
(* drive_sync: read the object, upload it, mark the row, acknowledge.      *)
(***************************************************************************)
GotoSync(w, step, p) == sync' = [sync EXCEPT ![w] = [step |-> step, photo |-> p]]

\* A photo that is no longer in the store is not worth a retry.
FetchObject(w, p) ==
  /\ sync[w].step = "idle"
  /\ syncEvent[p] = "queued"
  /\ GotoSync(w, IF p \in object THEN "upload" ELSE "ack", p)
  /\ UNCHANGED <<rows, events, world, pass, todo, marked, cleaner>>

UploadToDrive(w) ==
  /\ sync[w].step = "upload"
  /\ inDrive' = inDrive \cup {sync[w].photo}
  /\ GotoSync(w, "mark", sync[w].photo)
  /\ UNCHANGED <<rows, events, object, event, refused, undeleted, faultsLeft,
                 pass, todo, marked, cleaner>>

\* A row that is not there, or not committed yet, is not marked, which is only logged.
MarkSynced(w) ==
  /\ sync[w].step = "mark"
  /\ synced' = IF status[sync[w].photo] = "none" THEN synced
               ELSE synced \cup {sync[w].photo}
  /\ GotoSync(w, "ack", sync[w].photo)
  /\ UNCHANGED <<status, cleaned, events, world, pass, todo, marked, cleaner>>

AckSync(w) ==
  /\ sync[w].step = "ack"
  /\ syncEvent' = [syncEvent EXCEPT ![sync[w].photo] = "acked"]
  /\ sync' = [sync EXCEPT ![w] = Idle]
  /\ UNCHANGED <<rows, cleanEvent, world, pass, todo, marked, cleaner>>

\* Drive or the store fails and the event comes again, or the worker dies.
SyncFault(w) ==
  /\ sync[w].step # "idle"
  /\ Strike("crash")
  /\ sync' = [sync EXCEPT ![w] = Idle]
  /\ UNCHANGED <<rows, events, object, inDrive, event, refused, undeleted,
                 pass, todo, marked, cleaner>>

(***************************************************************************)
(* event_lifecycle: run_storage_cleanup_pass, one transaction.             *)
(***************************************************************************)
\* Mutant: the query does not ask where the photo came from.
DueFromAnywhere == {p \in Photos : over /\ status[p] = "approved" /\ p \notin cleaned}
Due == {p \in Photos : /\ over /\ status[p] = "approved" /\ p \notin cleaned
                       /\ p \in Direct => p \in synced}

StartPass(S) ==
  /\ pass = "idle"
  /\ S # {} /\ S \subseteq Due
  /\ Cardinality(S) <= PassLimit
  /\ Cardinality(S) < PassLimit => S = Due
  /\ pass' = "publish"
  /\ todo' = S
  /\ UNCHANGED <<rows, events, world, sync, marked, cleaner>>

PublishCleanup(p) ==
  /\ pass = "publish"
  /\ p \in todo
  /\ cleanEvent' = [cleanEvent EXCEPT ![p] = "queued"]
  /\ marked' = marked \cup {p}
  /\ todo' = todo \ {p}
  /\ UNCHANGED <<rows, syncEvent, world, sync, pass, cleaner>>

\* Mutant: the row is marked all the same.
MarkedAnyhow(p) == marked \cup {p}
MarkedAfterFault(p) == marked

\* The event is not accepted: the photo is left to the next pass.
PublishFault(p) ==
  /\ pass = "publish"
  /\ p \in todo
  /\ Strike("broker")
  /\ marked' = MarkedAfterFault(p)
  /\ todo' = todo \ {p}
  /\ UNCHANGED <<rows, events, object, inDrive, event, refused, undeleted, sync, pass, cleaner>>

\* Mutant: the marks name the photos, not their rows.
MarkByKey == {<<"row", p>> : p \in marked}
Marks == marked

CommitPass ==
  /\ pass = "publish"
  /\ todo = {}
  /\ cleaned' = cleaned \cup Marks
  /\ pass' = "idle"
  /\ marked' = {}
  /\ UNCHANGED <<status, synced, events, world, sync, todo, cleaner>>

PassFault ==
  /\ pass = "publish"
  /\ Strike("crash")
  /\ pass' = "idle" /\ todo' = {} /\ marked' = {}
  /\ UNCHANGED <<rows, events, object, inDrive, event, refused, undeleted, sync, cleaner>>

(***************************************************************************)
(* storage_cleaner: delete the object, acknowledge.                        *)
(***************************************************************************)
DeleteObject(p) ==
  /\ cleaner = NoPhoto
  /\ cleanEvent[p] = "queued"
  /\ object' = object \ {p}
  /\ cleaner' = p
  /\ UNCHANGED <<rows, events, inDrive, event, refused, undeleted, faultsLeft,
                 sync, pass, todo, marked>>

\* Whatever the client raises, and that it is not connected, delete_storage_key raises
\* as an HTTPException, which the cleaner takes for a reason to go on: the event is
\* acknowledged.  The worker's main never calls init_minio_client, so that as the
\* program stands this is the outcome of every event; DeleteObject is that of a
\* process whose client is connected.  Nothing here assumes one or the other.
DeletionFails(p) ==
  /\ cleaner = NoPhoto
  /\ cleanEvent[p] = "queued"
  /\ undeleted' = undeleted \cup {p}
  /\ cleaner' = p
  /\ UNCHANGED <<rows, events, object, inDrive, event, refused, faultsLeft,
                 sync, pass, todo, marked>>

AckCleanup ==
  /\ cleaner # NoPhoto
  /\ cleanEvent' = [cleanEvent EXCEPT ![cleaner] = "acked"]
  /\ cleaner' = NoPhoto
  /\ UNCHANGED <<rows, syncEvent, world, sync, pass, todo, marked>>

CleanerFault ==
  /\ cleaner # NoPhoto
  /\ Strike("crash")
  /\ cleaner' = NoPhoto
  /\ UNCHANGED <<rows, events, object, inDrive, event, refused, undeleted,
                 sync, pass, todo, marked>>

Sync(w) ==
  (\E p \in Photos : FetchObject(w, p)) \/ UploadToDrive(w) \/ MarkSynced(w) \/ AckSync(w)
Pass ==
  \/ \E S \in SUBSET Photos : StartPass(S)
  \/ \E p \in Photos : PublishCleanup(p)
  \/ CommitPass
Clean == (\E p \in Photos : DeleteObject(p) \/ DeletionFails(p)) \/ AckCleanup

RetentionNext ==
  \/ \E p \in Photos :
       \/ Promote(p)
       \/ CommitApproval(p)
       \/ \E verdict \in {"approved", "rejected"} : Consent(p, verdict)
       \/ PublishFault(p)
  \/ EventGoesOn
  \/ \E w \in SyncWorkers : Sync(w) \/ SyncFault(w)
  \/ Pass
  \/ PassFault
  \/ Clean
  \/ CleanerFault

RetentionSpec == RetentionInit /\ [][RetentionNext]_retentionVars

\* event_lifecycle polls for ever and JetStream goes on delivering events.
LifecycleRuns ==
  /\ Lifecycle!LifecyclePass
  /\ UNCHANGED <<rows, events, object, inDrive, refused, undeleted, faultsLeft, workers>>
Fairness == SF_retentionVars(Pass) /\ SF_retentionVars(Clean) /\ WF_retentionVars(LifecycleRuns)

RetentionFairSpec == RetentionSpec /\ Fairness

-----------------------------------------------------------------------------
EventStates == {"none", "queued", "acked"}

RetentionTypeOK ==
  /\ status \in [Photos -> {"none", "pending", "approved", "rejected"}]
  /\ synced \subseteq Photos /\ cleaned \subseteq Photos
  /\ object \subseteq Photos /\ inDrive \subseteq Photos
  /\ time \in {"planned", "started", "ended", "over"}
  /\ eventStatus \in Lifecycle!Statuses
  /\ refused \subseteq Photos /\ undeleted \subseteq Photos
  /\ syncEvent \in [Photos -> EventStates]
  /\ cleanEvent \in [Photos -> EventStates]
  /\ faultsLeft \in 0..MaxFaults
  /\ sync \in [SyncWorkers -> [step : {"idle", "upload", "mark", "ack"},
                               photo : Photos \cup {NoPhoto}]]
  /\ pass \in {"idle", "publish"}
  /\ todo \subseteq Photos /\ marked \subseteq Photos
  /\ cleaner \in Photos \cup {NoPhoto}

\* The store gives up a photo nobody rejected only when Drive has it, however often
\* events are delivered and whichever process dies between two steps.
LastCopyKept ==
  \A p \in Photos : status[p] # "none" /\ p \notin object \cup refused => p \in inDrive

\* A photo whose time has come is in the end marked and its cleanup event acknowledged,
\* unless a user takes the approval back: passes that die, events the broker does not
\* accept and deliveries that are lost are made up for.  That the object is then gone is
\* not promised: a deletion that fails is acknowledged, too.
DueIsScheduled ==
  \A p \in Photos :
    p \in Due ~> (p \in cleaned /\ cleanEvent[p] = "acked") \/ status[p] # "approved"

\* An event that has ended is archived in the end, even if staff go on moving it back
\* to draft: the pass that activates such an event archives it, too.
EndedIsArchived == Lifecycle!Reached("ended") ~> eventStatus = "archived"

=============================================================================
