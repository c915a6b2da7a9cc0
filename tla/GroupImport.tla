----------------------------- MODULE GroupImport -----------------------------
(***************************************************************************)
(* The import of a Google Drive folder as a group of upload requests:      *)
(* create_group_from_folder publishes an event, and upload_group_worker    *)
(* runs process_group_import for it, in one transaction per delivery.  The *)
(* event is published before the group is committed; JetStream delivers it *)
(* again until it is acknowledged, also while a worker is still at it.     *)
(*                                                                         *)
(* The states "running" and the progress counters are never committed      *)
(* before the end and are left out, and so are the events about created    *)
(* requests, which nothing in the repository consumes.                     *)
(***************************************************************************)
EXTENDS Naturals, FiniteSets

CONSTANTS
  Workers,      \* processes that may be handed the event
  Images,       \* supported images in the folder
  BatchOf,      \* [Images -> 1..BatchCount]: how they are chunked
  BatchCount,
  Faults,       \* the kinds of failure that happen
  MaxFaults     \* how many of them, not counting refusals of the store

FaultKinds == {"drive", "integrity", "database", "crash", "broker", "store"}

ASSUME BatchesAssumption ==
  BatchCount \in Nat \ {0} /\ BatchOf \in [Images -> 1..BatchCount]
ASSUME FaultsAssumption == Faults \subseteq FaultKinds /\ MaxFaults \in Nat

VARIABLES
  creator,      \* the next step of create_group_from_folder
  group,        \* committed processing_status of the group, or "none"
  requests,     \* <<worker, batch>>: committed upload_requests rows
  rows,         \* <<worker, photo>>: committed upload_request_photos rows
  staging,      \* <<worker, photo>>: staged objects
  refused,      \* <<worker, photo>>: objects that the store has refused to delete
  message,      \* the import event: "none", "queued" or "acked"
  faultsLeft,
  struck        \* the kinds of failure that have happened

VARIABLES       \* of each delivery and its transaction
  step,
  batch,        \* the batch it imports, 0 before the first
  remaining,    \* photos of the batch it has to come to
  newRequests,  \* batches it inserted a request for
  newRows,      \* photos it inserted a row for
  outcome,      \* the status it gave the group, or "none"
  aborted       \* whether PostgreSQL has aborted the transaction

tables == <<group, requests, rows>>
delivery == <<batch, remaining, newRequests, newRows, outcome, aborted>>
luck == <<faultsLeft, struck>>
objects == <<staging, refused>>
importVars == <<creator, tables, objects, message, luck, step, delivery>>

Finished == {"completed", "failed"}
PhotosOf(b) == {p \in Images : BatchOf[p] = b}

ImportInit ==
  /\ creator = "insert"
  /\ group = "none"
  /\ requests = {}
  /\ rows = {}
  /\ staging = {}
  /\ refused = {}
  /\ message = "none"
  /\ faultsLeft = MaxFaults
  /\ struck = {}
  /\ step = [w \in Workers |-> "idle"]
  /\ batch = [w \in Workers |-> 0]
  /\ remaining = [w \in Workers |-> {}]
  /\ newRequests = [w \in Workers |-> {}]
  /\ newRows = [w \in Workers |-> {}]
  /\ outcome = [w \in Workers |-> "none"]
  /\ aborted = [w \in Workers |-> FALSE]

GotoStep(w, label) == step' = [step EXCEPT ![w] = label]

Strike(kind) ==
  /\ kind \in Faults /\ faultsLeft > 0
  /\ faultsLeft' = faultsLeft - 1
  /\ struck' = struck \cup {kind}

(***************************************************************************)
(* create_group_from_folder.                                               *)
(***************************************************************************)
PublishImport ==
  /\ creator = "insert"
  /\ \/ message' = "queued" /\ UNCHANGED luck
     \/ Strike("broker") /\ UNCHANGED message
  /\ creator' = "commit"
  /\ UNCHANGED <<tables, objects, step, delivery>>

CommitGroup ==
  /\ creator = "commit"
  /\ \/ group' = "pending" /\ UNCHANGED luck
     \/ Strike("crash") /\ UNCHANGED group
  /\ creator' = "done"
  /\ UNCHANGED <<requests, rows, objects, message, step, delivery>>

(***************************************************************************)
(* A delivery of the event.                                                *)
(***************************************************************************)
Deliver(w) ==
  /\ message = "queued"
  /\ step[w] = "idle"
  /\ GotoStep(w, "start")
  /\ UNCHANGED <<creator, tables, objects, message, luck, delivery>>

\* The worker that has updated, hence locks, the row of the group.
Holds(w) == step[w] \notin {"idle", "start", "ack"} /\ ~aborted[w]

\* Mutant: the UPDATE has lost its condition on processing_status.
Exists == group # "none"
\* The WHERE processing_status = 'pending' of StartUploadRequestGroupProcessing.
Startable == group = "pending"

\* The UPDATE waits for the row lock.  A group that is not there, or is finished,
\* is none of this delivery's business: it is acknowledged.
StartImport(w) ==
  /\ step[w] = "start"
  /\ \A o \in Workers : ~Holds(o)
  /\ GotoStep(w, IF Startable THEN "list" ELSE "ack")
  /\ UNCHANGED <<creator, tables, objects, message, luck, delivery>>

\* Every page of the listing is read, so it is the whole folder: the images, or none
\* any more.
Listings == {Images, {}}

\* An import of nothing fails.
ListFolder(w) ==
  /\ step[w] = "list"
  /\ \E files \in Listings :
       IF files = {}
       THEN /\ outcome' = [outcome EXCEPT ![w] = "failed"]
            /\ GotoStep(w, "commit")
            /\ UNCHANGED batch
       ELSE /\ batch' = [batch EXCEPT ![w] = 1]
            /\ GotoStep(w, "request")
            /\ UNCHANGED outcome
  /\ UNCHANGED <<creator, tables, objects, message, luck, remaining, newRequests, newRows,
                 aborted>>

InsertRequest(w) ==
  /\ step[w] = "request"
  /\ newRequests' = [newRequests EXCEPT ![w] = @ \cup {batch[w]}]
  /\ remaining' = [remaining EXCEPT ![w] = PhotosOf(batch[w])]
  /\ GotoStep(w, "stage")
  /\ UNCHANGED <<creator, tables, objects, message, luck, batch, newRows, outcome, aborted>>

\* The photo is downloaded and put in the store.
StagePhoto(w, p) ==
  /\ step[w] = "stage"
  /\ p \in remaining[w]
  /\ staging' = staging \cup {<<w, p>>}
  /\ remaining' = [remaining EXCEPT ![w] = @ \ {p}]
  /\ GotoStep(w, "insert")
  /\ UNCHANGED <<creator, tables, refused, message, luck, batch, newRequests, newRows, outcome,
                 aborted>>

\* The photo put in the store that has no row yet.
Loose(w) == PhotosOf(batch[w]) \ (remaining[w] \cup newRows[w])

InsertPhoto(w) ==
  /\ step[w] = "insert"
  /\ newRows' = [newRows EXCEPT ![w] = @ \cup Loose(w)]
  /\ GotoStep(w, IF remaining[w] # {} THEN "stage"
                 ELSE IF batch[w] < BatchCount THEN "next" ELSE "complete")
  /\ UNCHANGED <<creator, tables, objects, message, luck, batch, remaining, newRequests, outcome, aborted>>

NextBatch(w) ==
  /\ step[w] = "next"
  /\ batch' = [batch EXCEPT ![w] = @ + 1]
  /\ GotoStep(w, "request")
  /\ UNCHANGED <<creator, tables, objects, message, luck, remaining, newRequests, newRows, outcome, aborted>>

\* That the events about the requests and the group fail to be published is only logged.
Complete(w) ==
  /\ step[w] = "complete"
  /\ outcome' = [outcome EXCEPT ![w] = "completed"]
  /\ GotoStep(w, "commit")
  /\ UNCHANGED <<creator, tables, objects, message, luck, batch, remaining, newRequests, newRows,
                 aborted>>

(***************************************************************************)
(* Failures.                                                               *)
(***************************************************************************)
\* Drive refuses the token, the listing or a download, the image is not valid, or the
\* store does not take it.
DriveFault(w) ==
  /\ step[w] \in {"list", "stage"}
  /\ Strike("drive")
  /\ GotoStep(w, "discard")
  /\ UNCHANGED <<creator, tables, objects, message, delivery>>

Refusals(S) == IF "store" \in Faults THEN SUBSET S ELSE {{}}

\* The objects of S are deleted one by one; that the store refuses is only logged.  It
\* keeps for ever what it has refused, as another delivery has keys of its own.
DeleteObjects(w, S) ==
  \E kept \in Refusals(S) :
    /\ refused' = refused \cup ({w} \X kept)
    /\ staging' = staging \ (({w} \X S) \ refused')

\* The INSERT of a photo violates a constraint: its object is deleted.
IntegrityFault(w) ==
  /\ step[w] = "insert"
  /\ Strike("integrity")
  /\ DeleteObjects(w, Loose(w))
  /\ aborted' = [aborted EXCEPT ![w] = TRUE]
  /\ GotoStep(w, "discard")
  /\ UNCHANGED <<creator, tables, message, batch, remaining, newRequests, newRows, outcome>>

\* Any other error of the database: the object just stored is forgotten.
DatabaseFault(w) ==
  /\ step[w] \in {"list", "request", "insert", "next", "complete"}
  /\ Strike("database")
  /\ aborted' = [aborted EXCEPT ![w] = TRUE]
  /\ GotoStep(w, "discard")
  /\ UNCHANGED <<creator, tables, objects, message, batch, remaining, newRequests, newRows, outcome>>

\* Mutant: only the photos of the batch that failed are cleaned up.
CleanBatch(w) == newRows[w] \cap PhotosOf(batch[w])
ToClean(w) == newRows[w]

\* Mutant: the requests of the batches before are kept.
KeepsAll(w) == newRequests[w]
Keeps(w) == newRequests[w] \cap {batch[w]}

\* The exception handlers delete the staged objects, then the requests of the
\* batches before, with their photos, and mark the group failed; in an aborted
\* transaction the last of these raises again.
Discard(w) ==
  /\ step[w] = "discard"
  /\ DeleteObjects(w, ToClean(w))
  /\ IF aborted[w]
     THEN GotoStep(w, "nak") /\ UNCHANGED <<newRequests, newRows, outcome>>
     ELSE /\ newRequests' = [newRequests EXCEPT ![w] = Keeps(w)]
          /\ newRows' = [newRows EXCEPT ![w] =
                            {p \in @ : BatchOf[p] \in Keeps(w)}]
          /\ outcome' = [outcome EXCEPT ![w] = "failed"]
          /\ GotoStep(w, "commit")
  /\ UNCHANGED <<creator, tables, message, luck, batch, remaining, aborted>>

(***************************************************************************)
(* The end of a delivery.                                                  *)
(***************************************************************************)
EndDelivery(w) ==
  /\ batch' = [batch EXCEPT ![w] = 0]
  /\ remaining' = [remaining EXCEPT ![w] = {}]
  /\ newRequests' = [newRequests EXCEPT ![w] = {}]
  /\ newRows' = [newRows EXCEPT ![w] = {}]
  /\ outcome' = [outcome EXCEPT ![w] = "none"]
  /\ aborted' = [aborted EXCEPT ![w] = FALSE]

\* Mutant: a failed import is recorded under another name.
OutcomeError(w) == IF outcome[w] = "failed" THEN "error" ELSE outcome[w]
Outcome(w) == outcome[w]

CommitImport(w) ==
  /\ step[w] = "commit"
  /\ group' = Outcome(w)
  /\ requests' = requests \cup ({w} \X newRequests[w])
  /\ rows' = rows \cup ({w} \X newRows[w])
  /\ EndDelivery(w)
  /\ GotoStep(w, "ack")
  /\ UNCHANGED <<creator, objects, message, luck>>

\* Mutant: the event counts as handled, though the handler has raised.
AckedAnyhow == "acked"
AfterNak == message

Ack(w) ==
  /\ step[w] = "ack"
  /\ message' = "acked"
  /\ GotoStep(w, "idle")
  /\ UNCHANGED <<creator, tables, objects, luck, delivery>>

\* The exception rolls the transaction back and the event will come again.
Nak(w) ==
  /\ step[w] = "nak"
  /\ message' = AfterNak
  /\ EndDelivery(w)
  /\ GotoStep(w, "idle")
  /\ UNCHANGED <<creator, tables, objects, luck>>

\* The process dies or the COMMIT fails.
Crash(w) ==
  /\ step[w] # "idle"
  /\ Strike("crash")
  /\ EndDelivery(w)
  /\ GotoStep(w, "idle")
  /\ UNCHANGED <<creator, tables, objects, message>>

Work(w) ==
  \/ StartImport(w) \/ ListFolder(w) \/ InsertRequest(w)
  \/ \E p \in Images : StagePhoto(w, p)
  \/ InsertPhoto(w) \/ NextBatch(w) \/ Complete(w)
  \/ Discard(w) \/ CommitImport(w) \/ Ack(w) \/ Nak(w)

Fault(w) ==
  DriveFault(w) \/ IntegrityFault(w) \/ DatabaseFault(w) \/ Crash(w)

ImportNext ==
  \/ PublishImport
  \/ CommitGroup
  \/ \E w \in Workers : Deliver(w) \/ Work(w) \/ Fault(w)

ImportSpec == ImportInit /\ [][ImportNext]_importVars

\* Workers go on with a delivery, PostgreSQL serves the waiters of a row, and
\* JetStream delivers the event to somebody as long as it is not acknowledged.
ImportFairness ==
  /\ WF_importVars(CommitGroup)
  /\ \A w \in Workers : SF_importVars(Work(w)) /\ SF_importVars(Deliver(w))

ImportFairSpec == ImportSpec /\ ImportFairness

-----------------------------------------------------------------------------
Steps == {"idle", "start", "list", "request", "stage", "insert", "next", "complete",
           "discard", "commit", "ack", "nak"}

ImportTypeOK ==
  /\ creator \in {"insert", "commit", "done"}
  /\ group \in {"none", "pending"} \cup Finished
  /\ requests \subseteq Workers \X (1..BatchCount)
  /\ rows \subseteq Workers \X Images
  /\ staging \subseteq Workers \X Images
  /\ refused \subseteq Workers \X Images
  /\ message \in {"none", "queued", "acked"}
  /\ faultsLeft \in 0..MaxFaults
  /\ struck \subseteq Faults
  /\ step \in [Workers -> Steps]
  /\ batch \in [Workers -> 0..BatchCount]
  /\ remaining \in [Workers -> SUBSET Images]
  /\ newRequests \in [Workers -> SUBSET (1..BatchCount)]
  /\ newRows \in [Workers -> SUBSET Images]
  /\ outcome \in [Workers -> Finished \cup {"none"}]
  /\ aborted \in [Workers -> BOOLEAN]

\* A completed import has one request for each batch and one row for each photo,
\* with its object in the store, however often the event was delivered and
\* whatever earlier deliveries died of.
CompletedIsWhole ==
  group = "completed" =>
    \E w \in Workers :
      /\ requests = {w} \X (1..BatchCount)
      /\ rows = {w} \X Images
      /\ rows \subseteq staging

\* A failed import deletes the requests of its complete batches and leaves behind at
\* most the request of the batch that failed, whose objects are gone, but for those
\* that the store has refused to delete.
FailedLeavesOneRequest ==
  group = "failed" => Cardinality(requests) <= 1 /\ rows \cap staging \subseteq refused

\* Unless a process has died or the database failed in an unexpected way, no staged
\* object is left that no row leads to and that the store has not refused to delete.
NoOrphanedObjects ==
  /\ struck \cap {"crash", "database"} = {}
  /\ \A w \in Workers : step[w] = "idle"
  => staging \subseteq rows \cup refused

\* What an import that fails leaves behind, in the database and in the store.
FailureCleansUp == FailedLeavesOneRequest /\ NoOrphanedObjects

\* Once the group is committed and no delivery has come too early for it, which
\* would find no group and be acknowledged, it is imported or marked failed.
TooEarly == \E w \in Workers : step[w] = "ack"
ImportEnds ==
  group = "pending" /\ message = "queued" /\ ~TooEarly ~> group \in Finished
=============================================================================
