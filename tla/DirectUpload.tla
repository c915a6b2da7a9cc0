----------------------------- MODULE DirectUpload -----------------------------
(***************************************************************************)
(* Photos that clients upload directly to the object store:                *)
(* register_direct_batch, confirm_direct_upload, fail_direct_upload and    *)
(* resume_direct_group of UploadRequestsService, the client's PUT through  *)
(* a presigned URL, and the upload_reconciler worker.  The uploads of one  *)
(* group are modelled, with AUTO_APPROVE off (AutoApprove.tla has it on).  *)
(*                                                                         *)
(* Every call and every pass of the reconciler is one READ COMMITTED       *)
(* transaction: its UPDATEs lock rows, look at the committed status once   *)
(* they have the lock, and show when it commits.                           *)
(***************************************************************************)
EXTENDS Integers, FiniteSets

CONSTANTS
  Calls,        \* HTTP calls; each is made at most once
  Reconciler,   \* the worker's process
  Photos,
  PassLimit,    \* LIMIT of ListStalePendingTransferPhotos
  Connected,    \* actors whose process has called init_minio_client
  Unreachable   \* actors whom the store may fail to answer

ASSUME CallsAssumption == Reconciler \notin Calls
ASSUME PhotosAssumption == IsFiniteSet(Photos)
ASSUME LimitAssumption == PassLimit \in Nat \ {0}

Actors == Calls \cup {Reconciler}

ASSUME StoreAssumption == Calls \subseteq Connected /\ Unreachable \subseteq Actors

\* The staging key of a photo holds a random id when it is registered and the
\* id of its row when it is resumed; the row names the first.
Keys == {"registered", "resumed"}
RowKey == "registered"

VARIABLES
  transfer,     \* committed transfer_status, or "absent"
  review,       \* committed upload_request_photos.status
  total,        \* committed total_photo_count of the group
  stale,        \* photos registered DIRECT_UPLOAD_STALE_PENDING_MINUTES ago
  urls,         \* <<photo, key>>: live presigned PUT URLs of clients
  stored        \* <<photo, key>>: objects in the store

VARIABLES       \* of the reviews (UploadReview.tla)
  deciding,     \* of each photo: the verdict of the review that has locked its row
  swept,        \* photos under review whose object has been asked to be deleted
  unstaged      \* photos whose object some review has deleted, committed or not

VARIABLES       \* of each actor and its transaction
  pc,
  todo,         \* photos it has to come to
  found,        \* photos whose object it has seen
  writes        \* photos it has updated, hence locks, to what status

db == <<transfer, review, total>>
store == <<urls, stored>>
reviewing == <<deciding, swept, unstaged>>
tx == <<todo, found, writes>>
vars == <<db, stale, store, reviewing, pc, tx>>

Open == {"pending_upload", "failed"}
NoWrite == "none"
NoVerdict == "none"
Holders(p) == {a \in Actors : writes[a][p] # NoWrite}
\* Nobody but a, and no review, has the row of p.
Available(p, a) == Holders(p) \subseteq {a} /\ deciding[p] = NoVerdict

Init ==
  /\ transfer = [p \in Photos |-> "absent"]
  /\ review = [p \in Photos |-> "staged"]
  /\ total = 0
  /\ stale = {}
  /\ urls = {}
  /\ stored = {}
  /\ deciding = [p \in Photos |-> NoVerdict]
  /\ swept = {}
  /\ unstaged = {}
  /\ pc = [a \in Actors |-> "idle"]
  /\ todo = [a \in Actors |-> {}]
  /\ found = [a \in Actors |-> {}]
  /\ writes = [a \in Actors |-> [p \in Photos |-> NoWrite]]

Goto(a, label) == pc' = [pc EXCEPT ![a] = label]

\* The transaction ends; a call is over, the reconciler sleeps until its next pass.
EndTx(a, answer) ==
  /\ Goto(a, IF a = Reconciler THEN "idle" ELSE answer)
  /\ todo' = [todo EXCEPT ![a] = {}]
  /\ found' = [found EXCEPT ![a] = {}]
  /\ writes' = [writes EXCEPT ![a] = [p \in Photos |-> NoWrite]]

Rollback(a, answer) == EndTx(a, answer) /\ UNCHANGED <<db, stale, store, reviewing>>

(***************************************************************************)
(* register_direct_batch: insert the rows, then count them in the group.   *)
(***************************************************************************)
Register(c, S) ==
  /\ pc[c] = "idle"
  /\ S # {}
  /\ \A p \in S : transfer[p] = "absent" /\ \A o \in Actors : p \notin todo[o]
  /\ todo' = [todo EXCEPT ![c] = S]
  /\ Goto(c, "count")
  /\ UNCHANGED <<db, stale, store, reviewing, found, writes>>

\* The increment locks the row of the group, which serializes registrations
\* from here to their commit, so both are one step.
CountAndCommit(c) ==
  /\ pc[c] = "count"
  /\ total' = total + Cardinality(todo[c])
  /\ transfer' = [p \in Photos |-> IF p \in todo[c] THEN "pending_upload"
                                   ELSE transfer[p]]
  /\ urls' = urls \cup (todo[c] \X {RowKey})
  /\ EndTx(c, "done")
  /\ UNCHANGED <<review, stale, stored, reviewing>>

(***************************************************************************)
(* The client and time.                                                    *)
(***************************************************************************)
Put(p, k) ==
  /\ <<p, k>> \in urls
  /\ stored' = stored \cup {<<p, k>>}
  /\ UNCHANGED <<db, stale, urls, reviewing, pc, tx>>

Expire(p, k) ==
  /\ <<p, k>> \in urls
  /\ urls' = urls \ {<<p, k>>}
  /\ UNCHANGED <<db, stale, stored, reviewing, pc, tx>>

GrowStale(p) ==
  /\ transfer[p] # "absent"
  /\ p \notin stale
  /\ stale' = stale \cup {p}
  /\ UNCHANGED <<db, store, reviewing, pc, tx>>

(***************************************************************************)
(* confirm_direct_upload and fail_direct_upload.                           *)
(***************************************************************************)
Confirm(c, p) ==
  /\ pc[c] = "idle"
  /\ transfer[p] # "absent"
  /\ todo' = [todo EXCEPT ![c] = {p}]
  /\ Goto(c, "stat")
  /\ UNCHANGED <<db, stale, store, reviewing, found, writes>>

\* Mutant: an object under any key of the photo will do.
StoredAnywhere(p) == \E k \in Keys : <<p, k>> \in stored
StoredForRow(p) == <<p, RowKey>> \in stored

Stat(a, p) ==
  /\ pc[a] = "stat"
  /\ a \in Connected
  /\ p \in todo[a]
  /\ found' = [found EXCEPT ![a] = IF StoredForRow(p) THEN @ \cup {p} ELSE @ \ {p}]
  /\ Goto(a, "write")
  /\ UNCHANGED <<db, stale, store, reviewing, todo, writes>>

\* The store does not answer, or Bucket has no client in this process: the
\* exception rolls back whatever the transaction has done.
StatRaises(a) ==
  /\ pc[a] = "stat"
  /\ a \in Unreachable \/ a \notin Connected
  /\ Rollback(a, "refused")

\* Mutant: the UPDATE has lost its condition on the status.
AnyTransfer(p) == TRUE
\* The WHERE transfer_status IN ('pending_upload', 'failed') of the UPDATEs.
StillOpen(p) == transfer[p] \in Open

\* One UPDATE of the transfer status of p, which waits for the row lock.
Update(a, p, status) ==
  /\ Available(p, a)
  /\ StillOpen(p)
  /\ writes' = [writes EXCEPT ![a][p] = status]

ConfirmFound(c, p) ==
  /\ pc[c] = "write"
  /\ p \in todo[c] \cap found[c]
  /\ Update(c, p, "uploaded")
  /\ Goto(c, "commit")
  /\ UNCHANGED <<db, stale, store, reviewing, todo, found>>

\* The object is missing: the row is marked failed, and the exception that
\* tells the client so rolls the mark back.
ConfirmMissing(c, p) ==
  /\ pc[c] = "write"
  /\ p \in todo[c] \ found[c]
  /\ Available(p, c)
  /\ StillOpen(p)
  /\ Rollback(c, "missing")

Fail(c, p) ==
  /\ pc[c] = "idle"
  /\ transfer[p] # "absent"
  /\ todo' = [todo EXCEPT ![c] = {p}]
  /\ Goto(c, "fail")
  /\ UNCHANGED <<db, stale, store, reviewing, found, writes>>

MarkFailed(c, p) ==
  /\ pc[c] = "fail"
  /\ p \in todo[c]
  /\ Update(c, p, "failed")
  /\ Goto(c, "commit")
  /\ UNCHANGED <<db, stale, store, reviewing, todo, found>>

\* The transfer is already complete: neither a confirmation nor a failure
\* updates a row, and both raise.
AlreadyUploaded(c, p) ==
  /\ pc[c] \in {"write", "fail"}
  /\ c # Reconciler
  /\ p \in todo[c]
  /\ ~StillOpen(p)
  /\ Rollback(c, "refused")

(***************************************************************************)
(* resume_direct_group: new URLs for what has not arrived.                 *)
(***************************************************************************)
Resume(c) ==
  /\ pc[c] = "idle"
  /\ \E p \in Photos : transfer[p] \in Open
  /\ todo' = [todo EXCEPT ![c] = {p \in Photos : transfer[p] \in Open}]
  /\ Goto(c, "reset")
  /\ UNCHANGED <<db, stale, store, reviewing, found, writes>>

\* Mutant: the UPDATE writes another name of the status.
ResetToPending == "pending"
ResetStatus == "pending_upload"

Reset(c, p) ==
  /\ pc[c] = "reset"
  /\ p \in todo[c]
  /\ IF StillOpen(p) THEN Update(c, p, ResetStatus)
     ELSE UNCHANGED writes
  /\ todo' = [todo EXCEPT ![c] = @ \ {p}]
  /\ Goto(c, IF todo[c] = {p} THEN "commit" ELSE "reset")
  /\ UNCHANGED <<db, stale, store, reviewing, found>>

(***************************************************************************)
(* A pass of the reconciler over the stalest pending photos.               *)
(***************************************************************************)
StartPass(S) ==
  /\ pc[Reconciler] = "idle"
  /\ S # {}
  /\ Cardinality(S) <= PassLimit
  /\ S \subseteq {p \in stale : transfer[p] = "pending_upload"}
  /\ Cardinality(S) < PassLimit =>
       S = {p \in stale : transfer[p] = "pending_upload"}
  /\ todo' = [todo EXCEPT ![Reconciler] = S]
  /\ Goto(Reconciler, "stat")
  /\ UNCHANGED <<db, stale, store, reviewing, found, writes>>

\* One photo: a row that is no longer open is passed over.
Reconcile(p) ==
  /\ pc[Reconciler] = "write"
  /\ p \in todo[Reconciler]
  /\ IF StillOpen(p)
     THEN Update(Reconciler, p,
                 IF p \in found[Reconciler] THEN "uploaded" ELSE "failed")
     ELSE UNCHANGED writes
  /\ todo' = [todo EXCEPT ![Reconciler] = @ \ {p}]
  /\ Goto(Reconciler, IF todo[Reconciler] = {p} THEN "commit" ELSE "stat")
  /\ UNCHANGED <<db, stale, store, reviewing, found>>

(***************************************************************************)
(* The end of a transaction.                                               *)
(***************************************************************************)
\* A resume hands out the URLs of the rows it has reset.
Commit(a) ==
  /\ pc[a] = "commit"
  /\ transfer' = [p \in Photos |-> IF writes[a][p] # NoWrite THEN writes[a][p]
                                   ELSE transfer[p]]
  /\ urls' = urls \cup
       {<<p, "resumed">> : p \in {q \in Photos : writes[a][q] = ResetStatus}}
  /\ EndTx(a, "done")
  /\ UNCHANGED <<review, total, stale, stored, reviewing>>

\* Photos that the next UPDATE of a may lock, and whom it waits for.
Wanted(a) == IF pc[a] \in {"write", "fail", "reset"} THEN todo[a] ELSE {}
WaitsFor(a) == {o \in Actors \ {a} : \E p \in Wanted(a) : o \in Holders(p)}

\* A resume and a pass lock several rows each, in an order that ties in
\* created_at leave open, and so does the review of a request; PostgreSQL aborts
\* one of two that wait for each other.
DeadlockVictim(a) ==
  /\ \/ \E o \in WaitsFor(a) : a \in WaitsFor(o)
     \/ /\ \E p \in Wanted(a) : deciding[p] # NoVerdict
        /\ \E q \in Photos : writes[a][q] # NoWrite
  /\ Rollback(a, "refused")

(***************************************************************************)
(* What a review (UploadReview.tla has its own steps) does to a photo: it  *)
(* locks the row, an approval only of an uploaded photo; then deletes the  *)
(* object that the row names; and only then commits.                       *)
(***************************************************************************)
Decide(p, verdict) ==
  /\ transfer[p] # "absent"
  /\ review[p] = "staged"
  /\ Holders(p) = {} /\ deciding[p] = NoVerdict
  /\ verdict = "approved" => transfer[p] = "uploaded"
  /\ deciding' = [deciding EXCEPT ![p] = verdict]
  /\ UNCHANGED <<db, stale, store, swept, unstaged, pc, tx>>

\* The deletion is best effort: the store may refuse it.
Unstage(p) ==
  /\ deciding[p] # NoVerdict
  /\ p \notin swept
  /\ swept' = swept \cup {p}
  /\ \/ stored' = stored \ {<<p, RowKey>>} /\ unstaged' = unstaged \cup {p}
     \/ UNCHANGED <<stored, unstaged>>
  /\ UNCHANGED <<db, stale, urls, deciding, pc, tx>>

EndReview(p) ==
  /\ deciding[p] # NoVerdict
  /\ deciding' = [deciding EXCEPT ![p] = NoVerdict]
  /\ swept' = swept \ {p}
  /\ UNCHANGED <<transfer, total, stale, store, unstaged, pc, tx>>

CommitReview(p) ==
  /\ p \in swept
  /\ review' = [review EXCEPT ![p] = deciding[p]]
  /\ EndReview(p)

\* A failing copy, notification, event, audit or COMMIT, or a crash, takes the
\* verdict back but brings no deleted object back.
RollBackReview(p) == EndReview(p) /\ UNCHANGED review

Serve(c) ==
  \/ CountAndCommit(c)
  \/ StatRaises(c)
  \/ \E p \in Photos :
       \/ Stat(c, p) \/ ConfirmFound(c, p) \/ ConfirmMissing(c, p)
       \/ MarkFailed(c, p) \/ AlreadyUploaded(c, p) \/ Reset(c, p)
  \/ Commit(c)

Request(c) ==
  \/ \E S \in SUBSET Photos : Register(c, S)
  \/ \E p \in Photos : Confirm(c, p) \/ Fail(c, p)
  \/ Resume(c)

Pass ==
  \/ \E S \in SUBSET Photos : StartPass(S)
  \/ \E p \in Photos : Stat(Reconciler, p) \/ Reconcile(p)
  \/ StatRaises(Reconciler)
  \/ Commit(Reconciler)

Environment ==
  \/ \E p \in Photos, k \in Keys : Put(p, k) \/ Expire(p, k)
  \/ \E p \in Photos : GrowStale(p)

Review ==
  \E p \in Photos :
    \/ \E verdict \in {"approved", "rejected"} : Decide(p, verdict)
    \/ Unstage(p) \/ CommitReview(p) \/ RollBackReview(p)

Next ==
  \/ \E c \in Calls : Request(c) \/ Serve(c)
  \/ Pass
  \/ \E a \in Actors : DeadlockVictim(a)
  \/ Review
  \/ Environment

Spec == Init /\ [][Next]_vars

-----------------------------------------------------------------------------
Statuses == {"pending_upload", "uploaded", "failed"}
Labels == {"idle", "count", "stat", "write", "fail", "reset", "commit",
           "done", "missing", "refused"}

TypeOK ==
  /\ transfer \in [Photos -> Statuses \cup {"absent"}]
  /\ review \in [Photos -> {"staged", "approved", "rejected"}]
  /\ total \in Nat
  /\ stale \subseteq Photos
  /\ urls \subseteq Photos \X Keys
  /\ stored \subseteq Photos \X Keys
  /\ deciding \in [Photos -> {NoVerdict, "approved", "rejected"}]
  /\ swept \subseteq Photos
  /\ unstaged \subseteq Photos
  /\ pc \in [Actors -> Labels]
  /\ todo \in [Actors -> SUBSET Photos]
  /\ found \in [Actors -> SUBSET Photos]
  /\ writes \in [Actors -> [Photos -> Statuses \cup {NoWrite}]]

\* Once a transfer has been confirmed no late failure, resumption or pass of the
\* reconciler, begun when it was still open, takes the confirmation back.
UploadedStaysUploaded ==
  [][\A p \in Photos : transfer[p] = "uploaded" => transfer'[p] = "uploaded"]_vars

\* A photo that counts as uploaded has its object where the row says it is, which is
\* what an approval copies, until a review deletes it: the store was asked before the
\* row was locked, and the answer must still be true.  A review that rolls back after
\* the deletion leaves the photo uploaded, undecided and without its object.
UploadedHasObject ==
  \A p \in Photos : transfer[p] = "uploaded" /\ p \notin unstaged =>
                      <<p, RowKey>> \in stored

\* The type invariant, and the object of every uploaded photo.
Inv == TypeOK /\ UploadedHasObject

\* Whatever a client may still upload is what a confirmation will look for.  The code
\* does not keep this: a resumption signs a URL for another key (see Resume).
UrlsReachTheRow == \A p \in Photos, k \in Keys : <<p, k>> \in urls => k = RowKey
=============================================================================
