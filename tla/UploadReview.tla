----------------------------- MODULE UploadReview -----------------------------
(***************************************************************************)
(* The review of staged uploads: UploadRequestsService.approve_request,    *)
(* reject_request, approve_group and reject_group in                       *)
(* app/service/upload_requests.py.                                         *)
(*                                                                         *)
(* Every call runs in one database transaction, opened by get_db and       *)
(* committed after the handler returned.  PostgreSQL runs it at READ       *)
(* COMMITTED: a SELECT sees what others have committed when it runs, an    *)
(* UPDATE waits for the row lock and looks at its WHERE clause again once  *)
(* it has it, a deadlock is broken by aborting one of the waiters.  The    *)
(* object store and the message broker know no transaction: a copy, a      *)
(* deletion or a publication takes effect at once and is not undone.       *)
(***************************************************************************)
EXTENDS Naturals, FiniteSets

CONSTANTS
  Approvers,    \* calls of approve_request and approve_group
  Rejecters,    \* calls of reject_request and reject_group
  Requests, Groups, Photos,
  RequestOf,    \* [Photos -> Requests]: upload_request_photos.upload_request_id
  GroupOf,      \* [Requests -> Groups \cup {NoGroup}]: upload_requests.group_id
  NoGroup, NoRequest,
  Faults        \* the kinds of failure the environment may cause

Handlers == Approvers \cup Rejecters
FaultKinds == {"database", "storage", "broker", "crash"}

ASSUME CallsAssumption == Approvers \cap Rejecters = {}
ASSUME RequestsAssumption ==
  /\ RequestOf \in [Photos -> Requests]
  /\ GroupOf \in [Requests -> Groups \cup {NoGroup}]
  /\ NoGroup \notin Groups
  /\ NoRequest \notin Requests
ASSUME FaultsAssumption == Faults \subseteq FaultKinds

VARIABLES
  registered,   \* the requests whose rows are committed
  uploaded,     \* photos with transfer_status 'uploaded'
  reqStatus, photoStatus, groupStatus,  \* the committed status columns
  rows,         \* committed rows of photos made from a staged photo
  staging,      \* photos whose object is under its staging key
  final,        \* photos whose object is under its final key
  announced     \* photos whose photo.process event is in the stream

VARIABLES       \* of each call and its transaction
  pc,           \* the next step of the call
  grp,          \* the group the call decides, or NoGroup
  reqs,         \* the requests it still has to decide
  cur,          \* the request it is working on
  todo,         \* photos of cur it has not come to
  promoted,     \* photos it copied and inserted into photos (finalized keys)
  marked,       \* upload_request_photos rows it updated, hence locks
  decided,      \* upload_requests rows it updated, hence locks
  grpDone       \* it updated, hence locks, the row of grp

db == <<registered, uploaded, reqStatus, photoStatus, groupStatus, rows>>
store == <<staging, final>>
locks == <<marked, decided, grpDone>>
call == <<pc, grp, reqs, cur, todo, promoted, marked, decided, grpDone>>
vars == <<db, store, announced, call>>

PhotosOf(r) == {p \in Photos : RequestOf[p] = r}
RequestsOf(g) == {r \in registered : GroupOf[r] = g}
\* Mutant: a rejection hands its rows back to 'staged'.
VerdictStaged(h) == IF h \in Approvers THEN "approved" ELSE "staged"
Verdict(h) == IF h \in Approvers THEN "approved" ELSE "rejected"

PhotoHolders(p) == {h \in Handlers : p \in marked[h]}
RequestHolders(r) == {h \in Handlers : r \in decided[h]}
GroupHolders(g) == {h \in Handlers : grpDone[h] /\ grp[h] = g}

Init ==
  /\ registered = {}
  /\ uploaded = {}
  /\ reqStatus = [r \in Requests |-> "pending"]
  /\ photoStatus = [p \in Photos |-> "staged"]
  /\ groupStatus = [g \in Groups |-> "pending"]
  /\ rows = [p \in Photos |-> 0]
  /\ staging = {}
  /\ final = {}
  /\ announced = {}
  /\ pc = [h \in Handlers |-> "idle"]
  /\ grp = [h \in Handlers |-> NoGroup]
  /\ reqs = [h \in Handlers |-> {}]
  /\ cur = [h \in Handlers |-> NoRequest]
  /\ todo = [h \in Handlers |-> {}]
  /\ promoted = [h \in Handlers |-> {}]
  /\ marked = [h \in Handlers |-> {}]
  /\ decided = [h \in Handlers |-> {}]
  /\ grpDone = [h \in Handlers |-> FALSE]

Goto(h, label) == pc' = [pc EXCEPT ![h] = label]

(***************************************************************************)
(* The uploads being reviewed.  A batch joins its group whatever the       *)
(* status of the group; only the update of the group's counters waits for  *)
(* a reviewer that has decided the group and not yet committed.            *)
(***************************************************************************)
RegisterBatch(r) ==
  /\ r \notin registered
  /\ GroupHolders(GroupOf[r]) = {}
  /\ registered' = registered \cup {r}
  /\ UNCHANGED <<uploaded, reqStatus, photoStatus, groupStatus, rows,
                 store, announced, call>>

\* The object arrives in staging and its row is confirmed.
CompleteTransfer(p) ==
  /\ RequestOf[p] \in registered
  /\ p \notin uploaded
  /\ PhotoHolders(p) = {}
  /\ uploaded' = uploaded \cup {p}
  /\ staging' = staging \cup {p}
  /\ UNCHANGED <<registered, reqStatus, photoStatus, groupStatus, rows,
                 final, announced, call>>

(***************************************************************************)
(* The start of a call.                                                    *)
(***************************************************************************)
StartRequest(h, r) ==
  /\ pc[h] = "idle"
  /\ r \in registered
  /\ reqs' = [reqs EXCEPT ![h] = {r}]
  /\ Goto(h, "read")
  /\ UNCHANGED <<db, store, announced, grp, cur, todo, promoted, locks>>

\* The group and all its requests are pending when they are read.
StartGroup(h, g) ==
  /\ pc[h] = "idle"
  /\ groupStatus[g] = "pending"
  /\ RequestsOf(g) # {}
  /\ \A r \in RequestsOf(g) : reqStatus[r] = "pending"
  /\ grp' = [grp EXCEPT ![h] = g]
  /\ reqs' = [reqs EXCEPT ![h] = RequestsOf(g)]
  /\ Goto(h, "read")
  /\ UNCHANGED <<db, store, announced, cur, todo, promoted, locks>>

(***************************************************************************)
(* One request of the call.                                                *)
(***************************************************************************)
ReadRequest(h, r) ==
  /\ pc[h] = "read"
  /\ r \in reqs[h]
  /\ reqStatus[r] = "pending"
  /\ cur' = [cur EXCEPT ![h] = r]
  /\ Goto(h, IF h \in Approvers THEN "photos" ELSE "decide")
  /\ UNCHANGED <<db, store, announced, grp, reqs, todo, promoted, locks>>

ReadPhotos(h) ==
  /\ pc[h] = "photos"
  /\ PhotosOf(cur[h]) # {}
  /\ PhotosOf(cur[h]) \subseteq uploaded
  /\ todo' = [todo EXCEPT ![h] = PhotosOf(cur[h])]
  /\ Goto(h, "promote")
  /\ UNCHANGED <<db, store, announced, grp, reqs, cur, promoted, locks>>

\* Mutant: the object is moved instead of copied.
MoveToFinal(p) == final' = final \cup {p} /\ staging' = staging \ {p}
CopyToFinal(p) == final' = final \cup {p} /\ UNCHANGED staging

\* The copy to the final key and the INSERT into photos.  The rows of one
\* batch share their created_at, so the photos come in any order.
Promote(h, p) ==
  /\ pc[h] = "promote"
  /\ p \in todo[h]
  /\ p \in staging
  /\ CopyToFinal(p)
  /\ promoted' = [promoted EXCEPT ![h] = @ \cup {p}]
  /\ todo' = [todo EXCEPT ![h] = @ \ {p}]
  /\ Goto(h, "mark")
  /\ UNCHANGED <<db, announced, grp, reqs, cur, locks>>

\* The UPDATE of the photo just promoted: it waits for the row lock and has
\* no condition on the status.
MarkApproved(h, p) ==
  /\ pc[h] = "mark"
  /\ p \in promoted[h] \ marked[h]
  /\ PhotoHolders(p) = {}
  /\ marked' = [marked EXCEPT ![h] = @ \cup {p}]
  /\ Goto(h, IF todo[h] = {} THEN "decide" ELSE "promote")
  /\ UNCHANGED <<db, store, announced, grp, reqs, cur, todo, promoted,
                 decided, grpDone>>

\* cur is done: the next request, the group, or the side effects.
FinishRequest(h) ==
  /\ reqs' = [reqs EXCEPT ![h] = @ \ {cur[h]}]
  /\ cur' = [cur EXCEPT ![h] = NoRequest]
  /\ Goto(h, IF reqs[h] # {cur[h]} THEN "read"
             ELSE IF grp[h] # NoGroup THEN "group" ELSE "unstage")

\* Mutant: the UPDATE has lost its condition on the status.
AnyStatus(r) == TRUE
\* The WHERE status = 'pending' of the request's UPDATE.
StillPending(r) == reqStatus[r] = "pending"

\* The UPDATE of the request row waits for the row lock and then looks at the
\* status: last in an approval, first in a rejection.
DecideRequest(h) ==
  /\ pc[h] = "decide"
  /\ RequestHolders(cur[h]) = {}
  /\ StillPending(cur[h])
  /\ decided' = [decided EXCEPT ![h] = @ \cup {cur[h]}]
  /\ \/ /\ h \in Approvers
        /\ FinishRequest(h)
        /\ UNCHANGED todo
     \/ /\ h \in Rejecters
        /\ todo' = [todo EXCEPT ![h] = PhotosOf(cur[h])]
        /\ IF PhotosOf(cur[h]) = {} THEN FinishRequest(h)
           ELSE Goto(h, "markAll") /\ UNCHANGED <<reqs, cur>>
  /\ UNCHANGED <<db, store, announced, grp, promoted, marked, grpDone>>

\* A rejection's one UPDATE of all photos of the request locks row by row.
MarkRejected(h, p) ==
  /\ pc[h] = "markAll"
  /\ p \in todo[h]
  /\ PhotoHolders(p) = {}
  /\ marked' = [marked EXCEPT ![h] = @ \cup {p}]
  /\ todo' = [todo EXCEPT ![h] = @ \ {p}]
  /\ IF todo[h] = {p} THEN FinishRequest(h) ELSE UNCHANGED <<pc, reqs, cur>>
  /\ UNCHANGED <<db, store, announced, grp, promoted, decided, grpDone>>

DecideGroup(h) ==
  /\ pc[h] = "group"
  /\ GroupHolders(grp[h]) = {}
  /\ groupStatus[grp[h]] = "pending"
  /\ grpDone' = [grpDone EXCEPT ![h] = TRUE]
  /\ Goto(h, "unstage")
  /\ UNCHANGED <<db, store, announced, grp, reqs, cur, todo, promoted,
                 marked, decided>>

(***************************************************************************)
(* The side effects before the commit.  Staged objects are deleted and     *)
(* events published at best effort: a failure is logged and forgotten.     *)
(* Only the audit event of an approval or of a single rejection may raise. *)
(* The notification row and the audit record themselves are left out.      *)
(***************************************************************************)
\* Mutant: an approval forgets to publish.
AfterUnstageSilently(h) == IF grp[h] = NoGroup THEN "audit" ELSE "commit"
AfterUnstage(h) ==
  IF h \in Approvers THEN "publish"
  ELSE IF grp[h] = NoGroup THEN "audit" ELSE "commit"

Unstage(h) ==
  /\ pc[h] = "unstage"
  /\ \E gone \in SUBSET marked[h] :
       /\ "storage" \notin Faults => gone = marked[h]
       /\ staging' = staging \ gone
  /\ Goto(h, AfterUnstage(h))
  /\ UNCHANGED <<db, final, announced, grp, reqs, cur, todo, promoted, locks>>

Publish(h) ==
  /\ pc[h] = "publish"
  /\ \E sent \in SUBSET promoted[h] :
       /\ "broker" \notin Faults => sent = promoted[h]
       /\ announced' = announced \cup sent
  /\ Goto(h, "audit")
  /\ UNCHANGED <<db, store, grp, reqs, cur, todo, promoted, locks>>

Audit(h) ==
  /\ pc[h] = "audit"
  /\ Goto(h, "commit")
  /\ UNCHANGED <<db, store, announced, grp, reqs, cur, todo, promoted, locks>>

(***************************************************************************)
(* The end of a call.                                                      *)
(***************************************************************************)
ReleaseLocks(h) ==
  /\ marked' = [marked EXCEPT ![h] = {}]
  /\ decided' = [decided EXCEPT ![h] = {}]
  /\ grpDone' = [grpDone EXCEPT ![h] = FALSE]

EndCall(h) ==
  /\ Goto(h, "idle")
  /\ grp' = [grp EXCEPT ![h] = NoGroup]
  /\ reqs' = [reqs EXCEPT ![h] = {}]
  /\ cur' = [cur EXCEPT ![h] = NoRequest]
  /\ todo' = [todo EXCEPT ![h] = {}]
  /\ promoted' = [promoted EXCEPT ![h] = {}]
  /\ ReleaseLocks(h)

Commit(h) ==
  /\ pc[h] = "commit"
  /\ reqStatus' = [r \in Requests |->
                     IF r \in decided[h] THEN Verdict(h) ELSE reqStatus[r]]
  /\ photoStatus' = [p \in Photos |->
                       IF p \in marked[h] THEN Verdict(h) ELSE photoStatus[p]]
  /\ groupStatus' = [g \in Groups |->
                       IF grpDone[h] /\ g = grp[h] THEN Verdict(h)
                       ELSE groupStatus[g]]
  /\ rows' = [p \in Photos |->
                IF p \in promoted[h] THEN rows[p] + 1 ELSE rows[p]]
  /\ EndCall(h)
  /\ UNCHANGED <<registered, uploaded, store, announced>>

\* Mutant: the exception is swallowed and the transaction commits.
RaiseSwallowed(h) ==
  Goto(h, "commit") /\ UNCHANGED <<db, store, announced, grp, reqs, cur, todo,
                                   promoted, locks>>
\* An exception: an approval still has to clean up, a rejection just rolls back.
Raise(h) ==
  /\ \/ /\ h \in Approvers
        /\ Goto(h, "cleanup")
        /\ UNCHANGED <<grp, reqs, cur, todo, promoted, locks>>
     \/ /\ h \in Rejecters
        /\ EndCall(h)
  /\ UNCHANGED <<db, store, announced>>

\* The same for an error of the database, which aborts the transaction and so
\* releases its locks before the handler gets to clean up.
RaiseAborted(h) ==
  /\ \/ /\ h \in Approvers
        /\ Goto(h, "cleanup")
        /\ ReleaseLocks(h)
        /\ UNCHANGED <<grp, reqs, cur, todo, promoted>>
     \/ /\ h \in Rejecters
        /\ EndCall(h)
  /\ UNCHANGED <<db, store, announced>>

\* What the handler itself refuses, and a copy whose source is gone.
Refused(h) ==
  \/ pc[h] = "read" /\ \E r \in reqs[h] : reqStatus[r] # "pending"
  \/ /\ pc[h] = "photos"
     /\ PhotosOf(cur[h]) = {} \/ ~(PhotosOf(cur[h]) \subseteq uploaded)
  \/ pc[h] = "promote" /\ ~(todo[h] \subseteq staging)
  \/ pc[h] = "decide" /\ RequestHolders(cur[h]) = {}
                      /\ ~StillPending(cur[h])
  \/ pc[h] = "group" /\ GroupHolders(grp[h]) = {}
                     /\ groupStatus[grp[h]] # "pending"

Refuse(h) == Refused(h) /\ Raise(h)

StorageFault(h) == "storage" \in Faults /\ pc[h] = "promote" /\ Raise(h)
BrokerFault(h) == "broker" \in Faults /\ pc[h] = "audit" /\ Raise(h)

DatabaseFault(h) ==
  /\ "database" \in Faults
  /\ pc[h] \in {"read", "photos", "mark", "decide", "markAll", "group", "unstage"}
  /\ RaiseAborted(h)

\* Who holds a row that the next statement of h has to lock.
WaitsFor(h) ==
  {o \in Handlers \ {h} :
     \/ pc[h] = "mark" /\ marked[o] \cap (promoted[h] \ marked[h]) # {}
     \/ pc[h] = "decide" /\ cur[h] \in decided[o]
     \/ pc[h] = "markAll" /\ marked[o] \cap todo[h] # {}
     \/ pc[h] = "group" /\ grpDone[o] /\ grp[o] = grp[h]}

\* Mutant: a deadlock goes unnoticed.
NoDetection(h) == FALSE
InDeadlock(h) ==
  \E D \in SUBSET Handlers :
    /\ h \in D
    /\ \A d \in D : WaitsFor(d) \cap D # {}
    /\ \A S \in SUBSET D : S \notin {{}, D} =>
         \E d \in S : WaitsFor(d) \cap (D \ S) # {}

DeadlockVictim(h) == InDeadlock(h) /\ RaiseAborted(h)

\* Mutant: the cleanup covers all photos of the requests of the call.
CleanRequests(h) == {p \in Photos : RequestOf[p] \in reqs[h]}
ToClean(h) == promoted[h]

\* _cleanup_finalized_objects deletes what this call promoted, logs what it
\* cannot delete, and the exception goes on to roll the transaction back.
Cleanup(h) ==
  /\ pc[h] = "cleanup"
  /\ \E gone \in SUBSET ToClean(h) :
       /\ "storage" \notin Faults => gone = ToClean(h)
       /\ final' = final \ gone
  /\ EndCall(h)
  /\ UNCHANGED <<db, staging, announced>>

\* The call ends without its exception handlers: the process dies, the task is
\* cancelled, or the COMMIT itself fails.
Abort(h) ==
  /\ \/ "crash" \in Faults /\ pc[h] # "idle"
     \/ "database" \in Faults /\ pc[h] = "commit"
  /\ EndCall(h)
  /\ UNCHANGED <<db, store, announced>>

Step(h) ==
  \/ \E r \in Requests : ReadRequest(h, r)
  \/ ReadPhotos(h)
  \/ \E p \in Photos : Promote(h, p) \/ MarkApproved(h, p) \/ MarkRejected(h, p)
  \/ DecideRequest(h)
  \/ DecideGroup(h)
  \/ Unstage(h)
  \/ Publish(h)
  \/ Audit(h)
  \/ Commit(h)
  \/ Refuse(h)
  \/ Cleanup(h)

Start(h) ==
  \/ \E r \in Requests : StartRequest(h, r)
  \/ \E g \in Groups : StartGroup(h, g)

Fault(h) ==
  StorageFault(h) \/ BrokerFault(h) \/ DatabaseFault(h) \/ Abort(h)

Next ==
  \/ \E r \in Requests : RegisterBatch(r)
  \/ \E p \in Photos : CompleteTransfer(p)
  \/ \E h \in Handlers : Start(h) \/ Step(h) \/ DeadlockVictim(h) \/ Fault(h)

Spec == Init /\ [][Next]_vars

\* The server goes on with a call it has begun; PostgreSQL serves the waiters
\* of a row in turn and breaks every deadlock.  Nobody has to start a call.
Fairness == \A h \in Handlers : SF_vars(Step(h)) /\ WF_vars(DeadlockVictim(h))

FairSpec == Spec /\ Fairness

-----------------------------------------------------------------------------
Labels == {"idle", "read", "photos", "promote", "mark", "decide", "markAll",
           "group", "unstage", "publish", "audit", "commit", "cleanup"}
Statuses == {"pending", "approved", "rejected"}

TypeOK ==
  /\ registered \subseteq Requests
  /\ uploaded \subseteq Photos
  /\ reqStatus \in [Requests -> Statuses]
  /\ photoStatus \in [Photos -> {"staged", "approved", "rejected"}]
  /\ groupStatus \in [Groups -> Statuses]
  /\ rows \in [Photos -> Nat]
  /\ staging \subseteq Photos
  /\ final \subseteq Photos
  /\ announced \subseteq Photos
  /\ pc \in [Handlers -> Labels]
  /\ grp \in [Handlers -> Groups \cup {NoGroup}]
  /\ reqs \in [Handlers -> SUBSET Requests]
  /\ cur \in [Handlers -> Requests \cup {NoRequest}]
  /\ todo \in [Handlers -> SUBSET Photos]
  /\ promoted \in [Handlers -> SUBSET Photos]
  /\ marked \in [Handlers -> SUBSET Photos]
  /\ decided \in [Handlers -> SUBSET Requests]
  /\ grpDone \in [Handlers -> BOOLEAN]

(***************************************************************************)
(* Properties.                                                             *)
(***************************************************************************)
\* A committed decision covers the request with all its photos: in an approved
\* request every photo is approved, was transferred, and has exactly one row in
\* photos; in any other request no photo is approved or has a row.  Two calls
\* that both got as far as inserting rows must never both commit.
DecidedTogether ==
  \A p \in Photos :
    LET status == reqStatus[RequestOf[p]] IN
    /\ photoStatus[p] = IF status = "pending" THEN "staged" ELSE status
    /\ rows[p] = IF status = "approved" THEN 1 ELSE 0
    /\ status = "approved" => p \in uploaded

\* The calls implement ReviewDecisions: requests and groups are decided at most
\* once, each request with its photos, however calls interleave and fail.
Decisions == INSTANCE ReviewDecisions
ImplementsDecisions == Decisions!Spec

\* The object of a committed photo stays where its row says it is: an approval
\* that fails cleans up only what nobody else relies on.  It holds as long as
\* no two approvals run at the same time.
SoleApprover == \A a, b \in Approvers : a = b
FinalObjectKept == \A p \in Photos : rows[p] > 0 => p \in final

\* A request that is still to be decided, and that no call is about to decide,
\* still has the staged objects a later approval has to copy: a call that loses
\* a race or is refused deletes none of them.
PendingKeepsStaged ==
  \A p \in uploaded :
    /\ reqStatus[RequestOf[p]] = "pending"
    /\ RequestHolders(RequestOf[p]) = {}
    => p \in staging

\* While the broker works, the photo.process event of every committed photo is
\* in the stream: nothing else would ever make the worker look at the photo.
ApprovedAreAnnounced ==
  "broker" \notin Faults => \A p \in Photos : rows[p] > 0 => p \in announced

\* Every call comes to an end, in spite of row locks taken in opposite orders by
\* approvals (photos first) and rejections (request first).
CallsFinish == \A h \in Handlers : pc[h] # "idle" ~> pc[h] = "idle"

(***************************************************************************)
(* The inductive invariant behind DecidedTogether and ImplementsDecisions. *)
(***************************************************************************)
PhotosIn(S) == {p \in Photos : RequestOf[p] \in S}
Working == {"photos", "promote", "mark", "decide", "markAll"}
Settled == {"unstage", "publish", "audit", "commit"}

\* A row lock has one holder, and what is locked is undecided.
LockInv ==
  \A h \in Handlers :
    /\ \A r \in decided[h] : reqStatus[r] = "pending"
    /\ grpDone[h] => grp[h] # NoGroup /\ groupStatus[grp[h]] = "pending"
    /\ \A o \in Handlers \ {h} :
         /\ marked[h] \cap marked[o] = {}
         /\ decided[h] \cap decided[o] = {}
         /\ grpDone[h] /\ grpDone[o] => grp[h] # grp[o]

\* What a call has decided, and has yet to decide.
PlanInv(h) ==
  /\ reqs[h] \cup decided[h] \subseteq registered
  /\ IF grp[h] = NoGroup
     THEN \A r, s \in reqs[h] \cup decided[h] : r = s
     ELSE \A r \in reqs[h] \cup decided[h] : GroupOf[r] = grp[h]
  /\ pc[h] = "idle" => /\ reqs[h] = {} /\ grp[h] = NoGroup /\ promoted[h] = {}
                       /\ marked[h] = {} /\ decided[h] = {}
  /\ pc[h] \in Working => cur[h] \in reqs[h]
  /\ reqs[h] \cap decided[h] \subseteq IF pc[h] = "markAll" THEN {cur[h]} ELSE {}
  /\ pc[h] \in Settled \cup {"group"} => reqs[h] = {} /\ decided[h] # {}
  /\ pc[h] = "group" => grp[h] # NoGroup
  /\ pc[h] \in Settled => (grpDone[h] <=> grp[h] # NoGroup)
  /\ pc[h] \notin Settled \cup {"cleanup"} => ~grpDone[h]

\* An approval has promoted and marked the photos of what it has decided, and
\* those of the current request that it has come to.
ApprovalInv(h) ==
  /\ pc[h] # "markAll"
  /\ pc[h] # "cleanup" =>
       /\ promoted[h] = PhotosIn(decided[h]) \cup
            IF pc[h] \in {"promote", "mark", "decide"}
            THEN PhotosIn({cur[h]}) \ todo[h] ELSE {}
       /\ pc[h] # "mark" => marked[h] = promoted[h]
       /\ pc[h] = "mark" => \E p \in promoted[h] : marked[h] = promoted[h] \ {p}
       /\ pc[h] = "decide" => todo[h] = {}
       /\ promoted[h] \subseteq uploaded
       /\ pc[h] \in {"promote", "mark"} =>
            todo[h] \subseteq PhotosIn({cur[h]}) /\ PhotosIn({cur[h]}) \subseteq uploaded

\* A rejection has marked all photos of what it has decided but, during the
\* UPDATE of the photos, those the UPDATE has not come to.
RejectionInv(h) ==
  /\ pc[h] \notin {"photos", "promote", "mark", "publish", "cleanup"}
  /\ promoted[h] = {}
  /\ marked[h] = PhotosIn(decided[h]) \ IF pc[h] = "markAll" THEN todo[h] ELSE {}
  /\ pc[h] = "markAll" =>
       cur[h] \in decided[h] /\ todo[h] \subseteq PhotosIn({cur[h]})

CallInv(h) ==
  /\ PlanInv(h)
  /\ h \in Approvers => ApprovalInv(h)
  /\ h \in Rejecters => RejectionInv(h)

IInv ==
  /\ TypeOK
  /\ DecidedTogether
  /\ LockInv
  /\ \A h \in Handlers : CallInv(h)
=============================================================================
