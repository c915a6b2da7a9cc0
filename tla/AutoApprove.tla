------------------------------ MODULE AutoApprove ------------------------------
(***************************************************************************)
(* confirm_direct_upload with AUTO_APPROVE on: a confirmation looks, in    *)
(* its own transaction, whether every photo of the group has arrived, and  *)
(* if so runs approve_group there.  Whatever that raises is logged and     *)
(* swallowed by _maybe_auto_approve_group, and the transaction commits.    *)
(*                                                                         *)
(* The steps of an approval are told apart as far as another transaction   *)
(* can come between them; UploadReview.tla has them photo by photo.  The   *)
(* calls of reviewers are steps of ReviewDecisions.tla, which UploadReview *)
(* implements.  The upload reconciler commits transfers, too, and looks at *)
(* no group.                                                               *)
(***************************************************************************)
EXTENDS Naturals, FiniteSets

CONSTANTS
  Confirmers,   \* calls of confirm_direct_upload
  Requests, Groups, Photos,
  RequestOf, GroupOf,
  NoGroup, NoRequest, NoPhoto,
  Faults        \* the kinds of failure that happen: "database", "broker"

ASSUME RequestsAssumption ==
  /\ RequestOf \in [Photos -> Requests]
  /\ GroupOf \in [Requests -> Groups \cup {NoGroup}]
  /\ NoGroup \notin Groups
ASSUME FaultsAssumption == Faults \subseteq {"database", "broker"}

VARIABLES       \* committed, as in ReviewDecisions
  registered, reqStatus, photoStatus, groupStatus, rows
VARIABLES
  uploaded,     \* photos with transfer_status 'uploaded', committed
  staging,      \* photos whose object is under its staging key
  final,        \* photos whose object is under its final key
  past          \* what has happened so far, of Incidents
VARIABLES       \* of each confirmation and its transaction
  pc,
  photo,        \* the photo it confirms, hence locks
  todo,         \* requests approve_group has to come to
  cur,          \* the request it is approving
  copied,       \* requests whose photos it promoted
  marked,       \* requests whose photos it inserted and updated, hence locks
  decided,      \* requests it approved, hence locks
  grpDone       \* it approved, hence locks, the row of the group

\* A reviewer has decided something; two confirmations overlapped; the caller of one
\* may not approve the group; the reconciler has had the last word on a group, or a
\* word during a confirmation; something failed.
Incidents == {"review", "overlap", "forbidden", "reconciled", "broker", "database"}

decisions == <<registered, reqStatus, photoStatus, groupStatus, rows>>
store == <<staging, final>>
tx == <<photo, todo, cur, copied, marked, decided, grpDone>>
vars == <<decisions, uploaded, store, past, pc, tx>>

Decisions == INSTANCE ReviewDecisions

PhotosOf(S) == {p \in Photos : RequestOf[p] \in S}
RequestsOf(g) == {r \in registered : GroupOf[r] = g}
GroupOfCall(c) == GroupOf[RequestOf[photo[c]]]

PhotosHeld(c) == PhotosOf(marked[c]) \cup ({photo[c]} \cap Photos)
Locked(p) == \E c \in Confirmers : p \in PhotosHeld(c)
GroupLocked(g) == \E c \in Confirmers : grpDone[c] /\ GroupOfCall(c) = g

\* A transaction sees what is committed and its own confirmation.
\* Mutant: it sees what the others have not committed, too.
SeesAll(c) == uploaded \cup ({photo[o] : o \in Confirmers} \cap Photos)
\* Mutant: it sees only what is committed.
SeesCommitted(c) == uploaded
Sees(c) == uploaded \cup {photo[c]}

Init ==
  /\ Decisions!Init
  /\ uploaded = {}
  /\ staging = {}
  /\ final = {}
  /\ past = {}
  /\ pc = [c \in Confirmers |-> "idle"]
  /\ photo = [c \in Confirmers |-> NoPhoto]
  /\ todo = [c \in Confirmers |-> {}]
  /\ cur = [c \in Confirmers |-> NoRequest]
  /\ copied = [c \in Confirmers |-> {}]
  /\ marked = [c \in Confirmers |-> {}]
  /\ decided = [c \in Confirmers |-> {}]
  /\ grpDone = [c \in Confirmers |-> FALSE]

Goto(c, label) == pc' = [pc EXCEPT ![c] = label]

(***************************************************************************)
(* Registration, the client's PUT, and the calls of reviewers.             *)
(***************************************************************************)
Register(r) ==
  /\ ~GroupLocked(GroupOf[r])
  /\ Decisions!Register(r)
  /\ UNCHANGED <<uploaded, store, past, pc, tx>>

Put(p) ==
  /\ RequestOf[p] \in registered
  /\ p \notin uploaded \cup staging
  /\ staging' = staging \cup {p}
  /\ UNCHANGED <<decisions, uploaded, final, past, pc, tx>>

Review(S, g, verdict) ==
  /\ \A p \in PhotosOf(S) : ~Locked(p)
  /\ \A r \in S, c \in Confirmers : r \notin decided[c]
  /\ ~GroupLocked(g)
  /\ g # NoGroup => S = RequestsOf(g)
  /\ verdict = "approved" => PhotosOf(S) \subseteq uploaded \cap staging
  /\ Decisions!Decide(S, g, verdict)
  /\ final' = IF verdict = "approved" THEN final \cup PhotosOf(S) ELSE final
  /\ staging' = staging \ PhotosOf(S)
  /\ past' = past \cup {"review"}
  /\ UNCHANGED <<uploaded, pc, tx>>

(***************************************************************************)
(* confirm_direct_upload.                                                  *)
(***************************************************************************)
Confirm(c, p) ==
  /\ pc[c] = "idle"
  /\ p \in staging \ uploaded
  /\ ~Locked(p)
  /\ photo' = [photo EXCEPT ![c] = p]
  /\ Goto(c, "check")
  /\ UNCHANGED <<decisions, uploaded, store, past, todo, cur, copied, marked, decided, grpDone>>

\* The photo is the last of its group, or confirmations of the group are under way.
LastWord(p) ==
  LET g == GroupOf[RequestOf[p]] IN
  \/ PhotosOf(RequestsOf(g)) \subseteq uploaded \cup {p}
  \/ \E c \in Confirmers : pc[c] # "idle" /\ GroupOfCall(c) = g

\* The reconciler finds a stale transfer's object and commits the transfer, photo by
\* photo here, which is more than its one transaction a pass allows.
Reconcile(p) ==
  /\ p \in staging \ uploaded
  /\ ~Locked(p)
  /\ uploaded' = uploaded \cup {p}
  /\ past' = IF LastWord(p) THEN past \cup {"reconciled"} ELSE past
  /\ UNCHANGED <<decisions, store, pc, tx>>

PendingOf(c) == {r \in RequestsOf(GroupOfCall(c)) : reqStatus[r] = "pending"}

\* Mutant: only the photos of the confirmed photo's request are looked at.
RequestArrived(c) == PhotosOf({RequestOf[photo[c]]}) \subseteq Sees(c)
AllArrived(c) == PhotosOf(PendingOf(c)) \subseteq Sees(c)

\* Whether to approve: every photo of a pending request of the group has arrived.
Check(c) ==
  /\ pc[c] = "check"
  /\ Goto(c, IF /\ GroupOfCall(c) # NoGroup
                /\ reqStatus[RequestOf[photo[c]]] = "pending"
                /\ AllArrived(c)
             THEN "group" ELSE "commit")
  /\ past' = IF \E o \in Confirmers \ {c} : pc[o] # "idle" /\ GroupOfCall(o) = GroupOfCall(c)
             THEN past \cup {"overlap"} ELSE past
  /\ UNCHANGED <<decisions, uploaded, store, tx>>

\* approve_group reads the group and its requests afresh.  What it raises here is
\* swallowed before anything is copied: the group or a request is decided, or the
\* caller has neither requested the group nor leads the team, whoever he may be.
ReadGroup(c) ==
  /\ pc[c] = "group"
  /\ LET g == GroupOfCall(c)
         pending == groupStatus[g] = "pending" /\ PendingOf(c) = RequestsOf(g)
     IN  \/ /\ pending
            /\ todo' = [todo EXCEPT ![c] = RequestsOf(g)]
            /\ Goto(c, "request")
            /\ UNCHANGED past
         \/ /\ ~pending
            /\ Goto(c, "commit")
            /\ UNCHANGED <<todo, past>>
         \/ /\ Goto(c, "commit")
            /\ past' = past \cup {"forbidden"}
            /\ UNCHANGED todo
  /\ UNCHANGED <<decisions, uploaded, store, photo, cur, copied, marked, decided, grpDone>>

ReadRequest(c, r) ==
  /\ pc[c] = "request"
  /\ r \in todo[c]
  /\ IF reqStatus[r] = "pending" /\ PhotosOf({r}) \subseteq Sees(c)
     THEN /\ cur' = [cur EXCEPT ![c] = r]
          /\ Goto(c, "photos")
     ELSE /\ Goto(c, "cleanup")
          /\ UNCHANGED cur
  /\ UNCHANGED <<decisions, uploaded, store, past, photo, todo, copied, marked, decided, grpDone>>

\* The copies to the final keys, which no lock holds up.
CopyPhotos(c) ==
  /\ pc[c] = "photos"
  /\ IF PhotosOf({cur[c]}) \subseteq staging
     THEN /\ final' = final \cup PhotosOf({cur[c]})
          /\ copied' = [copied EXCEPT ![c] = @ \cup {cur[c]}]
          /\ Goto(c, "mark")
     ELSE /\ Goto(c, "cleanup")
          /\ UNCHANGED <<final, copied>>
  /\ UNCHANGED <<decisions, uploaded, staging, past, photo, todo, cur, marked, decided, grpDone>>

\* The INSERTs into photos and the UPDATEs of the staged photos' rows.
MarkPhotos(c) ==
  /\ pc[c] = "mark"
  /\ \A p \in PhotosOf({cur[c]}) : \A o \in Confirmers \ {c} : p \notin PhotosHeld(o)
  /\ marked' = [marked EXCEPT ![c] = @ \cup {cur[c]}]
  /\ Goto(c, "decide")
  /\ UNCHANGED <<decisions, uploaded, store, past, photo, todo, cur, copied, decided, grpDone>>

DecideRequest(c) ==
  /\ pc[c] = "decide"
  /\ \A o \in Confirmers : cur[c] \notin decided[o]
  /\ IF reqStatus[cur[c]] = "pending"
     THEN /\ decided' = [decided EXCEPT ![c] = @ \cup {cur[c]}]
          /\ todo' = [todo EXCEPT ![c] = @ \ {cur[c]}]
          /\ Goto(c, IF todo[c] = {cur[c]} THEN "decideGroup" ELSE "request")
     ELSE Goto(c, "cleanup") /\ UNCHANGED <<decided, todo>>
  /\ UNCHANGED <<decisions, uploaded, store, past, photo, cur, copied, marked, grpDone>>

DecideGroup(c) ==
  /\ pc[c] = "decideGroup"
  /\ ~GroupLocked(GroupOfCall(c))
  /\ IF groupStatus[GroupOfCall(c)] = "pending"
     THEN grpDone' = [grpDone EXCEPT ![c] = TRUE] /\ Goto(c, "unstage")
     ELSE Goto(c, "cleanup") /\ UNCHANGED grpDone
  /\ UNCHANGED <<decisions, uploaded, store, past, photo, todo, cur, copied, marked, decided>>

\* The staged objects are deleted; then the audit event may raise.
Unstage(c) ==
  /\ pc[c] = "unstage"
  /\ staging' = staging \ PhotosOf(decided[c])
  /\ \/ Goto(c, "commit") /\ UNCHANGED past
     \/ /\ "broker" \in Faults
        /\ Goto(c, "cleanup")
        /\ past' = past \cup {"broker"}
  /\ UNCHANGED <<decisions, uploaded, final, tx>>

(***************************************************************************)
(* The end: the exception of the approval does not reach the transaction.  *)
(***************************************************************************)
\* Mutant: the cleanup takes the staged objects, too.
CleanAll(c) ==
  final' = final \ PhotosOf(copied[c]) /\ staging' = staging \ PhotosOf(copied[c])
CleanFinal(c) ==
  final' = final \ PhotosOf(copied[c]) /\ UNCHANGED staging

Cleanup(c) ==
  /\ pc[c] = "cleanup"
  /\ CleanFinal(c)
  /\ Goto(c, "commit")
  /\ UNCHANGED <<decisions, uploaded, past, tx>>

EndCall(c) ==
  /\ Goto(c, "idle")
  /\ photo' = [photo EXCEPT ![c] = NoPhoto]
  /\ todo' = [todo EXCEPT ![c] = {}]
  /\ cur' = [cur EXCEPT ![c] = NoRequest]
  /\ copied' = [copied EXCEPT ![c] = {}]
  /\ marked' = [marked EXCEPT ![c] = {}]
  /\ decided' = [decided EXCEPT ![c] = {}]
  /\ grpDone' = [grpDone EXCEPT ![c] = FALSE]

\* Mutant: the row gets a name of the group's processing_status.
StatusCompleted == "completed"
StatusApproved == "approved"

Commit(c) ==
  /\ pc[c] = "commit"
  /\ uploaded' = uploaded \cup {photo[c]}
  /\ reqStatus' = [r \in Requests |-> IF r \in decided[c] THEN StatusApproved
                                      ELSE reqStatus[r]]
  /\ photoStatus' = [p \in Photos |-> IF RequestOf[p] \in marked[c] THEN StatusApproved
                                      ELSE photoStatus[p]]
  /\ groupStatus' = [g \in Groups |-> IF grpDone[c] /\ g = GroupOfCall(c)
                                      THEN StatusApproved ELSE groupStatus[g]]
  /\ rows' = [p \in Photos |-> IF RequestOf[p] \in marked[c] THEN rows[p] + 1
                               ELSE rows[p]]
  /\ EndCall(c)
  /\ UNCHANGED <<registered, store, past>>

\* An error of the database, or a deadlock with a reviewer, aborts the
\* transaction: the approval cleans up and the COMMIT becomes a rollback.
DatabaseFault(c) ==
  /\ "database" \in Faults
  /\ pc[c] \notin {"idle", "cleanup", "commit"}
  /\ final' = final \ PhotosOf(copied[c])
  /\ past' = past \cup {"database"}
  /\ EndCall(c)
  /\ UNCHANGED <<decisions, uploaded, staging>>

Step(c) ==
  \/ \E p \in Photos : Confirm(c, p)
  \/ Check(c)
  \/ ReadGroup(c)
  \/ \E r \in Requests : ReadRequest(c, r)
  \/ CopyPhotos(c)
  \/ MarkPhotos(c)
  \/ DecideRequest(c)
  \/ DecideGroup(c)
  \/ Unstage(c)
  \/ Cleanup(c)
  \/ Commit(c)
  \/ DatabaseFault(c)

Next ==
  \/ \E r \in Requests : Register(r)
  \/ \E p \in Photos : Put(p) \/ Reconcile(p)
  \/ \E S \in SUBSET Requests, g \in Groups \cup {NoGroup},
        verdict \in {"approved", "rejected"} : Review(S, g, verdict)
  \/ \E c \in Confirmers : Step(c)

Spec == Init /\ [][Next]_vars

-----------------------------------------------------------------------------
Labels == {"idle", "check", "group", "request", "photos", "mark", "decide",
           "decideGroup", "unstage", "cleanup", "commit"}
Statuses == {"pending", "approved", "rejected"}

TypeOK ==
  /\ registered \subseteq Requests
  /\ reqStatus \in [Requests -> Statuses]
  /\ photoStatus \in [Photos -> {"staged", "approved", "rejected"}]
  /\ groupStatus \in [Groups -> Statuses]
  /\ rows \in [Photos -> Nat]
  /\ uploaded \subseteq Photos
  /\ staging \subseteq Photos
  /\ final \subseteq Photos
  /\ past \subseteq Incidents
  /\ pc \in [Confirmers -> Labels]
  /\ photo \in [Confirmers -> Photos \cup {NoPhoto}]
  /\ todo \in [Confirmers -> SUBSET Requests]
  /\ cur \in [Confirmers -> Requests \cup {NoRequest}]
  /\ copied \in [Confirmers -> SUBSET Requests]
  /\ marked \in [Confirmers -> SUBSET Requests]
  /\ decided \in [Confirmers -> SUBSET Requests]
  /\ grpDone \in [Confirmers -> BOOLEAN]

\* Until a reviewer interferes two confirmations never approve requests of one
\* group at the same time: the uncommitted confirmation of each keeps the other
\* from seeing all photos.
Approving(c) == pc[c] \in {"request", "photos", "mark", "decide", "decideGroup", "unstage"}
ApprovalsApart ==
  "review" \notin past => \A c, o \in Confirmers :
    c # o /\ Approving(c) /\ Approving(o) => GroupOfCall(c) # GroupOfCall(o)

\* Until a reviewer interferes the swallowed exceptions leave whole requests: each
\* is approved with all its photos and one row for each, or not at all.
DecidedTogether ==
  "review" \notin past => \A p \in Photos :
    LET status == reqStatus[RequestOf[p]] IN
    /\ photoStatus[p] = IF status = "pending" THEN "staged" ELSE status
    /\ rows[p] = IF status = "approved" THEN 1 ELSE 0
    /\ status = "approved" => p \in uploaded

\* Until the broker fails or a reviewer interferes, an uploaded photo has an object
\* somewhere: a failure of the approval, swallowed or not, may delete the one the
\* photo's row names, but only as long as the staged one is kept.
CopyRemains ==
  past \cap {"review", "broker"} = {} => \A p \in uploaded : p \in staging \cup final

\* No row of photos is ever made from a photo whose transfer is not committed,
\* though the confirmation that approves counts its own photo before its commit.
RowsAreUploaded == \A p \in Photos : rows[p] > 0 => p \in uploaded

\* What holds of the group and its requests at every step: the types, and the three
\* above.
Inv == TypeOK /\ ApprovalsApart /\ DecidedTogether /\ RowsAreUploaded

\* A group all of whose photos are uploaded has been approved, or decided in part,
\* when the last confirmation is over, unless something came in between: two
\* confirmations that overlap may each miss the photo of the other, the reconciler
\* commits the last photo without a look at the group, the caller who confirms it may
\* not approve, or something failed.  Photos the reconciler settles earlier do not harm.
Quiet == \A c \in Confirmers : pc[c] = "idle"
AutoApproved ==
  past = {} /\ Quiet => \A g \in Groups :
    PhotosOf(RequestsOf(g)) # {} /\ PhotosOf(RequestsOf(g)) \subseteq uploaded
      => \E r \in RequestsOf(g) : reqStatus[r] # "pending"
=============================================================================
