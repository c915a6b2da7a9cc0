---------------------------- MODULE PhotoConsent ----------------------------
(***************************************************************************)
(* The consent of the people in a group photo.  photo_worker inserts an    *)
(* approval for every user whose face it recognizes; each of them decides  *)
(* by PhotoApprovalService.decide; and hourly expire_stale approves what   *)
(* has waited PHOTO_APPROVAL_TIMEOUT_DAYS.  One photo is modelled: every   *)
(* statement is about one, but for those of expire_stale, which treat all  *)
(* alike.  A photo without a face is approved and made public, one with a  *)
(* single face is approved and matched with at most one user, and nobody   *)
(* is asked.                                                               *)
(*                                                                         *)
(* The event photo.process may be delivered more than once, each time by   *)
(* another transaction; the object is deleted when the photo is rejected,  *)
(* outside of any transaction.  The embeddings and their distances are     *)
(* abstracted to the users they find.                                      *)
(***************************************************************************)
EXTENDS Naturals, FiniteSets

CONSTANTS
  Users,
  Deliveries,   \* deliveries of the event photo.process
  Calls,        \* calls of decide; each is made at most once
  Expirer,      \* the hourly task
  Faults        \* the kinds of failure that happen: "broker", "crash"

ASSUME ExpirerAssumption == Expirer \notin Calls
ASSUME FaultsAssumption == Faults \subseteq {"broker", "crash"}

Actors == Calls \cup {Expirer}
Verdicts == {"approved", "rejected"}

VARIABLES
  status,       \* committed photos.status
  public,       \* committed photos.visibility
  approvals,    \* committed photo_approvals: [Deliveries \X Users -> decision]
  matches,      \* deliveries with a committed row of face_matches
  faces,        \* how many faces the photo shows: "none", "one" or "many"
  object,       \* whether the photo is in the store
  overdue,      \* whether it was created PHOTO_APPROVAL_TIMEOUT_DAYS ago
  crashed       \* whether a transaction has ended without its handlers

VARIABLES       \* of each delivery, call, and run of the task
  worker,
  inserted,     \* deliveries whose transaction has inserted a face match
  pc,
  caller,       \* the user who decides, or NoUser
  verdict,
  decided,      \* rows the transaction has updated, hence locks, and to what
  update,       \* its update of the photo, whose row it then locks, or "none"
  awaited       \* rows that were pending when the task's statement began

shown == <<public, matches, faces, inserted>>
photo == <<status, approvals, object, overdue, shown>>
tx == <<caller, verdict, decided, update, awaited>>
vars == <<photo, crashed, worker, pc, tx>>

NoUser == "nobody"
Absent == "absent"
Rows == Deliveries \X Users
RowsOf(u) == {r \in Rows : r[2] = u /\ approvals[r] # Absent}
PendingRows == {r \in Rows : approvals[r] = "pending"}

\* What a transaction sees: what is committed and its own updates.
View(a) == [r \in Rows |-> IF r \in DOMAIN decided[a] THEN decided[a][r] ELSE approvals[r]]
NoRows == [r \in {} |-> Absent]

\* Row locks, held to the end of the transaction.
RowHolders(r) == {a \in Actors : r \in DOMAIN decided[a]}
PhotoHolders == {a \in Actors : update[a] # "none"} \cup {d \in Deliveries : worker[d] = "marked"}

Init ==
  /\ status = "pending"
  /\ public = FALSE
  /\ approvals = [r \in Rows |-> Absent]
  /\ matches = {} /\ inserted = {}
  /\ faces \in {"none", "one", "many"}
  /\ object = TRUE
  /\ overdue = FALSE
  /\ crashed = FALSE
  /\ worker = [d \in Deliveries |-> "waiting"]
  /\ pc = [a \in Actors |-> "idle"]
  /\ caller = [a \in Actors |-> NoUser]
  /\ verdict = [a \in Actors |-> "approved"]
  /\ decided = [a \in Actors |-> NoRows]
  /\ update = [a \in Actors |-> "none"]
  /\ awaited = {}

Goto(a, label) == pc' = [pc EXCEPT ![a] = label]

EndTx(a, label) ==
  /\ Goto(a, label)
  /\ caller' = [caller EXCEPT ![a] = NoUser]
  /\ verdict' = [verdict EXCEPT ![a] = "approved"]
  /\ decided' = [decided EXCEPT ![a] = NoRows]
  /\ update' = [update EXCEPT ![a] = "none"]
  /\ awaited' = IF a = Expirer THEN {} ELSE awaited

Over(a) == IF a = Expirer THEN "idle" ELSE "done"
Rollback(a) == EndTx(a, Over(a)) /\ UNCHANGED <<photo, worker>>

(***************************************************************************)
(* photo_worker: fetch the image, then match its faces.                    *)
(***************************************************************************)
Advance(d, label) == worker' = [worker EXCEPT ![d] = label]

\* The worker handles one event at a time.  A missing image raises, and the event
\* comes again.
LoadImage(d) ==
  /\ worker[d] = "waiting"
  /\ \A o \in Deliveries : worker[o] \in {"waiting", "done"}
  /\ object
  /\ Advance(d, "loaded")
  /\ UNCHANGED <<photo, crashed, pc, tx>>

\* Both updates are of the one row, so the transaction is one step.
NoFaces(d) ==
  /\ faces = "none" /\ worker[d] = "loaded"
  /\ PhotoHolders = {}
  /\ status' = "approved" /\ public' = TRUE
  /\ Advance(d, "done")
  /\ UNCHANGED <<crashed, approvals, object, overdue, matches, faces, inserted, pc, tx>>

\* Whom the faces match depends on who is enrolled.  No row that is inserted makes
\* anybody wait, so the transaction is one step.
MatchFaces(d, S) ==
  /\ faces = "many" /\ worker[d] = "loaded"
  /\ approvals' = [r \in Rows |-> IF r \in {d} \X S THEN "pending" ELSE approvals[r]]
  /\ Advance(d, "done")
  /\ UNCHANGED <<crashed, status, object, overdue, shown, pc, tx>>

\* Mutant: a match that is there already is not looked for.
NeverMatched == FALSE
Matched == matches # {}

\* Mutant: the notification comes before the approval, which its exception skips.
NotifiedFirst == "commit"
AfterMatch == "approve"

\* process_detected_face.  The photo is matched already, or memory runs out: nothing is
\* written.  Else the closest user is near enough and gets the match, or nobody is.
MatchFace(d) ==
  /\ faces = "one" /\ worker[d] = "loaded"
  /\ \/ Advance(d, "commit") /\ UNCHANGED inserted
     \/ ~Matched /\ Advance(d, AfterMatch) /\ inserted' = {d}
     \/ ~Matched /\ Advance(d, "approve") /\ UNCHANGED inserted
  /\ UNCHANGED <<crashed, status, approvals, object, overdue, public, matches, faces, pc, tx>>

\* The UPDATE waits for the row of the photo.  The notification comes after it; an
\* exception of it is swallowed, and the transaction commits.
ApproveMatched(d) ==
  /\ worker[d] = "approve"
  /\ PhotoHolders = {}
  /\ Advance(d, "marked")
  /\ UNCHANGED <<photo, crashed, pc, tx>>

CommitMatch(d) ==
  /\ worker[d] \in {"commit", "marked"}
  /\ status' = IF worker[d] = "marked" THEN "approved" ELSE status
  /\ matches' = matches \cup inserted
  /\ inserted' = {}
  /\ Advance(d, "done")
  /\ UNCHANGED <<crashed, approvals, object, overdue, public, faces, pc, tx>>

\* The worker dies, or a statement fails: the exception, though swallowed, has aborted
\* the transaction, so that the update of the job raises again.
WorkerFault(d) ==
  /\ "crash" \in Faults
  /\ worker[d] \notin {"waiting", "done"}
  /\ inserted' = {}
  /\ Advance(d, "waiting")
  /\ UNCHANGED <<crashed, status, approvals, object, overdue, public, matches, faces, pc, tx>>

(***************************************************************************)
(* decide.                                                                 *)
(***************************************************************************)
\* The UPDATE waits for the user's rows.
Decide(c, u, v) ==
  /\ pc[c] = "idle"
  /\ RowsOf(u) # {}
  /\ \A r \in RowsOf(u) : RowHolders(r) = {}
  /\ caller' = [caller EXCEPT ![c] = u]
  /\ verdict' = [verdict EXCEPT ![c] = v]
  /\ decided' = [decided EXCEPT ![c] = [r \in RowsOf(u) |-> v]]
  /\ Goto(c, "read")
  /\ UNCHANGED <<photo, crashed, worker, update, awaited>>

Decisions(c) == {View(c)[r] : r \in Rows}

ReadDecisions(c) ==
  /\ pc[c] = "read"
  /\ Goto(c, IF "rejected" \in Decisions(c) THEN "reject"
             ELSE IF "pending" \in Decisions(c) THEN "commit" ELSE "approve")
  /\ UNCHANGED <<photo, crashed, worker, tx>>

UpdatePhoto(c) ==
  /\ pc[c] \in {"reject", "approve"}
  /\ PhotoHolders = {}
  /\ update' = [update EXCEPT ![c] = IF pc[c] = "reject" THEN "rejected" ELSE "approved"]
  /\ Goto(c, IF pc[c] = "reject" THEN "delete" ELSE "commit")
  /\ UNCHANGED <<photo, crashed, worker, caller, verdict, decided, awaited>>

\* A failure to delete is only logged.
DeleteObject(c) ==
  /\ pc[c] = "delete"
  /\ object' \in {object, FALSE}
  /\ Goto(c, "commit")
  /\ UNCHANGED <<crashed, status, approvals, overdue, shown, worker, tx>>

(***************************************************************************)
(* expire_stale, one statement: the photos overdue when it begins are      *)
(* approved, and then those of their approvals that are still pending.     *)
(***************************************************************************)
GrowOverdue ==
  /\ ~overdue
  /\ overdue' = TRUE
  /\ UNCHANGED <<crashed, status, approvals, object, shown, worker, pc, tx>>

\* Mutant: only photos somebody has yet to decide about.
AwaitedIsStale == overdue /\ status = "pending" /\ PendingRows # {}
IsStale == overdue /\ status = "pending"

StartExpiry ==
  /\ pc[Expirer] = "idle"
  /\ IsStale
  /\ awaited' = PendingRows
  /\ Goto(Expirer, "photo")
  /\ UNCHANGED <<photo, crashed, worker, caller, verdict, decided, update>>

\* The id was selected when the statement began; the status, which may have
\* changed while it waited for the row, is not looked at again.
ExpirePhoto ==
  /\ pc[Expirer] = "photo"
  /\ PhotoHolders = {}
  /\ update' = [update EXCEPT ![Expirer] = "approved"]
  /\ Goto(Expirer, "approvals")
  /\ UNCHANGED <<photo, crashed, worker, caller, verdict, decided, awaited>>

\* Mutant: the UPDATE has lost its condition on the decision.
AnyDecision == awaited
StillPending == awaited \cap PendingRows

\* Of the decisions, on the other hand, a changed row is judged afresh.
ExpireApprovals ==
  /\ pc[Expirer] = "approvals"
  /\ \A r \in StillPending : RowHolders(r) = {}
  /\ decided' = [decided EXCEPT ![Expirer] = [r \in StillPending |-> "approved"]]
  /\ Goto(Expirer, "commit")
  /\ UNCHANGED <<photo, crashed, worker, caller, verdict, update, awaited>>

(***************************************************************************)
(* The end of a transaction.                                               *)
(***************************************************************************)
\* Mutant: the task records a status of its own.
OutcomeExpired(a) == IF a = Expirer THEN "expired" ELSE update[a]
Outcome(a) == update[a]

Commit(a) ==
  /\ pc[a] = "commit"
  /\ approvals' = View(a)
  /\ status' = IF update[a] = "none" THEN status ELSE Outcome(a)
  /\ EndTx(a, Over(a))
  /\ UNCHANGED <<crashed, object, overdue, shown, worker>>

\* Mutant: the audit event is the last thing before the commit.
AuditedLast == "commit"
\* The audit event is published before the decisions are read.
AuditedAt == "read"

BrokerFault(c) ==
  /\ "broker" \in Faults
  /\ pc[c] = AuditedAt
  /\ Rollback(c)
  /\ UNCHANGED crashed

\* The process dies or the COMMIT fails, once in a behaviour.
Crash(a) ==
  /\ "crash" \in Faults /\ ~crashed
  /\ pc[a] \notin {"idle", "done"}
  /\ Rollback(a)
  /\ crashed' = TRUE

\* Whom the next statement of a waits for.
WaitsFor(a) ==
  (IF pc[a] \in {"reject", "approve", "photo"} THEN PhotoHolders
   ELSE IF pc[a] = "approvals" THEN UNION {RowHolders(r) : r \in StillPending}
   ELSE {}) \ {a}

\* Decisions lock approvals first and the task the photo first.
DeadlockVictim(a) ==
  /\ \E o \in WaitsFor(a) \cap Actors : a \in WaitsFor(o)
  /\ Rollback(a)
  /\ UNCHANGED crashed

Serve(c) == ReadDecisions(c) \/ UpdatePhoto(c) \/ DeleteObject(c) \/ Commit(c)
Expire == StartExpiry \/ ExpirePhoto \/ ExpireApprovals \/ Commit(Expirer)

HandleMessage(d) ==
  \/ LoadImage(d) \/ NoFaces(d)
  \/ \E S \in SUBSET Users : MatchFaces(d, S)
  \/ MatchFace(d) \/ ApproveMatched(d) \/ CommitMatch(d)

Next ==
  \/ \E d \in Deliveries : HandleMessage(d) \/ WorkerFault(d)
  \/ \E c \in Calls :
       \/ \E u \in Users, v \in Verdicts : Decide(c, u, v)
       \/ Serve(c)
       \/ BrokerFault(c)
  \/ GrowOverdue
  \/ Expire
  \/ \E a \in Actors : Crash(a) \/ DeadlockVictim(a)

Spec == Init /\ [][Next]_vars

\* The task runs every hour, time passes, and the server and the worker finish the
\* transactions they have begun.
Fairness ==
  /\ WF_vars(GrowOverdue)
  /\ SF_vars(Expire)
  /\ \A c \in Calls : SF_vars(Serve(c))
  /\ \A d \in Deliveries : WF_vars(CommitMatch(d))
  /\ \A a \in Actors : WF_vars(DeadlockVictim(a))

FairSpec == Spec /\ Fairness

-----------------------------------------------------------------------------
TypeOK ==
  /\ status \in Verdicts \cup {"pending"}
  /\ approvals \in [Rows -> Verdicts \cup {"pending", Absent}]
  /\ object \in BOOLEAN
  /\ overdue \in BOOLEAN
  /\ crashed \in BOOLEAN
  /\ public \in BOOLEAN /\ faces \in {"none", "one", "many"}
  /\ matches \cup inserted \subseteq Deliveries
  /\ worker \in [Deliveries -> {"waiting", "loaded", "approve", "marked", "commit", "done"}]
  /\ pc \in [Actors -> {"idle", "read", "reject", "approve", "delete", "photo",
                        "approvals", "commit", "done"}]
  /\ caller \in [Actors -> Users \cup {NoUser}]
  /\ verdict \in [Actors -> Verdicts]
  /\ \A a \in Actors :
       /\ DOMAIN decided[a] \subseteq Rows
       /\ \A r \in DOMAIN decided[a] : decided[a][r] \in Verdicts
  /\ update \in [Actors -> Verdicts \cup {"none"}]
  /\ awaited \subseteq Rows

\* What a user has decided nobody but the user changes: not the task that ran out
\* of patience while the decision was being made, and not another user's call.
DecisionIsTheUsers ==
  [][\A r \in Rows :
       approvals[r] \in Verdicts /\ approvals'[r] # approvals[r] =>
         \E c \in Calls : caller[c] = r[2] /\ verdict[c] = approvals'[r]]_vars

\* The photo nobody has rejected keeps its object: as long as no process has died,
\* the deletion, though outside of the transaction, is never premature.
UnrejectedKeepsObject ==
  ~crashed /\ ~object =>
    \/ status # "pending"
    \/ \E c \in Calls : pc[c] = "commit" /\ update[c] = "rejected"

\* However often its event comes, and whatever statement failed before, a photo with a
\* single face is matched with one user at most, and only an approved photo is.
MatchedOnce == Cardinality(matches) <= 1 /\ (matches # {} => status = "approved")

\* The type invariant, the object of a photo that nobody has rejected, and the match.
Inv == TypeOK /\ UnrejectedKeepsObject /\ MatchedOnce

\* A photo does not wait for ever: where two last approvals each missed the other,
\* where a decision was rolled back, or nobody decides, it is approved in the end.
WaitingEnds == status = "pending" ~> status # "pending"

\* Once all have decided, everybody approved, and no call is under way, the photo
\* is approved.  The code does not keep this: of two last approvals that overlap
\* each finds the other pending, and the photo waits for the expiry.
Quiet == \A a \in Actors : pc[a] \in {"idle", "done"}
LastApprovalCounts ==
  Quiet /\ (\E r \in Rows : approvals[r] # Absent)
        /\ (\A r \in Rows : approvals[r] \in {"approved", Absent})
    => status = "approved"
=============================================================================
