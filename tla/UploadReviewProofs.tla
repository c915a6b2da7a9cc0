-------------------------- MODULE UploadReviewProofs --------------------------
(***************************************************************************)
(* Proofs about UploadReview, for any sets of calls, requests, groups and  *)
(* photos and any combination of faults.                                   *)
(***************************************************************************)
EXTENDS UploadReview, TLAPS

USE DEF Handlers

-----------------------------------------------------------------------------
(***************************************************************************)
(* Typing.                                                                 *)
(***************************************************************************)
\* At the start every variable has its type.
LEMMA InitTypeOK == Init => TypeOK
  BY RequestsAssumption DEF Init, TypeOK, Labels, Statuses

\* The end of a call leaves its variables well typed.
LEMMA EndCallTypeOK ==
  ASSUME TypeOK, NEW h \in Handlers, EndCall(h)
  PROVE  /\ pc' \in [Handlers -> Labels]
         /\ grp' \in [Handlers -> Groups \cup {NoGroup}]
         /\ reqs' \in [Handlers -> SUBSET Requests]
         /\ cur' \in [Handlers -> Requests \cup {NoRequest}]
         /\ todo' \in [Handlers -> SUBSET Photos]
         /\ promoted' \in [Handlers -> SUBSET Photos]
         /\ marked' \in [Handlers -> SUBSET Photos]
         /\ decided' \in [Handlers -> SUBSET Requests]
         /\ grpDone' \in [Handlers -> BOOLEAN]
  BY DEF TypeOK, EndCall, ReleaseLocks, Goto, Labels

\* Every step keeps every variable within its type.
LEMMA NextTypeOK == IInv /\ [Next]_vars => TypeOK'
<1> SUFFICES ASSUME IInv, [Next]_vars PROVE TypeOK'
  OBVIOUS
<1>0. TypeOK /\ \A h \in Handlers : PlanInv(h)
  BY DEF IInv, CallInv
<1> USE <1>0
<1> USE DEF TypeOK, db, store, locks, call
<1>1. ASSUME NEW r \in Requests, RegisterBatch(r) PROVE TypeOK'
  BY <1>1 DEF RegisterBatch
<1>2. ASSUME NEW p \in Photos, CompleteTransfer(p) PROVE TypeOK'
  BY <1>2 DEF CompleteTransfer
<1>3. ASSUME NEW h \in Handlers, Start(h) PROVE TypeOK'
  <2>1. ASSUME NEW r \in Requests, StartRequest(h, r) PROVE TypeOK'
    BY <2>1 DEF StartRequest, Goto, Labels
  <2>2. ASSUME NEW g \in Groups, StartGroup(h, g) PROVE TypeOK'
    BY <2>2 DEF StartGroup, RequestsOf, Goto, Labels
  <2>3. QED BY <1>3, <2>1, <2>2 DEF Start
<1>4. ASSUME NEW h \in Handlers, Step(h) PROVE TypeOK'
  <2>1. ASSUME NEW r \in Requests, ReadRequest(h, r) PROVE TypeOK'
    BY <2>1 DEF ReadRequest, Goto, Labels
  <2>2. CASE ReadPhotos(h)
    BY <2>2 DEF ReadPhotos, PhotosOf, Goto, Labels
  <2>3. ASSUME NEW p \in Photos, Promote(h, p) PROVE TypeOK'
    BY <2>3 DEF Promote, CopyToFinal, Goto, Labels
  <2>4. ASSUME NEW p \in Photos, MarkApproved(h, p) PROVE TypeOK'
    BY <2>4 DEF MarkApproved, Goto, Labels
  <2>5. ASSUME NEW p \in Photos, MarkRejected(h, p) PROVE TypeOK'
    BY <2>5 DEF MarkRejected, FinishRequest, Goto, Labels
  <2>6. CASE DecideRequest(h)
    <3>1. cur[h] \in Requests
      BY <2>6 DEF DecideRequest, PlanInv, Working
    <3>2. QED BY <2>6, <3>1 DEF DecideRequest, FinishRequest, PhotosOf, Goto, Labels
  <2>7. CASE DecideGroup(h)
    BY <2>7 DEF DecideGroup, Goto, Labels
  <2>8. CASE Unstage(h)
    BY <2>8 DEF Unstage, AfterUnstage, Goto, Labels
  <2>9. CASE Publish(h)
    BY <2>9 DEF Publish, Goto, Labels
  <2>10. CASE Audit(h)
    BY <2>10 DEF Audit, Goto, Labels
  <2>11. CASE Commit(h)
    <3>1. Verdict(h) \in {"approved", "rejected"}
      BY DEF Verdict
    <3>2. /\ reqStatus' \in [Requests -> Statuses]
          /\ photoStatus' \in [Photos -> {"staged", "approved", "rejected"}]
          /\ groupStatus' \in [Groups -> Statuses]
          /\ rows' \in [Photos -> Nat]
      BY <2>11, <3>1 DEF Commit, Statuses
    <3>3. QED BY <2>11, <3>2, EndCallTypeOK DEF Commit
  <2>12. CASE Refuse(h)
    BY <2>12, EndCallTypeOK DEF Refuse, Raise, Goto, Labels
  <2>13. CASE Cleanup(h)
    BY <2>13, EndCallTypeOK DEF Cleanup
  <2>14. QED
    BY <1>4, <2>1, <2>2, <2>3, <2>4, <2>5, <2>6, <2>7, <2>8, <2>9, <2>10,
       <2>11, <2>12, <2>13 DEF Step
<1>5. ASSUME NEW h \in Handlers, RaiseAborted(h) PROVE TypeOK'
  BY <1>5, EndCallTypeOK DEF RaiseAborted, ReleaseLocks, Goto, Labels
<1>6. ASSUME NEW h \in Handlers, Fault(h) PROVE TypeOK'
  BY <1>5, <1>6, EndCallTypeOK DEF Fault, StorageFault, BrokerFault,
     DatabaseFault, Abort, Raise, Goto, Labels
<1>7. CASE UNCHANGED vars
  BY <1>7 DEF vars
<1>8. QED
  BY <1>1, <1>2, <1>3, <1>4, <1>5, <1>6, <1>7 DEF Next, DeadlockVictim

-----------------------------------------------------------------------------
(***************************************************************************)
(* What a step of one call leaves alone.                                   *)
(***************************************************************************)
SameCall(o) ==
  /\ pc'[o] = pc[o] /\ grp'[o] = grp[o] /\ reqs'[o] = reqs[o]
  /\ cur'[o] = cur[o] /\ todo'[o] = todo[o] /\ promoted'[o] = promoted[o]
  /\ marked'[o] = marked[o] /\ decided'[o] = decided[o]
  /\ grpDone'[o] = grpDone[o]

Act(h) == Start(h) \/ Step(h) \/ DeadlockVictim(h) \/ Fault(h)

\* The calls of others do not notice.
LEMMA OthersSame ==
  ASSUME TypeOK, NEW h \in Handlers, Act(h), NEW o \in Handlers \ {h}
  PROVE  SameCall(o)
<1> USE DEF TypeOK, SameCall, Goto, locks
<1>1. CASE Start(h)
  BY <1>1 DEF Start, StartRequest, StartGroup
<1>2. ASSUME EndCall(h) PROVE SameCall(o)
  BY <1>2 DEF EndCall, ReleaseLocks
<1>3. ASSUME Raise(h) \/ RaiseAborted(h) PROVE SameCall(o)
  BY <1>2, <1>3 DEF Raise, RaiseAborted, ReleaseLocks
<1>4. CASE Step(h)
  <2>1. ASSUME NEW r \in Requests, ReadRequest(h, r) PROVE SameCall(o)
    BY <2>1 DEF ReadRequest
  <2>2. CASE ReadPhotos(h)
    BY <2>2 DEF ReadPhotos
  <2>3. ASSUME NEW p \in Photos, Promote(h, p) PROVE SameCall(o)
    BY <2>3 DEF Promote
  <2>4. ASSUME NEW p \in Photos, MarkApproved(h, p) PROVE SameCall(o)
    BY <2>4 DEF MarkApproved
  <2>5. ASSUME NEW p \in Photos, MarkRejected(h, p) PROVE SameCall(o)
    BY <2>5 DEF MarkRejected, FinishRequest
  <2>6. CASE DecideRequest(h)
    BY <2>6 DEF DecideRequest, FinishRequest
  <2>7. CASE DecideGroup(h)
    BY <2>7 DEF DecideGroup
  <2>8. CASE Unstage(h) \/ Publish(h) \/ Audit(h)
    BY <2>8 DEF Unstage, Publish, Audit
  <2>9. CASE Commit(h) \/ Cleanup(h)
    BY <2>9, <1>2 DEF Commit, Cleanup
  <2>10. CASE Refuse(h)
    BY <2>10, <1>3 DEF Refuse
  <2>11. QED
    BY <1>4, <2>1, <2>2, <2>3, <2>4, <2>5, <2>6, <2>7, <2>8, <2>9, <2>10 DEF Step
<1>5. CASE DeadlockVictim(h)
  BY <1>3, <1>5 DEF DeadlockVictim
<1>6. CASE Fault(h)
  BY <1>2, <1>3, <1>6 DEF Fault, StorageFault, BrokerFault, DatabaseFault, Abort
<1>7. QED BY <1>1, <1>4, <1>5, <1>6 DEF Act

\* Only a commit writes a status or a row of photos.
Quiet == /\ UNCHANGED <<reqStatus, photoStatus, groupStatus, rows>>
         /\ registered \subseteq registered'
         /\ uploaded \subseteq uploaded'

\* A step of a call commits or leaves the committed decisions as they are.
LEMMA QuietOrCommit ==
  ASSUME NEW h \in Handlers, Act(h)
  PROVE  Quiet \/ Commit(h)
<1> USE DEF Quiet, db
<1>1. ASSUME Raise(h) \/ RaiseAborted(h) PROVE Quiet
  BY <1>1 DEF Raise, RaiseAborted
<1>2. CASE Start(h)
  BY <1>2 DEF Start, StartRequest, StartGroup
<1>3. CASE Step(h)
  <2>1. ASSUME NEW r \in Requests, ReadRequest(h, r) PROVE Quiet
    BY <2>1 DEF ReadRequest
  <2>2. ASSUME NEW p \in Photos, Promote(h, p) \/ MarkApproved(h, p) \/ MarkRejected(h, p)
        PROVE Quiet
    BY <2>2 DEF Promote, MarkApproved, MarkRejected
  <2>3. CASE ReadPhotos(h) \/ DecideRequest(h) \/ DecideGroup(h)
    BY <2>3 DEF ReadPhotos, DecideRequest, DecideGroup
  <2>4. CASE Unstage(h) \/ Publish(h) \/ Audit(h) \/ Cleanup(h)
    BY <2>4 DEF Unstage, Publish, Audit, Cleanup
  <2>5. CASE Refuse(h)
    BY <2>5, <1>1 DEF Refuse
  <2>6. QED BY <1>3, <2>1, <2>2, <2>3, <2>4, <2>5 DEF Step
<1>4. CASE DeadlockVictim(h)
  BY <1>1, <1>4 DEF DeadlockVictim
<1>5. CASE Fault(h)
  BY <1>1, <1>5 DEF Fault, StorageFault, BrokerFault, DatabaseFault, Abort
<1>6. QED BY <1>2, <1>3, <1>4, <1>5 DEF Act

\* No step of a call creates a request or takes one away.
LEMMA ActKeepsRequests ==
  ASSUME NEW h \in Handlers, Act(h)
  PROVE  registered' = registered
  BY DEF Act, Start, StartRequest, StartGroup, Step, ReadRequest, ReadPhotos,
     Promote, MarkApproved, MarkRejected, DecideRequest, DecideGroup, Unstage,
     Publish, Audit, Commit, Cleanup, Refuse, DeadlockVictim, Fault,
     StorageFault, BrokerFault, DatabaseFault, Abort, Raise, RaiseAborted, db

\* Registrations and finished transfers touch no row of photos and no decided request.
LEMMA EnvironmentQuiet ==
  ASSUME \/ \E r \in Requests : RegisterBatch(r)
         \/ \E p \in Photos : CompleteTransfer(p)
         \/ UNCHANGED vars
  PROVE  Quiet /\ \A o \in Handlers : SameCall(o)
  BY DEF RegisterBatch, CompleteTransfer, vars, db, call, Quiet, SameCall

-----------------------------------------------------------------------------
(***************************************************************************)
(* The state in which a call commits.                                      *)
(***************************************************************************)
\* What a call that is about to commit has decided: whole requests, undecided so far.
LEMMA CommitReady ==
  ASSUME IInv, NEW h \in Handlers, pc[h] = "commit"
  PROVE  /\ decided[h] # {}
         /\ decided[h] \subseteq registered
         /\ \A r \in decided[h] : reqStatus[r] = "pending"
         /\ \A p \in Photos : p \in marked[h] <=> RequestOf[p] \in decided[h]
         /\ \A p \in Photos : p \in promoted[h] <=>
                                h \in Approvers /\ RequestOf[p] \in decided[h]
         /\ promoted[h] \subseteq uploaded
         /\ grpDone[h] <=> grp[h] # NoGroup
<1>1. TypeOK /\ LockInv /\ CallInv(h)
  BY DEF IInv
<1>2. PlanInv(h)
  BY <1>1 DEF CallInv
<1>3. /\ decided[h] # {} /\ decided[h] \subseteq registered
      /\ grpDone[h] <=> grp[h] # NoGroup
  BY <1>2 DEF PlanInv, Settled
<1>4. \A r \in decided[h] : reqStatus[r] = "pending"
  BY <1>1 DEF LockInv
<1>5. CASE h \in Approvers
  BY <1>1, <1>3, <1>4, <1>5 DEF CallInv, ApprovalInv, PhotosIn
<1>6. CASE h \in Rejecters
  <2>1. h \notin Approvers
    BY <1>6, CallsAssumption
  <2>2. promoted[h] = {} /\ marked[h] = PhotosIn(decided[h])
    BY <1>1, <1>6 DEF CallInv, RejectionInv
  <2>3. QED BY <1>3, <1>4, <2>1, <2>2 DEF PhotosIn
<1>7. QED BY <1>5, <1>6

-----------------------------------------------------------------------------
(***************************************************************************)
(* A committed decision covers a request and all its photos.               *)
(***************************************************************************)
\* A commit decides whole requests with all their photos.
LEMMA NextDecidedTogether == IInv /\ [Next]_vars => DecidedTogether'
<1> SUFFICES ASSUME IInv, [Next]_vars PROVE DecidedTogether'
  OBVIOUS
<1>1. TypeOK /\ DecidedTogether
  BY DEF IInv
<1>2. ASSUME Quiet PROVE DecidedTogether'
  BY <1>1, <1>2 DEF Quiet, DecidedTogether
<1>3. ASSUME NEW h \in Handlers, Commit(h) PROVE DecidedTogether'
  <2>1. SUFFICES ASSUME NEW p \in Photos
                 PROVE  LET status == reqStatus'[RequestOf[p]] IN
                        /\ photoStatus'[p] = IF status = "pending" THEN "staged"
                                             ELSE status
                        /\ rows'[p] = IF status = "approved" THEN 1 ELSE 0
                        /\ status = "approved" => p \in uploaded'
    BY DEF DecidedTogether
  <2>2. pc[h] = "commit" /\ uploaded' = uploaded /\ RequestOf[p] \in Requests
    BY <1>3, RequestsAssumption DEF Commit
  <2>3. CASE RequestOf[p] \in decided[h]
    <3>1. p \in marked[h] /\ reqStatus[RequestOf[p]] = "pending"
      BY <2>2, <2>3, CommitReady
    <3>2. p \in promoted[h] <=> h \in Approvers
      BY <2>2, <2>3, CommitReady
    <3>3. rows[p] = 0
      BY <1>1, <3>1 DEF DecidedTogether
    <3>4. reqStatus'[RequestOf[p]] = Verdict(h) /\ photoStatus'[p] = Verdict(h)
      BY <1>3, <2>2, <2>3, <3>1 DEF Commit
    <3>5. rows'[p] = IF h \in Approvers THEN 1 ELSE 0
      BY <1>3, <3>2, <3>3 DEF Commit
    <3>6. h \in Approvers => p \in uploaded
      BY <2>2, <3>2, CommitReady
    <3>7. QED BY <2>2, <3>4, <3>5, <3>6 DEF Verdict
  <2>4. CASE RequestOf[p] \notin decided[h]
    <3>1. p \notin marked[h] /\ p \notin promoted[h]
      BY <2>2, <2>4, CommitReady
    <3>2. /\ reqStatus'[RequestOf[p]] = reqStatus[RequestOf[p]]
          /\ photoStatus'[p] = photoStatus[p] /\ rows'[p] = rows[p]
      BY <1>3, <2>2, <2>4, <3>1 DEF Commit
    <3>3. QED BY <1>1, <2>2, <3>2 DEF DecidedTogether
  <2>5. QED BY <2>3, <2>4
<1>4. QED
  BY <1>2, <1>3, QuietOrCommit, EnvironmentQuiet DEF Next, Act

-----------------------------------------------------------------------------
(***************************************************************************)
(* Row locks have one holder, and what is locked is undecided.             *)
(***************************************************************************)
\* What a step does to the locks of its call: it releases them, keeps them, or
\* takes one that is free.
LEMMA LockEffect ==
  ASSUME TypeOK, NEW h \in Handlers, PlanInv(h), Act(h)
  PROVE  \/ marked'[h] = {} /\ decided'[h] = {} /\ ~grpDone'[h]
         \/ /\ grp'[h] = grp[h] \/ ~grpDone'[h]
            /\ \/ marked'[h] = marked[h]
               \/ \E p \in Photos : /\ PhotoHolders(p) = {}
                                    /\ marked'[h] = marked[h] \cup {p}
            /\ \/ decided'[h] = decided[h]
               \/ /\ RequestHolders(cur[h]) = {}
                  /\ reqStatus[cur[h]] = "pending"
                  /\ decided'[h] = decided[h] \cup {cur[h]}
            /\ \/ grpDone'[h] = grpDone[h]
               \/ /\ GroupHolders(grp[h]) = {}
                  /\ groupStatus[grp[h]] = "pending"
                  /\ pc[h] = "group"
<1> DEFINE Goal ==
         \/ marked'[h] = {} /\ decided'[h] = {} /\ ~grpDone'[h]
         \/ /\ grp'[h] = grp[h] \/ ~grpDone'[h]
            /\ \/ marked'[h] = marked[h]
               \/ \E p \in Photos : /\ PhotoHolders(p) = {}
                                    /\ marked'[h] = marked[h] \cup {p}
            /\ \/ decided'[h] = decided[h]
               \/ /\ RequestHolders(cur[h]) = {}
                  /\ reqStatus[cur[h]] = "pending"
                  /\ decided'[h] = decided[h] \cup {cur[h]}
            /\ \/ grpDone'[h] = grpDone[h]
               \/ /\ GroupHolders(grp[h]) = {}
                  /\ groupStatus[grp[h]] = "pending"
                  /\ pc[h] = "group"
<1> USE DEF TypeOK, locks
<1>1. ASSUME EndCall(h) \/ ReleaseLocks(h) PROVE Goal
  BY <1>1 DEF EndCall, ReleaseLocks
<1>2. ASSUME Raise(h) \/ RaiseAborted(h) PROVE Goal
  BY <1>1, <1>2 DEF Raise, RaiseAborted
<1>3. CASE Start(h)
  BY <1>3 DEF Start, StartRequest, StartGroup, PlanInv, Settled
<1>4. CASE Step(h)
  <2>1. ASSUME NEW r \in Requests, ReadRequest(h, r) PROVE Goal
    BY <2>1 DEF ReadRequest
  <2>2. CASE ReadPhotos(h)
    BY <2>2 DEF ReadPhotos
  <2>3. ASSUME NEW p \in Photos, Promote(h, p) PROVE Goal
    BY <2>3 DEF Promote
  <2>4. ASSUME NEW p \in Photos, MarkApproved(h, p) PROVE Goal
    BY <2>4 DEF MarkApproved
  <2>5. ASSUME NEW p \in Photos, MarkRejected(h, p) PROVE Goal
    BY <2>5 DEF MarkRejected, FinishRequest
  <2>6. CASE DecideRequest(h)
    BY <2>6 DEF DecideRequest, FinishRequest, StillPending
  <2>7. CASE DecideGroup(h)
    BY <2>7 DEF DecideGroup
  <2>8. CASE Unstage(h) \/ Publish(h) \/ Audit(h)
    BY <2>8 DEF Unstage, Publish, Audit
  <2>9. CASE Commit(h) \/ Cleanup(h)
    BY <2>9, <1>1 DEF Commit, Cleanup
  <2>10. CASE Refuse(h)
    BY <2>10, <1>2 DEF Refuse
  <2>11. QED
    BY <1>4, <2>1, <2>2, <2>3, <2>4, <2>5, <2>6, <2>7, <2>8, <2>9, <2>10 DEF Step
<1>5. CASE DeadlockVictim(h)
  BY <1>2, <1>5 DEF DeadlockVictim
<1>6. CASE Fault(h)
  BY <1>1, <1>2, <1>6 DEF Fault, StorageFault, BrokerFault, DatabaseFault, Abort
<1>7. QED BY <1>3, <1>4, <1>5, <1>6 DEF Act

\* The invariant splits into what is locked and who shares a lock.
LockedPending(h) ==
  /\ \A r \in decided[h] : reqStatus[r] = "pending"
  /\ grpDone[h] => grp[h] # NoGroup /\ groupStatus[grp[h]] = "pending"
Apart(h, o) ==
  /\ marked[h] \cap marked[o] = {}
  /\ decided[h] \cap decided[o] = {}
  /\ grpDone[h] /\ grpDone[o] => grp[h] # grp[o]

\* LockInv is a matter of each lock and each two calls.
LEMMA LockInvSplit ==
  LockInv <=> \A h \in Handlers :
                LockedPending(h) /\ \A o \in Handlers \ {h} : Apart(h, o)
  BY DEF LockInv, LockedPending, Apart

\* A step takes only locks that are free, of rows that are undecided.
LEMMA NextLockInv == IInv /\ [Next]_vars => LockInv'
<1> SUFFICES ASSUME IInv, [Next]_vars PROVE LockInv'
  OBVIOUS
<1>1. TypeOK /\ LockInv /\ \A h \in Handlers : CallInv(h)
  BY DEF IInv
<1>2. \A h \in Handlers : LockedPending(h) /\ \A o \in Handlers \ {h} : Apart(h, o)
  BY <1>1, LockInvSplit
<1>3. ASSUME Quiet, \A o \in Handlers : SameCall(o) PROVE LockInv'
  BY <1>1, <1>3 DEF Quiet, SameCall, LockInv
<1>4. ASSUME NEW h \in Handlers, Act(h)
      PROVE  LockInv'
  <2>0. PlanInv(h)
    BY <1>1 DEF CallInv
  <2> USE <2>0
  <2>1. \A o \in Handlers \ {h} : SameCall(o)
    BY <1>1, <1>4, OthersSame
  <2>2. ASSUME NEW o \in Handlers \ {h} PROVE Apart(h, o)'
    <3>1. Apart(h, o) /\ SameCall(o)
      BY <1>2, <2>1
    <3>2. CASE marked'[h] = {} /\ decided'[h] = {} /\ ~grpDone'[h]
      BY <3>2 DEF Apart
    <3>3. CASE ~(marked'[h] = {} /\ decided'[h] = {} /\ ~grpDone'[h])
      <4>1. marked'[h] \cap marked'[o] = {}
        BY <1>1, <1>4, <3>1, <3>3, LockEffect DEF Apart, SameCall, PhotoHolders
      <4>2. decided'[h] \cap decided'[o] = {}
        BY <1>1, <1>4, <3>1, <3>3, LockEffect DEF Apart, SameCall, RequestHolders
      <4>3. grpDone'[h] /\ grpDone'[o] => grp'[h] # grp'[o]
        <5>1. /\ grp'[h] = grp[h] \/ ~grpDone'[h]
              /\ grpDone'[h] = grpDone[h] \/ GroupHolders(grp[h]) = {}
          BY <1>1, <1>4, <3>3, LockEffect
        <5>2. GroupHolders(grp[h]) = {} => ~(grpDone[o] /\ grp[o] = grp[h])
          BY DEF GroupHolders
        <5>3. grpDone[h] \in BOOLEAN /\ grpDone[o] \in BOOLEAN
          BY <1>1 DEF TypeOK
        <5>4. QED BY <3>1, <5>1, <5>2, <5>3 DEF Apart, SameCall
      <4>4. QED BY <4>1, <4>2, <4>3 DEF Apart
    <3>4. QED BY <3>2, <3>3
  <2>3. ASSUME NEW o \in Handlers \ {h}, NEW q \in Handlers \ {o}
        PROVE  Apart(o, q)'
    <3>1. CASE q = h
      BY <2>2, <3>1 DEF Apart
    <3>2. CASE q # h
      BY <1>2, <2>1, <3>2 DEF Apart, SameCall
    <3>3. QED BY <3>1, <3>2
  <2>4. CASE Quiet
    <3>1. LockedPending(h)'
      <4>1. LockedPending(h) /\ PlanInv(h)
        BY <1>1, <1>2 DEF CallInv
      <4>2. \A r \in decided'[h] : reqStatus'[r] = "pending"
        BY <1>1, <1>4, <2>4, <4>1, LockEffect DEF LockedPending, Quiet
      <4>3. grpDone'[h] => grp'[h] # NoGroup /\ groupStatus'[grp'[h]] = "pending"
        BY <1>1, <1>4, <2>4, <4>1, LockEffect DEF LockedPending, PlanInv, Quiet
      <4>4. QED BY <4>2, <4>3 DEF LockedPending
    <3>2. ASSUME NEW o \in Handlers \ {h} PROVE LockedPending(o)'
      BY <1>2, <2>1, <2>4 DEF LockedPending, SameCall, Quiet
    <3>3. QED BY <2>2, <2>3, <3>1, <3>2 DEF LockInv, LockedPending, Apart
  <2>5. CASE Commit(h)
    <3>1. LockedPending(h)'
      BY <1>1, <2>5 DEF Commit, EndCall, ReleaseLocks, LockedPending, TypeOK
    <3>2. ASSUME NEW o \in Handlers \ {h} PROVE LockedPending(o)'
      <4>1. LockedPending(o) /\ Apart(h, o) /\ SameCall(o)
        BY <1>2, <2>1
      <4>2. \A r \in decided[o] : r \in Requests /\ r \notin decided[h]
        BY <1>1, <4>1 DEF Apart, TypeOK
      <4>3. \A r \in decided[o] : reqStatus'[r] = reqStatus[r]
        BY <1>1, <2>5, <4>2 DEF Commit
      <4>4. grpDone[o] => grp[o] \in Groups /\ ~(grpDone[h] /\ grp[h] = grp[o])
        BY <1>1, <4>1 DEF Apart, LockedPending, TypeOK
      <4>5. grpDone[o] => groupStatus'[grp[o]] = groupStatus[grp[o]]
        BY <1>1, <2>5, <4>4 DEF Commit
      <4>6. QED BY <4>1, <4>3, <4>5 DEF LockedPending, SameCall
    <3>3. QED BY <2>2, <2>3, <3>1, <3>2 DEF LockInv, LockedPending, Apart
  <2>6. QED BY <1>4, <2>4, <2>5, QuietOrCommit
<1>5. QED
  BY <1>3, <1>4, EnvironmentQuiet DEF Next, Act

-----------------------------------------------------------------------------
(***************************************************************************)
(* The progress of each call.                                              *)
(***************************************************************************)
\* CallInv of a call depends on its own variables, and is kept when uploads
\* are registered or complete.
LEMMA CallInvFrame ==
  ASSUME NEW o \in Handlers, CallInv(o), SameCall(o),
         registered \subseteq registered', uploaded \subseteq uploaded'
  PROVE  CallInv(o)'
<1>1. PlanInv(o)'
  BY DEF CallInv, PlanInv, SameCall
<1>2. ASSUME o \in Approvers PROVE ApprovalInv(o)'
  BY <1>2 DEF CallInv, ApprovalInv, SameCall, PhotosIn
<1>3. ASSUME o \in Rejecters PROVE RejectionInv(o)'
  BY <1>3 DEF CallInv, RejectionInv, SameCall, PhotosIn
<1>4. QED BY <1>1, <1>2, <1>3 DEF CallInv

\* A call that has ended holds nothing.
LEMMA EndCallInv ==
  ASSUME TypeOK, NEW h \in Handlers, EndCall(h)
  PROVE  CallInv(h)'
<1>1. /\ pc'[h] = "idle" /\ grp'[h] = NoGroup /\ reqs'[h] = {}
      /\ promoted'[h] = {} /\ marked'[h] = {} /\ decided'[h] = {}
      /\ ~grpDone'[h]
  BY DEF EndCall, ReleaseLocks, Goto, TypeOK
<1>2. PlanInv(h)'
  BY <1>1 DEF PlanInv, Working, Settled
<1>3. ApprovalInv(h)' /\ RejectionInv(h)'
  BY <1>1 DEF ApprovalInv, RejectionInv, PhotosIn
<1>4. QED BY <1>2, <1>3 DEF CallInv

\* An exception leaves an approval with its clean-up only.
LEMMA RaiseCallInv ==
  ASSUME TypeOK, NEW h \in Handlers, CallInv(h), pc[h] # "idle",
         Raise(h) \/ RaiseAborted(h)
  PROVE  CallInv(h)'
<1>1. CASE h \in Rejecters
  <2>1. EndCall(h)
    BY <1>1, CallsAssumption DEF Raise, RaiseAborted
  <2>2. QED BY <2>1, EndCallInv
<1>2. CASE h \in Approvers /\ h \notin Rejecters
  <2>1. /\ pc'[h] = "cleanup" /\ grp'[h] = grp[h] /\ reqs'[h] = reqs[h]
        /\ registered' = registered
        /\ decided'[h] \subseteq decided[h]
    BY <1>2 DEF Raise, RaiseAborted, Goto, ReleaseLocks, locks, db, TypeOK
  <2>2. reqs[h] \cap decided[h] = {}
    BY <1>2 DEF CallInv, PlanInv, ApprovalInv
  <2>3. PlanInv(h)'
    BY <2>1, <2>2 DEF CallInv, PlanInv, Working, Settled
  <2>4. ApprovalInv(h)'
    BY <2>1 DEF ApprovalInv
  <2>5. QED BY <1>2, <2>3, <2>4 DEF CallInv
<1>3. QED BY <1>1, <1>2

\* A call starts with nothing written.
LEMMA StartCallInv ==
  ASSUME TypeOK, NEW h \in Handlers, CallInv(h), Start(h)
  PROVE  CallInv(h)'
<1>1. PlanInv(h) /\ pc[h] = "idle"
  BY DEF CallInv, Start, StartRequest, StartGroup
<1>2. /\ promoted[h] = {} /\ marked[h] = {} /\ decided[h] = {} /\ ~grpDone[h]
      /\ grp[h] = NoGroup
  BY <1>1 DEF PlanInv, Settled
<1>3. /\ pc'[h] = "read" /\ promoted'[h] = {} /\ marked'[h] = {}
      /\ decided'[h] = {} /\ ~grpDone'[h] /\ registered' = registered
  BY <1>2 DEF Start, StartRequest, StartGroup, Goto, TypeOK, locks, db
<1>4. PlanInv(h)'
  <2>1. ASSUME NEW r \in Requests, StartRequest(h, r) PROVE PlanInv(h)'
    <3>1. reqs'[h] = {r} /\ grp'[h] = NoGroup /\ r \in registered
      BY <1>2, <2>1 DEF StartRequest, TypeOK
    <3>2. QED BY <1>3, <3>1 DEF PlanInv, Working, Settled
  <2>2. ASSUME NEW g \in Groups, StartGroup(h, g) PROVE PlanInv(h)'
    <3>1. reqs'[h] = RequestsOf(g) /\ grp'[h] = g /\ g # NoGroup
      BY <2>2, RequestsAssumption DEF StartGroup, TypeOK
    <3>2. QED BY <1>3, <3>1 DEF PlanInv, Working, Settled, RequestsOf
  <2>3. QED BY <2>1, <2>2 DEF Start
<1>5. ApprovalInv(h)' /\ RejectionInv(h)'
  BY <1>3 DEF ApprovalInv, RejectionInv, PhotosIn
<1>6. QED BY <1>4, <1>5 DEF CallInv

\* The reading steps: nothing is promoted, marked or decided.
LEMMA ReadCallInv ==
  ASSUME TypeOK, NEW h \in Handlers, CallInv(h),
         (\E r \in Requests : ReadRequest(h, r)) \/ ReadPhotos(h)
  PROVE  CallInv(h)'
<1> USE DEF CallInv, locks, db, Goto, TypeOK
<1>1. ASSUME NEW r \in Requests, ReadRequest(h, r) PROVE CallInv(h)'
  <2>1. /\ pc[h] = "read" /\ cur'[h] = r /\ r \in reqs[h]
        /\ pc'[h] = IF h \in Approvers THEN "photos" ELSE "decide"
        /\ reqs'[h] = reqs[h] /\ decided'[h] = decided[h] /\ grp'[h] = grp[h]
        /\ promoted'[h] = promoted[h] /\ marked'[h] = marked[h]
        /\ grpDone'[h] = grpDone[h]
        /\ registered' = registered /\ uploaded' = uploaded
    BY <1>1 DEF ReadRequest
  <2>2. PlanInv(h)'
    BY <2>1 DEF PlanInv, Working, Settled
  <2>3. h \in Approvers => ApprovalInv(h)'
    BY <2>1 DEF ApprovalInv, PhotosIn
  <2>4. h \in Rejecters => RejectionInv(h)'
    BY <2>1, CallsAssumption DEF RejectionInv, PhotosIn
  <2>5. QED BY <2>2, <2>3, <2>4
<1>2. ASSUME ReadPhotos(h) PROVE CallInv(h)'
  <2>1. /\ pc[h] = "photos" /\ pc'[h] = "promote" /\ cur'[h] = cur[h]
        /\ todo'[h] = PhotosIn({cur[h]}) /\ PhotosIn({cur[h]}) \subseteq uploaded
        /\ reqs'[h] = reqs[h] /\ decided'[h] = decided[h] /\ grp'[h] = grp[h]
        /\ promoted'[h] = promoted[h] /\ marked'[h] = marked[h]
        /\ grpDone'[h] = grpDone[h]
        /\ registered' = registered /\ uploaded' = uploaded
    BY <1>2 DEF ReadPhotos, PhotosOf, PhotosIn
  <2>2. PlanInv(h)'
    BY <2>1 DEF PlanInv, Working, Settled
  <2>3. h \in Approvers => ApprovalInv(h)'
    BY <2>1 DEF ApprovalInv, PhotosIn
  <2>4. h \notin Rejecters
    BY <2>1 DEF RejectionInv
  <2>5. QED BY <2>2, <2>3, <2>4
<1>3. QED BY <1>1, <1>2

\* An approval comes to its next photo, and marks it.
LEMMA PhotoCallInv ==
  ASSUME TypeOK, NEW h \in Handlers, CallInv(h), NEW p \in Photos,
         Promote(h, p) \/ MarkApproved(h, p)
  PROVE  CallInv(h)'
<1> USE DEF CallInv, locks, db, Goto, TypeOK
<1>1. h \in Approvers /\ h \notin Rejecters
  BY DEF Promote, MarkApproved, RejectionInv
<1>2. CASE Promote(h, p)
  <2>1. /\ pc[h] = "promote" /\ pc'[h] = "mark" /\ cur'[h] = cur[h]
        /\ p \in todo[h] /\ todo'[h] = todo[h] \ {p}
        /\ reqs'[h] = reqs[h] /\ decided'[h] = decided[h] /\ grp'[h] = grp[h]
        /\ promoted'[h] = promoted[h] \cup {p} /\ marked'[h] = marked[h]
        /\ grpDone'[h] = grpDone[h]
        /\ registered' = registered /\ uploaded' = uploaded
    BY <1>2 DEF Promote
  <2>2. PlanInv(h)'
    BY <2>1 DEF PlanInv, Working, Settled
  <2>3. /\ p \notin promoted[h] /\ RequestOf[p] = cur[h]
        /\ marked'[h] = promoted'[h] \ {p}
    BY <1>1, <2>1 DEF ApprovalInv, PhotosIn, PlanInv, Working
  <2>4. promoted'[h] = PhotosIn(decided[h]) \cup (PhotosIn({cur[h]}) \ todo'[h])
    BY <1>1, <2>1, <2>3 DEF ApprovalInv, PhotosIn
  <2>5. ApprovalInv(h)'
    BY <1>1, <2>1, <2>3, <2>4 DEF ApprovalInv, PhotosIn
  <2>6. QED BY <1>1, <2>2, <2>5
<1>3. CASE MarkApproved(h, p)
  <2>1. /\ pc[h] = "mark" /\ cur'[h] = cur[h] /\ todo'[h] = todo[h]
        /\ pc'[h] = IF todo[h] = {} THEN "decide" ELSE "promote"
        /\ p \in promoted[h] \ marked[h] /\ marked'[h] = marked[h] \cup {p}
        /\ reqs'[h] = reqs[h] /\ decided'[h] = decided[h] /\ grp'[h] = grp[h]
        /\ promoted'[h] = promoted[h] /\ grpDone'[h] = grpDone[h]
        /\ registered' = registered /\ uploaded' = uploaded
    BY <1>3 DEF MarkApproved
  <2>2. PlanInv(h)'
    BY <2>1 DEF PlanInv, Working, Settled
  <2>3. marked'[h] = promoted'[h]
    BY <1>1, <2>1 DEF ApprovalInv
  <2>4. ApprovalInv(h)'
    BY <1>1, <2>1, <2>3 DEF ApprovalInv, PhotosIn
  <2>5. QED BY <1>1, <2>2, <2>4
<1>4. QED BY <1>2, <1>3

\* The request row is decided: an approval is done with the request, a
\* rejection turns to its photos.
LEMMA DecideCallInv ==
  ASSUME TypeOK, NEW h \in Handlers, CallInv(h), DecideRequest(h)
  PROVE  CallInv(h)'
<1> USE DEF CallInv, locks, db, Goto, TypeOK
<1>1. /\ pc[h] = "decide" /\ cur[h] \in reqs[h] /\ cur[h] \in Requests
      /\ cur[h] \notin decided[h] /\ reqs[h] \cap decided[h] = {}
      /\ ~grpDone[h]
  BY DEF DecideRequest, PlanInv, Working, Settled
<1>2. /\ decided'[h] = decided[h] \cup {cur[h]} /\ grp'[h] = grp[h]
      /\ promoted'[h] = promoted[h] /\ marked'[h] = marked[h]
      /\ grpDone'[h] = grpDone[h]
      /\ registered' = registered /\ uploaded' = uploaded
  BY <1>1 DEF DecideRequest
<1>3. PhotosIn(decided'[h]) = PhotosIn(decided[h]) \cup PhotosIn({cur[h]})
  BY <1>2 DEF PhotosIn
<1>4. CASE h \in Approvers
  <2>1. h \notin Rejecters
    BY <1>4, CallsAssumption
  <2>2. /\ reqs'[h] = reqs[h] \ {cur[h]} /\ todo'[h] = todo[h]
        /\ pc'[h] = IF reqs[h] # {cur[h]} THEN "read"
                    ELSE IF grp[h] # NoGroup THEN "group" ELSE "unstage"
    BY <2>1 DEF DecideRequest, FinishRequest
  <2>3. PlanInv(h)'
    BY <1>1, <1>2, <2>2 DEF PlanInv, Working, Settled
  <2>4. ApprovalInv(h)'
    BY <1>1, <1>2, <1>3, <1>4, <2>2 DEF ApprovalInv, PhotosIn
  <2>5. QED BY <2>1, <2>3, <2>4
<1>5. CASE h \in Rejecters
  <2>1. h \notin Approvers
    BY <1>5, CallsAssumption
  <2>2. todo'[h] = PhotosIn({cur[h]})
    BY <2>1 DEF DecideRequest, PhotosOf, PhotosIn
  <2>3. \/ /\ reqs'[h] = reqs[h] /\ cur'[h] = cur[h] /\ pc'[h] = "markAll"
        \/ /\ todo'[h] = {} /\ reqs'[h] = reqs[h] \ {cur[h]}
           /\ pc'[h] = IF reqs[h] # {cur[h]} THEN "read"
                       ELSE IF grp[h] # NoGroup THEN "group" ELSE "unstage"
    BY <2>1, <2>2 DEF DecideRequest, FinishRequest, PhotosOf, PhotosIn
  <2>4. PlanInv(h)'
    BY <1>1, <1>2, <2>3 DEF PlanInv, Working, Settled
  <2>5. PhotosIn(decided[h]) \cap PhotosIn({cur[h]}) = {}
    BY <1>1 DEF PhotosIn
  <2>6. promoted[h] = {} /\ marked[h] = PhotosIn(decided[h])
    BY <1>1, <1>5 DEF RejectionInv
  <2>7. marked'[h] = PhotosIn(decided'[h]) \ todo'[h]
    BY ZenonT(40), <1>2, <1>3, <2>2, <2>5, <2>6
  <2>8. pc'[h] = "markAll" =>
          cur'[h] \in decided'[h] /\ todo'[h] \subseteq PhotosIn({cur'[h]})
    BY <1>2, <2>2, <2>3
  <2>9. RejectionInv(h)'
    BY <1>2, <2>3, <2>6, <2>7, <2>8 DEF RejectionInv, PhotosIn
  <2>10. QED BY <2>1, <2>4, <2>9
<1>6. QED BY <1>4, <1>5

\* A rejection that marks a photo still accounts for all the others.
LEMMA MarkRejectedCallInv ==
  ASSUME TypeOK, NEW h \in Handlers, CallInv(h), NEW p \in Photos,
         MarkRejected(h, p)
  PROVE  CallInv(h)'
<1> USE DEF CallInv, locks, db, Goto, TypeOK
<1>1. pc[h] = "markAll" /\ h \notin Approvers /\ h \in Rejecters
  BY DEF MarkRejected, ApprovalInv
<1>2. /\ decided'[h] = decided[h] /\ grp'[h] = grp[h] /\ promoted'[h] = promoted[h]
      /\ marked'[h] = marked[h] \cup {p} /\ todo'[h] = todo[h] \ {p}
      /\ p \in todo[h] /\ grpDone'[h] = grpDone[h]
      /\ registered' = registered /\ uploaded' = uploaded
  BY DEF MarkRejected
<1>3. marked'[h] = PhotosIn(decided[h]) \ todo'[h]
  BY <1>1, <1>2 DEF RejectionInv, PhotosIn
<1>4. CASE todo[h] = {p}
  <2>1. /\ reqs'[h] = reqs[h] \ {cur[h]}
        /\ pc'[h] = IF reqs[h] # {cur[h]} THEN "read"
                    ELSE IF grp[h] # NoGroup THEN "group" ELSE "unstage"
    BY <1>4 DEF MarkRejected, FinishRequest
  <2>2. PlanInv(h)'
    BY <1>1, <1>2, <2>1 DEF PlanInv, RejectionInv, Working, Settled
  <2>3. RejectionInv(h)'
    BY <1>1, <1>2, <1>3, <1>4, <2>1 DEF RejectionInv, PhotosIn
  <2>4. QED BY <1>1, <2>2, <2>3
<1>5. CASE todo[h] # {p}
  <2>1. reqs'[h] = reqs[h] /\ cur'[h] = cur[h] /\ pc'[h] = pc[h]
    BY <1>5 DEF MarkRejected
  <2>2. PlanInv(h)'
    BY <1>1, <1>2, <2>1 DEF PlanInv, Working, Settled
  <2>3. RejectionInv(h)'
    BY <1>1, <1>2, <1>3, <2>1 DEF RejectionInv, PhotosIn
  <2>4. QED BY <1>1, <2>2, <2>3
<1>6. QED BY <1>4, <1>5

\* The group row and the side effects.
LEMMA SettleCallInv ==
  ASSUME TypeOK, NEW h \in Handlers, CallInv(h),
         DecideGroup(h) \/ Unstage(h) \/ Publish(h) \/ Audit(h)
  PROVE  CallInv(h)'
<1> USE DEF CallInv, locks, db, Goto, TypeOK
<1>1. /\ reqs'[h] = reqs[h] /\ decided'[h] = decided[h] /\ grp'[h] = grp[h]
      /\ promoted'[h] = promoted[h] /\ marked'[h] = marked[h]
      /\ registered' = registered /\ uploaded' = uploaded
      /\ pc[h] \in {"group", "unstage", "publish", "audit"}
      /\ pc'[h] \in Settled
      /\ pc'[h] = "publish" => h \in Approvers
      /\ grpDone'[h] = IF pc[h] = "group" THEN TRUE ELSE grpDone[h]
  BY DEF DecideGroup, Unstage, Publish, Audit, AfterUnstage, Settled
<1>2. PlanInv(h)'
  BY <1>1 DEF PlanInv, Working, Settled
<1>3. h \in Approvers => ApprovalInv(h)'
  BY <1>1 DEF ApprovalInv, PhotosIn, Settled
<1>4. h \in Rejecters => RejectionInv(h)'
  BY <1>1, CallsAssumption DEF RejectionInv, PhotosIn, Settled
<1>5. QED BY <1>2, <1>3, <1>4

\* Every step of a call keeps the invariant of the call.
LEMMA ActCallInv ==
  ASSUME TypeOK, NEW h \in Handlers, CallInv(h), Act(h)
  PROVE  CallInv(h)'
<1>1. CASE Start(h)
  BY <1>1, StartCallInv
<1>2. ASSUME Raise(h) \/ RaiseAborted(h), pc[h] # "idle" PROVE CallInv(h)'
  BY <1>2, RaiseCallInv
<1>3. CASE Step(h)
  <2>1. CASE Refuse(h)
    BY <1>2, <2>1 DEF Refuse, Refused
  <2>2. CASE Commit(h) \/ Cleanup(h)
    BY <2>2, EndCallInv DEF Commit, Cleanup
  <2>3. QED
    BY <1>3, <2>1, <2>2, ReadCallInv, PhotoCallInv, DecideCallInv,
       MarkRejectedCallInv, SettleCallInv DEF Step
<1>4. CASE DeadlockVictim(h)
  <2>1. pc[h] # "idle"
    BY <1>4 DEF DeadlockVictim, InDeadlock, WaitsFor
  <2>2. QED BY <1>2, <1>4, <2>1 DEF DeadlockVictim
<1>5. CASE Fault(h)
  BY <1>2, <1>5, EndCallInv
     DEF Fault, StorageFault, BrokerFault, DatabaseFault, Abort
<1>6. QED BY <1>1, <1>3, <1>4, <1>5 DEF Act

-----------------------------------------------------------------------------
(***************************************************************************)
(* The inductive invariant and what follows from it.                       *)
(***************************************************************************)
\* The invariant holds at the start.
LEMMA InitIInv == Init => IInv
<1> SUFFICES ASSUME Init PROVE IInv
  OBVIOUS
<1>1. DecidedTogether
  BY RequestsAssumption DEF Init, DecidedTogether
<1>2. LockInv
  BY DEF Init, LockInv
<1>3. ASSUME NEW h \in Handlers PROVE CallInv(h)
  BY DEF Init, CallInv, PlanInv, ApprovalInv, RejectionInv, PhotosIn, Working,
         Settled
<1>4. QED BY <1>1, <1>2, <1>3, InitTypeOK DEF IInv

\* Every step keeps the invariant.
LEMMA NextIInv == IInv /\ [Next]_vars => IInv'
<1> SUFFICES ASSUME IInv, [Next]_vars PROVE IInv'
  OBVIOUS
<1>1. TypeOK /\ \A h \in Handlers : CallInv(h)
  BY DEF IInv
<1>2. ASSUME NEW h \in Handlers PROVE CallInv(h)'
  <2>1. CASE Quiet /\ \A o \in Handlers : SameCall(o)
    BY <1>1, <2>1, CallInvFrame DEF Quiet
  <2>2. ASSUME NEW a \in Handlers, Act(a) PROVE CallInv(h)'
    <3>1. registered \subseteq registered' /\ uploaded \subseteq uploaded'
      BY <2>2, QuietOrCommit DEF Quiet, Commit
    <3>2. QED BY <1>1, <2>2, <3>1, ActCallInv, OthersSame, CallInvFrame
  <2>3. QED BY <2>1, <2>2, EnvironmentQuiet DEF Next, Act
<1>3. QED BY <1>2, NextTypeOK, NextDecidedTogether, NextLockInv DEF IInv

\* The inductive invariant of the review: types, locks, what each call has written by
\* each step, and that decisions are whole.
THEOREM InductiveInvariant == Spec => []IInv
  BY InitIInv, NextIInv, PTL DEF Spec

\* Every variable of the review keeps its type, whatever fails and however the
\* calls interleave.
THEOREM TypeCorrect == Spec => []TypeOK
<1>1. IInv => TypeOK
  BY DEF IInv
<1>2. QED BY <1>1, InductiveInvariant, PTL

\* An approved request has all its photos transferred and approved, each with
\* exactly one row in photos; any other request has none: of two approvals that
\* both inserted rows, one at most commits.
THEOREM DecisionsCoverPhotos == Spec => []DecidedTogether
<1>1. IInv => DecidedTogether
  BY DEF IInv
<1>2. QED BY <1>1, InductiveInvariant, PTL

-----------------------------------------------------------------------------
(***************************************************************************)
(* The review implements ReviewDecisions: a commit is the decision, every  *)
(* other step leaves the committed rows alone or registers a request.      *)
(***************************************************************************)
\* The initial states of the review are initial states of ReviewDecisions.
LEMMA InitImplements == Init => Decisions!Init
  BY DEF Init, Decisions!Init

\* Every step of the review is a decision, or none that ReviewDecisions sees.
LEMMA NextImplements == IInv /\ [Next]_vars => [Decisions!Next]_(Decisions!vars)
<1> SUFFICES ASSUME IInv, [Next]_vars
             PROVE  Decisions!Next \/ UNCHANGED Decisions!vars
  OBVIOUS
<1> USE DEF Decisions!vars
<1>1. TypeOK /\ DecidedTogether /\ \A h \in Handlers : CallInv(h)
  BY DEF IInv
<1>2. ASSUME NEW r \in Requests, RegisterBatch(r) PROVE Decisions!Next
  BY <1>2 DEF RegisterBatch, Decisions!Next, Decisions!Register
<1>3. ASSUME NEW p \in Photos, CompleteTransfer(p) PROVE UNCHANGED Decisions!vars
  BY <1>3 DEF CompleteTransfer
<1>4. ASSUME NEW h \in Handlers, Commit(h) PROVE Decisions!Next
  <2>1. PlanInv(h) /\ pc[h] = "commit" /\ reqs[h] = {}
    BY <1>1, <1>4 DEF Commit, CallInv, PlanInv, Settled
  <2>2. Verdict(h) \in {"approved", "rejected"}
    BY DEF Verdict
  <2>3. decided[h] \in SUBSET Requests /\ grp[h] \in Groups \cup {NoGroup}
    BY <1>1 DEF TypeOK
  <2>4. /\ decided[h] # {}
        /\ decided[h] \subseteq {r \in registered : reqStatus[r] = "pending"}
    BY <2>1, CommitReady
  <2>5. grp[h] # NoGroup => /\ groupStatus[grp[h]] = "pending"
                            /\ \A r \in decided[h] : GroupOf[r] = grp[h]
    BY <2>1, CommitReady DEF IInv, LockInv, PlanInv
  <2>6. grp[h] = NoGroup => \A r, s \in decided[h] : r = s
    BY <2>1 DEF PlanInv
  <2>7. groupStatus' = [q \in Groups |-> IF q = grp[h] THEN Verdict(h)
                                         ELSE groupStatus[q]]
    BY <1>4, <2>1, CommitReady, RequestsAssumption DEF Commit
  <2>8. photoStatus' = [p \in Photos |-> IF RequestOf[p] \in decided[h]
                                         THEN Verdict(h) ELSE photoStatus[p]]
    BY <1>4, <2>1, CommitReady DEF Commit
  <2>9. rows' = [p \in Photos |->
                   IF Verdict(h) = "approved" /\ RequestOf[p] \in decided[h]
                   THEN 1 ELSE rows[p]]
    <3>1. ASSUME NEW p \in Photos, RequestOf[p] \in decided[h] PROVE rows[p] = 0
      BY <1>1, <2>1, <3>1, CommitReady DEF DecidedTogether
    <3>2. \A p \in Photos : p \in promoted[h] <=>
            Verdict(h) = "approved" /\ RequestOf[p] \in decided[h]
      BY <2>1, CommitReady DEF Verdict
    <3>3. QED BY <1>4, <3>1, <3>2 DEF Commit
  <2>10. Decisions!Decide(decided[h], grp[h], Verdict(h))
    BY <1>4, <2>4, <2>5, <2>6, <2>7, <2>8, <2>9 DEF Commit, Decisions!Decide
  <2>11. QED BY <2>2, <2>3, <2>10 DEF Decisions!Next
<1>5. ASSUME NEW h \in Handlers, Act(h) PROVE Decisions!Next \/ UNCHANGED Decisions!vars
  <2>1. CASE Commit(h)
    BY <1>4, <2>1
  <2>2. CASE ~Commit(h)
    <3>1. Quiet /\ registered' = registered
      BY <1>5, <2>2, ActKeepsRequests, QuietOrCommit
    <3>2. QED BY <3>1 DEF Quiet
  <2>3. QED BY <2>1, <2>2
<1>6. QED BY <1>2, <1>3, <1>5 DEF Next, Act, vars, db

\* Requests and groups are decided at most once and with all their photos: the
\* whole review implements ReviewDecisions.
THEOREM ReviewImplementsDecisions == Spec => ImplementsDecisions
<1>1. Init => Decisions!Init
  BY InitImplements
<1>2. IInv /\ [Next]_vars => [Decisions!Next]_(Decisions!vars)
  BY NextImplements
<1>3. QED
  BY <1>1, <1>2, InductiveInvariant, PTL DEF Spec, ImplementsDecisions, Decisions!Spec

-----------------------------------------------------------------------------
(***************************************************************************)
(* Without a second approval the objects of committed photos are safe.     *)
(***************************************************************************)
\* What an approval has promoted exists and belongs to requests that are not
\* approved, so cleaning it up hurts no committed photo.
PromotedInv(h) ==
  /\ promoted[h] \subseteq final
  /\ \A p \in promoted[h] : reqStatus[RequestOf[p]] # "approved"
  /\ pc[h] \in Working => reqStatus[cur[h]] # "approved"

KeptInv == FinalObjectKept /\ \A h \in Approvers : PromotedInv(h)

\* What a step does to the final objects and to the promotions of its call.
LEMMA FinalEffect ==
  ASSUME IInv, NEW h \in Handlers, Act(h), ~Commit(h), ~Cleanup(h), KeptInv
  PROVE  /\ final \subseteq final' /\ UNCHANGED <<reqStatus, rows>>
         /\ h \in Approvers => PromotedInv(h)'
<1> USE DEF PromotedInv, TypeOK, locks, store, Goto
<1>0. /\ TypeOK /\ PlanInv(h) /\ (h \in Rejecters => RejectionInv(h))
      /\ (h \in Approvers => ApprovalInv(h) /\ PromotedInv(h))
  BY DEF IInv, CallInv, KeptInv
<1>1. UNCHANGED <<reqStatus, rows>>
  BY QuietOrCommit DEF Quiet
<1>2. ASSUME EndCall(h), final' = final
      PROVE  final \subseteq final' /\ (h \in Approvers => PromotedInv(h)')
  BY <1>0, <1>2 DEF EndCall, Working
<1>3. ASSUME Raise(h) \/ RaiseAborted(h)
      PROVE  final \subseteq final' /\ (h \in Approvers => PromotedInv(h)')
  BY <1>0, <1>1, <1>2, <1>3, CallsAssumption DEF Raise, RaiseAborted, Working
<1>4. CASE Start(h)
  BY <1>0, <1>1, <1>4 DEF Start, StartRequest, StartGroup, Working
<1>5. CASE Step(h)
  <2>1. ASSUME NEW r \in Requests, ReadRequest(h, r)
        PROVE  final \subseteq final' /\ (h \in Approvers => PromotedInv(h)')
    BY <1>0, <1>1, <2>1 DEF ReadRequest
  <2>2. CASE ReadPhotos(h)
    BY <1>0, <1>1, <2>2 DEF ReadPhotos, Working
  <2>3. ASSUME NEW p \in Photos, Promote(h, p)
        PROVE  final \subseteq final' /\ (h \in Approvers => PromotedInv(h)')
    <3>1. pc[h] = "promote" /\ p \in todo[h] /\ final' = final \cup {p}
          /\ promoted'[h] = promoted[h] \cup {p} /\ cur' = cur
      BY <1>0, <2>3 DEF Promote, CopyToFinal
    <3>2. h \in Approvers => RequestOf[p] = cur[h]
      BY <1>0, <3>1 DEF ApprovalInv, PhotosIn
    <3>3. QED BY <1>0, <1>1, <3>1, <3>2 DEF Working
  <2>4. ASSUME NEW p \in Photos, MarkApproved(h, p)
        PROVE  final \subseteq final' /\ (h \in Approvers => PromotedInv(h)')
    BY <1>0, <1>1, <2>4 DEF MarkApproved, Working
  <2>5. ASSUME NEW p \in Photos, MarkRejected(h, p)
        PROVE  final \subseteq final' /\ (h \in Approvers => PromotedInv(h)')
    BY <1>0, <1>1, <2>5 DEF MarkRejected, ApprovalInv
  <2>6. CASE DecideRequest(h)
    BY <1>0, <1>1, <2>6, CallsAssumption DEF DecideRequest, FinishRequest, Working
  <2>7. CASE DecideGroup(h) \/ Publish(h) \/ Audit(h)
    BY <1>0, <1>1, <2>7 DEF DecideGroup, Publish, Audit, Working
  <2>8. CASE Unstage(h)
    BY <1>0, <1>1, <2>8 DEF Unstage, AfterUnstage, Working
  <2>9. CASE Refuse(h)
    BY <1>1, <1>3, <2>9 DEF Refuse
  <2>10. QED
    BY <1>1, <1>5, <2>1, <2>2, <2>3, <2>4, <2>5, <2>6, <2>7, <2>8, <2>9 DEF Step
<1>6. CASE DeadlockVictim(h)
  BY <1>1, <1>3, <1>6 DEF DeadlockVictim
<1>7. CASE Fault(h)
  BY <1>1, <1>2, <1>3, <1>7 DEF Fault, StorageFault, BrokerFault, DatabaseFault, Abort
<1>8. QED BY <1>1, <1>4, <1>5, <1>6, <1>7 DEF Act

\* With a sole approver no step takes the object of a committed photo.
LEMMA NextKeptInv ==
  ASSUME SoleApprover, IInv, KeptInv, [Next]_vars
  PROVE  KeptInv'
<1>1. TypeOK /\ DecidedTogether /\ \A h \in Handlers : CallInv(h)
  BY DEF IInv
<1>2. ASSUME \/ \E r \in Requests : RegisterBatch(r)
             \/ \E p \in Photos : CompleteTransfer(p)
             \/ UNCHANGED vars
      PROVE  KeptInv'
  BY <1>2 DEF RegisterBatch, CompleteTransfer, vars, db, call, store, KeptInv,
     PromotedInv, FinalObjectKept
<1>3. ASSUME NEW h \in Handlers, Act(h) PROVE KeptInv'
  <2>1. \A o \in Handlers \ {h} : SameCall(o)
    BY <1>1, <1>3, OthersSame
  <2>2. CASE ~Commit(h) /\ ~Cleanup(h)
    BY <1>3, <2>1, <2>2, FinalEffect DEF KeptInv, PromotedInv, SameCall,
       FinalObjectKept
  <2>3. ASSUME EndCall(h) PROVE promoted'[h] = {} /\ pc'[h] = "idle"
    BY <1>1, <2>3 DEF EndCall, Goto, TypeOK
  <2>4. CASE Cleanup(h)
    <3>1. h \in Approvers /\ PromotedInv(h)
      BY <1>1, <2>4 DEF Cleanup, CallInv, RejectionInv, KeptInv
    <3>2. /\ \A p \in final : p \notin promoted[h] => p \in final'
          /\ UNCHANGED <<reqStatus, rows>> /\ EndCall(h)
      BY <2>4 DEF Cleanup, ToClean, db
    <3>3. FinalObjectKept'
      BY <1>1, <3>1, <3>2 DEF KeptInv, FinalObjectKept, PromotedInv,
         DecidedTogether
    <3>4. ASSUME NEW o \in Approvers PROVE PromotedInv(o)'
      BY <2>3, <3>1, <3>2, <3>4 DEF SoleApprover, PromotedInv, Working
    <3>5. QED BY <3>3, <3>4 DEF KeptInv
  <2>5. CASE Commit(h)
    <3>1. /\ pc[h] = "commit" /\ final' = final /\ EndCall(h)
          /\ \A p \in Photos : rows'[p] > 0 => rows[p] > 0 \/ p \in promoted[h]
      BY <1>1, <2>5 DEF Commit, store, TypeOK
    <3>2. CASE h \in Approvers
      <4>1. FinalObjectKept'
        BY <3>1, <3>2 DEF KeptInv, FinalObjectKept, PromotedInv
      <4>2. ASSUME NEW o \in Approvers PROVE PromotedInv(o)'
        BY <2>3, <3>1, <3>2, <4>2 DEF SoleApprover, PromotedInv, Working
      <4>3. QED BY <4>1, <4>2 DEF KeptInv
    <3>3. CASE h \in Rejecters
      <4>1. promoted[h] = {} /\ h \notin Approvers
        BY <1>1, <3>3, CallsAssumption DEF CallInv, RejectionInv
      <4>2. FinalObjectKept'
        BY <3>1, <4>1 DEF KeptInv, FinalObjectKept
      <4>3. \A r \in Requests : reqStatus[r] # "approved" => reqStatus'[r] # "approved"
        BY <2>5, <4>1 DEF Commit, Verdict
      <4>4. ASSUME NEW o \in Approvers PROVE PromotedInv(o)'
        <5>1. SameCall(o) /\ PromotedInv(o) /\ PlanInv(o)
          BY <1>1, <2>1, <4>1 DEF KeptInv, CallInv
        <5>2. /\ pc[o] \in Working => cur[o] \in Requests
              /\ \A p \in promoted[o] : RequestOf[p] \in Requests
          BY <1>1, <5>1, RequestsAssumption DEF PlanInv, TypeOK
        <5>3. QED BY <3>1, <4>3, <5>1, <5>2 DEF PromotedInv, SameCall
      <4>5. QED BY <4>2, <4>4 DEF KeptInv
    <3>4. QED BY <3>2, <3>3
  <2>6. QED BY <2>2, <2>4, <2>5
<1>4. QED BY <1>2, <1>3 DEF Next, Act

\* With one approval at a time no failure and no rejection can take away the
\* object of a committed photo: a second approval is the only danger.
THEOREM SoleApproverKeepsObjects ==
  ASSUME SoleApprover
  PROVE  Spec => []FinalObjectKept
<1>1. Init => KeptInv
  BY DEF Init, KeptInv, FinalObjectKept, PromotedInv, Working
<1>2. IInv /\ KeptInv /\ [Next]_vars => KeptInv'
  BY NextKeptInv
<1>3. KeptInv => FinalObjectKept
  BY DEF KeptInv
<1>4. QED BY <1>1, <1>2, <1>3, InductiveInvariant, PTL DEF Spec

-----------------------------------------------------------------------------
(***************************************************************************)
(* While the broker works, what is committed has been announced.           *)
(***************************************************************************)
\* Past the publication, what a call has promoted is in the stream.
Announcing(h) == pc[h] \in {"audit", "commit"} => promoted[h] \subseteq announced

AnnouncedInv ==
  /\ \A p \in Photos : rows[p] > 0 => p \in announced
  /\ \A h \in Handlers : Announcing(h)

\* No step takes an event out of the stream, and a call gets past the
\* publication only by publishing all it has promoted.
LEMMA AnnounceEffect ==
  ASSUME IInv, "broker" \notin Faults, NEW h \in Handlers, Act(h), Announcing(h)
  PROVE  announced \subseteq announced' /\ Announcing(h)'
<1> DEFINE Goal == announced \subseteq announced' /\ Announcing(h)'
<1> USE DEF Announcing, TypeOK, locks, Goto
<1>0. TypeOK /\ CallInv(h)
  BY DEF IInv
<1>1. ASSUME EndCall(h), announced' = announced PROVE Goal
  BY <1>0, <1>1 DEF EndCall
<1>2. ASSUME Raise(h) \/ RaiseAborted(h) PROVE Goal
  BY <1>0, <1>1, <1>2 DEF Raise, RaiseAborted
<1>3. CASE Start(h)
  BY <1>0, <1>3 DEF Start, StartRequest, StartGroup
<1>4. CASE Step(h)
  <2>1. ASSUME NEW r \in Requests, ReadRequest(h, r) PROVE Goal
    BY <1>0, <2>1 DEF ReadRequest
  <2>2. CASE ReadPhotos(h)
    BY <1>0, <2>2 DEF ReadPhotos
  <2>3. ASSUME NEW p \in Photos, Promote(h, p) \/ MarkApproved(h, p) PROVE Goal
    BY <1>0, <2>3 DEF Promote, MarkApproved
  <2>4. ASSUME NEW p \in Photos, MarkRejected(h, p) PROVE Goal
    BY <1>0, <2>4 DEF MarkRejected, FinishRequest
  <2>5. CASE DecideRequest(h)
    BY <1>0, <2>5 DEF DecideRequest, FinishRequest
  <2>6. CASE DecideGroup(h)
    BY <1>0, <2>6 DEF DecideGroup
  <2>7. CASE Unstage(h)
    <3>1. CASE h \in Approvers
      BY <1>0, <2>7, <3>1 DEF Unstage, AfterUnstage
    <3>2. CASE h \notin Approvers
      <4>1. promoted[h] = {}
        BY <1>0, <3>2 DEF CallInv, RejectionInv
      <4>2. QED BY <1>0, <2>7, <4>1 DEF Unstage
    <3>3. QED BY <3>1, <3>2
  <2>8. CASE Publish(h)
    BY <1>0, <2>8 DEF Publish
  <2>9. CASE Audit(h)
    BY <1>0, <2>9 DEF Audit
  <2>10. CASE Commit(h)
    BY <1>1, <2>10 DEF Commit
  <2>11. CASE Cleanup(h)
    BY <1>1, <2>11 DEF Cleanup
  <2>12. CASE Refuse(h)
    BY <1>2, <2>12 DEF Refuse
  <2>13. QED
    BY <1>4, <2>1, <2>2, <2>3, <2>4, <2>5, <2>6, <2>7, <2>8, <2>9, <2>10,
       <2>11, <2>12 DEF Step
<1>5. CASE DeadlockVictim(h)
  BY <1>2, <1>5 DEF DeadlockVictim
<1>6. CASE Fault(h)
  BY <1>1, <1>2, <1>6 DEF Fault, StorageFault, BrokerFault, DatabaseFault, Abort
<1>7. QED BY <1>3, <1>4, <1>5, <1>6 DEF Act

\* Every step keeps what is committed announced, as long as the broker works.
LEMMA NextAnnouncedInv ==
  ASSUME "broker" \notin Faults, IInv, AnnouncedInv, [Next]_vars
  PROVE  AnnouncedInv'
<1>1. TypeOK
  BY DEF IInv
<1>2. ASSUME \/ \E r \in Requests : RegisterBatch(r)
             \/ \E p \in Photos : CompleteTransfer(p)
             \/ UNCHANGED vars
      PROVE  AnnouncedInv'
  BY <1>2 DEF RegisterBatch, CompleteTransfer, vars, db, call, AnnouncedInv,
     Announcing
<1>3. ASSUME NEW h \in Handlers, Act(h) PROVE AnnouncedInv'
  <2>1. Announcing(h)' /\ announced \subseteq announced'
    BY <1>3, AnnounceEffect DEF AnnouncedInv
  <2>2. ASSUME NEW o \in Handlers \ {h} PROVE Announcing(o)'
    BY <1>1, <1>3, <2>1, <2>2, OthersSame DEF AnnouncedInv, Announcing, SameCall
  <2>3. ASSUME NEW p \in Photos, rows'[p] > 0 PROVE p \in announced'
    <3>1. CASE Commit(h)
      <4>1. rows[p] > 0 \/ (p \in promoted[h] /\ pc[h] = "commit")
        BY <2>3, <3>1 DEF Commit
      <4>2. QED BY <2>1, <4>1 DEF AnnouncedInv, Announcing
    <3>2. CASE ~Commit(h)
      BY <1>3, <2>1, <2>3, <3>2, QuietOrCommit DEF Quiet, AnnouncedInv
    <3>3. QED BY <3>1, <3>2
  <2>4. QED BY <2>1, <2>2, <2>3 DEF AnnouncedInv
<1>4. QED BY <1>2, <1>3 DEF Next, Act

\* While the broker works every committed photo has its photo.process event in
\* the stream, whatever the database, the object store and the process do.
THEOREM CommittedAreAnnounced == Spec => []ApprovedAreAnnounced
<1>1. CASE "broker" \in Faults
  <2>1. ApprovedAreAnnounced
    BY <1>1 DEF ApprovedAreAnnounced
  <2>2. QED BY <2>1, PTL
<1>2. CASE "broker" \notin Faults
  <2>1. Init => AnnouncedInv
    BY DEF Init, AnnouncedInv, Announcing
  <2>2. IInv /\ AnnouncedInv /\ [Next]_vars => AnnouncedInv'
    BY <1>2, NextAnnouncedInv
  <2>3. AnnouncedInv => ApprovedAreAnnounced
    BY DEF AnnouncedInv, ApprovedAreAnnounced
  <2>4. QED BY <2>1, <2>2, <2>3, InductiveInvariant, PTL DEF Spec
<1>3. QED BY <1>1, <1>2

-----------------------------------------------------------------------------
(***************************************************************************)
(* When nothing fails between the deletion of the staged objects and the   *)
(* commit, what is still to be decided keeps its staged objects.           *)
(***************************************************************************)
Unstaged == {"publish", "audit", "commit"}

\* The staged object of an undecided photo is gone only while a call that has
\* deleted it holds the lock of its request.
StagedInv ==
  \A p \in uploaded :
    /\ reqStatus[RequestOf[p]] = "pending"
    /\ \A h \in Handlers : RequestOf[p] \in decided[h] => pc[h] \notin Unstaged
    => p \in staging

\* Only Unstage takes an object out of staging.
LEMMA StagingEffect ==
  ASSUME NEW h \in Handlers, Act(h), ~Unstage(h)
  PROVE  staging' = staging /\ uploaded' = uploaded
  BY DEF Act, Start, StartRequest, StartGroup, Step, ReadRequest, ReadPhotos,
     Promote, CopyToFinal, MarkApproved, MarkRejected, DecideRequest,
     DecideGroup, Publish, Audit, Commit, Cleanup, Refuse, DeadlockVictim, Fault,
     StorageFault, BrokerFault, DatabaseFault, Abort, Raise, RaiseAborted, db,
     store

\* A call that has deleted the staged objects goes on to its commit: nothing
\* is refused any more, and it waits for nobody.
LEMMA UnstagedEffect ==
  ASSUME TypeOK, Faults \cap {"database", "broker", "crash"} = {},
         NEW h \in Handlers, Act(h), ~Commit(h), pc[h] \in Unstaged
  PROVE  decided'[h] = decided[h] /\ pc'[h] \in Unstaged
<1> USE DEF TypeOK, Unstaged, locks, Goto
<1>1. ~Start(h)
  BY DEF Start, StartRequest, StartGroup
<1>2. ~DeadlockVictim(h)
  BY DEF DeadlockVictim, InDeadlock, WaitsFor
<1>3. ~Fault(h)
  BY DEF Fault, StorageFault, BrokerFault, DatabaseFault, Abort
<1>4. Publish(h) \/ Audit(h)
  BY <1>1, <1>2, <1>3 DEF Act, Step, ReadRequest, ReadPhotos, Promote,
     MarkApproved, MarkRejected, DecideRequest, DecideGroup, Unstage, Cleanup,
     Refuse, Refused
<1>5. QED BY <1>4 DEF Publish, Audit

\* Every step keeps the staged objects of what nobody is about to decide.
LEMMA NextStagedInv ==
  ASSUME Faults \cap {"database", "broker", "crash"} = {},
         IInv, StagedInv, [Next]_vars
  PROVE  StagedInv'
<1>1. TypeOK /\ \A h \in Handlers : CallInv(h)
  BY DEF IInv
<1>2. ASSUME \/ \E r \in Requests : RegisterBatch(r)
             \/ \E p \in Photos : CompleteTransfer(p)
             \/ UNCHANGED vars
      PROVE  StagedInv'
  BY <1>2 DEF RegisterBatch, CompleteTransfer, vars, db, call, store, StagedInv
<1>3. ASSUME NEW h \in Handlers, Act(h) PROVE StagedInv'
  <2> SUFFICES ASSUME NEW p \in uploaded', reqStatus'[RequestOf[p]] = "pending",
                      \A o \in Handlers : RequestOf[p] \in decided'[o] =>
                                            pc'[o] \notin Unstaged
               PROVE  p \in staging'
    BY DEF StagedInv
  <2>1. \A o \in Handlers \ {h} : RequestOf[p] \in decided[o] =>
                                    pc[o] \notin Unstaged
    BY <1>1, <1>3, OthersSame DEF SameCall
  <2>2. CASE Unstage(h)
    <3>1. /\ pc[h] = "unstage" /\ pc'[h] \in Unstaged
          /\ decided' = decided /\ reqStatus' = reqStatus /\ uploaded' = uploaded
          /\ staging \ marked[h] \subseteq staging'
      BY <1>1, <2>2 DEF Unstage, AfterUnstage, Goto, TypeOK, locks, db, Unstaged
    <3>2. marked[h] = PhotosIn(decided[h])
      <4>1. CASE h \in Approvers
        <5>1. ApprovalInv(h)
          BY <1>1, <4>1 DEF CallInv
        <5>2. marked[h] = promoted[h] /\ promoted[h] = PhotosIn(decided[h]) \cup {}
          BY <3>1, <5>1 DEF ApprovalInv
        <5>3. QED BY <5>2
      <4>2. CASE h \in Rejecters
        BY <1>1, <3>1, <4>2 DEF CallInv, RejectionInv
      <4>3. QED BY <4>1, <4>2
    <3>3. RequestOf[p] \notin decided[h]
      BY <3>1
    <3>4. p \notin marked[h]
      BY <3>2, <3>3 DEF PhotosIn
    <3>5. p \in staging
      BY <2>1, <3>1, <3>3 DEF StagedInv
    <3>6. QED BY <3>1, <3>4, <3>5
  <2>3. CASE Commit(h)
    <3>1. RequestOf[p] \in Requests
      BY <1>1, <1>3, <2>3, RequestsAssumption DEF Commit, TypeOK
    <3>2. RequestOf[p] \notin decided[h] /\ reqStatus[RequestOf[p]] = "pending"
      BY <2>3, <3>1 DEF Commit, Verdict
    <3>3. uploaded' = uploaded /\ staging' = staging
      BY <2>3 DEF Commit, store
    <3>4. QED BY <2>1, <3>2, <3>3 DEF StagedInv
  <2>4. CASE ~Unstage(h) /\ ~Commit(h)
    <3>1. /\ staging' = staging /\ uploaded' = uploaded
          /\ reqStatus' = reqStatus
      BY <1>3, <2>4, StagingEffect, QuietOrCommit DEF Quiet
    <3>2. RequestOf[p] \in decided[h] => pc[h] \notin Unstaged
      BY <1>1, <1>3, <2>4, UnstagedEffect
    <3>3. QED BY <2>1, <3>1, <3>2 DEF StagedInv
  <2>5. QED BY <2>2, <2>3, <2>4
<1>4. QED BY <1>2, <1>3 DEF Next, Act

\* A request that no call is about to decide has the staged objects a later
\* approval copies, however calls race, are refused or break a deadlock and
\* whatever the object store does.  The assumption is what the code needs: a
\* failure between the deletions and the commit rolls back the decision only.
THEOREM UndecidedKeepStaged ==
  ASSUME Faults \cap {"database", "broker", "crash"} = {}
  PROVE  Spec => []PendingKeepsStaged
<1>1. Init => StagedInv
  BY DEF Init, StagedInv
<1>2. IInv /\ StagedInv /\ [Next]_vars => StagedInv'
  BY NextStagedInv
<1>3. StagedInv => PendingKeepsStaged
  BY DEF StagedInv, PendingKeepsStaged, RequestHolders
<1>4. QED BY <1>1, <1>2, <1>3, InductiveInvariant, PTL DEF Spec
=============================================================================
