-------------------------- MODULE DirectUploadProofs --------------------------
(***************************************************************************)
(* Proofs about DirectUpload, for any set of calls, any finite set of      *)
(* photos, any limit of a pass, and any actors unconnected or cut off      *)
(* within StoreAssumption; and about GroupImport, for any workers, any     *)
(* folder and its batches, and any failures.                               *)
(***************************************************************************)
EXTENDS DirectUpload, GroupImport, FiniteSetTheorems, TLAPS

\* A photo that some transaction has updated is locked by that one alone, and its
\* committed transfer is still open: nobody else has been able to settle it, and no
\* review has it.
LockInv ==
  /\ \A a \in Actors, p \in Photos : writes[a][p] # NoWrite => transfer[p] \in Open
  /\ \A a, o \in Actors, p \in Photos :
       writes[a][p] # NoWrite /\ writes[o][p] # NoWrite => a = o
  /\ \A a \in Actors, p \in Photos : deciding[p] # NoVerdict => writes[a][p] = NoWrite

\* The rows that a registration has inserted are no other registration's, and nobody
\* has seen them.
InsertInv ==
  /\ \A a \in Actors : pc[a] = "count" =>
       /\ a \in Calls
       /\ \A p \in todo[a] : transfer[p] = "absent"
  /\ \A a, o \in Actors : pc[a] = "count" /\ pc[o] = "count" /\ a # o =>
       todo[a] \cap todo[o] = {}

\* An object that an actor has seen, or has recorded as uploaded, is there until a
\* review deletes it, whether that review then commits or rolls back.
SeenInv ==
  \A p \in Photos : p \notin unstaged /\ <<p, RowKey>> \notin stored =>
    /\ transfer[p] # "uploaded"
    /\ \A a \in Actors : p \notin found[a] /\ writes[a][p] # "uploaded"

\* The photos that have a row, and the total of the group, which counts them.
Rows == {p \in Photos : transfer[p] # "absent"}
CountInv == total = Cardinality(Rows)

TransferInv == TypeOK /\ LockInv /\ InsertInv /\ SeenInv /\ CountInv

\* What is confirmed stays so in the step.
StillUploaded == \A p \in Photos : transfer[p] = "uploaded" => transfer'[p] = "uploaded"

USE DEF vars, db, store, reviewing, tx

-----------------------------------------------------------------------------
(*****************************************************************************)
(* Typing.                                                                  *)
(*****************************************************************************)
\* Every variable keeps its type; the number of photos a registration counts is one,
\* since a group has finitely many photos.
LEMMA TypeStep == TransferInv /\ [Next]_vars => TypeOK'
<1> SUFFICES ASSUME TransferInv, [Next]_vars PROVE TypeOK'
  OBVIOUS
<1> USE CallsAssumption, LimitAssumption DEF TransferInv, TypeOK, Actors, Keys, RowKey,
      Statuses, Labels, NoWrite, NoVerdict
<1>1. ASSUME NEW c \in Calls, NEW R \in SUBSET Photos, Register(c, R) PROVE TypeOK'
  BY <1>1 DEF Register, Goto
<1>2. ASSUME NEW c \in Calls, CountAndCommit(c) PROVE TypeOK'
  <2>1. IsFiniteSet(todo[c])
    BY PhotosAssumption, FS_Subset
  <2>2. total' \in Nat
    BY <1>2, <2>1, FS_CardinalityType DEF CountAndCommit
  <2>3. todo[c] \X {RowKey} \subseteq Photos \X Keys
    OBVIOUS
  <2>4. QED BY <1>2, <2>2, <2>3 DEF CountAndCommit, EndTx, Goto
<1>3. ASSUME NEW p \in Photos, NEW k \in Keys, Put(p, k) PROVE TypeOK'
  BY <1>3 DEF Put
<1>4. ASSUME NEW p \in Photos, NEW k \in Keys, Expire(p, k) PROVE TypeOK'
  BY <1>4 DEF Expire
<1>5. ASSUME NEW p \in Photos, GrowStale(p) PROVE TypeOK'
  BY <1>5 DEF GrowStale
<1>6. ASSUME NEW c \in Calls, NEW p \in Photos, Confirm(c, p) PROVE TypeOK'
  BY <1>6 DEF Confirm, Goto
<1>7. ASSUME NEW a \in Actors, NEW p \in Photos, Stat(a, p) PROVE TypeOK'
  BY <1>7 DEF Stat, Goto, StoredForRow
<1>8. ASSUME NEW a \in Actors, StatRaises(a) PROVE TypeOK'
  BY <1>8 DEF StatRaises, Rollback, EndTx, Goto
<1>9. ASSUME NEW c \in Calls, NEW p \in Photos, ConfirmFound(c, p) PROVE TypeOK'
  BY <1>9 DEF ConfirmFound, Update, Goto
<1>10. ASSUME NEW c \in Calls, NEW p \in Photos, ConfirmMissing(c, p) PROVE TypeOK'
  BY <1>10 DEF ConfirmMissing, Rollback, EndTx, Goto
<1>11. ASSUME NEW c \in Calls, NEW p \in Photos, Fail(c, p) PROVE TypeOK'
  BY <1>11 DEF Fail, Goto
<1>12. ASSUME NEW c \in Calls, NEW p \in Photos, MarkFailed(c, p) PROVE TypeOK'
  BY <1>12 DEF MarkFailed, Update, Goto
<1>13. ASSUME NEW c \in Calls, NEW p \in Photos, AlreadyUploaded(c, p) PROVE TypeOK'
  BY <1>13 DEF AlreadyUploaded, Rollback, EndTx, Goto
<1>14. ASSUME NEW c \in Calls, Resume(c) PROVE TypeOK'
  BY <1>14 DEF Resume, Goto
<1>15. ASSUME NEW c \in Calls, NEW p \in Photos, Reset(c, p) PROVE TypeOK'
  BY <1>15 DEF Reset, Update, ResetStatus, Goto
<1>16. ASSUME NEW R \in SUBSET Photos, StartPass(R) PROVE TypeOK'
  BY <1>16 DEF StartPass, Goto
<1>17. ASSUME NEW p \in Photos, Reconcile(p) PROVE TypeOK'
  BY <1>17 DEF Reconcile, Update, Goto
<1>18. ASSUME NEW a \in Actors, Commit(a) PROVE TypeOK'
  BY <1>18 DEF Commit, EndTx, Goto
<1>19. ASSUME NEW a \in Actors, DeadlockVictim(a) PROVE TypeOK'
  BY <1>19 DEF DeadlockVictim, Rollback, EndTx, Goto
<1>20. ASSUME NEW p \in Photos, NEW verdict \in {"approved", "rejected"}, Decide(p, verdict)
       PROVE TypeOK'
  BY <1>20 DEF Decide
<1>21. ASSUME NEW p \in Photos, Unstage(p) PROVE TypeOK'
  BY <1>21 DEF Unstage
<1>22. ASSUME NEW p \in Photos, CommitReview(p) PROVE TypeOK'
  BY <1>22 DEF CommitReview, EndReview
<1>23. ASSUME NEW p \in Photos, RollBackReview(p) PROVE TypeOK'
  BY <1>23 DEF RollBackReview, EndReview
<1>24. CASE UNCHANGED vars
  BY <1>24
<1>25. QED BY <1>1, <1>2, <1>3, <1>4, <1>5, <1>6, <1>7, <1>8, <1>9, <1>10, <1>11, <1>12,
      <1>13, <1>14, <1>15, <1>16, <1>17, <1>18, <1>19, <1>20, <1>21, <1>22, <1>23, <1>24
      DEF Next, Request, Serve, Pass, Review, Environment, Actors


-----------------------------------------------------------------------------
(*****************************************************************************)
(* Locks and rows.                                                          *)
(*****************************************************************************)
\* Updates wait for the lock and look at the status once they have it.
LEMMA LockStep == TransferInv /\ [Next]_vars => LockInv'
<1> SUFFICES ASSUME TransferInv, [Next]_vars PROVE LockInv'
  OBVIOUS
<1> USE CallsAssumption DEF TransferInv, TypeOK, LockInv, InsertInv, Actors, Statuses,
      NoWrite, NoVerdict, Open, StillOpen, Holders, Available
<1>1. ASSUME NEW c \in Calls, NEW R \in SUBSET Photos, Register(c, R) PROVE LockInv'
  BY <1>1 DEF Register, Goto
<1>2. ASSUME NEW c \in Calls, CountAndCommit(c) PROVE LockInv'
  BY <1>2 DEF CountAndCommit, EndTx, Goto
<1>3. ASSUME NEW p \in Photos, NEW k \in Keys, Put(p, k) PROVE LockInv'
  BY <1>3 DEF Put
<1>4. ASSUME NEW p \in Photos, NEW k \in Keys, Expire(p, k) PROVE LockInv'
  BY <1>4 DEF Expire
<1>5. ASSUME NEW p \in Photos, GrowStale(p) PROVE LockInv'
  BY <1>5 DEF GrowStale
<1>6. ASSUME NEW c \in Calls, NEW p \in Photos, Confirm(c, p) PROVE LockInv'
  BY <1>6 DEF Confirm, Goto
<1>7. ASSUME NEW a \in Actors, NEW p \in Photos, Stat(a, p) PROVE LockInv'
  BY <1>7 DEF Stat, Goto, StoredForRow
<1>8. ASSUME NEW a \in Actors, StatRaises(a) PROVE LockInv'
  BY <1>8 DEF StatRaises, Rollback, EndTx, Goto
<1>9. ASSUME NEW c \in Calls, NEW p \in Photos, ConfirmFound(c, p) PROVE LockInv'
  BY <1>9 DEF ConfirmFound, Update, Goto
<1>10. ASSUME NEW c \in Calls, NEW p \in Photos, ConfirmMissing(c, p) PROVE LockInv'
  BY <1>10 DEF ConfirmMissing, Rollback, EndTx, Goto
<1>11. ASSUME NEW c \in Calls, NEW p \in Photos, Fail(c, p) PROVE LockInv'
  BY <1>11 DEF Fail, Goto
<1>12. ASSUME NEW c \in Calls, NEW p \in Photos, MarkFailed(c, p) PROVE LockInv'
  BY <1>12 DEF MarkFailed, Update, Goto
<1>13. ASSUME NEW c \in Calls, NEW p \in Photos, AlreadyUploaded(c, p) PROVE LockInv'
  BY <1>13 DEF AlreadyUploaded, Rollback, EndTx, Goto
<1>14. ASSUME NEW c \in Calls, Resume(c) PROVE LockInv'
  BY <1>14 DEF Resume, Goto
<1>15. ASSUME NEW c \in Calls, NEW p \in Photos, Reset(c, p) PROVE LockInv'
  <2>1. CASE StillOpen(p)
    <3>1. Update(c, p, "pending_upload") /\ UNCHANGED <<transfer, deciding>>
      BY <1>15, <2>1 DEF Reset, ResetStatus
    <3>2. QED BY <3>1 DEF Update
  <2>2. CASE ~StillOpen(p)
    BY <1>15, <2>2 DEF Reset, Goto
  <2>3. QED BY <2>1, <2>2
<1>16. ASSUME NEW R \in SUBSET Photos, StartPass(R) PROVE LockInv'
  BY <1>16 DEF StartPass, Goto
<1>17. ASSUME NEW p \in Photos, Reconcile(p) PROVE LockInv'
  <2>1. CASE StillOpen(p)
    BY <1>17, <2>1 DEF Reconcile, Update, Goto
  <2>2. CASE ~StillOpen(p)
    BY <1>17, <2>2 DEF Reconcile, Goto
  <2>3. QED BY <2>1, <2>2
<1>18. ASSUME NEW a \in Actors, Commit(a) PROVE LockInv'
  BY <1>18 DEF Commit, EndTx, Goto
<1>19. ASSUME NEW a \in Actors, DeadlockVictim(a) PROVE LockInv'
  BY <1>19 DEF DeadlockVictim, Rollback, EndTx, Goto
<1>20. ASSUME NEW p \in Photos, NEW verdict \in {"approved", "rejected"}, Decide(p, verdict)
       PROVE LockInv'
  BY <1>20 DEF Decide
<1>21. ASSUME NEW p \in Photos, Unstage(p) PROVE LockInv'
  BY <1>21 DEF Unstage
<1>22. ASSUME NEW p \in Photos, CommitReview(p) PROVE LockInv'
  BY <1>22 DEF CommitReview, EndReview
<1>23. ASSUME NEW p \in Photos, RollBackReview(p) PROVE LockInv'
  BY <1>23 DEF RollBackReview, EndReview
<1>24. CASE UNCHANGED vars
  BY <1>24
<1>25. QED BY <1>1, <1>2, <1>3, <1>4, <1>5, <1>6, <1>7, <1>8, <1>9, <1>10, <1>11, <1>12,
      <1>13, <1>14, <1>15, <1>16, <1>17, <1>18, <1>19, <1>20, <1>21, <1>22, <1>23, <1>24
      DEF Next, Request, Serve, Pass, Review, Environment, Actors

\* Whoever comes to a row it has not inserted has seen it committed.
LEMMA InsertStep == TransferInv /\ [Next]_vars => InsertInv'
<1> SUFFICES ASSUME TransferInv, [Next]_vars PROVE InsertInv'
  OBVIOUS
<1> USE CallsAssumption DEF TransferInv, TypeOK, LockInv, InsertInv, Actors, Statuses,
      NoWrite, Open
<1>1. ASSUME NEW c \in Calls, NEW R \in SUBSET Photos, Register(c, R) PROVE InsertInv'
  BY <1>1 DEF Register, Goto
<1>2. ASSUME NEW c \in Calls, CountAndCommit(c) PROVE InsertInv'
  BY <1>2 DEF CountAndCommit, EndTx, Goto
<1>3. ASSUME NEW p \in Photos, NEW k \in Keys, Put(p, k) PROVE InsertInv'
  BY <1>3 DEF Put
<1>4. ASSUME NEW p \in Photos, NEW k \in Keys, Expire(p, k) PROVE InsertInv'
  BY <1>4 DEF Expire
<1>5. ASSUME NEW p \in Photos, GrowStale(p) PROVE InsertInv'
  BY <1>5 DEF GrowStale
<1>6. ASSUME NEW c \in Calls, NEW p \in Photos, Confirm(c, p) PROVE InsertInv'
  BY <1>6 DEF Confirm, Goto
<1>7. ASSUME NEW a \in Actors, NEW p \in Photos, Stat(a, p) PROVE InsertInv'
  BY <1>7 DEF Stat, Goto, StoredForRow
<1>8. ASSUME NEW a \in Actors, StatRaises(a) PROVE InsertInv'
  BY <1>8 DEF StatRaises, Rollback, EndTx, Goto
<1>9. ASSUME NEW c \in Calls, NEW p \in Photos, ConfirmFound(c, p) PROVE InsertInv'
  BY <1>9 DEF ConfirmFound, Update, Goto
<1>10. ASSUME NEW c \in Calls, NEW p \in Photos, ConfirmMissing(c, p) PROVE InsertInv'
  BY <1>10 DEF ConfirmMissing, Rollback, EndTx, Goto
<1>11. ASSUME NEW c \in Calls, NEW p \in Photos, Fail(c, p) PROVE InsertInv'
  BY <1>11 DEF Fail, Goto
<1>12. ASSUME NEW c \in Calls, NEW p \in Photos, MarkFailed(c, p) PROVE InsertInv'
  BY <1>12 DEF MarkFailed, Update, Goto
<1>13. ASSUME NEW c \in Calls, NEW p \in Photos, AlreadyUploaded(c, p) PROVE InsertInv'
  BY <1>13 DEF AlreadyUploaded, Rollback, EndTx, Goto
<1>14. ASSUME NEW c \in Calls, Resume(c) PROVE InsertInv'
  BY <1>14 DEF Resume, Goto
<1>15. ASSUME NEW c \in Calls, NEW p \in Photos, Reset(c, p) PROVE InsertInv'
  BY <1>15 DEF Reset, Update, ResetStatus, Goto
<1>16. ASSUME NEW R \in SUBSET Photos, StartPass(R) PROVE InsertInv'
  BY <1>16 DEF StartPass, Goto
<1>17. ASSUME NEW p \in Photos, Reconcile(p) PROVE InsertInv'
  BY <1>17 DEF Reconcile, Update, Goto
<1>18. ASSUME NEW a \in Actors, Commit(a) PROVE InsertInv'
  BY <1>18 DEF Commit, EndTx, Goto
<1>19. ASSUME NEW a \in Actors, DeadlockVictim(a) PROVE InsertInv'
  BY <1>19 DEF DeadlockVictim, Rollback, EndTx, Goto
<1>20. ASSUME NEW p \in Photos, NEW verdict \in {"approved", "rejected"}, Decide(p, verdict)
       PROVE InsertInv'
  BY <1>20 DEF Decide
<1>21. ASSUME NEW p \in Photos, Unstage(p) PROVE InsertInv'
  BY <1>21 DEF Unstage
<1>22. ASSUME NEW p \in Photos, CommitReview(p) PROVE InsertInv'
  BY <1>22 DEF CommitReview, EndReview
<1>23. ASSUME NEW p \in Photos, RollBackReview(p) PROVE InsertInv'
  BY <1>23 DEF RollBackReview, EndReview
<1>24. CASE UNCHANGED vars
  BY <1>24
<1> HIDE DEF InsertInv, LockInv, TypeOK
<1>25. QED BY <1>1, <1>2, <1>3, <1>4, <1>5, <1>6, <1>7, <1>8, <1>9, <1>10, <1>11, <1>12,
      <1>13, <1>14, <1>15, <1>16, <1>17, <1>18, <1>19, <1>20, <1>21, <1>22, <1>23, <1>24
      DEF Next, Request, Serve, Pass, Review, Environment, Actors


-----------------------------------------------------------------------------
(*****************************************************************************)
(* Objects.                                                                 *)
(*****************************************************************************)
\* The object of a photo goes only with the deletion of a review.
LEMMA SeenStep == TransferInv /\ [Next]_vars => SeenInv'
<1> SUFFICES ASSUME TransferInv, [Next]_vars PROVE SeenInv'
  OBVIOUS
<1> USE CallsAssumption DEF TransferInv, TypeOK, SeenInv, Actors, Keys, RowKey, Statuses,
      NoWrite, NoVerdict
<1>1. ASSUME NEW c \in Calls, NEW R \in SUBSET Photos, Register(c, R) PROVE SeenInv'
  BY <1>1 DEF Register, Goto
<1>2. ASSUME NEW c \in Calls, CountAndCommit(c) PROVE SeenInv'
  BY <1>2 DEF CountAndCommit, EndTx, Goto
<1>3. ASSUME NEW p \in Photos, NEW k \in Keys, Put(p, k) PROVE SeenInv'
  BY <1>3 DEF Put
<1>4. ASSUME NEW p \in Photos, NEW k \in Keys, Expire(p, k) PROVE SeenInv'
  BY <1>4 DEF Expire
<1>5. ASSUME NEW p \in Photos, GrowStale(p) PROVE SeenInv'
  BY <1>5 DEF GrowStale
<1>6. ASSUME NEW c \in Calls, NEW p \in Photos, Confirm(c, p) PROVE SeenInv'
  BY <1>6 DEF Confirm, Goto
<1>7. ASSUME NEW a \in Actors, NEW p \in Photos, Stat(a, p) PROVE SeenInv'
  BY <1>7 DEF Stat, Goto, StoredForRow
<1>8. ASSUME NEW a \in Actors, StatRaises(a) PROVE SeenInv'
  BY <1>8 DEF StatRaises, Rollback, EndTx, Goto
<1>9. ASSUME NEW c \in Calls, NEW p \in Photos, ConfirmFound(c, p) PROVE SeenInv'
  BY <1>9 DEF ConfirmFound, Update, Goto
<1>10. ASSUME NEW c \in Calls, NEW p \in Photos, ConfirmMissing(c, p) PROVE SeenInv'
  BY <1>10 DEF ConfirmMissing, Rollback, EndTx, Goto
<1>11. ASSUME NEW c \in Calls, NEW p \in Photos, Fail(c, p) PROVE SeenInv'
  BY <1>11 DEF Fail, Goto
<1>12. ASSUME NEW c \in Calls, NEW p \in Photos, MarkFailed(c, p) PROVE SeenInv'
  BY <1>12 DEF MarkFailed, Update, Goto
<1>13. ASSUME NEW c \in Calls, NEW p \in Photos, AlreadyUploaded(c, p) PROVE SeenInv'
  BY <1>13 DEF AlreadyUploaded, Rollback, EndTx, Goto
<1>14. ASSUME NEW c \in Calls, Resume(c) PROVE SeenInv'
  BY <1>14 DEF Resume, Goto
<1>15. ASSUME NEW c \in Calls, NEW p \in Photos, Reset(c, p) PROVE SeenInv'
  BY <1>15 DEF Reset, Update, ResetStatus, Goto
<1>16. ASSUME NEW R \in SUBSET Photos, StartPass(R) PROVE SeenInv'
  BY <1>16 DEF StartPass, Goto
<1>17. ASSUME NEW p \in Photos, Reconcile(p) PROVE SeenInv'
  BY <1>17 DEF Reconcile, Update, Goto
<1>18. ASSUME NEW a \in Actors, Commit(a) PROVE SeenInv'
  BY <1>18 DEF Commit, EndTx, Goto
<1>19. ASSUME NEW a \in Actors, DeadlockVictim(a) PROVE SeenInv'
  BY <1>19 DEF DeadlockVictim, Rollback, EndTx, Goto
<1>20. ASSUME NEW p \in Photos, NEW verdict \in {"approved", "rejected"}, Decide(p, verdict)
       PROVE SeenInv'
  BY <1>20 DEF Decide
<1>21. ASSUME NEW p \in Photos, Unstage(p) PROVE SeenInv'
  BY <1>21 DEF Unstage
<1>22. ASSUME NEW p \in Photos, CommitReview(p) PROVE SeenInv'
  BY <1>22 DEF CommitReview, EndReview
<1>23. ASSUME NEW p \in Photos, RollBackReview(p) PROVE SeenInv'
  BY <1>23 DEF RollBackReview, EndReview
<1>24. CASE UNCHANGED vars
  BY <1>24
<1>25. QED BY <1>1, <1>2, <1>3, <1>4, <1>5, <1>6, <1>7, <1>8, <1>9, <1>10, <1>11, <1>12,
      <1>13, <1>14, <1>15, <1>16, <1>17, <1>18, <1>19, <1>20, <1>21, <1>22, <1>23, <1>24
      DEF Next, Request, Serve, Pass, Review, Environment, Actors

\* No step takes a confirmation back.
LEMMA UploadedStep == TransferInv /\ [Next]_vars => StillUploaded
<1> SUFFICES ASSUME TransferInv, [Next]_vars PROVE StillUploaded
  OBVIOUS
<1> USE CallsAssumption DEF TransferInv, TypeOK, LockInv, InsertInv, Actors, NoWrite, Open,
      StillUploaded
<1>1. ASSUME NEW c \in Calls, NEW R \in SUBSET Photos, Register(c, R) PROVE StillUploaded
  BY <1>1 DEF Register, Goto
<1>2. ASSUME NEW c \in Calls, CountAndCommit(c) PROVE StillUploaded
  BY <1>2 DEF CountAndCommit, EndTx, Goto
<1>3. ASSUME NEW p \in Photos, NEW k \in Keys, Put(p, k) PROVE StillUploaded
  BY <1>3 DEF Put
<1>4. ASSUME NEW p \in Photos, NEW k \in Keys, Expire(p, k) PROVE StillUploaded
  BY <1>4 DEF Expire
<1>5. ASSUME NEW p \in Photos, GrowStale(p) PROVE StillUploaded
  BY <1>5 DEF GrowStale
<1>6. ASSUME NEW c \in Calls, NEW p \in Photos, Confirm(c, p) PROVE StillUploaded
  BY <1>6 DEF Confirm, Goto
<1>7. ASSUME NEW a \in Actors, NEW p \in Photos, Stat(a, p) PROVE StillUploaded
  BY <1>7 DEF Stat, Goto, StoredForRow
<1>8. ASSUME NEW a \in Actors, StatRaises(a) PROVE StillUploaded
  BY <1>8 DEF StatRaises, Rollback, EndTx, Goto
<1>9. ASSUME NEW c \in Calls, NEW p \in Photos, ConfirmFound(c, p) PROVE StillUploaded
  BY <1>9 DEF ConfirmFound, Update, Goto
<1>10. ASSUME NEW c \in Calls, NEW p \in Photos, ConfirmMissing(c, p) PROVE StillUploaded
  BY <1>10 DEF ConfirmMissing, Rollback, EndTx, Goto
<1>11. ASSUME NEW c \in Calls, NEW p \in Photos, Fail(c, p) PROVE StillUploaded
  BY <1>11 DEF Fail, Goto
<1>12. ASSUME NEW c \in Calls, NEW p \in Photos, MarkFailed(c, p) PROVE StillUploaded
  BY <1>12 DEF MarkFailed, Update, Goto
<1>13. ASSUME NEW c \in Calls, NEW p \in Photos, AlreadyUploaded(c, p) PROVE StillUploaded
  BY <1>13 DEF AlreadyUploaded, Rollback, EndTx, Goto
<1>14. ASSUME NEW c \in Calls, Resume(c) PROVE StillUploaded
  BY <1>14 DEF Resume, Goto
<1>15. ASSUME NEW c \in Calls, NEW p \in Photos, Reset(c, p) PROVE StillUploaded
  BY <1>15 DEF Reset, Update, ResetStatus, Goto
<1>16. ASSUME NEW R \in SUBSET Photos, StartPass(R) PROVE StillUploaded
  BY <1>16 DEF StartPass, Goto
<1>17. ASSUME NEW p \in Photos, Reconcile(p) PROVE StillUploaded
  BY <1>17 DEF Reconcile, Update, Goto
<1>18. ASSUME NEW a \in Actors, Commit(a) PROVE StillUploaded
  BY <1>18 DEF Commit, EndTx, Goto
<1>19. ASSUME NEW a \in Actors, DeadlockVictim(a) PROVE StillUploaded
  BY <1>19 DEF DeadlockVictim, Rollback, EndTx, Goto
<1>20. ASSUME NEW p \in Photos, NEW verdict \in {"approved", "rejected"}, Decide(p, verdict)
       PROVE StillUploaded
  BY <1>20 DEF Decide
<1>21. ASSUME NEW p \in Photos, Unstage(p) PROVE StillUploaded
  BY <1>21 DEF Unstage
<1>22. ASSUME NEW p \in Photos, CommitReview(p) PROVE StillUploaded
  BY <1>22 DEF CommitReview, EndReview
<1>23. ASSUME NEW p \in Photos, RollBackReview(p) PROVE StillUploaded
  BY <1>23 DEF RollBackReview, EndReview
<1>24. CASE UNCHANGED vars
  BY <1>24
<1>25. QED BY <1>1, <1>2, <1>3, <1>4, <1>5, <1>6, <1>7, <1>8, <1>9, <1>10, <1>11, <1>12,
      <1>13, <1>14, <1>15, <1>16, <1>17, <1>18, <1>19, <1>20, <1>21, <1>22, <1>23, <1>24
      DEF Next, Request, Serve, Pass, Review, Environment, Actors

\* Registrations that overlap lose no photo from the total, and nothing else makes a row.
LEMMA CountStep == TransferInv /\ [Next]_vars => CountInv'
<1> SUFFICES ASSUME TransferInv, [Next]_vars PROVE CountInv'
  OBVIOUS
<1> USE CallsAssumption DEF TransferInv, TypeOK, LockInv, InsertInv, Actors, Statuses,
      NoWrite, Open
<1>1. ASSUME NEW c \in Calls, NEW R \in SUBSET Photos, Register(c, R) PROVE CountInv'
  BY <1>1 DEF Register, Goto, CountInv, Rows
<1>2. ASSUME NEW c \in Calls, CountAndCommit(c) PROVE CountInv'
  <2>1. IsFiniteSet(Rows) /\ IsFiniteSet(todo[c])
    BY PhotosAssumption, FS_Subset DEF Rows
  <2>2. todo[c] \subseteq Photos /\ todo[c] \cap Rows = {} /\ Rows' = Rows \cup todo[c]
    BY <1>2 DEF CountAndCommit, EndTx, Goto, Rows
  <2>3. Cardinality(Rows \cap todo[c]) = 0
    BY <2>2, FS_EmptySet
  <2>4. Cardinality(Rows') = Cardinality(Rows) + Cardinality(todo[c])
    <3>1. Cardinality(Rows \cup todo[c]) = Cardinality(Rows) + Cardinality(todo[c]) - Cardinality(Rows \cap todo[c])
      BY <2>1, FS_Union
    <3>2. Cardinality(Rows) \in Nat /\ Cardinality(todo[c]) \in Nat
      BY <2>1, FS_CardinalityType
    <3>3. QED BY <2>2, <2>3, <3>1, <3>2
  <2>5. total' = total + Cardinality(todo[c])
    BY <1>2 DEF CountAndCommit
  <2>6. QED BY <2>4, <2>5 DEF CountInv
<1>3. ASSUME NEW p \in Photos, NEW k \in Keys, Put(p, k) PROVE CountInv'
  BY <1>3 DEF Put, CountInv, Rows
<1>4. ASSUME NEW p \in Photos, NEW k \in Keys, Expire(p, k) PROVE CountInv'
  BY <1>4 DEF Expire, CountInv, Rows
<1>5. ASSUME NEW p \in Photos, GrowStale(p) PROVE CountInv'
  BY <1>5 DEF GrowStale, CountInv, Rows
<1>6. ASSUME NEW c \in Calls, NEW p \in Photos, Confirm(c, p) PROVE CountInv'
  BY <1>6 DEF Confirm, Goto, CountInv, Rows
<1>7. ASSUME NEW a \in Actors, NEW p \in Photos, Stat(a, p) PROVE CountInv'
  BY <1>7 DEF Stat, Goto, StoredForRow, CountInv, Rows
<1>8. ASSUME NEW a \in Actors, StatRaises(a) PROVE CountInv'
  BY <1>8 DEF StatRaises, Rollback, EndTx, Goto, CountInv, Rows
<1>9. ASSUME NEW c \in Calls, NEW p \in Photos, ConfirmFound(c, p) PROVE CountInv'
  BY <1>9 DEF ConfirmFound, Update, Goto, CountInv, Rows
<1>10. ASSUME NEW c \in Calls, NEW p \in Photos, ConfirmMissing(c, p) PROVE CountInv'
  BY <1>10 DEF ConfirmMissing, Rollback, EndTx, Goto, CountInv, Rows
<1>11. ASSUME NEW c \in Calls, NEW p \in Photos, Fail(c, p) PROVE CountInv'
  BY <1>11 DEF Fail, Goto, CountInv, Rows
<1>12. ASSUME NEW c \in Calls, NEW p \in Photos, MarkFailed(c, p) PROVE CountInv'
  BY <1>12 DEF MarkFailed, Update, Goto, CountInv, Rows
<1>13. ASSUME NEW c \in Calls, NEW p \in Photos, AlreadyUploaded(c, p) PROVE CountInv'
  BY <1>13 DEF AlreadyUploaded, Rollback, EndTx, Goto, CountInv, Rows
<1>14. ASSUME NEW c \in Calls, Resume(c) PROVE CountInv'
  BY <1>14 DEF Resume, Goto, CountInv, Rows
<1>15. ASSUME NEW c \in Calls, NEW p \in Photos, Reset(c, p) PROVE CountInv'
  BY <1>15 DEF Reset, Update, ResetStatus, Goto, CountInv, Rows
<1>16. ASSUME NEW R \in SUBSET Photos, StartPass(R) PROVE CountInv'
  BY <1>16 DEF StartPass, Goto, CountInv, Rows
<1>17. ASSUME NEW p \in Photos, Reconcile(p) PROVE CountInv'
  BY <1>17 DEF Reconcile, Update, Goto, CountInv, Rows
<1>18. ASSUME NEW a \in Actors, Commit(a) PROVE CountInv'
  <2>1. Rows' = Rows
    BY SMTT(30), <1>18 DEF Commit, EndTx, Goto, Rows
  <2>2. QED BY <1>18, <2>1 DEF Commit, CountInv
<1>19. ASSUME NEW a \in Actors, DeadlockVictim(a) PROVE CountInv'
  BY <1>19 DEF DeadlockVictim, Rollback, EndTx, Goto, CountInv, Rows
<1>20. ASSUME NEW p \in Photos, NEW verdict \in {"approved", "rejected"}, Decide(p, verdict)
       PROVE CountInv'
  BY <1>20 DEF Decide, CountInv, Rows
<1>21. ASSUME NEW p \in Photos, Unstage(p) PROVE CountInv'
  BY <1>21 DEF Unstage, CountInv, Rows
<1>22. ASSUME NEW p \in Photos, CommitReview(p) PROVE CountInv'
  BY <1>22 DEF CommitReview, EndReview, CountInv, Rows
<1>23. ASSUME NEW p \in Photos, RollBackReview(p) PROVE CountInv'
  BY <1>23 DEF RollBackReview, EndReview, CountInv, Rows
<1>24. CASE UNCHANGED vars
  BY <1>24 DEF CountInv, Rows
<1>25. QED BY <1>1, <1>2, <1>3, <1>4, <1>5, <1>6, <1>7, <1>8, <1>9, <1>10, <1>11, <1>12,
      <1>13, <1>14, <1>15, <1>16, <1>17, <1>18, <1>19, <1>20, <1>21, <1>22, <1>23, <1>24
      DEF Next, Request, Serve, Pass, Review, Environment, Actors


-----------------------------------------------------------------------------
(*****************************************************************************)
(* The theorems.                                                            *)
(*****************************************************************************)
\* The invariants hold when the service starts.
LEMMA InitInv == Init => TransferInv
  BY SMTT(30), CallsAssumption, FS_EmptySet DEF Init, TransferInv, TypeOK, LockInv, InsertInv,
     SeenInv, CountInv, Rows,
     Actors, Keys, RowKey, Statuses, Labels, NoWrite, NoVerdict

\* The inductive invariant: who has locked a photo, whose rows are not yet there, and
\* which objects have been seen.
THEOREM TransferInvariant == Spec => []TransferInv
<1>1. TransferInv /\ [Next]_vars => TransferInv'
  BY TypeStep, LockStep, InsertStep, SeenStep, CountStep DEF TransferInv
<1>2. QED BY <1>1, InitInv, PTL DEF Spec

\* Every variable keeps its type, and a photo that counts as uploaded has its object
\* under the key of its row until a review deletes it.
THEOREM UploadedPhotosHaveObjects == Spec => []Inv
<1>1. TransferInv => Inv
  BY DEF TransferInv, SeenInv, Inv, UploadedHasObject
<1>2. QED BY <1>1, TransferInvariant, PTL

\* Whatever calls and passes overlap, none takes a confirmation back.
THEOREM ConfirmationIsFinal == Spec => UploadedStaysUploaded
<1>1. TransferInv /\ [Next]_vars =>
        [\A p \in Photos : transfer[p] = "uploaded" => transfer'[p] = "uploaded"]_vars
  BY UploadedStep DEF StillUploaded
<1>2. QED BY <1>1, TransferInvariant, PTL DEF Spec, UploadedStaysUploaded

\* However registrations overlap with each other and with what settles photos, the
\* total of the group is the number of its photos.
THEOREM GroupCountsItsPhotos ==
  Spec => [](total = Cardinality({p \in Photos : transfer[p] # "absent"}))
<1>1. TransferInv => total = Cardinality({p \in Photos : transfer[p] # "absent"})
  BY DEF TransferInv, CountInv, Rows
<1>2. QED BY <1>1, TransferInvariant, PTL

-----------------------------------------------------------------------------
(*****************************************************************************)
(* The import of a folder of Drive: GroupImport, the other way in which     *)
(* photos get into a group of upload requests.                              *)
(*****************************************************************************)
\* A delivery between its UPDATE of the group and its end, and one that is going
\* through the batches.
InTx(w) == step[w] \notin {"idle", "start", "ack"}
InBatch(w) == step[w] \in {"request", "stage", "insert", "next", "complete"}

Typed ==
  /\ ImportTypeOK
  /\ \A w \in Workers :
       /\ InBatch(w) => batch[w] # 0
       /\ step[w] = "next" => batch[w] < BatchCount
       /\ step[w] = "commit" => outcome[w] # "none"
       /\ aborted[w] => step[w] \in {"discard", "nak"}
       /\ ~InTx(w) => batch[w] = 0 /\ newRequests[w] = {} /\ newRows[w] = {}

\* One delivery at a time has the row of the group, which is pending as long as it
\* has; nothing is committed before the group is finished, and never by a delivery
\* that is still at work.
GroupLockInv ==
  /\ creator # "done" => group = "none"
  /\ \A w, o \in Workers : Holds(w) /\ Holds(o) => w = o
  /\ \A w \in Workers : Holds(w) => group = "pending"
  /\ group \in {"none", "pending"} => requests = {} /\ rows = {}
  /\ \A w \in Workers : InTx(w) => \A p \in Images : <<w, p>> \notin rows

\* What a delivery has inserted: the requests up to its batch, and the photos of the
\* batches before and of this one as far as it has come.
Before(b) == {p \in Images : BatchOf[p] < b}
Progress(w) ==
  /\ step[w] \in {"list", "request"} => newRequests[w] = 1..(batch[w] - 1)
  /\ step[w] \in {"stage", "insert", "next", "complete"} => newRequests[w] = 1..batch[w]
  /\ step[w] = "list" => batch[w] = 0 /\ newRows[w] = {}
  /\ step[w] = "request" => newRows[w] = Before(batch[w])
  /\ step[w] = "stage" => newRows[w] = Before(batch[w] + 1) \ remaining[w]
  /\ step[w] = "insert" => newRows[w] \cup Loose(w) = Before(batch[w] + 1) \ remaining[w]
  /\ step[w] \in {"stage", "insert"} => remaining[w] \subseteq PhotosOf(batch[w])
  /\ step[w] \in {"next", "complete"} => newRows[w] = Before(batch[w] + 1)
  /\ step[w] = "complete" => batch[w] = BatchCount
  /\ step[w] = "commit" /\ outcome[w] = "completed" =>
       newRequests[w] = 1..BatchCount /\ newRows[w] = Images
  /\ step[w] = "commit" /\ outcome[w] = "failed" => newRequests[w] \subseteq {batch[w]}
ProgressInv == \A w \in Workers : Progress(w)

\* What a delivery inserts has its object; after a failure it has not, but for what
\* the store has refused to delete.
ObjectsInv ==
  \A w \in Workers :
    /\ InBatch(w) \/ (step[w] = "commit" /\ outcome[w] = "completed") =>
         {w} \X newRows[w] \subseteq staging
    /\ step[w] = "insert" => {w} \X Loose(w) \subseteq staging
    /\ step[w] = "commit" /\ outcome[w] = "failed" =>
         ({w} \X newRows[w]) \cap staging \subseteq refused

\* Without crashes and errors of the database, what is in the store has a row, or
\* the delivery at work knows of it, or the store has refused to delete it.
KnownTo(w) ==
  IF ~InTx(w) \/ step[w] = "nak" THEN {}
  ELSE newRows[w] \cup (IF step[w] = "insert" THEN Loose(w) ELSE {})
AccountedInv ==
  struck \cap {"crash", "database"} = {} =>
    \A w \in Workers, p \in Images :
      <<w, p>> \in staging => <<w, p>> \in rows \cup refused \/ p \in KnownTo(w)

ImportInv ==
  /\ Typed
  /\ GroupLockInv
  /\ ProgressInv
  /\ ObjectsInv
  /\ AccountedInv
  /\ CompletedIsWhole
  /\ FailedLeavesOneRequest

\* Every variable keeps its type, and a delivery has a batch where it needs one.
LEMMA ImportTypes == Typed /\ [ImportNext]_importVars => Typed'
<1> SUFFICES ASSUME Typed, [ImportNext]_importVars PROVE Typed'
  OBVIOUS
<1> USE DEF importVars, tables, objects, delivery, luck
<1> USE BatchesAssumption, FaultsAssumption DEF ImportInv, Typed, ImportTypeOK, Steps,
      Finished, InTx, InBatch, PhotosOf, Loose
<1>1. CASE PublishImport
  BY <1>1 DEF PublishImport, Strike
<1>2. CASE CommitGroup
  BY <1>2 DEF CommitGroup, Strike
<1>3. ASSUME NEW w \in Workers, Deliver(w) PROVE Typed'
  BY <1>3 DEF Deliver, GotoStep
<1>4. ASSUME NEW w \in Workers, StartImport(w) PROVE Typed'
  BY <1>4 DEF StartImport, Startable, GotoStep
<1>5. ASSUME NEW w \in Workers, ListFolder(w) PROVE Typed'
  BY <1>5 DEF ListFolder, Listings, GotoStep
<1>6. ASSUME NEW w \in Workers, InsertRequest(w) PROVE Typed'
  BY <1>6 DEF InsertRequest, GotoStep
<1>7. ASSUME NEW w \in Workers, NEW p \in Images, StagePhoto(w, p) PROVE Typed'
  BY <1>7 DEF StagePhoto, GotoStep
<1>8. ASSUME NEW w \in Workers, InsertPhoto(w) PROVE Typed'
  BY <1>8 DEF InsertPhoto, Loose, GotoStep
<1>9. ASSUME NEW w \in Workers, NextBatch(w) PROVE Typed'
  BY <1>9 DEF NextBatch, GotoStep
<1>10. ASSUME NEW w \in Workers, Complete(w) PROVE Typed'
  BY <1>10 DEF Complete, GotoStep
<1>11. ASSUME NEW w \in Workers, Discard(w) PROVE Typed'
  BY SMTT(30), <1>11 DEF Discard, DeleteObjects, Refusals, ToClean, Keeps, GotoStep
<1>12. ASSUME NEW w \in Workers, CommitImport(w) PROVE Typed'
  BY <1>12 DEF CommitImport, Outcome, EndDelivery, GotoStep
<1>13. ASSUME NEW w \in Workers, Ack(w) PROVE Typed'
  BY <1>13 DEF Ack, GotoStep
<1>14. ASSUME NEW w \in Workers, Nak(w) PROVE Typed'
  BY <1>14 DEF Nak, AfterNak, EndDelivery, GotoStep
<1>15. ASSUME NEW w \in Workers, DriveFault(w) PROVE Typed'
  BY <1>15 DEF DriveFault, Strike, GotoStep
<1>16. ASSUME NEW w \in Workers, IntegrityFault(w) PROVE Typed'
  BY <1>16 DEF IntegrityFault, DeleteObjects, Refusals, Strike, GotoStep
<1>17. ASSUME NEW w \in Workers, DatabaseFault(w) PROVE Typed'
  BY <1>17 DEF DatabaseFault, Strike, GotoStep
<1>18. ASSUME NEW w \in Workers, Crash(w) PROVE Typed'
  BY <1>18 DEF Crash, Strike, EndDelivery, GotoStep
<1>19. CASE UNCHANGED importVars
  BY <1>19
<1> HIDE DEF ImportInv, Typed, ImportTypeOK, InTx, InBatch, Steps,
      Finished, PhotosOf, Loose
<1>20. QED BY <1>1, <1>2, <1>3, <1>4, <1>5, <1>6, <1>7, <1>8, <1>9, <1>10, <1>11, <1>12,
      <1>13, <1>14, <1>15, <1>16, <1>17, <1>18, <1>19
      DEF ImportNext, Work, Fault

\* The UPDATE of the group lets one delivery in, and only while nothing is committed.
LEMMA GroupLockStep == ImportInv /\ [ImportNext]_importVars => GroupLockInv'
<1> SUFFICES ASSUME ImportInv, [ImportNext]_importVars PROVE GroupLockInv'
  OBVIOUS
<1> USE DEF importVars, tables, objects, delivery, luck
<1> USE BatchesAssumption, FaultsAssumption DEF ImportInv, Typed, ImportTypeOK, Steps,
      Finished, InTx, GroupLockInv, Holds
<1>1. CASE PublishImport
  BY <1>1 DEF PublishImport, Strike
<1>2. CASE CommitGroup
  BY <1>2 DEF CommitGroup, Strike
<1>3. ASSUME NEW w \in Workers, Deliver(w) PROVE GroupLockInv'
  BY <1>3 DEF Deliver, GotoStep
<1>4. ASSUME NEW w \in Workers, StartImport(w) PROVE GroupLockInv'
  BY <1>4 DEF StartImport, Startable, GotoStep
<1>5. ASSUME NEW w \in Workers, ListFolder(w) PROVE GroupLockInv'
  BY <1>5 DEF ListFolder, Listings, GotoStep
<1>6. ASSUME NEW w \in Workers, InsertRequest(w) PROVE GroupLockInv'
  BY <1>6 DEF InsertRequest, GotoStep
<1>7. ASSUME NEW w \in Workers, NEW p \in Images, StagePhoto(w, p) PROVE GroupLockInv'
  BY <1>7 DEF StagePhoto, GotoStep
<1>8. ASSUME NEW w \in Workers, InsertPhoto(w) PROVE GroupLockInv'
  BY <1>8 DEF InsertPhoto, Loose, GotoStep
<1>9. ASSUME NEW w \in Workers, NextBatch(w) PROVE GroupLockInv'
  BY <1>9 DEF NextBatch, GotoStep
<1>10. ASSUME NEW w \in Workers, Complete(w) PROVE GroupLockInv'
  BY <1>10 DEF Complete, GotoStep
<1>11. ASSUME NEW w \in Workers, Discard(w) PROVE GroupLockInv'
  BY <1>11 DEF Discard, DeleteObjects, Refusals, ToClean, Keeps, GotoStep
<1>12. ASSUME NEW w \in Workers, CommitImport(w) PROVE GroupLockInv'
  BY <1>12 DEF CommitImport, Outcome, EndDelivery, GotoStep
<1>13. ASSUME NEW w \in Workers, Ack(w) PROVE GroupLockInv'
  BY <1>13 DEF Ack, GotoStep
<1>14. ASSUME NEW w \in Workers, Nak(w) PROVE GroupLockInv'
  BY <1>14 DEF Nak, AfterNak, EndDelivery, GotoStep
<1>15. ASSUME NEW w \in Workers, DriveFault(w) PROVE GroupLockInv'
  BY <1>15 DEF DriveFault, Strike, GotoStep
<1>16. ASSUME NEW w \in Workers, IntegrityFault(w) PROVE GroupLockInv'
  BY <1>16 DEF IntegrityFault, DeleteObjects, Refusals, Strike, GotoStep
<1>17. ASSUME NEW w \in Workers, DatabaseFault(w) PROVE GroupLockInv'
  BY <1>17 DEF DatabaseFault, Strike, GotoStep
<1>18. ASSUME NEW w \in Workers, Crash(w) PROVE GroupLockInv'
  BY <1>18 DEF Crash, Strike, EndDelivery, GotoStep
<1>19. CASE UNCHANGED importVars
  BY <1>19
<1> HIDE DEF ImportInv, Typed, ImportTypeOK, InTx, Steps, Finished,
      GroupLockInv, Holds
<1>20. QED BY <1>1, <1>2, <1>3, <1>4, <1>5, <1>6, <1>7, <1>8, <1>9, <1>10, <1>11, <1>12,
      <1>13, <1>14, <1>15, <1>16, <1>17, <1>18, <1>19
      DEF ImportNext, Work, Fault

\* A delivery goes through the batches in turn, and through each photo of a batch.
LEMMA ProgressStep == ImportInv /\ [ImportNext]_importVars => ProgressInv'
<1> SUFFICES ASSUME ImportInv, [ImportNext]_importVars PROVE ProgressInv'
  OBVIOUS
<1> USE DEF importVars, tables, objects, delivery, luck
<1> USE BatchesAssumption, FaultsAssumption DEF ImportInv, Typed, ImportTypeOK, Steps, InTx,
      InBatch, ProgressInv, Progress, Before, PhotosOf, Loose
<1>1. CASE PublishImport
  BY <1>1 DEF PublishImport, Strike
<1>2. CASE CommitGroup
  BY <1>2 DEF CommitGroup, Strike
<1>3. ASSUME NEW w \in Workers, Deliver(w) PROVE ProgressInv'
  BY <1>3 DEF Deliver, GotoStep
<1>4. ASSUME NEW w \in Workers, StartImport(w) PROVE ProgressInv'
  <2>1. 1..(0 - 1) = {}
    OBVIOUS
  <2>2. \A o \in Workers : o # w => step'[o] = step[o]
    BY <1>4 DEF StartImport, GotoStep
  <2>3. step'[w] \in {"list", "ack"} /\ batch[w] = 0 /\ newRequests[w] = {} /\ newRows[w] = {}
    BY <1>4 DEF StartImport, GotoStep
  <2>4. UNCHANGED delivery
    BY <1>4 DEF StartImport
  <2>5. ASSUME NEW o \in Workers, o # w PROVE Progress(o)'
    BY <2>1, <2>2, <2>4, <2>5 DEF ProgressInv, Progress, Loose, PhotosOf,
       Before
  <2>6. Progress(w)'
    BY <2>1, <2>2, <2>3, <2>4 DEF Progress, Loose, PhotosOf, Before
  <2>7. QED BY <2>5, <2>6 DEF ProgressInv
<1>5. ASSUME NEW w \in Workers, ListFolder(w) PROVE ProgressInv'
  <2>1. newRequests[w] = {} /\ newRows[w] = {} /\ batch[w] = 0
    BY <1>5 DEF ListFolder
  <2>2. \A o \in Workers : o # w => /\ step'[o] = step[o] /\ outcome'[o] = outcome[o]
                                     /\ batch'[o] = batch[o]
    BY <1>5 DEF ListFolder, GotoStep
  <2>3. UNCHANGED <<remaining, newRequests, newRows>>
    BY <1>5 DEF ListFolder
  <2>4. \/ step'[w] = "commit" /\ outcome'[w] = "failed"
        \/ step'[w] = "request" /\ batch'[w] = 1
    BY <1>5 DEF ListFolder, GotoStep
  <2>5. 1..(1 - 1) = {} /\ Before(1) = {}
    BY DEF Before
  <2>6. ASSUME NEW o \in Workers, o # w PROVE Progress(o)'
    BY <2>2, <2>3, <2>6 DEF ProgressInv, Progress, Loose, PhotosOf, Before
  <2>7. Progress(w)'
    BY <2>1, <2>3, <2>4, <2>5 DEF Progress, Before
  <2>8. QED BY <2>6, <2>7 DEF ProgressInv
<1>6. ASSUME NEW w \in Workers, InsertRequest(w) PROVE ProgressInv'
  BY <1>6 DEF InsertRequest, GotoStep
<1>7. ASSUME NEW w \in Workers, NEW p \in Images, StagePhoto(w, p) PROVE ProgressInv'
  BY <1>7 DEF StagePhoto, GotoStep
<1>8. ASSUME NEW w \in Workers, InsertPhoto(w) PROVE ProgressInv'
  BY <1>8 DEF InsertPhoto, Loose, GotoStep
<1>9. ASSUME NEW w \in Workers, NextBatch(w) PROVE ProgressInv'
  BY <1>9 DEF NextBatch, GotoStep
<1>10. ASSUME NEW w \in Workers, Complete(w) PROVE ProgressInv'
  <2>1. Before(BatchCount + 1) = Images
    BY DEF Before
  <2>a. step[w] = "complete" /\ batch[w] = BatchCount
    BY <1>10 DEF Complete
  <2>b. newRows[w] = Before(batch[w] + 1) /\ newRequests[w] = 1..batch[w]
    BY <2>a DEF ProgressInv, Progress
  <2>2. newRows[w] = Images /\ newRequests[w] = 1..BatchCount
    BY <2>1, <2>a, <2>b
  <2>3. \A o \in Workers : o # w => step'[o] = step[o] /\ outcome'[o] = outcome[o]
    BY <1>10 DEF Complete, GotoStep
  <2>4. step'[w] = "commit" /\ outcome'[w] = "completed"
    BY <1>10 DEF Complete, GotoStep
  <2>5. UNCHANGED <<batch, remaining, newRequests, newRows>>
    BY <1>10 DEF Complete
  <2>6. QED BY <2>2, <2>3, <2>4, <2>5 DEF ProgressInv, Loose, PhotosOf, Before
<1>11. ASSUME NEW w \in Workers, Discard(w) PROVE ProgressInv'
  <2>1. \A o \in Workers : o # w => /\ step'[o] = step[o] /\ outcome'[o] = outcome[o]
                                     /\ newRequests'[o] = newRequests[o] /\ newRows'[o] = newRows[o]
    BY <1>11 DEF Discard, GotoStep
  <2>2. UNCHANGED <<batch, remaining>>
    BY <1>11 DEF Discard
  <2>3. step'[w] = "commit" => outcome'[w] = "failed" /\ newRequests'[w] \subseteq {batch'[w]}
    BY <1>11 DEF Discard, Keeps, GotoStep
  <2>4. step'[w] \in {"nak", "commit"}
    BY <1>11 DEF Discard, GotoStep
  <2>5. ASSUME NEW o \in Workers, o # w PROVE Progress(o)'
    BY <2>1, <2>2, <2>5 DEF ProgressInv, Progress, Loose, PhotosOf, Before
  <2>6. Progress(w)'
    BY <2>1, <2>2, <2>3, <2>4 DEF Progress, Loose, PhotosOf, Before
  <2>7. QED BY <2>5, <2>6 DEF ProgressInv
<1>12. ASSUME NEW w \in Workers, CommitImport(w) PROVE ProgressInv'
  BY <1>12 DEF CommitImport, Outcome, EndDelivery, GotoStep
<1>13. ASSUME NEW w \in Workers, Ack(w) PROVE ProgressInv'
  BY <1>13 DEF Ack, GotoStep
<1>14. ASSUME NEW w \in Workers, Nak(w) PROVE ProgressInv'
  BY <1>14 DEF Nak, AfterNak, EndDelivery, GotoStep
<1>15. ASSUME NEW w \in Workers, DriveFault(w) PROVE ProgressInv'
  BY <1>15 DEF DriveFault, Strike, GotoStep
<1>16. ASSUME NEW w \in Workers, IntegrityFault(w) PROVE ProgressInv'
  BY <1>16 DEF IntegrityFault, DeleteObjects, Refusals, Strike, GotoStep
<1>17. ASSUME NEW w \in Workers, DatabaseFault(w) PROVE ProgressInv'
  BY <1>17 DEF DatabaseFault, Strike, GotoStep
<1>18. ASSUME NEW w \in Workers, Crash(w) PROVE ProgressInv'
  BY <1>18 DEF Crash, Strike, EndDelivery, GotoStep
<1>19. CASE UNCHANGED importVars
  BY <1>19
<1> HIDE DEF ImportInv, Typed, ImportTypeOK, Steps, InTx, InBatch, ProgressInv,
      Progress, Before, PhotosOf, Loose
<1>20. QED BY <1>1, <1>2, <1>3, <1>4, <1>5, <1>6, <1>7, <1>8, <1>9, <1>10, <1>11, <1>12,
      <1>13, <1>14, <1>15, <1>16, <1>17, <1>18, <1>19
      DEF ImportNext, Work, Fault

\* Objects are stored before their rows, and deleted before the failure is recorded.
LEMMA ObjectsStep == ImportInv /\ [ImportNext]_importVars => ObjectsInv'
<1> SUFFICES ASSUME ImportInv, [ImportNext]_importVars PROVE ObjectsInv'
  OBVIOUS
<1> USE DEF importVars, tables, objects, delivery, luck
<1> USE BatchesAssumption, FaultsAssumption DEF ImportInv, Typed, ImportTypeOK, Steps, InBatch,
      ProgressInv, Progress, ObjectsInv, Before, PhotosOf, Loose
<1>1. CASE PublishImport
  BY <1>1 DEF PublishImport, Strike
<1>2. CASE CommitGroup
  BY <1>2 DEF CommitGroup, Strike
<1>3. ASSUME NEW w \in Workers, Deliver(w) PROVE ObjectsInv'
  BY <1>3 DEF Deliver, GotoStep
<1>4. ASSUME NEW w \in Workers, StartImport(w) PROVE ObjectsInv'
  BY <1>4 DEF StartImport, Startable, GotoStep
<1>5. ASSUME NEW w \in Workers, ListFolder(w) PROVE ObjectsInv'
  <2>1. newRows[w] = {} /\ UNCHANGED <<staging, remaining, newRows>>
    BY <1>5 DEF ListFolder
  <2>2. \A v \in Workers : v # w => step'[v] = step[v] /\ outcome'[v] = outcome[v] /\ batch'[v] = batch[v]
    BY <1>5 DEF ListFolder, GotoStep
  <2>3. step'[w] \in {"commit", "request"}
    BY <1>5 DEF ListFolder, GotoStep
  <2>4. step'[w] = "commit" => newRows'[w] = {}
    BY <2>1
  <2>5. \A v \in Workers : v # w => (step'[v] = "insert" => Loose(v)' = Loose(v))
    BY <2>1, <2>2 DEF Loose, PhotosOf
  <2> HIDE DEF Loose, PhotosOf, ImportInv, Typed, ImportTypeOK, Before
  <2>6. ASSUME NEW v \in Workers, v # w
        PROVE  /\ InBatch(v)' \/ (step'[v] = "commit" /\ outcome'[v] = "completed") =>
                    {v} \X newRows'[v] \subseteq staging'
               /\ step'[v] = "insert" => {v} \X Loose(v)' \subseteq staging'
               /\ step'[v] = "commit" /\ outcome'[v] = "failed" =>
                    ({v} \X newRows'[v]) \cap staging' \subseteq refused'
    <3>1. UNCHANGED refused
      BY <1>5 DEF ListFolder
    <3>2. ObjectsInv
      BY DEF ImportInv
    <3>3. QED BY <2>1, <2>2, <2>5, <2>6, <3>1, <3>2 DEF ObjectsInv, InBatch
  <2>7. step'[w] # "insert" /\ newRows'[w] = {}
    BY <2>1, <2>3
  <2>8. {w} \X newRows'[w] = {}
    BY <2>7
  <2>9. QED BY <2>6, <2>7, <2>8 DEF ObjectsInv
<1>6. ASSUME NEW w \in Workers, InsertRequest(w) PROVE ObjectsInv'
  BY <1>6 DEF InsertRequest, GotoStep
<1>7. ASSUME NEW w \in Workers, NEW p \in Images, StagePhoto(w, p) PROVE ObjectsInv'
  BY <1>7 DEF StagePhoto, GotoStep
<1>8. ASSUME NEW w \in Workers, InsertPhoto(w) PROVE ObjectsInv'
  BY <1>8 DEF InsertPhoto, Loose, GotoStep
<1>9. ASSUME NEW w \in Workers, NextBatch(w) PROVE ObjectsInv'
  BY <1>9 DEF NextBatch, GotoStep
<1>10. ASSUME NEW w \in Workers, Complete(w) PROVE ObjectsInv'
  BY <1>10 DEF Complete, GotoStep
<1>11. ASSUME NEW w \in Workers, Discard(w) PROVE ObjectsInv'
  <2>1. /\ newRows[w] \subseteq Images /\ UNCHANGED <<batch, remaining>>
        /\ refused \subseteq refused'
        /\ staging' = staging \ (({w} \X newRows[w]) \ refused')
    BY <1>11 DEF Discard, DeleteObjects, ToClean
  <2>2. \A v \in Workers : v # w => /\ step'[v] = step[v] /\ outcome'[v] = outcome[v]
                                     /\ newRows'[v] = newRows[v]
    BY <1>11 DEF Discard, GotoStep
  <2>3. step'[w] \in {"nak", "commit"} /\ newRows'[w] \subseteq newRows[w]
    BY <1>11 DEF Discard, GotoStep
  <2>4. step'[w] = "commit" => outcome'[w] = "failed"
    BY <1>11 DEF Discard, GotoStep
  <2>5. \A v \in Workers, p \in Images : v # w => (<<v, p>> \in staging' <=> <<v, p>> \in staging)
    BY <2>1
  <2>6. ({w} \X newRows'[w]) \cap staging' \subseteq refused'
    BY <2>1, <2>3
  <2>7. ASSUME NEW v \in Workers, v # w
        PROVE  /\ InBatch(v)' \/ (step'[v] = "commit" /\ outcome'[v] = "completed") =>
                    {v} \X newRows'[v] \subseteq staging'
               /\ step'[v] = "insert" => {v} \X Loose(v)' \subseteq staging'
               /\ step'[v] = "commit" /\ outcome'[v] = "failed" =>
                    ({v} \X newRows'[v]) \cap staging' \subseteq refused'
    BY <2>1, <2>2, <2>5, <2>7 DEF ObjectsInv, InBatch, Loose, PhotosOf
  <2>8. ASSUME NEW v \in Workers, v = w
        PROVE  /\ InBatch(v)' \/ (step'[v] = "commit" /\ outcome'[v] = "completed") =>
                    {v} \X newRows'[v] \subseteq staging'
               /\ step'[v] = "insert" => {v} \X Loose(v)' \subseteq staging'
               /\ step'[v] = "commit" /\ outcome'[v] = "failed" =>
                    ({v} \X newRows'[v]) \cap staging' \subseteq refused'
    BY <2>3, <2>4, <2>6, <2>8 DEF InBatch
  <2>9. QED BY <2>7, <2>8 DEF ObjectsInv
<1>12. ASSUME NEW w \in Workers, CommitImport(w) PROVE ObjectsInv'
  BY <1>12 DEF CommitImport, Outcome, EndDelivery, GotoStep
<1>13. ASSUME NEW w \in Workers, Ack(w) PROVE ObjectsInv'
  BY <1>13 DEF Ack, GotoStep
<1>14. ASSUME NEW w \in Workers, Nak(w) PROVE ObjectsInv'
  BY <1>14 DEF Nak, AfterNak, EndDelivery, GotoStep
<1>15. ASSUME NEW w \in Workers, DriveFault(w) PROVE ObjectsInv'
  BY <1>15 DEF DriveFault, Strike, GotoStep
<1>16. ASSUME NEW w \in Workers, IntegrityFault(w) PROVE ObjectsInv'
  BY <1>16 DEF IntegrityFault, DeleteObjects, Refusals, Strike, GotoStep
<1>17. ASSUME NEW w \in Workers, DatabaseFault(w) PROVE ObjectsInv'
  BY <1>17 DEF DatabaseFault, Strike, GotoStep
<1>18. ASSUME NEW w \in Workers, Crash(w) PROVE ObjectsInv'
  BY <1>18 DEF Crash, Strike, EndDelivery, GotoStep
<1>19. CASE UNCHANGED importVars
  BY <1>19
<1> HIDE DEF ImportInv, Typed, ImportTypeOK, Steps, InBatch, ProgressInv,
      Progress, ObjectsInv, Before, PhotosOf, Loose
<1>20. QED BY <1>1, <1>2, <1>3, <1>4, <1>5, <1>6, <1>7, <1>8, <1>9, <1>10, <1>11, <1>12,
      <1>13, <1>14, <1>15, <1>16, <1>17, <1>18, <1>19
      DEF ImportNext, Work, Fault

\* Without a crash or an error of the database, a delivery loses sight of no object.
LEMMA AccountedStep == ImportInv /\ [ImportNext]_importVars => AccountedInv'
<1> SUFFICES ASSUME ImportInv, [ImportNext]_importVars PROVE AccountedInv'
  OBVIOUS
<1> USE DEF importVars, tables, objects, delivery, luck
<1> USE BatchesAssumption, FaultsAssumption DEF ImportInv, Typed, ImportTypeOK, Steps, InTx,
      ProgressInv, Progress, AccountedInv, KnownTo, Before, PhotosOf, Loose
<1>1. CASE PublishImport
  BY <1>1 DEF PublishImport, Strike
<1>2. CASE CommitGroup
  BY <1>2 DEF CommitGroup, Strike
<1>3. ASSUME NEW w \in Workers, Deliver(w) PROVE AccountedInv'
  BY <1>3 DEF Deliver, GotoStep
<1>4. ASSUME NEW w \in Workers, StartImport(w) PROVE AccountedInv'
  BY <1>4 DEF StartImport, Startable, GotoStep
<1>5. ASSUME NEW w \in Workers, ListFolder(w) PROVE AccountedInv'
  BY <1>5 DEF ListFolder, Listings, GotoStep
<1>6. ASSUME NEW w \in Workers, InsertRequest(w) PROVE AccountedInv'
  BY <1>6 DEF InsertRequest, GotoStep
<1>7. ASSUME NEW w \in Workers, NEW p \in Images, StagePhoto(w, p) PROVE AccountedInv'
  BY <1>7 DEF StagePhoto, GotoStep
<1>8. ASSUME NEW w \in Workers, InsertPhoto(w) PROVE AccountedInv'
  BY <1>8 DEF InsertPhoto, Loose, GotoStep
<1>9. ASSUME NEW w \in Workers, NextBatch(w) PROVE AccountedInv'
  BY <1>9 DEF NextBatch, GotoStep
<1>10. ASSUME NEW w \in Workers, Complete(w) PROVE AccountedInv'
  BY <1>10 DEF Complete, GotoStep
<1>11. ASSUME NEW w \in Workers, Discard(w) PROVE AccountedInv'
  BY <1>11 DEF Discard, DeleteObjects, Refusals, ToClean, Keeps, GotoStep
<1>12. ASSUME NEW w \in Workers, CommitImport(w) PROVE AccountedInv'
  BY <1>12 DEF CommitImport, Outcome, EndDelivery, GotoStep
<1>13. ASSUME NEW w \in Workers, Ack(w) PROVE AccountedInv'
  BY <1>13 DEF Ack, GotoStep
<1>14. ASSUME NEW w \in Workers, Nak(w) PROVE AccountedInv'
  BY <1>14 DEF Nak, AfterNak, EndDelivery, GotoStep
<1>15. ASSUME NEW w \in Workers, DriveFault(w) PROVE AccountedInv'
  BY <1>15 DEF DriveFault, Strike, GotoStep
<1>16. ASSUME NEW w \in Workers, IntegrityFault(w) PROVE AccountedInv'
  BY <1>16 DEF IntegrityFault, DeleteObjects, Refusals, Strike, GotoStep
<1>17. ASSUME NEW w \in Workers, DatabaseFault(w) PROVE AccountedInv'
  BY <1>17 DEF DatabaseFault, Strike, GotoStep
<1>18. ASSUME NEW w \in Workers, Crash(w) PROVE AccountedInv'
  BY <1>18 DEF Crash, Strike, EndDelivery, GotoStep
<1>19. CASE UNCHANGED importVars
  BY <1>19
<1> HIDE DEF ImportInv, Typed, ImportTypeOK, Steps, InTx, ProgressInv, Progress,
      AccountedInv, KnownTo, Before, PhotosOf, Loose
<1>20. QED BY <1>1, <1>2, <1>3, <1>4, <1>5, <1>6, <1>7, <1>8, <1>9, <1>10, <1>11, <1>12,
      <1>13, <1>14, <1>15, <1>16, <1>17, <1>18, <1>19
      DEF ImportNext, Work, Fault

\* The import that completes commits every request and row, and no object of it goes.
LEMMA CompletedStep == ImportInv /\ [ImportNext]_importVars => CompletedIsWhole'
<1> SUFFICES ASSUME ImportInv, [ImportNext]_importVars PROVE CompletedIsWhole'
  OBVIOUS
<1> USE DEF importVars, tables, objects, delivery, luck
<1> USE BatchesAssumption, FaultsAssumption DEF ImportInv, Typed, ImportTypeOK, Steps, InTx,
      GroupLockInv, Holds, ProgressInv, Progress, ObjectsInv, CompletedIsWhole
<1>1. CASE PublishImport
  BY <1>1 DEF PublishImport, Strike
<1>2. CASE CommitGroup
  BY <1>2 DEF CommitGroup, Strike
<1>3. ASSUME NEW w \in Workers, Deliver(w) PROVE CompletedIsWhole'
  BY <1>3 DEF Deliver, GotoStep
<1>4. ASSUME NEW w \in Workers, StartImport(w) PROVE CompletedIsWhole'
  BY <1>4 DEF StartImport, Startable, GotoStep
<1>5. ASSUME NEW w \in Workers, ListFolder(w) PROVE CompletedIsWhole'
  BY <1>5 DEF ListFolder, Listings, GotoStep
<1>6. ASSUME NEW w \in Workers, InsertRequest(w) PROVE CompletedIsWhole'
  BY <1>6 DEF InsertRequest, GotoStep
<1>7. ASSUME NEW w \in Workers, NEW p \in Images, StagePhoto(w, p)
      PROVE CompletedIsWhole'
  BY <1>7 DEF StagePhoto, GotoStep
<1>8. ASSUME NEW w \in Workers, InsertPhoto(w) PROVE CompletedIsWhole'
  BY <1>8 DEF InsertPhoto, Loose, GotoStep
<1>9. ASSUME NEW w \in Workers, NextBatch(w) PROVE CompletedIsWhole'
  BY <1>9 DEF NextBatch, GotoStep
<1>10. ASSUME NEW w \in Workers, Complete(w) PROVE CompletedIsWhole'
  BY <1>10 DEF Complete, GotoStep
<1>11. ASSUME NEW w \in Workers, Discard(w) PROVE CompletedIsWhole'
  <2>1. UNCHANGED tables /\ staging \ ({w} \X Images) \subseteq staging'
    BY <1>11 DEF Discard, DeleteObjects, ToClean
  <2>2. \A p \in Images : <<w, p>> \notin rows
    BY <1>11 DEF Discard
  <2>3. rows \subseteq staging => rows \subseteq staging'
    BY <2>1, <2>2
  <2>4. QED BY <2>1, <2>3 DEF CompletedIsWhole
<1>12. ASSUME NEW w \in Workers, CommitImport(w) PROVE CompletedIsWhole'
  <2>1. requests = {} /\ rows = {}
    BY <1>12 DEF CommitImport
  <2>2. group' = outcome[w] /\ requests' = {w} \X newRequests[w] /\ rows' = {w} \X newRows[w]
    BY <1>12, <2>1 DEF CommitImport, Outcome
  <2>3. ASSUME outcome[w] = "completed" PROVE CompletedIsWhole'
    <3>1. newRequests[w] = 1..BatchCount /\ newRows[w] = Images
      BY <1>12, <2>3 DEF CommitImport, ProgressInv, Progress
    <3>2. {w} \X newRows[w] \subseteq staging /\ staging' = staging
      BY <1>12, <2>3 DEF CommitImport, ObjectsInv
    <3>3. QED BY <2>2, <3>1, <3>2 DEF CompletedIsWhole
  <2>4. QED BY <2>2, <2>3 DEF CompletedIsWhole
<1>13. ASSUME NEW w \in Workers, Ack(w) PROVE CompletedIsWhole'
  BY <1>13 DEF Ack, GotoStep
<1>14. ASSUME NEW w \in Workers, Nak(w) PROVE CompletedIsWhole'
  BY <1>14 DEF Nak, AfterNak, EndDelivery, GotoStep
<1>15. ASSUME NEW w \in Workers, DriveFault(w) PROVE CompletedIsWhole'
  BY <1>15 DEF DriveFault, Strike, GotoStep
<1>16. ASSUME NEW w \in Workers, IntegrityFault(w) PROVE CompletedIsWhole'
  BY <1>16 DEF IntegrityFault, DeleteObjects, Refusals, Strike, GotoStep
<1>17. ASSUME NEW w \in Workers, DatabaseFault(w) PROVE CompletedIsWhole'
  BY <1>17 DEF DatabaseFault, Strike, GotoStep
<1>18. ASSUME NEW w \in Workers, Crash(w) PROVE CompletedIsWhole'
  BY <1>18 DEF Crash, Strike, EndDelivery, GotoStep
<1>19. CASE UNCHANGED importVars
  BY <1>19
<1> HIDE DEF ImportInv, Typed, ImportTypeOK, Steps, InTx, GroupLockInv,
      Holds, ProgressInv, Progress, ObjectsInv, CompletedIsWhole
<1>20. QED BY <1>1, <1>2, <1>3, <1>4, <1>5, <1>6, <1>7, <1>8, <1>9, <1>10, <1>11, <1>12,
      <1>13, <1>14, <1>15, <1>16, <1>17, <1>18, <1>19
      DEF ImportNext, Work, Fault

\* The import that fails commits one request at most, and has deleted what its rows name.
LEMMA FailedStep == ImportInv /\ [ImportNext]_importVars =>
      FailedLeavesOneRequest'
<1> SUFFICES ASSUME ImportInv, [ImportNext]_importVars PROVE FailedLeavesOneRequest'
  OBVIOUS
<1> USE DEF importVars, tables, objects, delivery, luck
<1> USE BatchesAssumption, FaultsAssumption DEF ImportInv, Typed, ImportTypeOK, Steps, InTx,
      GroupLockInv, Holds, ProgressInv, Progress, ObjectsInv,
      FailedLeavesOneRequest
<1>1. CASE PublishImport
  BY <1>1 DEF PublishImport, Strike
<1>2. CASE CommitGroup
  BY <1>2 DEF CommitGroup, Strike
<1>3. ASSUME NEW w \in Workers, Deliver(w) PROVE FailedLeavesOneRequest'
  BY <1>3 DEF Deliver, GotoStep
<1>4. ASSUME NEW w \in Workers, StartImport(w) PROVE FailedLeavesOneRequest'
  BY <1>4 DEF StartImport, Startable, GotoStep
<1>5. ASSUME NEW w \in Workers, ListFolder(w) PROVE FailedLeavesOneRequest'
  BY <1>5 DEF ListFolder, Listings, GotoStep
<1>6. ASSUME NEW w \in Workers, InsertRequest(w) PROVE FailedLeavesOneRequest'
  BY <1>6 DEF InsertRequest, GotoStep
<1>7. ASSUME NEW w \in Workers, NEW p \in Images, StagePhoto(w, p)
      PROVE FailedLeavesOneRequest'
  BY <1>7 DEF StagePhoto, GotoStep
<1>8. ASSUME NEW w \in Workers, InsertPhoto(w) PROVE FailedLeavesOneRequest'
  BY <1>8 DEF InsertPhoto, Loose, GotoStep
<1>9. ASSUME NEW w \in Workers, NextBatch(w) PROVE FailedLeavesOneRequest'
  BY <1>9 DEF NextBatch, GotoStep
<1>10. ASSUME NEW w \in Workers, Complete(w) PROVE FailedLeavesOneRequest'
  BY <1>10 DEF Complete, GotoStep
<1>11. ASSUME NEW w \in Workers, Discard(w) PROVE FailedLeavesOneRequest'
  BY <1>11 DEF Discard, DeleteObjects, Refusals, ToClean, Keeps, GotoStep
<1>12. ASSUME NEW w \in Workers, CommitImport(w) PROVE FailedLeavesOneRequest'
  <2>1. requests = {} /\ rows = {}
    BY <1>12 DEF CommitImport
  <2>2. group' = outcome[w] /\ requests' = {w} \X newRequests[w] /\ rows' = {w} \X newRows[w]
    BY <1>12, <2>1 DEF CommitImport, Outcome
  <2>3. ASSUME outcome[w] = "failed" PROVE FailedLeavesOneRequest'
    <3>1. newRequests[w] \subseteq {batch[w]}
      BY <1>12, <2>3 DEF CommitImport, ProgressInv, Progress
    <3>2. requests' = {} \/ requests' = {<<w, batch[w]>>}
      BY <2>2, <3>1
    <3>3. Cardinality(requests') <= 1
      <4>1. CASE requests' = {}
        BY <4>1, FS_EmptySet
      <4>2. CASE requests' = {<<w, batch[w]>>}
        <5>1. Cardinality({<<w, batch[w]>>}) = 1
          BY FS_Singleton
        <5>2. QED BY <4>2, <5>1
      <4>3. QED BY <3>2, <4>1, <4>2
    <3>4. ({w} \X newRows[w]) \cap staging \subseteq refused /\ UNCHANGED objects
      BY <1>12, <2>3 DEF CommitImport, ObjectsInv
    <3>5. rows' \cap staging' \subseteq refused'
      BY <2>2, <3>4
    <3>6. QED BY <3>3, <3>5 DEF FailedLeavesOneRequest
  <2>4. QED BY <2>2, <2>3 DEF FailedLeavesOneRequest
<1>13. ASSUME NEW w \in Workers, Ack(w) PROVE FailedLeavesOneRequest'
  BY <1>13 DEF Ack, GotoStep
<1>14. ASSUME NEW w \in Workers, Nak(w) PROVE FailedLeavesOneRequest'
  BY <1>14 DEF Nak, AfterNak, EndDelivery, GotoStep
<1>15. ASSUME NEW w \in Workers, DriveFault(w) PROVE FailedLeavesOneRequest'
  BY <1>15 DEF DriveFault, Strike, GotoStep
<1>16. ASSUME NEW w \in Workers, IntegrityFault(w) PROVE FailedLeavesOneRequest'
  BY <1>16 DEF IntegrityFault, DeleteObjects, Refusals, Strike, GotoStep
<1>17. ASSUME NEW w \in Workers, DatabaseFault(w) PROVE FailedLeavesOneRequest'
  BY <1>17 DEF DatabaseFault, Strike, GotoStep
<1>18. ASSUME NEW w \in Workers, Crash(w) PROVE FailedLeavesOneRequest'
  BY <1>18 DEF Crash, Strike, EndDelivery, GotoStep
<1>19. CASE UNCHANGED importVars
  BY <1>19
<1> HIDE DEF ImportInv, Typed, ImportTypeOK, Steps, InTx, GroupLockInv,
      Holds, ProgressInv, Progress, ObjectsInv, FailedLeavesOneRequest
<1>20. QED BY <1>1, <1>2, <1>3, <1>4, <1>5, <1>6, <1>7, <1>8, <1>9, <1>10, <1>11, <1>12,
      <1>13, <1>14, <1>15, <1>16, <1>17, <1>18, <1>19
      DEF ImportNext, Work, Fault

\* The import begins with nothing committed, nothing stored and no delivery.
LEMMA InitImport == ImportInit => ImportInv
  BY BatchesAssumption, FaultsAssumption, FS_EmptySet DEF ImportInit, ImportInv, Typed,
     ImportTypeOK, GroupLockInv,
     ProgressInv, Progress, ObjectsInv, AccountedInv, KnownTo, CompletedIsWhole,
     FailedLeavesOneRequest, InTx, InBatch, Holds, Steps,
     Finished

\* The inductive invariant: one delivery at a time has the group, which is pending as
\* long as it has; how far it has come; and where each stored object is recorded.
THEOREM ImportInvariant == ImportSpec => []ImportInv
<1>1. ImportInv /\ [ImportNext]_importVars => ImportInv'
  BY ImportTypes, GroupLockStep, ProgressStep, ObjectsStep, AccountedStep, CompletedStep,
     FailedStep DEF ImportInv
<1>2. ImportInit => ImportInv
  BY InitImport
<1>3. QED BY <1>1, <1>2, PTL DEF ImportSpec

\* Every variable of the import keeps its type.
THEOREM ImportTypeCorrect == ImportSpec => []ImportTypeOK
<1>1. ImportInv => ImportTypeOK
  BY DEF ImportInv, Typed
<1>2. QED BY <1>1, ImportInvariant, PTL

\* A completed import has one request for each batch and one row for each image, with
\* its object, however often the event was delivered and whatever deliveries died of.
THEOREM CompletedImportIsWhole == ImportSpec => []CompletedIsWhole
<1>1. ImportInv => CompletedIsWhole
  BY DEF ImportInv
<1>2. QED BY <1>1, ImportInvariant, PTL

\* A failed import leaves at most one request and no object its rows name; and while
\* no delivery is at work, every object has a row, unless a process has died or the
\* database failed otherwise than by a constraint: in both cases but for the objects
\* whose deletion the store has refused.
THEOREM FailedImportCleansUp == ImportSpec => []FailureCleansUp
<1>1. ASSUME ImportInv PROVE FailureCleansUp
  <2>1. NoOrphanedObjects
    <3>1. SUFFICES ASSUME struck \cap {"crash", "database"} = {},
                          \A w \in Workers : step[w] = "idle",
                          NEW w \in Workers, NEW p \in Images, <<w, p>> \in staging
                   PROVE  <<w, p>> \in rows \cup refused
      BY <1>1 DEF NoOrphanedObjects, ImportInv, Typed, ImportTypeOK
    <3>2. KnownTo(w) = {}
      BY <3>1 DEF KnownTo, InTx
    <3>3. QED BY <1>1, <3>1, <3>2 DEF ImportInv, AccountedInv
  <2>2. QED BY <1>1, <2>1 DEF FailureCleansUp, ImportInv
<1>2. QED BY <1>1, ImportInvariant, PTL

-----------------------------------------------------------------------------
(*****************************************************************************)
(* What a delivery of the import may do in a step.                          *)
(*****************************************************************************)
\* The tables change twice: when the group is committed, and when one delivery commits
\* all it has inserted and the status of the group with it.
CommitsOnce ==
  \/ UNCHANGED tables
  \/ group = "none" /\ group' = "pending" /\ UNCHANGED <<requests, rows>>
  \/ /\ group = "pending" /\ group' \in Finished
     /\ \E w \in Workers : requests' = {w} \X newRequests[w] /\ rows' = {w} \X newRows[w]

\* The import cannot be lost any more: its group is there, its event will be delivered,
\* and no delivery is on its way to acknowledge it for want of a group.
Safe == group = "pending" /\ message = "queued" /\ ~TooEarly
StaysSafe == Safe => Safe' \/ group' \in Finished

\* The objects of a delivery that neither a committed row nor the delivery knows of.
Stray(w) == {p \in Images : <<w, p>> \in staging \ rows} \ KnownTo(w)
\* They become more only by a crash, by deletions that the store refuses,
\* or by the object that a fault of the database finds stored and not yet written down.
OnlyFaultsStray ==
  \A w \in Workers :
    \/ Stray(w)' \subseteq Stray(w)
    \/ Crash(w)
    \/ /\ Discard(w) \/ IntegrityFault(w)
       /\ \A p \in Stray(w)' \ Stray(w) : <<w, p>> \in refused'
    \/ DatabaseFault(w) /\ Stray(w)' \subseteq Stray(w) \cup Loose(w)

\* A delivery writes to its transaction, until it commits.
LEMMA CommitsStep == ImportInv /\ [ImportNext]_importVars => CommitsOnce
<1> SUFFICES ASSUME ImportInv, [ImportNext]_importVars PROVE CommitsOnce
  OBVIOUS
<1> USE DEF importVars, tables, objects, delivery, luck
<1> USE BatchesAssumption, FaultsAssumption DEF ImportInv, Typed, ImportTypeOK, InTx, GroupLockInv, Holds, CommitsOnce
<1>1. CASE PublishImport
  BY <1>1 DEF PublishImport, Strike
<1>2. CASE CommitGroup
  BY <1>2 DEF CommitGroup, Strike
<1>3. ASSUME NEW w \in Workers, Deliver(w) PROVE CommitsOnce
  BY <1>3 DEF Deliver, GotoStep
<1>4. ASSUME NEW w \in Workers, StartImport(w) PROVE CommitsOnce
  BY <1>4 DEF StartImport, Startable, GotoStep
<1>5. ASSUME NEW w \in Workers, ListFolder(w) PROVE CommitsOnce
  BY <1>5 DEF ListFolder, Listings, GotoStep
<1>6. ASSUME NEW w \in Workers, InsertRequest(w) PROVE CommitsOnce
  BY <1>6 DEF InsertRequest, GotoStep
<1>7. ASSUME NEW w \in Workers, NEW p \in Images, StagePhoto(w, p)
      PROVE CommitsOnce
  BY <1>7 DEF StagePhoto, GotoStep
<1>8. ASSUME NEW w \in Workers, InsertPhoto(w) PROVE CommitsOnce
  BY <1>8 DEF InsertPhoto, Loose, GotoStep
<1>9. ASSUME NEW w \in Workers, NextBatch(w) PROVE CommitsOnce
  BY <1>9 DEF NextBatch, GotoStep
<1>10. ASSUME NEW w \in Workers, Complete(w) PROVE CommitsOnce
  BY <1>10 DEF Complete, GotoStep
<1>11. ASSUME NEW w \in Workers, Discard(w) PROVE CommitsOnce
  BY <1>11 DEF Discard, DeleteObjects, Refusals, ToClean, Keeps, GotoStep
<1>12. ASSUME NEW w \in Workers, CommitImport(w) PROVE CommitsOnce
  BY <1>12 DEF CommitImport, Outcome, EndDelivery, GotoStep
<1>13. ASSUME NEW w \in Workers, Ack(w) PROVE CommitsOnce
  BY <1>13 DEF Ack, GotoStep
<1>14. ASSUME NEW w \in Workers, Nak(w) PROVE CommitsOnce
  BY <1>14 DEF Nak, AfterNak, EndDelivery, GotoStep
<1>15. ASSUME NEW w \in Workers, DriveFault(w) PROVE CommitsOnce
  BY <1>15 DEF DriveFault, Strike, GotoStep
<1>16. ASSUME NEW w \in Workers, IntegrityFault(w) PROVE CommitsOnce
  BY <1>16 DEF IntegrityFault, DeleteObjects, Refusals, Strike, GotoStep
<1>17. ASSUME NEW w \in Workers, DatabaseFault(w) PROVE CommitsOnce
  BY <1>17 DEF DatabaseFault, Strike, GotoStep
<1>18. ASSUME NEW w \in Workers, Crash(w) PROVE CommitsOnce
  BY <1>18 DEF Crash, Strike, EndDelivery, GotoStep
<1>19. CASE UNCHANGED importVars
  BY <1>19
<1> HIDE DEF ImportInv, Typed, ImportTypeOK, InTx, GroupLockInv, Holds, CommitsOnce
<1>20. QED BY <1>1, <1>2, <1>3, <1>4, <1>5, <1>6, <1>7, <1>8, <1>9, <1>10, <1>11, <1>12,
      <1>13, <1>14, <1>15, <1>16, <1>17, <1>18, <1>19
      DEF ImportNext, Work, Fault

\* Whoever starts on a safe import holds its group, and acknowledges it when it is finished.
LEMMA SafeStep == ImportInv /\ [ImportNext]_importVars => StaysSafe
<1> SUFFICES ASSUME ImportInv, [ImportNext]_importVars PROVE StaysSafe
  OBVIOUS
<1> USE DEF importVars, tables, objects, delivery, luck
<1> USE BatchesAssumption, FaultsAssumption DEF ImportInv, Typed, ImportTypeOK, GroupLockInv, StaysSafe, Safe, TooEarly
<1>1. CASE PublishImport
  BY <1>1 DEF PublishImport, Strike
<1>2. CASE CommitGroup
  BY <1>2 DEF CommitGroup, Strike
<1>3. ASSUME NEW w \in Workers, Deliver(w) PROVE StaysSafe
  BY <1>3 DEF Deliver, GotoStep
<1>4. ASSUME NEW w \in Workers, StartImport(w) PROVE StaysSafe
  BY <1>4 DEF StartImport, Startable, GotoStep
<1>5. ASSUME NEW w \in Workers, ListFolder(w) PROVE StaysSafe
  BY <1>5 DEF ListFolder, Listings, GotoStep
<1>6. ASSUME NEW w \in Workers, InsertRequest(w) PROVE StaysSafe
  BY <1>6 DEF InsertRequest, GotoStep
<1>7. ASSUME NEW w \in Workers, NEW p \in Images, StagePhoto(w, p)
      PROVE StaysSafe
  BY <1>7 DEF StagePhoto, GotoStep
<1>8. ASSUME NEW w \in Workers, InsertPhoto(w) PROVE StaysSafe
  BY <1>8 DEF InsertPhoto, Loose, GotoStep
<1>9. ASSUME NEW w \in Workers, NextBatch(w) PROVE StaysSafe
  BY <1>9 DEF NextBatch, GotoStep
<1>10. ASSUME NEW w \in Workers, Complete(w) PROVE StaysSafe
  BY <1>10 DEF Complete, GotoStep
<1>11. ASSUME NEW w \in Workers, Discard(w) PROVE StaysSafe
  BY <1>11 DEF Discard, DeleteObjects, Refusals, ToClean, Keeps, GotoStep
<1>12. ASSUME NEW w \in Workers, CommitImport(w) PROVE StaysSafe
  BY <1>12 DEF CommitImport, Outcome, EndDelivery, GotoStep
<1>13. ASSUME NEW w \in Workers, Ack(w) PROVE StaysSafe
  BY <1>13 DEF Ack, GotoStep
<1>14. ASSUME NEW w \in Workers, Nak(w) PROVE StaysSafe
  BY <1>14 DEF Nak, AfterNak, EndDelivery, GotoStep
<1>15. ASSUME NEW w \in Workers, DriveFault(w) PROVE StaysSafe
  BY <1>15 DEF DriveFault, Strike, GotoStep
<1>16. ASSUME NEW w \in Workers, IntegrityFault(w) PROVE StaysSafe
  BY <1>16 DEF IntegrityFault, DeleteObjects, Refusals, Strike, GotoStep
<1>17. ASSUME NEW w \in Workers, DatabaseFault(w) PROVE StaysSafe
  BY <1>17 DEF DatabaseFault, Strike, GotoStep
<1>18. ASSUME NEW w \in Workers, Crash(w) PROVE StaysSafe
  BY <1>18 DEF Crash, Strike, EndDelivery, GotoStep
<1>19. CASE UNCHANGED importVars
  BY <1>19
<1> HIDE DEF ImportInv, Typed, ImportTypeOK, GroupLockInv, StaysSafe, Safe, TooEarly
<1>20. QED BY <1>1, <1>2, <1>3, <1>4, <1>5, <1>6, <1>7, <1>8, <1>9, <1>10, <1>11, <1>12,
      <1>13, <1>14, <1>15, <1>16, <1>17, <1>18, <1>19
      DEF ImportNext, Work, Fault

\* A delivery deletes or records what it has stored, unless it fails to.
LEMMA StrayStep == ImportInv /\ [ImportNext]_importVars => OnlyFaultsStray
<1> SUFFICES ASSUME ImportInv, [ImportNext]_importVars PROVE OnlyFaultsStray
  OBVIOUS
<1> USE DEF importVars, tables, objects, delivery, luck
<1> USE BatchesAssumption, FaultsAssumption DEF ImportInv, Typed, ImportTypeOK, Steps, InTx,
      ProgressInv, Progress, ObjectsInv, OnlyFaultsStray, Stray, KnownTo, Before, PhotosOf, Loose
<1>1. CASE PublishImport
  BY <1>1 DEF PublishImport, Strike
<1>2. CASE CommitGroup
  BY <1>2 DEF CommitGroup, Strike
<1>3. ASSUME NEW w \in Workers, Deliver(w) PROVE OnlyFaultsStray
  BY <1>3 DEF Deliver, GotoStep
<1>4. ASSUME NEW w \in Workers, StartImport(w) PROVE OnlyFaultsStray
  BY <1>4 DEF StartImport, Startable, GotoStep
<1>5. ASSUME NEW w \in Workers, ListFolder(w) PROVE OnlyFaultsStray
  BY <1>5 DEF ListFolder, Listings, GotoStep
<1>6. ASSUME NEW w \in Workers, InsertRequest(w) PROVE OnlyFaultsStray
  BY <1>6 DEF InsertRequest, GotoStep
<1>7. ASSUME NEW w \in Workers, NEW p \in Images, StagePhoto(w, p)
      PROVE OnlyFaultsStray
  BY <1>7 DEF StagePhoto, GotoStep
<1>8. ASSUME NEW w \in Workers, InsertPhoto(w) PROVE OnlyFaultsStray
  BY <1>8 DEF InsertPhoto, Loose, GotoStep
<1>9. ASSUME NEW w \in Workers, NextBatch(w) PROVE OnlyFaultsStray
  BY <1>9 DEF NextBatch, GotoStep
<1>10. ASSUME NEW w \in Workers, Complete(w) PROVE OnlyFaultsStray
  BY <1>10 DEF Complete, GotoStep
<1>11. ASSUME NEW w \in Workers, Discard(w) PROVE OnlyFaultsStray
  <2>1. /\ step \in [Workers -> Steps] /\ newRows \in [Workers -> SUBSET Images]
        /\ UNCHANGED <<rows, batch, remaining>>
        /\ staging' = staging \ (({w} \X newRows[w]) \ refused')
    BY <1>11 DEF Discard, DeleteObjects, ToClean
  <2>4. KnownTo(w) = newRows[w]
    BY <1>11 DEF Discard
  <2> HIDE DEF ImportInv, Typed, ImportTypeOK, Steps, ProgressInv, Progress, ObjectsInv, OnlyFaultsStray,
           Stray, Before, PhotosOf
  <2>2. \A v \in Workers : v # w => step'[v] = step[v]
    BY <1>11, <2>1 DEF Discard, GotoStep
  <2>3. \A v \in Workers : v # w => newRows'[v] = newRows[v]
    BY <1>11, <2>1 DEF Discard
  <2>5. \A v \in Workers : v # w => KnownTo(v)' = KnownTo(v)
    BY <2>1, <2>2, <2>3 DEF KnownTo, Loose, PhotosOf, InTx
  <2> HIDE DEF KnownTo, Loose
  <2>6. ASSUME NEW v \in Workers, v # w PROVE Stray(v)' = Stray(v)
    <3>1. \A p \in Images : <<v, p>> \in staging' <=> <<v, p>> \in staging
      BY <2>1, <2>6
    <3>2. QED BY <2>1, <2>5, <2>6, <3>1 DEF Stray
  <2>7. \A p \in Stray(w)' \ Stray(w) : <<w, p>> \in refused'
    BY <2>1, <2>4 DEF Stray
  <2>8. QED BY <1>11, <2>6, <2>7 DEF OnlyFaultsStray
<1>12. ASSUME NEW w \in Workers, CommitImport(w) PROVE OnlyFaultsStray
  BY <1>12 DEF CommitImport, Outcome, EndDelivery, GotoStep
<1>13. ASSUME NEW w \in Workers, Ack(w) PROVE OnlyFaultsStray
  BY <1>13 DEF Ack, GotoStep
<1>14. ASSUME NEW w \in Workers, Nak(w) PROVE OnlyFaultsStray
  BY <1>14 DEF Nak, AfterNak, EndDelivery, GotoStep
<1>15. ASSUME NEW w \in Workers, DriveFault(w) PROVE OnlyFaultsStray
  BY <1>15 DEF DriveFault, Strike, GotoStep
<1>16. ASSUME NEW w \in Workers, IntegrityFault(w) PROVE OnlyFaultsStray
  <2>1. /\ step \in [Workers -> Steps] /\ newRows \in [Workers -> SUBSET Images]
        /\ UNCHANGED <<rows, batch, remaining, newRows>>
        /\ staging' = staging \ (({w} \X Loose(w)) \ refused')
    BY <1>16 DEF IntegrityFault, DeleteObjects
  <2>4. KnownTo(w) = newRows[w] \cup Loose(w) /\ KnownTo(w)' = newRows[w]
    BY <1>16 DEF IntegrityFault, GotoStep
  <2> HIDE DEF ImportInv, Typed, ImportTypeOK, Steps, ProgressInv, Progress, ObjectsInv, OnlyFaultsStray,
           Stray, Before, PhotosOf
  <2>2. \A v \in Workers : v # w => step'[v] = step[v]
    BY <1>16, <2>1 DEF IntegrityFault, GotoStep
  <2>3. \A v \in Workers : v # w => newRows'[v] = newRows[v]
    BY <2>1
  <2>5. \A v \in Workers : v # w => KnownTo(v)' = KnownTo(v)
    BY <2>1, <2>2, <2>3 DEF KnownTo, Loose, PhotosOf, InTx
  <2> HIDE DEF KnownTo, Loose
  <2>6. ASSUME NEW v \in Workers, v # w PROVE Stray(v)' = Stray(v)
    <3>1. \A p \in Images : <<v, p>> \in staging' <=> <<v, p>> \in staging
      BY <2>1, <2>6
    <3>2. QED BY <2>1, <2>5, <2>6, <3>1 DEF Stray
  <2>7. \A p \in Stray(w)' \ Stray(w) : <<w, p>> \in refused'
    BY <2>1, <2>4 DEF Stray
  <2>8. QED BY <1>16, <2>6, <2>7 DEF OnlyFaultsStray
<1>17. ASSUME NEW w \in Workers, DatabaseFault(w) PROVE OnlyFaultsStray
  <2>1. step \in [Workers -> Steps] /\ UNCHANGED <<rows, staging, batch, remaining, newRows>>
    BY <1>17 DEF DatabaseFault
  <2> HIDE DEF ImportInv, Typed, ImportTypeOK, Steps, ProgressInv, Progress, ObjectsInv, OnlyFaultsStray,
           Stray, Before, PhotosOf
  <2>2. step[w] \notin {"idle", "start", "ack", "nak"} /\ step' = [step EXCEPT ![w] = "discard"]
    BY <1>17 DEF DatabaseFault, GotoStep
  <2>3. \A v \in Workers : Loose(v)' = Loose(v)
    BY <2>1 DEF PhotosOf
  <2>4. \A v \in Workers : v # w => KnownTo(v)' = KnownTo(v)
    BY <2>1, <2>2, <2>3
  <2>5. step'[w] = "discard"
    BY <2>1, <2>2
  <2>6. KnownTo(w)' = newRows[w] /\ KnownTo(w) \subseteq newRows[w] \cup Loose(w)
    BY <2>1, <2>2, <2>5
  <2> HIDE DEF KnownTo, Loose
  <2>7. \A v \in Workers : v # w => Stray(v)' = Stray(v)
    BY <2>1, <2>4 DEF Stray
  <2>8. Stray(w)' \subseteq Stray(w) \cup Loose(w)
    BY <2>1, <2>6 DEF Stray
  <2>9. QED BY <1>17, <2>7, <2>8 DEF OnlyFaultsStray
<1>18. ASSUME NEW w \in Workers, Crash(w) PROVE OnlyFaultsStray
  <2>1. /\ step \in [Workers -> Steps] /\ batch \in [Workers -> 0..BatchCount]
        /\ remaining \in [Workers -> SUBSET Images] /\ newRows \in [Workers -> SUBSET Images]
        /\ UNCHANGED <<rows, staging>>
    BY <1>18 DEF Crash
  <2> HIDE DEF ImportInv, Typed, ImportTypeOK, Steps, ProgressInv, Progress, ObjectsInv, OnlyFaultsStray,
           Stray, Before, PhotosOf
  <2>2. /\ step' = [step EXCEPT ![w] = "idle"] /\ batch' = [batch EXCEPT ![w] = 0]
        /\ remaining' = [remaining EXCEPT ![w] = {}] /\ newRows' = [newRows EXCEPT ![w] = {}]
    BY <1>18 DEF Crash, EndDelivery, GotoStep
  <2>3. \A v \in Workers : v # w => step'[v] = step[v] /\ newRows'[v] = newRows[v]
                                    /\ batch'[v] = batch[v] /\ remaining'[v] = remaining[v]
    BY <2>1, <2>2
  <2>4. \A v \in Workers : v # w => KnownTo(v)' = KnownTo(v)
    BY <2>3 DEF PhotosOf
  <2> HIDE DEF KnownTo, Loose
  <2>5. \A v \in Workers : v # w => Stray(v)' = Stray(v)
    BY <2>1, <2>4 DEF Stray
  <2>6. QED BY <1>18, <2>5 DEF OnlyFaultsStray
<1>19. CASE UNCHANGED importVars
  BY <1>19
<1> HIDE DEF ImportInv, Typed, ImportTypeOK, Steps, InTx,
      ProgressInv, Progress, ObjectsInv, OnlyFaultsStray, Stray, KnownTo, Before, PhotosOf, Loose
<1>20. QED BY <1>1, <1>2, <1>3, <1>4, <1>5, <1>6, <1>7, <1>8, <1>9, <1>10, <1>11, <1>12,
      <1>13, <1>14, <1>15, <1>16, <1>17, <1>18, <1>19
      DEF ImportNext, Work, Fault

\* However often the event is delivered, and to however many at once, one delivery
\* commits an import, everything of it in one step, and nothing changes it afterwards.
THEOREM ImportCommitsOnce == ImportSpec => [][CommitsOnce]_importVars
<1>1. ImportInv /\ [ImportNext]_importVars => [CommitsOnce]_importVars
  BY CommitsStep
<1>2. QED BY <1>1, ImportInvariant, PTL DEF ImportSpec

\* An import is lost only to a delivery that comes before its group: once the group is
\* there and no such delivery is about, the event stays until the import is finished,
\* whichever deliveries fail.
THEOREM ImportIsNotLost == ImportSpec => [][StaysSafe]_importVars
<1>1. ImportInv /\ [ImportNext]_importVars => [StaysSafe]_importVars
  BY SafeStep
<1>2. QED BY <1>1, ImportInvariant, PTL DEF ImportSpec

\* The objects that stay in the store without a row are those of deliveries that
\* crashed, the one just stored when the database failed on a delivery, and those that
\* the store refuses to delete: no other step of any delivery adds one.
THEOREM OnlyFaultsLeaveObjects == ImportSpec => [][OnlyFaultsStray]_importVars
<1>1. ImportInv /\ [ImportNext]_importVars => [OnlyFaultsStray]_importVars
  BY StrayStep
<1>2. QED BY <1>1, ImportInvariant, PTL DEF ImportSpec

=============================================================================
