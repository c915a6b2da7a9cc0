--------------------------- MODULE PhotoConsentProofs ---------------------------
(***************************************************************************)
(* Proofs about PhotoConsent, for any sets of users, of deliveries of the  *)
(* event and of calls, and either kind of failure.                         *)
(***************************************************************************)
EXTENDS PhotoConsent, FiniteSetTheorems, TLAPS

\* What a transaction has decided: a verdict for each of some rows.
Decided == UNION {[S -> Verdicts] : S \in SUBSET Rows}

Types == TypeOK /\ decided \in [Actors -> Decided]

\* A row is there once its delivery is done; who has updated it has it alone; a call
\* updates the rows of its caller, to its verdict, and the task what is pending.
RowsInv ==
  /\ \A d \in Deliveries : worker[d] # "done" => \A u \in Users : approvals[<<d, u>>] = Absent
  /\ \A a \in Actors : \A r \in DOMAIN decided[a] : approvals[r] # Absent
  /\ \A a, o \in Actors : a # o => DOMAIN decided[a] \cap DOMAIN decided[o] = {}
  /\ \A c \in Calls : \A r \in DOMAIN decided[c] : r[2] = caller[c] /\ decided[c][r] = verdict[c]
  /\ \A r \in DOMAIN decided[Expirer] : approvals[r] = "pending"

\* Who deletes the object has rejected the photo; the task never does; and where
\* nobody is asked nobody decides.
PhotoInv ==
  /\ \A a \in Actors : pc[a] = "delete" => update[a] = "rejected"
  /\ pc[Expirer] \in {"idle", "photo", "approvals", "commit"} /\ update[Expirer] # "rejected"
  /\ faces # "many" =>
       /\ \A r \in Rows : approvals[r] = Absent
       /\ \A c \in Calls : pc[c] = "idle" /\ update[c] = "none"

\* The worker handles one event at a time, looks for a match before it makes one, and
\* has approved the photo when it commits.
MatchInv ==
  /\ \A d, e \in Deliveries :
       worker[d] \notin {"waiting", "done"} /\ worker[e] \notin {"waiting", "done"} => d = e
  /\ \A d \in inserted : worker[d] \in {"approve", "marked"}
  /\ inserted # {} => matches = {}
  /\ \A d, e \in matches : d = e
  /\ matches \cup inserted # {} => faces = "one"
  /\ matches # {} => status = "approved"

ConsentInv == Types /\ RowsInv /\ PhotoInv /\ MatchInv /\ UnrejectedKeepsObject

USE DEF vars, photo, shown, tx

-----------------------------------------------------------------------------
(*****************************************************************************)
(* Typing.                                                                  *)
(*****************************************************************************)
\* What a transaction decides is typed by the rows it updates and the verdicts it gives.
LEMMA DecidedType ==
  /\ \A f \in Decided : DOMAIN f \subseteq Rows /\ \A r \in DOMAIN f : f[r] \in Verdicts
  /\ \A S \in SUBSET Rows, v \in Verdicts : [r \in S |-> v] \in Decided
  /\ NoRows \in Decided
  BY DEF Decided, NoRows

\* The end of a transaction leaves its variables well typed.
LEMMA EndTxType ==
  ASSUME Types, NEW a \in Actors, NEW l \in {"idle", "done"}, EndTx(a, l)
  PROVE  /\ pc' \in [Actors -> {"idle", "read", "reject", "approve", "delete", "photo",
                                "approvals", "commit", "done"}]
         /\ caller' \in [Actors -> Users \cup {NoUser}]
         /\ verdict' \in [Actors -> Verdicts]
         /\ decided' \in [Actors -> Decided]
         /\ update' \in [Actors -> Verdicts \cup {"none"}]
         /\ awaited' \subseteq Rows
  BY DecidedType DEF Types, TypeOK, EndTx, Goto, Verdicts

\* Every variable keeps its type.
LEMMA TypeStep == ConsentInv /\ [Next]_vars => Types'
<1> SUFFICES ASSUME ConsentInv, [Next]_vars PROVE Types'
  OBVIOUS
<1> USE ExpirerAssumption DEF ConsentInv, Types, TypeOK, Verdicts, Actors
<1>1. ASSUME NEW d \in Deliveries, LoadImage(d) PROVE Types'
  BY <1>1, DecidedType DEF LoadImage, Advance
<1>2. ASSUME NEW d \in Deliveries, NoFaces(d) PROVE Types'
  BY <1>2, DecidedType DEF NoFaces, Advance
<1>3. ASSUME NEW d \in Deliveries, NEW F \in SUBSET Users, MatchFaces(d, F) PROVE Types'
  BY <1>3, DecidedType DEF Rows, MatchFaces, Advance
<1>4. ASSUME NEW d \in Deliveries, MatchFace(d) PROVE Types'
  BY <1>4, DecidedType DEF MatchFace, AfterMatch, Matched, Advance
<1>5. ASSUME NEW d \in Deliveries, ApproveMatched(d) PROVE Types'
  BY <1>5, DecidedType DEF ApproveMatched, Advance
<1>6. ASSUME NEW d \in Deliveries, CommitMatch(d) PROVE Types'
  BY <1>6, DecidedType DEF CommitMatch, Advance
<1>7. ASSUME NEW d \in Deliveries, WorkerFault(d) PROVE Types'
  BY <1>7, DecidedType DEF WorkerFault, Advance
<1>8. ASSUME NEW c \in Calls, NEW u \in Users, NEW v \in Verdicts, Decide(c, u, v)
      PROVE Types'
  <2>1. RowsOf(u) \in SUBSET Rows
    BY DEF RowsOf
  <2>2. decided' \in [Actors -> Decided]
    <3>1. [r \in RowsOf(u) |-> v] \in Decided
      <4>1. [r \in RowsOf(u) |-> v] \in [RowsOf(u) -> Verdicts]
        OBVIOUS
      <4>2. QED BY <2>1, <4>1 DEF Decided
    <3>2. decided' = [decided EXCEPT ![c] = [r \in RowsOf(u) |-> v]]
      BY <1>8 DEF Decide
    <3>3. QED BY <3>1, <3>2, DecidedType
  <2>3. QED BY <1>8, <2>2, DecidedType DEF Decide, Goto
<1>9. ASSUME NEW c \in Calls, ReadDecisions(c) PROVE Types'
  BY <1>9, DecidedType DEF ReadDecisions, Goto
<1>10. ASSUME NEW c \in Calls, UpdatePhoto(c) PROVE Types'
  BY <1>10, DecidedType DEF UpdatePhoto, Goto
<1>11. ASSUME NEW c \in Calls, DeleteObject(c) PROVE Types'
  BY <1>11, DecidedType DEF DeleteObject, Goto
<1>12. ASSUME NEW a \in Actors, Commit(a) PROVE Types'
  <2>1. View(a) \in [Rows -> Verdicts \cup {"pending", Absent}]
    BY DecidedType DEF View
  <2>2. /\ pc' \in [Actors -> {"idle", "read", "reject", "approve", "delete", "photo", "approvals", "commit", "done"}]
        /\ caller' \in [Actors -> Users \cup {NoUser}] /\ verdict' \in [Actors -> Verdicts]
        /\ decided' \in [Actors -> Decided] /\ update' \in [Actors -> Verdicts \cup {"none"}]
        /\ awaited' \subseteq Rows
    BY <1>12, EndTxType DEF Commit, Over
  <2>3. QED BY <1>12, <2>1, <2>2, DecidedType DEF Commit, Outcome
<1>13. ASSUME NEW c \in Calls, BrokerFault(c) PROVE Types'
  <2>1. /\ pc' \in [Actors -> {"idle", "read", "reject", "approve", "delete", "photo", "approvals", "commit", "done"}]
        /\ caller' \in [Actors -> Users \cup {NoUser}] /\ verdict' \in [Actors -> Verdicts]
        /\ decided' \in [Actors -> Decided] /\ update' \in [Actors -> Verdicts \cup {"none"}]
        /\ awaited' \subseteq Rows
    BY <1>13, EndTxType DEF BrokerFault, Rollback, Over
  <2>2. QED BY <1>13, <2>1, DecidedType DEF BrokerFault, Rollback
<1>14. CASE GrowOverdue
  BY <1>14, DecidedType DEF GrowOverdue
<1>15. CASE StartExpiry
  BY <1>15, DecidedType DEF StartExpiry, Goto, PendingRows
<1>16. CASE ExpirePhoto
  BY <1>16, DecidedType DEF ExpirePhoto, Goto
<1>17. CASE ExpireApprovals
  <2>1. StillPending \in SUBSET Rows
    BY DEF StillPending, PendingRows
  <2>2. decided' \in [Actors -> Decided]
    BY <1>17, <2>1, DecidedType DEF ExpireApprovals
  <2>3. QED BY <1>17, <2>2, DecidedType DEF ExpireApprovals, Goto
<1>18. ASSUME NEW a \in Actors, Crash(a) PROVE Types'
  <2>1. /\ pc' \in [Actors -> {"idle", "read", "reject", "approve", "delete", "photo", "approvals", "commit", "done"}]
        /\ caller' \in [Actors -> Users \cup {NoUser}] /\ verdict' \in [Actors -> Verdicts]
        /\ decided' \in [Actors -> Decided] /\ update' \in [Actors -> Verdicts \cup {"none"}]
        /\ awaited' \subseteq Rows
    BY <1>18, EndTxType DEF Crash, Rollback, Over
  <2>2. QED BY <1>18, <2>1, DecidedType DEF Crash, Rollback
<1>19. ASSUME NEW a \in Actors, DeadlockVictim(a) PROVE Types'
  <2>1. /\ pc' \in [Actors -> {"idle", "read", "reject", "approve", "delete", "photo", "approvals", "commit", "done"}]
        /\ caller' \in [Actors -> Users \cup {NoUser}] /\ verdict' \in [Actors -> Verdicts]
        /\ decided' \in [Actors -> Decided] /\ update' \in [Actors -> Verdicts \cup {"none"}]
        /\ awaited' \subseteq Rows
    BY <1>19, EndTxType DEF DeadlockVictim, Rollback, Over
  <2>2. QED BY <1>19, <2>1, DecidedType DEF DeadlockVictim, Rollback
<1>20. CASE UNCHANGED vars
  BY <1>20
<1> HIDE DEF Types, TypeOK
<1>21. QED BY <1>1, <1>2, <1>3, <1>4, <1>5, <1>6, <1>7, <1>8, <1>9, <1>10, <1>11, <1>12,
      <1>13, <1>14, <1>15, <1>16, <1>17, <1>18, <1>19, <1>20
      DEF Next, HandleMessage, Serve, Expire, Actors


-----------------------------------------------------------------------------
(*****************************************************************************)
(* Approvals.                                                               *)
(*****************************************************************************)
\* Updates wait for the rows they find, and commits write what they found.
LEMMA RowsStep == ConsentInv /\ [Next]_vars => RowsInv'
<1> SUFFICES ASSUME ConsentInv, [Next]_vars PROVE RowsInv'
  OBVIOUS
<1> USE ExpirerAssumption, DecidedType DEF ConsentInv, Types, TypeOK, RowsInv, Verdicts,
      Actors, Absent, NoRows, Rows
<1>1. ASSUME NEW d \in Deliveries, LoadImage(d) PROVE RowsInv'
  BY <1>1 DEF LoadImage, Advance
<1>2. ASSUME NEW d \in Deliveries, NoFaces(d) PROVE RowsInv'
  BY <1>2 DEF NoFaces, Advance
<1>3. ASSUME NEW d \in Deliveries, NEW F \in SUBSET Users, MatchFaces(d, F) PROVE RowsInv'
  BY <1>3 DEF MatchFaces, Advance
<1>4. ASSUME NEW d \in Deliveries, MatchFace(d) PROVE RowsInv'
  <2>1. \A e \in Deliveries : worker'[e] # "done" => worker[e] # "done"
    BY <1>4 DEF MatchFace, AfterMatch, Matched, Advance
  <2>2. UNCHANGED <<approvals, decided, caller, verdict>>
    BY <1>4 DEF MatchFace
  <2>3. QED BY <2>1, <2>2
<1>5. ASSUME NEW d \in Deliveries, ApproveMatched(d) PROVE RowsInv'
  BY <1>5 DEF ApproveMatched, Advance
<1>6. ASSUME NEW d \in Deliveries, CommitMatch(d) PROVE RowsInv'
  BY <1>6 DEF CommitMatch, Advance
<1>7. ASSUME NEW d \in Deliveries, WorkerFault(d) PROVE RowsInv'
  BY <1>7 DEF WorkerFault, Advance
<1>8. ASSUME NEW c \in Calls, NEW u \in Users, NEW v \in Verdicts, Decide(c, u, v)
      PROVE RowsInv'
  BY <1>8 DEF Decide, Goto, RowsOf, RowHolders
<1>9. ASSUME NEW c \in Calls, ReadDecisions(c) PROVE RowsInv'
  BY <1>9 DEF ReadDecisions, Goto
<1>10. ASSUME NEW c \in Calls, UpdatePhoto(c) PROVE RowsInv'
  BY <1>10 DEF UpdatePhoto, Goto
<1>11. ASSUME NEW c \in Calls, DeleteObject(c) PROVE RowsInv'
  BY <1>11 DEF DeleteObject, Goto
<1>12. ASSUME NEW a \in Actors, Commit(a) PROVE RowsInv'
  BY <1>12 DEF Commit, Outcome, EndTx, Goto, Over, View
<1>13. ASSUME NEW c \in Calls, BrokerFault(c) PROVE RowsInv'
  BY <1>13 DEF BrokerFault, AuditedAt, Rollback, EndTx, Goto, Over
<1>14. CASE GrowOverdue
  BY <1>14 DEF GrowOverdue
<1>15. CASE StartExpiry
  BY <1>15 DEF StartExpiry, Goto
<1>16. CASE ExpirePhoto
  BY <1>16 DEF ExpirePhoto, Goto
<1>17. CASE ExpireApprovals
  BY <1>17 DEF ExpireApprovals, StillPending, Goto, PendingRows, RowHolders
<1>18. ASSUME NEW a \in Actors, Crash(a) PROVE RowsInv'
  BY <1>18 DEF Crash, Rollback, EndTx, Goto, Over
<1>19. ASSUME NEW a \in Actors, DeadlockVictim(a) PROVE RowsInv'
  BY <1>19 DEF DeadlockVictim, WaitsFor, Rollback, EndTx, Goto, Over
<1>20. CASE UNCHANGED vars
  BY <1>20
<1> HIDE DEF RowsInv, Types, TypeOK
<1>21. QED BY <1>1, <1>2, <1>3, <1>4, <1>5, <1>6, <1>7, <1>8, <1>9, <1>10, <1>11, <1>12,
      <1>13, <1>14, <1>15, <1>16, <1>17, <1>18, <1>19, <1>20
      DEF Next, HandleMessage, Serve, Expire, Actors


-----------------------------------------------------------------------------
(*****************************************************************************)
(* The photo and its match.                                                 *)
(*****************************************************************************)
\* Only a call in which somebody has rejected comes to delete.
LEMMA PhotoStep == ConsentInv /\ [Next]_vars => PhotoInv'
<1> SUFFICES ASSUME ConsentInv, [Next]_vars PROVE PhotoInv'
  OBVIOUS
<1> USE ExpirerAssumption DEF ConsentInv, Types, TypeOK, Verdicts, Actors, Absent,
      PhotoInv, RowsInv, NoRows, Rows
<1>1. ASSUME NEW d \in Deliveries, LoadImage(d) PROVE PhotoInv'
  BY <1>1 DEF LoadImage, Advance
<1>2. ASSUME NEW d \in Deliveries, NoFaces(d) PROVE PhotoInv'
  BY <1>2 DEF NoFaces, Advance
<1>3. ASSUME NEW d \in Deliveries, NEW F \in SUBSET Users, MatchFaces(d, F) PROVE PhotoInv'
  BY <1>3 DEF MatchFaces, Advance
<1>4. ASSUME NEW d \in Deliveries, MatchFace(d) PROVE PhotoInv'
  BY <1>4 DEF MatchFace, AfterMatch, Matched, Advance
<1>5. ASSUME NEW d \in Deliveries, ApproveMatched(d) PROVE PhotoInv'
  BY <1>5 DEF ApproveMatched, Advance
<1>6. ASSUME NEW d \in Deliveries, CommitMatch(d) PROVE PhotoInv'
  BY <1>6 DEF CommitMatch, Advance
<1>7. ASSUME NEW d \in Deliveries, WorkerFault(d) PROVE PhotoInv'
  BY <1>7 DEF WorkerFault, Advance
<1>8. ASSUME NEW c \in Calls, NEW u \in Users, NEW v \in Verdicts, Decide(c, u, v)
      PROVE PhotoInv'
  BY <1>8 DEF Decide, Goto, RowsOf
<1>9. ASSUME NEW c \in Calls, ReadDecisions(c) PROVE PhotoInv'
  BY <1>9 DEF ReadDecisions, Goto
<1>10. ASSUME NEW c \in Calls, UpdatePhoto(c) PROVE PhotoInv'
  BY <1>10 DEF UpdatePhoto, Goto
<1>11. ASSUME NEW c \in Calls, DeleteObject(c) PROVE PhotoInv'
  BY <1>11 DEF DeleteObject, Goto
<1>12. ASSUME NEW a \in Actors, Commit(a) PROVE PhotoInv'
  BY <1>12, DecidedType DEF Commit, Outcome, EndTx, Goto, Over, View
<1>13. ASSUME NEW c \in Calls, BrokerFault(c) PROVE PhotoInv'
  BY <1>13 DEF BrokerFault, AuditedAt, Rollback, EndTx, Goto, Over
<1>14. CASE GrowOverdue
  BY <1>14 DEF GrowOverdue
<1>15. CASE StartExpiry
  BY <1>15 DEF StartExpiry, Goto
<1>16. CASE ExpirePhoto
  BY <1>16 DEF ExpirePhoto, Goto
<1>17. CASE ExpireApprovals
  BY <1>17 DEF ExpireApprovals, StillPending, Goto
<1>18. ASSUME NEW a \in Actors, Crash(a) PROVE PhotoInv'
  BY <1>18 DEF Crash, Rollback, EndTx, Goto, Over
<1>19. ASSUME NEW a \in Actors, DeadlockVictim(a) PROVE PhotoInv'
  BY <1>19 DEF DeadlockVictim, WaitsFor, Rollback, EndTx, Goto, Over
<1>20. CASE UNCHANGED vars
  BY <1>20
<1> HIDE DEF PhotoInv, RowsInv, Types, TypeOK
<1>21. QED BY <1>1, <1>2, <1>3, <1>4, <1>5, <1>6, <1>7, <1>8, <1>9, <1>10, <1>11, <1>12,
      <1>13, <1>14, <1>15, <1>16, <1>17, <1>18, <1>19, <1>20
      DEF Next, HandleMessage, Serve, Expire, Actors

\* A transaction finds the match of every delivery before it.
LEMMA MatchStep == ConsentInv /\ [Next]_vars => MatchInv'
<1> SUFFICES ASSUME ConsentInv, [Next]_vars PROVE MatchInv'
  OBVIOUS
<1> USE ExpirerAssumption DEF ConsentInv, Types, TypeOK, Verdicts, Actors, Absent,
      PhotoInv, MatchInv
<1>1. ASSUME NEW d \in Deliveries, LoadImage(d) PROVE MatchInv'
  BY <1>1 DEF LoadImage, Advance
<1>2. ASSUME NEW d \in Deliveries, NoFaces(d) PROVE MatchInv'
  BY <1>2 DEF NoFaces, Advance
<1>3. ASSUME NEW d \in Deliveries, NEW F \in SUBSET Users, MatchFaces(d, F) PROVE MatchInv'
  BY <1>3 DEF MatchFaces, Advance
<1>4. ASSUME NEW d \in Deliveries, MatchFace(d) PROVE MatchInv'
  BY <1>4 DEF MatchFace, AfterMatch, Matched, Advance
<1>5. ASSUME NEW d \in Deliveries, ApproveMatched(d) PROVE MatchInv'
  BY <1>5 DEF ApproveMatched, Advance
<1>6. ASSUME NEW d \in Deliveries, CommitMatch(d) PROVE MatchInv'
  BY <1>6 DEF CommitMatch, Advance
<1>7. ASSUME NEW d \in Deliveries, WorkerFault(d) PROVE MatchInv'
  BY <1>7 DEF WorkerFault, Advance
<1>8. ASSUME NEW c \in Calls, NEW u \in Users, NEW v \in Verdicts, Decide(c, u, v)
      PROVE MatchInv'
  BY <1>8 DEF Decide, Goto
<1>9. ASSUME NEW c \in Calls, ReadDecisions(c) PROVE MatchInv'
  BY <1>9 DEF ReadDecisions, Goto
<1>10. ASSUME NEW c \in Calls, UpdatePhoto(c) PROVE MatchInv'
  BY <1>10 DEF UpdatePhoto, Goto
<1>11. ASSUME NEW c \in Calls, DeleteObject(c) PROVE MatchInv'
  BY <1>11 DEF DeleteObject, Goto
<1>12. ASSUME NEW a \in Actors, Commit(a) PROVE MatchInv'
  BY <1>12 DEF Commit, Outcome, EndTx, Goto, Over
<1>13. ASSUME NEW c \in Calls, BrokerFault(c) PROVE MatchInv'
  BY <1>13 DEF BrokerFault, AuditedAt, Rollback, EndTx, Goto, Over
<1>14. CASE GrowOverdue
  BY <1>14 DEF GrowOverdue
<1>15. CASE StartExpiry
  BY <1>15 DEF StartExpiry, Goto
<1>16. CASE ExpirePhoto
  BY <1>16 DEF ExpirePhoto, Goto
<1>17. CASE ExpireApprovals
  BY <1>17 DEF ExpireApprovals, StillPending, Goto
<1>18. ASSUME NEW a \in Actors, Crash(a) PROVE MatchInv'
  BY <1>18 DEF Crash, Rollback, EndTx, Goto, Over
<1>19. ASSUME NEW a \in Actors, DeadlockVictim(a) PROVE MatchInv'
  BY <1>19 DEF DeadlockVictim, WaitsFor, Rollback, EndTx, Goto, Over
<1>20. CASE UNCHANGED vars
  BY <1>20
<1> HIDE DEF PhotoInv, MatchInv, Types, TypeOK
<1>21. QED BY <1>1, <1>2, <1>3, <1>4, <1>5, <1>6, <1>7, <1>8, <1>9, <1>10, <1>11, <1>12,
      <1>13, <1>14, <1>15, <1>16, <1>17, <1>18, <1>19, <1>20
      DEF Next, HandleMessage, Serve, Expire, Actors

\* An object is deleted by a call that has nothing left to do but commit.
LEMMA ObjectStep == ConsentInv /\ [Next]_vars => UnrejectedKeepsObject'
<1> SUFFICES ASSUME ConsentInv, [Next]_vars PROVE UnrejectedKeepsObject'
  OBVIOUS
<1> USE ExpirerAssumption DEF ConsentInv, Types, TypeOK, Verdicts, Actors, Absent,
      PhotoInv, UnrejectedKeepsObject
<1>1. ASSUME NEW d \in Deliveries, LoadImage(d) PROVE UnrejectedKeepsObject'
  BY <1>1 DEF LoadImage, Advance
<1>2. ASSUME NEW d \in Deliveries, NoFaces(d) PROVE UnrejectedKeepsObject'
  BY <1>2 DEF NoFaces, Advance
<1>3. ASSUME NEW d \in Deliveries, NEW F \in SUBSET Users, MatchFaces(d, F)
      PROVE UnrejectedKeepsObject'
  BY <1>3 DEF MatchFaces, Advance
<1>4. ASSUME NEW d \in Deliveries, MatchFace(d) PROVE UnrejectedKeepsObject'
  BY <1>4 DEF MatchFace, AfterMatch, Matched, Advance
<1>5. ASSUME NEW d \in Deliveries, ApproveMatched(d) PROVE UnrejectedKeepsObject'
  BY <1>5 DEF ApproveMatched, Advance
<1>6. ASSUME NEW d \in Deliveries, CommitMatch(d) PROVE UnrejectedKeepsObject'
  BY <1>6 DEF CommitMatch, Advance
<1>7. ASSUME NEW d \in Deliveries, WorkerFault(d) PROVE UnrejectedKeepsObject'
  BY <1>7 DEF WorkerFault, Advance
<1>8. ASSUME NEW c \in Calls, NEW u \in Users, NEW v \in Verdicts, Decide(c, u, v)
      PROVE UnrejectedKeepsObject'
  BY <1>8 DEF Decide, Goto
<1>9. ASSUME NEW c \in Calls, ReadDecisions(c) PROVE UnrejectedKeepsObject'
  BY <1>9 DEF ReadDecisions, Goto
<1>10. ASSUME NEW c \in Calls, UpdatePhoto(c) PROVE UnrejectedKeepsObject'
  BY <1>10 DEF UpdatePhoto, Goto
<1>11. ASSUME NEW c \in Calls, DeleteObject(c) PROVE UnrejectedKeepsObject'
  BY <1>11 DEF DeleteObject, Goto
<1>12. ASSUME NEW a \in Actors, Commit(a) PROVE UnrejectedKeepsObject'
  BY <1>12 DEF Commit, Outcome, EndTx, Goto, Over
<1>13. ASSUME NEW c \in Calls, BrokerFault(c) PROVE UnrejectedKeepsObject'
  BY <1>13 DEF BrokerFault, AuditedAt, Rollback, EndTx, Goto, Over
<1>14. CASE GrowOverdue
  BY <1>14 DEF GrowOverdue
<1>15. CASE StartExpiry
  BY <1>15 DEF StartExpiry, Goto
<1>16. CASE ExpirePhoto
  BY <1>16 DEF ExpirePhoto, Goto
<1>17. CASE ExpireApprovals
  BY <1>17 DEF ExpireApprovals, StillPending, Goto
<1>18. ASSUME NEW a \in Actors, Crash(a) PROVE UnrejectedKeepsObject'
  BY <1>18 DEF Crash, Rollback, EndTx, Goto, Over
<1>19. ASSUME NEW a \in Actors, DeadlockVictim(a) PROVE UnrejectedKeepsObject'
  BY <1>19 DEF DeadlockVictim, WaitsFor, Rollback, EndTx, Goto, Over
<1>20. CASE UNCHANGED vars
  BY <1>20
<1> HIDE DEF PhotoInv, UnrejectedKeepsObject, Types, TypeOK
<1>21. QED BY <1>1, <1>2, <1>3, <1>4, <1>5, <1>6, <1>7, <1>8, <1>9, <1>10, <1>11, <1>12,
      <1>13, <1>14, <1>15, <1>16, <1>17, <1>18, <1>19, <1>20
      DEF Next, HandleMessage, Serve, Expire, Actors

\* No step but a commit of the user's own call changes what a user has decided.
Kept == \A r \in Rows :
          approvals[r] \in Verdicts /\ approvals'[r] # approvals[r] =>
            \E c \in Calls : caller[c] = r[2] /\ verdict[c] = approvals'[r]
\* The task and the worker touch no decision, and a call those of its caller only.
LEMMA KeptStep == ConsentInv /\ [Next]_vars => Kept
<1> SUFFICES ASSUME ConsentInv, [Next]_vars PROVE Kept
  OBVIOUS
<1> USE ExpirerAssumption, DecidedType DEF ConsentInv, Types, TypeOK, RowsInv, Verdicts,
      Actors, Absent, Rows, Kept
<1>1. ASSUME NEW d \in Deliveries, LoadImage(d) PROVE Kept
  BY <1>1 DEF LoadImage, Advance
<1>2. ASSUME NEW d \in Deliveries, NoFaces(d) PROVE Kept
  BY <1>2 DEF NoFaces, Advance
<1>3. ASSUME NEW d \in Deliveries, NEW F \in SUBSET Users, MatchFaces(d, F) PROVE Kept
  BY <1>3 DEF MatchFaces, Advance
<1>4. ASSUME NEW d \in Deliveries, MatchFace(d) PROVE Kept
  BY <1>4 DEF MatchFace, AfterMatch, Matched, Advance
<1>5. ASSUME NEW d \in Deliveries, ApproveMatched(d) PROVE Kept
  BY <1>5 DEF ApproveMatched, Advance
<1>6. ASSUME NEW d \in Deliveries, CommitMatch(d) PROVE Kept
  BY <1>6 DEF CommitMatch, Advance
<1>7. ASSUME NEW d \in Deliveries, WorkerFault(d) PROVE Kept
  BY <1>7 DEF WorkerFault, Advance
<1>8. ASSUME NEW c \in Calls, NEW u \in Users, NEW v \in Verdicts, Decide(c, u, v)
      PROVE Kept
  BY <1>8 DEF Decide, Goto
<1>9. ASSUME NEW c \in Calls, ReadDecisions(c) PROVE Kept
  BY <1>9 DEF ReadDecisions, Goto
<1>10. ASSUME NEW c \in Calls, UpdatePhoto(c) PROVE Kept
  BY <1>10 DEF UpdatePhoto, Goto
<1>11. ASSUME NEW c \in Calls, DeleteObject(c) PROVE Kept
  BY <1>11 DEF DeleteObject, Goto
<1>12. ASSUME NEW a \in Actors, Commit(a) PROVE Kept
  BY <1>12 DEF Commit, Outcome, EndTx, Goto, Over, View
<1>13. ASSUME NEW c \in Calls, BrokerFault(c) PROVE Kept
  BY <1>13 DEF BrokerFault, AuditedAt, Rollback, EndTx, Goto, Over
<1>14. CASE GrowOverdue
  BY <1>14 DEF GrowOverdue
<1>15. CASE StartExpiry
  BY <1>15 DEF StartExpiry, Goto
<1>16. CASE ExpirePhoto
  BY <1>16 DEF ExpirePhoto, Goto
<1>17. CASE ExpireApprovals
  BY <1>17 DEF ExpireApprovals, StillPending, Goto
<1>18. ASSUME NEW a \in Actors, Crash(a) PROVE Kept
  BY <1>18 DEF Crash, Rollback, EndTx, Goto, Over
<1>19. ASSUME NEW a \in Actors, DeadlockVictim(a) PROVE Kept
  BY <1>19 DEF DeadlockVictim, WaitsFor, Rollback, EndTx, Goto, Over
<1>20. CASE UNCHANGED vars
  BY <1>20
<1> HIDE DEF RowsInv, Types, TypeOK, Kept
<1>21. QED BY <1>1, <1>2, <1>3, <1>4, <1>5, <1>6, <1>7, <1>8, <1>9, <1>10, <1>11, <1>12,
      <1>13, <1>14, <1>15, <1>16, <1>17, <1>18, <1>19, <1>20
      DEF Next, HandleMessage, Serve, Expire, Actors


-----------------------------------------------------------------------------
(*****************************************************************************)
(* The theorems.                                                            *)
(*****************************************************************************)
\* The invariants hold when the service starts.
LEMMA InitInv == Init => ConsentInv
<1> SUFFICES ASSUME Init PROVE ConsentInv
  OBVIOUS
<1>1. decided \in [Actors -> Decided]
  BY DecidedType DEF Init
<1>2. QED BY <1>1, DecidedType, ExpirerAssumption DEF Init, ConsentInv, Types, TypeOK,
      RowsInv, PhotoInv, MatchInv,
     UnrejectedKeepsObject, Verdicts, Actors, NoRows, Rows

\* The inductive invariant: whose rows a transaction has updated, who may delete the
\* object, and who may match the photo.
THEOREM ConsentInvariant == Spec => []ConsentInv
<1>1. ConsentInv /\ [Next]_vars => ConsentInv'
  BY TypeStep, RowsStep, PhotoStep, MatchStep, ObjectStep DEF ConsentInv
<1>2. QED BY <1>1, InitInv, PTL DEF Spec

\* Every variable keeps its type, the object of a photo that nobody has rejected stays
\* in the store while no process dies, and a photo with a single face is matched once.
THEOREM ConsentHolds == Spec => []Inv
<1>1. ConsentInv => Inv
  <2> SUFFICES ASSUME ConsentInv PROVE Cardinality(matches) <= 1
    BY DEF ConsentInv, Types, MatchInv, MatchedOnce, Inv
  <2>1. CASE matches = {}
    BY <2>1, FS_EmptySet
  <2>2. CASE matches # {}
    <3>1. PICK d \in matches : matches = {d}
      BY <2>2 DEF ConsentInv, MatchInv
    <3>2. QED BY <3>1, FS_Singleton
  <2>3. QED BY <2>1, <2>2
<1>2. QED BY <1>1, ConsentInvariant, PTL

\* What a user has decided nobody but the user changes.
THEOREM DecisionsAreKept == Spec => DecisionIsTheUsers
<1>1. ConsentInv /\ [Next]_vars => [Kept]_vars
  BY KeptStep
<1>2. QED BY <1>1, ConsentInvariant, PTL DEF Spec, DecisionIsTheUsers, Kept

=============================================================================
