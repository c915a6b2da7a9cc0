--------------------------- MODULE AutoApproveProofs ---------------------------
(***************************************************************************)
(* Proofs about AutoApprove, for any sets of confirmations, requests,      *)
(* groups and photos: what the approval inside a confirmation can and      *)
(* cannot leave behind when its exceptions are swallowed.                  *)
(***************************************************************************)
EXTENDS AutoApprove, TLAPS

-----------------------------------------------------------------------------
(***************************************************************************)
(* The inductive invariant.                                                *)
(***************************************************************************)
Undisturbed == "review" \notin past

Types == TypeOK

\* A confirmation that goes on to approve, or has made copies.
Engaged(c) == pc[c] \in {"group", "cleanup"} \/ Approving(c) \/ copied[c] # {}
AtRequest(c) == pc[c] \in {"photos", "mark", "decide"}

\* What has arrived belongs to a request that exists.
ArrivedInv == \A p \in staging \cup uploaded : RequestOf[p] \in registered

\* A confirmation has its photo to itself, and its transfer is not committed.
PhotoInv ==
  \A c \in Confirmers : pc[c] # "idle" =>
    /\ photo[c] \in Photos \ uploaded
    /\ RequestOf[photo[c]] \in registered
    /\ \A o \in Confirmers : pc[o] # "idle" /\ photo[o] = photo[c] => o = c

\* What an approval works on: requests of its group whose photos it sees.
WorkInv ==
  \A c \in Confirmers :
    /\ pc[c] \in {"idle", "check", "group"} =>
         todo[c] = {} /\ copied[c] = {} /\ ~grpDone[c]
    /\ Engaged(c) => GroupOfCall(c) \in Groups
    /\ pc[c] # "idle" =>
         /\ todo[c] \cup copied[c] \subseteq RequestsOf(GroupOfCall(c))
         /\ PhotosOf(copied[c]) \subseteq Sees(c)
    /\ decided[c] \subseteq marked[c] /\ marked[c] \subseteq copied[c]
    /\ AtRequest(c) => cur[c] \in todo[c] /\ PhotosOf({cur[c]}) \subseteq Sees(c)
    /\ pc[c] \in {"mark", "decide"} => cur[c] \in copied[c]
    /\ pc[c] = "decide" => cur[c] \in marked[c]
    /\ grpDone[c] \/ pc[c] \in {"decideGroup", "unstage"} => decided[c] # {}

\* Until a reviewer interferes, no two approvals are at one group, an approval
\* finds everything it works on undecided, and it has marked what it decides.
Undecided(c) ==
  /\ reqStatus[RequestOf[photo[c]]] = "pending"
  /\ \A r \in todo[c] \cup copied[c] : reqStatus[r] = "pending"
Alone(c) ==
  \A o \in Confirmers : Engaged(o) /\ GroupOfCall(o) = GroupOfCall(c) => o = c
GroupInv ==
  Undisturbed => \A c \in Confirmers : Engaged(c) =>
    /\ Undecided(c)
    /\ Alone(c)
    /\ marked[c] = decided[c] \cup IF pc[c] = "decide" THEN {cur[c]} ELSE {}

\* Of a photo that is there an object is, the staged one as long as its request is
\* undecided and not about to be approved; an approval still has what it copied.
Arrived == uploaded \cup {photo[c] : c \in {o \in Confirmers : pc[o] # "idle"}}
Leaving(p) == \E o \in Confirmers : pc[o] = "commit" /\ RequestOf[p] \in decided[o]
Kept(p) ==
  /\ p \in staging \cup final
  /\ reqStatus[RequestOf[p]] = "pending" => p \in staging \/ Leaving(p)
CopiesKept(c) ==
  /\ Approving(c) => PhotosOf(copied[c]) \subseteq staging \cap final
  /\ pc[c] = "cleanup" => PhotosOf(copied[c]) \subseteq staging
CopyInv ==
  past \cap {"review", "broker"} = {} =>
    /\ \A p \in Arrived : Kept(p)
    /\ \A c \in Confirmers : CopiesKept(c)

\* As long as nothing has happened: a decided group has a decided request; past the
\* check confirmations of a group follow one another; one that is about to commit
\* without a decision has missed a photo; and a group whose photos are all there
\* has a decided request.
Decided(g) == \E r \in RequestsOf(g) : reqStatus[r] # "pending"
Missed(c) ==
  \E p \in Photos : RequestOf[p] \in RequestsOf(GroupOfCall(c)) /\ p \notin Sees(c)
GroupsDecided == \A g \in Groups : groupStatus[g] # "pending" => Decided(g)
TurnTaken ==
  \A c, o \in Confirmers :
    /\ pc[c] \notin {"idle", "check"} /\ pc[o] \notin {"idle", "check"}
    /\ GroupOfCall(c) = GroupOfCall(o)
    => c = o
Excuse(c) == Decided(GroupOfCall(c)) \/ decided[c] # {} \/ Missed(c)
Excused ==
  \A c \in Confirmers :
    pc[c] \in {"cleanup", "commit"} /\ GroupOfCall(c) \in Groups => Excuse(c)
FullDecided ==
  \A g \in Groups :
    PhotosOf(RequestsOf(g)) # {} /\ PhotosOf(RequestsOf(g)) \subseteq uploaded =>
      Decided(g)
TurnInv == past = {} => GroupsDecided /\ TurnTaken /\ Excused /\ FullDecided

ApproveInv ==
  /\ Types
  /\ ArrivedInv
  /\ PhotoInv
  /\ WorkInv
  /\ GroupInv
  /\ DecidedTogether
  /\ RowsAreUploaded
  /\ CopyInv
  /\ TurnInv

USE DEF vars, decisions, store, tx

-----------------------------------------------------------------------------
(*****************************************************************************)
(* Typing.                                                                  *)
(*****************************************************************************)
\* Every variable keeps its type.
LEMMA TypeStep == Types /\ PhotoInv /\ WorkInv /\ [Next]_vars => Types'
<1> SUFFICES ASSUME Types /\ PhotoInv /\ WorkInv, [Next]_vars PROVE Types'
  OBVIOUS
<1> USE RequestsAssumption DEF Types, TypeOK, Labels, Statuses, Incidents
<1>1. ASSUME NEW r \in Requests, Register(r) PROVE Types'
  BY <1>1 DEF Register, Decisions!Register
<1>2. ASSUME NEW p \in Photos, Put(p) PROVE Types'
  BY <1>2 DEF Put
<1>2a. ASSUME NEW p \in Photos, Reconcile(p) PROVE Types'
  BY <1>2a DEF Reconcile
<1>3. ASSUME NEW S \in SUBSET Requests, NEW g \in Groups \cup {NoGroup},
      NEW v \in {"approved", "rejected"}, Review(S, g, v)
      PROVE Types'
  BY <1>3 DEF Review, Decisions!Decide
<1>4. ASSUME NEW c \in Confirmers, NEW p \in Photos, Confirm(c, p) PROVE Types'
  BY <1>4 DEF Confirm, Goto
<1>5. ASSUME NEW c \in Confirmers, Check(c) PROVE Types'
  BY <1>5 DEF Check, Goto
<1>6. ASSUME NEW c \in Confirmers, ReadGroup(c) PROVE Types'
  <2>1. RequestsOf(GroupOfCall(c)) \in SUBSET Requests
    BY DEF RequestsOf
  <2>2. UNCHANGED <<decisions, uploaded, store, photo, cur, copied, marked, decided, grpDone>>
    BY <1>6 DEF ReadGroup
  <2>3. todo' \in [Confirmers -> SUBSET Requests]
    BY <1>6, <2>1 DEF ReadGroup
  <2>4. pc' \in [Confirmers -> Labels]
    BY <1>6 DEF ReadGroup, Goto
  <2>5. past' \subseteq Incidents
    BY <1>6 DEF ReadGroup
  <2>6. QED BY <2>2, <2>3, <2>4, <2>5
<1>7. ASSUME NEW c \in Confirmers, NEW r \in Requests, ReadRequest(c, r) PROVE Types'
  BY <1>7 DEF ReadRequest, Goto
<1>8. ASSUME NEW c \in Confirmers, CopyPhotos(c) PROVE Types'
  <2>1. cur[c] \in Requests
    BY <1>8 DEF CopyPhotos, WorkInv, AtRequest
  <2>2. QED BY <1>8, <2>1 DEF CopyPhotos, Goto, PhotosOf
<1>9. ASSUME NEW c \in Confirmers, MarkPhotos(c) PROVE Types'
  <2>1. cur[c] \in Requests
    BY <1>9 DEF MarkPhotos, WorkInv, AtRequest
  <2>2. QED BY <1>9, <2>1 DEF MarkPhotos, Goto
<1>10. ASSUME NEW c \in Confirmers, DecideRequest(c) PROVE Types'
  <2>1. cur[c] \in Requests
    BY <1>10 DEF DecideRequest, WorkInv, AtRequest
  <2>2. QED BY <1>10, <2>1 DEF DecideRequest, Goto
<1>11. ASSUME NEW c \in Confirmers, DecideGroup(c) PROVE Types'
  BY ZenonT(40), <1>11 DEF DecideGroup, Goto
<1>12. ASSUME NEW c \in Confirmers, Unstage(c) PROVE Types'
  BY ZenonT(40), <1>12 DEF Unstage, Goto
<1>13. ASSUME NEW c \in Confirmers, Cleanup(c) PROVE Types'
  BY <1>13 DEF Cleanup, CleanFinal, Goto
<1>14. ASSUME NEW c \in Confirmers, Commit(c) PROVE Types'
  <2>1. photo[c] \in Photos
    BY <1>14 DEF Commit, PhotoInv
  <2>2. QED BY <1>14, <2>1 DEF Commit, StatusApproved, EndCall, Goto
<1>15. ASSUME NEW c \in Confirmers, DatabaseFault(c) PROVE Types'
  BY <1>15 DEF DatabaseFault, EndCall, Goto
<1>16. CASE UNCHANGED vars
  BY <1>16
<1> HIDE DEF Types, TypeOK
<1>17. QED BY <1>1, <1>2, <1>2a, <1>3, <1>4, <1>5, <1>6, <1>7, <1>8, <1>9, <1>10, <1>11, <1>12,
      <1>13, <1>14, <1>15, <1>16 DEF Next, Step


-----------------------------------------------------------------------------
(*****************************************************************************)
(* Arrival.                                                                 *)
(*****************************************************************************)
\* Objects and confirmations come for requests that exist.
LEMMA ArrivedStep == Types /\ ArrivedInv /\ PhotoInv /\ [Next]_vars => ArrivedInv'
<1> SUFFICES ASSUME Types /\ ArrivedInv /\ PhotoInv, [Next]_vars PROVE ArrivedInv'
  OBVIOUS
<1> USE DEF Types, TypeOK, ArrivedInv
<1>1. ASSUME NEW r \in Requests, Register(r) PROVE ArrivedInv'
  BY <1>1 DEF Register, Decisions!Register
<1>2. ASSUME NEW p \in Photos, Put(p) PROVE ArrivedInv'
  BY <1>2 DEF Put
<1>2a. ASSUME NEW p \in Photos, Reconcile(p) PROVE ArrivedInv'
  BY <1>2a DEF Reconcile
<1>3. ASSUME NEW S \in SUBSET Requests, NEW g \in Groups \cup {NoGroup},
      NEW v \in {"approved", "rejected"}, Review(S, g, v)
      PROVE ArrivedInv'
  BY <1>3 DEF Review, Decisions!Decide
<1>4. ASSUME NEW c \in Confirmers, NEW p \in Photos, Confirm(c, p) PROVE ArrivedInv'
  BY <1>4 DEF Confirm, Goto
<1>5. ASSUME NEW c \in Confirmers, Check(c) PROVE ArrivedInv'
  BY <1>5 DEF Check, Goto
<1>6. ASSUME NEW c \in Confirmers, ReadGroup(c) PROVE ArrivedInv'
  BY <1>6 DEF ReadGroup, Goto
<1>7. ASSUME NEW c \in Confirmers, NEW r \in Requests, ReadRequest(c, r) PROVE ArrivedInv'
  BY <1>7 DEF ReadRequest, Goto
<1>8. ASSUME NEW c \in Confirmers, CopyPhotos(c) PROVE ArrivedInv'
  BY <1>8 DEF CopyPhotos, Goto
<1>9. ASSUME NEW c \in Confirmers, MarkPhotos(c) PROVE ArrivedInv'
  BY <1>9 DEF MarkPhotos, Goto
<1>10. ASSUME NEW c \in Confirmers, DecideRequest(c) PROVE ArrivedInv'
  BY <1>10 DEF DecideRequest, Goto
<1>11. ASSUME NEW c \in Confirmers, DecideGroup(c) PROVE ArrivedInv'
  BY <1>11 DEF DecideGroup, Goto
<1>12. ASSUME NEW c \in Confirmers, Unstage(c) PROVE ArrivedInv'
  BY <1>12 DEF Unstage, Goto
<1>13. ASSUME NEW c \in Confirmers, Cleanup(c) PROVE ArrivedInv'
  BY <1>13 DEF Cleanup, CleanFinal, Goto
<1>14. ASSUME NEW c \in Confirmers, Commit(c) PROVE ArrivedInv'
  BY <1>14 DEF Commit, StatusApproved, EndCall, Goto, PhotoInv
<1>15. ASSUME NEW c \in Confirmers, DatabaseFault(c) PROVE ArrivedInv'
  BY <1>15 DEF DatabaseFault, EndCall, Goto
<1>16. CASE UNCHANGED vars
  BY <1>16
<1> HIDE DEF Types, TypeOK, ArrivedInv
<1>17. QED BY <1>1, <1>2, <1>2a, <1>3, <1>4, <1>5, <1>6, <1>7, <1>8, <1>9, <1>10, <1>11, <1>12,
      <1>13, <1>14, <1>15, <1>16 DEF Next, Step

\* Confirming takes the lock of the photo's row, and the transfer is committed with it.
LEMMA PhotoStep == Types /\ ArrivedInv /\ PhotoInv /\ [Next]_vars => PhotoInv'
<1> SUFFICES ASSUME Types /\ ArrivedInv /\ PhotoInv, [Next]_vars PROVE PhotoInv'
  OBVIOUS
<1> USE DEF Types, TypeOK, PhotoInv
<1>1. ASSUME NEW r \in Requests, Register(r) PROVE PhotoInv'
  BY <1>1 DEF Register, Decisions!Register
<1>2. ASSUME NEW p \in Photos, Put(p) PROVE PhotoInv'
  BY <1>2 DEF Put
<1>2a. ASSUME NEW p \in Photos, Reconcile(p) PROVE PhotoInv'
  BY <1>2a DEF Reconcile, Locked, PhotosHeld
<1>3. ASSUME NEW S \in SUBSET Requests, NEW g \in Groups \cup {NoGroup},
      NEW v \in {"approved", "rejected"}, Review(S, g, v)
      PROVE PhotoInv'
  BY <1>3 DEF Review, Decisions!Decide
<1>4. ASSUME NEW c \in Confirmers, NEW p \in Photos, Confirm(c, p) PROVE PhotoInv'
  BY <1>4 DEF Confirm, Goto, ArrivedInv, Locked, PhotosHeld
<1>5. ASSUME NEW c \in Confirmers, Check(c) PROVE PhotoInv'
  BY <1>5 DEF Check, Goto
<1>6. ASSUME NEW c \in Confirmers, ReadGroup(c) PROVE PhotoInv'
  BY <1>6 DEF ReadGroup, Goto
<1>7. ASSUME NEW c \in Confirmers, NEW r \in Requests, ReadRequest(c, r) PROVE PhotoInv'
  BY <1>7 DEF ReadRequest, Goto
<1>8. ASSUME NEW c \in Confirmers, CopyPhotos(c) PROVE PhotoInv'
  BY <1>8 DEF CopyPhotos, Goto
<1>9. ASSUME NEW c \in Confirmers, MarkPhotos(c) PROVE PhotoInv'
  BY <1>9 DEF MarkPhotos, Goto
<1>10. ASSUME NEW c \in Confirmers, DecideRequest(c) PROVE PhotoInv'
  BY <1>10 DEF DecideRequest, Goto
<1>11. ASSUME NEW c \in Confirmers, DecideGroup(c) PROVE PhotoInv'
  BY <1>11 DEF DecideGroup, Goto
<1>12. ASSUME NEW c \in Confirmers, Unstage(c) PROVE PhotoInv'
  BY <1>12 DEF Unstage, Goto
<1>13. ASSUME NEW c \in Confirmers, Cleanup(c) PROVE PhotoInv'
  BY <1>13 DEF Cleanup, CleanFinal, Goto
<1>14. ASSUME NEW c \in Confirmers, Commit(c) PROVE PhotoInv'
  BY <1>14 DEF Commit, StatusApproved, EndCall, Goto
<1>15. ASSUME NEW c \in Confirmers, DatabaseFault(c) PROVE PhotoInv'
  BY <1>15 DEF DatabaseFault, EndCall, Goto
<1>16. CASE UNCHANGED vars
  BY <1>16
<1> HIDE DEF Types, TypeOK, PhotoInv
<1>17. QED BY <1>1, <1>2, <1>2a, <1>3, <1>4, <1>5, <1>6, <1>7, <1>8, <1>9, <1>10, <1>11, <1>12,
      <1>13, <1>14, <1>15, <1>16 DEF Next, Step


-----------------------------------------------------------------------------
(*****************************************************************************)
(* The work of an approval.                                                 *)
(*****************************************************************************)
\* An approval works on requests of its group whose photos have arrived.
LEMMA WorkStep == Types /\ PhotoInv /\ WorkInv /\ [Next]_vars => WorkInv'
<1> SUFFICES ASSUME Types /\ PhotoInv /\ WorkInv, [Next]_vars PROVE WorkInv'
  OBVIOUS
<1> USE RequestsAssumption DEF Types, TypeOK, PhotoInv, WorkInv, Engaged, Approving,
      AtRequest, RequestsOf, PhotosOf, Sees, GroupOfCall
<1>1. ASSUME NEW r \in Requests, Register(r) PROVE WorkInv'
  BY <1>1 DEF Register, Decisions!Register
<1>2. ASSUME NEW p \in Photos, Put(p) PROVE WorkInv'
  BY <1>2 DEF Put
<1>2a. ASSUME NEW p \in Photos, Reconcile(p) PROVE WorkInv'
  BY <1>2a DEF Reconcile
<1>3. ASSUME NEW S \in SUBSET Requests, NEW g \in Groups \cup {NoGroup},
      NEW v \in {"approved", "rejected"}, Review(S, g, v)
      PROVE WorkInv'
  BY <1>3 DEF Review, Decisions!Decide
<1>4. ASSUME NEW c \in Confirmers, NEW p \in Photos, Confirm(c, p) PROVE WorkInv'
  BY <1>4 DEF Confirm, Goto
<1>5. ASSUME NEW c \in Confirmers, Check(c) PROVE WorkInv'
  BY <1>5 DEF Check, Goto
<1>6. ASSUME NEW c \in Confirmers, ReadGroup(c) PROVE WorkInv'
  BY <1>6 DEF ReadGroup, Goto
<1>7. ASSUME NEW c \in Confirmers, NEW r \in Requests, ReadRequest(c, r) PROVE WorkInv'
  BY <1>7 DEF ReadRequest, Goto
<1>8. ASSUME NEW c \in Confirmers, CopyPhotos(c) PROVE WorkInv'
  BY <1>8 DEF CopyPhotos, Goto
<1>9. ASSUME NEW c \in Confirmers, MarkPhotos(c) PROVE WorkInv'
  BY <1>9 DEF MarkPhotos, Goto
<1>10. ASSUME NEW c \in Confirmers, DecideRequest(c) PROVE WorkInv'
  BY <1>10 DEF DecideRequest, Goto
<1>11. ASSUME NEW c \in Confirmers, DecideGroup(c) PROVE WorkInv'
  BY <1>11 DEF DecideGroup, Goto
<1>12. ASSUME NEW c \in Confirmers, Unstage(c) PROVE WorkInv'
  BY <1>12 DEF Unstage, Goto
<1>13. ASSUME NEW c \in Confirmers, Cleanup(c) PROVE WorkInv'
  BY <1>13 DEF Cleanup, CleanFinal, Goto
<1>14. ASSUME NEW c \in Confirmers, Commit(c) PROVE WorkInv'
  BY <1>14 DEF Commit, StatusApproved, EndCall, Goto
<1>15. ASSUME NEW c \in Confirmers, DatabaseFault(c) PROVE WorkInv'
  BY <1>15 DEF DatabaseFault, EndCall, Goto
<1>16. CASE UNCHANGED vars
  BY <1>16
<1> HIDE DEF Types, TypeOK, PhotoInv, WorkInv
<1>17. QED BY <1>1, <1>2, <1>2a, <1>3, <1>4, <1>5, <1>6, <1>7, <1>8, <1>9, <1>10, <1>11, <1>12,
      <1>13, <1>14, <1>15, <1>16 DEF Next, Step

\* A check that passes has seen every photo of the pending requests of the group.
LEMMA CheckPasses ==
  ASSUME Types, NEW c \in Confirmers, Check(c), pc'[c] = "group"
  PROVE  /\ pc[c] = "check" /\ reqStatus[RequestOf[photo[c]]] = "pending"
         /\ PhotosOf(PendingOf(c)) \subseteq Sees(c)
         /\ pc' = [pc EXCEPT ![c] = "group"]
         /\ UNCHANGED <<uploaded, reqStatus, registered, tx>>
<1>1. CASE AllArrived(c)
  BY <1>1 DEF Check, Goto, Types, TypeOK, AllArrived
<1>2. CASE ~AllArrived(c)
  BY <1>2 DEF Check, Goto, Types, TypeOK
<1>3. QED BY <1>1, <1>2

\* Two confirmations of a group keep each other from seeing all photos.
LEMMA GroupStep == Types /\ PhotoInv /\ WorkInv /\ GroupInv /\ [Next]_vars => GroupInv'
<1> SUFFICES ASSUME Types /\ PhotoInv /\ WorkInv /\ GroupInv, [Next]_vars PROVE GroupInv'
  OBVIOUS
<1> USE RequestsAssumption DEF Types, TypeOK, PhotoInv, WorkInv, GroupInv, Undisturbed,
      Undecided, Alone, Engaged, Approving, AtRequest, RequestsOf, PhotosOf, Sees,
      GroupOfCall
<1>1. ASSUME NEW r \in Requests, Register(r) PROVE GroupInv'
  BY <1>1 DEF Register, Decisions!Register
<1>2. ASSUME NEW p \in Photos, Put(p) PROVE GroupInv'
  BY <1>2 DEF Put
<1>2a. ASSUME NEW p \in Photos, Reconcile(p) PROVE GroupInv'
  BY <1>2a DEF Reconcile, Locked, PhotosHeld
<1>3. ASSUME NEW S \in SUBSET Requests, NEW g \in Groups \cup {NoGroup},
      NEW v \in {"approved", "rejected"}, Review(S, g, v)
      PROVE GroupInv'
  BY <1>3 DEF Review, Decisions!Decide
<1>4. ASSUME NEW c \in Confirmers, NEW p \in Photos, Confirm(c, p) PROVE GroupInv'
  BY <1>4 DEF Confirm, Goto
<1>5. ASSUME NEW c \in Confirmers, Check(c) PROVE GroupInv'
  <2>1. CASE pc'[c] # "group"
    BY <1>5, <2>1 DEF Check, Goto
  <2>2. CASE pc'[c] = "group"
    <3> SUFFICES ASSUME Undisturbed PROVE GroupInv'
      BY <1>5 DEF Check
    <3>1. /\ pc[c] = "check" /\ reqStatus[RequestOf[photo[c]]] = "pending"
          /\ PhotosOf(PendingOf(c)) \subseteq Sees(c)
          /\ pc' = [pc EXCEPT ![c] = "group"]
          /\ UNCHANGED <<uploaded, reqStatus, registered, tx>>
      BY <1>5, <2>2, CheckPasses
    <3>2. ASSUME NEW o \in Confirmers \ {c}, Engaged(o), GroupOfCall(o) = GroupOfCall(c)
          PROVE  FALSE
      <4>1. /\ pc[o] # "idle" /\ photo[o] \in Photos \ uploaded /\ photo[o] # photo[c]
            /\ reqStatus[RequestOf[photo[o]]] = "pending"
            /\ RequestOf[photo[o]] \in registered
        BY <3>1, <3>2
      <4>2. RequestOf[photo[o]] \in PendingOf(c)
        BY <3>2, <4>1 DEF PendingOf
      <4>3. photo[o] \in uploaded \cup {photo[c]}
        BY <3>1, <4>1, <4>2
      <4>4. QED BY <4>1, <4>3
    <3>3. \A o \in Confirmers : Engaged(o)' => Engaged(o) \/ o = c
      BY <3>1
    <3>4. QED BY <3>1, <3>2, <3>3
  <2>3. QED BY <2>1, <2>2
<1>6. ASSUME NEW c \in Confirmers, ReadGroup(c) PROVE GroupInv'
  <2>1. \A o \in Confirmers : Engaged(o)' => Engaged(o)
    BY <1>6 DEF ReadGroup, Goto
  <2>2. pc'[c] = "request" => \A r \in todo'[c] : reqStatus[r] = "pending"
    BY <1>6 DEF ReadGroup, Goto, PendingOf
  <2>3. QED BY <1>6, <2>1, <2>2 DEF ReadGroup, Goto
<1>7. ASSUME NEW c \in Confirmers, NEW r \in Requests, ReadRequest(c, r) PROVE GroupInv'
  BY <1>7 DEF ReadRequest, Goto
<1>8. ASSUME NEW c \in Confirmers, CopyPhotos(c) PROVE GroupInv'
  BY <1>8 DEF CopyPhotos, Goto
<1>9. ASSUME NEW c \in Confirmers, MarkPhotos(c) PROVE GroupInv'
  BY <1>9 DEF MarkPhotos, Goto
<1>10. ASSUME NEW c \in Confirmers, DecideRequest(c) PROVE GroupInv'
  BY <1>10 DEF DecideRequest, Goto
<1>11. ASSUME NEW c \in Confirmers, DecideGroup(c) PROVE GroupInv'
  BY <1>11 DEF DecideGroup, Goto
<1>12. ASSUME NEW c \in Confirmers, Unstage(c) PROVE GroupInv'
  BY <1>12 DEF Unstage, Goto
<1>13. ASSUME NEW c \in Confirmers, Cleanup(c) PROVE GroupInv'
  BY <1>13 DEF Cleanup, CleanFinal, Goto
<1>14. ASSUME NEW c \in Confirmers, Commit(c) PROVE GroupInv'
  BY <1>14 DEF Commit, StatusApproved, EndCall, Goto
<1>15. ASSUME NEW c \in Confirmers, DatabaseFault(c) PROVE GroupInv'
  BY <1>15 DEF DatabaseFault, EndCall, Goto
<1>16. CASE UNCHANGED vars
  BY <1>16
<1> HIDE DEF Types, TypeOK, PhotoInv, WorkInv, GroupInv
<1>17. QED BY <1>1, <1>2, <1>2a, <1>3, <1>4, <1>5, <1>6, <1>7, <1>8, <1>9, <1>10, <1>11, <1>12,
      <1>13, <1>14, <1>15, <1>16 DEF Next, Step


-----------------------------------------------------------------------------
(*****************************************************************************)
(* What is committed.                                                       *)
(*****************************************************************************)
\* Swallowed exceptions leave whole requests: what an approval has marked it has decided.
LEMMA DecidedStep ==
  Types /\ PhotoInv /\ WorkInv /\ GroupInv /\ DecidedTogether /\ [Next]_vars =>
      DecidedTogether'
<1> SUFFICES ASSUME Types /\ PhotoInv /\ WorkInv /\ GroupInv /\ DecidedTogether, [Next]_vars
             PROVE DecidedTogether'
  OBVIOUS
<1> USE RequestsAssumption DEF Types, TypeOK, DecidedTogether
<1>1. ASSUME NEW r \in Requests, Register(r) PROVE DecidedTogether'
  BY <1>1 DEF Register, Decisions!Register
<1>2. ASSUME NEW p \in Photos, Put(p) PROVE DecidedTogether'
  BY <1>2 DEF Put
<1>2a. ASSUME NEW p \in Photos, Reconcile(p) PROVE DecidedTogether'
  BY <1>2a DEF Reconcile
<1>3. ASSUME NEW S \in SUBSET Requests, NEW g \in Groups \cup {NoGroup},
      NEW v \in {"approved", "rejected"}, Review(S, g, v)
      PROVE DecidedTogether'
  BY <1>3 DEF Review
<1>4. ASSUME NEW c \in Confirmers, NEW p \in Photos, Confirm(c, p) PROVE DecidedTogether'
  BY <1>4 DEF Confirm, Goto
<1>5. ASSUME NEW c \in Confirmers, Check(c) PROVE DecidedTogether'
  BY <1>5 DEF Check, Goto
<1>6. ASSUME NEW c \in Confirmers, ReadGroup(c) PROVE DecidedTogether'
  BY <1>6 DEF ReadGroup, Goto
<1>7. ASSUME NEW c \in Confirmers, NEW r \in Requests, ReadRequest(c, r)
      PROVE DecidedTogether'
  BY <1>7 DEF ReadRequest, Goto
<1>8. ASSUME NEW c \in Confirmers, CopyPhotos(c) PROVE DecidedTogether'
  BY <1>8 DEF CopyPhotos, Goto
<1>9. ASSUME NEW c \in Confirmers, MarkPhotos(c) PROVE DecidedTogether'
  BY <1>9 DEF MarkPhotos, Goto
<1>10. ASSUME NEW c \in Confirmers, DecideRequest(c) PROVE DecidedTogether'
  BY <1>10 DEF DecideRequest, Goto
<1>11. ASSUME NEW c \in Confirmers, DecideGroup(c) PROVE DecidedTogether'
  BY <1>11 DEF DecideGroup, Goto
<1>12. ASSUME NEW c \in Confirmers, Unstage(c) PROVE DecidedTogether'
  BY <1>12 DEF Unstage, Goto
<1>13. ASSUME NEW c \in Confirmers, Cleanup(c) PROVE DecidedTogether'
  BY <1>13 DEF Cleanup, CleanFinal, Goto
<1>14. ASSUME NEW c \in Confirmers, Commit(c) PROVE DecidedTogether'
  <2> SUFFICES ASSUME Undisturbed PROVE DecidedTogether'
    BY <1>14 DEF Commit, Undisturbed
  <2>1. pc[c] = "commit" /\ marked[c] = decided[c] /\ photo[c] \in Photos
    <3>0. pc[c] = "commit" /\ photo[c] \in Photos
      BY <1>14 DEF Commit, PhotoInv
    <3>1. CASE Engaged(c)
      <4>1. marked[c] = decided[c] \cup {}
        BY <3>0, <3>1 DEF GroupInv
      <4>2. QED BY <3>0, <4>1
    <3>2. CASE ~Engaged(c)
      <4>1. marked[c] = {} /\ decided[c] = {}
        BY <3>2 DEF Engaged, WorkInv
      <4>2. QED BY <3>0, <4>1
    <3>3. QED BY <3>1, <3>2
  <2>2. ASSUME NEW r \in decided[c] PROVE reqStatus[r] = "pending"
    BY <2>1, <2>2 DEF GroupInv, Undecided, Engaged, WorkInv
  <2>3. ASSUME NEW p \in Photos, RequestOf[p] \in decided[c] PROVE p \in uploaded'
    BY <1>14, <2>1, <2>3 DEF Commit, WorkInv, PhotosOf, Sees
  <2>4. QED BY <1>14, <2>1, <2>2, <2>3 DEF Commit, StatusApproved, EndCall, Goto,
        Undisturbed
<1>15. ASSUME NEW c \in Confirmers, DatabaseFault(c) PROVE DecidedTogether'
  BY <1>15 DEF DatabaseFault, EndCall, Goto
<1>16. CASE UNCHANGED vars
  BY <1>16
<1> HIDE DEF Types, TypeOK, DecidedTogether
<1>17. QED BY <1>1, <1>2, <1>2a, <1>3, <1>4, <1>5, <1>6, <1>7, <1>8, <1>9, <1>10, <1>11, <1>12,
      <1>13, <1>14, <1>15, <1>16 DEF Next, Step

\* An approval sees its own photo before the commit of its transfer, which is its own commit.
LEMMA RowsStep ==
  Types /\ PhotoInv /\ WorkInv /\ RowsAreUploaded /\ [Next]_vars => RowsAreUploaded'
<1> SUFFICES ASSUME Types /\ PhotoInv /\ WorkInv /\ RowsAreUploaded, [Next]_vars
             PROVE RowsAreUploaded'
  OBVIOUS
<1> USE RequestsAssumption DEF Types, TypeOK, RowsAreUploaded
<1>1. ASSUME NEW r \in Requests, Register(r) PROVE RowsAreUploaded'
  BY <1>1 DEF Register, Decisions!Register
<1>2. ASSUME NEW p \in Photos, Put(p) PROVE RowsAreUploaded'
  BY <1>2 DEF Put
<1>2a. ASSUME NEW p \in Photos, Reconcile(p) PROVE RowsAreUploaded'
  BY <1>2a DEF Reconcile
<1>3. ASSUME NEW S \in SUBSET Requests, NEW g \in Groups \cup {NoGroup},
      NEW v \in {"approved", "rejected"}, Review(S, g, v)
      PROVE RowsAreUploaded'
  BY <1>3 DEF Review, Decisions!Decide, PhotosOf
<1>4. ASSUME NEW c \in Confirmers, NEW p \in Photos, Confirm(c, p) PROVE RowsAreUploaded'
  BY <1>4 DEF Confirm, Goto
<1>5. ASSUME NEW c \in Confirmers, Check(c) PROVE RowsAreUploaded'
  BY <1>5 DEF Check, Goto
<1>6. ASSUME NEW c \in Confirmers, ReadGroup(c) PROVE RowsAreUploaded'
  BY <1>6 DEF ReadGroup, Goto
<1>7. ASSUME NEW c \in Confirmers, NEW r \in Requests, ReadRequest(c, r)
      PROVE RowsAreUploaded'
  BY <1>7 DEF ReadRequest, Goto
<1>8. ASSUME NEW c \in Confirmers, CopyPhotos(c) PROVE RowsAreUploaded'
  BY <1>8 DEF CopyPhotos, Goto
<1>9. ASSUME NEW c \in Confirmers, MarkPhotos(c) PROVE RowsAreUploaded'
  BY <1>9 DEF MarkPhotos, Goto
<1>10. ASSUME NEW c \in Confirmers, DecideRequest(c) PROVE RowsAreUploaded'
  BY <1>10 DEF DecideRequest, Goto
<1>11. ASSUME NEW c \in Confirmers, DecideGroup(c) PROVE RowsAreUploaded'
  BY <1>11 DEF DecideGroup, Goto
<1>12. ASSUME NEW c \in Confirmers, Unstage(c) PROVE RowsAreUploaded'
  BY <1>12 DEF Unstage, Goto
<1>13. ASSUME NEW c \in Confirmers, Cleanup(c) PROVE RowsAreUploaded'
  BY <1>13 DEF Cleanup, CleanFinal, Goto
<1>14. ASSUME NEW c \in Confirmers, Commit(c) PROVE RowsAreUploaded'
  <2>1. ASSUME NEW p \in Photos, RequestOf[p] \in marked[c] PROVE p \in uploaded'
    BY <1>14, <2>1 DEF Commit, WorkInv, PhotosOf, Sees
  <2>2. QED BY <1>14, <2>1 DEF Commit, StatusApproved, EndCall, Goto
<1>15. ASSUME NEW c \in Confirmers, DatabaseFault(c) PROVE RowsAreUploaded'
  BY <1>15 DEF DatabaseFault, EndCall, Goto
<1>16. CASE UNCHANGED vars
  BY <1>16
<1> HIDE DEF Types, TypeOK, RowsAreUploaded
<1>17. QED BY <1>1, <1>2, <1>2a, <1>3, <1>4, <1>5, <1>6, <1>7, <1>8, <1>9, <1>10, <1>11, <1>12,
      <1>13, <1>14, <1>15, <1>16 DEF Next, Step


-----------------------------------------------------------------------------
(*****************************************************************************)
(* Objects.                                                                 *)
(*****************************************************************************)
\* A step that moves one approval on, and no object, keeps the copies where they are.
LEMMA CopyFrame ==
  ASSUME Types, CopyInv, NEW c \in Confirmers,
         pc' = [pc EXCEPT ![c] = pc'[c]], past \subseteq past',
         UNCHANGED <<staging, final, reqStatus, uploaded, photo, copied>>,
         pc[c] \notin {"idle", "commit"}, pc'[c] # "idle",
         \A o \in Confirmers \ {c} : decided'[o] = decided[o],
         Approving(c)' => Approving(c) \/ copied[c] = {},
         pc'[c] = "cleanup" => Approving(c)
  PROVE  CopyInv'
<1> USE DEF Types, TypeOK
<1> SUFFICES ASSUME past' \cap {"review", "broker"} = {} PROVE CopyInv'
  BY DEF CopyInv
<1>1. past \cap {"review", "broker"} = {}
  OBVIOUS
<1>2. \A p : Leaving(p) => Leaving(p)'
  BY DEF Leaving
<1>3. Arrived' = Arrived
  BY DEF Arrived
<1>4. \A p \in Arrived : Kept(p)'
  BY <1>1, <1>2 DEF CopyInv, Kept
<1>5. ASSUME NEW o \in Confirmers PROVE CopiesKept(o)'
  <2>1. CopiesKept(o)
    BY <1>1 DEF CopyInv
  <2>2. CASE o = c
    <3>1. pc'[o] = "cleanup" => PhotosOf(copied[o]) \subseteq staging
      BY <2>1, <2>2 DEF CopiesKept
    <3>2. copied[o] = {} => PhotosOf(copied[o]) = {}
      BY DEF PhotosOf
    <3>3. Approving(o)' => PhotosOf(copied[o]) \subseteq staging \cap final
      BY <2>1, <2>2, <3>2 DEF CopiesKept
    <3>4. PhotosOf(copied[o])' = PhotosOf(copied[o])
      BY DEF PhotosOf
    <3>5. QED BY <3>1, <3>3, <3>4 DEF CopiesKept
  <2>3. CASE o # c
    BY <2>1, <2>3 DEF CopiesKept, Approving, PhotosOf
  <2>4. QED BY <2>2, <2>3
<1>6. QED BY <1>3, <1>4, <1>5 DEF CopyInv

\* Approvals at work are at different groups, so none takes away what another copied.
LEMMA CopyStep ==
  Types /\ PhotoInv /\ WorkInv /\ GroupInv /\ CopyInv /\ [Next]_vars => CopyInv'
<1> SUFFICES ASSUME Types /\ PhotoInv /\ WorkInv /\ GroupInv /\ CopyInv, [Next]_vars
             PROVE CopyInv'
  OBVIOUS
<1> USE RequestsAssumption DEF Types, TypeOK, CopyInv, Kept, CopiesKept, Arrived, Leaving,
      PhotoInv, WorkInv, GroupInv, Undisturbed, Undecided, Alone, Engaged, Approving,
      AtRequest, RequestsOf, PhotosOf, Sees, GroupOfCall
<1>1. ASSUME NEW r \in Requests, Register(r) PROVE CopyInv'
  BY <1>1 DEF Register, Decisions!Register
<1>2. ASSUME NEW p \in Photos, Put(p) PROVE CopyInv'
  BY <1>2 DEF Put
<1>2a. ASSUME NEW p \in Photos, Reconcile(p) PROVE CopyInv'
  BY <1>2a DEF Reconcile
<1>3. ASSUME NEW S \in SUBSET Requests, NEW g \in Groups \cup {NoGroup},
      NEW v \in {"approved", "rejected"}, Review(S, g, v)
      PROVE CopyInv'
  BY <1>3 DEF Review, Decisions!Decide
<1>4. ASSUME NEW c \in Confirmers, NEW p \in Photos, Confirm(c, p) PROVE CopyInv'
  BY <1>4 DEF Confirm, Goto
<1>5. ASSUME NEW c \in Confirmers, Check(c) PROVE CopyInv'
  <2>1. /\ UNCHANGED <<staging, final, reqStatus, uploaded, photo, copied>>
        /\ \A o \in Confirmers \ {c} : decided'[o] = decided[o]
        /\ pc[c] \notin {"idle", "commit"} /\ past \subseteq past'
    BY <1>5 DEF Check
  <2>2. /\ pc' = [pc EXCEPT ![c] = pc'[c]] /\ pc'[c] # "idle"
        /\ Approving(c)' => Approving(c) \/ copied[c] = {}
        /\ pc'[c] = "cleanup" => Approving(c)
    BY <1>5 DEF Check, Goto
  <2> HIDE DEF CopyInv, Approving, Types
  <2>3. QED BY <2>1, <2>2, CopyFrame
<1>6. ASSUME NEW c \in Confirmers, ReadGroup(c) PROVE CopyInv'
  <2>1. /\ UNCHANGED <<staging, final, reqStatus, uploaded, photo, copied>>
        /\ \A o \in Confirmers \ {c} : decided'[o] = decided[o]
        /\ pc[c] \notin {"idle", "commit"} /\ past \subseteq past'
    BY <1>6 DEF ReadGroup
  <2>2. /\ pc' = [pc EXCEPT ![c] = pc'[c]] /\ pc'[c] # "idle"
        /\ Approving(c)' => Approving(c) \/ copied[c] = {}
        /\ pc'[c] = "cleanup" => Approving(c)
    BY <1>6 DEF ReadGroup, Goto
  <2> HIDE DEF CopyInv, Approving, Types
  <2>3. QED BY <2>1, <2>2, CopyFrame
<1>7. ASSUME NEW c \in Confirmers, NEW r \in Requests, ReadRequest(c, r) PROVE CopyInv'
  <2>1. /\ UNCHANGED <<staging, final, reqStatus, uploaded, photo, copied>>
        /\ \A o \in Confirmers \ {c} : decided'[o] = decided[o]
        /\ pc[c] \notin {"idle", "commit"} /\ past \subseteq past'
    BY <1>7 DEF ReadRequest
  <2>2. /\ pc' = [pc EXCEPT ![c] = pc'[c]] /\ pc'[c] # "idle"
        /\ Approving(c)' => Approving(c) \/ copied[c] = {}
        /\ pc'[c] = "cleanup" => Approving(c)
    BY <1>7 DEF ReadRequest, Goto
  <2> HIDE DEF CopyInv, Approving, Types
  <2>3. QED BY <2>1, <2>2, CopyFrame
<1>8. ASSUME NEW c \in Confirmers, CopyPhotos(c) PROVE CopyInv'
  <2> SUFFICES ASSUME past' \cap {"review", "broker"} = {} PROVE CopyInv'
    OBVIOUS
  <2>1. /\ pc[c] = "photos" /\ past' = past /\ final \subseteq final'
        /\ UNCHANGED <<staging, reqStatus, uploaded, photo, decided>>
        /\ \/ /\ pc' = [pc EXCEPT ![c] = "mark"]
              /\ PhotosOf({cur[c]}) \subseteq staging \cap final'
              /\ copied' = [copied EXCEPT ![c] = @ \cup {cur[c]}]
           \/ pc' = [pc EXCEPT ![c] = "cleanup"] /\ UNCHANGED copied
    BY <1>8 DEF CopyPhotos, Goto
  <2>2. Arrived' = Arrived
    BY <2>1
  <2>3. \A p \in Arrived : Kept(p)'
    BY <2>1
  <2>4. ASSUME NEW o \in Confirmers PROVE CopiesKept(o)'
    <3>1. CopiesKept(o)
      BY <2>1
    <3>2. CASE o = c
      BY <2>1, <3>1, <3>2
    <3>3. CASE o # c
      BY <2>1, <3>1, <3>3
    <3>4. QED BY <3>2, <3>3
  <2> HIDE DEF Arrived, CopiesKept, Kept
  <2>5. QED BY <2>2, <2>3, <2>4
<1>9. ASSUME NEW c \in Confirmers, MarkPhotos(c) PROVE CopyInv'
  <2>1. /\ UNCHANGED <<staging, final, reqStatus, uploaded, photo, copied>>
        /\ \A o \in Confirmers \ {c} : decided'[o] = decided[o]
        /\ pc[c] \notin {"idle", "commit"} /\ past \subseteq past'
    BY <1>9 DEF MarkPhotos
  <2>2. /\ pc' = [pc EXCEPT ![c] = pc'[c]] /\ pc'[c] # "idle"
        /\ Approving(c)' => Approving(c) \/ copied[c] = {}
        /\ pc'[c] = "cleanup" => Approving(c)
    BY <1>9 DEF MarkPhotos, Goto
  <2> HIDE DEF CopyInv, Approving, Types
  <2>3. QED BY <2>1, <2>2, CopyFrame
<1>10. ASSUME NEW c \in Confirmers, DecideRequest(c) PROVE CopyInv'
  <2>1. /\ UNCHANGED <<staging, final, reqStatus, uploaded, photo, copied>>
        /\ \A o \in Confirmers \ {c} : decided'[o] = decided[o]
        /\ pc[c] \notin {"idle", "commit"} /\ past \subseteq past'
    BY <1>10 DEF DecideRequest
  <2>2. /\ pc' = [pc EXCEPT ![c] = pc'[c]] /\ pc'[c] # "idle"
        /\ Approving(c)' => Approving(c) \/ copied[c] = {}
        /\ pc'[c] = "cleanup" => Approving(c)
    BY <1>10 DEF DecideRequest, Goto
  <2> HIDE DEF CopyInv, Approving, Types
  <2>3. QED BY <2>1, <2>2, CopyFrame
<1>11. ASSUME NEW c \in Confirmers, DecideGroup(c) PROVE CopyInv'
  <2>1. /\ UNCHANGED <<staging, final, reqStatus, uploaded, photo, copied>>
        /\ \A o \in Confirmers \ {c} : decided'[o] = decided[o]
        /\ pc[c] \notin {"idle", "commit"} /\ past \subseteq past'
    BY <1>11 DEF DecideGroup
  <2>2. /\ pc' = [pc EXCEPT ![c] = pc'[c]] /\ pc'[c] # "idle"
        /\ Approving(c)' => Approving(c) \/ copied[c] = {}
        /\ pc'[c] = "cleanup" => Approving(c)
    BY <1>11 DEF DecideGroup, Goto
  <2> HIDE DEF CopyInv, Approving, Types
  <2>3. QED BY <2>1, <2>2, CopyFrame
<1>12. ASSUME NEW c \in Confirmers, Unstage(c) PROVE CopyInv'
  <2> SUFFICES ASSUME past' \cap {"review", "broker"} = {} PROVE CopyInv'
    OBVIOUS
  <2>1. /\ pc[c] = "unstage" /\ pc' = [pc EXCEPT ![c] = "commit"]
        /\ staging' = staging \ PhotosOf(decided[c])
        /\ past' = past /\ UNCHANGED <<decisions, uploaded, final, tx>>
    BY <1>12 DEF Unstage, Goto
  <2>2. Arrived' = Arrived
    BY <2>1
  <2>3. decided[c] \subseteq copied[c]
    OBVIOUS
  <2>4. \A o \in Confirmers \ {c} : copied[o] \cap decided[c] = {}
    BY <2>1, <2>3
  <2>5. ASSUME NEW o \in Confirmers PROVE CopiesKept(o)'
    <3>1. CASE o = c
      BY <2>1, <3>1
    <3>2. CASE o # c
      <4>1. PhotosOf(copied[o]) \cap PhotosOf(decided[c]) = {}
        BY <2>4, <3>2
      <4>2. QED BY <2>1, <3>2, <4>1
    <3>3. QED BY <3>1, <3>2
  <2>6. ASSUME NEW p \in Arrived PROVE Kept(p)'
    <3>1. p \in Photos /\ Kept(p)
      BY <2>1
    <3>2. CASE RequestOf[p] \in decided[c]
      BY <2>1, <2>3, <3>1, <3>2
    <3>3. CASE RequestOf[p] \notin decided[c]
      BY <2>1, <3>1, <3>3
    <3>4. QED BY <3>2, <3>3
  <2> HIDE DEF Arrived, CopiesKept, Kept
  <2>7. QED BY <2>2, <2>5, <2>6
<1>13. ASSUME NEW c \in Confirmers, Cleanup(c) PROVE CopyInv'
  BY <1>13 DEF Cleanup, CleanFinal, Goto
<1>14. ASSUME NEW c \in Confirmers, Commit(c) PROVE CopyInv'
  BY <1>14 DEF Commit, StatusApproved, EndCall, Goto
<1>15. ASSUME NEW c \in Confirmers, DatabaseFault(c) PROVE CopyInv'
  <2> SUFFICES ASSUME past' \cap {"review", "broker"} = {} PROVE CopyInv'
    OBVIOUS
  <2>1. /\ pc[c] \notin {"idle", "cleanup", "commit"} /\ pc' = [pc EXCEPT ![c] = "idle"]
        /\ final' = final \ PhotosOf(copied[c]) /\ copied' = [copied EXCEPT ![c] = {}]
        /\ photo' = [photo EXCEPT ![c] = NoPhoto] /\ decided' = [decided EXCEPT ![c] = {}]
        /\ past \cap {"review", "broker"} = {}
        /\ UNCHANGED <<decisions, uploaded, staging>>
    BY <1>15 DEF DatabaseFault, EndCall, Goto
  <2>2. Arrived' \subseteq Arrived
    BY <2>1
  <2>3. \A o \in Confirmers \ {c} : Engaged(o) => copied[o] \cap copied[c] = {}
    BY <2>1
  <2>4. ASSUME NEW o \in Confirmers PROVE CopiesKept(o)'
    <3>1. CASE o = c
      BY <2>1, <3>1
    <3>2. CASE o # c
      <4>1. Engaged(o) => PhotosOf(copied[o]) \cap PhotosOf(copied[c]) = {}
        BY <2>3, <3>2
      <4>2. QED BY <2>1, <3>2, <4>1
    <3>3. QED BY <3>1, <3>2
  <2>5. ASSUME NEW p \in Arrived PROVE Kept(p)'
    <3>1. p \in Photos /\ Kept(p)
      BY <2>1
    <3>2. p \in PhotosOf(copied[c]) => p \in staging
      <4>1. CopiesKept(c)
        BY <2>1
      <4> HIDE DEF GroupInv, PhotoInv, CopyInv, GroupOfCall, Sees, RequestsOf
      <4>2. pc[c] \in {"check", "group"} \/ Approving(c)
        BY <2>1 DEF Labels
      <4>3. copied[c] # {} => Approving(c)
        BY <4>2
      <4> HIDE DEF WorkInv, Approving
      <4>4. QED BY <4>1, <4>3
    <3>3. Leaving(p) => Leaving(p)'
      BY <2>1
    <3>4. p \in staging \cup final /\ (reqStatus[RequestOf[p]] = "pending" => p \in staging \/ Leaving(p))
      BY <3>1
    <3>5. p \in staging' \cup final' /\ staging' = staging /\ reqStatus' = reqStatus
      BY <2>1, <3>1, <3>2
    <3> HIDE DEF Leaving, Arrived
    <3>6. QED BY <3>3, <3>4, <3>5
  <2> HIDE DEF Arrived, CopiesKept, Kept
  <2>6. QED BY <2>2, <2>4, <2>5
<1>16. CASE UNCHANGED vars
  BY <1>16
<1> HIDE DEF Types, TypeOK, CopyInv, PhotoInv, WorkInv, GroupInv
<1>17. QED BY <1>1, <1>2, <1>2a, <1>3, <1>4, <1>5, <1>6, <1>7, <1>8, <1>9, <1>10, <1>11, <1>12,
      <1>13, <1>14, <1>15, <1>16 DEF Next, Step


-----------------------------------------------------------------------------
(*****************************************************************************)
(* Turns.                                                                   *)
(*****************************************************************************)
\* What has happened is not forgotten, and a decision is not undone.
LEMMA PastStep ==
  ASSUME Types, [Next]_vars
  PROVE  /\ past \subseteq past' /\ registered \subseteq registered'
         /\ \A r \in Requests : reqStatus[r] # "pending" => reqStatus'[r] # "pending"
<1> DEFINE Grown == /\ past \subseteq past' /\ registered \subseteq registered'
                    /\ \A r \in Requests : reqStatus[r] # "pending" => reqStatus'[r] # "pending"
<1> SUFFICES Grown
  OBVIOUS
<1> USE DEF Types, TypeOK
<1>1. ASSUME NEW r \in Requests, Register(r) PROVE Grown
  BY <1>1 DEF Register, Decisions!Register
<1>2. ASSUME NEW p \in Photos, Put(p) PROVE Grown
  BY <1>2 DEF Put
<1>2a. ASSUME NEW p \in Photos, Reconcile(p) PROVE Grown
  BY <1>2a DEF Reconcile
<1>3. ASSUME NEW S \in SUBSET Requests, NEW g \in Groups \cup {NoGroup},
      NEW v \in {"approved", "rejected"}, Review(S, g, v)
      PROVE Grown
  BY <1>3 DEF Review, Decisions!Decide
<1>4. ASSUME NEW c \in Confirmers, NEW p \in Photos, Confirm(c, p) PROVE Grown
  BY <1>4 DEF Confirm, Goto
<1>5. ASSUME NEW c \in Confirmers, Check(c) PROVE Grown
  BY <1>5 DEF Check, Goto
<1>6. ASSUME NEW c \in Confirmers, ReadGroup(c) PROVE Grown
  BY <1>6 DEF ReadGroup, Goto
<1>7. ASSUME NEW c \in Confirmers, NEW r \in Requests, ReadRequest(c, r) PROVE Grown
  BY <1>7 DEF ReadRequest, Goto
<1>8. ASSUME NEW c \in Confirmers, CopyPhotos(c) PROVE Grown
  BY <1>8 DEF CopyPhotos, Goto
<1>9. ASSUME NEW c \in Confirmers, MarkPhotos(c) PROVE Grown
  BY <1>9 DEF MarkPhotos, Goto
<1>10. ASSUME NEW c \in Confirmers, DecideRequest(c) PROVE Grown
  BY <1>10 DEF DecideRequest, Goto
<1>11. ASSUME NEW c \in Confirmers, DecideGroup(c) PROVE Grown
  BY <1>11 DEF DecideGroup, Goto
<1>12. ASSUME NEW c \in Confirmers, Unstage(c) PROVE Grown
  BY <1>12 DEF Unstage, Goto
<1>13. ASSUME NEW c \in Confirmers, Cleanup(c) PROVE Grown
  BY <1>13 DEF Cleanup, CleanFinal, Goto
<1>14. ASSUME NEW c \in Confirmers, Commit(c) PROVE Grown
  BY <1>14 DEF Commit, StatusApproved, EndCall, Goto
<1>15. ASSUME NEW c \in Confirmers, DatabaseFault(c) PROVE Grown
  BY <1>15 DEF DatabaseFault, EndCall, Goto
<1>16. CASE UNCHANGED vars
  BY <1>16
<1> HIDE DEF Grown, Types, TypeOK
<1>17. QED BY <1>1, <1>2, <1>2a, <1>3, <1>4, <1>5, <1>6, <1>7, <1>8, <1>9, <1>10, <1>11, <1>12,
      <1>13, <1>14, <1>15, <1>16 DEF Next, Step

\* A group stays decided.
LEMMA StaysDecided ==
  ASSUME Types, [Next]_vars, NEW g, Decided(g)
  PROVE  Decided(g)'
  BY PastStep DEF Decided, RequestsOf, Types, TypeOK

\* An approval of a group approves a request of it.
LEMMA GroupsStep ==
  Types /\ WorkInv /\ GroupsDecided /\ past' = {} /\ [Next]_vars => GroupsDecided'
<1> SUFFICES ASSUME Types /\ WorkInv /\ GroupsDecided, past' = {}, [Next]_vars
             PROVE GroupsDecided'
  OBVIOUS
<1>0. past = {}
  BY PastStep
<1> USE <1>0, StaysDecided DEF Types, TypeOK, GroupsDecided
<1>1. ASSUME NEW r \in Requests, Register(r) PROVE GroupsDecided'
  BY <1>1 DEF Register, Decisions!Register
<1>2. ASSUME NEW p \in Photos, Put(p) PROVE GroupsDecided'
  BY <1>2 DEF Put
<1>2a. ASSUME NEW p \in Photos, Reconcile(p) PROVE GroupsDecided'
  BY <1>2a DEF Reconcile
<1>3. ASSUME NEW S \in SUBSET Requests, NEW g \in Groups \cup {NoGroup},
      NEW v \in {"approved", "rejected"}, Review(S, g, v)
      PROVE GroupsDecided'
  BY <1>3 DEF Review
<1>4. ASSUME NEW c \in Confirmers, NEW p \in Photos, Confirm(c, p) PROVE GroupsDecided'
  BY <1>4 DEF Confirm, Goto
<1>5. ASSUME NEW c \in Confirmers, Check(c) PROVE GroupsDecided'
  BY <1>5 DEF Check, Goto
<1>6. ASSUME NEW c \in Confirmers, ReadGroup(c) PROVE GroupsDecided'
  BY <1>6 DEF ReadGroup, Goto
<1>7. ASSUME NEW c \in Confirmers, NEW r \in Requests, ReadRequest(c, r)
      PROVE GroupsDecided'
  BY <1>7 DEF ReadRequest, Goto
<1>8. ASSUME NEW c \in Confirmers, CopyPhotos(c) PROVE GroupsDecided'
  BY <1>8 DEF CopyPhotos, Goto
<1>9. ASSUME NEW c \in Confirmers, MarkPhotos(c) PROVE GroupsDecided'
  BY <1>9 DEF MarkPhotos, Goto
<1>10. ASSUME NEW c \in Confirmers, DecideRequest(c) PROVE GroupsDecided'
  BY <1>10 DEF DecideRequest, Goto
<1>11. ASSUME NEW c \in Confirmers, DecideGroup(c) PROVE GroupsDecided'
  BY <1>11 DEF DecideGroup, Goto
<1>12. ASSUME NEW c \in Confirmers, Unstage(c) PROVE GroupsDecided'
  BY <1>12 DEF Unstage, Goto
<1>13. ASSUME NEW c \in Confirmers, Cleanup(c) PROVE GroupsDecided'
  BY <1>13 DEF Cleanup, CleanFinal, Goto
<1>14. ASSUME NEW c \in Confirmers, Commit(c) PROVE GroupsDecided'
  <2> SUFFICES ASSUME NEW g \in Groups, groupStatus'[g] # "pending" PROVE Decided(g)'
    BY DEF GroupsDecided
  <2>1. CASE groupStatus[g] # "pending"
    BY <2>1
  <2>2. CASE groupStatus[g] = "pending"
    <3>1. grpDone[c] /\ g = GroupOfCall(c) /\ pc[c] = "commit"
      BY <1>14, <2>2 DEF Commit
    <3>2. decided[c] # {} /\ decided[c] \subseteq RequestsOf(g)
      BY <3>1 DEF WorkInv
    <3>3. \A r \in decided[c] : r \in RequestsOf(g)' /\ reqStatus'[r] = "approved"
      BY <1>14, <3>2 DEF Commit, StatusApproved, RequestsOf
    <3>4. QED BY <3>2, <3>3 DEF Decided
  <2>3. QED BY <2>1, <2>2
<1>15. ASSUME NEW c \in Confirmers, DatabaseFault(c) PROVE GroupsDecided'
  BY <1>15 DEF DatabaseFault, EndCall, Goto
<1>16. CASE UNCHANGED vars
  BY <1>16
<1> HIDE DEF GroupsDecided, Types, TypeOK
<1>17. QED BY <1>1, <1>2, <1>2a, <1>3, <1>4, <1>5, <1>6, <1>7, <1>8, <1>9, <1>10, <1>11, <1>12,
      <1>13, <1>14, <1>15, <1>16 DEF Next, Step

\* A check that finds another confirmation of the group is an overlap.
LEMMA TakenStep ==
  Types /\ TurnTaken /\ past' = {} /\ [Next]_vars => TurnTaken'
<1> SUFFICES ASSUME Types /\ TurnTaken, past' = {}, [Next]_vars PROVE TurnTaken'
  OBVIOUS
<1>0. past = {}
  BY PastStep
<1> USE <1>0 DEF Types, TypeOK, TurnTaken, GroupOfCall
<1>1. ASSUME NEW r \in Requests, Register(r) PROVE TurnTaken'
  BY <1>1 DEF Register, Decisions!Register
<1>2. ASSUME NEW p \in Photos, Put(p) PROVE TurnTaken'
  BY <1>2 DEF Put
<1>2a. ASSUME NEW p \in Photos, Reconcile(p) PROVE TurnTaken'
  BY <1>2a DEF Reconcile
<1>3. ASSUME NEW S \in SUBSET Requests, NEW g \in Groups \cup {NoGroup},
      NEW v \in {"approved", "rejected"}, Review(S, g, v)
      PROVE TurnTaken'
  BY <1>3 DEF Review, Decisions!Decide
<1>4. ASSUME NEW c \in Confirmers, NEW p \in Photos, Confirm(c, p) PROVE TurnTaken'
  BY <1>4 DEF Confirm, Goto
<1>5. ASSUME NEW c \in Confirmers, Check(c) PROVE TurnTaken'
  BY <1>5 DEF Check, Goto
<1>6. ASSUME NEW c \in Confirmers, ReadGroup(c) PROVE TurnTaken'
  BY <1>6 DEF ReadGroup, Goto
<1>7. ASSUME NEW c \in Confirmers, NEW r \in Requests, ReadRequest(c, r) PROVE TurnTaken'
  BY <1>7 DEF ReadRequest, Goto
<1>8. ASSUME NEW c \in Confirmers, CopyPhotos(c) PROVE TurnTaken'
  BY <1>8 DEF CopyPhotos, Goto
<1>9. ASSUME NEW c \in Confirmers, MarkPhotos(c) PROVE TurnTaken'
  BY <1>9 DEF MarkPhotos, Goto
<1>10. ASSUME NEW c \in Confirmers, DecideRequest(c) PROVE TurnTaken'
  BY <1>10 DEF DecideRequest, Goto
<1>11. ASSUME NEW c \in Confirmers, DecideGroup(c) PROVE TurnTaken'
  BY <1>11 DEF DecideGroup, Goto
<1>12. ASSUME NEW c \in Confirmers, Unstage(c) PROVE TurnTaken'
  BY <1>12 DEF Unstage, Goto
<1>13. ASSUME NEW c \in Confirmers, Cleanup(c) PROVE TurnTaken'
  BY <1>13 DEF Cleanup, CleanFinal, Goto
<1>14. ASSUME NEW c \in Confirmers, Commit(c) PROVE TurnTaken'
  BY <1>14 DEF Commit, StatusApproved, EndCall, Goto
<1>15. ASSUME NEW c \in Confirmers, DatabaseFault(c) PROVE TurnTaken'
  BY <1>15 DEF DatabaseFault, EndCall, Goto
<1>16. CASE UNCHANGED vars
  BY <1>16
<1> HIDE DEF TurnTaken, Types, TypeOK
<1>17. QED BY <1>1, <1>2, <1>2a, <1>3, <1>4, <1>5, <1>6, <1>7, <1>8, <1>9, <1>10, <1>11, <1>12,
      <1>13, <1>14, <1>15, <1>16 DEF Next, Step

\* A confirmation keeps its excuse as long as no transfer is committed.
LEMMA ExcuseFrame ==
  ASSUME Types, [Next]_vars, NEW o \in Confirmers, Excuse(o),
         photo'[o] = photo[o], uploaded' = uploaded, decided'[o] = decided[o]
  PROVE  Excuse(o)'
<1>1. GroupOfCall(o)' = GroupOfCall(o) /\ Sees(o)' = Sees(o)
  BY DEF GroupOfCall, Sees
<1>2. RequestsOf(GroupOfCall(o)) \subseteq RequestsOf(GroupOfCall(o))'
  BY <1>1, PastStep DEF RequestsOf
<1>3. CASE Decided(GroupOfCall(o))
  BY <1>1, <1>3, StaysDecided DEF Excuse
<1>4. CASE decided[o] # {}
  BY <1>4 DEF Excuse
<1>5. CASE Missed(o)
  BY <1>1, <1>2, <1>5 DEF Excuse, Missed
<1>6. QED BY <1>3, <1>4, <1>5 DEF Excuse

\* A check that fails finds the request decided or a photo missing.
LEMMA CheckFails ==
  ASSUME Types, NEW c \in Confirmers, Check(c), pc'[c] # "group",
         GroupOfCall(c) \in Groups
  PROVE  \/ reqStatus[RequestOf[photo[c]]] # "pending"
         \/ ~(PhotosOf(PendingOf(c)) \subseteq Sees(c))
<1>1. CASE AllArrived(c)
  BY <1>1, RequestsAssumption DEF Check, Goto, Types, TypeOK, AllArrived
<1>2. CASE ~AllArrived(c)
  BY <1>2 DEF AllArrived
<1>3. QED BY <1>1, <1>2

\* A confirmation approves, finds the group decided, or has not seen all its photos.
LEMMA ExcusedStep ==
  Types /\ ArrivedInv /\ PhotoInv /\ WorkInv /\ GroupInv /\ CopyInv /\ GroupsDecided /\
      TurnTaken /\ Excused /\ past' = {} /\ [Next]_vars => Excused'
<1> SUFFICES ASSUME Types /\ ArrivedInv /\ PhotoInv /\ WorkInv /\ GroupInv /\ CopyInv /\
    GroupsDecided /\ TurnTaken /\ Excused, past' = {}, [Next]_vars
             PROVE Excused'
  OBVIOUS
<1>0. past = {}
  BY PastStep
<1> USE <1>0, RequestsAssumption DEF Types, TypeOK
<1>1. ASSUME NEW r \in Requests, Register(r) PROVE Excused'
  <2> SUFFICES ASSUME NEW o \in Confirmers, pc'[o] \in {"cleanup", "commit"},
                      GroupOfCall(o)' \in Groups
               PROVE  Excuse(o)'
    BY DEF Excused
  <2>1. UNCHANGED <<photo, uploaded, pc, decided>>
    BY <1>1 DEF Register, Decisions!Register
  <2>2. Excuse(o)
    BY <2>1 DEF Excused, GroupOfCall
  <2>3. QED BY <2>1, <2>2, ExcuseFrame
<1>2. ASSUME NEW p \in Photos, Put(p) PROVE Excused'
  <2> SUFFICES ASSUME NEW o \in Confirmers, pc'[o] \in {"cleanup", "commit"},
                      GroupOfCall(o)' \in Groups
               PROVE  Excuse(o)'
    BY DEF Excused
  <2>1. UNCHANGED <<photo, uploaded, pc, decided>>
    BY <1>2 DEF Put
  <2>2. Excuse(o)
    BY <2>1 DEF Excused, GroupOfCall
  <2>3. QED BY <2>1, <2>2, ExcuseFrame
<1>2a. ASSUME NEW p \in Photos, Reconcile(p) PROVE Excused'
  <2> SUFFICES ASSUME NEW o \in Confirmers, pc'[o] \in {"cleanup", "commit"},
                      GroupOfCall(o)' \in Groups
               PROVE  Excuse(o)'
    BY DEF Excused
  <2>1. /\ UNCHANGED <<photo, pc, decided, registered>> /\ ~LastWord(p)
        /\ uploaded' = uploaded \cup {p}
    BY <1>2a DEF Reconcile
  <2>2. Excuse(o) /\ GroupOfCall(o)' = GroupOfCall(o)
    BY <2>1 DEF Excused, GroupOfCall
  <2>3. CASE Decided(GroupOfCall(o))
    BY <2>2, <2>3, StaysDecided DEF Excuse
  <2>4. CASE decided[o] # {}
    BY <2>1, <2>4 DEF Excuse
  <2>5. CASE Missed(o)
    <3>1. PICK q \in Photos : RequestOf[q] \in RequestsOf(GroupOfCall(o)) /\ q \notin Sees(o)
      BY <2>5 DEF Missed
    <3>2. GroupOf[RequestOf[p]] # GroupOfCall(o)
      BY <2>1 DEF LastWord
    <3>3. q # p
      BY <3>1, <3>2 DEF RequestsOf
    <3>4. q \notin Sees(o)'
      BY <2>1, <3>1, <3>3 DEF Sees
    <3>5. RequestOf[q] \in RequestsOf(GroupOfCall(o))'
      BY <2>1, <2>2, <3>1 DEF RequestsOf
    <3>6. QED BY <3>1, <3>4, <3>5 DEF Excuse, Missed
  <2>6. QED BY <2>2, <2>3, <2>4, <2>5 DEF Excuse
<1>3. ASSUME NEW S \in SUBSET Requests, NEW g \in Groups \cup {NoGroup},
      NEW v \in {"approved", "rejected"}, Review(S, g, v)
      PROVE Excused'
  BY <1>3 DEF Review
<1>4. ASSUME NEW c \in Confirmers, NEW p \in Photos, Confirm(c, p) PROVE Excused'
  <2> SUFFICES ASSUME NEW o \in Confirmers, pc'[o] \in {"cleanup", "commit"},
                      GroupOfCall(o)' \in Groups
               PROVE  Excuse(o)'
    BY DEF Excused
  <2>1. CASE o # c
    <3>1. /\ photo'[o] = photo[o] /\ uploaded' = uploaded
          /\ pc'[o] = pc[o] /\ decided'[o] = decided[o]
      BY <1>4, <2>1 DEF Confirm, Goto
    <3>2. Excuse(o)
      BY <3>1 DEF Excused, GroupOfCall
    <3>3. QED BY <3>1, <3>2, ExcuseFrame
  <2>2. CASE o = c
    <3>1. pc'[c] \notin {"cleanup", "commit"}
      BY <1>4 DEF Confirm, Goto
    <3>2. QED BY <2>2, <3>1
  <2>3. QED BY <2>1, <2>2
<1>5. ASSUME NEW c \in Confirmers, Check(c) PROVE Excused'
  <2> SUFFICES ASSUME NEW o \in Confirmers, pc'[o] \in {"cleanup", "commit"},
                      GroupOfCall(o)' \in Groups
               PROVE  Excuse(o)'
    BY DEF Excused
  <2>1. CASE o # c
    <3>1. /\ photo'[o] = photo[o] /\ uploaded' = uploaded
          /\ pc'[o] = pc[o] /\ decided'[o] = decided[o]
      BY <1>5, <2>1 DEF Check, Goto
    <3>2. Excuse(o)
      BY <3>1 DEF Excused, GroupOfCall
    <3>3. QED BY <3>1, <3>2, ExcuseFrame
  <2>2. CASE o = c
    <3>1. photo' = photo /\ uploaded' = uploaded /\ decided' = decided
      BY <1>5 DEF Check, Goto
    <3>2. GroupOfCall(c) \in Groups
      BY <2>2, <3>1 DEF GroupOfCall
    <3>3. Excuse(c)
      <4>1. \/ reqStatus[RequestOf[photo[c]]] # "pending"
            \/ ~(PhotosOf(PendingOf(c)) \subseteq Sees(c))
        <5>1. pc'[c] # "group"
          BY <2>2
        <5>2. QED BY <1>5, <3>2, <5>1, CheckFails
      <4>2. RequestOf[photo[c]] \in RequestsOf(GroupOfCall(c))
        BY <1>5 DEF Check, PhotoInv, RequestsOf, GroupOfCall
      <4>3. CASE reqStatus[RequestOf[photo[c]]] # "pending"
        BY <4>2, <4>3 DEF Excuse, Decided
      <4>4. CASE ~(PhotosOf(PendingOf(c)) \subseteq Sees(c))
        BY <4>4 DEF Excuse, Missed, PhotosOf, PendingOf
      <4>5. QED BY <4>1, <4>3, <4>4
    <3>4. QED BY <2>2, <3>1, <3>3, ExcuseFrame
  <2>3. QED BY <2>1, <2>2
<1>6. ASSUME NEW c \in Confirmers, ReadGroup(c) PROVE Excused'
  <2> SUFFICES ASSUME NEW o \in Confirmers, pc'[o] \in {"cleanup", "commit"},
                      GroupOfCall(o)' \in Groups
               PROVE  Excuse(o)'
    BY DEF Excused
  <2>1. CASE o # c
    <3>1. /\ photo'[o] = photo[o] /\ uploaded' = uploaded
          /\ pc'[o] = pc[o] /\ decided'[o] = decided[o]
      BY <1>6, <2>1 DEF ReadGroup, Goto
    <3>2. Excuse(o)
      BY <3>1 DEF Excused, GroupOfCall
    <3>3. QED BY <3>1, <3>2, ExcuseFrame
  <2>2. CASE o = c
    <3>1. photo' = photo /\ uploaded' = uploaded /\ decided' = decided
      BY <1>6 DEF ReadGroup, Goto
    <3>2. GroupOfCall(c) \in Groups
      BY <2>2, <3>1 DEF GroupOfCall
    <3>3. Excuse(c)
      <4>1. groupStatus[GroupOfCall(c)] # "pending" \/ PendingOf(c) # RequestsOf(GroupOfCall(c))
        BY <1>6, <2>2 DEF ReadGroup, Goto
      <4>2. CASE groupStatus[GroupOfCall(c)] # "pending"
        BY <3>2, <4>2 DEF Excuse, GroupsDecided
      <4>3. CASE PendingOf(c) # RequestsOf(GroupOfCall(c))
        BY <4>3 DEF Excuse, Decided, PendingOf
      <4>4. QED BY <4>1, <4>2, <4>3
    <3>4. QED BY <2>2, <3>1, <3>3, ExcuseFrame
  <2>3. QED BY <2>1, <2>2
<1>7. ASSUME NEW c \in Confirmers, NEW r \in Requests, ReadRequest(c, r) PROVE Excused'
  <2> SUFFICES ASSUME NEW o \in Confirmers, pc'[o] \in {"cleanup", "commit"},
                      GroupOfCall(o)' \in Groups
               PROVE  Excuse(o)'
    BY DEF Excused
  <2>1. CASE o # c
    <3>1. /\ photo'[o] = photo[o] /\ uploaded' = uploaded
          /\ pc'[o] = pc[o] /\ decided'[o] = decided[o]
      BY <1>7, <2>1 DEF ReadRequest, Goto
    <3>2. Excuse(o)
      BY <3>1 DEF Excused, GroupOfCall
    <3>3. QED BY <3>1, <3>2, ExcuseFrame
  <2>2. CASE o = c
    <3>1. photo' = photo /\ uploaded' = uploaded /\ decided' = decided
      BY <1>7 DEF ReadRequest, Goto
    <3>2. GroupOfCall(c) \in Groups
      BY <2>2, <3>1 DEF GroupOfCall
    <3>3. Excuse(c)
      <4>1. r \in RequestsOf(GroupOfCall(c))
        BY <1>7 DEF ReadRequest, WorkInv
      <4>2. reqStatus[r] # "pending" \/ ~(PhotosOf({r}) \subseteq Sees(c))
        BY <1>7, <2>2 DEF ReadRequest, Goto
      <4>3. CASE reqStatus[r] # "pending"
        BY <4>1, <4>3 DEF Excuse, Decided
      <4>4. CASE ~(PhotosOf({r}) \subseteq Sees(c))
        BY <4>1, <4>4 DEF Excuse, Missed, PhotosOf
      <4>5. QED BY <4>2, <4>3, <4>4
    <3>4. QED BY <2>2, <3>1, <3>3, ExcuseFrame
  <2>3. QED BY <2>1, <2>2
<1>8. ASSUME NEW c \in Confirmers, CopyPhotos(c) PROVE Excused'
  <2> SUFFICES ASSUME NEW o \in Confirmers, pc'[o] \in {"cleanup", "commit"},
                      GroupOfCall(o)' \in Groups
               PROVE  Excuse(o)'
    BY DEF Excused
  <2>1. CASE o # c
    <3>1. /\ photo'[o] = photo[o] /\ uploaded' = uploaded
          /\ pc'[o] = pc[o] /\ decided'[o] = decided[o]
      BY <1>8, <2>1 DEF CopyPhotos, Goto
    <3>2. Excuse(o)
      BY <3>1 DEF Excused, GroupOfCall
    <3>3. QED BY <3>1, <3>2, ExcuseFrame
  <2>2. CASE o = c
    <3>1. pc[c] = "photos" /\ ~(PhotosOf({cur[c]}) \subseteq staging)
      BY <1>8, <2>2 DEF CopyPhotos, Goto
    <3>2. PICK p \in Photos : RequestOf[p] = cur[c] /\ p \notin staging
      BY <3>1 DEF PhotosOf
    <3>3. cur[c] \in todo[c] /\ p \in Sees(c) /\ cur[c] \in RequestsOf(GroupOfCall(c))
      BY <3>1, <3>2 DEF WorkInv, AtRequest, PhotosOf
    <3>4. reqStatus[cur[c]] = "pending"
      BY <3>1, <3>3 DEF GroupInv, Undisturbed, Undecided, Engaged, Approving
    <3>5. p \in Arrived
      BY <3>1, <3>3 DEF Sees, Arrived
    <3>6. Leaving(p)
      BY <3>2, <3>4, <3>5 DEF CopyInv, Kept
    <3>7. PICK q \in Confirmers : pc[q] = "commit" /\ cur[c] \in decided[q]
      BY <3>2, <3>6 DEF Leaving
    <3>8. cur[c] \in RequestsOf(GroupOfCall(q))
      BY <3>7 DEF WorkInv
    <3>9. GroupOfCall(q) = GroupOfCall(c)
      BY <3>3, <3>8 DEF RequestsOf
    <3>10. q = c
      BY <3>1, <3>7, <3>9 DEF TurnTaken
    <3>11. QED BY <3>1, <3>7, <3>10
  <2>3. QED BY <2>1, <2>2
<1>9. ASSUME NEW c \in Confirmers, MarkPhotos(c) PROVE Excused'
  <2> SUFFICES ASSUME NEW o \in Confirmers, pc'[o] \in {"cleanup", "commit"},
                      GroupOfCall(o)' \in Groups
               PROVE  Excuse(o)'
    BY DEF Excused
  <2>1. CASE o # c
    <3>1. /\ photo'[o] = photo[o] /\ uploaded' = uploaded
          /\ pc'[o] = pc[o] /\ decided'[o] = decided[o]
      BY <1>9, <2>1 DEF MarkPhotos, Goto
    <3>2. Excuse(o)
      BY <3>1 DEF Excused, GroupOfCall
    <3>3. QED BY <3>1, <3>2, ExcuseFrame
  <2>2. CASE o = c
    <3>1. pc'[c] \notin {"cleanup", "commit"}
      BY <1>9 DEF MarkPhotos, Goto
    <3>2. QED BY <2>2, <3>1
  <2>3. QED BY <2>1, <2>2
<1>10. ASSUME NEW c \in Confirmers, DecideRequest(c) PROVE Excused'
  <2> SUFFICES ASSUME NEW o \in Confirmers, pc'[o] \in {"cleanup", "commit"},
                      GroupOfCall(o)' \in Groups
               PROVE  Excuse(o)'
    BY DEF Excused
  <2>1. CASE o # c
    <3>1. /\ photo'[o] = photo[o] /\ uploaded' = uploaded
          /\ pc'[o] = pc[o] /\ decided'[o] = decided[o]
      BY <1>10, <2>1 DEF DecideRequest, Goto
    <3>2. Excuse(o)
      BY <3>1 DEF Excused, GroupOfCall
    <3>3. QED BY <3>1, <3>2, ExcuseFrame
  <2>2. CASE o = c
    <3>1. pc[c] = "decide" /\ reqStatus[cur[c]] # "pending"
      BY <1>10, <2>2 DEF DecideRequest, Goto
    <3>2. cur[c] \in todo[c]
      BY <3>1 DEF WorkInv, AtRequest
    <3>3. QED
      BY <3>1, <3>2 DEF GroupInv, Undisturbed, Undecided, Engaged, Approving
  <2>3. QED BY <2>1, <2>2
<1>11. ASSUME NEW c \in Confirmers, DecideGroup(c) PROVE Excused'
  <2> SUFFICES ASSUME NEW o \in Confirmers, pc'[o] \in {"cleanup", "commit"},
                      GroupOfCall(o)' \in Groups
               PROVE  Excuse(o)'
    BY DEF Excused
  <2>1. CASE o # c
    <3>1. /\ photo'[o] = photo[o] /\ uploaded' = uploaded
          /\ pc'[o] = pc[o] /\ decided'[o] = decided[o]
      BY <1>11, <2>1 DEF DecideGroup, Goto
    <3>2. Excuse(o)
      BY <3>1 DEF Excused, GroupOfCall
    <3>3. QED BY <3>1, <3>2, ExcuseFrame
  <2>2. CASE o = c
    <3>1. decided[c] # {} /\ decided' = decided
      BY <1>11 DEF DecideGroup, WorkInv
    <3>2. QED BY <2>2, <3>1 DEF Excuse
  <2>3. QED BY <2>1, <2>2
<1>12. ASSUME NEW c \in Confirmers, Unstage(c) PROVE Excused'
  <2> SUFFICES ASSUME NEW o \in Confirmers, pc'[o] \in {"cleanup", "commit"},
                      GroupOfCall(o)' \in Groups
               PROVE  Excuse(o)'
    BY DEF Excused
  <2>1. CASE o # c
    <3>1. /\ photo'[o] = photo[o] /\ uploaded' = uploaded
          /\ pc'[o] = pc[o] /\ decided'[o] = decided[o]
      BY <1>12, <2>1 DEF Unstage, Goto
    <3>2. Excuse(o)
      BY <3>1 DEF Excused, GroupOfCall
    <3>3. QED BY <3>1, <3>2, ExcuseFrame
  <2>2. CASE o = c
    <3>1. decided[c] # {} /\ decided' = decided
      BY <1>12 DEF Unstage, WorkInv
    <3>2. QED BY <2>2, <3>1 DEF Excuse
  <2>3. QED BY <2>1, <2>2
<1>13. ASSUME NEW c \in Confirmers, Cleanup(c) PROVE Excused'
  <2> SUFFICES ASSUME NEW o \in Confirmers, pc'[o] \in {"cleanup", "commit"},
                      GroupOfCall(o)' \in Groups
               PROVE  Excuse(o)'
    BY DEF Excused
  <2>1. CASE o # c
    <3>1. /\ photo'[o] = photo[o] /\ uploaded' = uploaded
          /\ pc'[o] = pc[o] /\ decided'[o] = decided[o]
      BY <1>13, <2>1 DEF Cleanup, CleanFinal, Goto
    <3>2. Excuse(o)
      BY <3>1 DEF Excused, GroupOfCall
    <3>3. QED BY <3>1, <3>2, ExcuseFrame
  <2>2. CASE o = c
    <3>1. photo' = photo /\ uploaded' = uploaded /\ decided' = decided
      BY <1>13 DEF Cleanup, CleanFinal, Goto
    <3>2. GroupOfCall(c) \in Groups
      BY <2>2, <3>1 DEF GroupOfCall
    <3>3. Excuse(c)
      BY <1>13, <3>2 DEF Cleanup, Excused
    <3>4. QED BY <2>2, <3>1, <3>3, ExcuseFrame
  <2>3. QED BY <2>1, <2>2
<1>14. ASSUME NEW c \in Confirmers, Commit(c) PROVE Excused'
  <2> SUFFICES ASSUME NEW o \in Confirmers, pc'[o] \in {"cleanup", "commit"},
                      GroupOfCall(o)' \in Groups
               PROVE  Excuse(o)'
    BY DEF Excused
  <2>1. o # c /\ pc[o] = pc'[o] /\ photo'[o] = photo[o] /\ decided'[o] = decided[o]
    BY <1>14 DEF Commit, StatusApproved, EndCall, Goto
  <2>2. Excuse(o) /\ GroupOfCall(o)' = GroupOfCall(o)
    BY <2>1 DEF Excused, GroupOfCall
  <2>3. CASE Decided(GroupOfCall(o))
    BY <2>2, <2>3, StaysDecided DEF Excuse
  <2>4. CASE decided[o] # {}
    BY <2>1, <2>4 DEF Excuse
  <2>5. CASE Missed(o)
    <3>1. PICK p \in Photos : RequestOf[p] \in RequestsOf(GroupOfCall(o)) /\ p \notin Sees(o)
      BY <2>5 DEF Missed
    <3>2. GroupOfCall(c) # GroupOfCall(o)
      BY <1>14, <2>1 DEF Commit, TurnTaken
    <3>3. p # photo[c]
      BY <3>1, <3>2 DEF RequestsOf, GroupOfCall
    <3>4. uploaded' = uploaded \cup {photo[c]} /\ registered' = registered
      BY <1>14 DEF Commit
    <3>5. p \notin Sees(o)'
      BY <2>1, <3>1, <3>3, <3>4 DEF Sees
    <3>6. RequestOf[p] \in RequestsOf(GroupOfCall(o))'
      BY <2>2, <3>1, <3>4 DEF RequestsOf
    <3>7. QED BY <3>1, <3>5, <3>6 DEF Excuse, Missed
  <2>6. QED BY <2>2, <2>3, <2>4, <2>5 DEF Excuse
<1>15. ASSUME NEW c \in Confirmers, DatabaseFault(c) PROVE Excused'
  <2> SUFFICES ASSUME NEW o \in Confirmers, pc'[o] \in {"cleanup", "commit"},
                      GroupOfCall(o)' \in Groups
               PROVE  Excuse(o)'
    BY DEF Excused
  <2>1. CASE o # c
    <3>1. /\ photo'[o] = photo[o] /\ uploaded' = uploaded
          /\ pc'[o] = pc[o] /\ decided'[o] = decided[o]
      BY <1>15, <2>1 DEF DatabaseFault, EndCall, Goto
    <3>2. Excuse(o)
      BY <3>1 DEF Excused, GroupOfCall
    <3>3. QED BY <3>1, <3>2, ExcuseFrame
  <2>2. CASE o = c
    <3>1. pc'[c] \notin {"cleanup", "commit"}
      BY <1>15 DEF DatabaseFault, EndCall, Goto
    <3>2. QED BY <2>2, <3>1
  <2>3. QED BY <2>1, <2>2
<1>16. CASE UNCHANGED vars
  <2> SUFFICES ASSUME NEW o \in Confirmers, pc'[o] \in {"cleanup", "commit"},
                      GroupOfCall(o)' \in Groups
               PROVE  Excuse(o)'
    BY DEF Excused
  <2>1. UNCHANGED <<photo, uploaded, pc, decided>>
    BY <1>16
  <2>2. Excuse(o)
    BY <2>1 DEF Excused, GroupOfCall
  <2>3. QED BY <2>1, <2>2, ExcuseFrame
<1> HIDE DEF Types, TypeOK
<1>17. QED BY <1>1, <1>2, <1>2a, <1>3, <1>4, <1>5, <1>6, <1>7, <1>8, <1>9, <1>10, <1>11, <1>12,
      <1>13, <1>14, <1>15, <1>16 DEF Next, Step

\* Nobody commits the last photo of a group without a decision.
LEMMA FullStep ==
  Types /\ ArrivedInv /\ PhotoInv /\ WorkInv /\ Excused /\ FullDecided /\ past' = {} /\
      [Next]_vars => FullDecided'
<1> SUFFICES ASSUME Types /\ ArrivedInv /\ PhotoInv /\ WorkInv /\ Excused /\ FullDecided,
      past' = {}, [Next]_vars
             PROVE FullDecided'
  OBVIOUS
<1>0. past = {}
  BY PastStep
<1> USE <1>0, RequestsAssumption, StaysDecided DEF Types, TypeOK, FullDecided
<1>1. ASSUME NEW r \in Requests, Register(r) PROVE FullDecided'
  <2> SUFFICES ASSUME NEW g \in Groups, PhotosOf(RequestsOf(g))' # {},
                      PhotosOf(RequestsOf(g))' \subseteq uploaded'
               PROVE  Decided(g)'
    BY DEF FullDecided
  <2>1. r \notin registered /\ registered' = registered \cup {r} /\ uploaded' = uploaded
    BY <1>1 DEF Register, Decisions!Register
  <2>2. \A p \in uploaded : RequestOf[p] # r
    BY <2>1 DEF ArrivedInv
  <2>3. PhotosOf(RequestsOf(g))' = PhotosOf(RequestsOf(g))
    BY <2>1, <2>2 DEF PhotosOf, RequestsOf
  <2>4. Decided(g)
    BY <2>1, <2>3
  <2>5. QED BY <2>4
<1>2. ASSUME NEW p \in Photos, Put(p) PROVE FullDecided'
  BY <1>2 DEF Put, RequestsOf, PhotosOf
<1>2a. ASSUME NEW p \in Photos, Reconcile(p) PROVE FullDecided'
  <2> SUFFICES ASSUME NEW g \in Groups, PhotosOf(RequestsOf(g))' # {},
                      PhotosOf(RequestsOf(g))' \subseteq uploaded'
               PROVE  Decided(g)'
    BY DEF FullDecided
  <2>1. ~LastWord(p) /\ uploaded' = uploaded \cup {p} /\ registered' = registered
    BY <1>2a DEF Reconcile
  <2>2. PhotosOf(RequestsOf(g))' = PhotosOf(RequestsOf(g))
    BY <2>1 DEF PhotosOf, RequestsOf
  <2>3. GroupOf[RequestOf[p]] # g
    BY <2>1, <2>2 DEF LastWord
  <2>4. p \notin PhotosOf(RequestsOf(g))
    BY <2>3 DEF PhotosOf, RequestsOf
  <2>5. Decided(g)
    BY <2>1, <2>2, <2>4
  <2>6. QED BY <2>5
<1>3. ASSUME NEW S \in SUBSET Requests, NEW g \in Groups \cup {NoGroup},
      NEW v \in {"approved", "rejected"}, Review(S, g, v)
      PROVE FullDecided'
  BY <1>3 DEF Review
<1>4. ASSUME NEW c \in Confirmers, NEW p \in Photos, Confirm(c, p) PROVE FullDecided'
  BY <1>4 DEF Confirm, Goto, RequestsOf, PhotosOf
<1>5. ASSUME NEW c \in Confirmers, Check(c) PROVE FullDecided'
  BY <1>5 DEF Check, Goto, RequestsOf, PhotosOf
<1>6. ASSUME NEW c \in Confirmers, ReadGroup(c) PROVE FullDecided'
  BY <1>6 DEF ReadGroup, Goto, RequestsOf, PhotosOf
<1>7. ASSUME NEW c \in Confirmers, NEW r \in Requests, ReadRequest(c, r) PROVE FullDecided'
  BY <1>7 DEF ReadRequest, Goto, RequestsOf, PhotosOf
<1>8. ASSUME NEW c \in Confirmers, CopyPhotos(c) PROVE FullDecided'
  BY <1>8 DEF CopyPhotos, Goto, RequestsOf, PhotosOf
<1>9. ASSUME NEW c \in Confirmers, MarkPhotos(c) PROVE FullDecided'
  BY <1>9 DEF MarkPhotos, Goto, RequestsOf, PhotosOf
<1>10. ASSUME NEW c \in Confirmers, DecideRequest(c) PROVE FullDecided'
  BY <1>10 DEF DecideRequest, Goto, RequestsOf, PhotosOf
<1>11. ASSUME NEW c \in Confirmers, DecideGroup(c) PROVE FullDecided'
  BY <1>11 DEF DecideGroup, Goto, RequestsOf, PhotosOf
<1>12. ASSUME NEW c \in Confirmers, Unstage(c) PROVE FullDecided'
  BY <1>12 DEF Unstage, Goto, RequestsOf, PhotosOf
<1>13. ASSUME NEW c \in Confirmers, Cleanup(c) PROVE FullDecided'
  BY <1>13 DEF Cleanup, CleanFinal, Goto, RequestsOf, PhotosOf
<1>14. ASSUME NEW c \in Confirmers, Commit(c) PROVE FullDecided'
  <2> SUFFICES ASSUME NEW g \in Groups, PhotosOf(RequestsOf(g))' # {},
                      PhotosOf(RequestsOf(g))' \subseteq uploaded'
               PROVE  Decided(g)'
    BY DEF FullDecided
  <2>1. /\ pc[c] = "commit" /\ registered' = registered /\ photo[c] \in Photos
        /\ uploaded' = uploaded \cup {photo[c]}
    BY <1>14 DEF Commit, PhotoInv
  <2>2. PhotosOf(RequestsOf(g))' = PhotosOf(RequestsOf(g))
    BY <2>1 DEF PhotosOf, RequestsOf
  <2>3. CASE Decided(g)
    BY <2>3
  <2>4. CASE ~Decided(g)
    <3>1. photo[c] \in PhotosOf(RequestsOf(g))
      BY <2>1, <2>2, <2>4
    <3>2. GroupOfCall(c) = g
      BY <3>1 DEF PhotosOf, RequestsOf, GroupOfCall
    <3>3. PhotosOf(RequestsOf(g)) \subseteq Sees(c)
      BY <2>1, <2>2 DEF Sees
    <3>4. ~Missed(c)
      BY <3>2, <3>3 DEF Missed, PhotosOf
    <3>5. decided[c] # {} /\ decided[c] \subseteq RequestsOf(g)
      BY <2>1, <2>4, <3>2, <3>4 DEF Excused, Excuse, WorkInv
    <3>6. \A r \in decided[c] : r \in RequestsOf(g)' /\ reqStatus'[r] = "approved"
      BY <1>14, <3>5 DEF Commit, StatusApproved, RequestsOf
    <3>7. QED BY <3>5, <3>6 DEF Decided
  <2>5. QED BY <2>3, <2>4
<1>15. ASSUME NEW c \in Confirmers, DatabaseFault(c) PROVE FullDecided'
  BY <1>15 DEF DatabaseFault, EndCall, Goto, RequestsOf, PhotosOf
<1>16. CASE UNCHANGED vars
  BY <1>16 DEF RequestsOf, PhotosOf
<1> HIDE DEF FullDecided, Types, TypeOK
<1>17. QED BY <1>1, <1>2, <1>2a, <1>3, <1>4, <1>5, <1>6, <1>7, <1>8, <1>9, <1>10, <1>11, <1>12,
      <1>13, <1>14, <1>15, <1>16 DEF Next, Step

\* What has happened ends the claims about turns.
LEMMA TurnStep == ApproveInv /\ [Next]_vars => TurnInv'
<1> SUFFICES ASSUME ApproveInv, [Next]_vars PROVE TurnInv'
  OBVIOUS
<1> USE DEF ApproveInv
<1> SUFFICES ASSUME past' = {} PROVE TurnInv'
  BY DEF TurnInv
<1>1. past = {}
  BY PastStep
<1>2. GroupsDecided /\ TurnTaken /\ Excused /\ FullDecided
  BY <1>1 DEF TurnInv
<1>3. QED BY <1>2, GroupsStep, TakenStep, ExcusedStep, FullStep DEF TurnInv


-----------------------------------------------------------------------------
(*****************************************************************************)
(* The theorems.                                                            *)
(*****************************************************************************)
\* The system starts within the invariant.
LEMMA InitApproveInv == Init => ApproveInv
<1> SUFFICES ASSUME Init PROVE ApproveInv
  OBVIOUS
<1> USE DEF Init, Decisions!Init
<1>1. Types
  BY DEF Types, TypeOK, Labels, Statuses
<1>2. ArrivedInv /\ PhotoInv
  BY DEF ArrivedInv, PhotoInv
<1>3. WorkInv
  BY DEF WorkInv, Engaged, Approving, AtRequest
<1>4. GroupInv /\ CopyInv
  BY DEF GroupInv, Engaged, Approving, CopyInv, CopiesKept, Arrived
<1>5. DecidedTogether /\ RowsAreUploaded
  BY RequestsAssumption DEF DecidedTogether, RowsAreUploaded
<1>6. TurnInv
  BY DEF TurnInv, GroupsDecided, TurnTaken, Excused, FullDecided, PhotosOf,
     RequestsOf
<1>7. QED BY <1>1, <1>2, <1>3, <1>4, <1>5, <1>6 DEF ApproveInv

\* ApproveInv is inductive: confirmations that approve, reviewers, failures and
\* the exceptions that are swallowed never lead out of it.
THEOREM ApproveInvariant == Spec => []ApproveInv
<1>1. Init => ApproveInv
  BY InitApproveInv
<1>2. ApproveInv /\ [Next]_vars => ApproveInv'
  BY TypeStep, ArrivedStep, PhotoStep, WorkStep, GroupStep, DecidedStep, RowsStep,
     CopyStep, TurnStep DEF ApproveInv
<1>3. QED BY <1>1, <1>2, PTL DEF Spec

\* The state stays well typed; and, until a reviewer interferes, no two
\* confirmations approve one group and every request is approved whole or not at
\* all; a row of photos never precedes the commit of its transfer.
THEOREM GroupsStayWhole == Spec => []Inv
<1>1. ApproveInv => ApprovalsApart
  BY DEF ApproveInv, GroupInv, Undisturbed, Alone, Engaged, ApprovalsApart
<1>2. ApproveInv => Inv
  BY <1>1 DEF ApproveInv, Types, Inv
<1>3. QED BY <1>2, ApproveInvariant, PTL

\* Until the broker fails or a reviewer interferes every uploaded photo has an
\* object: whatever the swallowed failure of an approval deletes there is a copy of.
THEOREM CopiesRemain == Spec => []CopyRemains
<1>1. ApproveInv => CopyRemains
  BY DEF ApproveInv, CopyInv, Kept, Arrived, CopyRemains
<1>2. QED BY <1>1, ApproveInvariant, PTL

\* A group whose photos have all been confirmed has been decided, unless two
\* confirmations overlapped, a step failed, a reviewer interfered, the caller of a
\* confirmation may not approve the group, or the reconciler had the last word on it.
THEOREM FullGroupsDecided == Spec => []AutoApproved
<1>1. ApproveInv => AutoApproved
  BY DEF ApproveInv, TurnInv, FullDecided, Decided, AutoApproved
<1>2. QED BY <1>1, ApproveInvariant, PTL

\* The commit of a confirmation approves requests, whole: they and their photos were
\* undecided, each photo gets its one row, and its transfer is committed with it.
ApprovesWhole(c) ==
  /\ Commit(c)
  /\ \A r \in decided[c] :
       /\ reqStatus[r] = "pending" /\ reqStatus'[r] = "approved"
       /\ \A p \in PhotosOf({r}) :
            /\ photoStatus[p] = "staged" /\ photoStatus'[p] = "approved"
            /\ rows[p] = 0 /\ rows'[p] = 1
            /\ p \in uploaded'
ApprovedAtOnce ==
  Undisturbed' => \A r \in Requests :
    reqStatus'[r] # reqStatus[r] => \E c \in Confirmers : r \in decided[c] /\ ApprovesWhole(c)

\* Until a reviewer interferes a request is decided once, by the commit of one
\* confirmation and with all its photos, whatever that confirmation has swallowed: what
\* is approved stays approved, and no second confirmation adds to its rows.
THEOREM AutoApprovalIsOneStep == Spec => [][ApprovedAtOnce]_vars
<1>1. ASSUME ApproveInv, ApproveInv', Next, Undisturbed', NEW r \in Requests,
             reqStatus'[r] # reqStatus[r]
      PROVE  \E c \in Confirmers : r \in decided[c] /\ ApprovesWhole(c)
  <2> USE <1>1, RequestsAssumption
  <2>1. Undisturbed
    <3>1. past \subseteq past'
      BY PastStep DEF ApproveInv
    <3>2. QED BY <3>1 DEF Undisturbed
  <2>2. PICK c \in Confirmers : Commit(c)
    BY DEF Next, Step, Register, Decisions!Register, Put, Reconcile, Review, Undisturbed, Confirm, Check,
       ReadGroup, ReadRequest, CopyPhotos, MarkPhotos, DecideRequest, DecideGroup, Unstage,
       Cleanup, DatabaseFault
  <2>3. r \in decided[c]
    BY <2>2 DEF Commit
  <2>4. decided[c] \subseteq copied[c] /\ decided[c] \subseteq Requests /\ Engaged(c)
    BY <2>3 DEF ApproveInv, Types, TypeOK, WorkInv, Engaged
  <2>5. ASSUME NEW q \in decided[c] PROVE reqStatus[q] = "pending" /\ reqStatus'[q] = "approved"
    BY <2>1, <2>2, <2>4, <2>5 DEF ApproveInv, GroupInv, Undecided, Commit, StatusApproved
  <2>6. ASSUME NEW q \in decided[c], NEW p \in PhotosOf({q})
        PROVE  /\ photoStatus[p] = "staged" /\ photoStatus'[p] = "approved"
               /\ rows[p] = 0 /\ rows'[p] = 1 /\ p \in uploaded'
    <3>1. p \in Photos /\ RequestOf[p] = q
      BY DEF PhotosOf
    <3>2. QED BY <2>1, <2>5, <3>1 DEF ApproveInv, DecidedTogether, Undisturbed
  <2>7. QED BY <2>2, <2>3, <2>5, <2>6 DEF ApprovesWhole
<1>2. ApproveInv /\ ApproveInv' /\ [Next]_vars => [ApprovedAtOnce]_vars
  BY <1>1 DEF ApprovedAtOnce
<1>3. QED BY <1>2, ApproveInvariant, PTL DEF Spec
=============================================================================
