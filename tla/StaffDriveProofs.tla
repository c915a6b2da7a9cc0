--------------------------- MODULE StaffDriveProofs ---------------------------
(***************************************************************************)
(* Proofs about StaffDrive, for any set of calls, any TTL and interval     *)
(* with LeaseAssumption, and any number of calls and of redirections; and  *)
(* about PhotoRetention, for any photos, workers, limit of a pass and      *)
(* failures.                                                               *)
(***************************************************************************)
EXTENDS StaffDrive, PhotoRetention, FiniteSetTheorems, TLAPS

\* The labels at which a call has the lock and its heartbeat runs.
Holding == Critical \cup {"release"}

\* A call that has the lock has not lost it: what is left of the TTL is at least
\* what the beats it has missed and the time since the last one have not used up;
\* and from the GET of its release a tick at most has passed.
LeaseInv ==
  /\ \A c \in Calls : pc[c] \in Holding =>
       owner = c /\ c \in beating /\ ttl + missed[c] * BeatEvery + clock[c] >= LockTtl
  /\ \A c \in beating : pc[c] \in Holding
  /\ \A c \in Calls : pc[c] = "unlock" => owner = c /\ ttl + clock[c] >= 2 /\ clock[c] <= 1

\* Of the folders there is one at most; whoever has found a folder has found that
\* one, whoever is about to make it knows that there is none, and nobody uploads
\* without one.
FolderInv ==
  /\ folders \in {{}, {1}}
  /\ cache # None => cache \in folders
  /\ \A c \in Calls : folder[c] # None => folder[c] \in folders
  /\ \A c \in Calls : pc[c] = "create" => folders = {}
  /\ \A c \in Calls : pc[c] = "use" /\ kind[c] = "upload" => folder[c] # None
  /\ (\E c \in Calls : pc[c] # "idle") => MaxCalls > 0

DriveInv == TypeOK /\ LeaseInv /\ FolderInv

\* The part of TypeOK that is about calls.
Kinds == {"none", "upload", "browse", "callback", "disconnect"}
Labels == Critical \cup {"idle", "state", "redeem", "exchange", "status", "renew", "save", "revoke",
                         "use", "commit", "cached", "lock", "release", "unlock", "failed"}
CallsType ==
  /\ kind \in [Calls -> Kinds] /\ pc \in [Calls -> Labels]
  /\ link \in [Calls -> Links \cup {None}] /\ write \in [Calls -> Rows \cup {None}]
  /\ folder \in [Calls -> Folders \cup {None}] /\ beating \subseteq Calls
  /\ clock \in [Calls -> 0..BeatEvery] /\ missed \in [Calls -> 0..MaxMisses]

\* A disconnected connection is inactive, and no renewal of its token is under way.
OffInv ==
  /\ \A c \in Calls : pc[c] = "idle" => write[c] = None
  /\ \A c \in Calls : pc[c] \in {"state", "redeem", "exchange"} => kind[c] = "callback"
  /\ \A c \in Calls : kind[c] = "disconnect" =>
       pc[c] \in {"status", "revoke", "commit"} /\ (write[c] # None => ~write[c].active)
  /\ off => /\ ~row.active
            /\ \A c \in Calls : kind[c] \notin {"callback", "disconnect"} =>
                 pc[c] \notin {"renew", "save"} /\ write[c] = None


USE DEF vars, shared, lock, drive, call, timers

-----------------------------------------------------------------------------
(***************************************************************************)
(* Typing.                                                                 *)
(***************************************************************************)
\* The end of a transaction leaves what is kept of its call well typed.
LEMMA EndTxType ==
  ASSUME TypeOK, NEW c \in Calls, EndTx(c)
  PROVE  CallsType'
<1> USE DEF TypeOK, CallsType, EndTx, Goto
<1>1. kind' \in [Calls -> Kinds] /\ pc' \in [Calls -> Labels]
  BY DEF Kinds, Labels
<1>2. link' \in [Calls -> Links \cup {None}] /\ write' \in [Calls -> Rows \cup {None}]
  OBVIOUS
<1>3. folder' \in [Calls -> Folders \cup {None}] /\ beating' \subseteq Calls
  OBVIOUS
<1>4. clock' \in [Calls -> 0..BeatEvery] /\ missed' \in [Calls -> 0..MaxMisses]
  BY LeaseAssumption
<1>5. QED BY <1>1, <1>2, <1>3, <1>4

\* An exception leaves everything well typed.
LEMMA RefuseType ==
  ASSUME TypeOK, NEW c \in Calls, Refuse(c)
  PROVE  TypeOK'
BY EndTxType DEF TypeOK, CallsType, Kinds, Labels, Refuse

\* Nor does a step that only moves a call to another of its labels.
LEMMA MoveType ==
  ASSUME TypeOK, NEW c \in Calls, NEW l \in Labels, Goto(c, l),
         UNCHANGED <<shared, kind, link, write, folder, timers>>
  PROVE  TypeOK'
<1>1. pc' \in [Calls -> Labels]
  BY DEF TypeOK, Labels, Goto
<1>2. QED BY <1>1 DEF TypeOK, Labels

\* Every step keeps every variable within its type.
LEMMA TypeStep == DriveInv /\ [Next]_vars => TypeOK'
<1> SUFFICES ASSUME TypeOK, LeaseInv, FolderInv, [Next]_vars PROVE TypeOK'
  BY DEF DriveInv
<1> USE LeaseAssumption, BoundsAssumption DEF TypeOK, Critical, Rows, Links, Folders
<1>1. ASSUME NEW c \in Calls, Use(c) PROVE TypeOK'
  BY <1>1 DEF Use, Start, Goto, Step
<1>2. ASSUME NEW c \in Calls, Callback(c) PROVE TypeOK'
  BY <1>2 DEF Callback, Start, Goto, Step
<1>3. ASSUME NEW c \in Calls, Disconnect(c) PROVE TypeOK'
  BY <1>3 DEF Disconnect, Start, Goto, Step
<1>4. ASSUME NEW c \in Calls, ReadState(c) PROVE TypeOK'
  <2>1. CASE Refuse(c)
    BY <2>1, RefuseType
  <2>2. CASE ~Refuse(c)
    BY <1>4, <2>2, MoveType DEF ReadState, Labels
  <2>3. QED BY <2>1, <2>2
<1>5. ASSUME NEW c \in Calls, DropState(c) PROVE TypeOK'
  BY <1>5 DEF DropState, Step, Goto
<1>6. ASSUME NEW c \in Calls, Exchange(c) PROVE TypeOK'
  <2>1. CASE Refuse(c)
    BY <2>1, RefuseType
  <2>2. CASE ~Refuse(c)
    BY <1>6, <2>2, MoveType DEF Exchange, Ask, Step, Labels
  <2>3. QED BY <2>1, <2>2
<1>7. ASSUME NEW c \in Calls, GetConnection(c) PROVE TypeOK'
  <2>1. CASE Refuse(c)
    BY <2>1, RefuseType
  <2>2. CASE ~Refuse(c)
    BY <1>7, <2>2, MoveType DEF GetConnection, Ready, Labels
  <2>3. QED BY <2>1, <2>2
<1>8. ASSUME NEW c \in Calls, Renew(c) PROVE TypeOK'
  <2>1. CASE Refuse(c)
    BY <2>1, RefuseType
  <2>2. CASE ~Refuse(c)
    BY <1>8, <2>2, MoveType DEF Renew, Ask, Step, Labels
  <2>3. QED BY <2>1, <2>2
<1>9. ASSUME NEW c \in Calls, Save(c) PROVE TypeOK'
  BY <1>9 DEF Save, Upserted, Ready, Step, Goto
<1>10. ASSUME NEW c \in Calls, Revoke(c) PROVE TypeOK'
  BY <1>10 DEF Revoke, Revoked, Step, Goto
<1>11. ASSUME NEW c \in Calls, UseToken(c) PROVE TypeOK'
  <2>1. CASE Refuse(c)
    BY <2>1, RefuseType
  <2>2. CASE ~Refuse(c)
    BY <1>11, <2>2, MoveType DEF UseToken, Ask, Step, Labels
  <2>3. QED BY <2>1, <2>2
<1>12. ASSUME NEW c \in Calls, Upload(c) PROVE TypeOK'
  <2>1. CASE Refuse(c)
    BY <2>1, RefuseType
  <2>2. CASE ~Refuse(c)
    <3>1. kind[c] = "upload" /\ pc[c] = "use" /\ Goto(c, "commit") /\ filled' = filled \cup {folder[c]}
          /\ UNCHANGED <<row, asked, states, lock, cache, folders, callsLeft, off>>
          /\ UNCHANGED <<kind, link, write, folder, timers>>
      BY <1>12, <2>2 DEF Upload
    <3>2. pc' \in [Calls -> Labels]
      BY <3>1 DEF Goto, Labels
    <3>3. filled' \subseteq folders'
      BY <3>1 DEF FolderInv
    <3>4. CallsType'
      BY <3>1, <3>2 DEF CallsType, Kinds, Labels
    <3>5. QED BY <3>1, <3>3, <3>4 DEF CallsType, Kinds, Labels
  <2>3. QED BY <2>1, <2>2
<1>13. ASSUME NEW c \in Calls, Commit(c) PROVE TypeOK'
  <2>1. row' \in Rows /\ off' \in BOOLEAN
    BY <1>13 DEF Commit
  <2>2. CallsType'
    BY <1>13, EndTxType DEF Commit
  <2>3. QED BY <1>13, <2>1, <2>2 DEF Commit, CallsType, Kinds, Labels
<1>14. ASSUME NEW c \in Calls, ReadCache(c) PROVE TypeOK'
  BY <1>14 DEF ReadCache, Found, Step, Goto
<1>15. ASSUME NEW c \in Calls, AcquireLock(c) PROVE TypeOK'
  BY <1>15 DEF AcquireLock, LockIsFree, LeaseOf, Step, Goto
<1>16. ASSUME NEW c \in Calls, CheckCache(c) PROVE TypeOK'
  BY <1>16 DEF CheckCache, Found, Step, Goto
<1>17. ASSUME NEW c \in Calls, Search(c) PROVE TypeOK'
  BY <1>17 DEF Search, Found, Goto
<1>18. ASSUME NEW c \in Calls, CreateFolder(c) PROVE TypeOK'
  <2>1. folders = {} /\ 1 \in Folders
    BY <1>18 DEF CreateFolder, FolderInv
  <2>2. NewFolder = 1
    BY <2>1, FS_EmptySet DEF NewFolder
  <2>3. folders' \subseteq Folders /\ folders \subseteq folders'
    BY <1>18, <2>1, <2>2 DEF CreateFolder
  <2>4. folder' = folder \/ folder' = [folder EXCEPT ![c] = 1]
    BY <1>18, <2>2 DEF CreateFolder, Found
  <2>5. pc' \in [Calls -> Labels]
    BY <1>18 DEF CreateFolder, Goto, Labels
  <2>6. QED BY <1>18, <2>1, <2>3, <2>4, <2>5 DEF CreateFolder, Labels
<1>19. ASSUME NEW c \in Calls, StoreInCache(c) PROVE TypeOK'
  BY <1>19 DEF StoreInCache, Step, Goto
<1>20. ASSUME NEW c \in Calls, Release(c) PROVE TypeOK'
  BY <1>20 DEF Release, AfterRelease, Step, Goto
<1>21. ASSUME NEW c \in Calls, Unlock(c) PROVE TypeOK'
  BY <1>21 DEF Unlock, AfterRelease, Step, Goto
<1>22. ASSUME NEW c \in Calls, Raise(c) PROVE TypeOK'
  BY <1>22, RefuseType DEF Raise
<1>23. ASSUME NEW c \in Calls, Beat(c) PROVE TypeOK'
  BY <1>23 DEF Beat, IsDue, Renewed
<1>24. ASSUME NEW c \in Calls, Crash(c) PROVE TypeOK'
  BY <1>24, RefuseType DEF Crash
<1>25. CASE Tick
  BY <1>25 DEF Tick, IsDue
<1>26. CASE Connect
  BY <1>26 DEF Connect
<1>27. CASE Age
  BY <1>27 DEF Age
<1>28. CASE StateExpires
  BY <1>28 DEF StateExpires
<1>29. CASE CacheExpires
  BY <1>29 DEF CacheExpires
<1>30. CASE UNCHANGED vars
  BY <1>30
<1>31. QED BY <1>1, <1>2, <1>3, <1>4, <1>5, <1>6, <1>7, <1>8, <1>9, <1>10, <1>11, <1>12,
      <1>13, <1>14, <1>15, <1>16, <1>17, <1>18, <1>19, <1>20, <1>21, <1>22, <1>23, <1>24,
      <1>25, <1>26, <1>27, <1>28, <1>29, <1>30 DEF Next, Progress, Environment

-----------------------------------------------------------------------------
(***************************************************************************)
(* The folder lock.                                                        *)
(***************************************************************************)
\* A lease that has its beats does not run out.
LEMMA LeaseLasts ==
  ASSUME NEW n \in 0..MaxMisses, NEW k \in 0..BeatEvery, NEW t \in Nat,
         t + n * BeatEvery + k >= LockTtl
  PROVE  t >= 2
<1>1. n * BeatEvery <= MaxMisses * BeatEvery
  BY LeaseAssumption
<1>2. BeatEvery * (MaxMisses + 1) = MaxMisses * BeatEvery + BeatEvery
  BY LeaseAssumption
<1>3. n * BeatEvery \in Nat /\ MaxMisses * BeatEvery \in Nat
  BY LeaseAssumption
<1>4. QED BY <1>1, <1>2, <1>3, LeaseAssumption

\* Whoever holds the folder lock keeps it: the heartbeat comes in time, and nobody
\* else takes it, renews it or deletes it.
LEMMA LeaseStep == DriveInv /\ [Next]_vars => LeaseInv'
<1> SUFFICES ASSUME TypeOK, LeaseInv, [Next]_vars PROVE LeaseInv'
  BY DEF DriveInv
<1> USE LeaseAssumption, BoundsAssumption DEF TypeOK, LeaseInv, Holding, Critical
<1>1. ASSUME NEW c \in Calls, Use(c) PROVE LeaseInv'
  BY <1>1 DEF Use, Start, Goto, Step
<1>2. ASSUME NEW c \in Calls, Callback(c) PROVE LeaseInv'
  BY <1>2 DEF Callback, Start, Goto, Step
<1>3. ASSUME NEW c \in Calls, Disconnect(c) PROVE LeaseInv'
  BY <1>3 DEF Disconnect, Start, Goto, Step
<1>4. ASSUME NEW c \in Calls, ReadState(c) PROVE LeaseInv'
  BY <1>4 DEF ReadState, Refuse, EndTx, Goto
<1>5. ASSUME NEW c \in Calls, DropState(c) PROVE LeaseInv'
  BY <1>5 DEF DropState, Step, Goto
<1>6. ASSUME NEW c \in Calls, Exchange(c) PROVE LeaseInv'
  BY <1>6 DEF Exchange, Ask, Refuse, EndTx, Step, Goto
<1>7. ASSUME NEW c \in Calls, GetConnection(c) PROVE LeaseInv'
  BY <1>7 DEF GetConnection, Ready, Refuse, EndTx, Goto
<1>8. ASSUME NEW c \in Calls, Renew(c) PROVE LeaseInv'
  BY <1>8 DEF Renew, Ask, Refuse, EndTx, Step, Goto
<1>9. ASSUME NEW c \in Calls, Save(c) PROVE LeaseInv'
  BY <1>9 DEF Save, Upserted, Ready, Step, Goto
<1>10. ASSUME NEW c \in Calls, Revoke(c) PROVE LeaseInv'
  BY <1>10 DEF Revoke, Revoked, Step, Goto
<1>11. ASSUME NEW c \in Calls, UseToken(c) PROVE LeaseInv'
  BY <1>11 DEF UseToken, Ask, Refuse, EndTx, Step, Goto
<1>12. ASSUME NEW c \in Calls, Upload(c) PROVE LeaseInv'
  BY <1>12 DEF Upload, Refuse, EndTx, Goto
<1>13. ASSUME NEW c \in Calls, Commit(c) PROVE LeaseInv'
  BY <1>13 DEF Commit, EndTx, Goto
<1>14. ASSUME NEW c \in Calls, ReadCache(c) PROVE LeaseInv'
  BY <1>14 DEF ReadCache, Found, Step, Goto
<1>15. ASSUME NEW c \in Calls, AcquireLock(c) PROVE LeaseInv'
  BY <1>15 DEF AcquireLock, LockIsFree, LeaseOf, Step, Goto
<1>16. ASSUME NEW c \in Calls, CheckCache(c) PROVE LeaseInv'
  BY <1>16 DEF CheckCache, Found, Step, Goto
<1>17. ASSUME NEW c \in Calls, Search(c) PROVE LeaseInv'
  BY <1>17 DEF Search, Found, Goto
<1>18. ASSUME NEW c \in Calls, CreateFolder(c) PROVE LeaseInv'
  BY <1>18 DEF CreateFolder, NewFolder, Found, Goto
<1>19. ASSUME NEW c \in Calls, StoreInCache(c) PROVE LeaseInv'
  BY <1>19 DEF StoreInCache, Step, Goto
<1>20. ASSUME NEW c \in Calls, Release(c) PROVE LeaseInv'
  BY <1>20 DEF Release, AfterRelease, Step, Goto
<1>21. ASSUME NEW c \in Calls, Unlock(c) PROVE LeaseInv'
  BY <1>21 DEF Unlock, AfterRelease, Step, Goto
<1>22. ASSUME NEW c \in Calls, Raise(c) PROVE LeaseInv'
  BY <1>22 DEF Raise, Refuse, EndTx, Goto
<1>23. ASSUME NEW c \in Calls, Beat(c) PROVE LeaseInv'
  BY <1>23 DEF Beat, IsDue, Renewed
<1>24. ASSUME NEW c \in Calls, Crash(c) PROVE LeaseInv'
  BY <1>24 DEF Crash, Refuse, EndTx, Goto
<1>25. CASE Tick
  BY <1>25 DEF Tick, IsDue
<1>26. CASE Connect
  BY <1>26 DEF Connect
<1>27. CASE Age
  BY <1>27 DEF Age
<1>28. CASE StateExpires
  BY <1>28 DEF StateExpires
<1>29. CASE CacheExpires
  BY <1>29 DEF CacheExpires
<1>30. CASE UNCHANGED vars
  BY <1>30
<1>31. QED BY <1>1, <1>2, <1>3, <1>4, <1>5, <1>6, <1>7, <1>8, <1>9, <1>10, <1>11, <1>12,
      <1>13, <1>14, <1>15, <1>16, <1>17, <1>18, <1>19, <1>20, <1>21, <1>22, <1>23, <1>24,
      <1>25, <1>26, <1>27, <1>28, <1>29, <1>30 DEF Next, Progress, Environment

-----------------------------------------------------------------------------
(***************************************************************************)
(* The folder.                                                             *)
(***************************************************************************)
\* The folder is made by a call that knows that there is none, and that is alone.
LEMMA FolderStep == DriveInv /\ [Next]_vars => FolderInv'
<1> SUFFICES ASSUME TypeOK, LeaseInv, FolderInv, [Next]_vars PROVE FolderInv'
  BY DEF DriveInv
<1> USE BoundsAssumption DEF TypeOK, FolderInv
<1>1. ASSUME NEW c \in Calls, Use(c) PROVE FolderInv'
  BY <1>1 DEF Use, Start, Goto, Step
<1>2. ASSUME NEW c \in Calls, Callback(c) PROVE FolderInv'
  BY <1>2 DEF Callback, Start, Goto, Step
<1>3. ASSUME NEW c \in Calls, Disconnect(c) PROVE FolderInv'
  BY <1>3 DEF Disconnect, Start, Goto, Step
<1>4. ASSUME NEW c \in Calls, ReadState(c) PROVE FolderInv'
  BY <1>4 DEF ReadState, Refuse, EndTx, Goto
<1>5. ASSUME NEW c \in Calls, DropState(c) PROVE FolderInv'
  BY <1>5 DEF DropState, Step, Goto
<1>6. ASSUME NEW c \in Calls, Exchange(c) PROVE FolderInv'
  BY <1>6 DEF Exchange, Ask, Refuse, EndTx, Step, Goto
<1>7. ASSUME NEW c \in Calls, GetConnection(c) PROVE FolderInv'
  BY <1>7 DEF GetConnection, Ready, Refuse, EndTx, Goto
<1>8. ASSUME NEW c \in Calls, Renew(c) PROVE FolderInv'
  BY <1>8 DEF Renew, Ask, Refuse, EndTx, Step, Goto
<1>9. ASSUME NEW c \in Calls, Save(c) PROVE FolderInv'
  BY <1>9 DEF Save, Upserted, Ready, Step, Goto
<1>10. ASSUME NEW c \in Calls, Revoke(c) PROVE FolderInv'
  BY <1>10 DEF Revoke, Revoked, Step, Goto
<1>11. ASSUME NEW c \in Calls, UseToken(c) PROVE FolderInv'
  BY <1>11 DEF UseToken, Ask, Refuse, EndTx, Step, Goto
<1>12. ASSUME NEW c \in Calls, Upload(c) PROVE FolderInv'
  BY <1>12 DEF Upload, Refuse, EndTx, Goto
<1>13. ASSUME NEW c \in Calls, Commit(c) PROVE FolderInv'
  BY <1>13 DEF Commit, EndTx, Goto
<1>14. ASSUME NEW c \in Calls, ReadCache(c) PROVE FolderInv'
  BY <1>14 DEF ReadCache, Found, Step, Goto
<1>15. ASSUME NEW c \in Calls, AcquireLock(c) PROVE FolderInv'
  BY <1>15 DEF AcquireLock, LockIsFree, LeaseOf, Step, Goto
<1>16. ASSUME NEW c \in Calls, CheckCache(c) PROVE FolderInv'
  BY <1>16 DEF CheckCache, Found, Step, Goto
<1>17. ASSUME NEW c \in Calls, Search(c) PROVE FolderInv'
  BY <1>17 DEF Search, Found, Goto
<1>18. ASSUME NEW c \in Calls, CreateFolder(c) PROVE FolderInv'
  <2>1. Cardinality({}) + 1 = 1
    BY FS_EmptySet
  <2>2. \A d \in Calls \ {c} : pc[d] # "create"
    BY <1>18 DEF CreateFolder, LeaseInv, Holding, Critical
  <2>3. QED BY SMTT(30), <1>18, <2>1, <2>2 DEF CreateFolder, NewFolder, Found, Goto
<1>19. ASSUME NEW c \in Calls, StoreInCache(c) PROVE FolderInv'
  BY <1>19 DEF StoreInCache, Step, Goto
<1>20. ASSUME NEW c \in Calls, Release(c) PROVE FolderInv'
  BY <1>20 DEF Release, AfterRelease, Step, Goto
<1>21. ASSUME NEW c \in Calls, Unlock(c) PROVE FolderInv'
  BY <1>21 DEF Unlock, AfterRelease, Step, Goto
<1>22. ASSUME NEW c \in Calls, Raise(c) PROVE FolderInv'
  BY <1>22 DEF Raise, Refuse, EndTx, Goto
<1>23. ASSUME NEW c \in Calls, Beat(c) PROVE FolderInv'
  BY <1>23 DEF Beat, IsDue, Renewed
<1>24. ASSUME NEW c \in Calls, Crash(c) PROVE FolderInv'
  BY <1>24 DEF Crash, Refuse, EndTx, Goto
<1>25. CASE Tick
  BY <1>25 DEF Tick, IsDue
<1>26. CASE Connect
  BY <1>26 DEF Connect
<1>27. CASE Age
  BY <1>27 DEF Age
<1>28. CASE StateExpires
  BY <1>28 DEF StateExpires
<1>29. CASE CacheExpires
  BY <1>29 DEF CacheExpires
<1>30. CASE UNCHANGED vars
  BY <1>30
<1>31. QED BY <1>1, <1>2, <1>3, <1>4, <1>5, <1>6, <1>7, <1>8, <1>9, <1>10, <1>11, <1>12,
      <1>13, <1>14, <1>15, <1>16, <1>17, <1>18, <1>19, <1>20, <1>21, <1>22, <1>23, <1>24,
      <1>25, <1>26, <1>27, <1>28, <1>29, <1>30 DEF Next, Progress, Environment

-----------------------------------------------------------------------------
(***************************************************************************)
(* Disconnection.                                                          *)
(***************************************************************************)
\* An exception, which rolls the transaction back, keeps that.
LEMMA RefuseOff ==
  ASSUME TypeOK, OffInv, NEW c \in Calls, Refuse(c)
  PROVE  OffInv'
BY DEF TypeOK, OffInv, Refuse, EndTx, Goto

\* After a disconnection nobody but a callback is about to make the connection
\* active: who found it inactive does not renew its token.
LEMMA OffStep == TypeOK /\ OffInv /\ [Next]_vars => OffInv'
<1> SUFFICES ASSUME TypeOK, OffInv, [Next]_vars PROVE OffInv'
  OBVIOUS
<1> USE BoundsAssumption DEF TypeOK, OffInv, Rows
<1>1. ASSUME NEW c \in Calls, Use(c) PROVE OffInv'
  BY <1>1 DEF Use, Start, Goto, Step
<1>2. ASSUME NEW c \in Calls, Callback(c) PROVE OffInv'
  BY <1>2 DEF Callback, Start, Goto, Step
<1>3. ASSUME NEW c \in Calls, Disconnect(c) PROVE OffInv'
  BY <1>3 DEF Disconnect, Start, Goto, Step
<1>4. ASSUME NEW c \in Calls, ReadState(c) PROVE OffInv'
  BY <1>4, RefuseOff DEF ReadState, Goto
<1>5. ASSUME NEW c \in Calls, DropState(c) PROVE OffInv'
  BY <1>5 DEF DropState, Step, Goto
<1>6. ASSUME NEW c \in Calls, Exchange(c) PROVE OffInv'
  BY <1>6, RefuseOff DEF Exchange, Ask, Step, Goto
<1>7. ASSUME NEW c \in Calls, GetConnection(c) PROVE OffInv'
  BY <1>7, RefuseOff DEF GetConnection, Ready, Goto, IsConnected
<1>8. ASSUME NEW c \in Calls, Renew(c) PROVE OffInv'
  BY <1>8, RefuseOff DEF Renew, Ask, Step, Goto
<1>9. ASSUME NEW c \in Calls, Save(c) PROVE OffInv'
  BY <1>9 DEF Save, Upserted, Ready, Step, Goto
<1>10. ASSUME NEW c \in Calls, Revoke(c) PROVE OffInv'
  BY <1>10 DEF Revoke, Revoked, Step, Goto
<1>11. ASSUME NEW c \in Calls, UseToken(c) PROVE OffInv'
  BY <1>11, RefuseOff DEF UseToken, Ask, Step, Goto
<1>12. ASSUME NEW c \in Calls, Upload(c) PROVE OffInv'
  BY <1>12, RefuseOff DEF Upload, Goto
<1>13. ASSUME NEW c \in Calls, Commit(c) PROVE OffInv'
  <2>1. /\ kind' = [kind EXCEPT ![c] = "none"] /\ pc' = [pc EXCEPT ![c] = "idle"]
        /\ write' = [write EXCEPT ![c] = None]
    BY <1>13 DEF Commit, EndTx, Goto
  <2>2. ASSUME off' PROVE ~row'.active
    <3>1. CASE write[c] = None
      BY <1>13, <2>2, <3>1 DEF Commit
    <3>2. CASE write[c] # None /\ kind[c] = "disconnect"
      BY <1>13, <2>2, <3>2 DEF Commit
    <3>3. CASE write[c] # None /\ kind[c] # "disconnect"
      BY <1>13, <2>2, <3>3 DEF Commit
    <3>4. QED BY <3>1, <3>2, <3>3
  <2>3. ASSUME off', NEW d \in Calls \ {c}, kind[d] \notin {"callback", "disconnect"}
        PROVE  pc[d] \notin {"renew", "save"} /\ write[d] = None
    <3>1. CASE off
      BY <2>3, <3>1
    <3>2. CASE ~off
      BY <1>13, <2>3, <3>2 DEF Commit, Renewing
    <3>3. QED BY <3>1, <3>2
  <2>4. QED BY <2>1, <2>2, <2>3
<1>14. ASSUME NEW c \in Calls, ReadCache(c) PROVE OffInv'
  BY <1>14 DEF ReadCache, Found, Step, Goto
<1>15. ASSUME NEW c \in Calls, AcquireLock(c) PROVE OffInv'
  BY <1>15 DEF AcquireLock, LockIsFree, LeaseOf, Step, Goto
<1>16. ASSUME NEW c \in Calls, CheckCache(c) PROVE OffInv'
  BY <1>16 DEF CheckCache, Found, Step, Goto
<1>17. ASSUME NEW c \in Calls, Search(c) PROVE OffInv'
  BY <1>17 DEF Search, Found, Goto
<1>18. ASSUME NEW c \in Calls, CreateFolder(c) PROVE OffInv'
  BY <1>18 DEF CreateFolder, NewFolder, Found, Goto
<1>19. ASSUME NEW c \in Calls, StoreInCache(c) PROVE OffInv'
  BY <1>19 DEF StoreInCache, Step, Goto
<1>20. ASSUME NEW c \in Calls, Release(c) PROVE OffInv'
  BY <1>20 DEF Release, AfterRelease, Step, Goto
<1>21. ASSUME NEW c \in Calls, Unlock(c) PROVE OffInv'
  BY <1>21 DEF Unlock, AfterRelease, Step, Goto
<1>22. ASSUME NEW c \in Calls, Raise(c) PROVE OffInv'
  BY <1>22 DEF Raise, Refuse, EndTx, Goto
<1>23. ASSUME NEW c \in Calls, Beat(c) PROVE OffInv'
  BY <1>23 DEF Beat, IsDue, Renewed
<1>24. ASSUME NEW c \in Calls, Crash(c) PROVE OffInv'
  BY <1>24 DEF Crash, Refuse, EndTx, Goto
<1>25. CASE Tick
  BY <1>25 DEF Tick, IsDue
<1>26. CASE Connect
  BY <1>26 DEF Connect
<1>27. CASE Age
  BY <1>27 DEF Age
<1>28. CASE StateExpires
  BY <1>28 DEF StateExpires
<1>29. CASE CacheExpires
  BY <1>29 DEF CacheExpires
<1>30. CASE UNCHANGED vars
  BY <1>30
<1>31. QED BY <1>1, <1>2, <1>3, <1>4, <1>5, <1>6, <1>7, <1>8, <1>9, <1>10, <1>11, <1>12,
      <1>13, <1>14, <1>15, <1>16, <1>17, <1>18, <1>19, <1>20, <1>21, <1>22, <1>23, <1>24,
      <1>25, <1>26, <1>27, <1>28, <1>29, <1>30 DEF Next, Progress, Environment

-----------------------------------------------------------------------------
(***************************************************************************)
(* The refinement.                                                         *)
(***************************************************************************)
\* What a step looks like to EventFolder.
Sees == [Abstract!Next]_<<Inside, folders, filled>>

\* Who resolves the folder is alone.
LEMMA OneInside == LeaseInv => \A c \in Inside : Inside = {c}
BY DEF LeaseInv, Inside, Holding

\* A step that changes neither Drive nor where calls are is not seen.
LEMMA StillSees == UNCHANGED <<pc, drive>> => Sees
BY DEF Sees, Inside

\* A call that goes on without a change on Drive, and does not enter.
LEMMA MoveSees ==
  ASSUME DriveInv, NEW c \in Calls, UNCHANGED drive,
         pc' = [pc EXCEPT ![c] = pc'[c]],
         pc'[c] \in Critical => pc[c] \in Critical
  PROVE  Sees
<1>1. Inside' = Inside \/ (c \in Inside /\ Inside' = Inside \ {c})
  BY DEF DriveInv, TypeOK, Inside
<1>2. Inside' = Inside \/ Inside' = {}
  BY <1>1, OneInside DEF DriveInv
<1>3. QED BY <1>2 DEF Sees, Abstract!Next, Abstract!Leave

\* Nor is an exception, but that a call may leave.
LEMMA RefuseSees ==
  ASSUME DriveInv, NEW c \in Calls, Refuse(c)
  PROVE  Sees
<1>1. pc' = [pc EXCEPT ![c] = pc'[c]] /\ pc'[c] = "idle" /\ UNCHANGED drive
  BY DEF DriveInv, TypeOK, Refuse, EndTx, Goto
<1>2. QED BY <1>1, MoveSees DEF Critical

\* Every step is one of EventFolder, or EventFolder does not see it.
LEMMA RefinesStep == DriveInv /\ [Next]_vars => Sees
<1> SUFFICES ASSUME DriveInv, [Next]_vars PROVE Sees
  OBVIOUS
<1> USE DEF DriveInv, TypeOK
<1>1. ASSUME NEW c \in Calls, Use(c) PROVE Sees
  BY <1>1, MoveSees DEF Use, Start, Goto, Step, Critical
<1>2. ASSUME NEW c \in Calls, Callback(c) PROVE Sees
  BY <1>2, MoveSees DEF Callback, Start, Goto, Step, Critical
<1>3. ASSUME NEW c \in Calls, Disconnect(c) PROVE Sees
  BY <1>3, MoveSees DEF Disconnect, Start, Goto, Step, Critical
<1>4. ASSUME NEW c \in Calls, ReadState(c) PROVE Sees
  BY <1>4, MoveSees, RefuseSees DEF ReadState, Goto, Critical
<1>5. ASSUME NEW c \in Calls, DropState(c) PROVE Sees
  BY <1>5, MoveSees DEF DropState, Step, Goto, Critical
<1>6. ASSUME NEW c \in Calls, Exchange(c) PROVE Sees
  BY <1>6, MoveSees, RefuseSees DEF Exchange, Ask, Step, Goto, Critical
<1>7. ASSUME NEW c \in Calls, GetConnection(c) PROVE Sees
  BY <1>7, MoveSees, RefuseSees DEF GetConnection, Ready, Goto, Critical
<1>8. ASSUME NEW c \in Calls, Renew(c) PROVE Sees
  BY <1>8, MoveSees, RefuseSees DEF Renew, Ask, Step, Goto, Critical
<1>9. ASSUME NEW c \in Calls, Save(c) PROVE Sees
  BY <1>9, MoveSees DEF Save, Ready, Step, Goto, Critical
<1>10. ASSUME NEW c \in Calls, Revoke(c) PROVE Sees
  BY <1>10, MoveSees DEF Revoke, Step, Goto, Critical
<1>11. ASSUME NEW c \in Calls, UseToken(c) PROVE Sees
  BY <1>11, MoveSees, RefuseSees DEF UseToken, Ask, Step, Goto, Critical
<1>12. ASSUME NEW c \in Calls, Upload(c) PROVE Sees
  <2>1. CASE Refuse(c)
    BY <2>1, RefuseSees
  <2>2. CASE ~Refuse(c)
    <3>1. Inside' = Inside /\ UNCHANGED folders
      BY <1>12, <2>2 DEF Upload, Goto, Inside, Critical
    <3>2. folder[c] \in folders
      BY <1>12 DEF Upload, FolderInv
    <3>3. filled' = folders
      BY <1>12, <2>2, <3>2 DEF Upload, FolderInv
    <3>4. QED BY <3>1, <3>3 DEF Sees, Abstract!Next, Abstract!File
  <2>3. QED BY <2>1, <2>2
<1>13. ASSUME NEW c \in Calls, Commit(c) PROVE Sees
  BY <1>13, MoveSees DEF Commit, EndTx, Goto, Critical
<1>14. ASSUME NEW c \in Calls, ReadCache(c) PROVE Sees
  BY <1>14, MoveSees DEF ReadCache, Step, Goto, Critical
<1>15. ASSUME NEW c \in Calls, AcquireLock(c) PROVE Sees
  <2>1. Inside = {}
    BY <1>15, BoundsAssumption DEF AcquireLock, LockIsFree, LeaseInv, Holding, Inside
  <2>2. Inside' = {c}
    BY <1>15, <2>1 DEF AcquireLock, Step, Goto, Inside, Critical
  <2>3. UNCHANGED <<folders, filled>>
    BY <1>15 DEF AcquireLock
  <2>4. QED BY <2>1, <2>2, <2>3 DEF Sees, Abstract!Next, Abstract!Enter
<1>16. ASSUME NEW c \in Calls, CheckCache(c) PROVE Sees
  BY <1>16, MoveSees DEF CheckCache, Step, Goto, Critical
<1>17. ASSUME NEW c \in Calls, Search(c) PROVE Sees
  BY <1>17, MoveSees DEF Search, Goto, Critical
<1>18. ASSUME NEW c \in Calls, CreateFolder(c) PROVE Sees
  <2>1. CASE folders' = folders
    BY <1>18, <2>1, MoveSees DEF CreateFolder, Goto, Critical
  <2>2. CASE folders' # folders
    <3>1. folders = {} /\ 1 \in Folders
      BY <1>18, BoundsAssumption DEF CreateFolder, FolderInv, Folders
    <3>2. folders' = {1}
      BY <1>18, <2>2, <3>1, FS_EmptySet DEF CreateFolder, NewFolder
    <3>3. c \in Inside /\ Inside' \in SUBSET Inside
      BY <1>18 DEF CreateFolder, Goto, Inside, Critical
    <3>4. filled' = filled
      BY <1>18 DEF CreateFolder
    <3>5. QED BY <3>1, <3>2, <3>3, <3>4 DEF Sees, Abstract!Next, Abstract!Make
  <2>3. QED BY <2>1, <2>2
<1>19. ASSUME NEW c \in Calls, StoreInCache(c) PROVE Sees
  BY <1>19, MoveSees DEF StoreInCache, Step, Goto, Critical
<1>20. ASSUME NEW c \in Calls, Release(c) PROVE Sees
  BY <1>20, MoveSees DEF Release, AfterRelease, Step, Goto, Critical
<1>21. ASSUME NEW c \in Calls, Unlock(c) PROVE Sees
  BY <1>21, MoveSees DEF Unlock, AfterRelease, Step, Goto, Critical
<1>22. ASSUME NEW c \in Calls, Raise(c) PROVE Sees
  BY <1>22, RefuseSees DEF Raise
<1>23. ASSUME NEW c \in Calls, Beat(c) PROVE Sees
  BY <1>23, StillSees DEF Beat
<1>24. ASSUME NEW c \in Calls, Crash(c) PROVE Sees
  BY <1>24, RefuseSees DEF Crash
<1>25. CASE Tick
  BY <1>25, StillSees DEF Tick
<1>26. CASE Connect
  BY <1>26, StillSees DEF Connect
<1>27. CASE Age
  BY <1>27, StillSees DEF Age
<1>28. CASE StateExpires
  BY <1>28, StillSees DEF StateExpires
<1>29. CASE CacheExpires
  BY <1>29, StillSees DEF CacheExpires
<1>30. CASE UNCHANGED vars
  BY <1>30, StillSees
<1>31. QED BY <1>1, <1>2, <1>3, <1>4, <1>5, <1>6, <1>7, <1>8, <1>9, <1>10, <1>11, <1>12,
      <1>13, <1>14, <1>15, <1>16, <1>17, <1>18, <1>19, <1>20, <1>21, <1>22, <1>23, <1>24,
      <1>25, <1>26, <1>27, <1>28, <1>29, <1>30 DEF Next, Progress, Environment

-----------------------------------------------------------------------------
(***************************************************************************)
(* The theorems.                                                           *)
(***************************************************************************)
\* The invariants hold when the service starts.
LEMMA InitInv == Init => DriveInv /\ OffInv
<1> SUFFICES ASSUME Init PROVE DriveInv /\ OffInv
  OBVIOUS
<1> USE LeaseAssumption, BoundsAssumption DEF Init, Critical
<1>1. TypeOK
  <2>1. row \in Rows
    BY DEF Rows
  <2>2. CallsType
    BY DEF CallsType, Kinds, Labels
  <2>3. ttl \in 0..LockTtl /\ callsLeft \in 0..MaxCalls
    OBVIOUS
  <2>4. asked \subseteq Links /\ folders \subseteq Folders /\ cache \in Folders \cup {None}
    OBVIOUS
  <2>5. states \subseteq asked /\ filled \subseteq folders /\ owner \in Calls \cup {None} /\ off \in BOOLEAN
    OBVIOUS
  <2>6. QED BY <2>1, <2>2, <2>3, <2>4, <2>5 DEF TypeOK, CallsType, Kinds, Labels
<1>2. LeaseInv
  BY DEF LeaseInv, Holding
<1>3. FolderInv
  BY DEF FolderInv
<1>4. OffInv
  BY DEF OffInv
<1>5. QED BY <1>1, <1>2, <1>3, <1>4 DEF DriveInv

\* The inductive invariant: who holds the folder lock and how long it lasts, the one
\* folder, and what a disconnection excludes.
THEOREM DriveInvariant == Spec => [](DriveInv /\ OffInv)
<1>1. DriveInv /\ OffInv /\ [Next]_vars => (DriveInv /\ OffInv)'
  BY TypeStep, LeaseStep, FolderStep, OffStep DEF DriveInv
<1>2. QED BY <1>1, InitInv, PTL DEF Spec

\* Every variable keeps its type.
THEOREM DriveTypeCorrect == Spec => []TypeOK
<1>1. DriveInv => TypeOK
  BY DEF DriveInv
<1>2. QED BY <1>1, DriveInvariant, PTL

\* The call that resolves the folder has the lock, whatever Drive takes and
\* whoever crashes, as long as beats do not fail more often than the TTL allows.
THEOREM LockIsExclusive == Spec => []Exclusive
<1>1. DriveInv => Exclusive
  BY DEF DriveInv, LeaseInv, Holding, Inside, Exclusive
<1>2. QED BY <1>1, DriveInvariant, PTL

\* From the SET to the DEL the lock stays with the call: neither time nor another call
\* takes it in between, so what the DEL deletes is the call's own value.
LockKept ==
  \A c \in Calls :
    owner = c /\ pc[c] \in Holding \cup {"unlock"} /\ owner' # c => Unlock(c)

\* The compare and the delete of a release are two commands; the lock, which expires and
\* which others wait for, is nevertheless lost to the call's own DEL only: no DEL ever
\* removes the lock of another call.
THEOREM LockIsNotLost == Spec => [][LockKept]_vars
<1>1. ASSUME DriveInv, Next, NEW c \in Calls, owner = c, pc[c] \in Holding \cup {"unlock"},
             owner' # c
      PROVE  Unlock(c)
  <2> USE <1>1, BoundsAssumption DEF DriveInv, TypeOK
  <2>1. ~Tick
    <3> SUFFICES ASSUME Tick PROVE ttl >= 2
      BY DEF Tick
    <3>1. ttl \in Nat /\ clock[c] \in 0..BeatEvery /\ missed[c] \in 0..MaxMisses
      OBVIOUS
    <3>2. CASE pc[c] \in Holding
      BY <3>1, <3>2, LeaseLasts DEF LeaseInv
    <3>3. CASE pc[c] = "unlock"
      BY <3>1, <3>3 DEF LeaseInv, Tick
    <3>4. QED BY <3>2, <3>3
  <2>2. \A o \in Calls : ~AcquireLock(o)
    BY DEF AcquireLock, LockIsFree
  <2>3. ASSUME NEW o \in Calls, Unlock(o) PROVE o = c
    BY <2>3 DEF Unlock, Step, LeaseInv
  <2>4. \A o \in Calls : ~Use(o) /\ ~Callback(o) /\ ~Disconnect(o) /\ ~Beat(o) /\ ~Crash(o)
    BY DEF Use, Callback, Disconnect, Start, Beat, Crash, Refuse
  <2>5. ASSUME NEW o \in Calls, Progress(o) PROVE Unlock(o)
    BY <2>2, <2>5 DEF Progress, ReadState, DropState, Exchange, GetConnection, Renew, Save, Revoke,
       UseToken, Ask, Upload, Commit, Refuse, ReadCache, CheckCache, Search, CreateFolder,
       StoreInCache, Release, Raise
  <2>6. ~Environment
    BY DEF Environment, Connect, Age, StateExpires, CacheExpires
  <2>7. QED BY <2>1, <2>3, <2>4, <2>5, <2>6 DEF Next
<1>2. DriveInv /\ [Next]_vars => [LockKept]_vars
  BY <1>1 DEF LockKept
<1>3. QED BY <1>2, DriveInvariant, PTL DEF Spec

\* A connection that has been disconnected, and not while its token was being
\* renewed, comes back by a callback only.
THEOREM DisconnectionHolds == Spec => []DisconnectHolds
<1>1. OffInv => DisconnectHolds
  BY DEF OffInv, DisconnectHolds
<1>2. QED BY <1>1, DriveInvariant, PTL

\* The folder of an event is made once, by one call at a time, and photos are filed
\* in that folder: the code implements EventFolder.
THEOREM DriveImplementsEventFolder == Spec => ImplementsEventFolder
<1>1. Init => Abstract!Init
  BY DEF Init, Inside, Critical, Abstract!Init
<1>2. DriveInv /\ [Next]_vars => [Abstract!Next]_<<Inside, folders, filled>>
  BY RefinesStep DEF Sees
<1>3. QED BY <1>1, <1>2, DriveInvariant, PTL DEF Spec, ImplementsEventFolder, Abstract!Spec

-----------------------------------------------------------------------------
(*****************************************************************************)
(* The photos that go to Drive and leave the store: PhotoRetention, whose   *)
(* sync worker uploads through the connection of this module.               *)
(*****************************************************************************)
\* Who has an event at hand has its photo.
Typed ==
  RetentionTypeOK /\ \A w \in SyncWorkers : sync[w].step # "idle" => sync[w].photo \in Photos

\* Before the object of a photo may be deleted, Drive has it: it came from there, or
\* was marked as synced, which a worker does after the upload.
CopiedInv ==
  /\ Photos \ Direct \subseteq inDrive
  /\ \A w \in SyncWorkers : sync[w].step = "mark" => sync[w].photo \in inDrive
  /\ synced \subseteq inDrive
  /\ todo \subseteq inDrive
  /\ \A p \in Photos : cleanEvent[p] # "none" => p \in inDrive
  /\ cleaner # NoPhoto => cleanEvent[cleaner] # "none"

RetentionInv == Typed /\ CopiedInv /\ LastCopyKept

\* Every variable keeps its type.
LEMMA RetentionTypes == Typed /\ [RetentionNext]_retentionVars => Typed'
<1> SUFFICES ASSUME Typed, [RetentionNext]_retentionVars PROVE Typed'
  OBVIOUS
<1> USE DEF retentionVars, rows, event, events, world, workers
<1> USE FaultsAssumption DEF Typed, RetentionTypeOK, EventStates, Idle
<1>1. ASSUME NEW p \in Photos, Promote(p) PROVE Typed'
  BY <1>1 DEF Promote
<1>2. ASSUME NEW p \in Photos, CommitApproval(p) PROVE Typed'
  BY <1>2 DEF CommitApproval
<1>3. ASSUME NEW p \in Photos, NEW v \in {"approved", "rejected"}, Consent(p, v)
      PROVE Typed'
  BY <1>3 DEF Consent
<1>4. ASSUME NEW p \in Photos, PublishFault(p) PROVE Typed'
  BY <1>4 DEF PublishFault, MarkedAfterFault, Strike
<1>5. CASE EventGoesOn
  BY <1>5 DEF EventGoesOn, Lifecycle!Next, Lifecycle!TimePasses, Lifecycle!SetStatus,
     Lifecycle!LifecyclePass, Lifecycle!Updated, Lifecycle!Activated, Lifecycle!Archived,
     Lifecycle!Statuses, Lifecycle!Times
<1>6. ASSUME NEW w \in SyncWorkers, NEW p \in Photos, FetchObject(w, p) PROVE Typed'
  BY <1>6 DEF FetchObject, GotoSync
<1>7. ASSUME NEW w \in SyncWorkers, UploadToDrive(w) PROVE Typed'
  BY <1>7 DEF UploadToDrive, GotoSync
<1>8. ASSUME NEW w \in SyncWorkers, MarkSynced(w) PROVE Typed'
  BY <1>8 DEF MarkSynced, GotoSync
<1>9. ASSUME NEW w \in SyncWorkers, AckSync(w) PROVE Typed'
  BY <1>9 DEF AckSync
<1>10. ASSUME NEW w \in SyncWorkers, SyncFault(w) PROVE Typed'
  BY <1>10 DEF SyncFault, Strike
<1>11. ASSUME NEW S \in SUBSET Photos, StartPass(S) PROVE Typed'
  BY <1>11 DEF StartPass, Due
<1>12. ASSUME NEW p \in Photos, PublishCleanup(p) PROVE Typed'
  BY <1>12 DEF PublishCleanup
<1>13. CASE CommitPass
  BY <1>13 DEF CommitPass, Marks
<1>14. CASE PassFault
  BY <1>14 DEF PassFault, Strike
<1>15. ASSUME NEW p \in Photos, DeleteObject(p) PROVE Typed'
  BY <1>15 DEF DeleteObject
<1>16. ASSUME NEW p \in Photos, DeletionFails(p) PROVE Typed'
  BY <1>16 DEF DeletionFails
<1>17. CASE AckCleanup
  BY <1>17 DEF AckCleanup
<1>18. CASE CleanerFault
  BY <1>18 DEF CleanerFault, Strike
<1>19. CASE UNCHANGED retentionVars
  BY <1>19
<1> HIDE DEF Typed, RetentionTypeOK
<1>20. QED BY <1>1, <1>2, <1>3, <1>4, <1>5, <1>6, <1>7, <1>8, <1>9, <1>10, <1>11, <1>12,
      <1>13, <1>14, <1>15, <1>16, <1>17, <1>18, <1>19
      DEF RetentionNext, Sync, Pass, Clean

\* Drive never loses a photo, and a mark follows the upload.
LEMMA CopiedStep == Typed /\ CopiedInv /\ [RetentionNext]_retentionVars => CopiedInv'
<1> SUFFICES ASSUME Typed /\ CopiedInv, [RetentionNext]_retentionVars PROVE CopiedInv'
  OBVIOUS
<1> USE DEF retentionVars, rows, event, events, world, workers
<1> USE FaultsAssumption DEF Typed, RetentionTypeOK, CopiedInv, EventStates, Idle
<1>1. ASSUME NEW p \in Photos, Promote(p) PROVE CopiedInv'
  BY <1>1 DEF Promote
<1>2. ASSUME NEW p \in Photos, CommitApproval(p) PROVE CopiedInv'
  BY <1>2 DEF CommitApproval
<1>3. ASSUME NEW p \in Photos, NEW v \in {"approved", "rejected"}, Consent(p, v)
      PROVE CopiedInv'
  BY <1>3 DEF Consent
<1>4. ASSUME NEW p \in Photos, PublishFault(p) PROVE CopiedInv'
  BY <1>4 DEF PublishFault, MarkedAfterFault, Strike
<1>5. CASE EventGoesOn
  BY <1>5 DEF EventGoesOn
<1>6. ASSUME NEW w \in SyncWorkers, NEW p \in Photos, FetchObject(w, p) PROVE CopiedInv'
  BY <1>6 DEF FetchObject, GotoSync
<1>7. ASSUME NEW w \in SyncWorkers, UploadToDrive(w) PROVE CopiedInv'
  BY <1>7 DEF UploadToDrive, GotoSync
<1>8. ASSUME NEW w \in SyncWorkers, MarkSynced(w) PROVE CopiedInv'
  BY <1>8 DEF MarkSynced, GotoSync
<1>9. ASSUME NEW w \in SyncWorkers, AckSync(w) PROVE CopiedInv'
  BY <1>9 DEF AckSync
<1>10. ASSUME NEW w \in SyncWorkers, SyncFault(w) PROVE CopiedInv'
  BY <1>10 DEF SyncFault, Strike
<1>11. ASSUME NEW S \in SUBSET Photos, StartPass(S) PROVE CopiedInv'
  BY <1>11 DEF StartPass, Due
<1>12. ASSUME NEW p \in Photos, PublishCleanup(p) PROVE CopiedInv'
  BY <1>12 DEF PublishCleanup
<1>13. CASE CommitPass
  BY <1>13 DEF CommitPass, Marks
<1>14. CASE PassFault
  BY <1>14 DEF PassFault, Strike
<1>15. ASSUME NEW p \in Photos, DeleteObject(p) PROVE CopiedInv'
  BY <1>15 DEF DeleteObject
<1>16. ASSUME NEW p \in Photos, DeletionFails(p) PROVE CopiedInv'
  BY <1>16 DEF DeletionFails
<1>17. CASE AckCleanup
  BY <1>17 DEF AckCleanup
<1>18. CASE CleanerFault
  BY <1>18 DEF CleanerFault, Strike
<1>19. CASE UNCHANGED retentionVars
  BY <1>19
<1> HIDE DEF Typed, RetentionTypeOK, CopiedInv
<1>20. QED BY <1>1, <1>2, <1>3, <1>4, <1>5, <1>6, <1>7, <1>8, <1>9, <1>10, <1>11, <1>12,
      <1>13, <1>14, <1>15, <1>16, <1>17, <1>18, <1>19
      DEF RetentionNext, Sync, Pass, Clean

\* A step that takes an object away is a rejection or leaves the copy in Drive.
LEMMA LastCopyStep ==
  Typed /\ CopiedInv /\ LastCopyKept /\ [RetentionNext]_retentionVars => LastCopyKept'
<1> SUFFICES ASSUME Typed /\ CopiedInv /\ LastCopyKept, [RetentionNext]_retentionVars
             PROVE LastCopyKept'
  OBVIOUS
<1> USE DEF retentionVars, rows, event, events, world, workers
<1> USE FaultsAssumption DEF Typed, RetentionTypeOK, CopiedInv, LastCopyKept
<1>1. ASSUME NEW p \in Photos, Promote(p) PROVE LastCopyKept'
  BY <1>1 DEF Promote
<1>2. ASSUME NEW p \in Photos, CommitApproval(p) PROVE LastCopyKept'
  BY <1>2 DEF CommitApproval
<1>3. ASSUME NEW p \in Photos, NEW v \in {"approved", "rejected"}, Consent(p, v)
      PROVE LastCopyKept'
  BY <1>3 DEF Consent
<1>4. ASSUME NEW p \in Photos, PublishFault(p) PROVE LastCopyKept'
  BY <1>4 DEF PublishFault, MarkedAfterFault, Strike
<1>5. CASE EventGoesOn
  BY <1>5 DEF EventGoesOn
<1>6. ASSUME NEW w \in SyncWorkers, NEW p \in Photos, FetchObject(w, p)
      PROVE LastCopyKept'
  BY <1>6 DEF FetchObject, GotoSync
<1>7. ASSUME NEW w \in SyncWorkers, UploadToDrive(w) PROVE LastCopyKept'
  BY <1>7 DEF UploadToDrive, GotoSync
<1>8. ASSUME NEW w \in SyncWorkers, MarkSynced(w) PROVE LastCopyKept'
  BY <1>8 DEF MarkSynced, GotoSync
<1>9. ASSUME NEW w \in SyncWorkers, AckSync(w) PROVE LastCopyKept'
  BY <1>9 DEF AckSync
<1>10. ASSUME NEW w \in SyncWorkers, SyncFault(w) PROVE LastCopyKept'
  BY <1>10 DEF SyncFault, Strike
<1>11. ASSUME NEW S \in SUBSET Photos, StartPass(S) PROVE LastCopyKept'
  BY <1>11 DEF StartPass, Due
<1>12. ASSUME NEW p \in Photos, PublishCleanup(p) PROVE LastCopyKept'
  BY <1>12 DEF PublishCleanup
<1>13. CASE CommitPass
  BY <1>13 DEF CommitPass, Marks
<1>14. CASE PassFault
  BY <1>14 DEF PassFault, Strike
<1>15. ASSUME NEW p \in Photos, DeleteObject(p) PROVE LastCopyKept'
  BY <1>15 DEF DeleteObject
<1>16. ASSUME NEW p \in Photos, DeletionFails(p) PROVE LastCopyKept'
  BY <1>16 DEF DeletionFails
<1>17. CASE AckCleanup
  BY <1>17 DEF AckCleanup
<1>18. CASE CleanerFault
  BY <1>18 DEF CleanerFault, Strike
<1>19. CASE UNCHANGED retentionVars
  BY <1>19
<1> HIDE DEF Typed, RetentionTypeOK, CopiedInv, LastCopyKept
<1>20. QED BY <1>1, <1>2, <1>3, <1>4, <1>5, <1>6, <1>7, <1>8, <1>9, <1>10, <1>11, <1>12,
      <1>13, <1>14, <1>15, <1>16, <1>17, <1>18, <1>19
      DEF RetentionNext, Sync, Pass, Clean

\* At the start no photo is approved, and Drive has those that came from there.
LEMMA InitRetention == RetentionInit => RetentionInv
  BY FaultsAssumption DEF RetentionInit, RetentionInv, Typed, RetentionTypeOK,
     CopiedInv, LastCopyKept,
     EventStates, Idle, Lifecycle!Init, Lifecycle!Statuses

\* The inductive invariant: wherever a photo is marked, due or handed to the cleaner,
\* Drive has it.
THEOREM RetentionInvariant == RetentionSpec => []RetentionInv
<1>1. RetentionInv /\ [RetentionNext]_retentionVars => RetentionInv'
  BY RetentionTypes, CopiedStep, LastCopyStep DEF RetentionInv
<1>2. RetentionInit => RetentionInv
  BY InitRetention
<1>3. QED BY <1>1, <1>2, PTL DEF RetentionSpec

\* Every variable of the photos' sync and cleanup keeps its type.
THEOREM RetentionTypeCorrect == RetentionSpec => []RetentionTypeOK
<1>1. RetentionInv => RetentionTypeOK
  BY DEF RetentionInv, Typed
<1>2. QED BY <1>1, RetentionInvariant, PTL

\* The store gives up a photo nobody rejected only when Drive has it, for any photos,
\* sync workers, limit of a pass, and any failures.
THEOREM LastCopyStays == RetentionSpec => []LastCopyKept
<1>1. RetentionInv => LastCopyKept
  BY DEF RetentionInv
<1>2. QED BY <1>1, RetentionInvariant, PTL

-----------------------------------------------------------------------------
(*****************************************************************************)
(* What a mark of the cleanup pass says, and what a pass does to the event. *)
(*****************************************************************************)
\* What the cleaner has dealt with: the object is gone, or its deletion has failed.
Dealt(p) == p \notin object \/ p \in undeleted

\* What a pass has at hand or has published is committed, so that it is not promoted
\* again; what it marks or has marked it has published; and what the cleaner has at hand
\* or has acknowledged it has dealt with.
HandoverInv ==
  /\ \A p \in Photos : p \in todo \/ cleanEvent[p] # "none" => status[p] # "none"
  /\ \A p \in marked \cup cleaned : cleanEvent[p] # "none"
  /\ \A p \in Photos : cleanEvent[p] = "acked" => Dealt(p)
  /\ cleaner # NoPhoto => cleanEvent[cleaner] # "none" /\ Dealt(cleaner)

\* A photo that is marked as cleaned has its event still to come, or the cleaner has
\* deleted its object or has tried to and failed.
CleanedIsDealtWith ==
  \A p \in cleaned :
    cleanEvent[p] = "queued" \/ (cleanEvent[p] = "acked" /\ Dealt(p))

\* The pass publishes before it marks, and the cleaner deletes before it acknowledges.
LEMMA HandoverStep == Typed /\ HandoverInv /\ [RetentionNext]_retentionVars => HandoverInv'
<1> SUFFICES ASSUME Typed /\ HandoverInv, [RetentionNext]_retentionVars PROVE HandoverInv'
  OBVIOUS
<1> USE DEF retentionVars, rows, event, events, world, workers
<1> USE FaultsAssumption DEF Typed, RetentionTypeOK, HandoverInv, Dealt, EventStates, Idle
<1>1. ASSUME NEW p \in Photos, Promote(p) PROVE HandoverInv'
  BY <1>1 DEF Promote
<1>2. ASSUME NEW p \in Photos, CommitApproval(p) PROVE HandoverInv'
  BY <1>2 DEF CommitApproval
<1>3. ASSUME NEW p \in Photos, NEW v \in {"approved", "rejected"}, Consent(p, v) PROVE HandoverInv'
  BY <1>3 DEF Consent
<1>4. ASSUME NEW p \in Photos, PublishFault(p) PROVE HandoverInv'
  BY <1>4 DEF PublishFault, MarkedAfterFault, Strike
<1>5. CASE EventGoesOn
  BY <1>5 DEF EventGoesOn
<1>6. ASSUME NEW w \in SyncWorkers, NEW p \in Photos, FetchObject(w, p) PROVE HandoverInv'
  BY <1>6 DEF FetchObject, GotoSync
<1>7. ASSUME NEW w \in SyncWorkers, UploadToDrive(w) PROVE HandoverInv'
  BY <1>7 DEF UploadToDrive, GotoSync
<1>8. ASSUME NEW w \in SyncWorkers, MarkSynced(w) PROVE HandoverInv'
  BY <1>8 DEF MarkSynced, GotoSync
<1>9. ASSUME NEW w \in SyncWorkers, AckSync(w) PROVE HandoverInv'
  BY <1>9 DEF AckSync
<1>10. ASSUME NEW w \in SyncWorkers, SyncFault(w) PROVE HandoverInv'
  BY <1>10 DEF SyncFault, Strike
<1>11. ASSUME NEW S \in SUBSET Photos, StartPass(S) PROVE HandoverInv'
  BY <1>11 DEF StartPass, Due
<1>12. ASSUME NEW p \in Photos, PublishCleanup(p) PROVE HandoverInv'
  BY <1>12 DEF PublishCleanup
<1>13. CASE CommitPass
  BY <1>13 DEF CommitPass, Marks
<1>14. CASE PassFault
  BY <1>14 DEF PassFault, Strike
<1>15. ASSUME NEW p \in Photos, DeleteObject(p) PROVE HandoverInv'
  BY <1>15 DEF DeleteObject
<1>16. ASSUME NEW p \in Photos, DeletionFails(p) PROVE HandoverInv'
  BY <1>16 DEF DeletionFails
<1>17. CASE AckCleanup
  BY <1>17 DEF AckCleanup
<1>18. CASE CleanerFault
  BY <1>18 DEF CleanerFault, Strike
<1>19. CASE UNCHANGED retentionVars
  BY <1>19
<1> HIDE DEF Typed, RetentionTypeOK, HandoverInv
<1>20. QED BY <1>1, <1>2, <1>3, <1>4, <1>5, <1>6, <1>7, <1>8, <1>9, <1>10, <1>11, <1>12,
      <1>13, <1>14, <1>15, <1>16, <1>17, <1>18, <1>19
      DEF RetentionNext, Sync, Pass, Clean

\* The mark that the deletion was scheduled and the message that schedules it are not
\* atomic, and either can be repeated; yet a marked photo's event is still to be
\* delivered, or was acknowledged after the object left the store or its deletion had
\* failed.  The store's client need not be connected: the cleaner's is not, and then a
\* marked photo whose event is acknowledged is one whose deletion has failed.
THEOREM MarksAreHandedOver == RetentionSpec => []CleanedIsDealtWith
<1>1. RetentionInit => HandoverInv
  BY DEF RetentionInit, HandoverInv
<1>2. RetentionInv /\ HandoverInv /\ [RetentionNext]_retentionVars => HandoverInv'
  BY HandoverStep DEF RetentionInv
<1>3. RetentionInv /\ HandoverInv => CleanedIsDealtWith
  BY DEF RetentionInv, Typed, RetentionTypeOK, EventStates, HandoverInv, CleanedIsDealtWith
<1>4. QED BY <1>1, <1>2, <1>3, RetentionInvariant, PTL DEF RetentionSpec

\* Once the event has ended a pass archives it, whatever staff have set its status to.
PassArchives ==
  LifecycleRuns /\ Lifecycle!Reached("ended") => eventStatus' = "archived"

\* What a pass has brought up to date it leaves alone, and one that comes after the end
\* of the event archives it: also one that staff have moved back to draft, because the
\* pass activates before it archives.
THEOREM OnePassArchives ==
  /\ \A s \in Lifecycle!Statuses : Lifecycle!Updated(Lifecycle!Updated(s)) = Lifecycle!Updated(s)
  /\ RetentionSpec => [][PassArchives]_retentionVars
<1> USE DEF Lifecycle!Updated, Lifecycle!Archived, Lifecycle!Activated, Lifecycle!Statuses
<1>1. Lifecycle!Reached("ended") => Lifecycle!Reached("started")
  BY DEF Lifecycle!Reached, Lifecycle!Times
<1>2. RetentionInv => PassArchives
  BY <1>1 DEF RetentionInv, Typed, RetentionTypeOK, PassArchives, LifecycleRuns, Lifecycle!LifecyclePass
<1>3. RetentionSpec => [][PassArchives]_retentionVars
  BY <1>2, RetentionInvariant, PTL DEF RetentionSpec
<1>4. \A s \in Lifecycle!Statuses : Lifecycle!Updated(Lifecycle!Updated(s)) = Lifecycle!Updated(s)
  OBVIOUS
<1>5. QED BY <1>3, <1>4

=============================================================================
