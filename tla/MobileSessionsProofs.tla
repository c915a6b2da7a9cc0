-------------------------- MODULE MobileSessionsProofs --------------------------
(***************************************************************************)
(* Proofs about MobileSessions, for any finite set of calls, any set of    *)
(* devices, any limit of sessions and any number of calls.                 *)
(***************************************************************************)
EXTENDS MobileSessions, FiniteSetTheorems, TLAPS

Deciders == {"expel", "update", "setActive", "setBlocked"}
Kinds == {"none", "login", "request", "refresh", "logout", "revoke"} \cup Deciders

\* The statements of a call, by its kind.
LabelsOf(k) ==
  CASE k = "none" -> {"idle"}
    [] k = "login" -> {"user", "upsert", "evict", "remove", "uncache", "issue", "commit"}
    [] k = "request" -> {"activity", "store", "commit"}
    [] k = "refresh" -> {"token", "mint", "replay", "remove", "uncache", "report", "commit"}
    [] k = "logout" -> {"remove", "uncache", "commit"}
    [] k = "revoke" -> {"device", "remove", "uncache", "commit"}
    [] k = "expel" -> {"user", "remove", "uncache", "commit"}
    [] k = "update" -> {"commit"}
    [] OTHER -> {"write", "commit"}
Labels == UNION {LabelsOf(k) : k \in Kinds}

\* What a call may write to the row of the user, by its kind.
VerdictsOf(k) ==
  CASE k = "expel" -> {"blocked", "deleted"}
    [] k = "update" -> {"active"}
    [] k = "setActive" -> {"none", "active"}
    [] k = "setBlocked" -> {"none", "blocked"}
    [] OTHER -> {"none"}

Typed ==
  /\ user \in {"active", "blocked", "deleted"}
  /\ live \subseteq known /\ known \subseteq Sessions
  /\ fresh \subseteq issued /\ spent \subseteq issued /\ issued \subseteq Tokens
  /\ successors \subseteq issued \X issued /\ replay \subseteq issued \X issued
  /\ lapsed \subseteq issued /\ cache \subseteq known
  /\ callsLeft \in 0..MaxCalls /\ past \subseteq Incidents
  /\ kind \in [Calls -> Kinds] /\ pc \in [Calls -> Labels]
  /\ verdict \in [Calls -> {"none", "active", "blocked", "deleted"}]
  /\ sess \in [Calls -> SUBSET (Devices \X Nat)]
  /\ todo \in [Calls -> SUBSET known] /\ targets \in [Calls -> SUBSET known]
  /\ touched \in [Calls -> SUBSET known] /\ removed \in [Calls -> SUBSET live]
  /\ tok \in [Calls -> SUBSET issued]
  /\ minted \in [Calls -> SUBSET issued] /\ marked \in [Calls -> SUBSET issued]

\* How far the rows and tokens of a call are along with its statements.
Exchanging(c) == kind[c] = "refresh" /\ pc[c] \in {"mint", "replay", "commit"}
HasRow(c) == kind[c] = "login" /\ pc[c] \notin {"user", "upsert"}
HasToken(c) == \/ kind[c] = "login" /\ pc[c] = "commit"
               \/ kind[c] = "refresh" /\ pc[c] \in {"replay", "commit"}
Evicted(c) == kind[c] = "login" /\ pc[c] \in {"remove", "uncache", "issue", "commit"}
CallOk(c) ==
  /\ pc[c] \in LabelsOf(kind[c]) /\ verdict[c] \in VerdictsOf(kind[c])
  /\ kind[c] \in {"setActive", "setBlocked"} => "edit" \in past
  /\ HasRow(c) => touched[c] = sess[c] /\ removed[c] \cap sess[c] = {}
  /\ kind[c] = "request" => sess[c] \subseteq known
  /\ touched[c] # {} => HasRow(c) \/ kind[c] = "request"
  /\ todo[c] # {} => pc[c] = "remove" /\ kind[c] # "login"
  /\ removed[c] # {} => pc[c] \in {"remove", "uncache", "issue", "report", "commit"} /\ ~Exchanging(c)
  /\ minted[c] # {} => HasToken(c)
  /\ \A t \in minted[c] : SessionOf(t) \in sess[c] /\ (kind[c] = "refresh" => SessionOf(t) \in live)
  /\ \A t, u \in minted[c] : t = u
  /\ marked[c] = IF Exchanging(c) THEN tok[c] ELSE {}
  /\ tok[c] # {} => kind[c] = "refresh"
  /\ \A t, u \in tok[c] : t = u
CallInv == \A c \in Calls : CallOk(c)

\* The row of the user has one owner, and while a login owns it the user is active.
UserInv ==
  /\ \A c, o \in Calls : OwnsUser(c) /\ OwnsUser(o) => c = o
  /\ \A c \in Calls : kind[c] = "login" /\ pc[c] # "user" => user = "active"

\* A row that a transaction deletes is no other's: nobody else deletes it, writes it or
\* has a new token for it.
RowLocks ==
  \A c, o \in Calls : c # o =>
    /\ removed[c] \cap (removed[o] \cup touched[o]) = {}
    /\ \A t \in minted[o] : SessionOf(t) \notin removed[c]

\* A token that a transaction has read with its lock is no other's, and nobody deletes
\* it with its session.
TokenLocks ==
  \A c, o \in Calls : c # o =>
    \A t \in tok[c] :
      /\ t \in tok[o] => pc[c] = "token" \/ pc[o] = "token"
      /\ SessionOf(t) \in removed[o] => pc[c] = "token" \/ pc[o] = "remove"

\* Tokens have a session, are fresh or spent, are there while a call has them locked and
\* fresh while one exchanges them.
TokensInv ==
  /\ {SessionOf(t) : t \in fresh \cup spent} \subseteq live
  /\ fresh \cap spent = {}
  /\ \A c \in Calls : marked[c] \subseteq fresh /\ (pc[c] # "token" => tok[c] \subseteq fresh \cup spent)

\* A token is inserted once: it has neither been there nor been exchanged.
MintedInv ==
  /\ \A c \in Calls : \A t \in minted[c] : t \notin fresh \cup spent
  /\ \A c, o \in Calls : c # o => minted[c] \cap minted[o] = {}
  /\ \A p \in successors : p[1] \notin fresh /\ \A c \in Calls : p[1] \notin minted[c]

\* What is cached for a token about to be spent is the answer of this exchange.
ReplayInv ==
  /\ RotatedOnce
  /\ \A c \in Calls : kind[c] = "refresh" /\ pc[c] = "commit" =>
       \A r \in replay : r[1] \in marked[c] => r[2] \in minted[c]

\* The sessions of a device and the tokens of a session are numbered in turn, and a
\* call makes one of each at most.
Unadmitted == {c \in Calls : kind[c] = "login" /\ pc[c] \in {"user", "upsert"}}
Unminted == {c \in Calls : \/ kind[c] = "login" /\ pc[c] # "commit"
                           \/ kind[c] = "refresh" /\ pc[c] \in {"token", "mint"}}
CountInv ==
  /\ IsFiniteSet(known) /\ IsFiniteSet(issued)
  /\ Cardinality(known) + Cardinality(Unadmitted) + callsLeft =< MaxCalls
  /\ Cardinality(issued) + Cardinality(Unminted) + callsLeft =< MaxCalls
  /\ \A s \in known : s[2] =< Cardinality({r \in known : DeviceOf(r) = DeviceOf(s)})
  /\ \A t \in issued : t[2] =< Cardinality({r \in issued : SessionOf(r) = SessionOf(t)})

\* Once a block has listed the sessions of the user, each is deleted or about to be.
BlockInv ==
  /\ BlockedHasNoSession
  /\ \A c \in Calls : kind[c] = "expel" /\ pc[c] # "user" => live \subseteq removed[c] \cup todo[c]

\* A login that has evicted what it had to leaves the limit with its session.
CapInv ==
  "skipped" \notin past =>
    /\ Cardinality(live) =< Limit
    /\ \A c \in Calls : Evicted(c) => Cardinality((live \cup sess[c]) \ removed[c]) =< Limit

SessionInv == /\ Typed /\ CallInv /\ UserInv /\ RowLocks /\ TokenLocks /\ TokensInv
              /\ MintedInv /\ ReplayInv /\ CountInv /\ BlockInv /\ CapInv

USE DEF vars, db, ids, redis, world, writes, call


-----------------------------------------------------------------------------
(*****************************************************************************)
(* Numbering.                                                               *)
(*****************************************************************************)
\* A number that is above those of a finite set is none of theirs, and within what
\* the calls leave room for.
LEMMA NextSessionNew ==
  ASSUME Typed, CountInv, NEW c \in Unadmitted, NEW d \in Devices
  PROVE  NextSession(d) \in Sessions \ known /\ DeviceOf(NextSession(d)) = d
<1> USE DEF Typed
<1>1. DEFINE S == {s \in known : DeviceOf(s) = d}
<1>2. IsFiniteSet(S) /\ Cardinality(S) \in Nat /\ Cardinality(S) =< Cardinality(known)
  BY FS_Subset, FS_CardinalityType DEF CountInv
<1>3. Cardinality(Unadmitted) \in Nat /\ Cardinality(Unadmitted) >= 1
  <2>1. IsFiniteSet(Unadmitted)
    BY FS_Subset, BoundAssumption DEF Unadmitted
  <2>2. QED BY <2>1, FS_CardinalityType, FS_EmptySet
<1>4. Cardinality(S) + 1 \in 1..MaxCalls
  BY <1>2, <1>3, FS_CardinalityType, BoundAssumption DEF CountInv
<1>5. NextSession(d) = <<d, 1 + Cardinality(S)>>
  BY DEF NextSession
<1>6. \A s \in S : s[2] =< Cardinality(S)
  BY DEF CountInv
<1> HIDE DEF S
<1>7. NextSession(d)[2] = 1 + Cardinality(S) /\ DeviceOf(NextSession(d)) = d
  BY <1>5 DEF DeviceOf
<1>8. NextSession(d) \notin S
  BY <1>2, <1>6, <1>7
<1>9. QED BY <1>2, <1>4, <1>5, <1>7, <1>8 DEF Sessions, S

\* The same for the token of a session.
LEMMA NextTokenNew ==
  ASSUME Typed, CountInv, NEW c \in Unminted, NEW s \in Sessions
  PROVE  NextToken(s) \in Tokens \ issued /\ SessionOf(NextToken(s)) = s
<1> USE DEF Typed
<1>1. DEFINE S == {t \in issued : SessionOf(t) = s}
<1>2. IsFiniteSet(S) /\ Cardinality(S) \in Nat /\ Cardinality(S) =< Cardinality(issued)
  BY FS_Subset, FS_CardinalityType DEF CountInv
<1>3. Cardinality(Unminted) \in Nat /\ Cardinality(Unminted) >= 1
  <2>1. IsFiniteSet(Unminted)
    BY FS_Subset, BoundAssumption DEF Unminted
  <2>2. QED BY <2>1, FS_CardinalityType, FS_EmptySet
<1>4. Cardinality(S) + 1 \in 1..MaxCalls
  BY <1>2, <1>3, FS_CardinalityType, BoundAssumption DEF CountInv
<1>5. NextToken(s) = <<s, 1 + Cardinality(S)>>
  BY DEF NextToken
<1>6. \A t \in S : t[2] =< Cardinality(S)
  BY DEF CountInv
<1> HIDE DEF S
<1>7. NextToken(s)[2] = 1 + Cardinality(S) /\ SessionOf(NextToken(s)) = s
  BY <1>5 DEF SessionOf
<1>8. NextToken(s) \notin S
  BY <1>2, <1>6, <1>7
<1>9. QED BY <1>2, <1>4, <1>5, <1>7, <1>8 DEF Tokens, S

\* What a login puts on the row of its device: a row that is there, or a new one.
LEMMA UpsertRow ==
  ASSUME Typed, CallInv, CountInv, NEW c \in Calls, NEW d \in Devices, Upsert(c, d)
  PROVE  \E row \in SUBSET Sessions :
           /\ sess' = [sess EXCEPT ![c] = row] /\ touched' = [touched EXCEPT ![c] = row]
           /\ known' = known \cup row
           /\ \/ row \subseteq live /\ \A s \in row : Writers(c, s) = {}
              \/ row = {NextSession(d)} /\ NextSession(d) \notin known
<1>1. DEFINE mine == {s \in live : DeviceOf(s) = d}
             row == IF mine = {} THEN {NextSession(d)} ELSE mine
<1>2. /\ sess' = [sess EXCEPT ![c] = row] /\ touched' = [touched EXCEPT ![c] = row] /\ known' = known \cup row
      /\ \A s \in mine : Writers(c, s) = {}
  BY DEF Upsert
<1>3. kind[c] = "login" /\ pc[c] = "upsert"
  BY DEF Upsert, CallInv, CallOk, LabelsOf, Typed, Kinds, Deciders
<1>4. NextSession(d) \in Sessions \ known
  BY <1>3, NextSessionNew DEF Unadmitted
<1>5. mine \subseteq live /\ live \subseteq Sessions
  BY DEF Typed
<1>6. QED BY <1>2, <1>4, <1>5

\* The token a call inserts is new.
LEMMA MintedToken ==
  ASSUME Typed, CallInv, CountInv, RowLocks, NEW c \in Calls, NEW s \in sess[c],
         Issue(c, s) \/ (Mint(c, s) /\ ~Refuse(c))
  PROVE  /\ minted' = [minted EXCEPT ![c] = {NextToken(s)}] /\ issued' = issued \cup {NextToken(s)}
         /\ NextToken(s) \in Tokens \ issued /\ SessionOf(NextToken(s)) = s
         /\ s \in known /\ \A o \in Calls \ {c} : s \notin removed[o]
<1>1. s \in known
  <2>1. CASE Issue(c, s)
    BY <2>1 DEF Issue, CallInv, CallOk, HasRow, LabelsOf, Typed, Kinds, Deciders
  <2>2. CASE Mint(c, s) /\ ~Refuse(c)
    BY <2>2 DEF Mint, Typed
  <2>3. QED BY <2>1, <2>2
<1>2. c \in Unminted
  BY DEF Issue, Mint, CallInv, CallOk, LabelsOf, Typed, Kinds, Deciders, Unminted
<1>3. NextToken(s) \in Tokens \ issued /\ SessionOf(NextToken(s)) = s
  BY <1>1, <1>2, NextTokenNew DEF Typed
<1>4. \A o \in Calls \ {c} : s \notin removed[o]
  <2>1. CASE Issue(c, s)
    <3>1. s \in touched[c]
      BY <2>1 DEF Issue, CallInv, CallOk, HasRow, LabelsOf, Typed, Kinds, Deciders
    <3>2. QED BY <3>1 DEF RowLocks
  <2>2. CASE Mint(c, s) /\ ~Refuse(c)
    BY <2>2 DEF Mint, Removers
  <2>3. QED BY <2>1, <2>2
<1>5. QED BY <1>1, <1>3, <1>4 DEF Issue, Mint


-----------------------------------------------------------------------------
(*****************************************************************************)
(* Rows.                                                                    *)
(*****************************************************************************)
\* A row that a transaction deletes stays its own.
LEMMA RowsStep == Typed /\ CallInv /\ CountInv /\ RowLocks /\ [Next]_vars => RowLocks'
<1> SUFFICES ASSUME Typed, CallInv, CountInv, RowLocks, [Next]_vars PROVE RowLocks'
  OBVIOUS
<1> USE DEF Typed, RowLocks
<1>1. ASSUME NEW c \in Calls, NEW d \in Devices, Login(c, d) PROVE RowLocks'
  BY <1>1 DEF Login, Begin, Goto
<1>2. ASSUME NEW c \in Calls, NEW d \in Devices, Revoke(c, d) PROVE RowLocks'
  BY <1>2 DEF Revoke, Begin, Goto
<1>3. ASSUME NEW c \in Calls, NEW s \in known, Request(c, s) PROVE RowLocks'
  BY <1>3 DEF Request, Begin, Goto
<1>4. ASSUME NEW c \in Calls, NEW s \in known, Logout(c, s) PROVE RowLocks'
  BY <1>4 DEF Logout, Begin, Goto
<1>5. ASSUME NEW c \in Calls, NEW t \in issued, Refresh(c, t) PROVE RowLocks'
  BY <1>5 DEF Refresh, Begin, Goto
<1>6. ASSUME NEW c \in Calls, NEW v, Expel(c, v) PROVE RowLocks'
  BY <1>6 DEF Expel, Begin, Goto
<1>7. ASSUME NEW c \in Calls, NEW v, Edit(c, v) PROVE RowLocks'
  BY <1>7 DEF Edit, Goto
<1>8. ASSUME NEW c \in Calls, Unblock(c) PROVE RowLocks'
  BY <1>8 DEF Unblock, Begin, Goto
<1>9. ASSUME NEW c \in Calls, LockUser(c), ~Refuse(c) PROVE RowLocks'
  BY <1>9 DEF LockUser, Goto
<1>10. ASSUME NEW c \in Calls, NEW d \in Devices, Upsert(c, d) PROVE RowLocks'
  <2>1. PICK row \in SUBSET Sessions :
          /\ sess' = [sess EXCEPT ![c] = row] /\ touched' = [touched EXCEPT ![c] = row]
          /\ known' = known \cup row
          /\ \/ row \subseteq live /\ \A s \in row : Writers(c, s) = {}
             \/ row = {NextSession(d)} /\ NextSession(d) \notin known
    BY <1>10, UpsertRow
  <2>2. removed' = removed /\ minted' = minted
    BY <1>10 DEF Upsert
  <2>3. \A o \in Calls \ {c} : row \cap removed[o] = {}
    BY <2>1 DEF Writers
  <2>4. QED BY <2>1, <2>2, <2>3
<1>11. ASSUME NEW c \in Calls, NEW d \in Devices, DeleteDevice(c, d) PROVE RowLocks'
  BY <1>11 DEF DeleteDevice, Goto
<1>12. ASSUME NEW c \in Calls, NEW E \in SUBSET live, Evict(c, E) PROVE RowLocks'
  <2>1. removed' = [removed EXCEPT ![c] = E] /\ UNCHANGED <<touched, minted>> /\ \A s \in E : Holders(c, s) = {}
    BY <1>12 DEF Evict
  <2>2. \A o \in Calls \ {c} : E \cap (touched[o] \cup removed[o]) = {} /\ \A t \in minted[o] : SessionOf(t) \notin E
    BY <2>1 DEF Holders
  <2>3. QED BY <2>1, <2>2
<1>13. ASSUME NEW c \in Calls, NEW s \in sess[c], Issue(c, s) PROVE RowLocks'
  <2>1. /\ minted' = [minted EXCEPT ![c] = {NextToken(s)}] /\ issued' = issued \cup {NextToken(s)}
        /\ NextToken(s) \in Tokens \ issued /\ SessionOf(NextToken(s)) = s
        /\ s \in known /\ \A o \in Calls \ {c} : s \notin removed[o]
    BY <1>13, MintedToken
  <2>2. QED BY <1>13, <2>1 DEF Issue
<1>14. ASSUME NEW c \in Calls, NEW s \in sess[c], Mint(c, s), ~Refuse(c) PROVE RowLocks'
  <2>1. /\ minted' = [minted EXCEPT ![c] = {NextToken(s)}] /\ issued' = issued \cup {NextToken(s)}
        /\ NextToken(s) \in Tokens \ issued /\ SessionOf(NextToken(s)) = s
        /\ s \in known /\ \A o \in Calls \ {c} : s \notin removed[o]
    BY <1>14, MintedToken
  <2>2. QED BY <1>14, <2>1 DEF Mint
<1>15. ASSUME NEW c \in Calls, UpdateActivity(c) PROVE RowLocks'
  BY <1>15 DEF UpdateActivity, Writers
<1>16. ASSUME NEW c \in Calls, Store(c) PROVE RowLocks'
  BY <1>16 DEF Store, Goto
<1>17. ASSUME NEW c \in Calls, NEW t \in tok[c], LockToken(c, t), ~Refuse(c) PROVE RowLocks'
  BY <1>17 DEF LockToken, Goto
<1>18. ASSUME NEW c \in Calls, CacheAnswer(c) PROVE RowLocks'
  BY <1>18 DEF CacheAnswer, Answers, Goto
<1>19. ASSUME NEW c \in Calls, ListSessions(c) PROVE RowLocks'
  BY <1>19 DEF ListSessions, Goto
<1>20. ASSUME NEW c \in Calls, NEW s \in todo[c], Remove(c, s) PROVE RowLocks'
  <2>1. removed' = [removed EXCEPT ![c] = @ \cup ({s} \cap live)] /\ UNCHANGED <<touched, minted>> /\ Holders(c, s) = {}
    BY <1>20 DEF Remove
  <2>2. \A o \in Calls \ {c} : s \notin touched[o] \cup removed[o] /\ \A t \in minted[o] : SessionOf(t) # s
    BY <2>1 DEF Holders
  <2>3. QED BY <2>1, <2>2
<1>21. ASSUME NEW c \in Calls, Cascade(c) PROVE RowLocks'
  BY <1>21 DEF Cascade, Goto
<1>22. ASSUME NEW c \in Calls, Uncache(c) PROVE RowLocks'
  BY <1>22 DEF Uncache, Goto
<1>23. ASSUME NEW c \in Calls, Write(c), ~Refuse(c) PROVE RowLocks'
  BY <1>23 DEF Write, Goto
<1>24. ASSUME NEW c \in Calls, Commit(c) PROVE RowLocks'
  BY <1>24 DEF Commit, Cascaded, TokensOf, Written, EndTx, Goto
<1>25. ASSUME NEW c \in Calls, Refuse(c) PROVE RowLocks'
  BY <1>25 DEF Refuse, EndTx, Goto
<1>26. ASSUME NEW t \in spent, Lapse(t) PROVE RowLocks'
  BY <1>26 DEF Lapse
<1>27. CASE Forget
  BY <1>27 DEF Forget
<1>28. CASE UNCHANGED vars
  BY <1>28
<1>29. QED BY <1>1, <1>2, <1>3, <1>4, <1>5, <1>6, <1>7, <1>8, <1>9, <1>10, <1>11, <1>12,
      <1>13, <1>14, <1>15, <1>16, <1>17, <1>18, <1>19, <1>20, <1>21, <1>22, <1>23, <1>24,
      <1>25, <1>26, <1>27, <1>28 DEF Next, Start, MobileCall, AdminCall, Step, Report,
      Fault, DeadlockVictim


-----------------------------------------------------------------------------
(*****************************************************************************)
(* Typing.                                                                  *)
(*****************************************************************************)
\* Labels and kinds are those of the calls.
LEMMA LabelTypes == \A k \in Kinds : \A l \in LabelsOf(k) : l \in Labels
  BY DEF Labels

\* The parts of what is there have their types.
LEMMA PartTypes ==
  ASSUME Typed, CountInv
  PROVE  /\ \A s \in known : s \in Devices \X Nat
         /\ \A t \in issued : SessionOf(t) \in Devices \X Nat
         /\ \A d \in Devices : NextSession(d) \in Devices \X Nat
<1> USE DEF Typed
<1>1. Sessions \subseteq Devices \X Nat
  BY DEF Sessions
<1>2. \A t \in Tokens : SessionOf(t) \in Sessions
  BY DEF Tokens, SessionOf
<1>3. ASSUME NEW d \in Devices PROVE NextSession(d) \in Devices \X Nat
  <2>1. Cardinality({s \in known : DeviceOf(s) = d}) \in Nat
    BY FS_Subset, FS_CardinalityType DEF CountInv
  <2>2. QED BY <2>1 DEF NextSession
<1>4. QED BY <1>1, <1>2, <1>3

\* What a commit does to the sessions: a login adds its own.
LEMMA CommitLive ==
  ASSUME Typed, CallInv, RowLocks, NEW c \in Calls, Commit(c)
  PROVE  /\ live' \subseteq known
         /\ \A o \in Calls \ {c} : removed[o] \subseteq live'
         /\ live \ removed[c] \subseteq live'
         /\ kind[c] = "login" => live' = (live \cup sess[c]) \ removed[c] /\ sess[c] \subseteq live'
         /\ kind[c] # "login" => live' = live \ removed[c]
<1>1. kind[c] = "login" => sess[c] \subseteq known /\ removed[c] \cap sess[c] = {}
  BY DEF Commit, CallInv, CallOk, HasRow, Typed
<1>2. \A o \in Calls \ {c} : removed[o] \subseteq live /\ removed[o] \cap removed[c] = {}
  BY DEF RowLocks, Typed
<1>3. QED BY <1>1, <1>2 DEF Commit, Typed

\* Types are kept; what is new has a number in its range.
LEMMA TypeStep ==
  Typed /\ CallInv /\ RowLocks /\ TokensInv /\ CountInv /\ [Next]_vars => Typed'
<1> SUFFICES ASSUME Typed, CallInv, RowLocks, TokensInv, CountInv, [Next]_vars PROVE Typed'
  OBVIOUS
<1> USE DEF Typed, Incidents, Deciders
<1>1. ASSUME NEW c \in Calls, NEW d \in Devices, Login(c, d) PROVE Typed'
  BY <1>1, PartTypes, BoundAssumption DEF Login, Begin, Goto, Labels, LabelsOf, Kinds
<1>2. ASSUME NEW c \in Calls, NEW d \in Devices, Revoke(c, d) PROVE Typed'
  BY <1>2, PartTypes, BoundAssumption DEF Revoke, Begin, Goto, Labels, LabelsOf, Kinds
<1>3. ASSUME NEW c \in Calls, NEW s \in known, Request(c, s) PROVE Typed'
  BY <1>3, PartTypes, BoundAssumption DEF Request, Begin, Goto, Labels, LabelsOf, Kinds
<1>4. ASSUME NEW c \in Calls, NEW s \in known, Logout(c, s) PROVE Typed'
  BY <1>4, BoundAssumption DEF Logout, Begin, Goto, Labels, LabelsOf, Kinds
<1>5. ASSUME NEW c \in Calls, NEW t \in issued, Refresh(c, t) PROVE Typed'
  BY <1>5, PartTypes, BoundAssumption DEF Refresh, Begin, Goto, Labels, LabelsOf, Kinds
<1>6. ASSUME NEW c \in Calls, NEW v, Expel(c, v) PROVE Typed'
  BY <1>6, BoundAssumption DEF Expel, Begin, Goto, Labels, LabelsOf, Kinds
<1>7. ASSUME NEW c \in Calls, NEW v, Edit(c, v) PROVE Typed'
  BY <1>7, BoundAssumption DEF Edit, Goto, Labels, LabelsOf, Kinds
<1>8. ASSUME NEW c \in Calls, Unblock(c) PROVE Typed'
  BY <1>8, BoundAssumption DEF Unblock, Begin, Goto, Labels, LabelsOf, Kinds
<1>9. ASSUME NEW c \in Calls, LockUser(c), ~Refuse(c) PROVE Typed'
  BY <1>9, BoundAssumption DEF LockUser, Goto, Labels, LabelsOf, Kinds
<1>10. ASSUME NEW c \in Calls, NEW d \in Devices, Upsert(c, d) PROVE Typed'
  <2>1. PICK row \in SUBSET Sessions :
          /\ sess' = [sess EXCEPT ![c] = row] /\ touched' = [touched EXCEPT ![c] = row]
          /\ known' = known \cup row
          /\ \/ row \subseteq live /\ \A s \in row : Writers(c, s) = {}
             \/ row = {NextSession(d)} /\ NextSession(d) \notin known
    BY <1>10, UpsertRow
  <2>2. row \subseteq known' /\ row \in SUBSET (Devices \X Nat) /\ row \subseteq Sessions
    BY <2>1 DEF Sessions
  <2>3. QED BY <1>10, <2>1, <2>2 DEF Upsert, Goto, Labels, LabelsOf, Kinds
<1>11. ASSUME NEW c \in Calls, NEW d \in Devices, DeleteDevice(c, d) PROVE Typed'
  BY <1>11, BoundAssumption DEF DeleteDevice, Goto, Labels, LabelsOf, Kinds
<1>12. ASSUME NEW c \in Calls, NEW E \in SUBSET live, Evict(c, E) PROVE Typed'
  BY <1>12, BoundAssumption DEF Evict, Goto, Labels, LabelsOf, Kinds
<1>13. ASSUME NEW c \in Calls, NEW s \in sess[c], Issue(c, s) PROVE Typed'
  <2>1. /\ minted' = [minted EXCEPT ![c] = {NextToken(s)}] /\ issued' = issued \cup {NextToken(s)}
        /\ NextToken(s) \in Tokens \ issued /\ SessionOf(NextToken(s)) = s
        /\ s \in known /\ \A o \in Calls \ {c} : s \notin removed[o]
    BY <1>13, MintedToken
  <2>2. QED BY <1>13, <2>1 DEF Issue, Goto, Labels, LabelsOf, Kinds
<1>14. ASSUME NEW c \in Calls, NEW s \in sess[c], Mint(c, s), ~Refuse(c) PROVE Typed'
  <2>1. /\ minted' = [minted EXCEPT ![c] = {NextToken(s)}] /\ issued' = issued \cup {NextToken(s)}
        /\ NextToken(s) \in Tokens \ issued /\ SessionOf(NextToken(s)) = s
        /\ s \in known /\ \A o \in Calls \ {c} : s \notin removed[o]
    BY <1>14, MintedToken
  <2>2. QED BY <1>14, <2>1 DEF Mint, Goto, Labels, LabelsOf, Kinds
<1>15. ASSUME NEW c \in Calls, UpdateActivity(c) PROVE Typed'
  BY <1>15, BoundAssumption DEF UpdateActivity, Goto, Labels, LabelsOf, Kinds
<1>16. ASSUME NEW c \in Calls, Store(c) PROVE Typed'
  <2>1. sess[c] \subseteq known
    BY <1>16 DEF Store, CallInv, CallOk, LabelsOf, Kinds
  <2>2. QED BY <1>16, <2>1, BoundAssumption DEF Store, Goto, Labels, LabelsOf, Kinds
<1>17. ASSUME NEW c \in Calls, NEW t \in tok[c], LockToken(c, t), ~Refuse(c) PROVE Typed'
  BY <1>17, BoundAssumption DEF LockToken, Goto, Labels, LabelsOf, Kinds
<1>18. ASSUME NEW c \in Calls, CacheAnswer(c) PROVE Typed'
  BY <1>18, BoundAssumption DEF CacheAnswer, Answers, Goto, Labels, LabelsOf, Kinds
<1>19. ASSUME NEW c \in Calls, ListSessions(c) PROVE Typed'
  BY <1>19, BoundAssumption DEF ListSessions, Goto, Labels, LabelsOf, Kinds
<1>20. ASSUME NEW c \in Calls, NEW s \in todo[c], Remove(c, s) PROVE Typed'
  BY <1>20, BoundAssumption DEF Remove, Labels, LabelsOf, Kinds
<1>21. ASSUME NEW c \in Calls, Cascade(c) PROVE Typed'
  BY <1>21, BoundAssumption DEF Cascade, Goto, Labels, LabelsOf, Kinds
<1>22. ASSUME NEW c \in Calls, Uncache(c) PROVE Typed'
  BY <1>22, BoundAssumption DEF Uncache, Goto, Labels, LabelsOf, Kinds
<1>23. ASSUME NEW c \in Calls, Write(c), ~Refuse(c) PROVE Typed'
  BY <1>23, BoundAssumption DEF Write, Goto, Labels, LabelsOf, Kinds
<1>24. ASSUME NEW c \in Calls, Commit(c) PROVE Typed'
  <2>1. /\ live' \subseteq known /\ \A o \in Calls \ {c} : removed[o] \subseteq live'
        /\ removed' = [removed EXCEPT ![c] = {}]
    BY <1>24, CommitLive DEF Commit, EndTx
  <2>2. removed' \in [Calls -> SUBSET live']
    BY <2>1
  <2>3. user' \in {"active", "blocked", "deleted"}
    BY <1>24 DEF Commit, Written
  <2>4. fresh' \subseteq issued /\ spent' \subseteq issued /\ successors' \subseteq issued \X issued
    BY <1>24 DEF Commit
  <2>5. QED BY <1>24, <2>1, <2>2, <2>3, <2>4 DEF Commit, EndTx, Goto, Labels, LabelsOf,
        Kinds
<1>25. ASSUME NEW c \in Calls, Refuse(c) PROVE Typed'
  BY <1>25, BoundAssumption DEF Refuse, EndTx, Goto, Labels, LabelsOf, Kinds
<1>26. ASSUME NEW t \in spent, Lapse(t) PROVE Typed'
  BY <1>26, BoundAssumption DEF Lapse, Labels, LabelsOf, Kinds
<1>27. CASE Forget
  BY <1>27, BoundAssumption DEF Forget, Labels, LabelsOf, Kinds
<1>28. CASE UNCHANGED vars
  BY <1>28 DEF Labels, LabelsOf, Kinds
<1> HIDE DEF Typed
<1>29. QED BY <1>1, <1>2, <1>3, <1>4, <1>5, <1>6, <1>7, <1>8, <1>9, <1>10, <1>11, <1>12,
      <1>13, <1>14, <1>15, <1>16, <1>17, <1>18, <1>19, <1>20, <1>21, <1>22, <1>23, <1>24,
      <1>25, <1>26, <1>27, <1>28 DEF Next, Start, MobileCall, AdminCall, Step, Report,
      Fault, DeadlockVictim


-----------------------------------------------------------------------------
(*****************************************************************************)
(* The statements of a call.                                                *)
(*****************************************************************************)
\* A call that takes no step stays as it is, as long as no session that it has a new
\* token for goes.
LEMMA CallKept ==
  ASSUME NEW o \in Calls, CallOk(o), past \subseteq past', known \subseteq known',
         kind'[o] = kind[o], pc'[o] = pc[o], verdict'[o] = verdict[o], sess'[o] = sess[o], tok'[o] = tok[o],
         todo'[o] = todo[o], touched'[o] = touched[o], removed'[o] = removed[o],
         minted'[o] = minted[o], marked'[o] = marked[o],
         \A t \in minted[o] : SessionOf(t) \in live => SessionOf(t) \in live'
  PROVE  CallOk(o)'
<1>1. (Exchanging(o)' <=> Exchanging(o)) /\ (HasRow(o)' <=> HasRow(o)) /\ (HasToken(o)' <=> HasToken(o))
  BY DEF Exchanging, HasRow, HasToken
<1> HIDE DEF Exchanging, HasRow, HasToken
<1>2. QED BY <1>1 DEF CallOk

\* Each step of a call leaves its variables as the next statement needs them.
LEMMA CallStep == Typed /\ CallInv /\ RowLocks /\ CountInv /\ [Next]_vars => CallInv'
<1> SUFFICES ASSUME Typed, CallInv, RowLocks, CountInv, [Next]_vars PROVE CallInv'
  OBVIOUS
<1> USE DEF Typed, Kinds, Deciders
<1>1. ASSUME NEW c \in Calls, NEW d \in Devices, Login(c, d) PROVE CallInv'
  <2>11. ASSUME NEW o \in Calls \ {c} PROVE CallOk(o)'
    <3>1. CallOk(o)
      BY DEF CallInv
    <3>2. QED BY <1>1, <3>1, CallKept DEF Login, Begin, Goto
  <2>12. CallOk(c)'
    <3>1. CallOk(c)
      BY DEF CallInv
    <3>2. QED BY <1>1, <3>1 DEF Login, Begin, Goto, CallOk, LabelsOf, VerdictsOf,
          Exchanging, HasRow, HasToken
  <2>13. QED BY <2>11, <2>12 DEF CallInv
<1>2. ASSUME NEW c \in Calls, NEW d \in Devices, Revoke(c, d) PROVE CallInv'
  <2>11. ASSUME NEW o \in Calls \ {c} PROVE CallOk(o)'
    <3>1. CallOk(o)
      BY DEF CallInv
    <3>2. QED BY <1>2, <3>1, CallKept DEF Revoke, Begin, Goto
  <2>12. CallOk(c)'
    <3>1. CallOk(c)
      BY DEF CallInv
    <3>2. QED BY <1>2, <3>1 DEF Revoke, Begin, Goto, CallOk, LabelsOf, VerdictsOf,
          Exchanging, HasRow, HasToken
  <2>13. QED BY <2>11, <2>12 DEF CallInv
<1>3. ASSUME NEW c \in Calls, NEW s \in known, Request(c, s) PROVE CallInv'
  <2>11. ASSUME NEW o \in Calls \ {c} PROVE CallOk(o)'
    <3>1. CallOk(o)
      BY DEF CallInv
    <3>2. QED BY <1>3, <3>1, CallKept DEF Request, Begin, Goto
  <2>12. CallOk(c)'
    <3>1. CallOk(c)
      BY DEF CallInv
    <3>2. QED BY <1>3, <3>1 DEF Request, Begin, Goto, CallOk, LabelsOf, VerdictsOf,
          Exchanging, HasRow, HasToken
  <2>13. QED BY <2>11, <2>12 DEF CallInv
<1>4. ASSUME NEW c \in Calls, NEW s \in known, Logout(c, s) PROVE CallInv'
  <2>11. ASSUME NEW o \in Calls \ {c} PROVE CallOk(o)'
    <3>1. CallOk(o)
      BY DEF CallInv
    <3>2. QED BY <1>4, <3>1, CallKept DEF Logout, Begin, Goto
  <2>12. CallOk(c)'
    <3>1. CallOk(c)
      BY DEF CallInv
    <3>2. QED BY <1>4, <3>1 DEF Logout, Begin, Goto, CallOk, LabelsOf, VerdictsOf,
          Exchanging, HasRow, HasToken
  <2>13. QED BY <2>11, <2>12 DEF CallInv
<1>5. ASSUME NEW c \in Calls, NEW t \in issued, Refresh(c, t) PROVE CallInv'
  <2>11. ASSUME NEW o \in Calls \ {c} PROVE CallOk(o)'
    <3>1. CallOk(o)
      BY DEF CallInv
    <3>2. QED BY <1>5, <3>1, CallKept DEF Refresh, Begin, Goto
  <2>12. CallOk(c)'
    <3>1. CallOk(c)
      BY DEF CallInv
    <3>2. QED BY <1>5, <3>1 DEF Refresh, Begin, Goto, CallOk, LabelsOf, VerdictsOf,
          Exchanging, HasRow, HasToken
  <2>13. QED BY <2>11, <2>12 DEF CallInv
<1>6. ASSUME NEW c \in Calls, NEW v, Expel(c, v) PROVE CallInv'
  <2>11. ASSUME NEW o \in Calls \ {c} PROVE CallOk(o)'
    <3>1. CallOk(o)
      BY DEF CallInv
    <3>2. QED BY <1>6, <3>1, CallKept DEF Expel, Begin, Goto
  <2>12. CallOk(c)'
    <3>1. CallOk(c)
      BY DEF CallInv
    <3>2. QED BY <1>6, <3>1 DEF Expel, Begin, Goto, CallOk, LabelsOf, VerdictsOf,
          Exchanging, HasRow, HasToken
  <2>13. QED BY <2>11, <2>12 DEF CallInv
<1>7. ASSUME NEW c \in Calls, NEW v, Edit(c, v) PROVE CallInv'
  <2>11. ASSUME NEW o \in Calls \ {c} PROVE CallOk(o)'
    <3>1. CallOk(o)
      BY DEF CallInv
    <3>2. QED BY <1>7, <3>1, CallKept DEF Edit, Goto
  <2>12. CallOk(c)'
    <3>1. CallOk(c)
      BY DEF CallInv
    <3>2. QED BY <1>7, <3>1 DEF Edit, Goto, CallOk, LabelsOf, VerdictsOf, Exchanging,
          HasRow, HasToken
  <2>13. QED BY <2>11, <2>12 DEF CallInv
<1>8. ASSUME NEW c \in Calls, Unblock(c) PROVE CallInv'
  <2>11. ASSUME NEW o \in Calls \ {c} PROVE CallOk(o)'
    <3>1. CallOk(o)
      BY DEF CallInv
    <3>2. QED BY <1>8, <3>1, CallKept DEF Unblock, Begin, Goto
  <2>12. CallOk(c)'
    <3>1. CallOk(c)
      BY DEF CallInv
    <3>2. QED BY <1>8, <3>1 DEF Unblock, Begin, Goto, CallOk, LabelsOf, VerdictsOf,
          Exchanging, HasRow, HasToken
  <2>13. QED BY <2>11, <2>12 DEF CallInv
<1>9. ASSUME NEW c \in Calls, LockUser(c), ~Refuse(c) PROVE CallInv'
  <2>11. ASSUME NEW o \in Calls \ {c} PROVE CallOk(o)'
    <3>1. CallOk(o)
      BY DEF CallInv
    <3>2. QED BY <1>9, <3>1, CallKept DEF LockUser, Goto
  <2>12. CallOk(c)'
    <3>1. CallOk(c)
      BY DEF CallInv
    <3>2. QED BY <1>9, <3>1 DEF LockUser, Goto, CallOk, LabelsOf, VerdictsOf, Exchanging,
          HasRow, HasToken
  <2>13. QED BY <2>11, <2>12 DEF CallInv
<1>10. ASSUME NEW c \in Calls, NEW d \in Devices, Upsert(c, d) PROVE CallInv'
  <2>1. PICK row \in SUBSET Sessions :
          /\ sess' = [sess EXCEPT ![c] = row] /\ touched' = [touched EXCEPT ![c] = row]
          /\ known' = known \cup row
          /\ \/ row \subseteq live /\ \A s \in row : Writers(c, s) = {}
             \/ row = {NextSession(d)} /\ NextSession(d) \notin known
    BY <1>10, UpsertRow
  <2>11. ASSUME NEW o \in Calls \ {c} PROVE CallOk(o)'
    <3>1. CallOk(o)
      BY DEF CallInv
    <3>2. QED BY <1>10, <3>1, CallKept, <2>1 DEF Upsert, Goto
  <2>12. CallOk(c)'
    <3>1. CallOk(c)
      BY DEF CallInv
    <3>2. QED BY <1>10, <3>1, <2>1 DEF Upsert, Goto, CallOk, LabelsOf, VerdictsOf,
          Exchanging, HasRow, HasToken
  <2>13. QED BY <2>11, <2>12 DEF CallInv
<1>11. ASSUME NEW c \in Calls, NEW d \in Devices, DeleteDevice(c, d) PROVE CallInv'
  <2>11. ASSUME NEW o \in Calls \ {c} PROVE CallOk(o)'
    <3>1. CallOk(o)
      BY DEF CallInv
    <3>2. QED BY <1>11, <3>1, CallKept DEF DeleteDevice, Goto
  <2>12. CallOk(c)'
    <3>1. CallOk(c)
      BY DEF CallInv
    <3>2. QED BY <1>11, <3>1 DEF DeleteDevice, Goto, CallOk, LabelsOf, VerdictsOf,
          Exchanging, HasRow, HasToken
  <2>13. QED BY <2>11, <2>12 DEF CallInv
<1>12. ASSUME NEW c \in Calls, NEW E \in SUBSET live, Evict(c, E) PROVE CallInv'
  <2>11. ASSUME NEW o \in Calls \ {c} PROVE CallOk(o)'
    <3>1. CallOk(o)
      BY DEF CallInv
    <3>2. QED BY <1>12, <3>1, CallKept DEF Evict, Goto
  <2>12. CallOk(c)'
    <3>1. CallOk(c)
      BY DEF CallInv
    <3>2. QED BY <1>12, <3>1 DEF Evict, Goto, CallOk, LabelsOf, VerdictsOf, Exchanging,
          HasRow, HasToken
  <2>13. QED BY <2>11, <2>12 DEF CallInv
<1>13. ASSUME NEW c \in Calls, NEW s \in sess[c], Issue(c, s) PROVE CallInv'
  <2>1. /\ minted' = [minted EXCEPT ![c] = {NextToken(s)}] /\ issued' = issued \cup {NextToken(s)}
        /\ NextToken(s) \in Tokens \ issued /\ SessionOf(NextToken(s)) = s
        /\ s \in known /\ \A o \in Calls \ {c} : s \notin removed[o]
    BY <1>13, MintedToken
  <2>11. ASSUME NEW o \in Calls \ {c} PROVE CallOk(o)'
    <3>1. CallOk(o)
      BY DEF CallInv
    <3>2. QED BY <1>13, <3>1, CallKept, <2>1 DEF Issue, Goto
  <2>12. CallOk(c)'
    <3>1. CallOk(c)
      BY DEF CallInv
    <3>2. QED BY <1>13, <3>1, <2>1 DEF Issue, Goto, CallOk, LabelsOf, VerdictsOf,
          Exchanging, HasRow, HasToken
  <2>13. QED BY <2>11, <2>12 DEF CallInv
<1>14. ASSUME NEW c \in Calls, NEW s \in sess[c], Mint(c, s), ~Refuse(c) PROVE CallInv'
  <2>1. /\ minted' = [minted EXCEPT ![c] = {NextToken(s)}] /\ issued' = issued \cup {NextToken(s)}
        /\ NextToken(s) \in Tokens \ issued /\ SessionOf(NextToken(s)) = s
        /\ s \in known /\ \A o \in Calls \ {c} : s \notin removed[o]
    BY <1>14, MintedToken
  <2>11. ASSUME NEW o \in Calls \ {c} PROVE CallOk(o)'
    <3>1. CallOk(o)
      BY DEF CallInv
    <3>2. QED BY <1>14, <3>1, CallKept, <2>1 DEF Mint, Goto
  <2>12. CallOk(c)'
    <3>1. CallOk(c)
      BY DEF CallInv
    <3>2. QED BY <1>14, <3>1, <2>1 DEF Mint, Goto, CallOk, LabelsOf, VerdictsOf,
          Exchanging, HasRow, HasToken
  <2>13. QED BY <2>11, <2>12 DEF CallInv
<1>15. ASSUME NEW c \in Calls, UpdateActivity(c) PROVE CallInv'
  <2>11. ASSUME NEW o \in Calls \ {c} PROVE CallOk(o)'
    <3>1. CallOk(o)
      BY DEF CallInv
    <3>2. QED BY <1>15, <3>1, CallKept DEF UpdateActivity, Goto
  <2>12. CallOk(c)'
    <3>1. CallOk(c)
      BY DEF CallInv
    <3>2. QED BY <1>15, <3>1 DEF UpdateActivity, Goto, CallOk, LabelsOf, VerdictsOf,
          Exchanging, HasRow, HasToken
  <2>13. QED BY <2>11, <2>12 DEF CallInv
<1>16. ASSUME NEW c \in Calls, Store(c) PROVE CallInv'
  <2>11. ASSUME NEW o \in Calls \ {c} PROVE CallOk(o)'
    <3>1. CallOk(o)
      BY DEF CallInv
    <3>2. QED BY <1>16, <3>1, CallKept DEF Store, Goto
  <2>12. CallOk(c)'
    <3>1. CallOk(c)
      BY DEF CallInv
    <3>2. QED BY <1>16, <3>1 DEF Store, Goto, CallOk, LabelsOf, VerdictsOf, Exchanging,
          HasRow, HasToken
  <2>13. QED BY <2>11, <2>12 DEF CallInv
<1>17. ASSUME NEW c \in Calls, NEW t \in tok[c], LockToken(c, t), ~Refuse(c) PROVE CallInv'
  <2>11. ASSUME NEW o \in Calls \ {c} PROVE CallOk(o)'
    <3>1. CallOk(o)
      BY DEF CallInv
    <3>2. QED BY <1>17, <3>1, CallKept DEF LockToken, Goto
  <2>12. CallOk(c)'
    <3>1. CallOk(c) /\ pc[c] = "token" /\ kind[c] = "refresh" /\ tok[c] = {t}
      BY <1>17 DEF CallInv, CallOk, LockToken, LabelsOf
    <3>2. removed[c] = {} /\ todo[c] = {} /\ minted[c] = {} /\ marked[c] = {} /\ touched[c] = {}
      BY <3>1 DEF CallOk, HasToken, HasRow, Exchanging
    <3>3. CASE marked' = [marked EXCEPT ![c] = {t}] /\ Goto(c, "mint") /\ UNCHANGED <<world, kind, sess, tok, todo, touched, removed, minted, verdict, live>>
      BY <3>1, <3>2, <3>3 DEF Goto, CallOk, LabelsOf, VerdictsOf, Exchanging, HasRow,
         HasToken
    <3>4. CASE todo' = [todo EXCEPT ![c] = {SessionOf(t)}] /\ Goto(c, "remove") /\ UNCHANGED <<world, kind, sess, tok, touched, removed, minted, marked, verdict, live>>
      BY <3>1, <3>2, <3>4 DEF Goto, CallOk, LabelsOf, VerdictsOf, Exchanging, HasRow,
         HasToken
    <3>5. QED BY <1>17, <3>3, <3>4 DEF LockToken
  <2>13. QED BY <2>11, <2>12 DEF CallInv
<1>18. ASSUME NEW c \in Calls, CacheAnswer(c) PROVE CallInv'
  <2>11. ASSUME NEW o \in Calls \ {c} PROVE CallOk(o)'
    <3>1. CallOk(o)
      BY DEF CallInv
    <3>2. QED BY <1>18, <3>1, CallKept DEF CacheAnswer, Answers, Goto
  <2>12. CallOk(c)'
    <3>1. CallOk(c)
      BY DEF CallInv
    <3>2. QED BY <1>18, <3>1 DEF CacheAnswer, Answers, Goto, CallOk, LabelsOf, VerdictsOf,
          Exchanging, HasRow, HasToken
  <2>13. QED BY <2>11, <2>12 DEF CallInv
<1>19. ASSUME NEW c \in Calls, ListSessions(c) PROVE CallInv'
  <2>11. ASSUME NEW o \in Calls \ {c} PROVE CallOk(o)'
    <3>1. CallOk(o)
      BY DEF CallInv
    <3>2. QED BY <1>19, <3>1, CallKept DEF ListSessions, Goto
  <2>12. CallOk(c)'
    <3>1. CallOk(c)
      BY DEF CallInv
    <3>2. QED BY <1>19, <3>1 DEF ListSessions, Goto, CallOk, LabelsOf, VerdictsOf,
          Exchanging, HasRow, HasToken
  <2>13. QED BY <2>11, <2>12 DEF CallInv
<1>20. ASSUME NEW c \in Calls, NEW s \in todo[c], Remove(c, s) PROVE CallInv'
  <2>11. ASSUME NEW o \in Calls \ {c} PROVE CallOk(o)'
    <3>1. CallOk(o)
      BY DEF CallInv
    <3>2. QED BY <1>20, <3>1, CallKept DEF Remove
  <2>12. CallOk(c)'
    <3>1. CallOk(c)
      BY DEF CallInv
    <3>2. QED BY <1>20, <3>1 DEF Remove, CallOk, LabelsOf, VerdictsOf, Exchanging, HasRow,
          HasToken
  <2>13. QED BY <2>11, <2>12 DEF CallInv
<1>21. ASSUME NEW c \in Calls, Cascade(c) PROVE CallInv'
  <2>11. ASSUME NEW o \in Calls \ {c} PROVE CallOk(o)'
    <3>1. CallOk(o)
      BY DEF CallInv
    <3>2. QED BY <1>21, <3>1, CallKept DEF Cascade, Goto
  <2>12. CallOk(c)'
    <3>1. CallOk(c)
      BY DEF CallInv
    <3>2. QED BY <1>21, <3>1 DEF Cascade, Goto, CallOk, LabelsOf, VerdictsOf, Exchanging,
          HasRow, HasToken
  <2>13. QED BY <2>11, <2>12 DEF CallInv
<1>22. ASSUME NEW c \in Calls, Uncache(c) PROVE CallInv'
  <2>11. ASSUME NEW o \in Calls \ {c} PROVE CallOk(o)'
    <3>1. CallOk(o)
      BY DEF CallInv
    <3>2. QED BY <1>22, <3>1, CallKept DEF Uncache, Goto
  <2>12. CallOk(c)'
    <3>1. CallOk(c)
      BY DEF CallInv
    <3>2. QED BY <1>22, <3>1 DEF Uncache, Goto, CallOk, LabelsOf, VerdictsOf, Exchanging,
          HasRow, HasToken
  <2>13. QED BY <2>11, <2>12 DEF CallInv
<1>23. ASSUME NEW c \in Calls, Write(c), ~Refuse(c) PROVE CallInv'
  <2>11. ASSUME NEW o \in Calls \ {c} PROVE CallOk(o)'
    <3>1. CallOk(o)
      BY DEF CallInv
    <3>2. QED BY <1>23, <3>1, CallKept DEF Write, Goto
  <2>12. CallOk(c)'
    <3>1. CallOk(c)
      BY DEF CallInv
    <3>2. QED BY ZenonT(40), <1>23, <3>1 DEF Write, Goto, CallOk, LabelsOf, VerdictsOf, Exchanging,
          HasRow, HasToken
  <2>13. QED BY <2>11, <2>12 DEF CallInv
<1>24. ASSUME NEW c \in Calls, Commit(c) PROVE CallInv'
  <2>1. live \ removed[c] \subseteq live'
    BY <1>24, CommitLive
  <2>2. \A o \in Calls \ {c} : \A t \in minted[o] : SessionOf(t) \notin removed[c]
    BY DEF RowLocks
  <2>11. ASSUME NEW o \in Calls \ {c} PROVE CallOk(o)'
    <3>1. CallOk(o)
      BY DEF CallInv
    <3>2. QED BY <1>24, <3>1, CallKept, <2>1, <2>2 DEF Commit, EndTx, Goto
  <2>12. CallOk(c)'
    <3>1. CallOk(c)
      BY DEF CallInv
    <3>2. QED BY <1>24, <3>1, <2>1, <2>2 DEF Commit, EndTx, Goto, CallOk, LabelsOf,
          VerdictsOf, Exchanging, HasRow, HasToken
  <2>13. QED BY <2>11, <2>12 DEF CallInv
<1>25. ASSUME NEW c \in Calls, Refuse(c) PROVE CallInv'
  <2>11. ASSUME NEW o \in Calls \ {c} PROVE CallOk(o)'
    <3>1. CallOk(o)
      BY DEF CallInv
    <3>2. QED BY <1>25, <3>1, CallKept DEF Refuse, EndTx, Goto
  <2>12. CallOk(c)'
    <3>1. CallOk(c)
      BY DEF CallInv
    <3>2. QED BY <1>25, <3>1 DEF Refuse, EndTx, Goto, CallOk, LabelsOf, VerdictsOf,
          Exchanging, HasRow, HasToken
  <2>13. QED BY <2>11, <2>12 DEF CallInv
<1>26. ASSUME NEW t \in spent, Lapse(t) PROVE CallInv'
  <2>1. ASSUME NEW o \in Calls PROVE CallOk(o)'
    <3>1. CallOk(o)
      BY DEF CallInv
    <3>2. QED BY <1>26, <3>1, CallKept DEF Lapse
  <2>2. QED BY <2>1 DEF CallInv
<1>27. CASE Forget
  <2>1. ASSUME NEW o \in Calls PROVE CallOk(o)'
    <3>1. CallOk(o)
      BY DEF CallInv
    <3>2. QED BY <1>27, <3>1, CallKept DEF Forget
  <2>2. QED BY <2>1 DEF CallInv
<1>28. CASE UNCHANGED vars
  <2>1. ASSUME NEW o \in Calls PROVE CallOk(o)'
    <3>1. CallOk(o)
      BY DEF CallInv
    <3>2. QED BY <1>28, <3>1, CallKept
  <2>2. QED BY <2>1 DEF CallInv
<1> HIDE DEF CallInv
<1>29. QED BY <1>1, <1>2, <1>3, <1>4, <1>5, <1>6, <1>7, <1>8, <1>9, <1>10, <1>11, <1>12,
      <1>13, <1>14, <1>15, <1>16, <1>17, <1>18, <1>19, <1>20, <1>21, <1>22, <1>23, <1>24,
      <1>25, <1>26, <1>27, <1>28 DEF Next, Start, MobileCall, AdminCall, Step, Report,
      Fault, DeadlockVictim


-----------------------------------------------------------------------------
(*****************************************************************************)
(* The row of the user.                                                     *)
(*****************************************************************************)
\* The row of the user is owned by one call at a time.
LEMMA UserStep == Typed /\ CallInv /\ UserInv /\ [Next]_vars => UserInv'
<1> SUFFICES ASSUME Typed, CallInv, UserInv, [Next]_vars PROVE UserInv'
  OBVIOUS
<1> USE DEF Typed, Kinds, Deciders
<1>1. ASSUME NEW c \in Calls, NEW d \in Devices, Login(c, d) PROVE UserInv'
  BY <1>1 DEF Login, Begin, Goto, UserInv, OwnsUser, CallInv, CallOk, LabelsOf, VerdictsOf
<1>2. ASSUME NEW c \in Calls, NEW d \in Devices, Revoke(c, d) PROVE UserInv'
  BY <1>2 DEF Revoke, Begin, Goto, UserInv, OwnsUser, CallInv, CallOk, LabelsOf, VerdictsOf
<1>3. ASSUME NEW c \in Calls, NEW s \in known, Request(c, s) PROVE UserInv'
  BY <1>3 DEF Request, Begin, Goto, UserInv, OwnsUser, CallInv, CallOk, LabelsOf, VerdictsOf
<1>4. ASSUME NEW c \in Calls, NEW s \in known, Logout(c, s) PROVE UserInv'
  BY <1>4 DEF Logout, Begin, Goto, UserInv, OwnsUser, CallInv, CallOk, LabelsOf, VerdictsOf
<1>5. ASSUME NEW c \in Calls, NEW t \in issued, Refresh(c, t) PROVE UserInv'
  BY <1>5 DEF Refresh, Begin, Goto, UserInv, OwnsUser, CallInv, CallOk, LabelsOf, VerdictsOf
<1>6. ASSUME NEW c \in Calls, NEW v, Expel(c, v) PROVE UserInv'
  BY <1>6 DEF Expel, Begin, Goto, UserInv, OwnsUser, CallInv, CallOk, LabelsOf, VerdictsOf
<1>7. ASSUME NEW c \in Calls, NEW v, Edit(c, v) PROVE UserInv'
  BY <1>7 DEF Edit, Goto, UserInv, OwnsUser, CallInv, CallOk, LabelsOf, VerdictsOf
<1>8. ASSUME NEW c \in Calls, Unblock(c) PROVE UserInv'
  BY <1>8 DEF Unblock, Begin, Goto, UserInv, OwnsUser, CallInv, CallOk, LabelsOf, VerdictsOf
<1>9. ASSUME NEW c \in Calls, LockUser(c), ~Refuse(c) PROVE UserInv'
  BY <1>9 DEF LockUser, Admits, Goto, UserInv, OwnsUser, CallInv, CallOk, LabelsOf,
     VerdictsOf
<1>10. ASSUME NEW c \in Calls, NEW d \in Devices, Upsert(c, d) PROVE UserInv'
  BY <1>10 DEF Upsert, Goto, UserInv, OwnsUser, CallInv, CallOk, LabelsOf, VerdictsOf
<1>11. ASSUME NEW c \in Calls, NEW d \in Devices, DeleteDevice(c, d) PROVE UserInv'
  BY <1>11 DEF DeleteDevice, Goto, UserInv, OwnsUser, CallInv, CallOk, LabelsOf, VerdictsOf
<1>12. ASSUME NEW c \in Calls, NEW E \in SUBSET live, Evict(c, E) PROVE UserInv'
  BY <1>12 DEF Evict, Goto, UserInv, OwnsUser, CallInv, CallOk, LabelsOf, VerdictsOf
<1>13. ASSUME NEW c \in Calls, NEW s \in sess[c], Issue(c, s) PROVE UserInv'
  BY <1>13 DEF Issue, Goto, UserInv, OwnsUser, CallInv, CallOk, LabelsOf, VerdictsOf
<1>14. ASSUME NEW c \in Calls, NEW s \in sess[c], Mint(c, s), ~Refuse(c) PROVE UserInv'
  BY <1>14 DEF Mint, Goto, UserInv, OwnsUser, CallInv, CallOk, LabelsOf, VerdictsOf
<1>15. ASSUME NEW c \in Calls, UpdateActivity(c) PROVE UserInv'
  BY <1>15 DEF UpdateActivity, Goto, UserInv, OwnsUser, CallInv, CallOk, LabelsOf,
     VerdictsOf
<1>16. ASSUME NEW c \in Calls, Store(c) PROVE UserInv'
  BY <1>16 DEF Store, Goto, UserInv, OwnsUser, CallInv, CallOk, LabelsOf, VerdictsOf
<1>17. ASSUME NEW c \in Calls, NEW t \in tok[c], LockToken(c, t), ~Refuse(c) PROVE UserInv'
  BY <1>17 DEF LockToken, Goto, UserInv, OwnsUser, CallInv, CallOk, LabelsOf, VerdictsOf
<1>18. ASSUME NEW c \in Calls, CacheAnswer(c) PROVE UserInv'
  BY <1>18 DEF CacheAnswer, Answers, Goto, UserInv, OwnsUser, CallInv, CallOk, LabelsOf,
     VerdictsOf
<1>19. ASSUME NEW c \in Calls, ListSessions(c) PROVE UserInv'
  BY <1>19 DEF ListSessions, Goto, UserInv, OwnsUser, CallInv, CallOk, LabelsOf, VerdictsOf
<1>20. ASSUME NEW c \in Calls, NEW s \in todo[c], Remove(c, s) PROVE UserInv'
  BY <1>20 DEF Remove, UserInv, OwnsUser, CallInv, CallOk, LabelsOf, VerdictsOf
<1>21. ASSUME NEW c \in Calls, Cascade(c) PROVE UserInv'
  BY <1>21 DEF Cascade, Goto, UserInv, OwnsUser, CallInv, CallOk, LabelsOf, VerdictsOf
<1>22. ASSUME NEW c \in Calls, Uncache(c) PROVE UserInv'
  BY <1>22 DEF Uncache, Goto, UserInv, OwnsUser, CallInv, CallOk, LabelsOf, VerdictsOf
<1>23. ASSUME NEW c \in Calls, Write(c), ~Refuse(c) PROVE UserInv'
  BY <1>23 DEF Write, Goto, UserInv, OwnsUser, CallInv, CallOk, LabelsOf, VerdictsOf
<1>24. ASSUME NEW c \in Calls, Commit(c) PROVE UserInv'
  BY SMTT(30), <1>24 DEF Commit, Cascaded, TokensOf, Written, EndTx, Goto, UserInv, OwnsUser,
     CallInv, CallOk, LabelsOf, VerdictsOf
<1>25. ASSUME NEW c \in Calls, Refuse(c) PROVE UserInv'
  BY <1>25 DEF Refuse, EndTx, Goto, UserInv, OwnsUser, CallInv, CallOk, LabelsOf, VerdictsOf
<1>26. ASSUME NEW t \in spent, Lapse(t) PROVE UserInv'
  BY <1>26 DEF Lapse, UserInv, OwnsUser, CallInv, CallOk, LabelsOf, VerdictsOf
<1>27. CASE Forget
  BY <1>27 DEF Forget, UserInv, OwnsUser, CallInv, CallOk, LabelsOf, VerdictsOf
<1>28. CASE UNCHANGED vars
  BY <1>28 DEF UserInv, OwnsUser, CallInv, CallOk, LabelsOf, VerdictsOf
<1> HIDE DEF Typed
<1>29. QED BY <1>1, <1>2, <1>3, <1>4, <1>5, <1>6, <1>7, <1>8, <1>9, <1>10, <1>11, <1>12,
      <1>13, <1>14, <1>15, <1>16, <1>17, <1>18, <1>19, <1>20, <1>21, <1>22, <1>23, <1>24,
      <1>25, <1>26, <1>27, <1>28 DEF Next, Start, MobileCall, AdminCall, Step, Report,
      Fault, DeadlockVictim


-----------------------------------------------------------------------------
(*****************************************************************************)
(* Tokens.                                                                  *)
(*****************************************************************************)
\* A token that is read with its lock stays its reader's.
LEMMA TokenLocksStep ==
  Typed /\ CallInv /\ RowLocks /\ TokenLocks /\ TokensInv /\ [Next]_vars => TokenLocks'
<1> SUFFICES ASSUME Typed, CallInv, RowLocks, TokenLocks, TokensInv, [Next]_vars
             PROVE TokenLocks'
  OBVIOUS
<1> USE DEF Typed, Kinds, Deciders
<1>1. ASSUME NEW c \in Calls, NEW d \in Devices, Login(c, d) PROVE TokenLocks'
  BY <1>1 DEF Login, Begin, Goto, TokenLocks
<1>2. ASSUME NEW c \in Calls, NEW d \in Devices, Revoke(c, d) PROVE TokenLocks'
  BY <1>2 DEF Revoke, Begin, Goto, TokenLocks
<1>3. ASSUME NEW c \in Calls, NEW s \in known, Request(c, s) PROVE TokenLocks'
  BY <1>3 DEF Request, Begin, Goto, TokenLocks
<1>4. ASSUME NEW c \in Calls, NEW s \in known, Logout(c, s) PROVE TokenLocks'
  BY <1>4 DEF Logout, Begin, Goto, TokenLocks
<1>5. ASSUME NEW c \in Calls, NEW t \in issued, Refresh(c, t) PROVE TokenLocks'
  BY <1>5 DEF Refresh, Begin, Goto, TokenLocks
<1>6. ASSUME NEW c \in Calls, NEW v, Expel(c, v) PROVE TokenLocks'
  BY <1>6 DEF Expel, Begin, Goto, TokenLocks
<1>7. ASSUME NEW c \in Calls, NEW v, Edit(c, v) PROVE TokenLocks'
  BY <1>7 DEF Edit, Goto, TokenLocks
<1>8. ASSUME NEW c \in Calls, Unblock(c) PROVE TokenLocks'
  BY <1>8 DEF Unblock, Begin, Goto, TokenLocks
<1>9. ASSUME NEW c \in Calls, LockUser(c), ~Refuse(c) PROVE TokenLocks'
  BY <1>9 DEF LockUser, Goto, TokenLocks
<1>10. ASSUME NEW c \in Calls, NEW d \in Devices, Upsert(c, d) PROVE TokenLocks'
  BY <1>10 DEF Upsert, Goto, TokenLocks
<1>11. ASSUME NEW c \in Calls, NEW d \in Devices, DeleteDevice(c, d) PROVE TokenLocks'
  BY <1>11 DEF DeleteDevice, Goto, TokenLocks
<1>12. ASSUME NEW c \in Calls, NEW E \in SUBSET live, Evict(c, E) PROVE TokenLocks'
  BY <1>12 DEF Evict, Goto, TokenLocks
<1>13. ASSUME NEW c \in Calls, NEW s \in sess[c], Issue(c, s) PROVE TokenLocks'
  BY <1>13 DEF Issue, Goto, TokenLocks
<1>14. ASSUME NEW c \in Calls, NEW s \in sess[c], Mint(c, s), ~Refuse(c) PROVE TokenLocks'
  BY <1>14 DEF Mint, Goto, TokenLocks
<1>15. ASSUME NEW c \in Calls, UpdateActivity(c) PROVE TokenLocks'
  BY <1>15 DEF UpdateActivity, Goto, TokenLocks
<1>16. ASSUME NEW c \in Calls, Store(c) PROVE TokenLocks'
  BY <1>16 DEF Store, Goto, TokenLocks
<1>17. ASSUME NEW c \in Calls, NEW t \in tok[c], LockToken(c, t), ~Refuse(c)
       PROVE TokenLocks'
  <2>1. /\ pc[c] = "token" /\ pc' \in {[pc EXCEPT ![c] = "mint"], [pc EXCEPT ![c] = "remove"]} /\ UNCHANGED <<tok, removed>>
        /\ TokenHolders(c, t) = {} /\ tok[c] = {t}
    BY <1>17 DEF LockToken, RowIsFree, Goto, CallInv, CallOk
  <2>2. \A o \in Calls \ {c} : /\ t \in tok[o] => pc[o] = "token"
                               /\ SessionOf(t) \in removed[o] => pc[o] = "remove"
    BY <2>1 DEF TokenHolders
  <2>3. removed[c] = {}
    BY <2>1 DEF CallInv, CallOk
  <2>4. \A o \in Calls \ {c} : pc'[o] = pc[o]
    BY <2>1
  <2>5. QED
    <3> SUFFICES ASSUME NEW x \in Calls, NEW o \in Calls, x # o, NEW u \in tok[x]
                   PROVE  /\ u \in tok[o] => pc'[x] = "token" \/ pc'[o] = "token"
                          /\ SessionOf(u) \in removed[o] => pc'[x] = "token" \/ pc'[o] = "remove"
      BY <2>1 DEF TokenLocks
    <3>1. tok[c] = {t} /\ removed[c] = {}
      BY <2>1, <2>3
    <3>2. CASE x = c
      <4>1. u = t /\ o \in Calls \ {c}
        BY <3>1, <3>2
      <4>2. QED BY <2>2, <2>4, <4>1
    <3>3. CASE o = c
      <4>1. SessionOf(u) \notin removed[o] /\ x \in Calls \ {c} /\ (u \in tok[o] => u = t)
        BY <3>1, <3>3
      <4>2. QED BY <2>2, <2>4, <4>1
    <3>4. CASE x # c /\ o # c
      BY <2>4, <3>4 DEF TokenLocks
    <3>5. QED BY <3>2, <3>3, <3>4
<1>18. ASSUME NEW c \in Calls, CacheAnswer(c) PROVE TokenLocks'
  BY <1>18 DEF CacheAnswer, Answers, Goto, TokenLocks
<1>19. ASSUME NEW c \in Calls, ListSessions(c) PROVE TokenLocks'
  BY <1>19 DEF ListSessions, Goto, TokenLocks
<1>20. ASSUME NEW c \in Calls, NEW s \in todo[c], Remove(c, s) PROVE TokenLocks'
  BY <1>20 DEF Remove, TokenLocks
<1>21. ASSUME NEW c \in Calls, Cascade(c) PROVE TokenLocks'
  <2>1. /\ pc' = [pc EXCEPT ![c] = "uncache"] /\ pc[c] = "remove" /\ UNCHANGED <<tok, removed>>
        /\ \A t \in fresh \cup spent : SessionOf(t) \in removed[c] => TokenHolders(c, t) = {}
    BY <1>21 DEF Cascade, Goto, TokensOf
  <2>2. \A o \in Calls \ {c} : \A t \in tok[o] : SessionOf(t) \in removed[c] => pc[o] = "token"
    BY <2>1 DEF TokenHolders, TokensInv
  <2>3. QED BY <2>1, <2>2 DEF TokenLocks
<1>22. ASSUME NEW c \in Calls, Uncache(c) PROVE TokenLocks'
  BY <1>22 DEF Uncache, Goto, TokenLocks
<1>23. ASSUME NEW c \in Calls, Write(c), ~Refuse(c) PROVE TokenLocks'
  BY <1>23 DEF Write, Goto, TokenLocks
<1>24. ASSUME NEW c \in Calls, Commit(c) PROVE TokenLocks'
  BY <1>24 DEF Commit, Cascaded, TokensOf, Written, EndTx, Goto, TokenLocks
<1>25. ASSUME NEW c \in Calls, Refuse(c) PROVE TokenLocks'
  BY <1>25 DEF Refuse, EndTx, Goto, TokenLocks
<1>26. ASSUME NEW t \in spent, Lapse(t) PROVE TokenLocks'
  BY <1>26 DEF Lapse, TokenLocks
<1>27. CASE Forget
  BY <1>27 DEF Forget, TokenLocks
<1>28. CASE UNCHANGED vars
  BY <1>28 DEF TokenLocks
<1> HIDE DEF Typed
<1>29. QED BY <1>1, <1>2, <1>3, <1>4, <1>5, <1>6, <1>7, <1>8, <1>9, <1>10, <1>11, <1>12,
      <1>13, <1>14, <1>15, <1>16, <1>17, <1>18, <1>19, <1>20, <1>21, <1>22, <1>23, <1>24,
      <1>25, <1>26, <1>27, <1>28 DEF Next, Start, MobileCall, AdminCall, Step, Report,
      Fault, DeadlockVictim

\* What a commit does to the tokens: one spends what it exchanges, and a session takes
\* its tokens along, but none that others have locked or are about to insert.
LEMMA CommitTokens ==
  ASSUME Typed, CallInv, RowLocks, TokenLocks, TokensInv, MintedInv, NEW c \in Calls,
        Commit(c)
  PROVE  /\ fresh' = {t \in (fresh \cup minted[c]) \ marked[c] : SessionOf(t) \notin removed[c]}
         /\ spent' = {t \in spent \cup marked[c] : SessionOf(t) \notin removed[c]}
         /\ \A o \in Calls \ {c} : /\ marked[o] \subseteq fresh' /\ minted[o] \cap (fresh' \cup spent') = {}
                                   /\ pc[o] # "token" => tok[o] \subseteq fresh' \cup spent'
         /\ removed[c] # {} => marked[c] = {}
<1>1. /\ pc[c] = "commit" /\ fresh' = (fresh \cup minted[c]) \ (marked[c] \cup Cascaded(c))
      /\ spent' = (spent \cup marked[c]) \ Cascaded(c)
  BY DEF Commit
<1>2. /\ \A t \in minted[c] : t \notin fresh \cup spent /\ SessionOf(t) \notin removed[c]
      /\ (removed[c] # {} => marked[c] = {}) /\ marked[c] \subseteq fresh
  <2>1. CallOk(c)
    BY DEF CallInv
  <2>2. removed[c] # {} => marked[c] = {}
    BY <2>1 DEF CallOk
  <2>3. \A t \in minted[c] : t \notin fresh \cup spent
    BY DEF MintedInv
  <2>4. ASSUME NEW t \in minted[c] PROVE SessionOf(t) \notin removed[c]
    <3>1. HasToken(c) /\ SessionOf(t) \in sess[c]
      BY <2>1, <2>4 DEF CallOk
    <3>2. CASE kind[c] = "login"
      BY <1>1, <2>1, <3>1, <3>2 DEF CallOk, HasRow
    <3>3. CASE kind[c] = "refresh"
      BY <1>1, <2>1, <3>3 DEF CallOk, Exchanging
    <3>4. QED BY <3>1, <3>2, <3>3 DEF HasToken
  <2>5. QED BY <2>2, <2>3, <2>4 DEF TokensInv
<1>3. Cascaded(c) = {t \in fresh \cup spent : SessionOf(t) \in removed[c]}
  BY DEF Cascaded, TokensOf
<1>4. fresh' = {t \in (fresh \cup minted[c]) \ marked[c] : SessionOf(t) \notin removed[c]}
  BY <1>1, <1>2, <1>3
<1>5. spent' = {t \in spent \cup marked[c] : SessionOf(t) \notin removed[c]}
  BY <1>1, <1>2, <1>3
<1>6. ASSUME NEW o \in Calls \ {c}
      PROVE  /\ marked[o] \subseteq fresh' /\ minted[o] \cap (fresh' \cup spent') = {}
             /\ pc[o] # "token" => tok[o] \subseteq fresh' \cup spent'
  <2>1. pc[o] # "token" => \A t \in tok[o] : t \notin tok[c] /\ SessionOf(t) \notin removed[c]
    BY <1>1 DEF TokenLocks
  <2>2. marked[c] \subseteq tok[c] /\ marked[o] \subseteq tok[o] /\ (pc[o] = "token" => marked[o] = {})
    BY DEF CallInv, CallOk, Exchanging
  <2>3. marked[o] \subseteq fresh'
    BY <1>4, <2>1, <2>2 DEF TokensInv
  <2>4. minted[o] \cap (fresh' \cup spent') = {}
    BY <1>2, <1>4, <1>5 DEF MintedInv
  <2>5. pc[o] # "token" => tok[o] \subseteq fresh' \cup spent'
    BY <1>4, <1>5, <2>1 DEF TokensInv
  <2>6. QED BY <2>3, <2>4, <2>5
<1>7. QED BY <1>2, <1>4, <1>5, <1>6

\* Tokens keep their sessions, and nobody spends another's.
LEMMA TokensStep ==
  Typed /\ CallInv /\ RowLocks /\ TokenLocks /\ TokensInv /\ MintedInv /\ CountInv /\
      [Next]_vars => TokensInv'
<1> SUFFICES ASSUME Typed, CallInv, RowLocks, TokenLocks, TokensInv, MintedInv, CountInv,
      [Next]_vars
             PROVE TokensInv'
  OBVIOUS
<1> USE DEF Typed, Kinds, Deciders
<1>1. ASSUME NEW c \in Calls, NEW d \in Devices, Login(c, d) PROVE TokensInv'
  BY <1>1 DEF Login, Begin, Goto, TokensInv, CallInv, CallOk, LabelsOf, Exchanging
<1>2. ASSUME NEW c \in Calls, NEW d \in Devices, Revoke(c, d) PROVE TokensInv'
  BY <1>2 DEF Revoke, Begin, Goto, TokensInv, CallInv, CallOk, LabelsOf, Exchanging
<1>3. ASSUME NEW c \in Calls, NEW s \in known, Request(c, s) PROVE TokensInv'
  BY <1>3 DEF Request, Begin, Goto, TokensInv, CallInv, CallOk, LabelsOf, Exchanging
<1>4. ASSUME NEW c \in Calls, NEW s \in known, Logout(c, s) PROVE TokensInv'
  BY <1>4 DEF Logout, Begin, Goto, TokensInv, CallInv, CallOk, LabelsOf, Exchanging
<1>5. ASSUME NEW c \in Calls, NEW t \in issued, Refresh(c, t) PROVE TokensInv'
  BY <1>5 DEF Refresh, Begin, Goto, TokensInv, CallInv, CallOk, LabelsOf, Exchanging
<1>6. ASSUME NEW c \in Calls, NEW v, Expel(c, v) PROVE TokensInv'
  BY <1>6 DEF Expel, Begin, Goto, TokensInv, CallInv, CallOk, LabelsOf, Exchanging
<1>7. ASSUME NEW c \in Calls, NEW v, Edit(c, v) PROVE TokensInv'
  BY <1>7 DEF Edit, Goto, TokensInv, CallInv, CallOk, LabelsOf, Exchanging
<1>8. ASSUME NEW c \in Calls, Unblock(c) PROVE TokensInv'
  BY <1>8 DEF Unblock, Begin, Goto, TokensInv, CallInv, CallOk, LabelsOf, Exchanging
<1>9. ASSUME NEW c \in Calls, LockUser(c), ~Refuse(c) PROVE TokensInv'
  BY <1>9 DEF LockUser, Goto, TokensInv, CallInv, CallOk, LabelsOf, Exchanging
<1>10. ASSUME NEW c \in Calls, NEW d \in Devices, Upsert(c, d) PROVE TokensInv'
  BY <1>10 DEF Upsert, Goto, TokensInv, CallInv, CallOk, LabelsOf, Exchanging
<1>11. ASSUME NEW c \in Calls, NEW d \in Devices, DeleteDevice(c, d) PROVE TokensInv'
  BY <1>11 DEF DeleteDevice, Goto, TokensInv, CallInv, CallOk, LabelsOf, Exchanging
<1>12. ASSUME NEW c \in Calls, NEW E \in SUBSET live, Evict(c, E) PROVE TokensInv'
  BY <1>12 DEF Evict, Goto, TokensInv, CallInv, CallOk, LabelsOf, Exchanging
<1>13. ASSUME NEW c \in Calls, NEW s \in sess[c], Issue(c, s) PROVE TokensInv'
  BY <1>13 DEF Issue, Goto, TokensInv, CallInv, CallOk, LabelsOf, Exchanging
<1>14. ASSUME NEW c \in Calls, NEW s \in sess[c], Mint(c, s), ~Refuse(c) PROVE TokensInv'
  BY <1>14 DEF Mint, Goto, TokensInv, CallInv, CallOk, LabelsOf, Exchanging
<1>15. ASSUME NEW c \in Calls, UpdateActivity(c) PROVE TokensInv'
  BY <1>15 DEF UpdateActivity, Goto, TokensInv, CallInv, CallOk, LabelsOf, Exchanging
<1>16. ASSUME NEW c \in Calls, Store(c) PROVE TokensInv'
  BY <1>16 DEF Store, Goto, TokensInv, CallInv, CallOk, LabelsOf, Exchanging
<1>17. ASSUME NEW c \in Calls, NEW t \in tok[c], LockToken(c, t), ~Refuse(c)
       PROVE TokensInv'
  BY <1>17 DEF LockToken, Goto, TokensInv, CallInv, CallOk, LabelsOf, Exchanging
<1>18. ASSUME NEW c \in Calls, CacheAnswer(c) PROVE TokensInv'
  BY <1>18 DEF CacheAnswer, Answers, Goto, TokensInv, CallInv, CallOk, LabelsOf, Exchanging
<1>19. ASSUME NEW c \in Calls, ListSessions(c) PROVE TokensInv'
  BY <1>19 DEF ListSessions, Goto, TokensInv, CallInv, CallOk, LabelsOf, Exchanging
<1>20. ASSUME NEW c \in Calls, NEW s \in todo[c], Remove(c, s) PROVE TokensInv'
  BY <1>20 DEF Remove, TokensInv, CallInv, CallOk, LabelsOf, Exchanging
<1>21. ASSUME NEW c \in Calls, Cascade(c) PROVE TokensInv'
  BY <1>21 DEF Cascade, Goto, TokensInv, CallInv, CallOk, LabelsOf, Exchanging
<1>22. ASSUME NEW c \in Calls, Uncache(c) PROVE TokensInv'
  BY <1>22 DEF Uncache, Goto, TokensInv, CallInv, CallOk, LabelsOf, Exchanging
<1>23. ASSUME NEW c \in Calls, Write(c), ~Refuse(c) PROVE TokensInv'
  BY <1>23 DEF Write, Goto, TokensInv, CallInv, CallOk, LabelsOf, Exchanging
<1>24. ASSUME NEW c \in Calls, Commit(c) PROVE TokensInv'
  <2>1. /\ fresh' = {t \in (fresh \cup minted[c]) \ marked[c] : SessionOf(t) \notin removed[c]}
        /\ spent' = {t \in spent \cup marked[c] : SessionOf(t) \notin removed[c]}
        /\ \A o \in Calls \ {c} : /\ marked[o] \subseteq fresh' /\ minted[o] \cap (fresh' \cup spent') = {}
                                  /\ pc[o] # "token" => tok[o] \subseteq fresh' \cup spent'
        /\ removed[c] # {} => marked[c] = {}
    BY <1>24, CommitTokens
  <2>2. /\ marked' = [marked EXCEPT ![c] = {}] /\ tok' = [tok EXCEPT ![c] = {}] /\ pc' = [pc EXCEPT ![c] = "idle"]
    BY <1>24 DEF Commit, EndTx, Goto
  <2>3. fresh' \cap spent' = {}
    BY <2>1 DEF TokensInv, MintedInv
  <2>4. \A t \in minted[c] : SessionOf(t) \in live'
    <3>1. CallOk(c) /\ pc[c] = "commit"
      BY <1>24 DEF CallInv, Commit
    <3>2. CASE kind[c] = "login"
      BY <1>24, <3>1, <3>2, CommitLive DEF CallOk
    <3>3. CASE kind[c] # "login"
      <4>1. minted[c] # {} => kind[c] = "refresh" /\ removed[c] = {}
        BY <3>1, <3>3 DEF CallOk, HasToken, Exchanging
      <4>2. QED BY <1>24, <3>1, <3>3, <4>1, CommitLive DEF CallOk
    <3>4. QED BY <3>2, <3>3
  <2>5. ASSUME NEW t \in fresh' \cup spent' PROVE SessionOf(t) \in live'
    <3>1. t \in fresh \cup spent \cup minted[c] /\ SessionOf(t) \notin removed[c]
      BY <2>1 DEF TokensInv
    <3>2. CASE t \in fresh \cup spent
      <4>1. SessionOf(t) \in live
        BY <3>2 DEF TokensInv
      <4>2. QED BY <1>24, <3>1, <4>1, CommitLive
    <3>3. QED BY <2>4, <3>1, <3>2
  <2>6. QED BY <2>1, <2>2, <2>3, <2>5 DEF TokensInv
<1>25. ASSUME NEW c \in Calls, Refuse(c) PROVE TokensInv'
  BY <1>25 DEF Refuse, EndTx, Goto, TokensInv, CallInv, CallOk, LabelsOf, Exchanging
<1>26. ASSUME NEW t \in spent, Lapse(t) PROVE TokensInv'
  BY <1>26 DEF Lapse, TokensInv, CallInv, CallOk, LabelsOf, Exchanging
<1>27. CASE Forget
  BY <1>27 DEF Forget, TokensInv, CallInv, CallOk, LabelsOf, Exchanging
<1>28. CASE UNCHANGED vars
  BY <1>28 DEF TokensInv, CallInv, CallOk, LabelsOf, Exchanging
<1> HIDE DEF Typed
<1>29. QED BY <1>1, <1>2, <1>3, <1>4, <1>5, <1>6, <1>7, <1>8, <1>9, <1>10, <1>11, <1>12,
      <1>13, <1>14, <1>15, <1>16, <1>17, <1>18, <1>19, <1>20, <1>21, <1>22, <1>23, <1>24,
      <1>25, <1>26, <1>27, <1>28 DEF Next, Start, MobileCall, AdminCall, Step, Report,
      Fault, DeadlockVictim

\* A token is inserted once.
LEMMA MintedStep ==
  Typed /\ CallInv /\ RowLocks /\ TokenLocks /\ TokensInv /\ MintedInv /\ CountInv /\
      [Next]_vars => MintedInv'
<1> SUFFICES ASSUME Typed, CallInv, RowLocks, TokenLocks, TokensInv, MintedInv, CountInv,
      [Next]_vars
             PROVE MintedInv'
  OBVIOUS
<1> USE DEF Typed, Kinds, Deciders
<1>1. ASSUME NEW c \in Calls, NEW d \in Devices, Login(c, d) PROVE MintedInv'
  BY <1>1 DEF Login, Begin, Goto, MintedInv
<1>2. ASSUME NEW c \in Calls, NEW d \in Devices, Revoke(c, d) PROVE MintedInv'
  BY <1>2 DEF Revoke, Begin, Goto, MintedInv
<1>3. ASSUME NEW c \in Calls, NEW s \in known, Request(c, s) PROVE MintedInv'
  BY <1>3 DEF Request, Begin, Goto, MintedInv
<1>4. ASSUME NEW c \in Calls, NEW s \in known, Logout(c, s) PROVE MintedInv'
  BY <1>4 DEF Logout, Begin, Goto, MintedInv
<1>5. ASSUME NEW c \in Calls, NEW t \in issued, Refresh(c, t) PROVE MintedInv'
  BY <1>5 DEF Refresh, Begin, Goto, MintedInv
<1>6. ASSUME NEW c \in Calls, NEW v, Expel(c, v) PROVE MintedInv'
  BY <1>6 DEF Expel, Begin, Goto, MintedInv
<1>7. ASSUME NEW c \in Calls, NEW v, Edit(c, v) PROVE MintedInv'
  BY <1>7 DEF Edit, Goto, MintedInv
<1>8. ASSUME NEW c \in Calls, Unblock(c) PROVE MintedInv'
  BY <1>8 DEF Unblock, Begin, Goto, MintedInv
<1>9. ASSUME NEW c \in Calls, LockUser(c), ~Refuse(c) PROVE MintedInv'
  BY <1>9 DEF LockUser, Goto, MintedInv
<1>10. ASSUME NEW c \in Calls, NEW d \in Devices, Upsert(c, d) PROVE MintedInv'
  BY <1>10 DEF Upsert, Goto, MintedInv
<1>11. ASSUME NEW c \in Calls, NEW d \in Devices, DeleteDevice(c, d) PROVE MintedInv'
  BY <1>11 DEF DeleteDevice, Goto, MintedInv
<1>12. ASSUME NEW c \in Calls, NEW E \in SUBSET live, Evict(c, E) PROVE MintedInv'
  BY <1>12 DEF Evict, Goto, MintedInv
<1>13. ASSUME NEW c \in Calls, NEW s \in sess[c], Issue(c, s) PROVE MintedInv'
  <2>1. /\ minted' = [minted EXCEPT ![c] = {NextToken(s)}] /\ issued' = issued \cup {NextToken(s)}
        /\ NextToken(s) \in Tokens \ issued /\ SessionOf(NextToken(s)) = s
        /\ s \in known /\ \A o \in Calls \ {c} : s \notin removed[o]
    BY <1>13, MintedToken
  <2>2. QED BY <1>13, <2>1 DEF Issue, MintedInv
<1>14. ASSUME NEW c \in Calls, NEW s \in sess[c], Mint(c, s), ~Refuse(c) PROVE MintedInv'
  <2>1. /\ minted' = [minted EXCEPT ![c] = {NextToken(s)}] /\ issued' = issued \cup {NextToken(s)}
        /\ NextToken(s) \in Tokens \ issued /\ SessionOf(NextToken(s)) = s
        /\ s \in known /\ \A o \in Calls \ {c} : s \notin removed[o]
    BY <1>14, MintedToken
  <2>2. QED BY <1>14, <2>1 DEF Mint, MintedInv
<1>15. ASSUME NEW c \in Calls, UpdateActivity(c) PROVE MintedInv'
  BY <1>15 DEF UpdateActivity, Goto, MintedInv
<1>16. ASSUME NEW c \in Calls, Store(c) PROVE MintedInv'
  BY <1>16 DEF Store, Goto, MintedInv
<1>17. ASSUME NEW c \in Calls, NEW t \in tok[c], LockToken(c, t), ~Refuse(c)
       PROVE MintedInv'
  BY <1>17 DEF LockToken, Goto, MintedInv
<1>18. ASSUME NEW c \in Calls, CacheAnswer(c) PROVE MintedInv'
  BY <1>18 DEF CacheAnswer, Answers, Goto, MintedInv
<1>19. ASSUME NEW c \in Calls, ListSessions(c) PROVE MintedInv'
  BY <1>19 DEF ListSessions, Goto, MintedInv
<1>20. ASSUME NEW c \in Calls, NEW s \in todo[c], Remove(c, s) PROVE MintedInv'
  BY <1>20 DEF Remove, MintedInv
<1>21. ASSUME NEW c \in Calls, Cascade(c) PROVE MintedInv'
  BY <1>21 DEF Cascade, Goto, MintedInv
<1>22. ASSUME NEW c \in Calls, Uncache(c) PROVE MintedInv'
  BY <1>22 DEF Uncache, Goto, MintedInv
<1>23. ASSUME NEW c \in Calls, Write(c), ~Refuse(c) PROVE MintedInv'
  BY <1>23 DEF Write, Goto, MintedInv
<1>24. ASSUME NEW c \in Calls, Commit(c) PROVE MintedInv'
  <2>1. /\ fresh' = {t \in (fresh \cup minted[c]) \ marked[c] : SessionOf(t) \notin removed[c]}
        /\ spent' = {t \in spent \cup marked[c] : SessionOf(t) \notin removed[c]}
        /\ \A o \in Calls \ {c} : /\ marked[o] \subseteq fresh' /\ minted[o] \cap (fresh' \cup spent') = {}
                                  /\ pc[o] # "token" => tok[o] \subseteq fresh' \cup spent'
        /\ removed[c] # {} => marked[c] = {}
    BY <1>24, CommitTokens
  <2>2. minted' = [minted EXCEPT ![c] = {}] /\ successors' = successors \cup (marked[c] \X minted[c])
    BY <1>24 DEF Commit, EndTx
  <2>3. \A o \in Calls : minted'[o] \subseteq minted[o] /\ (o # c => minted'[o] = minted[o])
    BY <2>2
  <2>4. ASSUME NEW p \in successors'
        PROVE p[1] \notin fresh' /\ \A o \in Calls : p[1] \notin minted'[o]
    <3>1. CASE p \in successors
      <4>1. p[1] \notin fresh \cup minted[c] /\ \A o \in Calls : p[1] \notin minted[o]
        BY <3>1 DEF MintedInv
      <4>2. QED BY <2>1, <2>3, <4>1
    <3>2. CASE p \in marked[c] \X minted[c]
      <4>1. p[1] \in marked[c] /\ p[1] \in fresh
        BY <3>2 DEF TokensInv
      <4>2. QED BY <2>1, <2>3, <4>1 DEF MintedInv
    <3>3. QED BY <2>2, <3>1, <3>2
  <2>5. \A o \in Calls : \A t \in minted'[o] : t \notin fresh' \cup spent'
    BY <2>1, <2>2
  <2>6. \A o, x \in Calls : o # x => minted'[o] \cap minted'[x] = {}
    BY <2>3 DEF MintedInv
  <2>7. QED BY <2>4, <2>5, <2>6 DEF MintedInv
<1>25. ASSUME NEW c \in Calls, Refuse(c) PROVE MintedInv'
  BY <1>25 DEF Refuse, EndTx, Goto, MintedInv
<1>26. ASSUME NEW t \in spent, Lapse(t) PROVE MintedInv'
  BY <1>26 DEF Lapse, MintedInv
<1>27. CASE Forget
  BY <1>27 DEF Forget, MintedInv
<1>28. CASE UNCHANGED vars
  BY <1>28 DEF MintedInv
<1> HIDE DEF Typed
<1>29. QED BY <1>1, <1>2, <1>3, <1>4, <1>5, <1>6, <1>7, <1>8, <1>9, <1>10, <1>11, <1>12,
      <1>13, <1>14, <1>15, <1>16, <1>17, <1>18, <1>19, <1>20, <1>21, <1>22, <1>23, <1>24,
      <1>25, <1>26, <1>27, <1>28 DEF Next, Start, MobileCall, AdminCall, Step, Report,
      Fault, DeadlockVictim

\* What is cached for a spent token is its successor, and it has one.
LEMMA ReplayStep ==
  Typed /\ CallInv /\ RowLocks /\ TokenLocks /\ TokensInv /\ MintedInv /\ CountInv /\
      ReplayInv /\ [Next]_vars => ReplayInv'
<1> SUFFICES ASSUME Typed, CallInv, RowLocks, TokenLocks, TokensInv, MintedInv, CountInv,
      ReplayInv, [Next]_vars
             PROVE ReplayInv'
  OBVIOUS
<1> USE DEF Typed, Kinds, Deciders
<1>1. ASSUME NEW c \in Calls, NEW d \in Devices, Login(c, d) PROVE ReplayInv'
  BY <1>1 DEF Login, Begin, Goto, ReplayInv, RotatedOnce, CallInv, CallOk, LabelsOf,
     Exchanging
<1>2. ASSUME NEW c \in Calls, NEW d \in Devices, Revoke(c, d) PROVE ReplayInv'
  BY <1>2 DEF Revoke, Begin, Goto, ReplayInv, RotatedOnce, CallInv, CallOk, LabelsOf,
     Exchanging
<1>3. ASSUME NEW c \in Calls, NEW s \in known, Request(c, s) PROVE ReplayInv'
  BY <1>3 DEF Request, Begin, Goto, ReplayInv, RotatedOnce, CallInv, CallOk, LabelsOf,
     Exchanging
<1>4. ASSUME NEW c \in Calls, NEW s \in known, Logout(c, s) PROVE ReplayInv'
  BY <1>4 DEF Logout, Begin, Goto, ReplayInv, RotatedOnce, CallInv, CallOk, LabelsOf,
     Exchanging
<1>5. ASSUME NEW c \in Calls, NEW t \in issued, Refresh(c, t) PROVE ReplayInv'
  BY <1>5 DEF Refresh, Begin, Goto, ReplayInv, RotatedOnce, CallInv, CallOk, LabelsOf,
     Exchanging
<1>6. ASSUME NEW c \in Calls, NEW v, Expel(c, v) PROVE ReplayInv'
  BY <1>6 DEF Expel, Begin, Goto, ReplayInv, RotatedOnce, CallInv, CallOk, LabelsOf,
     Exchanging
<1>7. ASSUME NEW c \in Calls, NEW v, Edit(c, v) PROVE ReplayInv'
  BY <1>7 DEF Edit, Goto, ReplayInv, RotatedOnce, CallInv, CallOk, LabelsOf, Exchanging
<1>8. ASSUME NEW c \in Calls, Unblock(c) PROVE ReplayInv'
  BY <1>8 DEF Unblock, Begin, Goto, ReplayInv, RotatedOnce, CallInv, CallOk, LabelsOf,
     Exchanging
<1>9. ASSUME NEW c \in Calls, LockUser(c), ~Refuse(c) PROVE ReplayInv'
  BY <1>9 DEF LockUser, Goto, ReplayInv, RotatedOnce, CallInv, CallOk, LabelsOf, Exchanging
<1>10. ASSUME NEW c \in Calls, NEW d \in Devices, Upsert(c, d) PROVE ReplayInv'
  BY <1>10 DEF Upsert, Goto, ReplayInv, RotatedOnce, CallInv, CallOk, LabelsOf, Exchanging
<1>11. ASSUME NEW c \in Calls, NEW d \in Devices, DeleteDevice(c, d) PROVE ReplayInv'
  BY <1>11 DEF DeleteDevice, Goto, ReplayInv, RotatedOnce, CallInv, CallOk, LabelsOf,
     Exchanging
<1>12. ASSUME NEW c \in Calls, NEW E \in SUBSET live, Evict(c, E) PROVE ReplayInv'
  BY <1>12 DEF Evict, Goto, ReplayInv, RotatedOnce, CallInv, CallOk, LabelsOf, Exchanging
<1>13. ASSUME NEW c \in Calls, NEW s \in sess[c], Issue(c, s) PROVE ReplayInv'
  BY <1>13 DEF Issue, Goto, ReplayInv, RotatedOnce, CallInv, CallOk, LabelsOf, Exchanging
<1>14. ASSUME NEW c \in Calls, NEW s \in sess[c], Mint(c, s), ~Refuse(c) PROVE ReplayInv'
  BY <1>14 DEF Mint, Goto, ReplayInv, RotatedOnce, CallInv, CallOk, LabelsOf, Exchanging
<1>15. ASSUME NEW c \in Calls, UpdateActivity(c) PROVE ReplayInv'
  BY <1>15 DEF UpdateActivity, Goto, ReplayInv, RotatedOnce, CallInv, CallOk, LabelsOf,
     Exchanging
<1>16. ASSUME NEW c \in Calls, Store(c) PROVE ReplayInv'
  BY <1>16 DEF Store, Goto, ReplayInv, RotatedOnce, CallInv, CallOk, LabelsOf, Exchanging
<1>17. ASSUME NEW c \in Calls, NEW t \in tok[c], LockToken(c, t), ~Refuse(c)
       PROVE ReplayInv'
  BY <1>17 DEF LockToken, Goto, ReplayInv, RotatedOnce, CallInv, CallOk, LabelsOf,
     Exchanging
<1>18. ASSUME NEW c \in Calls, CacheAnswer(c) PROVE ReplayInv'
  <2>1. /\ pc[c] = "replay" /\ pc' = [pc EXCEPT ![c] = "commit"] /\ UNCHANGED <<kind, marked, minted, spent, successors>>
        /\ replay' = {r \in replay : r[1] \notin tok[c]} \cup (tok[c] \X minted[c])
    BY <1>18 DEF CacheAnswer, Answers, Goto
  <2>2. kind[c] = "refresh" /\ marked[c] = tok[c]
    BY <2>1 DEF CallInv, CallOk, LabelsOf, Exchanging
  <2>3. \A t \in tok[c] : t \notin spent
    BY <2>2 DEF TokensInv
  <2>4. \A r \in replay' : r[1] \in spent' => r \in successors'
    BY <2>1, <2>3 DEF ReplayInv, RotatedOnce
  <2>5. ASSUME NEW o \in Calls, kind'[o] = "refresh", pc'[o] = "commit", NEW r \in replay',
        r[1] \in marked'[o]
        PROVE  r[2] \in minted'[o]
    <3>1. CASE o = c
      BY <2>1, <2>2, <2>5, <3>1
    <3>2. CASE o # c
      <4>1. pc[o] = "commit" /\ marked[o] = tok[o]
        BY <2>1, <2>5, <3>2 DEF CallInv, CallOk, Exchanging
      <4>2. r[1] \notin tok[c]
        BY <2>1, <2>5, <3>2, <4>1 DEF TokenLocks
      <4>3. QED BY <2>1, <2>5, <3>2, <4>1, <4>2 DEF ReplayInv
    <3>3. QED BY <3>1, <3>2
  <2>6. QED BY <2>1, <2>4, <2>5 DEF ReplayInv, RotatedOnce
<1>19. ASSUME NEW c \in Calls, ListSessions(c) PROVE ReplayInv'
  BY <1>19 DEF ListSessions, Goto, ReplayInv, RotatedOnce, CallInv, CallOk, LabelsOf,
     Exchanging
<1>20. ASSUME NEW c \in Calls, NEW s \in todo[c], Remove(c, s) PROVE ReplayInv'
  BY <1>20 DEF Remove, ReplayInv, RotatedOnce, CallInv, CallOk, LabelsOf, Exchanging
<1>21. ASSUME NEW c \in Calls, Cascade(c) PROVE ReplayInv'
  BY <1>21 DEF Cascade, Goto, ReplayInv, RotatedOnce, CallInv, CallOk, LabelsOf, Exchanging
<1>22. ASSUME NEW c \in Calls, Uncache(c) PROVE ReplayInv'
  BY <1>22 DEF Uncache, Goto, ReplayInv, RotatedOnce, CallInv, CallOk, LabelsOf, Exchanging
<1>23. ASSUME NEW c \in Calls, Write(c), ~Refuse(c) PROVE ReplayInv'
  BY <1>23 DEF Write, Goto, ReplayInv, RotatedOnce, CallInv, CallOk, LabelsOf, Exchanging
<1>24. ASSUME NEW c \in Calls, Commit(c) PROVE ReplayInv'
  <2>1. /\ fresh' = {t \in (fresh \cup minted[c]) \ marked[c] : SessionOf(t) \notin removed[c]}
        /\ spent' = {t \in spent \cup marked[c] : SessionOf(t) \notin removed[c]}
        /\ \A o \in Calls \ {c} : /\ marked[o] \subseteq fresh' /\ minted[o] \cap (fresh' \cup spent') = {}
                                  /\ pc[o] # "token" => tok[o] \subseteq fresh' \cup spent'
        /\ removed[c] # {} => marked[c] = {}
    BY <1>24, CommitTokens
  <2>2. /\ successors' = successors \cup (marked[c] \X minted[c]) /\ replay' = replay
        /\ marked' = [marked EXCEPT ![c] = {}] /\ minted' = [minted EXCEPT ![c] = {}]
        /\ pc' = [pc EXCEPT ![c] = "idle"] /\ kind' = [kind EXCEPT ![c] = "none"]
    BY <1>24 DEF Commit, EndTx, Goto
  <2>3. CallOk(c) /\ pc[c] = "commit"
    BY <1>24 DEF Commit, CallInv
  <2>4. \A p \in successors : p[1] \notin marked[c]
    BY DEF TokensInv, MintedInv
  <2>5. \A t, u \in minted[c] : t = u
    BY <2>3 DEF CallOk
  <2>6. \A t, u \in marked[c] : t = u
    BY <2>3 DEF CallOk
  <2>7. ASSUME NEW p \in successors', NEW q \in successors', p[1] = q[1] PROVE p = q
    <3>1. CASE p \in successors /\ q \in successors
      BY <2>7, <3>1 DEF ReplayInv, RotatedOnce
    <3>2. CASE p \in marked[c] \X minted[c] /\ q \in marked[c] \X minted[c]
      BY <2>5, <2>7, <3>2
    <3>3. QED BY <2>2, <2>4, <2>7, <3>1, <3>2
  <2>8. ASSUME NEW r \in replay', r[1] \in spent' PROVE r \in successors'
    <3>1. CASE r[1] \in spent
      BY <2>2, <3>1 DEF ReplayInv, RotatedOnce
    <3>2. CASE r[1] \in marked[c]
      <4>1. kind[c] = "refresh"
        BY <2>3, <3>2 DEF CallOk, Exchanging
      <4>2. r[2] \in minted[c]
        BY <2>2, <2>3, <3>2, <4>1 DEF ReplayInv
      <4>3. r \in issued \X issued
        BY <2>2
      <4>4. r \in marked[c] \X minted[c]
        BY <3>2, <4>2, <4>3
      <4>5. QED BY <2>2, <4>4
    <3>3. QED BY <2>1, <2>8, <3>1, <3>2
  <2>9. ASSUME NEW o \in Calls, kind'[o] = "refresh", pc'[o] = "commit", NEW r \in replay',
        r[1] \in marked'[o]
        PROVE  r[2] \in minted'[o]
    BY <2>2, <2>9 DEF ReplayInv
  <2>10. QED BY <2>7, <2>8, <2>9 DEF ReplayInv, RotatedOnce
<1>25. ASSUME NEW c \in Calls, Refuse(c) PROVE ReplayInv'
  BY <1>25 DEF Refuse, EndTx, Goto, ReplayInv, RotatedOnce, CallInv, CallOk, LabelsOf,
     Exchanging
<1>26. ASSUME NEW t \in spent, Lapse(t) PROVE ReplayInv'
  BY <1>26 DEF Lapse, ReplayInv, RotatedOnce, CallInv, CallOk, LabelsOf, Exchanging
<1>27. CASE Forget
  BY <1>27 DEF Forget, ReplayInv, RotatedOnce, CallInv, CallOk, LabelsOf, Exchanging
<1>28. CASE UNCHANGED vars
  BY <1>28 DEF ReplayInv, RotatedOnce, CallInv, CallOk, LabelsOf, Exchanging
<1> HIDE DEF Typed
<1>29. QED BY <1>1, <1>2, <1>3, <1>4, <1>5, <1>6, <1>7, <1>8, <1>9, <1>10, <1>11, <1>12,
      <1>13, <1>14, <1>15, <1>16, <1>17, <1>18, <1>19, <1>20, <1>21, <1>22, <1>23, <1>24,
      <1>25, <1>26, <1>27, <1>28 DEF Next, Start, MobileCall, AdminCall, Step, Report,
      Fault, DeadlockVictim


-----------------------------------------------------------------------------
(*****************************************************************************)
(* Sessions, blocks and the limit.                                          *)
(*****************************************************************************)
\* A block leaves no session, and no login adds one.
LEMMA BlockStep ==
  Typed /\ CallInv /\ UserInv /\ RowLocks /\ BlockInv /\ [Next]_vars => BlockInv'
<1> SUFFICES ASSUME Typed, CallInv, UserInv, RowLocks, BlockInv, [Next]_vars PROVE BlockInv'
  OBVIOUS
<1> USE DEF Typed, Kinds, Deciders
<1>1. ASSUME NEW c \in Calls, NEW d \in Devices, Login(c, d) PROVE BlockInv'
  BY <1>1 DEF Login, Begin, Goto, BlockInv, BlockedHasNoSession, CallInv, CallOk, LabelsOf
<1>2. ASSUME NEW c \in Calls, NEW d \in Devices, Revoke(c, d) PROVE BlockInv'
  BY <1>2 DEF Revoke, Begin, Goto, BlockInv, BlockedHasNoSession, CallInv, CallOk, LabelsOf
<1>3. ASSUME NEW c \in Calls, NEW s \in known, Request(c, s) PROVE BlockInv'
  BY <1>3 DEF Request, Begin, Goto, BlockInv, BlockedHasNoSession, CallInv, CallOk, LabelsOf
<1>4. ASSUME NEW c \in Calls, NEW s \in known, Logout(c, s) PROVE BlockInv'
  BY <1>4 DEF Logout, Begin, Goto, BlockInv, BlockedHasNoSession, CallInv, CallOk, LabelsOf
<1>5. ASSUME NEW c \in Calls, NEW t \in issued, Refresh(c, t) PROVE BlockInv'
  BY <1>5 DEF Refresh, Begin, Goto, BlockInv, BlockedHasNoSession, CallInv, CallOk, LabelsOf
<1>6. ASSUME NEW c \in Calls, NEW v, Expel(c, v) PROVE BlockInv'
  BY <1>6 DEF Expel, Begin, Goto, BlockInv, BlockedHasNoSession, CallInv, CallOk, LabelsOf
<1>7. ASSUME NEW c \in Calls, NEW v, Edit(c, v) PROVE BlockInv'
  BY <1>7 DEF Edit, Goto, BlockInv, BlockedHasNoSession, CallInv, CallOk, LabelsOf
<1>8. ASSUME NEW c \in Calls, Unblock(c) PROVE BlockInv'
  BY <1>8 DEF Unblock, Begin, Goto, BlockInv, BlockedHasNoSession, CallInv, CallOk, LabelsOf
<1>9. ASSUME NEW c \in Calls, LockUser(c), ~Refuse(c) PROVE BlockInv'
  BY <1>9 DEF LockUser, Goto, BlockInv, BlockedHasNoSession, CallInv, CallOk, LabelsOf
<1>10. ASSUME NEW c \in Calls, NEW d \in Devices, Upsert(c, d) PROVE BlockInv'
  BY <1>10 DEF Upsert, Goto, BlockInv, BlockedHasNoSession, CallInv, CallOk, LabelsOf
<1>11. ASSUME NEW c \in Calls, NEW d \in Devices, DeleteDevice(c, d) PROVE BlockInv'
  BY <1>11 DEF DeleteDevice, Goto, BlockInv, BlockedHasNoSession, CallInv, CallOk, LabelsOf
<1>12. ASSUME NEW c \in Calls, NEW E \in SUBSET live, Evict(c, E) PROVE BlockInv'
  BY <1>12 DEF Evict, Goto, BlockInv, BlockedHasNoSession, CallInv, CallOk, LabelsOf
<1>13. ASSUME NEW c \in Calls, NEW s \in sess[c], Issue(c, s) PROVE BlockInv'
  BY <1>13 DEF Issue, Goto, BlockInv, BlockedHasNoSession, CallInv, CallOk, LabelsOf
<1>14. ASSUME NEW c \in Calls, NEW s \in sess[c], Mint(c, s), ~Refuse(c) PROVE BlockInv'
  BY <1>14 DEF Mint, Goto, BlockInv, BlockedHasNoSession, CallInv, CallOk, LabelsOf
<1>15. ASSUME NEW c \in Calls, UpdateActivity(c) PROVE BlockInv'
  BY <1>15 DEF UpdateActivity, Goto, BlockInv, BlockedHasNoSession, CallInv, CallOk,
     LabelsOf
<1>16. ASSUME NEW c \in Calls, Store(c) PROVE BlockInv'
  BY <1>16 DEF Store, Goto, BlockInv, BlockedHasNoSession, CallInv, CallOk, LabelsOf
<1>17. ASSUME NEW c \in Calls, NEW t \in tok[c], LockToken(c, t), ~Refuse(c) PROVE BlockInv'
  BY <1>17 DEF LockToken, Goto, BlockInv, BlockedHasNoSession, CallInv, CallOk, LabelsOf
<1>18. ASSUME NEW c \in Calls, CacheAnswer(c) PROVE BlockInv'
  BY <1>18 DEF CacheAnswer, Answers, Goto, BlockInv, BlockedHasNoSession, CallInv, CallOk,
     LabelsOf
<1>19. ASSUME NEW c \in Calls, ListSessions(c) PROVE BlockInv'
  BY <1>19 DEF ListSessions, Goto, BlockInv, BlockedHasNoSession, CallInv, CallOk, LabelsOf
<1>20. ASSUME NEW c \in Calls, NEW s \in todo[c], Remove(c, s) PROVE BlockInv'
  BY <1>20 DEF Remove, BlockInv, BlockedHasNoSession, CallInv, CallOk, LabelsOf
<1>21. ASSUME NEW c \in Calls, Cascade(c) PROVE BlockInv'
  BY <1>21 DEF Cascade, Goto, BlockInv, BlockedHasNoSession, CallInv, CallOk, LabelsOf
<1>22. ASSUME NEW c \in Calls, Uncache(c) PROVE BlockInv'
  BY <1>22 DEF Uncache, Goto, BlockInv, BlockedHasNoSession, CallInv, CallOk, LabelsOf
<1>23. ASSUME NEW c \in Calls, Write(c), ~Refuse(c) PROVE BlockInv'
  BY <1>23 DEF Write, Goto, BlockInv, BlockedHasNoSession, CallInv, CallOk, LabelsOf
<1>24. ASSUME NEW c \in Calls, Commit(c) PROVE BlockInv'
  <2>1. CallOk(c) /\ pc[c] = "commit"
    BY <1>24 DEF Commit, CallInv
  <2>2. ASSUME user' # "active", "edit" \notin past PROVE live' = {}
    <3>1. CASE verdict[c] = "none"
      <4>1. user # "active" /\ live = {}
        BY <1>24, <2>2, <3>1 DEF Commit, BlockInv, BlockedHasNoSession
      <4>2. kind[c] # "login"
        BY <2>1, <4>1 DEF UserInv
      <4>3. QED BY <1>24, <4>1, <4>2 DEF Commit
    <3>2. CASE verdict[c] # "none"
      <4>1. verdict[c] # "active"
        BY <1>24, <2>2, <3>2 DEF Commit, Written
      <4>2. kind[c] = "expel"
        BY <2>1, <2>2, <3>2, <4>1 DEF CallOk, VerdictsOf
      <4>3. live \subseteq removed[c]
        BY <2>1, <4>2 DEF BlockInv, CallOk
      <4>4. QED BY <1>24, <4>2, <4>3 DEF Commit
    <3>3. QED BY <3>1, <3>2
  <2>3. ASSUME NEW o \in Calls, kind'[o] = "expel", pc'[o] # "user"
        PROVE live' \subseteq removed'[o] \cup todo'[o]
    <3>1. o # c /\ kind[o] = "expel" /\ pc[o] # "user" /\ removed'[o] = removed[o] /\ todo'[o] = todo[o]
      BY <1>24, <2>3 DEF Commit, EndTx, Goto
    <3>2. OwnsUser(o)
      BY <3>1 DEF OwnsUser, CallInv, CallOk, VerdictsOf
    <3>3. kind[c] # "login"
      BY <2>1, <3>1, <3>2 DEF UserInv, OwnsUser
    <3>4. QED BY <1>24, <3>1, <3>3 DEF Commit, BlockInv
  <2>4. past' = past
    BY <1>24 DEF Commit
  <2>5. QED BY <2>2, <2>3, <2>4 DEF BlockInv, BlockedHasNoSession
<1>25. ASSUME NEW c \in Calls, Refuse(c) PROVE BlockInv'
  BY <1>25 DEF Refuse, EndTx, Goto, BlockInv, BlockedHasNoSession, CallInv, CallOk, LabelsOf
<1>26. ASSUME NEW t \in spent, Lapse(t) PROVE BlockInv'
  BY <1>26 DEF Lapse, BlockInv, BlockedHasNoSession, CallInv, CallOk, LabelsOf
<1>27. CASE Forget
  BY <1>27 DEF Forget, BlockInv, BlockedHasNoSession, CallInv, CallOk, LabelsOf
<1>28. CASE UNCHANGED vars
  BY <1>28 DEF BlockInv, BlockedHasNoSession, CallInv, CallOk, LabelsOf
<1> HIDE DEF Typed
<1>29. QED BY <1>1, <1>2, <1>3, <1>4, <1>5, <1>6, <1>7, <1>8, <1>9, <1>10, <1>11, <1>12,
      <1>13, <1>14, <1>15, <1>16, <1>17, <1>18, <1>19, <1>20, <1>21, <1>22, <1>23, <1>24,
      <1>25, <1>26, <1>27, <1>28 DEF Next, Start, MobileCall, AdminCall, Step, Report,
      Fault, DeadlockVictim

\* A set loses as many elements as are taken from it.
LEMMA TakenAway ==
  ASSUME NEW X, NEW E \in SUBSET X, IsFiniteSet(X)
  PROVE  IsFiniteSet(X \ E) /\ Cardinality(X \ E) = Cardinality(X) - Cardinality(E) /\ Cardinality(E) \in Nat /\ Cardinality(X) \in Nat
<1>1. IsFiniteSet(E) /\ IsFiniteSet(X \ E)
  BY FS_Subset
<1>2. X \cap E = E
  OBVIOUS
<1>3. QED BY <1>1, <1>2, FS_Difference, FS_CardinalityType

\* Fewer sessions are within the limit if more are.
LEMMA FewerWithinLimit ==
  ASSUME NEW X, IsFiniteSet(X), NEW Y \in SUBSET X, Cardinality(X) =< Limit
  PROVE  Cardinality(Y) =< Limit
<1>1. IsFiniteSet(Y) /\ Cardinality(Y) =< Cardinality(X) /\ Cardinality(X) \in Nat /\ Cardinality(Y) \in Nat
  BY FS_Subset, FS_CardinalityType
<1>2. QED BY <1>1, LimitAssumption

\* No login leaves more sessions than the limit, unless an eviction passed one over.
LEMMA CapStep ==
  Typed /\ CallInv /\ UserInv /\ RowLocks /\ CountInv /\ CapInv /\ [Next]_vars => CapInv'
<1> SUFFICES ASSUME Typed, CallInv, UserInv, RowLocks, CountInv, CapInv, [Next]_vars
             PROVE CapInv'
  OBVIOUS
<1> USE DEF Typed, Kinds, Deciders
<1>1. ASSUME NEW c \in Calls, NEW d \in Devices, Login(c, d) PROVE CapInv'
  BY <1>1 DEF Login, Begin, Goto, CapInv, Evicted, CallInv, CallOk, LabelsOf, HasRow
<1>2. ASSUME NEW c \in Calls, NEW d \in Devices, Revoke(c, d) PROVE CapInv'
  BY <1>2 DEF Revoke, Begin, Goto, CapInv, Evicted, CallInv, CallOk, LabelsOf, HasRow
<1>3. ASSUME NEW c \in Calls, NEW s \in known, Request(c, s) PROVE CapInv'
  BY <1>3 DEF Request, Begin, Goto, CapInv, Evicted, CallInv, CallOk, LabelsOf, HasRow
<1>4. ASSUME NEW c \in Calls, NEW s \in known, Logout(c, s) PROVE CapInv'
  BY <1>4 DEF Logout, Begin, Goto, CapInv, Evicted, CallInv, CallOk, LabelsOf, HasRow
<1>5. ASSUME NEW c \in Calls, NEW t \in issued, Refresh(c, t) PROVE CapInv'
  BY <1>5 DEF Refresh, Begin, Goto, CapInv, Evicted, CallInv, CallOk, LabelsOf, HasRow
<1>6. ASSUME NEW c \in Calls, NEW v, Expel(c, v) PROVE CapInv'
  BY <1>6 DEF Expel, Begin, Goto, CapInv, Evicted, CallInv, CallOk, LabelsOf, HasRow
<1>7. ASSUME NEW c \in Calls, NEW v, Edit(c, v) PROVE CapInv'
  BY <1>7 DEF Edit, Goto, CapInv, Evicted, CallInv, CallOk, LabelsOf, HasRow
<1>8. ASSUME NEW c \in Calls, Unblock(c) PROVE CapInv'
  BY <1>8 DEF Unblock, Begin, Goto, CapInv, Evicted, CallInv, CallOk, LabelsOf, HasRow
<1>9. ASSUME NEW c \in Calls, LockUser(c), ~Refuse(c) PROVE CapInv'
  BY <1>9 DEF LockUser, Goto, CapInv, Evicted, CallInv, CallOk, LabelsOf, HasRow
<1>10. ASSUME NEW c \in Calls, NEW d \in Devices, Upsert(c, d) PROVE CapInv'
  BY <1>10 DEF Upsert, Goto, CapInv, Evicted, CallInv, CallOk, LabelsOf, HasRow
<1>11. ASSUME NEW c \in Calls, NEW d \in Devices, DeleteDevice(c, d) PROVE CapInv'
  BY <1>11 DEF DeleteDevice, Goto, CapInv, Evicted, CallInv, CallOk, LabelsOf, HasRow
<1>12. ASSUME NEW c \in Calls, NEW E \in SUBSET live, Evict(c, E) PROVE CapInv'
  <2>1. DEFINE all == live \cup sess[c]
  <2>2. /\ pc[c] = "evict" /\ kind[c] = "login" /\ sess[c] \subseteq known /\ E \subseteq live \ sess[c]
        /\ UNCHANGED <<live, kind, sess>> /\ pc' = [pc EXCEPT ![c] = "remove"] /\ removed' = [removed EXCEPT ![c] = E]
        /\ Cardinality(E) =< Overflow(Cardinality(all))
        /\ past' = IF Cardinality(E) < Overflow(Cardinality(all)) THEN past \cup {"skipped"} ELSE past
    BY <1>12 DEF Evict, Goto, CallInv, CallOk, LabelsOf, HasRow
  <2>3. IsFiniteSet(all) /\ E \in SUBSET all /\ all \subseteq known
    BY <2>2, FS_Subset DEF CountInv
  <2> HIDE DEF all
  <2>4. ASSUME "skipped" \notin past'
        PROVE "skipped" \notin past /\ Cardinality(all \ E) =< Limit
    <3>1. Cardinality(all \ E) = Cardinality(all) - Cardinality(E) /\ Cardinality(E) \in Nat /\ Cardinality(all) \in Nat
      BY <2>3, TakenAway
    <3>2. ~(Cardinality(E) < Overflow(Cardinality(all))) /\ "skipped" \notin past
      BY <2>2, <2>4
    <3>3. QED BY <2>2, <3>1, <3>2, LimitAssumption DEF Overflow
  <2>5. ASSUME "skipped" \notin past', NEW o \in Calls, Evicted(o)'
        PROVE  Cardinality((live' \cup sess'[o]) \ removed'[o]) =< Limit
    <3>1. CASE o = c
      BY <2>2, <2>4, <2>5, <3>1 DEF all
    <3>2. CASE o # c
      BY <2>2, <2>4, <2>5, <3>2 DEF CapInv, Evicted
    <3>3. QED BY <3>1, <3>2
  <2>6. QED BY <2>2, <2>4, <2>5 DEF CapInv
<1>13. ASSUME NEW c \in Calls, NEW s \in sess[c], Issue(c, s) PROVE CapInv'
  BY <1>13 DEF Issue, Goto, CapInv, Evicted, CallInv, CallOk, LabelsOf, HasRow
<1>14. ASSUME NEW c \in Calls, NEW s \in sess[c], Mint(c, s), ~Refuse(c) PROVE CapInv'
  BY <1>14 DEF Mint, Goto, CapInv, Evicted, CallInv, CallOk, LabelsOf, HasRow
<1>15. ASSUME NEW c \in Calls, UpdateActivity(c) PROVE CapInv'
  BY <1>15 DEF UpdateActivity, Goto, CapInv, Evicted, CallInv, CallOk, LabelsOf, HasRow
<1>16. ASSUME NEW c \in Calls, Store(c) PROVE CapInv'
  BY <1>16 DEF Store, Goto, CapInv, Evicted, CallInv, CallOk, LabelsOf, HasRow
<1>17. ASSUME NEW c \in Calls, NEW t \in tok[c], LockToken(c, t), ~Refuse(c) PROVE CapInv'
  BY <1>17 DEF LockToken, Goto, CapInv, Evicted, CallInv, CallOk, LabelsOf, HasRow
<1>18. ASSUME NEW c \in Calls, CacheAnswer(c) PROVE CapInv'
  BY <1>18 DEF CacheAnswer, Answers, Goto, CapInv, Evicted, CallInv, CallOk, LabelsOf,
     HasRow
<1>19. ASSUME NEW c \in Calls, ListSessions(c) PROVE CapInv'
  BY <1>19 DEF ListSessions, Goto, CapInv, Evicted, CallInv, CallOk, LabelsOf, HasRow
<1>20. ASSUME NEW c \in Calls, NEW s \in todo[c], Remove(c, s) PROVE CapInv'
  BY <1>20 DEF Remove, CapInv, Evicted, CallInv, CallOk, LabelsOf, HasRow
<1>21. ASSUME NEW c \in Calls, Cascade(c) PROVE CapInv'
  BY <1>21 DEF Cascade, Goto, CapInv, Evicted, CallInv, CallOk, LabelsOf, HasRow
<1>22. ASSUME NEW c \in Calls, Uncache(c) PROVE CapInv'
  BY <1>22 DEF Uncache, Goto, CapInv, Evicted, CallInv, CallOk, LabelsOf, HasRow
<1>23. ASSUME NEW c \in Calls, Write(c), ~Refuse(c) PROVE CapInv'
  BY <1>23 DEF Write, Goto, CapInv, Evicted, CallInv, CallOk, LabelsOf, HasRow
<1>24. ASSUME NEW c \in Calls, Commit(c) PROVE CapInv'
  <2>1. CallOk(c) /\ pc[c] = "commit" /\ past' = past
    BY <1>24 DEF Commit, CallInv
  <2>2. ASSUME "skipped" \notin past PROVE Cardinality(live') =< Limit
    <3>1. CASE kind[c] = "login"
      BY <1>24, <2>1, <2>2, <3>1, CommitLive DEF CapInv, Evicted
    <3>2. CASE kind[c] # "login"
      <4>1. live' \subseteq live /\ IsFiniteSet(live)
        BY <1>24, <3>2, CommitLive, FS_Subset DEF CountInv
      <4>2. QED BY <2>2, <4>1, FewerWithinLimit DEF CapInv
    <3>3. QED BY <3>1, <3>2
  <2>3. ASSUME "skipped" \notin past, NEW o \in Calls, Evicted(o)'
        PROVE  Cardinality((live' \cup sess'[o]) \ removed'[o]) =< Limit
    <3>1. o # c /\ Evicted(o) /\ sess'[o] = sess[o] /\ removed'[o] = removed[o]
      BY <1>24, <2>3 DEF Commit, EndTx, Goto, Evicted
    <3>2. kind[c] # "login"
      BY <2>1, <3>1 DEF UserInv, OwnsUser, Evicted
    <3>3. live' \subseteq live
      BY <1>24, <3>2, CommitLive
    <3>4. sess[o] \subseteq known
      BY <3>1 DEF CallInv, CallOk, HasRow, Evicted
    <3>5. DEFINE X == (live \cup sess[o]) \ removed[o]
                 Y == (live' \cup sess'[o]) \ removed'[o]
    <3>6. IsFiniteSet(X) /\ Y \in SUBSET X /\ Cardinality(X) =< Limit
      <4>1. X \subseteq known
        BY <3>4
      <4>2. IsFiniteSet(X)
        BY <4>1, FS_Subset DEF CountInv
      <4>3. Cardinality(X) =< Limit
        BY <2>3, <3>1 DEF CapInv
      <4>4. QED BY <3>1, <3>3, <4>2, <4>3
    <3> HIDE DEF X
    <3>7. QED BY <3>6, FewerWithinLimit
  <2>4. QED BY <2>1, <2>2, <2>3 DEF CapInv
<1>25. ASSUME NEW c \in Calls, Refuse(c) PROVE CapInv'
  BY <1>25 DEF Refuse, EndTx, Goto, CapInv, Evicted, CallInv, CallOk, LabelsOf, HasRow
<1>26. ASSUME NEW t \in spent, Lapse(t) PROVE CapInv'
  BY <1>26 DEF Lapse, CapInv, Evicted, CallInv, CallOk, LabelsOf, HasRow
<1>27. CASE Forget
  BY <1>27 DEF Forget, CapInv, Evicted, CallInv, CallOk, LabelsOf, HasRow
<1>28. CASE UNCHANGED vars
  BY <1>28 DEF CapInv, Evicted, CallInv, CallOk, LabelsOf, HasRow
<1> HIDE DEF Typed
<1>29. QED BY <1>1, <1>2, <1>3, <1>4, <1>5, <1>6, <1>7, <1>8, <1>9, <1>10, <1>11, <1>12,
      <1>13, <1>14, <1>15, <1>16, <1>17, <1>18, <1>19, <1>20, <1>21, <1>22, <1>23, <1>24,
      <1>25, <1>26, <1>27, <1>28 DEF Next, Start, MobileCall, AdminCall, Step, Report,
      Fault, DeadlockVictim


-----------------------------------------------------------------------------
(*****************************************************************************)
(* Counting.                                                                *)
(*****************************************************************************)
\* The calls that may yet make a session or a token are finitely many.
LEMMA FewCalls ==
  /\ \A S \in SUBSET Calls : IsFiniteSet(S) /\ Cardinality(S) \in Nat
  /\ \A S \in SUBSET Calls : \A R \in SUBSET S : Cardinality(R) =< Cardinality(S)
  /\ \A S \in SUBSET Calls, c \in Calls : Cardinality(S \cup {c}) =< Cardinality(S) + 1
  /\ \A S \in SUBSET Calls : \A c \in S : Cardinality(S \ {c}) = Cardinality(S) - 1
<1>1. \A S \in SUBSET Calls : IsFiniteSet(S) /\ Cardinality(S) \in Nat
  BY BoundAssumption, FS_Subset, FS_CardinalityType
<1>2. \A S \in SUBSET Calls : \A R \in SUBSET S : Cardinality(R) =< Cardinality(S)
  BY <1>1, FS_Subset
<1>3. \A S \in SUBSET Calls, c \in Calls : Cardinality(S \cup {c}) =< Cardinality(S) + 1
  <2> TAKE S \in SUBSET Calls, c \in Calls
  <2>1. Cardinality(S \cup {c}) = IF c \in S THEN Cardinality(S) ELSE Cardinality(S) + 1
    BY <1>1, FS_AddElement
  <2>2. QED BY <1>1, <2>1
<1>4. \A S \in SUBSET Calls : \A c \in S : Cardinality(S \ {c}) = Cardinality(S) - 1
  BY <1>1, FS_RemoveElement
<1>5. QED BY <1>1, <1>2, <1>3, <1>4

\* What makes neither a session nor a token leaves the count; the start of a call is
\* counted by the calls that are left.
LEMMA CountKept ==
  ASSUME Typed, CountInv, known' = known, issued' = issued,
         \/ callsLeft' = callsLeft /\ Unadmitted' \subseteq Unadmitted /\ Unminted' \subseteq Unminted
         \/ \E c \in Calls : /\ callsLeft' = callsLeft - 1
                             /\ Unadmitted' \subseteq Unadmitted \cup {c} /\ Unminted' \subseteq Unminted \cup {c}
  PROVE  CountInv'
<1>1. /\ Unadmitted \in SUBSET Calls /\ Unadmitted' \in SUBSET Calls
      /\ Unminted \in SUBSET Calls /\ Unminted' \in SUBSET Calls
  BY DEF Unadmitted, Unminted
<1>2. Cardinality(known) \in Nat /\ Cardinality(issued) \in Nat /\ callsLeft \in Nat /\ MaxCalls \in Nat
  BY FS_CardinalityType, BoundAssumption DEF CountInv, Typed
<1>3. /\ Cardinality(known') + Cardinality(Unadmitted') + callsLeft' =< MaxCalls
      /\ Cardinality(issued') + Cardinality(Unminted') + callsLeft' =< MaxCalls
  <2>1. CASE callsLeft' = callsLeft /\ Unadmitted' \subseteq Unadmitted /\ Unminted' \subseteq Unminted
    <3>1. Cardinality(Unadmitted') =< Cardinality(Unadmitted) /\ Cardinality(Unminted') =< Cardinality(Unminted)
      BY <1>1, <2>1, FewCalls
    <3>2. QED BY <1>1, <1>2, <2>1, <3>1, FewCalls DEF CountInv
  <2>2. ASSUME NEW c \in Calls, callsLeft' = callsLeft - 1,
               Unadmitted' \subseteq Unadmitted \cup {c}, Unminted' \subseteq Unminted \cup {c}
        PROVE  /\ Cardinality(known') + Cardinality(Unadmitted') + callsLeft' =< MaxCalls
               /\ Cardinality(issued') + Cardinality(Unminted') + callsLeft' =< MaxCalls
    <3>1. /\ Unadmitted \cup {c} \in SUBSET Calls /\ Cardinality(Unadmitted') =< Cardinality(Unadmitted \cup {c})
          /\ Unminted \cup {c} \in SUBSET Calls /\ Cardinality(Unminted') =< Cardinality(Unminted \cup {c})
      BY <1>1, <2>2, FewCalls
    <3>2. /\ Cardinality(Unadmitted \cup {c}) =< Cardinality(Unadmitted) + 1
          /\ Cardinality(Unminted \cup {c}) =< Cardinality(Unminted) + 1
      BY <1>1, FewCalls
    <3>3. /\ Cardinality(Unadmitted) \in Nat /\ Cardinality(Unadmitted') \in Nat /\ Cardinality(Unadmitted \cup {c}) \in Nat
          /\ Cardinality(Unminted) \in Nat /\ Cardinality(Unminted') \in Nat /\ Cardinality(Unminted \cup {c}) \in Nat
      BY <1>1, <3>1, FewCalls
    <3>4. QED BY <1>2, <2>2, <3>1, <3>2, <3>3 DEF CountInv
  <2>3. QED BY <2>1, <2>2
<1>4. QED BY <1>3 DEF CountInv

\* A set of pairs stays numbered, by their first parts, when the next number is added.
LEMMA NextNumber ==
  ASSUME NEW S, IsFiniteSet(S), NEW x, x \notin S,
         x[2] = 1 + Cardinality({y \in S : y[1] = x[1]}),
         \A s \in S : s[2] \in Nat /\ s[2] =< Cardinality({y \in S : y[1] = s[1]})
  PROVE  /\ IsFiniteSet(S \cup {x}) /\ Cardinality(S \cup {x}) = Cardinality(S) + 1
         /\ \A s \in S \cup {x} : s[2] =< Cardinality({y \in S \cup {x} : y[1] = s[1]})
<1>1. IsFiniteSet(S \cup {x}) /\ Cardinality(S \cup {x}) = Cardinality(S) + 1
  BY FS_AddElement
<1>2. ASSUME NEW s \in S \cup {x}
      PROVE s[2] =< Cardinality({y \in S \cup {x} : y[1] = s[1]})
  <2> DEFINE R == {y \in S : y[1] = s[1]}
             T == {y \in S \cup {x} : y[1] = s[1]}
  <2>1. IsFiniteSet(R) /\ Cardinality(R) \in Nat
    BY FS_Subset, FS_CardinalityType
  <2>2. CASE x[1] = s[1]
    <3>1. T = R \cup {x} /\ x \notin R
      BY <2>2
    <3>2. Cardinality(R \cup {x}) = Cardinality(R) + 1
      BY <2>1, <3>1, FS_AddElement
    <3>3. CASE s = x
      <4>1. s[2] = 1 + Cardinality(R)
        BY <3>3
      <4>2. s[2] =< Cardinality(T)
        <5> HIDE DEF R, T
        <5>1. QED BY <2>1, <3>1, <3>2, <4>1
      <4>3. QED BY <4>2
    <3>4. CASE s \in S
      <4>1. s[2] \in Nat /\ s[2] =< Cardinality(R)
        BY <3>4
      <4>2. s[2] =< Cardinality(T)
        <5> HIDE DEF R, T
        <5>1. QED BY <2>1, <3>1, <3>2, <4>1
      <4>3. QED BY <4>2
    <3>5. QED BY <3>3, <3>4
  <2>3. CASE x[1] # s[1]
    <3>1. {y \in S \cup {x} : y[1] = s[1]} = R /\ s \in S
      BY <2>3
    <3>2. QED BY <3>1
  <2>4. QED BY <2>2, <2>3
<1>3. QED BY <1>1, <1>2

\* Every session and every token is a pair of what it belongs to and a number.
LEMMA Pairs ==
  ASSUME Typed
  PROVE  /\ \A s \in known : s[2] \in Nat
         /\ \A t \in issued : t[2] \in Nat
         /\ \A d : NextSession(d)[1] = d /\ NextSession(d)[2] = 1 + Cardinality({y \in known : y[1] = NextSession(d)[1]})
         /\ \A s : NextToken(s)[1] = s /\ NextToken(s)[2] = 1 + Cardinality({y \in issued : y[1] = NextToken(s)[1]})
<1>1. \A s \in known : s[2] \in Nat
  BY DEF Typed, Sessions
<1>2. \A t \in issued : t[2] \in Nat
  BY DEF Typed, Tokens
<1>3. \A d : NextSession(d) = <<d, 1 + Cardinality({y \in known : y[1] = d})>>
  BY DEF NextSession, DeviceOf
<1>4. \A s : NextToken(s) = <<s, 1 + Cardinality({y \in issued : y[1] = s})>>
  BY DEF NextToken, SessionOf
<1>5. QED BY <1>1, <1>2, <1>3, <1>4

\* Sessions keep their numbers when the next is made.
LEMMA NumberedSession ==
  ASSUME Typed, CountInv, NEW d, NextSession(d) \notin known
  PROVE  /\ IsFiniteSet(known \cup {NextSession(d)}) /\ Cardinality(known \cup {NextSession(d)}) = Cardinality(known) + 1
         /\ \A r \in known \cup {NextSession(d)} : r[2] =< Cardinality({y \in known \cup {NextSession(d)} : y[1] = r[1]})
<1>0. /\ IsFiniteSet(known) /\ NextSession(d)[2] = 1 + Cardinality({y \in known : y[1] = NextSession(d)[1]})
      /\ \A r \in known : r[2] \in Nat /\ r[2] =< Cardinality({y \in known : y[1] = r[1]})
  <2>1. IsFiniteSet(known) /\ \A r \in known : r[2] =< Cardinality({y \in known : y[1] = r[1]})
    BY DEF CountInv, DeviceOf
  <2>2. \A r \in known : r[2] \in Nat
    BY Pairs
  <2>3. NextSession(d)[2] = 1 + Cardinality({y \in known : y[1] = NextSession(d)[1]})
    BY Pairs
  <2>4. QED BY <2>1, <2>2, <2>3
<1>1. PICK x : x = NextSession(d)
  OBVIOUS
<1>2. PICK S : S = known
  OBVIOUS
<1>3. /\ IsFiniteSet(S) /\ x \notin S /\ x[2] = 1 + Cardinality({y \in S : y[1] = x[1]})
      /\ \A r \in S : r[2] \in Nat /\ r[2] =< Cardinality({y \in S : y[1] = r[1]})
  BY <1>0, <1>1, <1>2, Zenon
<1>4. /\ IsFiniteSet(S \cup {x}) /\ Cardinality(S \cup {x}) = Cardinality(S) + 1
      /\ \A r \in S \cup {x} : r[2] =< Cardinality({y \in S \cup {x} : y[1] = r[1]})
  BY <1>3, NextNumber
<1>5. QED BY <1>1, <1>2, <1>4

\* Tokens keep their numbers when the next is made.
LEMMA NumberedToken ==
  ASSUME Typed, CountInv, NEW s, NextToken(s) \notin issued
  PROVE  /\ IsFiniteSet(issued \cup {NextToken(s)}) /\ Cardinality(issued \cup {NextToken(s)}) = Cardinality(issued) + 1
         /\ \A r \in issued \cup {NextToken(s)} : r[2] =< Cardinality({y \in issued \cup {NextToken(s)} : y[1] = r[1]})
<1>0. /\ IsFiniteSet(issued) /\ NextToken(s)[2] = 1 + Cardinality({y \in issued : y[1] = NextToken(s)[1]})
      /\ \A r \in issued : r[2] \in Nat /\ r[2] =< Cardinality({y \in issued : y[1] = r[1]})
  <2>1. IsFiniteSet(issued) /\ \A r \in issued : r[2] =< Cardinality({y \in issued : y[1] = r[1]})
    BY DEF CountInv, SessionOf
  <2>2. \A r \in issued : r[2] \in Nat
    BY Pairs
  <2>3. NextToken(s)[2] = 1 + Cardinality({y \in issued : y[1] = NextToken(s)[1]})
    BY Pairs
  <2>4. QED BY <2>1, <2>2, <2>3
<1>1. PICK x : x = NextToken(s)
  OBVIOUS
<1>2. PICK S : S = issued
  OBVIOUS
<1>3. /\ IsFiniteSet(S) /\ x \notin S /\ x[2] = 1 + Cardinality({y \in S : y[1] = x[1]})
      /\ \A r \in S : r[2] \in Nat /\ r[2] =< Cardinality({y \in S : y[1] = r[1]})
  BY <1>0, <1>1, <1>2, Zenon
<1>4. /\ IsFiniteSet(S \cup {x}) /\ Cardinality(S \cup {x}) = Cardinality(S) + 1
      /\ \A r \in S \cup {x} : r[2] =< Cardinality({y \in S \cup {x} : y[1] = r[1]})
  BY <1>3, NextNumber
<1>5. QED BY <1>1, <1>2, <1>4

\* A new session or a new token is counted by the call that makes it.
LEMMA CountMade ==
  ASSUME Typed, CountInv, callsLeft' = callsLeft, NEW c \in Calls,
         \/ \E d \in Devices : /\ known' = known \cup {NextSession(d)} /\ NextSession(d) \notin known /\ issued' = issued
                               /\ c \in Unadmitted /\ Unadmitted' \subseteq Unadmitted \ {c} /\ Unminted' \subseteq Unminted
         \/ \E s \in known : /\ issued' = issued \cup {NextToken(s)} /\ NextToken(s) \notin issued /\ known' = known
                             /\ c \in Unminted /\ Unminted' \subseteq Unminted \ {c} /\ Unadmitted' \subseteq Unadmitted
  PROVE  CountInv'
<1>1. /\ Unadmitted \in SUBSET Calls /\ Unadmitted' \in SUBSET Calls
      /\ Unminted \in SUBSET Calls /\ Unminted' \in SUBSET Calls
  BY DEF Unadmitted, Unminted
<1>2. Cardinality(known) \in Nat /\ Cardinality(issued) \in Nat /\ callsLeft \in Nat /\ MaxCalls \in Nat
  BY FS_CardinalityType, BoundAssumption DEF CountInv, Typed
<1>3. /\ Cardinality(Unadmitted) \in Nat /\ Cardinality(Unadmitted') \in Nat
      /\ Cardinality(Unminted) \in Nat /\ Cardinality(Unminted') \in Nat
  BY <1>1, FewCalls
<1> USE DEF DeviceOf, SessionOf
<1>4. ASSUME NEW d \in Devices,
             known' = known \cup {NextSession(d)}, NextSession(d) \notin known, issued' = issued,
             c \in Unadmitted, Unadmitted' \subseteq Unadmitted \ {c}, Unminted' \subseteq Unminted
      PROVE  CountInv'
  <2>1. /\ IsFiniteSet(known') /\ Cardinality(known') = Cardinality(known) + 1
        /\ \A s \in known' : s[2] =< Cardinality({y \in known' : y[1] = s[1]})
    BY <1>4, NumberedSession
  <2>2. Cardinality(Unadmitted') =< Cardinality(Unadmitted) - 1 /\ Cardinality(Unminted') =< Cardinality(Unminted)
    <3>1. Unadmitted \ {c} \in SUBSET Calls /\ Cardinality(Unadmitted \ {c}) = Cardinality(Unadmitted) - 1
      BY <1>1, <1>4, FewCalls
    <3>2. QED BY <1>1, <1>4, <3>1, FewCalls
  <2>3. QED BY <1>2, <1>3, <1>4, <2>1, <2>2 DEF CountInv
<1>5. ASSUME NEW s \in known,
             issued' = issued \cup {NextToken(s)}, NextToken(s) \notin issued, known' = known,
             c \in Unminted, Unminted' \subseteq Unminted \ {c}, Unadmitted' \subseteq Unadmitted
      PROVE  CountInv'
  <2>1. /\ IsFiniteSet(issued') /\ Cardinality(issued') = Cardinality(issued) + 1
        /\ \A t \in issued' : t[2] =< Cardinality({y \in issued' : y[1] = t[1]})
    BY <1>5, NumberedToken
  <2>2. Cardinality(Unminted') =< Cardinality(Unminted) - 1 /\ Cardinality(Unadmitted') =< Cardinality(Unadmitted)
    <3>1. Unminted \ {c} \in SUBSET Calls /\ Cardinality(Unminted \ {c}) = Cardinality(Unminted) - 1
      BY <1>1, <1>5, FewCalls
    <3>2. QED BY <1>1, <1>5, <3>1, FewCalls
  <2>3. QED BY <1>2, <1>3, <1>5, <2>1, <2>2 DEF CountInv
<1>6. QED BY <1>4, <1>5

\* The count is kept.
LEMMA CountStep ==
  Typed /\ CallInv /\ RowLocks /\ TokenLocks /\ TokensInv /\ MintedInv /\ CountInv /\
      [Next]_vars => CountInv'
<1> SUFFICES ASSUME Typed, CallInv, RowLocks, TokenLocks, TokensInv, MintedInv, CountInv,
      [Next]_vars
             PROVE CountInv'
  OBVIOUS
<1> USE DEF Typed, Kinds, Deciders
<1>1. ASSUME NEW c \in Calls, NEW d \in Devices, Login(c, d) PROVE CountInv'
  <2>1. Unadmitted' \subseteq Unadmitted \cup {c} /\ Unminted' \subseteq Unminted \cup {c}
    BY <1>1 DEF Login, Begin, Goto, Unadmitted, Unminted
  <2>2. QED BY <1>1, <2>1, CountKept DEF Login, Begin, Goto
<1>2. ASSUME NEW c \in Calls, NEW d \in Devices, Revoke(c, d) PROVE CountInv'
  <2>1. Unadmitted' \subseteq Unadmitted \cup {c} /\ Unminted' \subseteq Unminted \cup {c}
    BY <1>2 DEF Revoke, Begin, Goto, Unadmitted, Unminted
  <2>2. QED BY <1>2, <2>1, CountKept DEF Revoke, Begin, Goto
<1>3. ASSUME NEW c \in Calls, NEW s \in known, Request(c, s) PROVE CountInv'
  <2>1. Unadmitted' \subseteq Unadmitted \cup {c} /\ Unminted' \subseteq Unminted \cup {c}
    BY <1>3 DEF Request, Begin, Goto, Unadmitted, Unminted
  <2>2. QED BY <1>3, <2>1, CountKept DEF Request, Begin, Goto
<1>4. ASSUME NEW c \in Calls, NEW s \in known, Logout(c, s) PROVE CountInv'
  <2>1. Unadmitted' \subseteq Unadmitted \cup {c} /\ Unminted' \subseteq Unminted \cup {c}
    BY <1>4 DEF Logout, Begin, Goto, Unadmitted, Unminted
  <2>2. QED BY <1>4, <2>1, CountKept DEF Logout, Begin, Goto
<1>5. ASSUME NEW c \in Calls, NEW t \in issued, Refresh(c, t) PROVE CountInv'
  <2>1. Unadmitted' \subseteq Unadmitted \cup {c} /\ Unminted' \subseteq Unminted \cup {c}
    BY <1>5 DEF Refresh, Begin, Goto, Unadmitted, Unminted
  <2>2. QED BY <1>5, <2>1, CountKept DEF Refresh, Begin, Goto
<1>6. ASSUME NEW c \in Calls, NEW v, Expel(c, v) PROVE CountInv'
  <2>1. Unadmitted' \subseteq Unadmitted \cup {c} /\ Unminted' \subseteq Unminted \cup {c}
    BY <1>6 DEF Expel, Begin, Goto, Unadmitted, Unminted
  <2>2. QED BY <1>6, <2>1, CountKept DEF Expel, Begin, Goto
<1>7. ASSUME NEW c \in Calls, NEW v, Edit(c, v) PROVE CountInv'
  <2>1. Unadmitted' \subseteq Unadmitted \cup {c} /\ Unminted' \subseteq Unminted \cup {c}
    BY <1>7 DEF Edit, Goto, Unadmitted, Unminted
  <2>2. QED BY <1>7, <2>1, CountKept DEF Edit, Goto
<1>8. ASSUME NEW c \in Calls, Unblock(c) PROVE CountInv'
  <2>1. Unadmitted' \subseteq Unadmitted \cup {c} /\ Unminted' \subseteq Unminted \cup {c}
    BY <1>8 DEF Unblock, Begin, Goto, Unadmitted, Unminted
  <2>2. QED BY <1>8, <2>1, CountKept DEF Unblock, Begin, Goto
<1>9. ASSUME NEW c \in Calls, LockUser(c), ~Refuse(c) PROVE CountInv'
  <2>1. Unadmitted' \subseteq Unadmitted /\ Unminted' \subseteq Unminted
    BY <1>9 DEF LockUser, Goto, Unadmitted, Unminted
  <2>2. QED BY <1>9, <2>1, CountKept DEF LockUser, Goto
<1>10. ASSUME NEW c \in Calls, NEW d \in Devices, Upsert(c, d) PROVE CountInv'
  <2>1. PICK row \in SUBSET Sessions :
          /\ sess' = [sess EXCEPT ![c] = row] /\ touched' = [touched EXCEPT ![c] = row]
          /\ known' = known \cup row
          /\ \/ row \subseteq live /\ \A s \in row : Writers(c, s) = {}
             \/ row = {NextSession(d)} /\ NextSession(d) \notin known
    BY <1>10, UpsertRow
  <2>2. /\ callsLeft' = callsLeft /\ issued' = issued /\ c \in Unadmitted
        /\ Unadmitted' \subseteq Unadmitted \ {c} /\ Unminted' \subseteq Unminted
    BY <1>10 DEF Upsert, Goto, Unadmitted, Unminted, CallInv, CallOk, LabelsOf
  <2>3. CASE row \subseteq live
    BY <2>1, <2>2, <2>3, CountKept
  <2>4. CASE row = {NextSession(d)} /\ NextSession(d) \notin known
    BY <2>1, <2>2, <2>4, CountMade
  <2>5. QED BY <2>1, <2>3, <2>4
<1>11. ASSUME NEW c \in Calls, NEW d \in Devices, DeleteDevice(c, d) PROVE CountInv'
  <2>1. Unadmitted' \subseteq Unadmitted /\ Unminted' \subseteq Unminted
    BY <1>11 DEF DeleteDevice, Goto, Unadmitted, Unminted
  <2>2. QED BY <1>11, <2>1, CountKept DEF DeleteDevice, Goto
<1>12. ASSUME NEW c \in Calls, NEW E \in SUBSET live, Evict(c, E) PROVE CountInv'
  <2>1. Unadmitted' \subseteq Unadmitted /\ Unminted' \subseteq Unminted
    BY <1>12 DEF Evict, Goto, Unadmitted, Unminted
  <2>2. QED BY <1>12, <2>1, CountKept DEF Evict, Goto
<1>13. ASSUME NEW c \in Calls, NEW s \in sess[c], Issue(c, s) PROVE CountInv'
  <2>1. /\ minted' = [minted EXCEPT ![c] = {NextToken(s)}] /\ issued' = issued \cup {NextToken(s)}
        /\ NextToken(s) \in Tokens \ issued /\ SessionOf(NextToken(s)) = s
        /\ s \in known /\ \A o \in Calls \ {c} : s \notin removed[o]
    BY <1>13, MintedToken
  <2>2. /\ callsLeft' = callsLeft /\ known' = known /\ c \in Unminted
        /\ Unminted' \subseteq Unminted \ {c} /\ Unadmitted' \subseteq Unadmitted
    BY <1>13 DEF Issue, Goto, Unadmitted, Unminted, CallInv, CallOk, LabelsOf
  <2>3. QED BY <2>1, <2>2, CountMade
<1>14. ASSUME NEW c \in Calls, NEW s \in sess[c], Mint(c, s), ~Refuse(c) PROVE CountInv'
  <2>1. /\ minted' = [minted EXCEPT ![c] = {NextToken(s)}] /\ issued' = issued \cup {NextToken(s)}
        /\ NextToken(s) \in Tokens \ issued /\ SessionOf(NextToken(s)) = s
        /\ s \in known /\ \A o \in Calls \ {c} : s \notin removed[o]
    BY <1>14, MintedToken
  <2>2. /\ callsLeft' = callsLeft /\ known' = known /\ c \in Unminted
        /\ Unminted' \subseteq Unminted \ {c} /\ Unadmitted' \subseteq Unadmitted
    BY <1>14 DEF Mint, Goto, Unadmitted, Unminted, CallInv, CallOk, LabelsOf
  <2>3. QED BY <2>1, <2>2, CountMade
<1>15. ASSUME NEW c \in Calls, UpdateActivity(c) PROVE CountInv'
  <2>1. Unadmitted' \subseteq Unadmitted /\ Unminted' \subseteq Unminted
    BY <1>15 DEF UpdateActivity, Goto, Unadmitted, Unminted
  <2>2. QED BY <1>15, <2>1, CountKept DEF UpdateActivity, Goto
<1>16. ASSUME NEW c \in Calls, Store(c) PROVE CountInv'
  <2>1. Unadmitted' \subseteq Unadmitted /\ Unminted' \subseteq Unminted
    BY <1>16 DEF Store, Goto, Unadmitted, Unminted
  <2>2. QED BY <1>16, <2>1, CountKept DEF Store, Goto
<1>17. ASSUME NEW c \in Calls, NEW t \in tok[c], LockToken(c, t), ~Refuse(c) PROVE CountInv'
  <2>1. Unadmitted' \subseteq Unadmitted /\ Unminted' \subseteq Unminted
    BY <1>17 DEF LockToken, Goto, Unadmitted, Unminted
  <2>2. QED BY <1>17, <2>1, CountKept DEF LockToken, Goto
<1>18. ASSUME NEW c \in Calls, CacheAnswer(c) PROVE CountInv'
  <2>1. Unadmitted' \subseteq Unadmitted /\ Unminted' \subseteq Unminted
    BY <1>18 DEF CacheAnswer, Answers, Goto, Unadmitted, Unminted
  <2>2. QED BY <1>18, <2>1, CountKept DEF CacheAnswer, Answers, Goto
<1>19. ASSUME NEW c \in Calls, ListSessions(c) PROVE CountInv'
  <2>1. Unadmitted' \subseteq Unadmitted /\ Unminted' \subseteq Unminted
    BY <1>19 DEF ListSessions, Goto, Unadmitted, Unminted
  <2>2. QED BY <1>19, <2>1, CountKept DEF ListSessions, Goto
<1>20. ASSUME NEW c \in Calls, NEW s \in todo[c], Remove(c, s) PROVE CountInv'
  <2>1. Unadmitted' \subseteq Unadmitted /\ Unminted' \subseteq Unminted
    BY <1>20 DEF Remove, Unadmitted, Unminted
  <2>2. QED BY <1>20, <2>1, CountKept DEF Remove
<1>21. ASSUME NEW c \in Calls, Cascade(c) PROVE CountInv'
  <2>1. Unadmitted' \subseteq Unadmitted /\ Unminted' \subseteq Unminted
    BY <1>21 DEF Cascade, Goto, Unadmitted, Unminted
  <2>2. QED BY <1>21, <2>1, CountKept DEF Cascade, Goto
<1>22. ASSUME NEW c \in Calls, Uncache(c) PROVE CountInv'
  <2>1. Unadmitted' \subseteq Unadmitted /\ Unminted' \subseteq Unminted
    BY <1>22 DEF Uncache, Goto, Unadmitted, Unminted
  <2>2. QED BY <1>22, <2>1, CountKept DEF Uncache, Goto
<1>23. ASSUME NEW c \in Calls, Write(c), ~Refuse(c) PROVE CountInv'
  <2>1. Unadmitted' \subseteq Unadmitted /\ Unminted' \subseteq Unminted
    BY <1>23 DEF Write, Goto, Unadmitted, Unminted
  <2>2. QED BY <1>23, <2>1, CountKept DEF Write, Goto
<1>24. ASSUME NEW c \in Calls, Commit(c) PROVE CountInv'
  <2>1. Unadmitted' \subseteq Unadmitted /\ Unminted' \subseteq Unminted
    BY <1>24 DEF Commit, Cascaded, TokensOf, Written, EndTx, Goto, Unadmitted, Unminted
  <2>2. QED BY <1>24, <2>1, CountKept DEF Commit, Cascaded, TokensOf, Written, EndTx, Goto
<1>25. ASSUME NEW c \in Calls, Refuse(c) PROVE CountInv'
  <2>1. Unadmitted' \subseteq Unadmitted /\ Unminted' \subseteq Unminted
    BY <1>25 DEF Refuse, EndTx, Goto, Unadmitted, Unminted
  <2>2. QED BY <1>25, <2>1, CountKept DEF Refuse, EndTx, Goto
<1>26. ASSUME NEW t \in spent, Lapse(t) PROVE CountInv'
  <2>1. Unadmitted' \subseteq Unadmitted /\ Unminted' \subseteq Unminted
    BY <1>26 DEF Lapse, Unadmitted, Unminted
  <2>2. QED BY <1>26, <2>1, CountKept DEF Lapse
<1>27. CASE Forget
  <2>1. Unadmitted' \subseteq Unadmitted /\ Unminted' \subseteq Unminted
    BY <1>27 DEF Forget, Unadmitted, Unminted
  <2>2. QED BY <1>27, <2>1, CountKept DEF Forget
<1>28. CASE UNCHANGED vars
  <2>1. Unadmitted' \subseteq Unadmitted /\ Unminted' \subseteq Unminted
    BY <1>28 DEF Unadmitted, Unminted
  <2>2. QED BY <1>28, <2>1, CountKept
<1> HIDE DEF Typed
<1>29. QED BY <1>1, <1>2, <1>3, <1>4, <1>5, <1>6, <1>7, <1>8, <1>9, <1>10, <1>11, <1>12,
      <1>13, <1>14, <1>15, <1>16, <1>17, <1>18, <1>19, <1>20, <1>21, <1>22, <1>23, <1>24,
      <1>25, <1>26, <1>27, <1>28 DEF Next, Start, MobileCall, AdminCall, Step, Report,
      Fault, DeadlockVictim


-----------------------------------------------------------------------------
(*****************************************************************************)
(* The theorems.                                                            *)
(*****************************************************************************)
\* The first state: there is no session and no call.
LEMMA InitInv == Init => SessionInv
<1> SUFFICES ASSUME Init PROVE SessionInv
  OBVIOUS
<1>1. Typed
  BY BoundAssumption DEF Init, Typed, Labels, LabelsOf, Kinds, Deciders
<1>2. CallInv
  BY DEF Init, CallInv, CallOk, LabelsOf, VerdictsOf, HasRow, HasToken, Exchanging
<1>3. UserInv /\ RowLocks /\ TokenLocks /\ TokensInv /\ MintedInv
  BY DEF Init, UserInv, OwnsUser, RowLocks, TokenLocks, TokensInv, MintedInv
<1>4. ReplayInv
  BY DEF Init, ReplayInv, RotatedOnce
<1>5. BlockInv
  BY DEF Init, BlockInv, BlockedHasNoSession
<1>6. Cardinality({}) = 0 /\ IsFiniteSet({})
  BY FS_EmptySet
<1>7. CountInv
  <2>1. Unadmitted = {} /\ Unminted = {}
    BY DEF Init, Unadmitted, Unminted
  <2>2. QED BY <1>6, <2>1, BoundAssumption DEF Init, CountInv
<1>8. CapInv
  BY <1>6, LimitAssumption DEF Init, CapInv, Evicted
<1>9. QED BY <1>1, <1>2, <1>3, <1>4, <1>5, <1>7, <1>8 DEF SessionInv

\* The inductive invariant: a row or a token that a transaction works on is no other's,
\* which is what the row locks and the order of the statements are for, and the numbers
\* of sessions and tokens are given out once.
THEOREM SessionInvariant == Spec => []SessionInv
<1>1. Init => SessionInv
  BY InitInv
<1>2. SessionInv /\ [Next]_vars => SessionInv'
  <2> SUFFICES ASSUME SessionInv, [Next]_vars PROVE SessionInv'
    OBVIOUS
  <2>1. /\ Typed /\ CallInv /\ UserInv /\ RowLocks /\ TokenLocks /\ TokensInv
        /\ MintedInv /\ ReplayInv /\ CountInv /\ BlockInv /\ CapInv
    BY DEF SessionInv
  <2>2. Typed' /\ CallInv' /\ UserInv' /\ RowLocks'
    BY <2>1, TypeStep, CallStep, UserStep, RowsStep
  <2>3. TokenLocks' /\ TokensInv' /\ MintedInv' /\ ReplayInv'
    BY <2>1, TokenLocksStep, TokensStep, MintedStep, ReplayStep
  <2>4. CountInv' /\ BlockInv' /\ CapInv'
    BY <2>1, CountStep, BlockStep, CapStep
  <2>5. QED BY <2>2, <2>3, <2>4 DEF SessionInv
<1> HIDE DEF vars
<1>3. QED BY <1>1, <1>2, PTL DEF Spec

\* Type correctness and referential integrity: a token that is there has its session, no
\* token is both fresh and spent, and a transaction deletes what is there.
THEOREM TypeCorrect == Spec => []TypeOK
<1>1. SessionInv => TypeOK
  BY DEF SessionInv, Typed, TokensInv, TypeOK
<1>2. QED BY <1>1, SessionInvariant, PTL

\* However blocks, deletions and logins overlap, a user who is not active has no session
\* left, as long as nobody writes the column by an edit (block_user, mobile_login).
THEOREM BlockEndsSessions == Spec => []BlockedHasNoSession
<1>1. SessionInv => BlockedHasNoSession
  BY DEF SessionInv, BlockInv
<1>2. QED BY <1>1, SessionInvariant, PTL

\* However logins, logouts, revocations and refreshes overlap, a user has no more than
\* SESSION_LIMIT sessions, unless an eviction passed a locked row over
\* (evict_overflow_sessions).
THEOREM LimitHolds == Spec => []CapKept
<1>1. SessionInv => CapKept
  BY DEF SessionInv, CapInv, CapKept
<1>2. QED BY <1>1, SessionInvariant, PTL

\* However exchanges, retries, thefts and deletions of one refresh token overlap, fail and
\* are repeated, it has one successor, and the cached answer names that one (refresh_token).
THEOREM OneSuccessor == Spec => []RotatedOnce
<1>1. SessionInv => RotatedOnce
  BY DEF SessionInv, ReplayInv
<1>2. QED BY <1>1, SessionInvariant, PTL

\* A session is over that is not there and that no login is about to insert; a token is
\* used up that was exchanged, or is not there and not about to be inserted.
Over == {s \in known \ live : \A c \in Calls : s \notin touched[c]}
Void == {t \in issued \ (fresh \cup spent) : \A c \in Calls : t \notin minted[c]}
UsedUp == spent \cup Void
EndsForGood ==
  /\ Over \subseteq Over' /\ live \ live' \subseteq Over'
  /\ UsedUp \subseteq UsedUp'

\* A statement that leaves the tables as they are ends nothing, and brings nothing back
\* as long as what it inserts or locks is new or there.
LEMMA StatementEnds ==
  ASSUME Typed, UNCHANGED <<live, fresh, spent>>,
         known \subseteq known', issued \subseteq issued',
         \A c \in Calls : /\ \A s \in touched'[c] : s \in touched[c] \cup live \/ s \notin known
                         /\ \A t \in minted'[c] : t \in minted[c] \/ t \notin issued
  PROVE  EndsForGood
BY DEF Typed, EndsForGood, Over, UsedUp, Void

\* Of a commit: what it deletes nobody else writes to or inserts a token for, and what it
\* inserts was about to be inserted.
LEMMA CommitEnds ==
  ASSUME Typed, CallInv, RowLocks, TokenLocks, TokensInv, MintedInv, NEW c \in Calls, Commit(c)
  PROVE  EndsForGood
<1>1. /\ UNCHANGED <<known, issued>>
      /\ touched' = [touched EXCEPT ![c] = {}] /\ minted' = [minted EXCEPT ![c] = {}]
  BY DEF Commit, EndTx
<1>2. \A o \in Calls : touched'[o] \subseteq touched[o] /\ minted'[o] \subseteq minted[o]
  BY <1>1 DEF Typed
<1>3. ASSUME NEW s \in Over PROVE s \in Over'
  <2>1. kind[c] = "login" => sess[c] = touched[c]
    BY DEF Commit, CallInv, CallOk, HasRow
  <2>2. s \notin live'
    BY <2>1, CommitLive DEF Over
  <2>3. QED BY <1>1, <1>2, <2>2 DEF Over
<1>4. ASSUME NEW s \in live \ live' PROVE s \in Over'
  <2>1. s \in removed[c]
    BY CommitLive
  <2>2. \A o \in Calls \ {c} : s \notin touched[o]
    BY <2>1 DEF RowLocks
  <2>3. touched'[c] = {} /\ \A o \in Calls \ {c} : touched'[o] = touched[o]
    BY <1>1 DEF Typed
  <2>4. QED BY <1>1, <2>2, <2>3 DEF Over, Typed
<1>5. ASSUME NEW t \in UsedUp PROVE t \in UsedUp'
  <2>1. t \in issued /\ t \notin fresh /\ \A o \in Calls : t \notin minted[o]
    BY DEF UsedUp, Void, Typed, TokensInv, MintedInv
  <2>2. t \notin fresh'
    BY <2>1, CommitTokens
  <2>3. QED BY <1>1, <1>2, <2>1, <2>2 DEF UsedUp, Void
<1>6. QED BY <1>3, <1>4, <1>5 DEF EndsForGood

\* A session that was logged out, evicted or revoked, and a refresh token that was
\* exchanged or went with its session, are gone for good: no login, request or exchange
\* that overlaps the deletion, and none that is rolled back, brings them back to the
\* tables (evict_overflow_sessions, logout, revoke_device, refresh_token).
THEOREM RevocationIsFinal == Spec => [][EndsForGood]_vars
<1>1. ASSUME SessionInv, Next PROVE EndsForGood
  <2> USE <1>1 DEF SessionInv
  <2>1. ASSUME NEW c \in Calls, Start(c) PROVE EndsForGood
    BY <2>1, StatementEnds DEF Start, MobileCall, AdminCall, Login, Revoke, Request, Logout, Refresh,
       Expel, Edit, Unblock, Begin
  <2>2. ASSUME NEW c \in Calls, Refuse(c) PROVE EndsForGood
    <3>1. /\ touched' = [touched EXCEPT ![c] = {}] /\ minted' = [minted EXCEPT ![c] = {}]
          /\ UNCHANGED <<db, ids>>
      BY <2>2 DEF Refuse, EndTx
    <3>2. \A o \in Calls : touched'[o] \subseteq touched[o] /\ minted'[o] \subseteq minted[o]
      BY <3>1 DEF Typed
    <3>3. QED BY <3>1, <3>2, StatementEnds
  <2>3. ASSUME NEW c \in Calls, NEW d \in Devices, Upsert(c, d) PROVE EndsForGood
    <3>1. PICK row \in SUBSET Sessions :
            /\ sess' = [sess EXCEPT ![c] = row] /\ touched' = [touched EXCEPT ![c] = row]
            /\ known' = known \cup row
            /\ \/ row \subseteq live /\ \A s \in row : Writers(c, s) = {}
               \/ row = {NextSession(d)} /\ NextSession(d) \notin known
      BY <2>3, UpsertRow
    <3>2. \A s \in row : s \in live \/ s \notin known
      BY <3>1
    <3>3. \A o \in Calls : touched'[o] = IF o = c THEN row ELSE touched[o]
      BY <3>1 DEF Typed
    <3>4. UNCHANGED <<db, issued, minted>>
      BY <2>3 DEF Upsert
    <3>5. QED BY <3>1, <3>2, <3>3, <3>4, StatementEnds
  <2>4. ASSUME NEW c \in Calls, NEW s \in sess[c], Issue(c, s) \/ (Mint(c, s) /\ ~Refuse(c))
        PROVE  EndsForGood
    <3>1. minted' = [minted EXCEPT ![c] = {NextToken(s)}] /\ issued' = issued \cup {NextToken(s)}
          /\ NextToken(s) \notin issued
      BY <2>4, MintedToken
    <3>2. UNCHANGED <<db, known, touched>>
      BY <2>4 DEF Issue, Mint
    <3>3. \A o \in Calls : minted'[o] = IF o = c THEN {NextToken(s)} ELSE minted[o]
      BY <3>1 DEF Typed
    <3>4. QED BY <3>1, <3>2, <3>3, StatementEnds
  <2>5. ASSUME NEW c \in Calls, UpdateActivity(c) PROVE EndsForGood
    <3>1. /\ UNCHANGED <<db, ids, minted>>
          /\ \A o \in Calls : touched'[o] \subseteq touched[o] \cup live
      BY <2>5 DEF UpdateActivity, Typed
    <3>2. QED BY <3>1, StatementEnds
  <2>6. ASSUME NEW c \in Calls, Commit(c) PROVE EndsForGood
    BY <2>6, CommitEnds
  <2>7. ASSUME UNCHANGED <<db, ids, touched, minted>> PROVE EndsForGood
    BY <2>7, StatementEnds
  <2>8. ASSUME NEW c \in Calls, Step(c) PROVE EndsForGood
    BY <2>2, <2>3, <2>4, <2>5, <2>6, <2>7, <2>8 DEF Step, LockUser, DeleteDevice, Evict, Store,
       LockToken, CacheAnswer, Report, ListSessions, Remove, Cascade, Uncache, Write
  <2>9. QED BY <1>1, <2>1, <2>2, <2>7, <2>8 DEF Next, Fault, DeadlockVictim, Lapse, Forget
<1>2. SessionInv /\ [Next]_vars => [EndsForGood]_vars
  BY <1>1
<1> HIDE DEF vars
<1>3. QED BY <1>2, SessionInvariant, PTL DEF Spec

=============================================================================
