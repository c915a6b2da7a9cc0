---------------------------- MODULE MobileSessions ----------------------------
(***************************************************************************)
(* The sessions of one mobile user and their refresh tokens: AuthService   *)
(* in app/service/users.py and get_current_mobile_user in                  *)
(* app/deps/token_auth.py.  A user has a session on each device, up to     *)
(* SESSION_LIMIT of them; a session has refresh tokens, each exchanged     *)
(* once for its successor; Redis caches sessions that have been checked,   *)
(* and for a grace period the answers of exchanges, for a client to retry. *)
(*                                                                         *)
(* Every call is one READ COMMITTED transaction; what it does to Redis     *)
(* shows at once and is not rolled back.  A DELETE of a session waits for  *)
(* every other lock of its row and takes its tokens along (ON DELETE       *)
(* CASCADE), an INSERT of a token locks its session against deletion only  *)
(* (FOR KEY SHARE).  The expiry of sessions that nobody deletes is left    *)
(* out.  A row of the device is deleted with its session (ON DELETE        *)
(* CASCADE) by the call that revokes it.                                   *)
(***************************************************************************)
EXTENDS Naturals, FiniteSets

CONSTANTS
  Calls,        \* HTTP calls the server can have under way at once
  Devices,
  Limit,        \* SESSION_LIMIT
  MaxCalls      \* bound: how many calls are made

ASSUME LimitAssumption == Limit \in Nat \ {0}
ASSUME BoundAssumption == MaxCalls \in Nat /\ IsFiniteSet(Calls)

Sessions == Devices \X (1..MaxCalls)
Tokens == Sessions \X (1..MaxCalls)
DeviceOf(s) == s[1]
SessionOf(t) == t[1]

VARIABLES       \* committed
  user,         \* "active", "blocked" or "deleted"
  live,         \* rows of user_sessions
  fresh, spent, \* rows of refresh_tokens, by their column used
  successors    \* <<t, u>>: u was inserted in exchange for t
VARIABLES
  known,        \* sessions ever inserted
  issued,       \* tokens ever inserted
  lapsed,       \* spent tokens whose grace period is over
  cache,        \* sessions cached in Redis
  replay,       \* <<t, u>>: Redis has the answer of the exchange of t, with u
  callsLeft,
  past          \* what has happened so far, of Incidents
VARIABLES       \* of each call and its transaction
  kind, pc,
  sess,         \* sessions it has inserted or works on, at most one
  tok,          \* refresh tokens it was given, at most one
  todo,         \* sessions it has yet to delete
  targets,      \* sessions whose cache entries it deletes
  touched,      \* rows of sessions it updated or inserted, hence locks
  removed,      \* rows it deleted
  minted,       \* tokens it inserted, at most one
  marked,       \* tokens it marked used, at most one
  verdict       \* what it writes to the row of the user, or "none"

\* An eviction passed over a locked row; an administrator or the user edited
\* the row of the user.
Incidents == {"skipped", "edit"}

db == <<user, live, fresh, spent, successors>>
ids == <<known, issued>>
redis == <<cache, replay>>
world == <<ids, lapsed, callsLeft, past>>
writes == <<touched, removed, minted, marked, verdict>>
call == <<kind, pc, sess, tok, todo, targets, writes>>
vars == <<db, world, redis, call>>

TokensOf(S) == {t \in fresh \cup spent : SessionOf(t) \in S}
NextSession(d) == <<d, 1 + Cardinality({s \in known : DeviceOf(s) = d})>>
NextToken(s) == <<s, 1 + Cardinality({t \in issued : SessionOf(t) = s})>>

(***************************************************************************)
(* Locks, held to the end of the transaction.                              *)
(***************************************************************************)
OwnsUser(c) == verdict[c] # "none" \/ (kind[c] = "login" /\ pc[c] \notin {"idle", "user"})

\* Calls that a DELETE of s by c, and an UPDATE, has to wait for.
Holders(c, s) ==
  {o \in Calls \ {c} : s \in touched[o] \cup removed[o] \/ \E t \in minted[o] : SessionOf(t) = s}
Writers(c, s) == {o \in Calls \ {c} : s \in touched[o] \cup removed[o]}
Removers(c, s) == {o \in Calls \ {c} : s \in removed[o]}
\* Calls that hold the row of the token t, after its SELECT FOR UPDATE or by a cascade.
TokenHolders(c, t) ==
  {o \in Calls \ {c} : \/ t \in tok[o] /\ pc[o] # "token"
                       \/ SessionOf(t) \in removed[o] /\ pc[o] # "remove"}

\* A revocation locks the row of its device to the end; a login that inserts a session
\* shares that of its own.
Revokes(o, d) == kind[o] = "revoke" /\ pc[o] \notin {"idle", "device"} /\ \E s \in sess[o] : DeviceOf(s) = d
DeviceHolders(c, d) ==
  {o \in Calls \ {c} : Revokes(o, d) \/ \E s \in touched[o] \ live : DeviceOf(s) = d}

Init ==
  /\ user = "active"
  /\ live = {} /\ fresh = {} /\ spent = {} /\ successors = {}
  /\ known = {} /\ issued = {} /\ lapsed = {}
  /\ cache = {} /\ replay = {}
  /\ callsLeft = MaxCalls
  /\ past = {}
  /\ kind = [c \in Calls |-> "none"]
  /\ pc = [c \in Calls |-> "idle"]
  /\ verdict = [c \in Calls |-> "none"]
  /\ sess = [c \in Calls |-> {}] /\ tok = [c \in Calls |-> {}]
  /\ todo = [c \in Calls |-> {}] /\ targets = [c \in Calls |-> {}]
  /\ touched = [c \in Calls |-> {}] /\ removed = [c \in Calls |-> {}]
  /\ minted = [c \in Calls |-> {}] /\ marked = [c \in Calls |-> {}]

Goto(c, label) == pc' = [pc EXCEPT ![c] = label]

Begin(c, k, label) ==
  /\ pc[c] = "idle"
  /\ callsLeft > 0
  /\ callsLeft' = callsLeft - 1
  /\ kind' = [kind EXCEPT ![c] = k]
  /\ Goto(c, label)
  /\ UNCHANGED <<db, redis, ids, lapsed, past>>

EndTx(c) ==
  /\ Goto(c, "idle")
  /\ kind' = [kind EXCEPT ![c] = "none"]
  /\ verdict' = [verdict EXCEPT ![c] = "none"]
  /\ sess' = [sess EXCEPT ![c] = {}] /\ tok' = [tok EXCEPT ![c] = {}]
  /\ todo' = [todo EXCEPT ![c] = {}] /\ targets' = [targets EXCEPT ![c] = {}]
  /\ touched' = [touched EXCEPT ![c] = {}] /\ removed' = [removed EXCEPT ![c] = {}]
  /\ minted' = [minted EXCEPT ![c] = {}] /\ marked' = [marked EXCEPT ![c] = {}]

\* An exception: the transaction is rolled back.
Refuse(c) == EndTx(c) /\ UNCHANGED <<db, redis, world>>

(***************************************************************************)
(* mobile_login: the user's row is locked and looked at again; then        *)
(* _create_mobile_session.                                                 *)
(***************************************************************************)
Login(c, d) ==
  /\ user = "active"
  /\ Begin(c, "login", "user")
  /\ sess' = [sess EXCEPT ![c] = {NextSession(d)}]
  /\ UNCHANGED <<tok, todo, targets, writes>>

\* Mutant: the second look at the user is left out.
AdmitsAnybody == TRUE
Admits == user = "active"

LockUser(c) ==
  /\ kind[c] = "login" /\ pc[c] = "user"
  /\ \A o \in Calls : ~OwnsUser(o)
  /\ IF Admits THEN Goto(c, "upsert") /\ UNCHANGED <<db, redis, world, kind, sess, tok, todo, targets, writes>>
     ELSE Refuse(c)

\* The row of this device is updated if there is one, and keeps its id.
Upsert(c, d) ==
  /\ pc[c] = "upsert"
  /\ \E s \in sess[c] : DeviceOf(s) = d
  /\ \A o \in Calls : ~Revokes(o, d)
  /\ LET mine == {s \in live : DeviceOf(s) = d}
         row == IF mine = {} THEN {NextSession(d)} ELSE mine IN
     /\ \A s \in mine : Writers(c, s) = {}
     /\ sess' = [sess EXCEPT ![c] = row]
     /\ touched' = [touched EXCEPT ![c] = row]
     /\ known' = known \cup row
  /\ Goto(c, "evict")
  /\ UNCHANGED <<db, redis, issued, lapsed, callsLeft, past, kind, tok, todo, targets,
                 removed, minted, marked, verdict>>

\* Mutant: an overflow by one is let pass.
OverflowLate(n) == IF n > Limit + 1 THEN n - Limit ELSE 0
Overflow(n) == IF n > Limit THEN n - Limit ELSE 0

\* evict_overflow_sessions takes the least recently active rows; which ones these
\* are is left open.  Rows that others have locked are passed over.
Evict(c, E) ==
  /\ pc[c] = "evict"
  /\ LET others == live \ sess[c]
         free == {s \in others : Holders(c, s) = {}}
         n == Overflow(Cardinality(live \cup sess[c])) IN
     /\ E \subseteq free
     /\ Cardinality(E) <= n
     /\ Cardinality(E) < n => E = free
     /\ past' = IF Cardinality(E) < n THEN past \cup {"skipped"} ELSE past
  /\ removed' = [removed EXCEPT ![c] = E]
  /\ targets' = [targets EXCEPT ![c] = E]
  /\ Goto(c, "remove")
  /\ UNCHANGED <<db, redis, ids, lapsed, callsLeft, kind, sess, tok, todo, touched,
                 minted, marked, verdict>>

\* The refresh token of the new session, in a family of its own, and the cache entry.
Issue(c, s) ==
  /\ pc[c] = "issue"
  /\ s \in sess[c]
  /\ minted' = [minted EXCEPT ![c] = {NextToken(s)}]
  /\ issued' = issued \cup {NextToken(s)}
  /\ cache' = cache \cup {s}
  /\ Goto(c, "commit")
  /\ UNCHANGED <<db, replay, known, lapsed, callsLeft, past, kind, sess, tok, todo,
                 targets, touched, removed, marked, verdict>>

(***************************************************************************)
(* get_current_mobile_user.  A cached session is believed; one that was    *)
(* active SESSION_ACTIVITY_THROTTLE_SECONDS ago is refreshed in both       *)
(* places.  One that is not cached is looked up.                           *)
(***************************************************************************)
Request(c, s) ==
  /\ s \in known
  /\ \/ s \in cache
     \/ s \in live /\ user = "active"
  /\ Begin(c, "request", IF s \in cache THEN "activity" ELSE "store")
  /\ sess' = [sess EXCEPT ![c] = {s}]
  /\ UNCHANGED <<tok, todo, targets, writes>>

\* No row to update is no reason to stop.
UpdateActivity(c) ==
  /\ pc[c] = "activity"
  /\ \A s \in sess[c] : Writers(c, s) = {}
  /\ touched' = [touched EXCEPT ![c] = sess[c] \cap live]
  /\ Goto(c, "store")
  /\ UNCHANGED <<db, redis, world, kind, sess, tok, todo, targets, removed, minted, marked, verdict>>

Store(c) ==
  /\ pc[c] = "store"
  /\ cache' = cache \cup sess[c]
  /\ Goto(c, "commit")
  /\ UNCHANGED <<db, replay, world, kind, sess, tok, todo, targets, writes>>

(***************************************************************************)
(* refresh_token.                                                          *)
(***************************************************************************)
Refresh(c, t) ==
  /\ t \in issued
  /\ Begin(c, "refresh", "token")
  /\ tok' = [tok EXCEPT ![c] = {t}]
  /\ sess' = [sess EXCEPT ![c] = {SessionOf(t)}]
  /\ UNCHANGED <<todo, targets, writes>>

\* Mutant: the row is neither locked when it is read nor looked at when it is marked.
UnlockedRead(c, t) == TRUE
RowIsFree(c, t) == TokenHolders(c, t) = {}

Valid(t) == SessionOf(t) \in live /\ user = "active"

\* The token is fresh and marked used, or spent: then a retry within the grace
\* period gets the cached answer, if there is one, and a later one is a theft.
LockToken(c, t) ==
  /\ pc[c] = "token"
  /\ t \in tok[c]
  /\ RowIsFree(c, t)
  /\ \/ /\ t \in fresh /\ Valid(t)
        /\ marked' = [marked EXCEPT ![c] = {t}]
        /\ Goto(c, "mint")
        /\ UNCHANGED <<db, redis, world, kind, sess, tok, todo, targets, touched, removed,
                       minted, verdict>>
     \/ /\ t \in spent \cap lapsed /\ SessionOf(t) \in live
        /\ todo' = [todo EXCEPT ![c] = {SessionOf(t)}]
        /\ targets' = [targets EXCEPT ![c] = {SessionOf(t)}]
        /\ Goto(c, "remove")
        /\ UNCHANGED <<db, redis, world, kind, sess, tok, writes>>
     \/ /\ ~(t \in spent \cap lapsed /\ SessionOf(t) \in live)
        /\ ~(t \in fresh /\ Valid(t))
        /\ Refuse(c)

\* The new token's INSERT locks the session, which must still be there.
Mint(c, s) ==
  /\ pc[c] = "mint"
  /\ s \in sess[c]
  /\ Removers(c, s) = {}
  /\ IF s \in live
     THEN /\ minted' = [minted EXCEPT ![c] = {NextToken(s)}]
          /\ issued' = issued \cup {NextToken(s)}
          /\ Goto(c, "replay")
          /\ UNCHANGED <<db, redis, known, lapsed, callsLeft, past, kind, sess, tok,
                         todo, targets, touched, removed, marked, verdict>>
     ELSE Refuse(c)

\* Mutant: an answer that is there already is kept.
KeepAnswer(c) == IF \E r \in replay : r[1] \in tok[c] THEN replay ELSE replay \cup (tok[c] \X minted[c])
Answers(c) == {r \in replay : r[1] \notin tok[c]} \cup (tok[c] \X minted[c])

CacheAnswer(c) ==
  /\ pc[c] = "replay"
  /\ replay' = Answers(c)
  /\ Goto(c, "commit")
  /\ UNCHANGED <<db, cache, world, kind, sess, tok, todo, targets, writes>>

\* The theft is reported by an exception, and that undoes the deletion of the session.
Report(c) == pc[c] = "report" /\ Refuse(c)

(***************************************************************************)
(* logout deletes one session, and revoke_device that of a device;         *)
(* block_user and delete_user lock the user and delete all.                *)
(***************************************************************************)
Logout(c, s) ==
  /\ s \in known
  /\ \/ s \in cache
     \/ s \in live /\ user = "active"
  /\ Begin(c, "logout", "remove")
  /\ todo' = [todo EXCEPT ![c] = {s}]
  /\ targets' = [targets EXCEPT ![c] = {s}]
  /\ UNCHANGED <<sess, tok, writes>>

\* A device is revoked: its session, if there is one, is looked up for the cache, then
\* the row of the device is deleted, and with it the session there is by now.
Revoke(c, d) ==
  /\ \E s \in known : s \in cache \/ (s \in live /\ user = "active")
  /\ \E s \in known : DeviceOf(s) = d
  /\ Begin(c, "revoke", "device")
  /\ sess' = [sess EXCEPT ![c] = {NextSession(d)}]
  /\ targets' = [targets EXCEPT ![c] = {s \in live : DeviceOf(s) = d}]
  /\ UNCHANGED <<tok, todo, writes>>

DeleteDevice(c, d) ==
  /\ pc[c] = "device"
  /\ \E s \in sess[c] : DeviceOf(s) = d
  /\ DeviceHolders(c, d) = {}
  /\ todo' = [todo EXCEPT ![c] = {s \in live : DeviceOf(s) = d}]
  /\ Goto(c, "remove")
  /\ UNCHANGED <<db, redis, world, kind, sess, tok, targets, writes>>

Expel(c, v) ==
  /\ Begin(c, "expel", "user")
  /\ v \in {"blocked", "deleted"}
  /\ user # "deleted"
  /\ \A o \in Calls : ~OwnsUser(o)
  /\ verdict' = [verdict EXCEPT ![c] = v]
  /\ UNCHANGED <<sess, tok, todo, targets, touched, removed, minted, marked>>

ListSessions(c) ==
  /\ kind[c] = "expel" /\ pc[c] = "user"
  /\ todo' = [todo EXCEPT ![c] = live]
  /\ targets' = [targets EXCEPT ![c] = live]
  /\ Goto(c, "remove")
  /\ UNCHANGED <<db, redis, world, kind, sess, tok, writes>>

\* A row that is no longer there is passed over.
Remove(c, s) ==
  /\ pc[c] = "remove"
  /\ s \in todo[c]
  /\ Holders(c, s) = {}
  /\ removed' = [removed EXCEPT ![c] = @ \cup ({s} \cap live)]
  /\ todo' = [todo EXCEPT ![c] = @ \ {s}]
  /\ UNCHANGED <<db, redis, world, kind, pc, sess, tok, targets, touched, minted, marked, verdict>>

\* With the last row go the tokens of all of them.
Cascade(c) ==
  /\ pc[c] = "remove"
  /\ todo[c] = {}
  /\ \A t \in TokensOf(removed[c]) : TokenHolders(c, t) = {}
  /\ Goto(c, "uncache")
  /\ UNCHANGED <<db, redis, world, kind, sess, tok, todo, targets, writes>>

Uncache(c) ==
  /\ pc[c] = "uncache"
  /\ cache' = cache \ targets[c]
  /\ Goto(c, IF kind[c] = "login" THEN "issue"
             ELSE IF kind[c] = "refresh" THEN "report" ELSE "commit")
  /\ UNCHANGED <<db, replay, world, kind, sess, tok, todo, targets, writes>>

(***************************************************************************)
(* unblock_user, and update_user, which writes back what it has read.      *)
(***************************************************************************)
Unblock(c) ==
  /\ Begin(c, "update", "commit")
  /\ user # "deleted"
  /\ \A o \in Calls : ~OwnsUser(o)
  /\ verdict' = [verdict EXCEPT ![c] = "active"]
  /\ UNCHANGED <<sess, tok, todo, targets, touched, removed, minted, marked>>

\* An administrator may set the column; the user's own edits leave it as it was.
Edit(c, v) ==
  /\ pc[c] = "idle"
  /\ callsLeft > 0
  /\ user # "deleted"
  /\ v \in {"active", "blocked"}
  /\ callsLeft' = callsLeft - 1
  /\ kind' = [kind EXCEPT ![c] = IF v = "active" THEN "setActive" ELSE "setBlocked"]
  /\ Goto(c, "write")
  /\ past' = past \cup {"edit"}
  /\ UNCHANGED <<db, redis, ids, lapsed, sess, tok, todo, targets, writes>>

Write(c) ==
  /\ pc[c] = "write"
  /\ \A o \in Calls : ~OwnsUser(o)
  /\ IF user = "deleted" THEN Refuse(c)
     ELSE /\ verdict' = [verdict EXCEPT ![c] = IF kind[c] = "setActive" THEN "active" ELSE "blocked"]
          /\ Goto(c, "commit")
          /\ UNCHANGED <<db, redis, world, kind, sess, tok, todo, targets, touched, removed,
                         minted, marked>>

(***************************************************************************)
(* The end of a transaction, failures, and time.                           *)
(***************************************************************************)
\* Mutant: only the rows are deleted, and the tokens of the sessions stay.
CascadedNot(c) == {}
Cascaded(c) == TokensOf(removed[c])

\* Mutant: the status is not one of the column's.
InactiveUser(v) == IF v = "active" THEN "unblocked" ELSE v
Written(v) == v

Commit(c) ==
  /\ pc[c] = "commit"
  /\ user' = IF verdict[c] = "none" THEN user ELSE Written(verdict[c])
  /\ live' = (IF kind[c] = "login" THEN live \cup sess[c] ELSE live) \ removed[c]
  /\ fresh' = (fresh \cup minted[c]) \ (marked[c] \cup Cascaded(c))
  /\ spent' = (spent \cup marked[c]) \ Cascaded(c)
  /\ successors' = successors \cup (marked[c] \X minted[c])
  /\ EndTx(c)
  /\ UNCHANGED <<redis, world>>

\* The audit event is not accepted, the COMMIT fails, or the process dies.
Fault(c) == pc[c] # "idle" /\ Refuse(c)

\* Whom the next statement of c waits for.
WaitsFor(c) ==
  CASE pc[c] = "user" /\ kind[c] = "login" -> {o \in Calls : OwnsUser(o)}
    [] pc[c] = "write" -> {o \in Calls : OwnsUser(o)}
    [] pc[c] = "upsert" ->
         UNION {Writers(c, s) : s \in {r \in live : \E q \in sess[c] : DeviceOf(q) = DeviceOf(r)}}
           \cup {o \in Calls : \E q \in sess[c] : Revokes(o, DeviceOf(q))}
    [] pc[c] = "device" -> UNION {DeviceHolders(c, DeviceOf(s)) : s \in sess[c]}
    [] pc[c] = "activity" -> UNION {Writers(c, s) : s \in sess[c]}
    [] pc[c] = "token" -> UNION {TokenHolders(c, t) : t \in tok[c]}
    [] pc[c] = "mint" -> UNION {Removers(c, s) : s \in sess[c]}
    [] pc[c] = "remove" /\ todo[c] # {} -> UNION {Holders(c, s) : s \in todo[c]}
    [] pc[c] = "remove" /\ todo[c] = {} -> UNION {TokenHolders(c, t) : t \in TokensOf(removed[c])}
    [] OTHER -> {}

\* Mutant: a deadlock goes unnoticed.
NoDetection(c) == FALSE
\* A refresh holds a token and wants its session; a deletion does the opposite.
InDeadlock(c) == \E o \in WaitsFor(c) : c \in WaitsFor(o)

DeadlockVictim(c) == InDeadlock(c) /\ Refuse(c)

Lapse(t) ==
  /\ t \in spent \ lapsed
  /\ lapsed' = lapsed \cup {t}
  /\ UNCHANGED <<db, redis, ids, callsLeft, past, call>>

\* Entries of Redis expire.
Forget ==
  /\ \/ \E s \in cache : cache' = cache \ {s} /\ UNCHANGED replay
     \/ \E r \in replay : replay' = replay \ {r} /\ UNCHANGED cache
  /\ UNCHANGED <<db, world, call>>

\* The calls of the mobile application, and those of the staff.
MobileCall(c) ==
  \/ \E d \in Devices : Login(c, d) \/ Revoke(c, d)
  \/ \E s \in known : Request(c, s) \/ Logout(c, s)
  \/ \E t \in issued : Refresh(c, t)

AdminCall(c) ==
  \/ \E v \in {"active", "blocked", "deleted"} : Expel(c, v) \/ Edit(c, v)
  \/ Unblock(c)

Start(c) == MobileCall(c) \/ AdminCall(c)

Step(c) ==
  \/ LockUser(c)
  \/ \E d \in Devices : Upsert(c, d) \/ DeleteDevice(c, d)
  \/ \E E \in SUBSET live : Evict(c, E)
  \/ \E s \in sess[c] : Issue(c, s) \/ Mint(c, s)
  \/ UpdateActivity(c) \/ Store(c)
  \/ \E t \in tok[c] : LockToken(c, t)
  \/ CacheAnswer(c) \/ Report(c)
  \/ ListSessions(c)
  \/ \E s \in todo[c] : Remove(c, s)
  \/ Cascade(c) \/ Uncache(c)
  \/ Write(c)
  \/ Commit(c)

Next ==
  \/ \E c \in Calls : Start(c) \/ Step(c) \/ Fault(c) \/ DeadlockVictim(c)
  \/ \E t \in spent : Lapse(t)
  \/ Forget

Spec == Init /\ [][Next]_vars
\* The server runs every call on, and the database breaks deadlocks.
FairSpec == Spec /\ \A c \in Calls : WF_vars(Step(c)) /\ WF_vars(DeadlockVictim(c))

(***************************************************************************)
(* Properties                                                              *)
(***************************************************************************)
\* Every variable keeps its type, what a transaction has written exists, and a
\* token's session does (the foreign key of refresh_tokens).
TypeOK ==
  /\ user \in {"active", "blocked", "deleted"}
  /\ live \subseteq known /\ known \subseteq Sessions
  /\ fresh \cup spent \subseteq issued /\ issued \subseteq Tokens
  /\ fresh \cap spent = {}
  /\ {SessionOf(t) : t \in fresh \cup spent} \subseteq live
  /\ successors \subseteq issued \X issued
  /\ lapsed \cup {r[1] : r \in replay} \subseteq issued
  /\ cache \subseteq known
  /\ callsLeft \in 0..MaxCalls
  /\ past \subseteq Incidents
  /\ \A c \in Calls : /\ removed[c] \subseteq live
                      /\ touched[c] \subseteq known
                      /\ verdict[c] \in {"none", "active", "blocked", "deleted"}

\* However a block or a deletion and logins overlap, a user who ends up blocked or
\* deleted has no session: mobile_login looks at the user again under the lock
\* that block_user takes first (the promise of test_session_device_management.py,
\* line 341).  update_user writes the column without that care.
BlockedHasNoSession == user # "active" /\ "edit" \notin past => live = {}

\* However logins, logouts and refreshes overlap, a user has at most SESSION_LIMIT
\* sessions, unless evict_overflow_sessions once passed over a row in use.
CapKept == "skipped" \notin past => Cardinality(live) <= Limit

\* A refresh token is exchanged for one successor at most, whatever else holds,
\* retries or rolls back the exchange (refresh_token); and a client that retries the
\* exchange is given that successor, never the token of an attempt that was rolled
\* back (the refresh_retry entries).
RotatedOnce ==
  /\ \A p, q \in successors : p[1] = q[1] => p = q
  /\ \A r \in replay : r[1] \in spent => r \in successors

\* Every call ends, though logins, refreshes and revocations lock the rows of the
\* user, of sessions and of tokens in different orders.
CallsFinish == \A c \in Calls : pc[c] # "idle" ~> pc[c] = "idle"

=============================================================================
