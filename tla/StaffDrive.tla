------------------------------ MODULE StaffDrive ------------------------------
(***************************************************************************)
(* The Google Drive connection of a staff member and the uploads that use  *)
(* it: StaffDriveService in app/service/staff_drive.py, called by the      *)
(* routes of app/router/staff/drive.py and by the worker that copies the   *)
(* approved photos of an event to Drive (upload_to_system_drive).          *)
(*                                                                         *)
(* A call is one READ COMMITTED transaction on the row of the connection.  *)
(* An upload needs the folder of the event; calls look for it or make it   *)
(* under a lock in Redis that expires, that a heartbeat renews and that is *)
(* released by a GET and a DEL.  Time goes in ticks shorter than the       *)
(* interval of the heartbeat: a call beats when its beat is due, unless    *)
(* Redis fails, and takes less than a tick from the GET to the DEL.        *)
(*                                                                         *)
(* There is one connection, whose search sees every folder made through    *)
(* it.  With several, get_system_access_token takes any active one, and    *)
(* what one of them has made another may not see.                          *)
(***************************************************************************)
EXTENDS Naturals, FiniteSets

CONSTANTS
  Calls,        \* calls the server and the workers can have under way at once
  LockTtl,      \* _FOLDER_LOCK_TTL_SECONDS, in ticks
  BeatEvery,    \* _FOLDER_LOCK_HEARTBEAT_SECONDS, in ticks
  MaxMisses,    \* bound: heartbeats in a row that fail
  MaxCalls,     \* bound: how many calls are made
  MaxLinks,     \* bound: how often the staff member is sent to Google
  None

\* The interval of the heartbeat is well below the TTL: the beats that may fail
\* and the release fit in.
ASSUME LeaseAssumption ==
  /\ LockTtl \in Nat /\ BeatEvery \in Nat \ {0} /\ MaxMisses \in Nat
  /\ LockTtl > BeatEvery * (MaxMisses + 1) + 1
ASSUME BoundsAssumption == MaxCalls \in Nat /\ MaxLinks \in Nat /\ None \notin Calls \cup Nat

Folders == 1..MaxCalls
Links == 1..MaxLinks
Rows == [active : BOOLEAN, old : BOOLEAN]

VARIABLES
  row,                \* the committed row of the connection; old: its token is about to expire
  asked, states,      \* redirections to Google; those whose state is in Redis
  owner, ttl,         \* the folder lock: the call whose value it holds, or None
  cache,              \* the folder cached in Redis, or None
  folders, filled,    \* folders of the event on Drive; those that hold photos
  callsLeft,
  off                 \* disconnected, and no renewal or callback was under way
VARIABLES             \* of each call and its transaction
  kind, pc,
  link,               \* the redirection a callback answers, or None
  write,              \* the row it has written and not committed, or None
  folder,             \* the folder it has resolved, or None
  beating,            \* calls whose heartbeat runs
  clock,              \* ticks since its last beat, or since the GET of its release
  missed              \* beats in a row that failed

lock == <<owner, ttl>>
drive == <<folders, filled>>
shared == <<row, asked, states, lock, cache, drive, callsLeft, off>>
timers == <<beating, clock, missed>>
call == <<kind, pc, link, write, folder, timers>>
vars == <<shared, call>>

Critical == {"check", "search", "create", "store"}
Inside == {c \in Calls : pc[c] \in Critical}
RowIsFree(c) == \A o \in Calls \ {c} : write[o] = None

Init ==
  /\ row = [active |-> TRUE, old |-> FALSE]
  /\ asked = {} /\ states = {}
  /\ owner = None /\ ttl = 0 /\ cache = None
  /\ folders = {} /\ filled = {}
  /\ callsLeft = MaxCalls
  /\ off = FALSE
  /\ kind = [c \in Calls |-> "none"] /\ pc = [c \in Calls |-> "idle"]
  /\ link = [c \in Calls |-> None]
  /\ write = [c \in Calls |-> None] /\ folder = [c \in Calls |-> None]
  /\ beating = {}
  /\ clock = [c \in Calls |-> 0] /\ missed = [c \in Calls |-> 0]

Goto(c, label) == pc' = [pc EXCEPT ![c] = label]
Step(c, from, to) == pc[c] = from /\ Goto(c, to)

EndTx(c) ==
  /\ Goto(c, "idle")
  /\ kind' = [kind EXCEPT ![c] = "none"]
  /\ link' = [link EXCEPT ![c] = None]
  /\ write' = [write EXCEPT ![c] = None]
  /\ folder' = [folder EXCEPT ![c] = None]
  /\ beating' = beating \ {c}
  /\ clock' = [clock EXCEPT ![c] = 0]
  /\ missed' = [missed EXCEPT ![c] = 0]

\* An exception: the transaction is rolled back.
Refuse(c) == EndTx(c) /\ UNCHANGED shared

Start(c, k, l, label) ==
  /\ Step(c, "idle", label)
  /\ callsLeft > 0
  /\ callsLeft' = callsLeft - 1
  /\ kind' = [kind EXCEPT ![c] = k]
  /\ link' = [link EXCEPT ![c] = l]
  /\ UNCHANGED <<row, asked, states, lock, cache, drive, off, write, folder, timers>>

(***************************************************************************)
(* Connecting: create_connect_url and handle_callback, which reads the     *)
(* state and deletes it in two commands.  Google may refuse the code, as   *)
(* it does when the code comes a second time.                              *)
(***************************************************************************)
Connect ==
  /\ \E l \in Links \ asked : asked' = asked \cup {l} /\ states' = states \cup {l}
  /\ UNCHANGED <<row, lock, cache, drive, callsLeft, off, call>>

Callback(c) == \E l \in asked : Start(c, "callback", l, "state")

ReadState(c) ==
  /\ pc[c] = "state"
  /\ \/ link[c] \notin states /\ Refuse(c)
     \/ /\ link[c] \in states
        /\ Goto(c, "redeem")
        /\ UNCHANGED <<shared, kind, link, write, folder, timers>>

DropState(c) ==
  /\ Step(c, "redeem", "exchange")
  /\ states' = states \ {link[c]}
  /\ UNCHANGED <<row, asked, lock, cache, drive, callsLeft, off, kind, link, write, folder, timers>>

\* What is asked of Google, and of Drive, is done or refused.
Ask(c, from, to) == \/ Step(c, from, to) /\ UNCHANGED <<shared, kind, link, write, folder, timers>>
                    \/ pc[c] = from /\ Refuse(c)

\* exchange_code and get_user_info.
Exchange(c) == Ask(c, "exchange", "save")

(***************************************************************************)
(* The token: get_system_access_token, get_access_token_for_staff_user and *)
(* _refresh_connection_access_token.                                       *)
(***************************************************************************)
Use(c) == \E k \in {"upload", "browse"} : Start(c, k, None, "status")

\* Mutant: a revoked connection is found as well.
FindsAny == TRUE
IsConnected == row.active

Ready(c) == IF kind[c] = "upload" THEN "cached" ELSE "use"

GetConnection(c) ==
  /\ pc[c] = "status"
  /\ \/ ~IsConnected /\ Refuse(c)
     \/ /\ IsConnected
        /\ Goto(c, IF kind[c] = "disconnect" THEN "revoke" ELSE IF row.old THEN "renew" ELSE Ready(c))
        /\ UNCHANGED <<shared, kind, link, write, folder, timers>>

\* refresh_access_token.  When the grant is invalid the row is revoked, and the
\* exception raised next rolls that back.
Renew(c) == Ask(c, "renew", "save")

Upserted == [active |-> TRUE, old |-> FALSE]
Revoked == [row EXCEPT !.active = FALSE]

\* upsert_staff_drive_connection: it waits for the lock of the row, and makes
\* the connection active whatever it is.
Save(c) ==
  /\ Step(c, "save", IF kind[c] = "callback" THEN "commit" ELSE Ready(c))
  /\ RowIsFree(c)
  /\ write' = [write EXCEPT ![c] = Upserted]
  /\ UNCHANGED <<shared, kind, link, folder, timers>>

Disconnect(c) == Start(c, "disconnect", None, "status")

\* revoke_staff_drive_connection_by_staff_user_id.
Revoke(c) ==
  /\ Step(c, "revoke", "commit")
  /\ RowIsFree(c)
  /\ write' = [write EXCEPT ![c] = IF row.active THEN Revoked ELSE None]
  /\ UNCHANGED <<shared, kind, link, folder, timers>>

\* browse_drive, search_drive and import_drive_files.
UseToken(c) == kind[c] = "browse" /\ Ask(c, "use", "commit")

\* upload_file: Drive may refuse.
Upload(c) ==
  /\ kind[c] = "upload" /\ pc[c] = "use"
  /\ \/ Refuse(c)
     \/ /\ Goto(c, "commit")
        /\ filled' = filled \cup {folder[c]}
        /\ UNCHANGED <<row, asked, states, lock, cache, folders, callsLeft, off>>
        /\ UNCHANGED <<kind, link, write, folder, timers>>

\* The token of the connection is being renewed by another call.
Renewing(c) == \E o \in Calls \ {c} :
  kind[o] \notin {"callback", "disconnect"} /\ (pc[o] \in {"renew", "save"} \/ write[o] # None)

Commit(c) ==
  /\ pc[c] = "commit"
  /\ row' = IF write[c] = None THEN row ELSE write[c]
  /\ off' = CASE write[c] # None /\ kind[c] = "disconnect" -> ~Renewing(c)
              [] write[c] # None /\ kind[c] = "callback" -> FALSE
              [] OTHER -> off
  /\ EndTx(c)
  /\ UNCHANGED <<asked, states, lock, cache, drive, callsLeft>>

(***************************************************************************)
(* The folder: _get_or_create_event_folder and _resolve_drive_folder.      *)
(***************************************************************************)
Found(c, f) == folder' = [folder EXCEPT ![c] = f]

ReadCache(c) ==
  /\ Step(c, "cached", IF cache = None THEN "lock" ELSE "use")
  /\ Found(c, cache)
  /\ UNCHANGED <<shared, kind, link, write, timers>>

\* Mutant: SET without NX.
SetsAnyway == TRUE
LockIsFree == owner = None

\* Mutant: SET without EX; 0 is the TTL of a key that does not expire.
TakesForever == 0
LeaseOf == LockTtl

\* SET NX EX, tried again every second; then the heartbeat is started.
AcquireLock(c) ==
  /\ Step(c, "lock", "check")
  /\ LockIsFree
  /\ owner' = c /\ ttl' = LeaseOf
  /\ beating' = beating \cup {c}
  /\ clock' = [clock EXCEPT ![c] = 0]
  /\ missed' = [missed EXCEPT ![c] = 0]
  /\ UNCHANGED <<row, asked, states, cache, drive, callsLeft, off, kind, link, write, folder>>

CheckCache(c) ==
  /\ Step(c, "check", IF cache = None THEN "search" ELSE "release")
  /\ Found(c, cache)
  /\ UNCHANGED <<shared, kind, link, write, timers>>

\* search_files; an error leaves the call without a folder.
Search(c) ==
  /\ pc[c] = "search"
  /\ \/ Goto(c, "release") /\ UNCHANGED folder
     \/ folders = {} /\ Goto(c, "create") /\ UNCHANGED folder
     \/ \E f \in folders : Goto(c, "store") /\ Found(c, f)
  /\ UNCHANGED <<shared, kind, link, write, timers>>

NewFolder == Cardinality(folders) + 1

\* create_folder: it may fail before Drive has made the folder, or after.
CreateFolder(c) ==
  /\ pc[c] = "create"
  /\ \/ Goto(c, "release") /\ UNCHANGED <<folder, folders>>
     \/ /\ folders' = folders \cup {NewFolder}
        /\ \/ Goto(c, "store") /\ Found(c, NewFolder)
           \/ Goto(c, "release") /\ UNCHANGED folder
  /\ UNCHANGED <<row, asked, states, lock, cache, filled, callsLeft, off, kind, link, write, timers>>

StoreInCache(c) ==
  /\ Step(c, "store", "release")
  /\ cache' = folder[c]
  /\ UNCHANGED <<row, asked, states, lock, drive, callsLeft, off, kind, link, write, folder, timers>>

\* Mutant: a call that got no folder uploads without one.
UploadsAnyway(c) == "use"
AfterRelease(c) == IF folder[c] = None THEN "failed" ELSE "use"

\* The finally block: the heartbeat is cancelled; the lock is deleted if it still
\* holds the value of the call.
Release(c) ==
  /\ Step(c, "release", IF owner = c THEN "unlock" ELSE AfterRelease(c))
  /\ beating' = beating \ {c}
  /\ clock' = [clock EXCEPT ![c] = 0] /\ missed' = [missed EXCEPT ![c] = 0]
  /\ UNCHANGED <<shared, kind, link, write, folder>>

Unlock(c) ==
  /\ Step(c, "unlock", AfterRelease(c))
  /\ owner' = None /\ ttl' = 0
  /\ clock' = [clock EXCEPT ![c] = 0]
  /\ UNCHANGED <<row, asked, states, cache, drive, callsLeft, off, kind, link, write, folder, beating, missed>>

Raise(c) == pc[c] = "failed" /\ Refuse(c)

(***************************************************************************)
(* _lock_heartbeat.  A renewal by a call that lost the lock would only     *)
(* lengthen the lock of another, so its GET and EXPIRE are one step.       *)
(***************************************************************************)
IsDue(c) == c \in beating /\ clock[c] >= BeatEvery

\* Mutant: the beat looks at the lock and does not renew it.
RenewsNothing == ttl
Renewed == LockTtl

Beat(c) ==
  /\ IsDue(c)
  /\ \/ /\ owner = c
        /\ ttl' = Renewed
        /\ clock' = [clock EXCEPT ![c] = 0] /\ missed' = [missed EXCEPT ![c] = 0]
        /\ UNCHANGED beating
     \/ /\ owner # c
        /\ beating' = beating \ {c}
        /\ UNCHANGED <<ttl, clock, missed>>
     \/ /\ missed[c] < MaxMisses
        /\ clock' = [clock EXCEPT ![c] = 0] /\ missed' = [missed EXCEPT ![c] = @ + 1]
        /\ UNCHANGED <<ttl, beating>>
  /\ UNCHANGED <<row, asked, states, owner, cache, drive, callsLeft, off, kind, pc, link, write, folder>>

Tick ==
  /\ ttl > 0
  /\ \A c \in Calls : ~IsDue(c) /\ (pc[c] = "unlock" => clock[c] = 0)
  /\ ttl' = ttl - 1
  /\ owner' = IF ttl = 1 THEN None ELSE owner
  /\ clock' = [c \in Calls |-> IF c \in beating \/ pc[c] = "unlock" THEN clock[c] + 1 ELSE clock[c]]
  /\ UNCHANGED <<row, asked, states, cache, drive, callsLeft, off, kind, pc, link, write, folder, beating, missed>>

(***************************************************************************)
(* What happens without the program: a token ages, a key of Redis expires, *)
(* a process dies and leaves the lock as it is.                            *)
(***************************************************************************)
Age == row.active /\ ~row.old /\ row' = [row EXCEPT !.old = TRUE]
       /\ UNCHANGED <<asked, states, lock, cache, drive, callsLeft, off, call>>
StateExpires == /\ \E l \in states : states' = states \ {l}
                /\ UNCHANGED <<row, asked, lock, cache, drive, callsLeft, off, call>>
CacheExpires == /\ cache # None /\ cache' = None
                /\ UNCHANGED <<row, asked, states, lock, drive, callsLeft, off, call>>
Crash(c) == pc[c] # "idle" /\ Refuse(c)

Progress(c) ==
  \/ ReadState(c) \/ DropState(c) \/ Exchange(c) \/ GetConnection(c) \/ Renew(c) \/ Save(c) \/ Revoke(c)
  \/ UseToken(c) \/ Upload(c) \/ Commit(c) \/ ReadCache(c) \/ AcquireLock(c) \/ CheckCache(c) \/ Search(c)
  \/ CreateFolder(c) \/ StoreInCache(c) \/ Release(c) \/ Unlock(c) \/ Raise(c)

Environment == Connect \/ Age \/ StateExpires \/ CacheExpires

Next ==
  \/ \E c \in Calls : Use(c) \/ Callback(c) \/ Disconnect(c) \/ Progress(c) \/ Beat(c) \/ Crash(c)
  \/ Tick
  \/ Environment

Spec == Init /\ [][Next]_vars

\* Calls run, heartbeats fire, time passes.
FairSpec == Spec /\ WF_vars(Tick) /\ \A c \in Calls : WF_vars(Progress(c)) /\ WF_vars(Beat(c))

(***************************************************************************)
(* Properties.                                                             *)
(***************************************************************************)
TypeOK ==
  /\ row \in Rows
  /\ asked \subseteq Links /\ states \subseteq asked
  /\ owner \in Calls \cup {None} /\ ttl \in 0..LockTtl
  /\ cache \in Folders \cup {None} /\ folders \subseteq Folders /\ filled \subseteq folders
  /\ callsLeft \in 0..MaxCalls /\ off \in BOOLEAN
  /\ kind \in [Calls -> {"none", "upload", "browse", "callback", "disconnect"}]
  /\ pc \in [Calls -> Critical \cup {"idle", "state", "redeem", "exchange", "status", "renew", "save", "revoke",
                                     "use", "commit", "cached", "lock", "release", "unlock", "failed"}]
  /\ link \in [Calls -> Links \cup {None}]
  /\ write \in [Calls -> Rows \cup {None}]
  /\ folder \in [Calls -> Folders \cup {None}]
  /\ beating \subseteq Calls
  /\ clock \in [Calls -> 0..BeatEvery] /\ missed \in [Calls -> 0..MaxMisses]

\* One call at a time resolves the folder, and the lock is then in its name,
\* however long Drive takes and whoever crashes (lines 325-348, and the comment
\* of _lock_heartbeat).
Exclusive == \A c \in Inside : owner = c

\* The folder of the event is made once, by the one call that resolves it, and
\* photos are filed in that folder: the comment of _get_or_create_event_folder.
Abstract == INSTANCE EventFolder WITH inside <- Inside, made <- folders
ImplementsEventFolder == Abstract!Spec

\* A connection the staff member has disconnected comes back by a callback only,
\* unless it was disconnected while its token was being renewed (disconnect).
DisconnectHolds == off => ~row.active

\* Every call ends: the one that waits for the folder lock of a call that has
\* crashed (lines 311-320), and the one that waits for the row of a connection
\* whose holder waits for that lock.
CallsFinish == \A c \in Calls : pc[c] # "idle" ~> pc[c] = "idle"
=============================================================================
