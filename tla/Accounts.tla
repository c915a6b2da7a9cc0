------------------------------- MODULE Accounts -------------------------------
(***************************************************************************)
(* How an account comes to be and how its face is enrolled: registration   *)
(* with a code sent by mail (AuthService in app/service/users.py), the     *)
(* creation of an account by staff, the enrollment of a face               *)
(* (app/router/mobile/enrollement.py), and the counters that limit the     *)
(* rate of these calls.                                                    *)
(*                                                                         *)
(* One email address.  Every call is one READ COMMITTED transaction; what  *)
(* it does to Redis shows at once and is not rolled back.  Registrations,  *)
(* codes and enrollments are numbered as they are made: a number stands    *)
(* for the password or the face that came with it.  0 stands for none.     *)
(***************************************************************************)
EXTENDS Naturals, FiniteSets

CONSTANTS
  Calls,        \* HTTP calls the server can have under way at once
  MaxRequests,  \* calls that a counter admits in its window
  MaxCalls,     \* bound: how many calls are made
  MaxFaults     \* bound: how many faults of a service or a process there are

ASSUME LimitAssumption == MaxRequests \in Nat \ {0}
ASSUME BoundAssumption == MaxCalls \in Nat /\ MaxFaults \in Nat

Counters == {"email", "enroll"}

VARIABLES       \* committed: the row of users with this address
  password, face
VARIABLES       \* Redis
  pending,      \* pending_user: the registration whose password it holds
  otp,          \* the code
  lock,         \* enroll:in_progress: the enrollment that holds it
  counters      \* the counters rate:email and rate:enroll, and whether they have a TTL
VARIABLES
  serial,       \* calls made so far; the number of the next is one more
  codes,        \* codes generated so far
  mailed,       \* codes handed over to the email worker
  issued,       \* the registration that the newest code was generated for
  overwritten,  \* registrations whose password another one's has replaced in pending_user
  lapsed,       \* the newest code, or what it would confirm, is gone by expiry or failure
  abandoned,    \* "lock" and Counters that a fault has left as they were
  faults        \* faults so far
VARIABLES       \* of each call and its transaction
  kind, pc,
  arg,          \* its number, or the code it was given or has generated
  added,        \* the password of the row it has inserted
  wrote         \* the face it has written

db == <<password, face>>
redis == <<pending, otp, lock, counters>>
meant == <<issued, overwritten>>
past == <<mailed, meant, lapsed, abandoned>>
writes == <<added, wrote>>
vars == <<db, redis, serial, codes, past, faults, kind, pc, arg, writes>>

Init ==
  /\ password \in 0..1 /\ serial = password
  /\ face = 0
  /\ pending = 0 /\ otp = 0 /\ lock = 0
  /\ counters = [k \in Counters |-> [count |-> 0, expires |-> FALSE]]
  /\ codes = 0 /\ mailed = {} /\ issued = 0 /\ overwritten = {}
  /\ lapsed = TRUE /\ abandoned = {} /\ faults = 0
  /\ kind = [c \in Calls |-> "none"] /\ pc = [c \in Calls |-> "idle"]
  /\ arg = [c \in Calls |-> 0]
  /\ added = [c \in Calls |-> 0] /\ wrote = [c \in Calls |-> 0]

Goto(c, label) == pc' = [pc EXCEPT ![c] = label] /\ UNCHANGED <<kind, arg, writes>>

\* The call answers, or fails: what its transaction has not committed is gone.
End(c) ==
  /\ pc' = [pc EXCEPT ![c] = "idle"] /\ kind' = [kind EXCEPT ![c] = "none"]
  /\ arg' = [arg EXCEPT ![c] = 0]
  /\ added' = [added EXCEPT ![c] = 0] /\ wrote' = [wrote EXCEPT ![c] = 0]

Begin(c, k, label, n) ==
  /\ pc[c] = "idle" /\ serial < MaxCalls
  /\ serial' = serial + 1
  /\ kind' = [kind EXCEPT ![c] = k] /\ arg' = [arg EXCEPT ![c] = n]
  /\ pc' = [pc EXCEPT ![c] = label]
  /\ UNCHANGED <<db, redis, codes, past, faults, writes>>

BeginRegister(c) == Begin(c, "register", "incr", serial + 1)
BeginResend(c) == Begin(c, "resend", "incr", 0)
BeginVerify(c) == \E code \in mailed : Begin(c, "verify", "readOtp", code)
BeginStaff(c) == Begin(c, "staff", "insert", serial + 1)
BeginEnroll(c) == password # 0 /\ Begin(c, "enroll", "incr", serial + 1)

(***************************************************************************)
(* check_rate_limit: INCR, and EXPIRE by the call that has counted 1.      *)
(* When Redis does not answer the call goes on.                            *)
(***************************************************************************)
Key(c) == IF kind[c] = "enroll" THEN "enroll" ELSE "email"
Admitted(c) == CASE kind[c] = "register" -> "lookUp"
                 [] kind[c] = "resend" -> "readPending"
                 [] OTHER -> "lock"

\* A counter that Redis will never drop.
Immortal(counter) == counter.count > 0 /\ ~counter.expires

\* Mutant: the window starts with the first call that is refused.
StartsLate(n) == n = MaxRequests + 1
StartsWindow(n) == n = 1

Incr(c) ==
  /\ pc[c] = "incr"
  /\ LET n == counters[Key(c)].count + 1 IN
       /\ counters' = [counters EXCEPT ![Key(c)].count = n]
       /\ CASE StartsWindow(n) -> Goto(c, "expire")
            [] ~StartsWindow(n) /\ n <= MaxRequests -> Goto(c, Admitted(c))
            [] OTHER -> End(c)
  /\ UNCHANGED <<db, pending, otp, lock, serial, codes, past, faults>>

Expire(c) ==
  /\ pc[c] = "expire"
  /\ counters' = [counters EXCEPT ![Key(c)].expires = counters[Key(c)].count > 0]
  /\ abandoned' = abandoned \ {Key(c)}
  /\ Goto(c, Admitted(c))
  /\ UNCHANGED <<db, pending, otp, lock, serial, codes, mailed, meant, lapsed, faults>>

\* INCR or EXPIRE raises, before or after Redis has executed it.
FailOpen(c) ==
  /\ pc[c] \in {"incr", "expire"}
  /\ faults < MaxFaults /\ faults' = faults + 1
  /\ \/ UNCHANGED counters
     \/ counters' = IF pc[c] = "incr" THEN [counters EXCEPT ![Key(c)].count = @ + 1]
                    ELSE [counters EXCEPT ![Key(c)].expires = counters[Key(c)].count > 0]
  /\ abandoned' = IF Immortal(counters'[Key(c)]) THEN abandoned \cup {Key(c)} ELSE abandoned
  /\ Goto(c, Admitted(c))
  /\ UNCHANGED <<db, pending, otp, lock, serial, codes, mailed, meant, lapsed>>

(***************************************************************************)
(* mobile_register, mobile_register_resend_otp.                            *)
(***************************************************************************)
LookUp(c) ==
  /\ pc[c] = "lookUp"
  /\ IF password # 0 THEN End(c) ELSE Goto(c, "setPending")
  /\ UNCHANGED <<db, redis, serial, codes, past, faults>>

\* What pending_user holds no more once it has come to hold pending'.
Overwritten == overwritten \cup (IF pending' = 0 THEN {} ELSE {pending} \ {0, pending'})

SetPending(c) ==
  /\ pc[c] = "setPending"
  /\ pending' = arg[c]
  /\ overwritten' = Overwritten
  /\ Goto(c, "setOtp")
  /\ UNCHANGED <<db, otp, lock, counters, serial, codes, mailed, issued, lapsed, abandoned, faults>>

FindPending(c) ==
  /\ kind[c] = "resend" /\ pc[c] = "readPending"
  /\ IF pending = 0 THEN End(c)
     ELSE /\ arg' = [arg EXCEPT ![c] = pending] /\ pc' = [pc EXCEPT ![c] = "setOtp"]
          /\ UNCHANGED <<kind, writes>>
  /\ UNCHANGED <<db, redis, serial, codes, past, faults>>

\* A new code replaces the one before, whatever pending_user holds by now.
SetOtp(c) ==
  /\ pc[c] = "setOtp"
  /\ codes' = codes + 1 /\ otp' = codes'
  /\ issued' = arg[c]
  /\ lapsed' = (pending # arg[c] /\ arg[c] \notin overwritten)
  /\ arg' = [arg EXCEPT ![c] = codes'] /\ pc' = [pc EXCEPT ![c] = "publish"]
  /\ UNCHANGED <<db, pending, lock, counters, serial, mailed, overwritten, abandoned, faults, kind, writes>>

Publish(c) ==
  /\ pc[c] = "publish"
  /\ mailed' = mailed \cup {arg[c]}
  /\ End(c)
  /\ UNCHANGED <<db, redis, serial, codes, meant, lapsed, abandoned, faults>>

(***************************************************************************)
(* verify_mobile_register, and AuthService.create_user by staff.           *)
(***************************************************************************)
\* Mutant: the code is taken out of Redis as it is read.
CodeOnceRead == 0
CodeAfterRead == otp

ReadOtp(c) ==
  /\ pc[c] = "readOtp"
  /\ IF otp = arg[c] THEN otp' = CodeAfterRead /\ Goto(c, "readPending")
                     ELSE End(c) /\ UNCHANGED otp
  /\ UNCHANGED <<db, pending, lock, counters, serial, codes, past, faults>>

\* From here on arg is the registration that is being confirmed.
ReadPending(c) ==
  /\ kind[c] = "verify" /\ pc[c] = "readPending"
  /\ IF pending = 0 THEN End(c)
     ELSE /\ arg' = [arg EXCEPT ![c] = pending] /\ pc' = [pc EXCEPT ![c] = "insert"]
          /\ UNCHANGED <<kind, writes>>
  /\ UNCHANGED <<db, redis, serial, codes, past, faults>>

\* The address is unique: the INSERT waits for one that is not committed.
InsertUser(c) ==
  /\ pc[c] = "insert"
  /\ \A o \in Calls : added[o] = 0
  /\ IF password # 0 THEN End(c)
     ELSE /\ added' = [added EXCEPT ![c] = arg[c]]
          /\ pc' = [pc EXCEPT ![c] = IF kind[c] = "verify" THEN "deleteOtp" ELSE "commit"]
          /\ UNCHANGED <<kind, arg, wrote>>
  /\ UNCHANGED <<db, redis, serial, codes, past, faults>>

DeleteOtp(c) ==
  /\ pc[c] = "deleteOtp"
  /\ otp' = 0 /\ Goto(c, "deletePending")
  /\ UNCHANGED <<db, pending, lock, counters, serial, codes, past, faults>>

DeletePending(c) ==
  /\ pc[c] = "deletePending"
  /\ pending' = 0 /\ Goto(c, "commit")
  /\ UNCHANGED <<db, otp, lock, counters, serial, codes, past, faults>>

(***************************************************************************)
(* enroll_face and add_embbed_user.                                        *)
(***************************************************************************)
\* The number of images is refused, or SET NX takes the lock or does not.
TakeLock(c) ==
  /\ pc[c] = "lock"
  /\ \/ End(c) /\ UNCHANGED <<lock, abandoned>>
     \/ /\ lock = 0
        /\ lock' = arg[c] /\ abandoned' = abandoned \ {"lock"}
        /\ Goto(c, "readUser")
  /\ UNCHANGED <<db, pending, otp, counters, serial, codes, mailed, meant, lapsed, faults>>

\* Mutant: only an enrollment that succeeds releases its lock.
ReleasesOnSuccess(c) == lock = arg[c] /\ wrote[c] # 0
\* The call releases the lock in the end, if it is still its own.
Releases(c) == lock = arg[c]

\* SET NX raises, before or after Redis has executed it: the call goes on.
LockFailsOpen(c) ==
  /\ pc[c] = "lock"
  /\ faults < MaxFaults /\ faults' = faults + 1
  /\ \/ UNCHANGED <<lock, abandoned>>
     \/ lock = 0 /\ lock' = arg[c] /\ abandoned' = abandoned \ {"lock"}
  /\ Goto(c, "readUser")
  /\ UNCHANGED <<db, pending, otp, counters, serial, codes, mailed, meant, lapsed>>

ReadUser(c) ==
  /\ pc[c] = "readUser"
  /\ Goto(c, IF face # 0 THEN "release" ELSE "compute")
  /\ UNCHANGED <<db, redis, serial, codes, past, faults>>

\* The embedding of the images; there may be no face on one.
Compute(c) ==
  /\ pc[c] = "compute"
  /\ Goto(c, "forUpdate") \/ Goto(c, "release")
  /\ UNCHANGED <<db, redis, serial, codes, past, faults>>

\* Mutant: the row is locked but not looked at again.
NoSecondLook == TRUE
StillFaceless == face = 0

SetEmbedding(c) ==
  /\ pc[c] = "forUpdate"
  /\ \A o \in Calls : wrote[o] = 0
  /\ pc' = [pc EXCEPT ![c] = "release"]
  /\ wrote' = IF StillFaceless THEN [wrote EXCEPT ![c] = arg[c]] ELSE wrote
  /\ UNCHANGED <<db, redis, serial, codes, past, faults, kind, arg, added>>

\* finally: the lock is compared, then deleted, in two commands; the commit comes after.
AfterRelease(c) == IF wrote[c] # 0 THEN Goto(c, "commit") ELSE End(c)

Compare(c) ==
  /\ pc[c] = "release"
  /\ IF Releases(c) THEN Goto(c, "unlock") ELSE AfterRelease(c)
  /\ UNCHANGED <<db, redis, serial, codes, past, faults>>

Unlock(c) ==
  /\ pc[c] = "unlock"
  /\ lock' = 0 /\ abandoned' = abandoned \ {"lock"}
  /\ AfterRelease(c)
  /\ UNCHANGED <<db, pending, otp, counters, serial, codes, mailed, meant, lapsed, faults>>

(***************************************************************************)
(* The end of a transaction, time, and faults.                             *)
(***************************************************************************)
Commit(c) ==
  /\ pc[c] = "commit"
  /\ password' = IF added[c] # 0 THEN added[c] ELSE password
  /\ face' = IF wrote[c] # 0 THEN wrote[c] ELSE face
  /\ End(c)
  /\ UNCHANGED <<redis, serial, codes, past, faults>>

\* A confirmation that has deleted the code, and perhaps the registration.
HasUsed(c) == kind[c] = "verify" /\ pc[c] \in {"deletePending", "commit"}
\* The newest code is not in Redis with its registration.
Lost == pending' # issued \/ otp' # codes

\* The session cannot be made, the audit event cannot be published, a command of
\* Redis raises before or after it is executed, or the database fails.  enroll_face
\* releases its lock also then, unless it is the release that fails.
Fault(c) ==
  /\ pc[c] \notin {"idle", "incr", "expire", "lock"}
  /\ faults < MaxFaults /\ faults' = faults + 1
  /\ CASE pc[c] \in {"readUser", "compute", "forUpdate"} ->
            Goto(c, "release") /\ UNCHANGED <<pending, otp, lock, abandoned>>
       [] pc[c] \in {"release", "unlock"} ->
            /\ AfterRelease(c)
            /\ lock' \in IF pc[c] = "unlock" THEN {0, lock} ELSE {lock}
            /\ abandoned' = IF lock' = arg[c] THEN abandoned \cup {"lock"} ELSE abandoned
            /\ UNCHANGED <<pending, otp>>
       [] OTHER ->
            /\ End(c)
            /\ pending' \in CASE pc[c] = "setPending" -> {pending, arg[c]}
                              [] pc[c] = "deletePending" -> {pending, 0}
                              [] OTHER -> {pending}
            /\ otp' \in IF pc[c] = "deleteOtp" THEN {otp, 0} ELSE {otp}
            /\ UNCHANGED <<lock, abandoned>>
  /\ overwritten' = Overwritten
  /\ lapsed' = (lapsed \/ (Lost /\ (HasUsed(c) \/ otp' # otp)))
  /\ UNCHANGED <<db, counters, serial, codes, mailed, issued>>

\* The process dies.
Die(c) ==
  /\ pc[c] # "idle"
  /\ faults < MaxFaults /\ faults' = faults + 1
  /\ abandoned' = abandoned \cup (IF pc[c] = "expire" THEN {Key(c)} ELSE {})
                            \cup (IF kind[c] = "enroll" /\ lock = arg[c] THEN {"lock"} ELSE {})
  /\ End(c)
  /\ UNCHANGED <<db, redis, serial, codes, mailed, meant>>
  /\ lapsed' = (lapsed \/ (Lost /\ HasUsed(c)))

\* The code and the registration live for ten minutes each, a lock for five.
Lapse ==
  /\ \/ pending # 0 /\ pending' = 0 /\ lapsed' = TRUE /\ UNCHANGED <<otp, lock, counters>>
     \/ otp # 0 /\ otp' = 0 /\ lapsed' = TRUE /\ UNCHANGED <<pending, lock, counters>>
     \/ lock # 0 /\ lock' = 0 /\ UNCHANGED <<pending, otp, counters, lapsed>>
     \/ \E k \in Counters :
          /\ counters[k].expires
          /\ counters' = [counters EXCEPT ![k] = [count |-> 0, expires |-> FALSE]]
          /\ UNCHANGED <<pending, otp, lock, lapsed>>
  /\ UNCHANGED <<db, serial, codes, mailed, meant, abandoned, faults, kind, pc, arg, writes>>

Start(c) ==
  BeginRegister(c) \/ BeginResend(c) \/ BeginVerify(c) \/ BeginStaff(c) \/ BeginEnroll(c)

Step(c) ==
  \/ Incr(c) \/ Expire(c)
  \/ LookUp(c) \/ SetPending(c) \/ FindPending(c) \/ SetOtp(c) \/ Publish(c)
  \/ ReadOtp(c) \/ ReadPending(c) \/ InsertUser(c) \/ DeleteOtp(c) \/ DeletePending(c)
  \/ TakeLock(c) \/ ReadUser(c) \/ Compute(c) \/ SetEmbedding(c) \/ Compare(c) \/ Unlock(c)
  \/ Commit(c)

Next ==
  \/ \E c \in Calls : Start(c) \/ Step(c) \/ FailOpen(c) \/ LockFailsOpen(c) \/ Fault(c) \/ Die(c)
  \/ Lapse

Spec == Init /\ [][Next]_vars

(***************************************************************************)
(* Properties.                                                             *)
(***************************************************************************)
\* Every variable keeps its type; who has inserted the row, or has written a face to it,
\* found none there and there is none yet; and only an account has a face.
TypeOK ==
  /\ password \in Nat /\ face \in Nat /\ serial \in Nat /\ codes \in Nat
  /\ pending \in Nat /\ otp \in 0..codes /\ lock \in Nat
  /\ counters \in [Counters -> [count : Nat, expires : BOOLEAN]]
  /\ mailed \subseteq 1..codes /\ issued \in Nat /\ overwritten \subseteq Nat /\ lapsed \in BOOLEAN
  /\ abandoned \subseteq Counters \cup {"lock"} /\ faults \in 0..MaxFaults
  /\ kind \in [Calls -> {"none", "register", "resend", "verify", "staff", "enroll"}]
  /\ pc \in [Calls -> {"idle", "incr", "expire", "lookUp", "setPending", "setOtp", "publish", "readOtp", "readPending",
                        "insert", "deleteOtp", "deletePending", "lock", "readUser", "compute", "forUpdate",
                        "release", "unlock", "commit"}]
  /\ arg \in [Calls -> Nat]
  /\ added \in [Calls -> Nat] /\ wrote \in [Calls -> Nat]
  /\ \A c \in Calls : (added[c] # 0 => password = 0) /\ (wrote[c] # 0 => password # 0 /\ face = 0)
  /\ face # 0 => password # 0

\* A code that has been mailed and is the newest one would confirm the registration
\* that it was generated for, with its password, until it expires or the address has an
\* account: no other call, whether it fails or races with the one that confirms, takes it
\* away.  The code itself breaks it in two cases, which are premises: another registration
\* of the address overwrites the password (line 195 of users.py) and has not yet replaced
\* the code, or never does; and a confirmation is rolled back after the deletions that
\* follow its INSERT (lapsed).
CodeStaysGood ==
  codes \in mailed /\ ~lapsed /\ issued \notin overwritten =>
    \/ otp = codes /\ pending = issued /\ issued # 0
    \/ password # 0
    \/ \E c \in Calls : HasUsed(c)

\* A face that is enrolled is never replaced, whatever enrollments run at once: neither
\* an expired lock nor Redis being out, when nothing keeps two of them apart until the
\* row is locked, lets the slower one overwrite the faster one.
FaceKept == [][face # 0 => face' = face]_face

\* The lock of an enrollment that has ended is free, whatever has ended it, so that the
\* user can try again before the lock expires: unless the process died or Redis failed
\* in the release itself.
LockFreed == lock # 0 /\ "lock" \notin abandoned => \E c \in Calls : kind[c] = "enroll" /\ arg[c] = lock

\* A counter goes back to zero in the end: it has a TTL, or the call that counted 1 is
\* about to give it one, unless that call died or Redis failed in check_rate_limit.
CounterExpires ==
  \A k \in Counters \ abandoned :
    Immortal(counters[k]) => \E c \in Calls : pc[c] = "expire" /\ Key(c) = k

\* Every call leaves the variables well typed and what it took from Redis free: no user
\* is shut out for longer than a window or a lock lasts.  (enroll_face releases its lock
\* in finally; check_rate_limit counts first and sets the TTL in a second command.)
Inv == TypeOK /\ LockFreed /\ CounterExpires

=============================================================================
