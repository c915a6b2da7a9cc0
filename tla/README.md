# multAI back end: specifications

These TLA+ modules model the parts of the multAI back end (`app/`, a FastAPI
service with a set of NATS workers) in which several calls, workers and external
stores act on the same data: the review of uploads, direct uploads, the import
of Drive folders, the consent of the people on a photo, the copying and cleaning
of accepted photos, the Drive connection and its folder lock, the delivery of push
notifications, registration and enrollment, and the sessions of mobile users. TLC
checks each module on small instances; TLAPS proves every invariant and every
action property that the passing runs check for any number of calls, photos, users,
devices and workers.

Run a model with `tlc -config <run>.cfg <MC module>` and the proofs with `tlapm` on
the eight modules whose names end in `Proofs`.
`PROJECT.json` lists the components, the runs,
the mutants that show that every property can fail, the source lines behind every
definition, the findings and the hazards.

## 1. The system

A club photographs its events. Staff upload photos (through the service,
directly to the object store, or by naming a Google Drive folder); other staff
approve or reject them; accepted photos are searched for the faces of enrolled
members, who are asked for consent when a photo shows several of them; accepted
photos are copied to the club's Drive and, some time after the event, deleted
from the object store.

PostgreSQL holds the rows. Each HTTP call has one transaction at READ COMMITTED
(`app/infra/database.py`), committed when the handler has returned, which is
after the response is made. MinIO holds the objects, NATS JetStream the events,
Redis the caches, locks and counters: what a call does to these three shows at
once and is not rolled back with its transaction. That gap, the row locks
PostgreSQL takes on the way, and the redelivery of events are where the code is
hard to test and what the modules are about.

### Components

For each: what it keeps; what it does; whom it deals with; what is hard; what
makes it correct. Module names in the last column are those of this directory.

| Component | State | Operations | Interacts with | Hard | Correct when | Module |
|---|---|---|---|---|---|---|
| Staff review (`service/upload_requests.py`) | `upload_requests`, `upload_request_groups`, `upload_request_photos`, `photos`; staged and final objects | approve or reject a request or a group | object store, PHOTO_PROCESS and DRIVE_SYNC events, audit, staff notifications | two reviewers at once; failure after objects moved; locks in opposite orders | a decision is made once and covers the request with its photos; an accepted photo has its object | UploadReview |
| Auto-approval (same file) | the same | approve the group when its last photo arrives | runs inside a confirmation | the confirmation commits although the approval raised; photos registered meanwhile | whole requests are approved, a copy always remains | AutoApprove |
| Direct uploads (same file, `staged_upload_storage.py`) | `transfer_status`, presigned URLs, staged objects | register, confirm, fail, resume | client PUTs, reconciler | the object is looked up before the row is locked | an uploaded photo has its object, for good | DirectUpload |
| Upload reconciler (`worker/upload_reconciler`) | none of its own | settle transfers that stayed pending | object store, database | one failing photo rolls back the pass; the process has no client | it takes no confirmation back and settles by what is stored | DirectUpload |
| Group import (`worker/upload_group_worker`) | `processing_status`, requests, photos, staged objects | fetch a folder in batches | Drive, object store, JetStream | redelivery, crashes, cleaning up after failures | a completed import is whole, a failed one leaves no objects but those the store refuses to delete | GroupImport |
| Photo worker (`worker/photo_worker`) | `photo_faces`, `photo_approvals`, `face_matches` | match a single face, ask several for consent, make a photo without faces public | PHOTO_PROCESS events | events delivered twice; an exception swallowed inside the transaction | each person is asked; one person is matched at most | PhotoConsent |
| Photo approvals (`service/photo_approval.py`) | `photo_approvals`, `photos.status` | decide, expire | object store, audit | decisions and expiry overlap | a decision is the person's; no photo waits for ever | PhotoConsent |
| Drive sync (`worker/drive_sync`) | `drive_synced_at` | copy a photo to Drive | object store, Drive connection | event before the commit; twice | synced means copied | PhotoRetention, StaffDrive |
| Event lifecycle, storage cleaner (`worker/event_lifecycle`, `worker/storage_cleaner`) | `events.status`, `storage_cleaned_at` | activate and archive events; schedule and delete objects after the event | JetStream, object store, staff | mark and message are not atomic; staff set the status meanwhile | the last copy is never deleted; what is due is scheduled and marked together; an ended event is archived | EventLifecycle, PhotoRetention |
| Mobile sessions (`service/users.py`, `service/session.py`, `deps/token_auth.py`) | `user_sessions`, cache entries in Redis | login, check, logout, evict, revoke with the device | every mobile call | login against block, eviction of rows in use | the limit is kept, a blocked user has no session | MobileSessions |
| Refresh tokens (`service/users.py`) | `refresh_tokens`, answers in Redis | exchange, replay, report reuse | sessions | two exchanges of one token, rollback after the answer is cached | one successor each | MobileSessions |
| User administration (`service/users.py`, `router/web/users.py`) | `users` | create, block, unblock, update, delete | sessions | a stale row is written back | a block ends all sessions | MobileSessions, Accounts |
| Registration (`service/users.py`) | pending user and code in Redis, `users` | register, resend, verify | e-mail events | two verifications of one code; Redis commands around a transaction that fails | the newest code confirms its registration until it expires | Accounts |
| Enrollment (`router/mobile/enrollement.py`) | `face_embedding`, a lock in Redis | enroll once | embedding model | the lock expires before the work is done, or Redis is out | a face is never overwritten, no lock stays behind | Accounts |
| Staff Drive connection (`service/staff_drive.py`, `infra/google_drive.py`) | `staff_drive_connections`, OAuth state, lock and cached folder in Redis | connect, disconnect, renew, browse, upload into the event's folder | Google | lock expiry, failing heartbeats, a dead holder; a renewal that writes back a stale row | one call makes the folder, once; a disconnected connection stays so | StaffDrive, EventFolder |
| Push notifications (`worker/notification`, `service/user_notification.py`) | attempts in the entry, refused tokens in Redis, `user_devices` | resolve tokens, enqueue, send, flag devices, retry | Firebase, JetStream, devices | retries that overlap redelivery; a token replaced while it is refused | no token is served twice by a retry, no live token is flagged, every entry is settled | NotificationDelivery |
| Rate limits (`service/users.py`, `deps/rate_limit.py`) | counters in Redis | count and expire | all public calls | two commands | a window ends | Accounts |
| Events and participation (`service/event.py`) | `events`, `event_participants` | create, set the status, join | lifecycle worker | staff against worker | see the lifecycle | EventLifecycle (the status) |
| NATS client (`infra/nats.py`) | streams, consumers | publish, subscribe, ack | all workers | subjects that a stream lacks | every subject has a stream | in the modules that use it; streams not modelled |
| Object store client (`infra/minio.py`) | connection | put, copy, stat, delete | all of the above | a process that never connects | | in the modules that use it |
| Database access (`infra/database.py`) | transactions | begin, commit, roll back | all | commit after the response | | in the modules that use it |
| Devices (`service/device.py`) | `user_devices` | register, set the push token, inactivate, revoke | logins, sessions, notifications | the cascade to sessions | | NotificationDelivery, MobileSessions |
| Staff accounts, staff notifications, photos of a user, statistics, audit, e-mail, the notifications' token bucket | one table or counter each | mostly one statement for a call | | little | | not modelled |
| Face embedding, image validation | none | numeric inference, file formats | | numeric code of libraries | | not modelled |
| Configuration, schemas, generated queries, migrations, scripts | none | | | | | not modelled |

`PROJECT.json` has the list in full, and under `hazards` the forty places where
this code is hard to test, with the properties that watch them or the reason
why none does.

## 2. Modules and how they correspond to the code

Conventions shared by all modules:

- A transaction is the uncommitted writes of its call (`marked`, `writes`,
  `newRows`, `minted`, ...) and its `pc`. `Commit` makes them visible; an
  exception or a failure drops them. What was done to the store, to Redis or to
  the stream stays.
- A row is locked by whoever has an uncommitted write to it. A statement that
  needs the row has "nobody else holds it" as a guard and evaluates its WHERE
  clause on the committed row after that, as READ COMMITTED does. Where rows are
  locked in different orders, `DeadlockVictim` rolls back one of the two.
- Statements between which no other actor could make a difference are one step.
- `past`, `struck`, `crashed`, `refused`, `unstaged`, `undeleted`, `issued` and
  `overwritten` are history variables: they say what has happened so far and are used
  in properties and their premises only. (`refused` of GroupImport, the objects that the
  store has refused to delete, also keeps these objects in the store.)
- A definition with the comment "Mutant" is a plausible bug; nothing uses it, it
  takes the place of another definition to show that a property can fail.

**ReviewDecisions** is the abstract specification of the review: every request
and group is decided at most once, a request with all its photos in one step,
and an approved photo gets one row.

**UploadReview** is the code behind `approve_request`, `reject_request`,
`approve_group` and `reject_group`. An approval goes through the photos of a
request (`Promote` copies the object and inserts the row in `photos`,
`MarkApproved` updates the staged row), then updates the request
(`DecideRequest`, which raises if somebody else was first), the group, deletes
the staged objects (`Unstage`), publishes (`Publish`), audits (`Audit`) and
commits. An exception leads to `cleanup`, where the objects it has promoted are
deleted. A rejection updates the request first and its photos afterwards, which is
the opposite order. `Fault` covers a failing database, store, broker, and the
death of the process.

**AutoApprove** is `_maybe_auto_approve_group` within `confirm_direct_upload`. A
step of the approval covers all photos of a request. The exception of
`approve_group` is swallowed, so `Cleanup` is followed by a commit of everything
that was written until then; so does a caller who may not access the group (`ReadGroup`).
Reviewers are steps of ReviewDecisions, taken through `INSTANCE`. `Reconcile` is the
reconciler, which marks a stale transfer uploaded and asks for no approval.

**DirectUpload** has the four calls for direct uploads, the client's `Put`, the
expiry of URLs, and the reconciler. `Stat` is separate from `Update`, so the
world may change in between. The reconciler's pass is one transaction over
several photos (`PassLimit`), and a `stat` that raises ends it. A review locks the
photo's row (`Decide`), deletes the staged object (`Unstage`), and only then commits or
rolls back (`CommitReview`, `RollBackReview`); a rollback leaves an uploaded photo
without its object (`unstaged`).

**GroupImport** has `create_group_from_folder`, which publishes before it
commits, and any number of deliveries of the event to workers. Each goes through
the batches; the errors the code tells apart (Drive, integrity, database) are
handled as the code handles them, a crash leaves what was stored. The cleanup deletes
objects one by one, and a deletion that the store refuses is only logged
(`DeleteObjects`). A broker that
fails matters to the creator only: the worker's own events may be lost unnoticed.

**PhotoConsent** has one photo, its faces, the calls of `decide`, and the hourly
`expire_stale`. A delivery finds no face (the photo is approved and public), one (it
is approved and matched with one user at most, by `MatchFace`, whose exceptions are
swallowed inside the transaction), or several, whose users are asked. Approvals are
keyed by delivery and user since a second delivery inserts them again. `View` is
what a transaction sees: the committed rows and its own decision.

**EventLifecycle** is the status of one event under staff, who set it as they like,
time, and `run_lifecycle_pass`, whose two UPDATEs are one step because the first
locks what the second reads. PhotoRetention takes it in by `INSTANCE`.

**PhotoRetention** has the sync workers, the cleanup pass and the cleaner over
accepted photos of that event. A deletion succeeds (`DeleteObject`) or fails and is
acknowledged all the same (`DeletionFails`); nothing is assumed of which, because the
cleaner's process, as it stands, never connects to the store and every one fails.

**MobileSessions** has one user. A session is a device and a number, a token a
session and a number. A login locks the user and looks at `blocked` again, upserts
the row of its device, evicts what exceeds the limit (passing over rows that are
locked, as SKIP LOCKED does), and inserts a token. A refresh locks its token
first and its session by the foreign key afterwards; the deletion of a session
locks in the opposite order (ON DELETE CASCADE), and so does the revocation of a
device, which deletes the sessions of the device with it. `Edit` and `Write` are
`update_user`, which writes back the value of `blocked` it has read. `Report` is the
exception that follows the detection of a reused token and undoes the deletion.

**EventFolder** is what the Drive service promises of the folder of an event: one
call at a time looks for it or makes it, it is made once, and photos are filed in
the folder that was made. **StaffDrive** is the code: the connection's row under
`handle_callback`, `disconnect` and the renewal of the token, the state parameter
of OAuth, and the upload, which takes the folder lock (SET NX EX), looks into the
cache, searches or makes the folder, and releases the lock by a GET and a DEL while
a heartbeat renews it. Time goes in ticks, so that the lock can expire under its
holder; `Beat` may fail `MaxMisses` times in a row. `Renew` rolls back the
revocation of a connection whose grant is invalid, as the exception raised next
does. A call may die anywhere and leave the lock.

**NotificationDelivery** has one user's devices (login, push token, inactivation,
revocation), `create_notification` in two steps (the tokens are read, the entry is
published), the stream, and the handlers of the worker. A handler drops the tokens
known to be refused, sends, records refused tokens in Redis, flags their devices
one transaction at a time, and publishes the entry again with the tokens that
failed. An entry comes back when its handler raises or its worker dies, and also
while it is still handled.

**Accounts** has one address: the pending registration and the code in Redis, the
unique row, the enrollment of a face with its lock in Redis and the second look
under FOR UPDATE, and the counters of `check_rate_limit`. Registrations, codes and
enrollments are numbered, a number standing for the password or the face that
came with it: `issued` is the registration the newest code was generated for. What is
done to Redis stays when the transaction is rolled back.

## 3. What the runs check

| Run | Instance | Distinct states | Shows |
|---|---|---|---|
| `review_group` | two approvals and a rejection, a group of two requests with a photo each | 593 314 | the implementation of ReviewDecisions, `ApprovedAreAnnounced`, `PendingKeepsStaged` |
| `review_one_approver` | an approval and a rejection, one request with two photos in a group, all faults | 30 542 | the inductive invariant `IInv` with `DecidedTogether`, `FinalObjectKept` and `CallsFinish` under any failure, with a single approval |
| `review_two_approvers` | two approvals of one request | ends at the violation | finding: `FinalObjectKept` fails |
| `auto_approve` | three confirmations, two requests of two photos, failures, reviews, the reconciler | 91 230 | approvals stay apart and whole under swallowed exceptions (`Inv`), a copy of every photo remains while the broker works, and the last confirmation approves, if it is one |
| `direct_upload` | two calls, the reconciler, two photos, reviews that commit or roll back | 1 017 054 | what was seen in the store still holds when the row is written (`Inv`), a confirmation is never taken back |
| `group_import` | two workers, three photos in two batches, two failures of five kinds, refused deletions | 194 204 | completed imports are whole, failed ones leave no row with an object and no object without a row but those the store refused to delete, imports end |
| `photo_consent` | two users, two deliveries, two calls, the task, a crash | 231 499 | decisions are the user's own, objects survive unless rejected and one person is matched at most (`Inv`), waiting ends |
| `photo_retention` | two photos, a sync worker, passes of one photo, two failures, deletions that fail | 133 023 | the last copy is kept, what is due is marked and its event acknowledged, an ended event is archived |
| `mobile_sessions` | two calls at a time, four in all, two devices, a limit of one | 415 237 | the limit, blocks, one successor for a token and honest replays, no lasting deadlock |
| `staff_drive` | two calls at a time, three in all, a lock of four ticks, beats every tick of which one in a row may fail | 184 030 | one call resolves the folder and the lock is its own, the implementation of EventFolder, a disconnection holds, calls end |
| `notifications` | one notification, two devices, two tokens, two handlers, two attempts, a fault | 430 686 | no device is flagged for a token it no longer has, retries serve no token twice, every entry is settled |
| `accounts` | two calls at a time, four in all, counters that admit two, a fault | 1 459 172 | the newest code confirms the registration it was made for, a face is never replaced, no lock or counter stays behind (`Inv`) |

### Bounds and why they are enough

The properties are about pairs: two transactions on a row, a row and its object,
an event and its redelivery. Two concurrent calls of a kind show every order of
two; a third actor (rejection, reconciler, task) is there where the code has a
different kind of caller. Two photos (or two requests, or two batches) are the
least with which one may be done and another not, three confirmations the least
with which a third meets two that overlap. Four photos in `auto_approve` give both
requests a photo that can be missing.

The bounded counters are `MaxFaults` (failures; deletions that the store refuses or that
fail are not counted), `MaxCalls` (calls made), `MaxLinks`
(redirections to Google), `MaxNotes` and `MaxTokens` (notifications, push tokens);
`PassLimit`, `Limit`, `MaxRequests`, `MaxAttempts` and `Concurrency` are limits of the
code, set low enough to be reached.

- With `MaxCalls` = 4 in `mobile_sessions` a session is made, used by two calls at
  once, and looked at by another; the session limit (three in the code) is one, so
  that two devices exceed it.
- In `accounts` four calls suffice for a registration, its confirmation and two
  enrollments that overlap.
- In `staff_drive` a call can die inside the lock, a second wait for it, and a third
  meet the second. `LockTtl` = 4 is the least that `LeaseAssumption` admits with one
  missed beat; the code's 120 and 40 seconds are 12 and 4 ticks of ten seconds, which
  admit one, too. The proofs are for all that it admits.
- `photo_retention` has one sync worker: two would differ from a redelivery to the same
  one only in the overlap of two uploads of one photo, both of which put the same
  photo into Drive; with `PassLimit` = 1 several passes are needed.
- In `photo_consent` one transaction at most ends by a crash. The runs of UploadReview
  need no bound: each call returns to idle and may be made again, and the decisions
  run out.

Deadlock checking is on in the review runs, where a call can always be made
again. The other instances have calls that are made once, or numbers that run out,
so they stop when all is done, and their configurations say so.

### Fairness

Only what the platform gives: the server runs a call it has begun to its end
(fairness of its steps, strong where another transaction can disable a step time
and again by taking the row), PostgreSQL breaks deadlocks, the polling workers
and the hourly task run again, JetStream redelivers what is not acknowledged, and
time passes (transfers grow stale, photos overdue, ticks). No client or staff member
has to do anything, no message has to come in order, and no failure has to stop,
except through the bound on their number. In MobileSessions and StaffDrive weak
fairness is enough, since calls are bounded and so is how often a step can be
disabled; StaffDrive needs it of the clock as well, because the lock of a dead call
goes by expiry only. DirectUpload has no liveness and no fairness. In NotificationDelivery the handlers go on (`Handle`); a
redelivery needs no fairness, since what a handler drops goes back to the queue.

### Premises worth knowing

- `app/worker/upload_reconciler/main.py` and `app/worker/storage_cleaner/main.py` never
  call `init_minio_client`, and the makefile starts them as they are. So, as the program
  stands, every pass of the reconciler over stale photos raises at its first photo and
  rolls back, and every cleanup event is acknowledged after a deletion that failed. No
  property therefore says that a stale transfer settles, or that a due object is deleted:
  the program does neither. The modules have this outcome and that of a connected
  process, as a choice at each step (the Reconciler is in `Connected` and in
  `Unreachable`; `DeleteObject` and `DeletionFails`), so that the safety properties hold
  for the program as it is and once the clients are connected. `DueIsScheduled` is what
  remains of the liveness: the deletion of every due object is scheduled, marked and
  attempted.
- A group may also stay undecided because the reconciler settled its last transfer:
  it never asks whether the group is complete. `AutoApproved` excludes it, and a
  confirming caller who may not approve the group.
- `UploadedHasObject` ends with the first deletion by a review, also of one that is
  rolled back: the photo is then uploaded, undecided and without its object.
- A failed import leaves the objects that the store refuses to delete.
- The folder of an event is one folder if there is one connection, whose search sees
  every folder made. `get_system_access_token` (`staff_drive.py:226`) takes any active
  connection; with several, one may not see what another has made.
- `FinalObjectKept` is stated for one approval at a time. `review_two_approvers`
  shows what happens with two.
- `PendingKeepsStaged` is checked without failures of the broker: staged objects
  are deleted before the audit event is published, and if that raises the
  decision is rolled back and the objects are gone.
- `AutoApproved` excludes overlapping confirmations, of which each may miss the
  other's photo, so that the group waits for a reviewer.
- `ImportEnds` excludes a delivery that comes before the group is committed: it
  finds no group and is acknowledged, and the import is lost.
- `CapKept` excludes an eviction that passed over a locked row. A request that
  updates its `last_active` at that time is enough to leave one session too many
  until the next login.
- `BlockedHasNoSession` excludes `update_user`, which can set `blocked` without
  deleting sessions, and can write back a `blocked` that has changed since it was
  read: a profile edit that overlaps a block undoes it.
- A request that has found a session in Redis may put it back after the session
  was deleted; no property says for how long a deleted session may be used.
- `Exclusive` and the implementation of EventFolder rest on `LeaseAssumption` (the
  TTL covers the beats that may fail and the release) and on a call taking less
  than a tick from the GET of its release to the DEL. A longer pause deletes the
  lock of a successor.
- `DisconnectHolds` excludes a disconnection made while the token is being renewed
  (`off`): the upsert of the renewal makes the connection active again.
- `ServedOnce` excludes entries that the broker delivers again and a send that
  raises after Firebase has accepted it (`again`); both serve tokens twice.
- `CodeStaysGood` excludes a code that has expired, one whose deletion preceded
  a transaction that failed after inserting the account (`lapsed`), and one whose
  registration has been overwritten by a later one (`overwritten`): `mobile_register`
  writes the password and the code by two commands (`users.py:195` and `203`), between
  which, or when the second fails, the mailed code confirms another password. `Inv` of Accounts
  excludes locks and counters left by a process that died, or by Redis failing in
  the two commands concerned (`abandoned`).
- `LastApprovalCounts` (PhotoConsent) and `UrlsReachTheRow` (DirectUpload) are stated
  in the modules because the code suggests them; the code does not keep them, and
  no run checks them.

## 4. What is proved

Each module of proofs extends the module it is about, states an inductive invariant
as a conjunction of named parts, has a lemma for each part (one step per action), and
derives the theorems from it. Two of them also hold the proofs of a second component,
whose module they extend as well: DirectUploadProofs those of GroupImport,
StaffDriveProofs those of PhotoRetention. That is why the definitions of these two
modules carry the component in their names (`ImportInit`, `RetentionNext`). The
assumptions on the constants are those that the modules state, which TLC evaluates. They
are otherwise arbitrary: sets may be infinite unless a table says otherwise. All the
inductive invariants were checked by TLC on the instances of section 3 first.

### The review: UploadReviewProofs

For all finite or infinite sets of calls, requests,
groups and photos, and any faults; the only assumptions are those UploadReview
states about its constants (each photo belongs to one request, each request to
one group or none, no call approves and rejects).

| Theorem | Statement |
|---|---|
| `InductiveInvariant` | `Spec => []IInv` |
| `TypeCorrect` | `Spec => []TypeOK` |
| `DecisionsCoverPhotos` | `Spec => []DecidedTogether` |
| `ReviewImplementsDecisions` | `Spec => ImplementsDecisions` |
| `SoleApproverKeepsObjects` | with one approval at a time, `Spec => []FinalObjectKept` |
| `CommittedAreAnnounced` | `Spec => []ApprovedAreAnnounced` |
| `UndecidedKeepStaged` | without faults of the database, the broker and the process, `Spec => []PendingKeepsStaged` |

`DecidedTogether` is about committed rows and says nothing of a transaction that
is about to commit, so it is not inductive. `IInv` adds to it

- `TypeOK`;
- `LockInv`: a row has one holder, and a held row is still undecided. This is
  what makes the second of two approvals find that it comes too late;
- `CallInv`: what a call has written by each `pc`. An approval has promoted and
  marked the photos of the requests it has decided, and those of the current one
  that it has come to; a rejection has marked all but those its UPDATE has yet to
  reach.

Each conjunct has a lemma for its preservation. `OthersSame` and `CallInvFrame`
reduce it to the call that takes the step, `LockEffect` says how a step changes
locks, `CommitReady` what a committing call holds: whole requests, all undecided.
The refinement follows from `CommitReady` as well: a commit is one step of
ReviewDecisions, every other step leaves its variables alone (`QuietOrCommit`).
`SoleApproverKeepsObjects` adds `KeptInv`, which says that what an approval has
promoted belongs to requests that are not approved, so its cleanup hurts
nobody; it is this that a second approval breaks. `CommittedAreAnnounced` needs, beside
`IInv`, that a call past its publication has announced all it has promoted
(`AnnouncedInv`). `UndecidedKeepStaged` needs that a call which has deleted staged objects
is on its way to commit the decision they belong to (`StagedInv`); an exception of the
database or the broker between the two, or a crash, leaves the decision undone and the
objects gone, which is why they are excluded. The store may fail, and calls may be
refused or be the victims of a deadlock.

### Auto-approval: AutoApproveProofs

For any confirmations, requests, groups and photos, with every failure the module has.

| Theorem | Statement |
|---|---|
| `ApproveInvariant` | `Spec => []ApproveInv` |
| `GroupsStayWhole` | `Spec => []Inv` (types, decided together, rows of uploaded photos only) |
| `CopiesRemain` | `Spec => []CopyRemains` |
| `FullGroupsDecided` | `Spec => []AutoApproved` |
| `AutoApprovalIsOneStep` | `Spec => [][ApprovedAtOnce]_vars` |

The three properties hold until something has happened (`past`: an overlap, a failure,
a review, a caller who may not approve, a last word of the reconciler), each for its own
reasons, so `ApproveInv` is in parts of which each names what ends it. `WorkInv` says
what an approval has copied, marked and decided; `GroupInv` that until a reviewer
interferes one approval at a time is at a group and finds it undecided; `CopyInv` where
the object of each photo is while an approval moves it or cleans up behind an exception
that is swallowed; and `TurnInv` that confirmations of a group that do not overlap come
to the check in turn, so that one which does not decide has missed a photo that is still
to be confirmed, and the last one has missed none. `AutoApprovalIsOneStep` is the
history behind `DecidedTogether`: until a reviewer interferes a request is approved by the
commit of one confirmation, which found it and its photos undecided. That does not make
AutoApprove an implementation of ReviewDecisions: a request registered after the check
makes the approval fail halfway, and what it had decided by then is committed without the
rest of the group.

### Direct uploads and imports: DirectUploadProofs

For any calls, any finite set of photos (a group has finitely many, which its total
needs: `PhotosAssumption`), any limit of a pass, and actors that are not connected to
the store or cut off from it.

| Theorem | Statement |
|---|---|
| `TransferInvariant` | `Spec => []TransferInv` |
| `UploadedPhotosHaveObjects` | `Spec => []Inv` |
| `ConfirmationIsFinal` | `Spec => UploadedStaysUploaded` |
| `GroupCountsItsPhotos` | the total of the group is the number of its photos |

`UploadedHasObject` says nothing of an actor that has looked and not yet written.
`SeenInv` does: what somebody has found, or is about to record as uploaded, is in the
store until a review deletes it (`unstaged`), since nothing else does; the review has the
row locked from before the deletion to its end. `LockInv` is the row lock together
with the condition on the status in each UPDATE: who has written a row that is not
committed is alone and the row is open. From it follows that no one takes a
confirmation back. `InsertInv` keeps registrations apart, so that each adds to the total
the rows it inserts, whoever commits in between (`CountInv`).

Of GroupImport, for any workers, any folder and its batches, and any failures:

| Theorem | Statement |
|---|---|
| `ImportInvariant` | `ImportSpec => []ImportInv` |
| `ImportTypeCorrect` | `ImportSpec => []ImportTypeOK` |
| `CompletedImportIsWhole` | `ImportSpec => []CompletedIsWhole` |
| `FailedImportCleansUp` | `ImportSpec => []FailureCleansUp` |
| `ImportCommitsOnce` | `ImportSpec => [][CommitsOnce]_importVars` |
| `ImportIsNotLost` | `ImportSpec => [][StaysSafe]_importVars` |
| `OnlyFaultsLeaveObjects` | `ImportSpec => [][OnlyFaultsStray]_importVars` |

The group's row is the lock: of the deliveries that overlap, one has updated it, and
nothing is committed before that one ends (`GroupLockInv`). `ProgressInv` is the loop
invariant of `process_group_import`: at each step which requests and rows there are, up
to the batch and the photo at hand. `ObjectsInv` ties rows to objects, in both directions
of the failure path, and `AccountedInv` says that an object without a committed row is
one the delivery at work knows of, which is what its cleanup relies on, or one that the
store has refused to delete; a crash or an unexpected error of the database breaks it,
and the property excludes them.
`OnlyFaultsLeaveObjects` says how much they break: what a delivery had stored when it
crashed, the one object it had just stored when the database failed, and what the store
refused to delete in a cleanup. `ImportIsNotLost`
is the safety half of `ImportEnds` and says what the premise of that property is for: once
the group is there and no delivery has come too early, the event is not acknowledged
before the import is finished. `ImportCommitsOnce` says that one delivery finishes it, in
one step.

### Consent: PhotoConsentProofs

For any users, deliveries and calls and either failure.

| Theorem | Statement |
|---|---|
| `ConsentInvariant` | `Spec => []ConsentInv` |
| `ConsentHolds` | `Spec => []Inv` (types, objects of photos nobody rejected, one match) |
| `DecisionsAreKept` | `Spec => DecisionIsTheUsers` |

`RowsInv` says whose rows a transaction has written, to what, and that two never write
the same; the task writes only rows still pending, though its list of them may be old,
because its UPDATE asks again. That is the argument of `DecisionsAreKept`. `PhotoInv` ties
the deletion of the object to a rejection that is written in the same transaction, and
`MatchInv` one match to one delivery at a time.

### Sessions: MobileSessionsProofs

For any devices, any limit of sessions, any finite set of calls at a time
and any number of calls in all (`BoundAssumption`; sessions and tokens are numbered by
counting those there are, and what the counts add up to is finite only if the calls are).

| Theorem | Statement |
|---|---|
| `SessionInvariant` | `Spec => []SessionInv` |
| `TypeCorrect` | `Spec => []TypeOK` |
| `BlockEndsSessions` | `Spec => []BlockedHasNoSession` |
| `LimitHolds` | `Spec => []CapKept` |
| `OneSuccessor` | `Spec => []RotatedOnce` |
| `RevocationIsFinal` | `Spec => [][EndsForGood]_vars` |

`CallInv` is where a call of each kind can be and what it has written; `UserInv`,
`RowLocks` and `TokenLocks` are the locks: on the user, on the rows of sessions, on
tokens read FOR UPDATE. The order of the statements does the rest. A block takes the
user's row before it lists the sessions and a login takes it before it inserts one,
so every session is in the list or comes after the block, and then not at all
(`BlockInv`). A login that has evicted leaves the limit together with the session it has
yet to commit (`CapInv`). A token has one successor because it is read under its lock,
spent in the transaction that inserts the successor, and never inserted again
(`TokensInv`, `MintedInv`); and the cached answer of an exchange that is about to commit
is the token that it inserts (`ReplayInv`). That new numbers are new, which these two
need, is `CountInv`. `RevocationIsFinal` says what a logout relies on: a session that has
ended (`Over`) and a token that is used up (`UsedUp`) stay so, because a login works on a
row it has locked or on a number never given out before (`CommitEnds`,
`StatementEnds`). It is about the tables; the cache in Redis, which an overlapping
request may fill again, is the hazard at `token_auth.py:66`.

### Push notifications: NotificationDeliveryProofs

For any devices, any number of handlers and attempts, and any bounds.

| Theorem | Statement |
|---|---|
| `DeliveryInvariant` | `Spec => []DeliveryInv` |
| `TypeCorrect` | `Spec => []TypeOK` |
| `RegistrationsKept` | `Spec => []LiveTokenKept` |
| `TokensServedOnce` | `Spec => []ServedOnce` |
| `NoTokenForgotten` | `Spec => [][NoneForgotten]_vars` |

`EntryInv` is what at-most-once comes from: a notification the broker does not deliver
again has one entry, on the stream or at a handler, which moves from one to the other in
single steps, and the tokens this entry has still to be sent to have not been served: all
of them before the send, those that failed after it. `HandlerInv` says that what is
flagged was refused and marked before. `NoTokenForgotten` is the safety half of
`NotesSettle`: at each step of a handler it names the tokens the handler still answers for
(`Owed`), which a nak, a republished entry or the next step takes over; what ends the
wait is FCM's acceptance, the mark, or the failure of the last attempt.

### The Drive connection and the last copy: StaffDriveProofs

For any set of calls, any number of them and of redirections to Google, any TTL,
interval and number of missed beats that satisfy `LeaseAssumption`.

| Theorem | Statement |
|---|---|
| `DriveInvariant` | `Spec => [](DriveInv /\ OffInv)` |
| `DriveTypeCorrect` | `Spec => []TypeOK` |
| `LockIsExclusive` | `Spec => []Exclusive` |
| `LockIsNotLost` | `Spec => [][LockKept]_vars` |
| `DisconnectionHolds` | `Spec => []DisconnectHolds` |
| `DriveImplementsEventFolder` | `Spec => ImplementsEventFolder` |

`Exclusive` says that who resolves the folder owns the lock; that nobody loses it is
a matter of time. `LeaseInv` counts it: the TTL that is left, what the missed beats
have cost and the ticks since the last beat add up to the full TTL at least, so by
`LeaseAssumption` the lock is there at the next beat (`LeaseLasts`). From this follows
that the DEL, a command later than the GET that compares, deletes the call's own value,
since until then the call has not lost the lock (`LockIsNotLost`). `FolderInv` is about the folder:
there is one at most, and who is about to make it knows that there is none, for
which it has to be alone since its search. The refinement needs both: `Inside` is the
one owner (`OneInside`), and a step that makes the folder is made by it. `OffInv` says
which calls may still write to the row of a connection that is off.

Of PhotoRetention, for any photos, sync workers, limit of a pass and failures, and
whichever deletions fail, all of them included:

| Theorem | Statement |
|---|---|
| `RetentionInvariant` | `RetentionSpec => []RetentionInv` |
| `RetentionTypeCorrect` | `RetentionSpec => []RetentionTypeOK` |
| `LastCopyStays` | `RetentionSpec => []LastCopyKept` |
| `MarksAreHandedOver` | `RetentionSpec => []CleanedIsDealtWith` |
| `OnePassArchives` | a pass is idempotent; `RetentionSpec => [][PassArchives]_retentionVars` |

The deletion is several steps and two events away from the condition that justifies it.
`CopiedInv` carries it along: a worker that is about to mark a photo has uploaded it, what
is marked is in Drive, and so is what a pass has listed, what it has published, and what
the cleaner has at hand. It does not matter that what a pass has read may be stale when
it acts, since Drive loses nothing. `MarksAreHandedOver` is the other direction and
the safety half of `DueIsScheduled`: a pass publishes before it marks, and the cleaner
acknowledges after it has tried (`HandoverInv`), so a marked photo has an event that is
still to come, or one that was acknowledged after the object was deleted or its deletion
had failed. `OnePassArchives` is the safety half of
`EndedIsArchived`.

### Registration and enrollment: AccountsProofs

For any number of calls at once and in all, any limit of the counters, and any
number of faults.

| Theorem | Statement |
|---|---|
| `AccountInvariant` | `Spec => []AccountInv` |
| `NothingLeftBehind` | `Spec => []Inv` (types, locks, counters) |
| `NewestCodeStaysGood` | `Spec => []CodeStaysGood` |
| `FaceIsKept` | `Spec => FaceKept` |
| `AccountIsMadeOnce` | `Spec => [][MadeOnce]_vars` |

`AccountInv` adds to the three parts of `Inv` where a call of each kind can be and
what it has written there (`CallsInv`), with one writer to the row at a time, which the
unique address and FOR UPDATE give; that enrollments have different lock values, that
one which has not tried yet does not hold the lock and one about to commit has
released it (`LockInv`); and that there is no code but the newest, which is there with the registration it
was made for, or was used, or has lapsed or lost that registration (`CodeInv`). `FrameOfMove` and `MoveCalls`, `LockMove` and
`CounterMove` reduce a step to the call that takes it. `FaceIsKept` follows from
`TypeOK`, which says that whoever has written a face to the row found none: the lock
in Redis, which may have expired or failed open, is not used in the argument. Nor is the
code in `AccountIsMadeOnce`: that two confirmations of one code make one account comes
from the unique address.

### Only model-checked

Liveness under fairness (`CallsFinish`, `ImportEnds`, `WaitingEnds`,
`DueIsScheduled`, `EndedIsArchived`, `NotesSettle`), which is out of the prover's reach;
what `ImportEnds`, `DueIsScheduled`, `EndedIsArchived` and `NotesSettle` need of single steps
is proved (`ImportIsNotLost`, `MarksAreHandedOver`, `OnePassArchives`, `NoTokenForgotten`);
and `FinalObjectKept` for two approvals, which is false. That
EventLifecycle archives an event in the end is liveness, too; its status keeps its type
by `RetentionTypeCorrect`.

## 5. Findings

Two approvals of one request: the loser's cleanup deletes the winner's objects (run
`review_two_approvers`). Both read the request while it is pending and copy its photos to
the same final keys before they lock a row. One promotes and marks both photos, decides
the request, deletes the staged objects and commits; the other, which has promoted the
first photo and waited to mark it, goes on: its next copy fails because the staged object
is gone, or it was the victim of a deadlock before, or, in a request of one photo, its
UPDATE of the request finds it decided. In each case its cleanup
deletes what it promoted (`upload_requests.py:427`), the only object of a committed photo.

Met on the way; the modules contain each of them, and the properties are stated so
that they hold beside it:

- `resume_direct_group` signs URLs for a key the row does not name
  (`upload_requests.py:927`).
- Two last approvals of a photo that overlap leave it pending until it expires
  (`photo_approval.py:64`).
- The cleaner acknowledges deletions that failed (`storage_cleaner/main.py:89`), and
  fails every one for want of a client (line 119), although `app/core/config.py:43` says
  that photos are cleaned up after the event; the reconciler lacks the client, too
  (`upload_reconciler/main.py:49`), and settles nothing.
- The reconciler marks transfers uploaded and never approves the group that they
  complete (`upload_reconciler/main.py:31`).
- A review that fails after it has deleted the staged objects leaves uploaded photos
  that nobody can approve (`upload_requests.py:1349`).
- The revocation of a session on reuse of its token is rolled back by the exception
  that reports it (`users.py:423`), and so is the revocation of a Drive connection
  whose grant is invalid (`staff_drive.py:184`).
- A block is undone by an overlapping profile edit (`users.py:623`).
- A renewal of the token brings back a connection disconnected meanwhile
  (`staff_drive.py:198`).
- An import whose event is delivered before its group is committed is lost
  (`upload_requests.py:676`).

## 6. Plan

Done, in this order, the most important behaviour first: ReviewDecisions,
UploadReview and its proofs, DirectUpload, AutoApprove, GroupImport,
PhotoConsent, PhotoRetention with EventLifecycle, MobileSessions, StaffDrive with
EventFolder and its proofs, NotificationDelivery, Accounts and its proofs; then the
proofs of all the others.

What is left to model is small: which subjects have a stream after publishers and
subscribers of all processes have started in any order (`infra/nats.py`, where
`ensure_stream` makes a stream with the first subject asked for); the expiry times of
sessions; the joins of events; the notifications' token bucket; avatars.

The proofs cover every invariant and action property of the runs, and most of what these
exclude by their premises. What is left is how many sessions an eviction that passed over
locked rows may leave over, for which the model would have to count them.

## 7. Not modelled

Listings and reports, which only read; handlers of one statement, whose atomicity
is the database's (joining and leaving events, staff accounts, notifications read);
avatars, among them the branch of `upload_avatar` that deletes the object the old
row names; the multipart upload that creates a request at once; the code that the
development settings accept instead of the one mailed; counters by address of the
caller, which work like those of Accounts; the rows of jobs; the creation of
streams; priorities, throttling and pauses of the notification worker; validation,
formats and limits on sizes; face embeddings and distances, which are numeric code
of libraries; cryptography; the contents of objects and messages; the connection
pool; and the components marked so above. Timestamps are replaced by the event that
a limit has passed (stale, overdue, over, lapsed, old), which may happen at any time,
but for the folder lock of StaffDrive, whose ticks are counted.
