-------------------------- MODULE NotificationDelivery --------------------------
(***************************************************************************)
(* Push notifications of one user.  UserNotificationService resolves the   *)
(* push tokens of the user's devices and puts an entry on a JetStream      *)
(* stream; the worker of app/worker/notification sends it by FCM, keeps    *)
(* the tokens FCM refuses in a set in Redis, flags their devices in the    *)
(* database, and puts what failed on the stream again, MaxAttempts at      *)
(* most.  Meanwhile the devices of the user are registered, inactivated    *)
(* and revoked.                                                            *)
(*                                                                         *)
(* An entry is delivered at least once: the handler acknowledges it when   *)
(* it returns and sends it back when it raises, and the broker delivers it *)
(* again when the acknowledgement is late or lost.                         *)
(***************************************************************************)
EXTENDS Naturals, Sequences, FiniteSets, FiniteSetsExt

CONSTANTS
  Devices,
  Concurrency,  \* CONCURRENCY: entries handled at once
  MaxAttempts,  \* MAX_SEND_ATTEMPTS
  MaxNotes,     \* bound: notifications
  MaxTokens,    \* bound: tokens that FCM gives out
  MaxFaults,    \* bound: failures of Redis, database, broker and worker
  None

ASSUME NotificationAssumption ==
  Concurrency \in Nat \ {0} /\ MaxAttempts \in Nat \ {0} /\ MaxNotes \in Nat /\ MaxTokens \in Nat /\ MaxFaults \in Nat /\ None \notin Nat

Handlers == 1..Concurrency
Notes == 1..MaxNotes
Tokens == 1..MaxTokens
Rows == [token : Tokens \cup {None}, active : BOOLEAN, invalid : BOOLEAN]
Entries == [note : Notes, tokens : SUBSET Tokens, attempts : 0..MaxAttempts - 1]
NoEntry == [note |-> None, tokens |-> {}, attempts |-> 0]

VARIABLES
  row,            \* the row of each device; None when the device is not known
  minted,         \* tokens given out by FCM
  marked,         \* INVALID_TOKEN_SET_KEY in Redis
  stage,          \* of each notification: new, resolved, sent or silent
  resolved,       \* the tokens found for it
  queue,          \* the stream
  served,         \* how often FCM accepted a notification for a token, 2 for more
  again,          \* notifications delivered again
  faults
VARIABLES         \* of each handler
  pc, entry,
  bad, failed     \* tokens that FCM refused and tokens to try again

devices == <<row, minted>>
notes == <<stage, resolved>>
call == <<pc, entry, bad, failed>>
vars == <<devices, notes, served, marked, queue, again, faults, call>>

NewRow == [token |-> None, active |-> TRUE, invalid |-> FALSE]

Init ==
  /\ row = [d \in Devices |-> None]
  /\ minted = {} /\ marked = {}
  /\ stage = [n \in Notes |-> "new"] /\ resolved = [n \in Notes |-> {}]
  /\ queue = <<>>
  /\ served = [n \in Notes |-> [t \in Tokens |-> 0]]
  /\ again = {} /\ faults = 0
  /\ pc = [h \in Handlers |-> "idle"] /\ entry = [h \in Handlers |-> NoEntry]
  /\ bad = [h \in Handlers |-> {}] /\ failed = [h \in Handlers |-> {}]

(***************************************************************************)
(* Devices: _ensure_device_for_login and DeviceService.                    *)
(***************************************************************************)
Known(d) == row[d] # None
SetRow(d, r) == row' = [row EXCEPT ![d] = r]
OnlyRows == UNCHANGED <<minted, notes, served, marked, queue, again, faults, call>>

\* A login makes the row of the device, or reads it and activates it with another
\* statement.  One that finds the token invalid is refused; one that has read the
\* row before it was flagged activates it all the same.
Login(d) ==
  /\ \/ ~Known(d) /\ SetRow(d, NewRow)
     \/ Known(d) /\ ~row[d].active /\ SetRow(d, [row[d] EXCEPT !.active = TRUE])
  /\ OnlyRows

\* Mutant: the flag of the old token stays.
Rewritten(r, t) == [r EXCEPT !.token = t, !.active = TRUE]
Registered(r, t) == [token |-> t, active |-> TRUE, invalid |-> FALSE]

\* update_device_push_token, refused by the unique index on the token when
\* another device has it: a token new from FCM, or one of before.
UpdateToken(d) ==
  /\ Known(d)
  /\ \E t \in Tokens :
       /\ t <= Cardinality(minted) + 1
       /\ \A e \in Devices \ {d} : Known(e) => row[e].token # t
       /\ minted' = minted \cup {t}
       /\ SetRow(d, Registered(row[d], t))
  /\ UNCHANGED <<notes, served, marked, queue, again, faults, call>>

Inactivate(d) == Known(d) /\ row[d].active /\ SetRow(d, [row[d] EXCEPT !.active = FALSE]) /\ OnlyRows
Revoke(d) == Known(d) /\ SetRow(d, None) /\ OnlyRows

(***************************************************************************)
(* create_notification: the tokens are read, then the entry is published.  *)
(***************************************************************************)
Reachable(r) == r.active /\ ~r.invalid /\ r.token # None
TokensOfUser == {row[d].token : d \in {e \in Devices : Known(e) /\ Reachable(row[e])}}

ResolveTokens(n) ==
  /\ stage[n] = "new"
  /\ stage' = [stage EXCEPT ![n] = IF TokensOfUser = {} THEN "silent" ELSE "resolved"]
  /\ resolved' = [resolved EXCEPT ![n] = TokensOfUser]
  /\ UNCHANGED <<devices, served, marked, queue, again, faults, call>>

EntryOf(n, ts, a) == [note |-> n, tokens |-> ts, attempts |-> a]
Fault == faults < MaxFaults /\ faults' = faults + 1

Enqueue(n) ==
  /\ stage[n] = "resolved"
  /\ \/ /\ queue' = Append(queue, EntryOf(n, resolved[n], 0))
        /\ stage' = [stage EXCEPT ![n] = "sent"]
        /\ UNCHANGED faults
     \/ Fault /\ stage' = [stage EXCEPT ![n] = "silent"] /\ UNCHANGED queue
  /\ resolved' = [resolved EXCEPT ![n] = {}]
  /\ UNCHANGED <<devices, served, marked, again, call>>

(***************************************************************************)
(* The worker.                                                             *)
(***************************************************************************)
Take(h, e, label) ==
  /\ pc' = [pc EXCEPT ![h] = label]
  /\ entry' = [entry EXCEPT ![h] = e]
  /\ bad' = [bad EXCEPT ![h] = {}] /\ failed' = [failed EXCEPT ![h] = {}]

Ack(h) == Take(h, NoEntry, "idle")

\* The handler raises, or its worker dies: the entry is delivered again.
Nak(h) ==
  /\ Fault
  /\ queue' = Append(queue, entry[h])
  /\ again' = again \cup {entry[h].note}
  /\ Ack(h)
  /\ UNCHANGED <<devices, notes, served, marked>>

\* Handlers are alike: the first that is idle takes the next entry.
IsNext(h) == pc[h] = "idle" /\ \A g \in 1..h - 1 : pc[g] # "idle"

Deliver(h) ==
  /\ IsNext(h) /\ queue # <<>>
  /\ queue' = Tail(queue)
  /\ Take(h, Head(queue), "filter")
  /\ UNCHANGED <<devices, notes, served, marked, again, faults>>

\* The entry is still handled when the broker stops waiting for its acknowledgement.
Redeliver(g, h) ==
  /\ pc[g] # "idle" /\ IsNext(h)
  /\ Fault
  /\ again' = again \cup {entry[g].note}
  /\ Take(h, entry[g], "filter")
  /\ UNCHANGED <<devices, notes, served, marked, queue>>

Goto(h, label) == pc' = [pc EXCEPT ![h] = label]

\* is_invalid of each token; when none is valid the handler returns.
Filter(h) ==
  /\ pc[h] = "filter"
  /\ LET valid == entry[h].tokens \ marked
     IN \/ valid = {} /\ Ack(h)
        \/ valid # {} /\ Goto(h, "send") /\ bad' = [bad EXCEPT ![h] = valid] /\ UNCHANGED <<entry, failed>>
  /\ UNCHANGED <<devices, notes, served, marked, queue, again, faults>>

Count(n, ts) == [served EXCEPT ![n] = [t \in Tokens |-> IF t \in ts THEN Min({@[t] + 1, 2}) ELSE @[t]]]

\* send_notification: FCM refuses the tokens it does not know, and all of them when
\* it takes the message for invalid; of the others some fail.
Send(h) ==
  /\ pc[h] = "send"
  /\ \E no \in SUBSET bad[h] : \E late \in SUBSET (bad[h] \ no) :
       /\ served' = Count(entry[h].note, bad[h] \ (no \cup late))
       /\ IF no \cup late = {} THEN Ack(h)
          ELSE /\ bad' = [bad EXCEPT ![h] = no] /\ failed' = [failed EXCEPT ![h] = late]
               /\ Goto(h, IF no = {} THEN "retry" ELSE "mark")
               /\ UNCHANGED entry
  /\ UNCHANGED <<devices, notes, marked, queue, again, faults>>

\* Redis or FCM fails as a whole: the entry is tried again with all its tokens,
\* though FCM may have served them.
Break(h) ==
  /\ pc[h] \in {"filter", "send"}
  /\ Fault
  /\ \/ UNCHANGED <<served, again>>
     \/ /\ pc[h] = "send"
        /\ served' = Count(entry[h].note, bad[h])
        /\ again' = again \cup {entry[h].note}
  /\ Goto(h, "retry")
  /\ bad' = [bad EXCEPT ![h] = {}] /\ failed' = [failed EXCEPT ![h] = entry[h].tokens]
  /\ UNCHANGED <<devices, notes, marked, queue, entry>>

\* InvalidTokenStore.mark_invalid
MarkInvalid(h) ==
  /\ pc[h] = "mark"
  /\ marked' = marked \cup bad[h]
  /\ Goto(h, "flag")
  /\ UNCHANGED <<devices, notes, served, queue, again, faults, entry, bad, failed>>

Flagged(r) == [r EXCEPT !.invalid = TRUE, !.active = FALSE]

HasToken(d, t) == Known(d) /\ row[d].token = t

\* DeviceInvalidationStore.mark_invalid: a transaction per token, and a failing one
\* is passed over.
FlagDevice(h) ==
  /\ pc[h] = "flag"
  /\ \/ /\ bad[h] = {}
        /\ IF failed[h] = {} THEN Ack(h) ELSE Goto(h, "retry") /\ UNCHANGED <<entry, bad, failed>>
        /\ UNCHANGED <<row, faults>>
     \/ /\ bad[h] # {}
        /\ LET t == Min(bad[h])
           IN /\ bad' = [bad EXCEPT ![h] = @ \ {t}]
              /\ \/ /\ row' = [d \in Devices |-> IF HasToken(d, t) THEN Flagged(row[d]) ELSE row[d]]
                    /\ UNCHANGED faults
                 \/ Fault /\ UNCHANGED row
        /\ UNCHANGED <<pc, entry, failed>>
  /\ UNCHANGED <<minted, notes, served, marked, queue, again>>

\* Mutant: the entry is enqueued with the attempts it had.
Restarted(h) == entry[h].attempts
Attempt(h) == entry[h].attempts + 1

\* Mutant: one attempt more.
GivesUpLate(h) == Attempt(h) > MaxAttempts
GivesUp(h) == Attempt(h) >= MaxAttempts

\* Mutant: every token of the entry is sent again.
WholeEntry(h) == entry[h].tokens
ToRetry(h) == failed[h]

\* retry: it sleeps and then publishes, inside the handler.
Retry(h) ==
  /\ pc[h] = "retry"
  /\ queue' = IF GivesUp(h) THEN queue
              ELSE Append(queue, EntryOf(entry[h].note, ToRetry(h), Attempt(h)))
  /\ Ack(h)
  /\ UNCHANGED <<devices, notes, served, marked, again, faults>>

Fail(h) == pc[h] \in {"filter", "send", "mark", "flag", "retry"} /\ Nak(h)

Handle(h) == Deliver(h) \/ Filter(h) \/ Send(h) \/ MarkInvalid(h) \/ FlagDevice(h) \/ Retry(h)

Next ==
  \/ \E d \in Devices : Login(d) \/ UpdateToken(d) \/ Inactivate(d) \/ Revoke(d)
  \/ \E n \in Notes : ResolveTokens(n) \/ Enqueue(n)
  \/ \E h \in Handlers : Handle(h) \/ Break(h) \/ Fail(h) \/ (\E g \in Handlers : Redeliver(g, h))

Spec == Init /\ [][Next]_vars

\* The worker runs.
FairSpec == Spec /\ \A h \in Handlers : WF_vars(Handle(h))

(***************************************************************************)
(* Properties.                                                             *)
(***************************************************************************)
TypeOK ==
  /\ row \in [Devices -> Rows \cup {None}]
  /\ minted \subseteq Tokens /\ marked \subseteq minted
  /\ stage \in [Notes -> {"new", "resolved", "sent", "silent"}]
  /\ resolved \in [Notes -> SUBSET minted]
  /\ \A i \in 1..Len(queue) : queue[i] \in Entries /\ queue[i].tokens # {}
  /\ served \in [Notes -> [Tokens -> 0..2]]
  /\ again \subseteq Notes /\ faults \in 0..MaxFaults
  /\ pc \in [Handlers -> {"idle", "filter", "send", "mark", "flag", "retry"}]
  /\ \A h \in Handlers : pc[h] # "idle" => entry[h] \in Entries
  /\ bad \in [Handlers -> SUBSET minted] /\ failed \in [Handlers -> SUBSET minted]

\* A device is flagged for a refusal of the token it has, never of one it had: a registration
\* of a new token while the old one is being refused is not undone
\* (mark_device_token_invalid, update_device_push_token).
LiveTokenKept == \A d \in Devices : Known(d) /\ row[d].invalid => row[d].token \in marked

\* A notification that is not delivered again by the broker reaches a token once,
\* however many of its other tokens fail and are tried again (process_entry, retry).  A
\* send that raises after FCM has accepted it counts as a second delivery.
ServedOnce == \A n \in Notes \ again : \A t \in Tokens : served[n][t] <= 1

\* Every entry on the stream is settled in the end: served, refused, or dropped
\* after the last attempt (retry).
Open(n) == \/ \E i \in 1..Len(queue) : queue[i].note = n
           \/ \E h \in Handlers : pc[h] # "idle" /\ entry[h].note = n
NotesSettle == \A n \in Notes : stage[n] = "sent" ~> ~Open(n)
=============================================================================
