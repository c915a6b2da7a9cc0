----------------------- MODULE NotificationDeliveryProofs -----------------------
(***************************************************************************)
(* Proofs about NotificationDelivery, for any set of devices, any number   *)
(* of handlers and attempts, and any bounds.                               *)
(***************************************************************************)
EXTENDS NotificationDelivery, WellFoundedInduction, TLAPS

Labels == {"idle", "filter", "send", "mark", "flag", "retry"}
Busy(h) == pc[h] # "idle"

\* Every entry is for some token that FCM has given out.
GoodEntries == {e \in Entries : e.tokens \subseteq minted /\ e.tokens # {}}

\* The tokens that are about, wherever they are kept, are tokens that FCM gave out.
Typed ==
  /\ row \in [Devices -> Rows \cup {None}]
  /\ \A d \in Devices : Known(d) => row[d].token \in minted \cup {None}
  /\ minted \subseteq Tokens /\ marked \subseteq minted
  /\ stage \in [Notes -> {"new", "resolved", "sent", "silent"}]
  /\ resolved \in [Notes -> SUBSET minted]
  /\ \A n \in Notes : stage[n] = "resolved" => resolved[n] # {}
  /\ queue \in Seq(GoodEntries)
  /\ served \in [Notes -> [Tokens -> 0..2]]
  /\ again \subseteq Notes /\ faults \in 0..MaxFaults
  /\ pc \in [Handlers -> Labels]
  /\ entry \in [Handlers -> GoodEntries \cup {NoEntry}]
  /\ bad \in [Handlers -> SUBSET minted] /\ failed \in [Handlers -> SUBSET minted]

\* The entry a handler works on is one of the stream; it sends to tokens of that entry,
\* flags what it has marked, and tries again only if something is left to try.
HandlerInv ==
  \A h \in Handlers :
    /\ Busy(h) => entry[h] \in GoodEntries
    /\ pc[h] = "send" => bad[h] \subseteq entry[h].tokens
    /\ pc[h] = "flag" => bad[h] \subseteq marked
    /\ pc[h] = "retry" => failed[h] # {}

\* A notification that is not delivered again has one entry, on the stream or at a
\* handler, and none before it is sent; and FCM has not yet served the tokens that
\* this entry may still be sent to.
Waiting(h) == IF pc[h] \in {"filter", "send"} THEN entry[h].tokens ELSE failed[h]
OneEntry(n) ==
  /\ \A i, j \in 1..Len(queue) : queue[i].note = n /\ queue[j].note = n => i = j
  /\ \A i \in 1..Len(queue), h \in Handlers : queue[i].note = n /\ Busy(h) => entry[h].note # n
  /\ \A g, h \in Handlers : Busy(g) /\ Busy(h) /\ entry[g].note = n /\ entry[h].note = n => g = h
Unsent(n) ==
  stage[n] # "sent" =>
    /\ \A i \in 1..Len(queue) : queue[i].note # n
    /\ \A h \in Handlers : Busy(h) => entry[h].note # n
    /\ \A t \in Tokens : served[n][t] = 0
Unserved(n) ==
  /\ \A i \in 1..Len(queue) : queue[i].note = n => \A t \in queue[i].tokens : served[n][t] = 0
  /\ \A h \in Handlers : Busy(h) /\ entry[h].note = n => \A t \in Waiting(h) : served[n][t] = 0
  /\ \A t \in Tokens : served[n][t] <= 1
EntryOk(n) == OneEntry(n) /\ Unsent(n) /\ Unserved(n)
EntryInv == \A n \in Notes \ again : EntryOk(n)

DeliveryInv == Typed /\ HandlerInv /\ LiveTokenKept /\ EntryInv

USE DEF vars, devices, notes, call

-----------------------------------------------------------------------------
(*****************************************************************************)
(* Operators.                                                               *)
(*****************************************************************************)
\* Min of a set of naturals that is not empty is its least member.
LEMMA MinOfSet ==
  ASSUME NEW S \in SUBSET Nat, S # {}
  PROVE  Min(S) \in S /\ \A y \in S : Min(S) =< y
<1>1. PICK x \in S : \A y \in S : ~ (<<y, x>> \in OpToRel(<, Nat))
  BY WFMin, NatLessThanWellFounded, Zenon
<1>2. \A y \in S : x =< y
  <2> SUFFICES ASSUME NEW y \in S, ~ (x =< y) PROVE FALSE
    OBVIOUS
  <2>1. <<y, x>> \in OpToRel(<, Nat)
    BY DEF OpToRel
  <2>2. QED BY <1>1, <2>1, Zenon
<1>3. QED BY <1>2 DEF Min

\* What FCM has accepted is counted up to two.
LEMMA CountUp ==
  ASSUME NEW k \in 0..2
  PROVE  Min({k + 1, 2}) \in 0..2 /\ (k = 0 => Min({k + 1, 2}) = 1)
<1>1. Min({k + 1, 2}) \in {k + 1, 2} /\ \A y \in {k + 1, 2} : Min({k + 1, 2}) =< y
  BY MinOfSet
<1>2. QED BY <1>1

\* An acceptance counts for the tokens it is about, and leaves the others alone.
LEMMA CountType ==
  ASSUME served \in [Notes -> [Tokens -> 0..2]], NEW n \in Notes, NEW ts
  PROVE  /\ Count(n, ts) \in [Notes -> [Tokens -> 0..2]]
         /\ \A m \in Notes, t \in Tokens : m # n \/ t \notin ts => Count(n, ts)[m][t] = served[m][t]
         /\ \A t \in ts \cap Tokens : served[n][t] = 0 => Count(n, ts)[n][t] = 1
<1>1. [t \in Tokens |-> IF t \in ts THEN Min({served[n][t] + 1, 2}) ELSE served[n][t]] \in [Tokens -> 0..2]
  BY CountUp
<1>2. QED BY <1>1, CountUp DEF Count

-----------------------------------------------------------------------------
(*****************************************************************************)
(* Typing.                                                                  *)
(*****************************************************************************)
\* Entries stay as good as the tokens they name.
LEMMA EntriesKept == minted \subseteq minted' => GoodEntries \subseteq GoodEntries'
  BY DEF GoodEntries

\* A row stays a row however it is written.
LEMMA RowType ==
  /\ NewRow \in Rows /\ NewRow.token = None /\ ~NewRow.invalid
  /\ \A r \in Rows :
       /\ [r EXCEPT !.active = TRUE] \in Rows /\ [r EXCEPT !.active = TRUE].token = r.token
       /\ [r EXCEPT !.active = TRUE].invalid = r.invalid
       /\ [r EXCEPT !.active = FALSE] \in Rows /\ [r EXCEPT !.active = FALSE].token = r.token
       /\ Flagged(r) \in Rows /\ Flagged(r).token = r.token
  BY DEF Rows, NewRow, Flagged

\* A registration has the token that is registered.
LEMMA RegisteredType ==
  ASSUME NEW r, NEW t \in Tokens
  PROVE  Registered(r, t) \in Rows /\ Registered(r, t).token = t
  BY DEF Rows, Registered

\* A row that is written is well typed.
LEMMA SetRowType ==
  ASSUME Typed, NEW d \in Devices, NEW r \in Rows \cup {None}, SetRow(d, r),
         minted \subseteq minted', r # None => r.token \in minted' \cup {None}
  PROVE  row' \in [Devices -> Rows \cup {None}] /\ \A e \in Devices : Known(e)' => row'[e].token \in minted' \cup {None}
  BY DEF Typed, SetRow, Known

\* A handler that takes an entry, or lays it down, is well typed.
LEMMA TakeType ==
  ASSUME Typed, NEW h \in Handlers, NEW e \in GoodEntries \cup {NoEntry}, NEW l \in Labels,
        Take(h, e, l)
  PROVE  /\ pc' \in [Handlers -> Labels] /\ entry' \in [Handlers -> GoodEntries \cup {NoEntry}]
         /\ bad' \in [Handlers -> SUBSET minted] /\ failed' \in [Handlers -> SUBSET minted]
  BY DEF Typed, Take

\* The entry of a busy handler is one of the stream.
LEMMA EntryFacts ==
  ASSUME DeliveryInv, NEW h \in Handlers, Busy(h)
  PROVE  /\ entry[h] \in GoodEntries /\ entry[h] \in Entries
         /\ entry[h].note \in Notes /\ entry[h].tokens \subseteq minted /\ entry[h].tokens # {}
         /\ entry[h].attempts \in Nat
  BY NotificationAssumption DEF DeliveryInv, HandlerInv, GoodEntries, Entries

\* Every variable keeps its type.
LEMMA TypeStep == DeliveryInv /\ [Next]_vars => Typed'
<1> SUFFICES ASSUME DeliveryInv, [Next]_vars PROVE Typed'
  OBVIOUS
<1> USE NotificationAssumption, EntriesKept DEF DeliveryInv, Typed, Known, Labels
<1>1. ASSUME NEW d \in Devices, Login(d) PROVE Typed'
  <2>1. PICK r \in Rows : SetRow(d, r) /\ r.token \in minted \cup {None}
    <3>1. CASE ~Known(d) /\ SetRow(d, NewRow)
      BY <3>1, RowType
    <3>2. CASE Known(d) /\ SetRow(d, [row[d] EXCEPT !.active = TRUE])
      <4>1. row[d] \in Rows
        BY <3>2
      <4>2. [row[d] EXCEPT !.active = TRUE] \in Rows /\ [row[d] EXCEPT !.active = TRUE].token = row[d].token
        BY <4>1, RowType
      <4>3. row[d].token \in minted \cup {None}
        BY <3>2
      <4>4. QED BY <3>2, <4>2, <4>3
    <3>3. QED BY <1>1, <3>1, <3>2 DEF Login
  <2>2. minted' = minted
    BY <1>1 DEF Login, OnlyRows
  <2>3. row' \in [Devices -> Rows \cup {None}] /\ \A e \in Devices : Known(e)' => row'[e].token \in minted' \cup {None}
    BY <2>1, <2>2, SetRowType
  <2>4. QED BY <1>1, <2>3 DEF Login, OnlyRows
<1>2. ASSUME NEW d \in Devices, UpdateToken(d) PROVE Typed'
  <2>1. PICK t \in Tokens : minted' = minted \cup {t} /\ SetRow(d, Registered(row[d], t))
    BY <1>2 DEF UpdateToken
  <2>2. Registered(row[d], t) \in Rows /\ Registered(row[d], t).token = t
    BY <2>1, RegisteredType
  <2>3. row' \in [Devices -> Rows \cup {None}] /\ \A e \in Devices : Known(e)' => row'[e].token \in minted' \cup {None}
    BY <2>1, <2>2, SetRowType
  <2>4. GoodEntries \subseteq GoodEntries' /\ minted \subseteq minted' /\ minted' \subseteq Tokens
    BY <2>1, EntriesKept
  <2>5. queue' \in Seq(GoodEntries')
    BY <1>2, <2>4 DEF UpdateToken
  <2>6. entry' \in [Handlers -> GoodEntries' \cup {NoEntry}] /\ marked' \subseteq minted'
        /\ resolved' \in [Notes -> SUBSET minted']
        /\ bad' \in [Handlers -> SUBSET minted'] /\ failed' \in [Handlers -> SUBSET minted']
    BY <1>2, <2>4 DEF UpdateToken
  <2>7. QED BY <1>2, <2>3, <2>4, <2>5, <2>6 DEF UpdateToken
<1>3. ASSUME NEW d \in Devices, Inactivate(d) PROVE Typed'
  <2>1. [row[d] EXCEPT !.active = FALSE] \in Rows /\ [row[d] EXCEPT !.active = FALSE].token = row[d].token
    <3>1. row[d] \in Rows
      BY <1>3 DEF Inactivate
    <3>2. QED BY <3>1, RowType
  <2>2. row' \in [Devices -> Rows \cup {None}] /\ \A e \in Devices : Known(e)' => row'[e].token \in minted' \cup {None}
    BY <1>3, <2>1, SetRowType DEF Inactivate, OnlyRows
  <2>3. QED BY <1>3, <2>2 DEF Inactivate, OnlyRows
<1>4. ASSUME NEW d \in Devices, Revoke(d) PROVE Typed'
  BY <1>4 DEF Revoke, OnlyRows, SetRow, Known
<1>5. ASSUME NEW n \in Notes, ResolveTokens(n) PROVE Typed'
  <2>1. TokensOfUser \subseteq minted
    BY DEF TokensOfUser, Reachable
  <2>2. QED BY <1>5, <2>1 DEF ResolveTokens
<1>6. ASSUME NEW n \in Notes, Enqueue(n) PROVE Typed'
  <2>1. EntryOf(n, resolved[n], 0) \in GoodEntries
    BY <1>6 DEF Enqueue, EntryOf, GoodEntries, Entries
  <2>2. queue' \in Seq(GoodEntries) /\ faults' \in 0..MaxFaults
    <3>1. CASE queue' = Append(queue, EntryOf(n, resolved[n], 0)) /\ UNCHANGED faults
      BY <2>1, <3>1
    <3>2. CASE Fault /\ UNCHANGED queue
      BY <3>2 DEF Fault
    <3>3. QED BY <1>6, <3>1, <3>2 DEF Enqueue
  <2>3. stage' \in [Notes -> {"new", "resolved", "sent", "silent"}]
        /\ \A m \in Notes : stage'[m] = "resolved" => m # n /\ stage[m] = "resolved"
    BY <1>6 DEF Enqueue
  <2>4. QED BY <1>6, <2>2, <2>3 DEF Enqueue
<1>7. ASSUME NEW h \in Handlers, Deliver(h) PROVE Typed'
  <2>1. Head(queue) \in GoodEntries /\ Tail(queue) \in Seq(GoodEntries)
    BY <1>7 DEF Deliver
  <2>2. pc' \in [Handlers -> Labels] /\ entry' \in [Handlers -> GoodEntries \cup {NoEntry}]
        /\ bad' \in [Handlers -> SUBSET minted] /\ failed' \in [Handlers -> SUBSET minted]
    BY <1>7, <2>1, TakeType DEF Deliver, Labels
  <2>3. QED BY <1>7, <2>1, <2>2 DEF Deliver
<1>8. ASSUME NEW h \in Handlers, Filter(h) PROVE Typed'
  <2>1. Busy(h) /\ entry[h].tokens \subseteq minted
    BY <1>8, EntryFacts DEF Busy, Filter
  <2>2. pc' \in [Handlers -> Labels] /\ entry' \in [Handlers -> GoodEntries \cup {NoEntry}]
        /\ bad' \in [Handlers -> SUBSET minted] /\ failed' \in [Handlers -> SUBSET minted]
    <3>1. CASE Ack(h)
      BY <3>1, TakeType DEF Ack, Labels
    <3>2. CASE ~Ack(h)
      <4>1. pc' = [pc EXCEPT ![h] = "send"] /\ bad' = [bad EXCEPT ![h] = entry[h].tokens \ marked]
            /\ UNCHANGED <<entry, failed>>
        BY <1>8, <3>2 DEF Filter, Goto
      <4>2. pc' \in [Handlers -> Labels]
        BY <4>1 DEF Labels
      <4>3. bad' \in [Handlers -> SUBSET minted]
        BY <2>1, <4>1
      <4>4. QED BY <4>1, <4>2, <4>3
    <3>3. QED BY <3>1, <3>2
  <2>3. QED BY <1>8, <2>2 DEF Filter
<1>9. ASSUME NEW h \in Handlers, Send(h) PROVE Typed'
  <2>1. PICK no \in SUBSET bad[h] : \E late \in SUBSET (bad[h] \ no) :
          /\ served' = Count(entry[h].note, bad[h] \ (no \cup late))
          /\ IF no \cup late = {} THEN Ack(h)
             ELSE /\ bad' = [bad EXCEPT ![h] = no] /\ failed' = [failed EXCEPT ![h] = late]
                  /\ Goto(h, IF no = {} THEN "retry" ELSE "mark")
                  /\ UNCHANGED entry
    BY <1>9 DEF Send
  <2>2. PICK late \in SUBSET (bad[h] \ no) :
          /\ served' = Count(entry[h].note, bad[h] \ (no \cup late))
          /\ IF no \cup late = {} THEN Ack(h)
             ELSE /\ bad' = [bad EXCEPT ![h] = no] /\ failed' = [failed EXCEPT ![h] = late]
                  /\ Goto(h, IF no = {} THEN "retry" ELSE "mark")
                  /\ UNCHANGED entry
    BY <2>1
  <2>3. served' \in [Notes -> [Tokens -> 0..2]]
    BY <1>9, <2>2, EntryFacts, CountType DEF Send, Busy
  <2>4. pc' \in [Handlers -> Labels] /\ entry' \in [Handlers -> GoodEntries \cup {NoEntry}]
        /\ bad' \in [Handlers -> SUBSET minted] /\ failed' \in [Handlers -> SUBSET minted]
    <3>1. CASE no \cup late = {}
      BY <2>2, <3>1, TakeType DEF Ack, Labels
    <3>2. CASE ~(no \cup late = {})
      <4>1. no \subseteq minted /\ late \subseteq minted
        OBVIOUS
      <4>2. /\ bad' = [bad EXCEPT ![h] = no] /\ failed' = [failed EXCEPT ![h] = late]
            /\ Goto(h, IF no = {} THEN "retry" ELSE "mark") /\ UNCHANGED entry
        BY <2>2, <3>2
      <4>3. pc' \in [Handlers -> Labels] /\ UNCHANGED entry
        BY <4>2 DEF Goto, Labels
      <4>4. bad' \in [Handlers -> SUBSET minted] /\ failed' \in [Handlers -> SUBSET minted]
        BY <4>1, <4>2
      <4>5. QED BY <4>3, <4>4
    <3>3. QED BY <3>1, <3>2
  <2>5. UNCHANGED <<devices, notes, marked, queue, again, faults>>
    BY <1>9 DEF Send
  <2>6. QED BY <2>3, <2>4, <2>5
<1>10. ASSUME NEW h \in Handlers, MarkInvalid(h) PROVE Typed'
  BY <1>10 DEF MarkInvalid, Goto
<1>11. ASSUME NEW h \in Handlers, FlagDevice(h) PROVE Typed'
  <2>1. pc' \in [Handlers -> Labels] /\ entry' \in [Handlers -> GoodEntries \cup {NoEntry}]
        /\ bad' \in [Handlers -> SUBSET minted] /\ failed' \in [Handlers -> SUBSET minted]
    <3>1. CASE Ack(h)
      BY <3>1, TakeType DEF Ack, Labels
    <3>2. CASE ~Ack(h)
      BY <1>11, <3>2 DEF FlagDevice, Goto
    <3>3. QED BY <3>1, <3>2
  <2>2. row' \in [Devices -> Rows \cup {None}] /\ \A d \in Devices : Known(d)' => row'[d].token \in minted \cup {None}
    <3>1. CASE UNCHANGED row
      BY <3>1
    <3>2. CASE row' = [d \in Devices |-> IF HasToken(d, Min(bad[h])) THEN Flagged(row[d]) ELSE row[d]]
      <4>1. ASSUME NEW d \in Devices
            PROVE  row'[d] \in Rows \cup {None} /\ (row'[d] # None => row'[d].token \in minted \cup {None})
        BY <3>2, RowType DEF HasToken
      <4>2. QED BY <3>2, <4>1
    <3>3. QED BY <1>11, <3>1, <3>2 DEF FlagDevice
  <2>3. faults' \in 0..MaxFaults /\ UNCHANGED <<minted, notes, served, marked, queue, again>>
    BY <1>11 DEF FlagDevice, Fault
  <2>4. QED BY <2>1, <2>2, <2>3
<1>12. ASSUME NEW h \in Handlers, Retry(h) PROVE Typed'
  <2>1. Busy(h) /\ failed[h] # {} /\ failed[h] \subseteq minted /\ entry[h].note \in Notes /\ entry[h].attempts \in Nat
    BY <1>12, EntryFacts DEF Retry, Busy, HandlerInv
  <2>2. ~GivesUp(h) => EntryOf(entry[h].note, ToRetry(h), Attempt(h)) \in GoodEntries
    BY <2>1 DEF GivesUp, Attempt, ToRetry, EntryOf, GoodEntries, Entries
  <2>3. queue' \in Seq(GoodEntries)
    BY <1>12, <2>2 DEF Retry
  <2>4. pc' \in [Handlers -> Labels] /\ entry' \in [Handlers -> GoodEntries \cup {NoEntry}]
        /\ bad' \in [Handlers -> SUBSET minted] /\ failed' \in [Handlers -> SUBSET minted]
    BY <1>12, TakeType DEF Retry, Ack, Labels
  <2>5. QED BY <1>12, <2>3, <2>4 DEF Retry
<1>13. ASSUME NEW h \in Handlers, Break(h) PROVE Typed'
  <2>1. Busy(h) /\ entry[h].tokens \subseteq minted /\ entry[h].note \in Notes
    BY <1>13, EntryFacts DEF Busy, Break
  <2>2. served' \in [Notes -> [Tokens -> 0..2]]
    BY <1>13, <2>1, CountType DEF Break
  <2>3. again' \subseteq Notes
    BY <1>13, <2>1 DEF Break
  <2>4. pc' \in [Handlers -> Labels] /\ bad' \in [Handlers -> SUBSET minted] /\ failed' \in [Handlers -> SUBSET minted]
    BY <1>13, <2>1 DEF Break, Goto
  <2>5. QED BY <1>13, <2>2, <2>3, <2>4 DEF Break, Fault
<1>14. ASSUME NEW h \in Handlers, Fail(h) PROVE Typed'
  <2>1. Busy(h) /\ entry[h] \in GoodEntries /\ entry[h].note \in Notes
    BY <1>14, EntryFacts DEF Busy, Fail
  <2>2. pc' \in [Handlers -> Labels] /\ entry' \in [Handlers -> GoodEntries \cup {NoEntry}]
        /\ bad' \in [Handlers -> SUBSET minted] /\ failed' \in [Handlers -> SUBSET minted]
    BY <1>14, TakeType DEF Fail, Nak, Ack, Labels
  <2>3. QED BY <1>14, <2>1, <2>2 DEF Fail, Nak, Fault
<1>15. ASSUME NEW g \in Handlers, NEW h \in Handlers, Redeliver(g, h) PROVE Typed'
  <2>1. entry[g] \in GoodEntries /\ entry[g].note \in Notes
    BY <1>15, EntryFacts DEF Busy, Redeliver
  <2>2. pc' \in [Handlers -> Labels] /\ entry' \in [Handlers -> GoodEntries \cup {NoEntry}]
        /\ bad' \in [Handlers -> SUBSET minted] /\ failed' \in [Handlers -> SUBSET minted]
    BY <1>15, <2>1, TakeType DEF Redeliver, Labels
  <2>3. QED BY <1>15, <2>1, <2>2 DEF Redeliver, Fault
<1>16. CASE UNCHANGED vars
  BY <1>16
<1> HIDE DEF Typed, DeliveryInv
<1>17. QED BY <1>1, <1>2, <1>3, <1>4, <1>5, <1>6, <1>7, <1>8, <1>9, <1>10, <1>11, <1>12,
      <1>13, <1>14, <1>15, <1>16 DEF Next, Handle


-----------------------------------------------------------------------------
(*****************************************************************************)
(* Handlers.                                                                *)
(*****************************************************************************)
\* A handler that takes a good entry, or lays its own down, is in order.
LEMMA TakeInOrder ==
  ASSUME Typed, HandlerInv, NEW h \in Handlers, NEW e \in GoodEntries \cup {NoEntry},
        NEW l \in {"idle", "filter"},
         Take(h, e, l), l = "filter" => e \in GoodEntries, UNCHANGED <<minted, marked>>
  PROVE  HandlerInv'
  BY DEF Typed, HandlerInv, Busy, Take, GoodEntries

\* Handlers keep to their entries.
LEMMA HandlerStep == DeliveryInv /\ [Next]_vars => HandlerInv'
<1> SUFFICES ASSUME DeliveryInv, [Next]_vars PROVE HandlerInv'
  OBVIOUS
<1> USE EntriesKept DEF DeliveryInv
<1>1. ASSUME NEW d \in Devices, Login(d) PROVE HandlerInv'
  BY <1>1 DEF Login, OnlyRows, SetRow, Known, NewRow, HandlerInv, Typed, Busy, GoodEntries
<1>2. ASSUME NEW d \in Devices, UpdateToken(d) PROVE HandlerInv'
  BY <1>2 DEF UpdateToken, SetRow, Known, Registered, HandlerInv, Typed, Busy, GoodEntries
<1>3. ASSUME NEW d \in Devices, Inactivate(d) PROVE HandlerInv'
  BY <1>3 DEF Inactivate, OnlyRows, SetRow, Known, HandlerInv, Typed, Busy, GoodEntries
<1>4. ASSUME NEW d \in Devices, Revoke(d) PROVE HandlerInv'
  BY <1>4 DEF Revoke, OnlyRows, SetRow, Known, HandlerInv, Typed, Busy, GoodEntries
<1>5. ASSUME NEW n \in Notes, ResolveTokens(n) PROVE HandlerInv'
  BY <1>5 DEF ResolveTokens, HandlerInv, Typed, Busy, GoodEntries
<1>6. ASSUME NEW n \in Notes, Enqueue(n) PROVE HandlerInv'
  BY <1>6 DEF Enqueue, EntryOf, Fault, HandlerInv, Typed, Busy, GoodEntries
<1>7. ASSUME NEW h \in Handlers, Deliver(h) PROVE HandlerInv'
  <2>1. Head(queue) \in GoodEntries
    BY <1>7 DEF Deliver, Typed
  <2>2. QED BY <1>7, <2>1, TakeInOrder DEF Deliver
<1>8. ASSUME NEW h \in Handlers, Filter(h) PROVE HandlerInv'
  <2>1. CASE Ack(h)
    BY <1>8, <2>1, TakeInOrder DEF Filter, Ack
  <2>2. CASE ~Ack(h)
    BY <1>8, <2>2 DEF Filter, Goto, HandlerInv, Typed, Busy, GoodEntries
  <2>3. QED BY <2>1, <2>2
<1>9. ASSUME NEW h \in Handlers, Send(h) PROVE HandlerInv'
  <2>1. CASE Ack(h)
    BY <1>9, <2>1, TakeInOrder DEF Send, Ack
  <2>2. CASE ~Ack(h)
    <3>1. UNCHANGED <<minted, marked, entry>> /\ pc[h] = "send"
      BY <1>9, <2>2 DEF Send
    <3>2. PICK no \in SUBSET bad[h], late \in SUBSET bad[h] :
            /\ failed' = [failed EXCEPT ![h] = late] /\ (no = {} => late # {})
            /\ Goto(h, IF no = {} THEN "retry" ELSE "mark") /\ bad' = [bad EXCEPT ![h] = no]
      BY <1>9, <2>2 DEF Send
    <3>3. QED BY <3>1, <3>2 DEF Goto, HandlerInv, Typed, Busy, GoodEntries
  <2>3. QED BY <2>1, <2>2
<1>10. ASSUME NEW h \in Handlers, MarkInvalid(h) PROVE HandlerInv'
  BY <1>10 DEF MarkInvalid, Goto, HandlerInv, Typed, Busy, GoodEntries
<1>11. ASSUME NEW h \in Handlers, FlagDevice(h) PROVE HandlerInv'
  <2>1. CASE Ack(h)
    BY <1>11, <2>1, TakeInOrder DEF FlagDevice, Ack
  <2>2. CASE ~Ack(h)
    BY SMTT(30), <1>11, <2>2 DEF FlagDevice, Goto, HandlerInv, Typed, Busy, GoodEntries
  <2>3. QED BY <2>1, <2>2
<1>12. ASSUME NEW h \in Handlers, Retry(h) PROVE HandlerInv'
  BY <1>12, TakeInOrder DEF Retry, Ack
<1>13. ASSUME NEW h \in Handlers, Break(h) PROVE HandlerInv'
  <2>1. Busy(h) /\ entry[h].tokens # {}
    BY <1>13, EntryFacts DEF Busy, Break
  <2>2. UNCHANGED <<minted, marked, entry>> /\ pc' = [pc EXCEPT ![h] = "retry"]
        /\ failed' = [failed EXCEPT ![h] = entry[h].tokens] /\ bad' = [bad EXCEPT ![h] = {}]
    BY <1>13 DEF Break, Goto
  <2>3. QED BY <2>1, <2>2 DEF HandlerInv, Typed, Busy, GoodEntries
<1>14. ASSUME NEW h \in Handlers, Fail(h) PROVE HandlerInv'
  BY <1>14, TakeInOrder DEF Fail, Nak, Ack
<1>15. ASSUME NEW g \in Handlers, NEW h \in Handlers, Redeliver(g, h) PROVE HandlerInv'
  <2>1. entry[g] \in GoodEntries
    BY <1>15, EntryFacts DEF Busy, Redeliver
  <2>2. QED BY <1>15, <2>1, TakeInOrder DEF Redeliver
<1>16. CASE UNCHANGED vars
  BY <1>16 DEF HandlerInv, Typed, Busy, GoodEntries
<1>17. QED BY <1>1, <1>2, <1>3, <1>4, <1>5, <1>6, <1>7, <1>8, <1>9, <1>10, <1>11, <1>12,
      <1>13, <1>14, <1>15, <1>16 DEF Next, Handle

\* A device is flagged after its token has been marked, and unflagged with a new one.
LEMMA LiveStep == DeliveryInv /\ [Next]_vars => LiveTokenKept'
<1> SUFFICES ASSUME DeliveryInv, [Next]_vars PROVE LiveTokenKept'
  OBVIOUS
<1> USE NotificationAssumption DEF DeliveryInv, Typed, LiveTokenKept, Known
<1>1. ASSUME NEW d \in Devices, Login(d) PROVE LiveTokenKept'
  <2>1. CASE ~Known(d) /\ SetRow(d, NewRow)
    BY <1>1, <2>1, RowType DEF Login, OnlyRows, SetRow
  <2>2. CASE Known(d) /\ SetRow(d, [row[d] EXCEPT !.active = TRUE])
    <3>1. row[d] \in Rows
      BY <2>2
    <3>2. DEFINE r == [row[d] EXCEPT !.active = TRUE]
    <3>3. r.token = row[d].token /\ r.invalid = row[d].invalid
      BY <3>1, RowType
    <3>4. row' = [row EXCEPT ![d] = r] /\ UNCHANGED marked
      BY <1>1, <2>2 DEF Login, OnlyRows, SetRow
    <3> HIDE DEF r
    <3>5. QED BY <2>2, <3>3, <3>4
  <2>3. QED BY <1>1, <2>1, <2>2 DEF Login
<1>2. ASSUME NEW d \in Devices, UpdateToken(d) PROVE LiveTokenKept'
  BY <1>2 DEF UpdateToken, SetRow, Known, Registered
<1>3. ASSUME NEW d \in Devices, Inactivate(d) PROVE LiveTokenKept'
  BY <1>3 DEF Inactivate, OnlyRows, SetRow, Known
<1>4. ASSUME NEW d \in Devices, Revoke(d) PROVE LiveTokenKept'
  BY <1>4 DEF Revoke, OnlyRows, SetRow, Known
<1>5. ASSUME NEW n \in Notes, ResolveTokens(n) PROVE LiveTokenKept'
  BY <1>5 DEF ResolveTokens
<1>6. ASSUME NEW n \in Notes, Enqueue(n) PROVE LiveTokenKept'
  BY <1>6 DEF Enqueue, EntryOf, Fault
<1>7. ASSUME NEW h \in Handlers, Deliver(h) PROVE LiveTokenKept'
  BY <1>7 DEF Deliver, IsNext, Take
<1>8. ASSUME NEW h \in Handlers, Filter(h) PROVE LiveTokenKept'
  BY <1>8 DEF Filter, Goto, Ack, Take
<1>9. ASSUME NEW h \in Handlers, Send(h) PROVE LiveTokenKept'
  BY <1>9 DEF Send, Goto, Ack, Take
<1>10. ASSUME NEW h \in Handlers, MarkInvalid(h) PROVE LiveTokenKept'
  BY <1>10 DEF MarkInvalid, Goto
<1>11. ASSUME NEW h \in Handlers, FlagDevice(h) PROVE LiveTokenKept'
  <2>1. CASE UNCHANGED row
    BY <1>11, <2>1 DEF FlagDevice
  <2>2. CASE row' # row
    <3>1. pc[h] = "flag" /\ bad[h] # {} /\ marked' = marked
          /\ row' = [d \in Devices |-> IF HasToken(d, Min(bad[h])) THEN Flagged(row[d]) ELSE row[d]]
      BY <1>11, <2>2 DEF FlagDevice
    <3>2. bad[h] \in SUBSET Nat /\ bad[h] \subseteq marked
      <4>1. bad[h] \subseteq Tokens
        BY Zenon
      <4>2. Tokens \subseteq Nat
        BY DEF Tokens
      <4>3. QED BY <3>1, <4>1, <4>2 DEF HandlerInv
    <3>3. Min(bad[h]) \in marked
      BY <3>1, <3>2, MinOfSet
    <3>4. SUFFICES ASSUME NEW d \in Devices, row'[d] # None, row'[d].invalid
                   PROVE  row'[d].token \in marked
      BY <3>1
    <3>5. CASE HasToken(d, Min(bad[h]))
      <4>1. row[d] \in Rows
        BY <3>5 DEF HasToken
      <4>2. row'[d].token = row[d].token
        BY <3>1, <3>5, <4>1, RowType
      <4>3. QED BY <3>3, <3>5, <4>2 DEF HasToken
    <3>6. CASE ~HasToken(d, Min(bad[h]))
      BY <3>1, <3>4, <3>6
    <3>7. QED BY <3>5, <3>6
  <2>3. QED BY <2>1, <2>2
<1>12. ASSUME NEW h \in Handlers, Retry(h) PROVE LiveTokenKept'
  BY <1>12 DEF Retry, GivesUp, Attempt, ToRetry, EntryOf, Ack, Take
<1>13. ASSUME NEW h \in Handlers, Break(h) PROVE LiveTokenKept'
  BY <1>13 DEF Break, Fault, Goto
<1>14. ASSUME NEW h \in Handlers, Fail(h) PROVE LiveTokenKept'
  BY <1>14 DEF Fail, Nak, Fault, Ack, Take
<1>15. ASSUME NEW g \in Handlers, NEW h \in Handlers, Redeliver(g, h) PROVE LiveTokenKept'
  BY <1>15 DEF Redeliver, Fault, IsNext, Take
<1>16. CASE UNCHANGED vars
  BY <1>16
<1> HIDE DEF DeliveryInv, Typed, LiveTokenKept
<1>17. QED BY <1>1, <1>2, <1>3, <1>4, <1>5, <1>6, <1>7, <1>8, <1>9, <1>10, <1>11, <1>12,
      <1>13, <1>14, <1>15, <1>16 DEF Next, Handle


-----------------------------------------------------------------------------
(*****************************************************************************)
(* Entries.                                                                 *)
(*****************************************************************************)
\* A handler that lays its entry down leaves those of the others.
LEMMA AckEntries ==
  ASSUME Typed, NEW n \in Notes, EntryOk(n), NEW h \in Handlers, Ack(h), UNCHANGED <<queue,
        stage, served>>
  PROVE  EntryOk(n)'
  BY DEF Typed, EntryOk, OneEntry, Unsent, Unserved, Busy, Waiting, Ack, Take, Labels

\* One entry of a notification makes way for another that is left of it.
LEMMA EntryStep == DeliveryInv /\ [Next]_vars => EntryInv'
<1> SUFFICES ASSUME DeliveryInv, [Next]_vars PROVE EntryInv'
  OBVIOUS
<1> USE NotificationAssumption DEF DeliveryInv, Typed, EntryInv
<1>1. ASSUME NEW d \in Devices, Login(d) PROVE EntryInv'
  BY <1>1 DEF Login, OnlyRows, SetRow, Known, NewRow, EntryOk, OneEntry, Unsent, Unserved,
     Busy, Waiting
<1>2. ASSUME NEW d \in Devices, UpdateToken(d) PROVE EntryInv'
  BY <1>2 DEF UpdateToken, SetRow, Known, Registered, EntryOk, OneEntry, Unsent, Unserved,
     Busy, Waiting
<1>3. ASSUME NEW d \in Devices, Inactivate(d) PROVE EntryInv'
  BY <1>3 DEF Inactivate, OnlyRows, SetRow, Known, EntryOk, OneEntry, Unsent, Unserved,
     Busy, Waiting
<1>4. ASSUME NEW d \in Devices, Revoke(d) PROVE EntryInv'
  BY <1>4 DEF Revoke, OnlyRows, SetRow, Known, EntryOk, OneEntry, Unsent, Unserved, Busy,
     Waiting
<1>5. ASSUME NEW n \in Notes, ResolveTokens(n) PROVE EntryInv'
  BY <1>5 DEF ResolveTokens, EntryOk, OneEntry, Unsent, Unserved, Busy, Waiting
<1>6. ASSUME NEW n \in Notes, Enqueue(n) PROVE EntryInv'
  <2> SUFFICES ASSUME NEW m \in Notes \ again PROVE EntryOk(m)'
    BY <1>6 DEF Enqueue
  <2>1. EntryOk(m) /\ stage[n] = "resolved" /\ UNCHANGED <<served, call>>
    BY <1>6 DEF Enqueue
  <2>2. CASE Fault /\ stage' = [stage EXCEPT ![n] = "silent"] /\ UNCHANGED queue
    BY <2>1, <2>2 DEF EntryOk, OneEntry, Unsent, Unserved, Busy, Waiting
  <2>3. CASE queue' = Append(queue, EntryOf(n, resolved[n], 0)) /\ stage' = [stage EXCEPT ![n] = "sent"]
    <3>1. /\ queue \in Seq(GoodEntries) /\ Len(queue') = Len(queue) + 1
          /\ \A i \in 1..Len(queue) : queue'[i] = queue[i]
          /\ queue'[Len(queue) + 1] = EntryOf(n, resolved[n], 0)
      BY <2>3
    <3>2. EntryOf(n, resolved[n], 0).note = n /\ EntryOf(n, resolved[n], 0).tokens \subseteq Tokens
      BY DEF EntryOf
    <3>3. \A i \in 1..Len(queue') : i \in 1..Len(queue) \/ i = Len(queue) + 1
      BY <3>1
    <3>4. CASE m = n
      BY <2>1, <2>3, <3>1, <3>2, <3>3, <3>4 DEF EntryOk, OneEntry, Unsent, Unserved, Busy,
         Waiting
    <3>5. CASE m # n
      BY <2>1, <2>3, <3>1, <3>2, <3>3, <3>5 DEF EntryOk, OneEntry, Unsent, Unserved, Busy,
         Waiting
    <3>6. QED BY <3>4, <3>5
  <2>4. QED BY <1>6, <2>2, <2>3 DEF Enqueue
<1>7. ASSUME NEW h \in Handlers, Deliver(h) PROVE EntryInv'
  BY <1>7 DEF Deliver, IsNext, Take, EntryOk, OneEntry, Unsent, Unserved, Busy, Waiting
<1>8. ASSUME NEW h \in Handlers, Filter(h) PROVE EntryInv'
  <2>1. CASE Ack(h)
    BY <1>8, <2>1, AckEntries DEF Filter
  <2>2. CASE ~Ack(h)
    <3>1. pc[h] = "filter" /\ pc' = [pc EXCEPT ![h] = "send"] /\ UNCHANGED <<entry, failed, queue, stage, served, again>>
      BY <1>8, <2>2 DEF Filter, Goto
    <3>2. QED BY <3>1 DEF EntryOk, OneEntry, Unsent, Unserved, Busy, Waiting
  <2>3. QED BY <2>1, <2>2
<1>9. ASSUME NEW h \in Handlers, Send(h) PROVE EntryInv'
  <2> SUFFICES ASSUME NEW m \in Notes \ again PROVE EntryOk(m)'
    BY <1>9 DEF Send
  <2>1. /\ pc[h] = "send" /\ Busy(h) /\ EntryOk(m) /\ UNCHANGED <<queue, stage>>
        /\ bad[h] \subseteq entry[h].tokens /\ entry[h].note \in Notes /\ entry[h].tokens \subseteq Tokens
    BY <1>9, EntryFacts DEF Send, Busy, HandlerInv
  <2>0. PICK no \in SUBSET bad[h] : \E late \in SUBSET (bad[h] \ no) :
          /\ served' = Count(entry[h].note, bad[h] \ (no \cup late))
          /\ IF no \cup late = {} THEN Ack(h)
             ELSE /\ bad' = [bad EXCEPT ![h] = no] /\ failed' = [failed EXCEPT ![h] = late]
                  /\ Goto(h, IF no = {} THEN "retry" ELSE "mark")
                  /\ UNCHANGED entry
    BY <1>9 DEF Send
  <2>2. PICK late \in SUBSET (bad[h] \ no) :
          /\ served' = Count(entry[h].note, bad[h] \ (no \cup late))
          /\ IF no \cup late = {} THEN Ack(h)
             ELSE /\ bad' = [bad EXCEPT ![h] = no] /\ failed' = [failed EXCEPT ![h] = late]
                  /\ Goto(h, IF no = {} THEN "retry" ELSE "mark")
                  /\ UNCHANGED entry
    BY <2>0
  <2>3. DEFINE got == bad[h] \ (no \cup late)
  <2>4. /\ \A t \in Tokens : m # entry[h].note \/ t \notin got => served'[m][t] = served[m][t]
        /\ m = entry[h].note => \A t \in got : served[m][t] = 0 /\ served'[m][t] = 1
    <3>1. m = entry[h].note => \A t \in got : t \in Tokens /\ served[m][t] = 0
      BY <2>1 DEF EntryOk, OneEntry, Unsent, Unserved, Waiting
    <3>2. served' = Count(entry[h].note, got)
      BY <2>2
    <3> HIDE DEF got
    <3>3. QED BY <2>1, <3>1, <3>2, CountType
  <2>5. \A i \in 1..Len(queue) : queue[i].tokens \subseteq Tokens
    BY DEF GoodEntries
  <2>6. \A g \in Handlers : Busy(g) => Waiting(g) \subseteq Tokens
    BY EntryFacts DEF Waiting
  <2>7. \A g \in Handlers :
          /\ Busy(g)' => Busy(g) /\ entry'[g] = entry[g]
          /\ Busy(g)' /\ g # h => Waiting(g)' = Waiting(g)
          /\ Busy(g)' /\ g = h => Waiting(g)' = late
    <3>1. CASE no \cup late = {}
      BY <2>1, <2>2, <3>1 DEF Busy, Waiting, Ack, Take, Labels
    <3>2. CASE ~(no \cup late = {})
      BY <2>1, <2>2, <3>2 DEF Busy, Waiting, Goto, Labels
    <3>3. QED BY <3>1, <3>2
  <2>8. late \cap got = {} /\ late \subseteq entry[h].tokens /\ got \subseteq Tokens
    BY <2>1
  <2> HIDE DEF got
  <2>12. m # entry[h].note => \A t \in Tokens : served'[m][t] = served[m][t]
    BY <2>4
  <2>9. CASE m # entry[h].note
    <3>1. OneEntry(m)'
      BY <2>1, <2>5, <2>6, <2>7, <2>9, <2>12 DEF EntryOk, OneEntry
    <3>2. Unsent(m)'
      BY <2>1, <2>5, <2>6, <2>7, <2>9, <2>12 DEF EntryOk, Unsent
    <3>3. Unserved(m)'
      <4>1. \A g \in Handlers : Busy(g)' /\ entry'[g].note = m => g # h /\ Busy(g) /\ entry[g].note = m /\ Waiting(g)' = Waiting(g)
        BY <2>7, <2>9
      <4>2. \A g \in Handlers : Busy(g)' /\ entry'[g].note = m => \A t \in Waiting(g)' : served'[m][t] = 0
        BY <2>1, <2>6, <2>9, <2>12, <4>1 DEF EntryOk, Unserved
      <4>3. \A i \in 1..Len(queue) : queue[i].note = m => \A t \in queue[i].tokens : served'[m][t] = 0
        BY <2>1, <2>5, <2>9, <2>12 DEF EntryOk, Unserved
      <4>4. \A t \in Tokens : served'[m][t] =< 1
        BY <2>1, <2>9, <2>12 DEF EntryOk, Unserved
      <4>5. QED BY <2>1, <4>2, <4>3, <4>4 DEF Unserved
    <3>4. QED BY <3>1, <3>2, <3>3 DEF EntryOk
  <2>10. CASE m = entry[h].note
    <3>1. /\ \A t \in Tokens : served'[m][t] <= 1
          /\ \A t \in late : served'[m][t] = 0
      BY <2>1, <2>4, <2>8, <2>10 DEF EntryOk, OneEntry, Unsent, Unserved, Waiting
    <3>2. \A i \in 1..Len(queue) : queue[i].note # m
      BY <2>1, <2>10 DEF EntryOk, OneEntry, Unsent, Unserved
    <3>3. stage[m] = "sent"
      BY <2>1, <2>10 DEF EntryOk, OneEntry, Unsent, Unserved
    <3>4. \A g \in Handlers : Busy(g)' /\ entry'[g].note = m => g = h
      BY <2>1, <2>7, <2>10 DEF EntryOk, OneEntry, Unsent, Unserved
    <3>5. QED BY <2>1, <2>7, <3>1, <3>2, <3>3, <3>4 DEF EntryOk, OneEntry, Unsent, Unserved
  <2>11. QED BY <2>9, <2>10
<1>10. ASSUME NEW h \in Handlers, MarkInvalid(h) PROVE EntryInv'
  BY <1>10 DEF MarkInvalid, Goto, EntryOk, OneEntry, Unsent, Unserved, Busy, Waiting
<1>11. ASSUME NEW h \in Handlers, FlagDevice(h) PROVE EntryInv'
  <2>1. CASE Ack(h)
    BY <1>11, <2>1, AckEntries DEF FlagDevice
  <2>2. CASE ~Ack(h)
    <3>1. pc[h] = "flag" /\ pc' \in {pc, [pc EXCEPT ![h] = "retry"]} /\ UNCHANGED <<entry, failed, queue, stage, served, again>>
      BY <1>11, <2>2 DEF FlagDevice, Goto
    <3>2. QED BY <3>1 DEF EntryOk, OneEntry, Unsent, Unserved, Busy, Waiting
  <2>3. QED BY <2>1, <2>2
<1>12. ASSUME NEW h \in Handlers, Retry(h) PROVE EntryInv'
  <2> SUFFICES ASSUME NEW m \in Notes \ again PROVE EntryOk(m)'
    BY <1>12 DEF Retry
  <2>1. EntryOk(m) /\ pc[h] = "retry" /\ Busy(h) /\ Ack(h) /\ UNCHANGED <<stage, served>>
    BY <1>12 DEF Retry, Busy
  <2>2. CASE GivesUp(h)
    BY <1>12, <2>1, <2>2, AckEntries DEF Retry
  <2>3. CASE ~GivesUp(h)
    <3>1. DEFINE e == EntryOf(entry[h].note, failed[h], Attempt(h))
    <3>2. e.note = entry[h].note /\ e.tokens = failed[h] /\ Waiting(h) = failed[h]
      BY <2>1 DEF EntryOf, Waiting
    <3>3. queue' = Append(queue, e)
      BY <1>12, <2>3 DEF Retry, ToRetry
    <3> HIDE DEF e
    <3>4. /\ queue \in Seq(GoodEntries) /\ Len(queue') = Len(queue) + 1
          /\ \A i \in 1..Len(queue) : queue'[i] = queue[i]
          /\ queue'[Len(queue) + 1] = e
      BY <3>3
    <3>5. \A i \in 1..Len(queue') : i \in 1..Len(queue) \/ i = Len(queue) + 1
      BY <3>4
    <3>6. \A g \in Handlers : /\ Busy(g)' => Busy(g) /\ g # h /\ entry'[g] = entry[g] /\ Waiting(g)' = Waiting(g)
      BY <2>1 DEF Busy, Waiting, Ack, Take, Labels
    <3>10. \A i \in 1..Len(queue) : m = entry[h].note => queue[i].note # m
      BY <2>1 DEF EntryOk, OneEntry
    <3>11. \A g \in Handlers : Busy(g)' /\ m = entry[h].note => entry'[g].note # m
      BY <2>1, <3>6 DEF EntryOk, OneEntry
    <3>7. CASE m = entry[h].note
      <4>1. OneEntry(m)'
        BY <2>1, <3>2, <3>4, <3>5, <3>6, <3>7, <3>10, <3>11 DEF EntryOk, OneEntry
      <4>2. Unsent(m)'
        BY <2>1, <3>2, <3>4, <3>5, <3>6, <3>7, <3>10, <3>11 DEF EntryOk, Unsent
      <4>3. Unserved(m)'
        BY <2>1, <3>2, <3>4, <3>5, <3>6, <3>7, <3>10, <3>11 DEF EntryOk, Unserved
      <4>4. QED BY <4>1, <4>2, <4>3 DEF EntryOk
    <3>8. CASE m # entry[h].note
      <4>5. \A i \in 1..Len(queue') : queue'[i].note = m => i \in 1..Len(queue) /\ queue[i].note = m
        BY <3>2, <3>4, <3>5, <3>8
      <4>6. \A g \in Handlers : Busy(g)' /\ entry'[g].note = m => Busy(g) /\ entry[g].note = m
        BY <3>6
      <4>1. OneEntry(m)'
        <5>1. \A i, j \in 1..Len(queue') : queue'[i].note = m /\ queue'[j].note = m => i = j
          BY <2>1, <4>5 DEF EntryOk, OneEntry
        <5>2. \A i \in 1..Len(queue'), g \in Handlers : queue'[i].note = m /\ Busy(g)' => entry'[g].note # m
          BY <2>1, <4>5, <4>6 DEF EntryOk, OneEntry
        <5>3. \A g, k \in Handlers : Busy(g)' /\ Busy(k)' /\ entry'[g].note = m /\ entry'[k].note = m => g = k
          BY <2>1, <4>6 DEF EntryOk, OneEntry
        <5>4. QED BY <5>1, <5>2, <5>3 DEF OneEntry
      <4>2. Unsent(m)'
        BY <2>1, <3>2, <3>4, <3>5, <3>6, <3>8 DEF EntryOk, Unsent
      <4>3. Unserved(m)'
        BY <2>1, <3>2, <3>4, <3>5, <3>6, <3>8 DEF EntryOk, Unserved
      <4>4. QED BY <4>1, <4>2, <4>3 DEF EntryOk
    <3>9. QED BY <3>7, <3>8
  <2>4. QED BY <2>2, <2>3
<1>13. ASSUME NEW h \in Handlers, Break(h) PROVE EntryInv'
  <2> SUFFICES ASSUME NEW m \in Notes \ again' PROVE EntryOk(m)'
    OBVIOUS
  <2>1. /\ pc[h] \in {"filter", "send"} /\ pc' = [pc EXCEPT ![h] = "retry"] /\ failed' = [failed EXCEPT ![h] = entry[h].tokens]
        /\ UNCHANGED <<entry, queue, stage>>
    BY <1>13 DEF Break, Goto
  <2>2. m \notin again /\ (UNCHANGED served \/ (m # entry[h].note /\ served' = Count(entry[h].note, bad[h])))
    <3>1. CASE UNCHANGED <<served, again>>
      BY <3>1
    <3>2. CASE served' = Count(entry[h].note, bad[h]) /\ again' = again \cup {entry[h].note}
      BY <3>2
    <3>3. QED BY <1>13, <3>1, <3>2 DEF Break
  <2>3. entry[h].note \in Notes
    BY <2>1, EntryFacts DEF Busy
  <2>4. EntryOk(m) /\ \A t \in Tokens : served'[m][t] = served[m][t]
    BY <2>2, <2>3, CountType
  <2>5. \A i \in 1..Len(queue) : queue[i].tokens \subseteq Tokens
    BY DEF GoodEntries
  <2>6. \A g \in Handlers : Busy(g) => Waiting(g) \subseteq Tokens
    BY EntryFacts DEF Waiting
  <2>7. \A g \in Handlers : (Busy(g)' <=> Busy(g)) /\ (Busy(g) => Waiting(g)' = Waiting(g))
    BY <2>1 DEF Busy, Waiting
  <2>8. OneEntry(m)'
    BY <2>1, <2>4, <2>5, <2>6, <2>7 DEF EntryOk, OneEntry
  <2>9. Unsent(m)'
    BY <2>1, <2>4, <2>5, <2>6, <2>7 DEF EntryOk, Unsent
  <2>10. Unserved(m)'
    BY <2>1, <2>4, <2>5, <2>6, <2>7 DEF EntryOk, Unserved
  <2>11. QED BY <2>8, <2>9, <2>10 DEF EntryOk
<1>14. ASSUME NEW h \in Handlers, Fail(h) PROVE EntryInv'
  BY <1>14 DEF Fail, Nak, Fault, Ack, Take, EntryOk, OneEntry, Unsent, Unserved, Busy,
     Waiting
<1>15. ASSUME NEW g \in Handlers, NEW h \in Handlers, Redeliver(g, h) PROVE EntryInv'
  BY <1>15 DEF Redeliver, Fault, IsNext, Take, EntryOk, OneEntry, Unsent, Unserved, Busy,
     Waiting
<1>16. CASE UNCHANGED vars
  BY <1>16 DEF EntryOk, OneEntry, Unsent, Unserved, Busy, Waiting
<1> HIDE DEF DeliveryInv, Typed, EntryInv
<1>17. QED BY <1>1, <1>2, <1>3, <1>4, <1>5, <1>6, <1>7, <1>8, <1>9, <1>10, <1>11, <1>12,
      <1>13, <1>14, <1>15, <1>16 DEF Next, Handle


-----------------------------------------------------------------------------
(*****************************************************************************)
(* The theorems.                                                            *)
(*****************************************************************************)
\* The first state: nothing is known, sent or handled.
LEMMA InitInv == Init => DeliveryInv
<1> SUFFICES ASSUME Init PROVE DeliveryInv
  OBVIOUS
<1>1. Typed
  <2>1. /\ queue \in Seq(GoodEntries) /\ faults \in 0..MaxFaults /\ pc \in [Handlers -> Labels]
        /\ served \in [Notes -> [Tokens -> 0..2]] /\ stage \in [Notes -> {"new", "resolved", "sent", "silent"}]
    BY NotificationAssumption DEF Init, Labels
  <2>2. /\ row \in [Devices -> Rows \cup {None}] /\ \A d \in Devices : ~Known(d)
        /\ \A n \in Notes : stage[n] = "new"
    BY DEF Init, Known
  <2>3. QED BY <2>1, <2>2 DEF Init, Typed
<1>2. HandlerInv
  BY DEF Init, HandlerInv, Busy
<1>3. LiveTokenKept
  BY DEF Init, LiveTokenKept, Known
<1>4. EntryInv
  BY DEF Init, EntryInv, EntryOk, OneEntry, Unsent, Unserved, Busy
<1>5. QED BY <1>1, <1>2, <1>3, <1>4 DEF DeliveryInv

\* The inductive invariant: every entry, wherever it is, names a notification
\* and tokens that FCM gave out, and a notification that the broker does not deliver
\* twice has one entry, whose remaining tokens FCM has not served.
THEOREM DeliveryInvariant == Spec => []DeliveryInv
<1>1. Init => DeliveryInv
  BY InitInv
<1>2. DeliveryInv /\ [Next]_vars => DeliveryInv'
  <2> SUFFICES ASSUME DeliveryInv, [Next]_vars PROVE DeliveryInv'
    OBVIOUS
  <2>1. Typed'
    BY TypeStep DEF DeliveryInv
  <2>2. HandlerInv'
    BY HandlerStep DEF DeliveryInv
  <2>3. LiveTokenKept'
    BY LiveStep DEF DeliveryInv
  <2>4. EntryInv'
    BY EntryStep
  <2>5. QED BY <2>1, <2>2, <2>3, <2>4 DEF DeliveryInv
<1> HIDE DEF vars
<1>3. QED BY <1>1, <1>2, PTL DEF Spec

\* Type correctness: what is on the stream and at the handlers is an entry with
\* tokens to send to, and its attempts never reach the limit (NotificationWorker.retry).
THEOREM TypeCorrect == Spec => []TypeOK
<1>1. DeliveryInv => TypeOK
  <2> SUFFICES ASSUME DeliveryInv PROVE TypeOK
    OBVIOUS
  <2>1. \A i \in 1..Len(queue) : queue[i] \in Entries /\ queue[i].tokens # {}
    BY DEF DeliveryInv, Typed, GoodEntries
  <2>2. \A h \in Handlers : pc[h] # "idle" => entry[h] \in Entries
    BY DEF DeliveryInv, HandlerInv, GoodEntries, Busy
  <2>3. QED BY <2>1, <2>2 DEF DeliveryInv, Typed, TypeOK, Labels
<1>2. QED BY <1>1, DeliveryInvariant, PTL

\* A device is flagged only for a token that was refused and that it still has: a
\* registration of a new token is never undone by the late refusal of the old one.
THEOREM RegistrationsKept == Spec => []LiveTokenKept
<1>1. DeliveryInv => LiveTokenKept
  BY DEF DeliveryInv
<1>2. QED BY <1>1, DeliveryInvariant, PTL

\* However the handlers interleave and however many tokens fail and are tried
\* again, a notification the broker delivers once reaches no token twice.
THEOREM TokensServedOnce == Spec => []ServedOnce
<1>1. DeliveryInv => ServedOnce
  BY DEF DeliveryInv, EntryInv, EntryOk, Unserved, ServedOnce
<1>2. QED BY <1>1, DeliveryInvariant, PTL

-----------------------------------------------------------------------------
(*****************************************************************************)
(* No token is forgotten.                                                   *)
(*****************************************************************************)
\* The tokens a handler has still to deal with: all of its entry, then those that are
\* valid, then those refused until they are marked and those that failed.
Owed(h) == CASE pc[h] = "filter" -> entry[h].tokens
             [] pc[h] = "send" -> bad[h]
             [] pc[h] = "mark" -> bad[h] \cup failed[h]
             [] OTHER -> failed[h]
OwedInv == \A h \in Handlers : Busy(h) => Owed(h) \subseteq entry[h].tokens

Queued(n, t) == \E i \in 1..Len(queue) : queue[i].note = n /\ t \in queue[i].tokens
Handled(n, t) == \E h \in Handlers : Busy(h) /\ entry[h].note = n /\ t \in Owed(h)
Waits(n, t) == Queued(n, t) \/ Handled(n, t)

\* The last attempt has failed.
Dropped(n, t) ==
  \E h \in Handlers :
    pc[h] = "retry" /\ entry[h].note = n /\ t \in failed[h] /\ GivesUp(h) /\ Retry(h)

\* A token that waits goes on waiting, or is served, marked invalid, or given up.
NoneForgotten ==
  \A n \in Notes, t \in Tokens :
    Waits(n, t) => Waits(n, t)' \/ served'[n][t] > 0 \/ t \in marked' \/ Dropped(n, t)

\* A step of one handler leaves what the others have.
Alone(h) ==
  \A g \in Handlers \ {h} :
    pc'[g] = pc[g] /\ entry'[g] = entry[g] /\ bad'[g] = bad[g] /\ failed'[g] = failed[g]

\* A handler that takes an entry concerns no other handler: the others hold what they
\* held.
LEMMA TakeAlone ==
  ASSUME Typed, NEW h \in Handlers, NEW e, NEW l, Take(h, e, l)
  PROVE  /\ Alone(h)
         /\ pc'[h] = l /\ entry'[h] = e /\ bad'[h] = {} /\ failed'[h] = {}
  BY DEF Typed, Take, Alone

\* What FCM has accepted counts.
LEMMA CountsUp ==
  ASSUME Typed, NEW n \in Notes, NEW ts, NEW t \in ts \cap Tokens
  PROVE  Count(n, ts)[n][t] > 0
<1>1. served[n] \in [Tokens -> 0..2] /\ served[n][t] \in 0..2
  BY DEF Typed
<1>2. Min({served[n][t] + 1, 2}) \in {served[n][t] + 1, 2}
  BY <1>1, MinOfSet
<1>3. Count(n, ts)[n][t] = Min({served[n][t] + 1, 2})
  BY DEF Count, Typed
<1>4. QED BY <1>1, <1>2, <1>3

\* What a step of h does to what h owes is all that matters, if the stream keeps its
\* entries.
LEMMA OthersOwe ==
  ASSUME NEW h \in Handlers, Alone(h)
  PROVE  \A g \in Handlers \ {h} : (Busy(g)' <=> Busy(g)) /\ entry'[g] = entry[g] /\ Owed(g)' = Owed(g)
  BY DEF Alone, Busy, Owed

\* The invariant survives the step of one handler that still answers for the tokens it
\* is busy with.
LEMMA OwedAlone ==
  ASSUME OwedInv, NEW h \in Handlers, Alone(h),
         Busy(h)' => Owed(h)' \subseteq entry'[h].tokens
  PROVE  OwedInv'
  BY OthersOwe DEF OwedInv

\* A published entry is appended: what was queued stays queued, its own tokens with it.
LEMMA AppendKeeps ==
  ASSUME queue \in Seq(Entries), NEW e \in Entries, queue' = Append(queue, e)
  PROVE  /\ \A n, t : Queued(n, t) => Queued(n, t)'
         /\ \A t \in e.tokens : Queued(e.note, t)'
<1>1. /\ Len(queue') = Len(queue) + 1 /\ Len(queue) \in Nat
      /\ \A i \in 1..Len(queue) : queue'[i] = queue[i]
      /\ queue'[Len(queue) + 1] = e
  OBVIOUS
<1>2. QED BY <1>1 DEF Queued

\* A step of one handler forgets no token if what that handler owes waits again, or is
\* served, marked or dropped.
LEMMA KeptAlone ==
  ASSUME NEW h \in Handlers, Alone(h),
         \A n, t : Queued(n, t) => Queued(n, t)',
         \A n \in Notes, t \in Tokens :
           Busy(h) /\ entry[h].note = n /\ t \in Owed(h) =>
             Waits(n, t)' \/ served'[n][t] > 0 \/ t \in marked' \/ Dropped(n, t)
  PROVE  NoneForgotten
<1> SUFFICES ASSUME NEW n \in Notes, NEW t \in Tokens, Waits(n, t)
             PROVE  Waits(n, t)' \/ served'[n][t] > 0 \/ t \in marked' \/ Dropped(n, t)
  BY DEF NoneForgotten
<1>1. CASE Queued(n, t)
  BY <1>1 DEF Waits
<1>2. ASSUME NEW g \in Handlers, Busy(g), entry[g].note = n, t \in Owed(g)
      PROVE  Waits(n, t)' \/ served'[n][t] > 0 \/ t \in marked' \/ Dropped(n, t)
  <2>1. CASE g = h
    BY <1>2, <2>1
  <2>2. CASE g # h
    BY <1>2, <2>2, OthersOwe DEF Waits, Handled
  <2>3. QED BY <2>1, <2>2
<1>3. QED BY <1>1, <1>2 DEF Waits, Handled

\* What a handler owes is of its entry; and what it owes it goes on owing, or FCM has
\* taken it, or it is marked, or its last attempt has failed.
LEMMA OwedStep == DeliveryInv /\ OwedInv /\ [Next]_vars => OwedInv' /\ NoneForgotten
<1> SUFFICES ASSUME DeliveryInv, OwedInv, [Next]_vars PROVE OwedInv' /\ NoneForgotten
  OBVIOUS
<1>0. Typed /\ HandlerInv
  BY DEF DeliveryInv
<1>1. ASSUME UNCHANGED <<queue, call>> PROVE OwedInv' /\ NoneForgotten
  BY <1>1 DEF OwedInv, NoneForgotten, Waits, Queued, Handled, Owed, Busy
<1>2. ASSUME NEW n \in Notes, Enqueue(n) PROVE OwedInv' /\ NoneForgotten
  <2>0. queue \in Seq(Entries)
    BY <1>0 DEF Typed, GoodEntries
  <2>1. UNCHANGED call
    BY <1>2 DEF Enqueue
  <2>2. OwedInv' /\ \A m, t : Handled(m, t)' <=> Handled(m, t)
    BY <2>1 DEF OwedInv, Handled, Owed, Busy
  <2>3. CASE UNCHANGED queue
    BY <1>1, <2>1, <2>3
  <2>4. CASE queue' = Append(queue, EntryOf(n, resolved[n], 0))
    <3>1. \A m, t : Queued(m, t) => Queued(m, t)'
      <4>1. EntryOf(n, resolved[n], 0) \in Entries
        BY <1>0, <1>2, NotificationAssumption DEF Enqueue, EntryOf, Entries, Typed
      <4>2. PICK e \in Entries : queue' = Append(queue, e)
        BY <2>4, <4>1
      <4>3. QED BY <2>0, <4>2, AppendKeeps
    <3>2. QED BY <2>2, <3>1 DEF NoneForgotten, Waits
  <2>5. QED BY <1>2, <2>3, <2>4 DEF Enqueue
<1>3. ASSUME NEW h \in Handlers, Deliver(h) PROVE OwedInv' /\ NoneForgotten
  <2>1. queue # <<>> /\ queue' = Tail(queue) /\ Take(h, Head(queue), "filter") /\ ~Busy(h)
    BY <1>3 DEF Deliver, IsNext, Busy
  <2>2. Alone(h) /\ Busy(h)' /\ entry'[h] = Head(queue) /\ Owed(h)' = Head(queue).tokens
    BY <1>0, <2>1, TakeAlone DEF Busy, Owed
  <2>3. OwedInv'
    BY <2>2, OwedAlone
  <2>4. ASSUME NEW n, NEW t, Queued(n, t) PROVE Waits(n, t)'
    <3>1. PICK i \in 1..Len(queue) : queue[i].note = n /\ t \in queue[i].tokens
      BY <2>4 DEF Queued
    <3>2. CASE i = 1
      BY <2>1, <2>2, <3>1, <3>2 DEF Waits, Handled
    <3>3. CASE i # 1
      <4>1. i - 1 \in 1..Len(queue') /\ queue'[i - 1] = queue[i]
        BY <1>0, <2>1, <3>1, <3>3 DEF Typed
      <4>2. QED BY <3>1, <4>1 DEF Waits, Queued
    <3>4. QED BY <3>2, <3>3
  <2>5. ASSUME NEW n, NEW t, Handled(n, t) PROVE Waits(n, t)'
    BY <2>1, <2>2, <2>5, OthersOwe DEF Waits, Handled
  <2>6. QED BY <2>3, <2>4, <2>5 DEF NoneForgotten, Waits
<1>4. ASSUME NEW h \in Handlers, Filter(h) PROVE OwedInv' /\ NoneForgotten
  <2>1. Busy(h) /\ Owed(h) = entry[h].tokens /\ UNCHANGED <<queue, marked>>
    BY <1>4 DEF Filter, Busy, Owed
  <2>2. \A n, t : Queued(n, t) => Queued(n, t)'
    BY <2>1 DEF Queued
  <2>3. CASE entry[h].tokens \ marked = {} /\ Ack(h)
    <3>1. Alone(h) /\ ~Busy(h)'
      BY <1>0, <2>3, TakeAlone DEF Ack, Busy
    <3>2. OwedInv'
      BY <3>1, OwedAlone
    <3>3. NoneForgotten
      BY <2>1, <2>2, <2>3, <3>1, KeptAlone
    <3>4. QED BY <3>2, <3>3
  <2>4. CASE Goto(h, "send") /\ bad' = [bad EXCEPT ![h] = entry[h].tokens \ marked] /\ UNCHANGED <<entry, failed>>
    <3>1. Alone(h) /\ Busy(h)' /\ Owed(h)' = entry[h].tokens \ marked /\ entry'[h] = entry[h]
      BY <1>0, <2>4 DEF Goto, Alone, Typed, Busy, Owed
    <3>2. OwedInv'
      BY <3>1, OwedAlone
    <3>3. NoneForgotten
      BY <2>1, <2>2, <3>1, KeptAlone DEF Waits, Handled
    <3>4. QED BY <3>2, <3>3
  <2>5. QED BY <1>4, <2>3, <2>4 DEF Filter
<1>5. ASSUME NEW h \in Handlers, Send(h) PROVE OwedInv' /\ NoneForgotten
  <2>1. /\ Busy(h) /\ Owed(h) = bad[h] /\ UNCHANGED <<queue, marked>>
        /\ bad[h] \subseteq entry[h].tokens /\ bad[h] \subseteq Tokens /\ entry[h].note \in Notes
    BY <1>0, <1>5, EntryFacts DEF Send, Busy, Owed, HandlerInv, Typed
  <2>2. \A n, t : Queued(n, t) => Queued(n, t)'
    BY <2>1 DEF Queued
  <2>3. PICK no \in SUBSET bad[h], late \in SUBSET bad[h] :
          /\ served' = Count(entry[h].note, bad[h] \ (no \cup late))
          /\ IF no \cup late = {} THEN Ack(h)
             ELSE /\ bad' = [bad EXCEPT ![h] = no] /\ failed' = [failed EXCEPT ![h] = late]
                  /\ Goto(h, IF no = {} THEN "retry" ELSE "mark")
                  /\ UNCHANGED entry
    BY <1>5 DEF Send
  <2>4. \A t \in bad[h] \ (no \cup late) : served'[entry[h].note][t] > 0
    BY <1>0, <2>1, <2>3, CountsUp
  <2>5. CASE no \cup late = {}
    <3>1. Alone(h) /\ ~Busy(h)'
      BY <1>0, <2>3, <2>5, TakeAlone DEF Ack, Busy
    <3>2. OwedInv'
      BY <3>1, OwedAlone
    <3>3. NoneForgotten
      BY <2>1, <2>2, <2>4, <2>5, <3>1, KeptAlone
    <3>4. QED BY <3>2, <3>3
  <2>6. CASE no \cup late # {}
    <3>1. /\ bad' = [bad EXCEPT ![h] = no] /\ failed' = [failed EXCEPT ![h] = late]
          /\ pc' = [pc EXCEPT ![h] = IF no = {} THEN "retry" ELSE "mark"]
          /\ UNCHANGED entry
      BY <2>3, <2>6 DEF Goto
    <3>2. Alone(h) /\ Busy(h)' /\ Owed(h)' = no \cup late /\ entry'[h] = entry[h]
      BY <1>0, <3>1 DEF Alone, Typed, Busy, Owed
    <3>3. OwedInv'
      BY <2>1, <3>2, OwedAlone
    <3>4. NoneForgotten
      BY <2>1, <2>2, <2>4, <3>2, KeptAlone DEF Waits, Handled
    <3>5. QED BY <3>3, <3>4
  <2>7. QED BY <2>5, <2>6
<1>6. ASSUME NEW h \in Handlers, MarkInvalid(h) PROVE OwedInv' /\ NoneForgotten
  <2>1. /\ Busy(h) /\ Owed(h) = bad[h] \cup failed[h] /\ UNCHANGED <<queue, entry, bad, failed>>
        /\ marked' = marked \cup bad[h] /\ pc' = [pc EXCEPT ![h] = "flag"]
    BY <1>6 DEF MarkInvalid, Goto, Busy, Owed
  <2>2. Alone(h) /\ Busy(h)' /\ Owed(h)' = failed[h]
    BY <1>0, <2>1 DEF Alone, Typed, Busy, Owed
  <2>3. OwedInv'
    BY <2>1, <2>2, OwedAlone DEF OwedInv
  <2>4. \A n, t : Queued(n, t) => Queued(n, t)'
    BY <2>1 DEF Queued
  <2>5. NoneForgotten
    BY <2>1, <2>2, <2>4, KeptAlone DEF Waits, Handled
  <2>6. QED BY <2>3, <2>5
<1>7. ASSUME NEW h \in Handlers, FlagDevice(h) PROVE OwedInv' /\ NoneForgotten
  <2>1. Busy(h) /\ Owed(h) = failed[h] /\ UNCHANGED <<queue, marked>>
    BY <1>7 DEF FlagDevice, Busy, Owed
  <2>2. \A n, t : Queued(n, t) => Queued(n, t)'
    BY <2>1 DEF Queued
  <2>3. CASE failed[h] = {} /\ Ack(h)
    <3>1. Alone(h) /\ ~Busy(h)'
      BY <1>0, <2>3, TakeAlone DEF Ack, Busy
    <3>2. QED BY <2>1, <2>2, <2>3, <3>1, OwedAlone, KeptAlone
  <2>4. CASE ~(failed[h] = {} /\ Ack(h))
    <3>1. /\ pc[h] = "flag" /\ pc' \in {pc, [pc EXCEPT ![h] = "retry"]}
          /\ UNCHANGED <<entry, failed>>
          /\ UNCHANGED bad \/ bad' = [bad EXCEPT ![h] = @ \ {Min(bad[h])}]
      BY <1>7, <2>4 DEF FlagDevice, Goto
    <3>2. Alone(h) /\ Busy(h)' /\ Owed(h)' = failed[h] /\ entry'[h] = entry[h]
      BY <1>0, <3>1 DEF Alone, Typed, Busy, Owed
    <3>3. OwedInv'
      BY <2>1, <3>2, OwedAlone DEF OwedInv
    <3>4. NoneForgotten
      BY <2>1, <2>2, <3>2, KeptAlone DEF Waits, Handled
    <3>5. QED BY <3>3, <3>4
  <2>5. QED BY <2>3, <2>4
<1>8. ASSUME NEW h \in Handlers, Retry(h) PROVE OwedInv' /\ NoneForgotten
  <2>1. pc[h] = "retry" /\ Busy(h) /\ Owed(h) = failed[h] /\ Ack(h)
    BY <1>8 DEF Retry, Busy, Owed
  <2>2. Alone(h) /\ ~Busy(h)'
    BY <1>0, <2>1, TakeAlone DEF Ack, Busy
  <2>3. OwedInv'
    BY <2>2, OwedAlone
  <2>4. CASE GivesUp(h)
    <3>1. \A n, t : Queued(n, t) => Queued(n, t)'
      BY <1>8, <2>4 DEF Retry, Queued
    <3>2. \A t \in Owed(h) : Dropped(entry[h].note, t)
      BY <1>8, <2>1, <2>4 DEF Dropped
    <3>3. QED BY <2>2, <2>3, <3>1, <3>2, KeptAlone
  <2>5. CASE ~GivesUp(h)
    <3>1. EntryOf(entry[h].note, failed[h], Attempt(h)) \in Entries
      BY <1>0, <2>1, <2>5, EntryFacts, NotificationAssumption
         DEF EntryOf, Entries, Attempt, GivesUp, Typed
    <3>2. PICK e \in Entries : e = EntryOf(entry[h].note, failed[h], Attempt(h))
      BY <3>1
    <3>3. queue' = Append(queue, e) /\ e.note = entry[h].note /\ e.tokens = failed[h]
      BY <1>8, <2>5, <3>2 DEF Retry, ToRetry, EntryOf
    <3>4. queue \in Seq(Entries)
      BY <1>0 DEF Typed, GoodEntries
    <3>5. /\ \A n, t : Queued(n, t) => Queued(n, t)'
          /\ \A t \in e.tokens : Queued(e.note, t)'
      BY <3>3, <3>4, AppendKeeps
    <3>6. QED BY <2>1, <2>2, <2>3, <3>3, <3>5, KeptAlone DEF Waits
  <2>6. QED BY <2>4, <2>5
<1>9. ASSUME NEW h \in Handlers, Break(h) PROVE OwedInv' /\ NoneForgotten
  <2>1. /\ pc[h] \in {"filter", "send"} /\ pc' = [pc EXCEPT ![h] = "retry"]
        /\ bad' = [bad EXCEPT ![h] = {}] /\ failed' = [failed EXCEPT ![h] = entry[h].tokens]
        /\ UNCHANGED <<entry, queue>>
    BY <1>9 DEF Break, Goto
  <2>2. Busy(h) /\ Alone(h) /\ Busy(h)' /\ Owed(h)' = entry[h].tokens /\ entry'[h] = entry[h]
    BY <1>0, <2>1 DEF Alone, Typed, Busy, Owed
  <2>3. OwedInv'
    BY <2>2, OwedAlone
  <2>4. \A n, t : Queued(n, t) => Queued(n, t)'
    BY <2>1 DEF Queued
  <2>5. NoneForgotten
    BY <2>2, <2>4, KeptAlone DEF OwedInv, Waits, Handled
  <2>6. QED BY <2>3, <2>5
<1>10. ASSUME NEW h \in Handlers, Fail(h) PROVE OwedInv' /\ NoneForgotten
  <2>1. Busy(h) /\ queue' = Append(queue, entry[h]) /\ Ack(h)
    BY <1>10 DEF Fail, Nak, Busy
  <2>2. Alone(h) /\ ~Busy(h)'
    BY <1>0, <2>1, TakeAlone DEF Ack, Busy
  <2>3. OwedInv'
    BY <2>2, OwedAlone
  <2>4. queue \in Seq(Entries) /\ \E e \in Entries : e = entry[h]
    BY <1>0, <2>1 DEF HandlerInv, Typed, GoodEntries
  <2>5. PICK e \in Entries : e = entry[h]
    BY <2>4
  <2>6. /\ \A n, t : Queued(n, t) => Queued(n, t)'
        /\ \A t \in e.tokens : Queued(e.note, t)'
    BY <2>1, <2>4, <2>5, AppendKeeps
  <2>8. NoneForgotten
    BY <2>1, <2>2, <2>5, <2>6, KeptAlone DEF OwedInv, Waits
  <2>9. QED BY <2>3, <2>8
<1>11. ASSUME NEW g \in Handlers, NEW h \in Handlers, Redeliver(g, h) PROVE OwedInv' /\ NoneForgotten
  <2>1. ~Busy(h) /\ Take(h, entry[g], "filter") /\ UNCHANGED queue
    BY <1>11 DEF Redeliver, IsNext, Busy
  <2>2. Alone(h) /\ Owed(h)' = entry'[h].tokens
    BY <1>0, <2>1, TakeAlone DEF Owed
  <2>3. OwedInv'
    BY <2>2, OwedAlone
  <2>4. \A n, t : Queued(n, t) => Queued(n, t)'
    BY <2>1 DEF Queued
  <2>5. NoneForgotten
    BY <2>1, <2>2, <2>4, KeptAlone
  <2>6. QED BY <2>3, <2>5
<1>12. ASSUME NEW d \in Devices, Login(d) \/ UpdateToken(d) \/ Inactivate(d) \/ Revoke(d)
       PROVE  OwedInv' /\ NoneForgotten
  BY <1>1, <1>12 DEF Login, UpdateToken, Inactivate, Revoke, OnlyRows
<1>13. ASSUME NEW n \in Notes, ResolveTokens(n) PROVE OwedInv' /\ NoneForgotten
  BY <1>1, <1>13 DEF ResolveTokens
<1>14. CASE UNCHANGED vars
  BY <1>1, <1>14
<1>15. QED BY <1>2, <1>3, <1>4, <1>5, <1>6, <1>7, <1>8, <1>9, <1>10, <1>11, <1>12, <1>13, <1>14
       DEF Next, Handle

\* Whatever fails, whoever dies and however often an entry comes again, a token that a
\* notification is for stays on an entry until FCM has accepted it, or it is marked as
\* invalid, or the last attempt for it has failed.
THEOREM NoTokenForgotten == Spec => [][NoneForgotten]_vars
<1>1. Init => OwedInv
  BY DEF Init, OwedInv, Busy
<1>2. DeliveryInv /\ OwedInv /\ [Next]_vars => OwedInv'
  BY OwedStep
<1>3. DeliveryInv /\ OwedInv /\ [Next]_vars => [NoneForgotten]_vars
  BY OwedStep
<1> HIDE DEF vars
<1>4. QED BY <1>1, <1>2, <1>3, DeliveryInvariant, PTL DEF Spec

=============================================================================
