--------------------------- MODULE EventLifecycle ---------------------------
(***************************************************************************)
(* The status of one event: staff set it as they like                      *)
(* (app/router/web/event.py), time passes, and the event_lifecycle worker  *)
(* brings it up to date (run_lifecycle_pass in                             *)
(* app/worker/event_lifecycle/main.py).  The event has an end_date.        *)
(***************************************************************************)
EXTENDS Naturals

VARIABLES
  time,         \* "planned", "started", "ended", and "over" once the retention is past
  status        \* events.status

Times == <<"planned", "started", "ended", "over">>
Statuses == {"draft", "scheduled", "archived"}

\* Whether the clock has come to t.
Reached(t) == \E i, j \in 1..4 : Times[i] = t /\ Times[j] = time /\ i <= j

\* create_event takes the status from the request, "draft" if there is none.
Init == time = "planned" /\ status \in Statuses

TimePasses ==
  /\ \E i \in 1..3 : time = Times[i] /\ time' = Times[i + 1]
  /\ UNCHANGED status

\* archive_event, schedule_event, draft_event: one UPDATE that asks for nothing.
SetStatus(new) == status' = new /\ UNCHANGED time

Activated(s) == IF s = "draft" /\ Reached("started") THEN "scheduled" ELSE s
Archived(s) == IF s = "scheduled" /\ Reached("ended") THEN "archived" ELSE s

\* Mutant: the pass archives before it activates.
ArchivesFirst(s) == Activated(Archived(s))
Updated(s) == Archived(Activated(s))

\* One transaction of two UPDATEs.  What the first one writes is locked for the
\* second, so a status set meanwhile comes before both or after both.
LifecyclePass ==
  /\ Updated(status) # status
  /\ status' = Updated(status)
  /\ UNCHANGED time

Next == TimePasses \/ (\E new \in Statuses : SetStatus(new)) \/ LifecyclePass
=============================================================================
