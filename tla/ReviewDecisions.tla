--------------------------- MODULE ReviewDecisions ---------------------------
(***************************************************************************)
(* What the review of staged uploads promises: every upload request, and   *)
(* every group of requests, is decided at most once; a decision covers a   *)
(* request with all its photos in one step; and an approved photo has      *)
(* exactly one row in the photos table.  UploadReview.tla is the code that *)
(* has to live up to this.                                                 *)
(***************************************************************************)
EXTENDS Naturals

CONSTANTS
  Requests,     \* upload_requests rows
  Groups,       \* upload_request_groups rows
  Photos,       \* upload_request_photos rows
  RequestOf,    \* the request a photo belongs to
  GroupOf,      \* the group of a request, or NoGroup
  NoGroup       \* a decision that concerns one request and no group

VARIABLES
  registered,   \* the requests that exist
  reqStatus,    \* upload_requests.status
  photoStatus,  \* upload_request_photos.status
  groupStatus,  \* upload_request_groups.status
  rows          \* how many rows of photos were made from a staged photo

vars == <<registered, reqStatus, photoStatus, groupStatus, rows>>

PhotosOf(r) == {p \in Photos : RequestOf[p] = r}

Init ==
  /\ registered = {}
  /\ reqStatus = [r \in Requests |-> "pending"]
  /\ photoStatus = [p \in Photos |-> "staged"]
  /\ groupStatus = [g \in Groups |-> "pending"]
  /\ rows = [p \in Photos |-> 0]

Register(r) ==
  /\ r \notin registered
  /\ registered' = registered \cup {r}
  /\ UNCHANGED <<reqStatus, photoStatus, groupStatus, rows>>

(***************************************************************************)
(* One decision: the requests of S, and the group g unless it is NoGroup,  *)
(* get the verdict together with every photo of S.                         *)
(***************************************************************************)
Decide(S, g, verdict) ==
  /\ S # {}
  /\ S \subseteq {r \in registered : reqStatus[r] = "pending"}
  /\ g # NoGroup => /\ groupStatus[g] = "pending"
                    /\ \A r \in S : GroupOf[r] = g
  /\ g = NoGroup => \A r, s \in S : r = s
  /\ reqStatus' = [r \in Requests |-> IF r \in S THEN verdict ELSE reqStatus[r]]
  /\ groupStatus' = [q \in Groups |-> IF q = g THEN verdict ELSE groupStatus[q]]
  /\ photoStatus' = [p \in Photos |->
                       IF RequestOf[p] \in S THEN verdict ELSE photoStatus[p]]
  /\ rows' = [p \in Photos |->
                IF verdict = "approved" /\ RequestOf[p] \in S THEN 1 ELSE rows[p]]
  /\ UNCHANGED registered

Next ==
  \/ \E r \in Requests : Register(r)
  \/ \E S \in SUBSET Requests, g \in Groups \cup {NoGroup},
        verdict \in {"approved", "rejected"} : Decide(S, g, verdict)

Spec == Init /\ [][Next]_vars
=============================================================================
