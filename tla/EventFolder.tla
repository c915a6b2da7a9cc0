------------------------------ MODULE EventFolder ------------------------------
(***************************************************************************)
(* What StaffDriveService promises of the folder of one event on Drive,    *)
(* whoever uploads: one call at a time looks for the folder or makes it,   *)
(* the folder is made once, and photos are filed in that folder.           *)
(***************************************************************************)
CONSTANTS
  Calls,
  Folders

VARIABLES
  inside,    \* the call that resolves the folder, at most one
  made,      \* folders made, at most one
  filled     \* folders that photos were filed in

Init == inside = {} /\ made = {} /\ filled = {}

Enter == inside = {} /\ (\E c \in Calls : inside' = {c}) /\ UNCHANGED <<made, filled>>
Leave == inside' = {} /\ UNCHANGED <<made, filled>>
Make == /\ inside # {} /\ made = {}
        /\ \E f \in Folders : made' = {f}
        /\ inside' \in SUBSET inside
        /\ UNCHANGED filled
File == filled' = made /\ UNCHANGED <<inside, made>>

Next == Enter \/ Leave \/ Make \/ File

Spec == Init /\ [][Next]_<<inside, made, filled>>
=============================================================================
