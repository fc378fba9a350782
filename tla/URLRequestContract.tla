-------------------------- MODULE URLRequestContract --------------------------
(***************************************************************************)
(* What a CefURLRequest promises its client, whichever process it works in *)
(* (include/cef_urlrequest.h): it is told once how the request ended, the  *)
(* status it can ask for is settled by then and stays, it is told that its *)
(* upload is complete before any success, and the request lives until it   *)
(* was told.                                                               *)
(*                                                                         *)
(* The end of the upload is told when a notice of the network says so and, *)
(* should the response overtake the notice, by the request in its place:   *)
(* once each, never in place of a notice that came, and not after the      *)
(* request ended.  A notice that comes late is told all the same.          *)
(***************************************************************************)
EXTENDS Integers

VARIABLES
  status,     \* what GetRequestStatus returns
  answer,     \* the status OnRequestComplete was called with, or "none"
  owed,       \* must the end of the upload be told?  It never changes
  noticed,    \* how often it was told on a notice of the network ...
  stoodIn,    \* ... and how often in place of one
  held        \* does the request keep itself alive?

Final == {"UR_SUCCESS", "UR_CANCELED", "UR_FAILED"}

Init ==
  /\ status = "UR_IO_PENDING"
  /\ answer = "none"
  /\ owed \in BOOLEAN
  /\ noticed = 0 /\ stoodIn = 0
  /\ held = TRUE

StatusMove ==
  \/ status' = status
  \/ status = "UR_IO_PENDING" /\ status' \in Final

AnswerMove ==
  \/ answer' = answer
  \/ /\ answer = "none"
     /\ status' \in Final
     /\ answer' = status'
     /\ owed /\ answer' = "UR_SUCCESS" => noticed + stoodIn > 0

UploadMove ==
  \/ UNCHANGED <<noticed, stoodIn>>
  \/ noticed = 0 /\ noticed' = 1 /\ stoodIn' = stoodIn /\ answer = "none"
  \/ noticed + stoodIn = 0 /\ stoodIn' = 1 /\ noticed' = noticed /\ answer = "none"

HoldMove ==
  \/ held' = held
  \/ answer # "none" /\ held' = FALSE

Next ==
  /\ StatusMove /\ AnswerMove /\ UploadMove /\ HoldMove
  /\ owed' = owed

Spec == Init /\ [][Next]_<<status, answer, owed, noticed, stoodIn, held>>
=============================================================================
