---------------------------- MODULE BoundedCall ----------------------------
(***************************************************************************)
(* What a caller of executeResiliently may rely on: the call sends at most *)
(* Bound requests, is answered only after it sent one, ends whether or not *)
(* the providers ever reply, and sends nothing once it has ended.          *)
(***************************************************************************)
EXTENDS Naturals

CONSTANT Bound \* at least 1

VARIABLES status, tries

Init == status = "none" /\ tries = 0

\* A call may have been cancelled before it began.
Call ==
  /\ status # "open"
  /\ \/ status' = "open" /\ tries' = 1
     \/ status' = "failed" /\ tries' = 0

Retry ==
  /\ status = "open"
  /\ tries < Bound
  /\ tries' = tries + 1
  /\ UNCHANGED status

End ==
  /\ status = "open"
  /\ status' \in {"answered", "failed"}
  /\ UNCHANGED tries

Next == Call \/ Retry \/ End

Spec == Init /\ [][Next]_<<status, tries>> /\ WF_<<status, tries>>(End)
=============================================================================
