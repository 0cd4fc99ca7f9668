---------------------------- MODULE MCOwnerInbox ----------------------------
(* One submission of OwnerInbox, so that TLC reaches long sequences of     *)
(* edits, loads and registrations of the same row.                         *)
EXTENDS OwnerInbox

CONSTANT s1

OneSubmission == {s1}
MCReviews == {"new", "triaged"}
=============================================================================
