------------------------ MODULE MCSubmissionDelivery ------------------------
(* A small instance of SubmissionDelivery for TLC: the production builds   *)
(* with the relay that has every outcome, and one submission at a time.    *)
EXTENDS SubmissionDelivery

CONSTANTS h1

OneHandler == {h1}

IndexRelay == [encrypted : BOOLEAN, fallback : {FALSE}, relay : {"index"}]
=============================================================================
