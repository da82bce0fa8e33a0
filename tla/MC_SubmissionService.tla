------------------------ MODULE MC_SubmissionService -------------------------
(* An instance of the postman and the submission service for TLC.          *)
EXTENDS ServiceProperties
=============================================================================
