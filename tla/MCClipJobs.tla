------------------------------ MODULE MCClipJobs ------------------------------
(* ClipJobs for TLC: the constants are in the .cfg files.                   *)
EXTENDS ClipJobs
=============================================================================
