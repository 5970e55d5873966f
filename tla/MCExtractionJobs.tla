--------------------------- MODULE MCExtractionJobs ---------------------------
(* TLC instance of ExtractionJobs. *)
EXTENDS ExtractionJobs
=============================================================================
