--------------------------- MODULE MCRecordExport ---------------------------
(* A small instance of RecordExport: two callers, one DNS slot, one         *)
(* destination.                                                             *)
EXTENDS RecordExport
=============================================================================
