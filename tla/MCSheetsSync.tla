---------------------------- MODULE MCSheetsSync ----------------------------
(* SheetsSync with a few processes, one or two VINs and one editor. *)
EXTENDS SheetsSync
=============================================================================
