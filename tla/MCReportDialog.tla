--------------------------- MODULE MCReportDialog ---------------------------
(***************************************************************************)
(* Small instances of ReportDialog: two names, of which any were bought    *)
(* before, and an account that can pay two more reports.                   *)
(***************************************************************************)
EXTENDS ReportDialog
=============================================================================
