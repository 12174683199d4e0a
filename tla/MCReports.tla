----------------------------- MODULE MCReports -----------------------------
(* Small instances of Reports, whose cfgs give the constants their values. *)
EXTENDS Reports
============================================================================
