--------------------------- MODULE MCReportCases ---------------------------
(* Small instances of ReportCases for TLC.                                 *)
EXTENDS ReportCases, TLC

CONSTANTS p1, p2, a1, a2, u1, c1, c2

Interchangeable == Permutations(Procs) \cup Permutations(Admins)
=============================================================================
