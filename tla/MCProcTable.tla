---------------------------- MODULE MCProcTable ----------------------------
(* Small instances of the process table for TLC.                           *)
EXTENDS ProcTable

MCCodes == {-1, 7}
MCOneCode == {7}

=============================================================================
