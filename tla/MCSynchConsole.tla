--------------------------- MODULE MCSynchConsole ---------------------------
(* A small instance of the synchronous console for TLC.                    *)
EXTENDS SynchConsole

CONSTANTS p1, p2, x

MCLines == {<<>>, <<x>>, <<x, NewLine>>}

=============================================================================
