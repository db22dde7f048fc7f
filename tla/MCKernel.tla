------------------------------ MODULE MCKernel ------------------------------
(* Small instances of the thread kernel for TLC.                           *)
EXTENDS Kernel, TLC

CONSTANTS main, a, b, io, disk

(* A semaphore that threads use and the handler of a device signals.       *)
MCInitialValue == io :> 1
MCDeviceSem == disk :> io

=============================================================================
