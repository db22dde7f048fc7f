---------------------------- MODULE MCSynchDisk ----------------------------
EXTENDS SynchDisk
=============================================================================
