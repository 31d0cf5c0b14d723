---------------------------- MODULE GuestThreads ----------------------------
(* The guest threads that the modules about concurrent calls share.        *)
CONSTANTS Threads, NoThread

ASSUME ThreadsAssumption == Threads # {} /\ NoThread \notin Threads
=============================================================================
