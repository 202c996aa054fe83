---------------------------- MODULE MCWatchStream ----------------------------
(* An instance of WatchStream for TLC.                                       *)
EXTENDS WatchStream

=============================================================================
