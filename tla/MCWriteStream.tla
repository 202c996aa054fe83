---------------------------- MODULE MCWriteStream ----------------------------
(* An instance of WriteStream for TLC.                                      *)
EXTENDS WriteStream

=============================================================================
