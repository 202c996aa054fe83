---------------------------- MODULE MCUploadView ----------------------------
(* An instance of UploadView for TLC.                                        *)
EXTENDS UploadView

=============================================================================
