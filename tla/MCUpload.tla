------------------------------ MODULE MCUpload ------------------------------
(* An instance of Upload for TLC.                                            *)
EXTENDS Upload

CONSTANTS e1, e2, e3, here, there

ThreeEditors == {e1, e2, e3}
TwoPlaces == {here, there}

=============================================================================
