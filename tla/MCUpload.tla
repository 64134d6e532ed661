------------------------------ MODULE MCUpload ------------------------------
(* Instances of Upload for TLC.                                            *)
EXTENDS Upload

CONSTANTS t1, t2

TwoTracks == {t1, t2}
RequestsAndCropsFail == {"request", "crop"}
=============================================================================
