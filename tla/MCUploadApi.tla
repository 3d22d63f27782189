----------------------------- MODULE MCUploadApi -----------------------------
(* Small instances of UploadApi; uploads are interchangeable. *)
EXTENDS UploadApi, TLC

UploadSymmetry == Permutations(Uploads)
=============================================================================
