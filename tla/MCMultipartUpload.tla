------------------------- MODULE MCMultipartUpload -------------------------
(* Streams below, at and above the limit of three parts of two units.      *)
EXTENDS MultipartUpload

MCStreamLengths == {1, 4, 5, 6, 7}
=============================================================================
