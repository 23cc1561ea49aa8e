------------------------- MODULE MCMultipartUpload -------------------------
(* Two clients and two workers over a pool of two buffers.                 *)
EXTENDS MultipartUpload
=============================================================================
