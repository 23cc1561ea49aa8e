-------------------------- MODULE MCSegmentWriter --------------------------
(* Two seal workers, three buffers, two records per block.                  *)
EXTENDS SegmentWriter
=============================================================================
