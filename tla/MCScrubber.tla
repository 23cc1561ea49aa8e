----------------------------- MODULE MCScrubber -----------------------------
(* Model checking of Scrubber.                                              *)
EXTENDS Scrubber
=============================================================================
