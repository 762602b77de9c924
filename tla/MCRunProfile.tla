---------------------------- MODULE MCRunProfile ----------------------------
(***************************************************************************)
(* RunProfile with a profile of two segments.                              *)
(***************************************************************************)
EXTENDS RunProfile

TwoSegments == <<4, 5>>

============================================================================
