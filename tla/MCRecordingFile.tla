--------------------------- MODULE MCRecordingFile ---------------------------
(***************************************************************************)
(* Instances of RecordingFile for TLC, with the constants of the code      *)
(* scaled down: six ticks and two samples to a frame.                      *)
(***************************************************************************)
EXTENDS RecordingFile

(* The clock wraps after 200 ticks, between the packets or not at all.  A  *)
(* stream is shorter than the clock, as no packet is 24 hours late.        *)
Starts == {0, 170, 194}
=============================================================================
