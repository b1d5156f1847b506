--------------------------- MODULE MCStartWindow ---------------------------
(* Instances of StartWindow: an hour of five calls, room for three starts,   *)
(* limits below and at the size of the ring buffer.                          *)
EXTENDS StartWindow

MCInputs == [compressor : BOOLEAN, reset : BOOLEAN, manual_reset : BOOLEAN,
             max_starts_hour : {1, 2, 3}]
=============================================================================
