----------------------- MODULE MCCompressorProtection -----------------------
(* Instances of CompressorProtection: short runs are those of one call, the  *)
(* limit of a continuous run is three calls, a forced stop lasts two.        *)
EXTENDS CompressorProtection

Setting(short, run, off, retries, manual) ==
  [min_compressor_run |-> short, max_continuous_run |-> run,
   forced_off_period |-> off, max_retries |-> retries, manual_reset |-> manual]

MCReadings(Defrost, Reset, S) ==
  [compressor : BOOLEAN, defrost : Defrost, reset : Reset, other_alarm : BOOLEAN,
   settings : S]

\* Everything may happen, and the settings change between two calls.
MCInputs == MCReadings(BOOLEAN, BOOLEAN, {Setting(2, 3, 2, 2, FALSE), Setting(2, 4, 3, 1, TRUE)})

=============================================================================
