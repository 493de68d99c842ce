----------------------------- MODULE MCHalTimer -----------------------------
(***************************************************************************)
(* Instances of HalTimer for TLC.                                          *)
(***************************************************************************)
EXTENDS HalTimer

Config(initial, interval, p) ==
  [initial_ms |-> initial, interval_ms |-> interval, periodic |-> p]

\* One-shot and periodic, with a delay before the first expiration.
DelayedConfigs == {Config(1, 1, FALSE), Config(2, 1, TRUE), Config(1, 0, TRUE)}

\* The same without the delay.
AllConfigs == DelayedConfigs \union {Config(0, 1, FALSE), Config(0, 1, TRUE)}

=============================================================================
