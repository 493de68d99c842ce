---------------------------- MODULE MCHalDevices ----------------------------
(***************************************************************************)
(* Instances of HalDevice for TLC.                                         *)
(***************************************************************************)
EXTENDS HalDevice

CONSTANTS t1, t2, h1, h2

AllKinds == DOMAIN Open

\* Two threads with a handle each, or with one handle.
OwnOrShared ==
  {[t \in {t1, t2} |-> IF t = t1 THEN h1 ELSE h2], [t \in {t1, t2} |-> h1]}

=============================================================================
