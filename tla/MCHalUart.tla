----------------------------- MODULE MCHalUart ------------------------------
(***************************************************************************)
(* Instances of HalUart for TLC: who calls what.                           *)
(***************************************************************************)
EXTENDS HalUart, TLC

CONSTANTS t1, t2

\* One thread reads and flushes, one writes and closes, both set the rate.
OneReaderOneWriter ==
  (t1 :> {"read", "flush", "baud"} @@ t2 :> {"write", "baud", "close"})

WritersOnly == [t \in Threads |-> {"write"}]

ReadersOnly == [t \in Threads |-> {"read"}]

ReadAndClose == (t1 :> {"read"} @@ t2 :> {"close"})

=============================================================================
