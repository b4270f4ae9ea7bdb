--------------------------- MODULE MCTrafficWriter --------------------------
(***************************************************************************)
(* Instances of TrafficWriter for TLC.  The constants are model values in  *)
(* the configurations: a queue that one submitter fills while the writer   *)
(* is away, and a second generation, so that a writer is started after one *)
(* that was stopped.                                                       *)
(***************************************************************************)
EXTENDS TrafficWriter
=============================================================================
