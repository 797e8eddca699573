------------------------------ MODULE MCStreams ------------------------------
(* One job of any kind, and a summary that runs before it or waits behind it;   *)
(* one page whose queue holds Room snapshots, open beside summaries.            *)
EXTENDS Streams
CONSTANTS a, b
Either == (a :> Kinds \ {"chat"}) @@ (b :> {"summary"})
==============================================================================
