-------------------------- MODULE MCStreamTransport --------------------------
(***************************************************************************)
(* An instance of StreamTransport for TLC.  The clocks are cut to one      *)
(* tick: that is enough for a deadline to lie on either side of any step.  *)
(***************************************************************************)
EXTENDS StreamTransport

\* The client mutates, probes the node and answers; its answers turn old in the channel.
ClientRequests == Requests \ {Pong("old")}
=============================================================================
