--------------------------- MODULE MCTrafficWriter ---------------------------
(* TrafficWriter on a small instance: a queue of one place fills up and      *)
(* blocks a submission with twMu held; two controllers and two generations   *)
(* let a Start race a Stop and both race the drain.                          *)
EXTENDS TrafficWriter

=============================================================================
