-------------------------------- MODULE MCHub --------------------------------
(* Hub on small instances: every channel holds one item, so each of them     *)
(* fills up.                                                                *)
EXTENDS Hub

=============================================================================
