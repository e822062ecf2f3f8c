------------------------------- MODULE MCDns -------------------------------
(* Model-checking instance of Dns: two upstreams, in this order. *)
EXTENDS Dns
MCUpstreams == <<"up1", "up2">>
=============================================================================
