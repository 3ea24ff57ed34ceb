------------------------- MODULE MCTun2SocksClient -------------------------
(* One connection through tun2socks, with buffers of one or two bytes.     *)
EXTENDS Tun2SocksClient
=============================================================================
