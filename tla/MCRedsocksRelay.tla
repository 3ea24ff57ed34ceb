-------------------------- MODULE MCRedsocksRelay --------------------------
(* One connection through redsocks.                                        *)
EXTENDS RedsocksRelay
=============================================================================
