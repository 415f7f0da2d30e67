------------------------------- MODULE MCTls --------------------------------
(* Small instance of Tls: two connections, each sending buffers of two cells  *)
(* that SSL_write() may accept in parts.                                      *)
EXTENDS Tls

MCBufs == {<<"a", "b">>}
=============================================================================
