------------------------------ MODULE MCProxy ------------------------------
(* Proxy on a small instance: the token of the client's first command is    *)
(* also the token of the first redirection that the server sends itself.    *)
EXTENDS Proxy
=============================================================================
