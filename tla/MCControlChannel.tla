-------------------------- MODULE MCControlChannel --------------------------
(* TLC instances of ControlChannel. *)
EXTENDS ControlChannel

\* A TLS handshake in four flights, the server's hello in three records.
FourFlights == <<1, 3, 2, 4>>
=============================================================================
