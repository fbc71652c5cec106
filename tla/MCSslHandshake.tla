--------------------------- MODULE MCSslHandshake ---------------------------
(***************************************************************************)
(* The handshake with the flights of TLS 1.3 (the server writes tickets    *)
(* last, after which it is done; the client is done with its Finished) and *)
(* of TLS 1.2 (the client waits for the Finished of the server).           *)
(***************************************************************************)
EXTENDS SslHandshake

Flights == <<"client", "server", "client", "server">>

Sizes == <<1, 3, 2, 2>>

Tls13 == [e \in Endpoint |-> IF e = "client" THEN 3 ELSE 4]

Tls12 == [e \in Endpoint |-> 4]

BothVersions == {Tls13, Tls12}
=============================================================================
