------------------------------ MODULE MCWsSession ------------------------------
(* Small instances of the websocket session.                               *)
EXTENDS WsSession

Mode(m, o) == [merciful |-> m, orderly |-> o]

\* Orderly clients with and without merciful reconnect; anything at all with it.
EveryMode == {Mode(FALSE, TRUE), Mode(TRUE, TRUE), Mode(TRUE, FALSE)}
MercifulMode == {Mode(TRUE, TRUE)}
=============================================================================
