------------------------- MODULE MCWebsocketClient -------------------------
(* Values of the constants for TLC.                                        *)
EXTENDS WebsocketClient

CONSTANTS p, q
=============================================================================
