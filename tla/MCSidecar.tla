----------------------------- MODULE MCSidecar -----------------------------
(* The first start and a restart, which the user may press at any time;    *)
(* the main thread stops the relay any number of times.                    *)
EXTENDS Sidecar

CONSTANT again
=============================================================================
