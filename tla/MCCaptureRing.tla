--------------------------- MODULE MCCaptureRing ---------------------------
(* Small instances of CaptureRing for TLC. *)
EXTENDS CaptureRing

CONSTANTS http, dns  \* model values: two port keys

MCPorts == {http, dns}
=============================================================================
