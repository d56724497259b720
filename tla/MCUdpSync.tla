------------------------------ MODULE MCUdpSync ------------------------------
(* Small instances of UdpSync for TLC. *)
EXTENDS UdpSync
=============================================================================
