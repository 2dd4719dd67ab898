-------------------------------- MODULE MCWifi --------------------------------
(* A TLC instance of Wifi.                                                 *)
EXTENDS Wifi
=============================================================================
