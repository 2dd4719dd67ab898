-------------------------------- MODULE MCMqtt --------------------------------
(* TLC instances of Mqtt.                                                  *)
EXTENDS Mqtt
=============================================================================
