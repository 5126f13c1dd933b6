---------------------------- MODULE MCMqttClient ----------------------------
(* Instances of MqttClient for TLC. *)
EXTENDS MqttClient

TwoIds == {1, 2}

=============================================================================
