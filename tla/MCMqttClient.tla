---------------------------- MODULE MCMqttClient ----------------------------
(* Model values and symmetry for MqttClient. *)
EXTENDS MqttClient, TLC

CONSTANTS t1, t2

MCTopics == {t1, t2}

MCSymmetry == Permutations(MCTopics)
=============================================================================
