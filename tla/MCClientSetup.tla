--------------------------- MODULE MCClientSetup ---------------------------
(* Clients and configurations for ClientSetup: no two of them alike in     *)
(* what configure() makes of them.                                         *)
EXTENDS ClientSetup, TLC

CONSTANTS c1, c2

MCClients == {c1, c2}
MCSymmetry == Permutations(MCClients)

Config(id, user, ssl) == [id |-> id, user |-> user, ssl |-> ssl]

MCConfigs ==
  {Config("good", "good", "good"), Config("good", "other", "good"), Config("good", "none", "good"),
   Config("good", "good", "absent"), Config("good", "bad", "good"),
   Config("good", "none", "bad"), Config("bad", "none", "good")}
=============================================================================
