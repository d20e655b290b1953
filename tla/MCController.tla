---------------------------- MODULE MCController ----------------------------
(* Model values and symmetry for Controller. *)
EXTENDS Controller, TLC

CONSTANTS k1, k2, a1, v1, v2, bad, rpc

MCTelemetryKeys == {k1, k2}
MCAttributeKeys == {a1}
MCValues == {v1, v2}
MCValuesWithBad == {v1, bad}
MCAllValues == {v1, v2, bad}
MCBadValues == {bad}
MCTopics == {rpc}

MCSymmetry == Permutations(MCTelemetryKeys) \cup Permutations(MCValues)
=============================================================================
