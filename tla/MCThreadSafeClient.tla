------------------------- MODULE MCThreadSafeClient -------------------------
(* Model values for ThreadSafeClient. *)
EXTENDS ThreadSafeClient

CONSTANTS t1

MCTopics == {t1}
=============================================================================
