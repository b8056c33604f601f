---------------------------- MODULE MCIngestion ----------------------------
(***************************************************************************)
(* Instances of Ingestion for TLC.                                         *)
(***************************************************************************)
EXTENDS Ingestion

CONSTANTS s1, foreign, day, unknown

Sent(schema, payload) ==
    [frame |-> "framed", schema |-> schema, payload |-> payload, key |-> day]

MCMessages == {Sent(s1, "valid"), Sent(foreign, "valid")}
=============================================================================
