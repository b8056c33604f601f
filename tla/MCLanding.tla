----------------------------- MODULE MCLanding -----------------------------
(***************************************************************************)
(* Instances of Landing for TLC.                                           *)
(***************************************************************************)
EXTENDS Landing

CONSTANTS s1, s2, foreign, day, unknown

Sent(schema, payload) ==
    [frame |-> "framed", schema |-> schema, payload |-> payload, key |-> day]

(* A message of each schema, and one for each way out of the valid path: the
   framing, an id of another subject, the decoder, the validation. *)
MCMessages ==
    {Sent(s1, "valid"), Sent(s2, "valid"), Sent(foreign, "valid"),
     Sent(s1, "undecodable"), Sent(s1, "INVALID_STEP"),
     [frame |-> "null", schema |-> foreign, payload |-> "valid", key |-> day]}

MCFewMessages == {Sent(s1, "valid"), Sent(s2, "valid")}
=============================================================================
