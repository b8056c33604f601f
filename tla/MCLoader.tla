----------------------------- MODULE MCLoader -----------------------------
(***************************************************************************)
(* Instances of Loader for TLC.                                            *)
(***************************************************************************)
EXTENDS Loader

CONSTANTS r1, r2, poison, day

MCRows == {r1, r2, poison}

Counts(b, v, q) ==
    {[batch |-> b, key |-> day, input |-> v + q, valid |-> v, quarantine |-> q]}

Sound(b) == [valid |-> {r1, r2}, manifest |-> Counts(b, 2, 1)]
OneRow(b) == [valid |-> {r2}, manifest |-> Counts(b, 1, 0)]
Unconvertible(b) == [valid |-> {r1, poison}, manifest |-> Counts(b, 2, 0)]

(* The valid files are not those the manifest counts: a manifest left over from
   an earlier landing of the batch. *)
RowMissing(b) == [valid |-> {r1}, manifest |-> Counts(b, 2, 0)]
RowsUncounted(b) == [valid |-> {r1}, manifest |-> Counts(b, 0, 2)]
Deleted(b) == [valid |-> {r1}, manifest |-> {}]

(* Three batches. The first two in the list may both be of those that never load, as
   many as a run takes; the last one can always be loaded. *)
MCLandings ==
    [b \in Batch |->
        CASE b = <<"labels", 0>> -> {Sound(b), RowsUncounted(b), Deleted(b)}
          [] b = <<"transactions", 0>> -> {Sound(b), Unconvertible(b), RowMissing(b)}
          [] b = <<"transactions", 1>> -> {OneRow(b)}
          [] OTHER -> {}]
=============================================================================
