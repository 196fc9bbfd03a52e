---------------------------- MODULE MCSampleSort ----------------------------
(***************************************************************************)
(* Inputs of SampleSort for TLC: equal values, values beyond the last      *)
(* splitter, and fewer values than buckets.                                *)
(***************************************************************************)
EXTENDS SampleSort

MCInputs == {<<3, 1, 3, 2>>, <<9, 1>>}

=============================================================================
