---------------------------- MODULE SampleNumbers ----------------------------
(***************************************************************************)
(* The models of the packing loaders number the samples of a dataset in    *)
(* the order they are drawn, to be able to say where each of them is.      *)
(***************************************************************************)
EXTENDS Integers, Sequences

Numbers(s)    == {s[i].n : i \in DOMAIN s}
Distinct(s)   == \A i, j \in DOMAIN s : s[i].n = s[j].n => i = j
Increasing(s) == \A i, j \in DOMAIN s : i < j => s[i].n < s[j].n
=============================================================================
