-------------------------- MODULE MCCorpusIngestion ------------------------
(* Instances of CorpusIngestion for TLC: the uploads run the same program. *)
EXTENDS CorpusIngestion, TLC

UploaderSymmetry == Permutations(Uploaders)
=============================================================================
