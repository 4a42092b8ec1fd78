--------------------------- MODULE MCScanPipeline ---------------------------
(***************************************************************************)
(* Small instances of ScanPipeline: two uploads, two workers.              *)
(***************************************************************************)
EXTENDS ScanPipeline, TLC

CONSTANT crate

Crated == [product |-> TRUE, batch |-> crate]
Bare   == [product |-> FALSE, batch |-> None]

\* A batch that both scans may name, a product alone, and neither.
MCUploads  == {Crated, [Bare EXCEPT !.product = TRUE], Bare}
TwoUploads == {Crated, Bare}

Interchangeable == Permutations(Scans) \union Permutations(Workers)
=============================================================================
