----------------------------- MODULE MCEnrichment -----------------------------
(* A small instance of Enrichment for TLC. *)
EXTENDS Enrichment

\* An analysis whose context has been inferred and is final.
FinalAnalyses == {FinalizeContext(InferContext(NewAnalysis))}
=============================================================================
