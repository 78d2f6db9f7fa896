---------------------------- MODULE MCIngestJobs ----------------------------
(***************************************************************************)
(* Two uploads with the same content: two jobs, one digest.                *)
(***************************************************************************)
EXTENDS IngestJobs

MCDigestOf == [j \in Jobs |-> CHOOSE d \in Digests : TRUE]
=============================================================================
