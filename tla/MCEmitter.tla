----------------------------- MODULE MCEmitter -----------------------------
(***************************************************************************)
(* Every batch over the mappings of the cfg: a mapping may be upserted and *)
(* deleted by the same batch.                                              *)
(***************************************************************************)
EXTENDS Emitter

MCBatches == [upserts : SUBSET Mappings, deletes : SUBSET Mappings]
=============================================================================
