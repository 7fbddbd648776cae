---------------------------- MODULE AtomicImport ----------------------------
(***************************************************************************)
(* What an importer promises to the rest of scan-service, forgetting how   *)
(* it keeps the promise.  The collections "head" and everything reachable  *)
(* from it are the only interface between the sync processes: the block    *)
(* reviewers (script engine, NFT, rebase), the metric command and the REST *)
(* API look at a block only once some head has passed it.                  *)
(*                                                                         *)
(* A block therefore becomes visible in one step, together with every      *)
(* other block of the batch it was saved in, and never changes afterwards. *)
(***************************************************************************)
EXTENDS Integers

CONSTANT MaxBlock    \* the highest block number of the chain considered

VARIABLES tip,       \* the number stored in the importer's head, -1 if there is none
          visible    \* the blocks at or below the tip whose rows are all stored

absVars == <<tip, visible>>

Block == 0..MaxBlock

AbsTypeOK == /\ tip \in -1..MaxBlock
             /\ visible \subseteq 0..tip

\* A database that has never been synchronised, or one that is complete so far.
AbsInit == /\ tip \in -1..MaxBlock
           /\ visible = 0..tip

(***************************************************************************)
(* One batch.  The block the tip moves to is always part of it; a block of *)
(* the window the chain node did not answer for may be missing.            *)
(***************************************************************************)
ImportBatch == \E n \in (tip + 1)..MaxBlock :
                 \E batch \in SUBSET ((tip + 1)..n) :
                    /\ n \in batch
                    /\ tip' = n
                    /\ visible' = visible \cup batch

AbsSpec == AbsInit /\ [][ImportBatch]_absVars
=============================================================================
