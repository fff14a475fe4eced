----------------------------- MODULE MCTxnStore -----------------------------
(***************************************************************************)
(* Small instances of TxnStore, of MemoryKvStore and of KvEngineStore in   *)
(* one run: the first state chooses.  The properties are those of the      *)
(* module for the memory store (Engine = FALSE); the ones that do not read *)
(* through a snapshot or a scan are the same for both.  Savepoint names    *)
(* "a" and "A" are the same name to the program.                           *)
(***************************************************************************)
EXTENDS TxnStore, TLC

VARIABLE engine    \* the store of this behaviour is KvEngineStore

MCLower == [n \in Names |-> IF n = "A" THEN "a" ELSE n]

Storage == INSTANCE TxnStore WITH Engine <- TRUE

StoreInit == engine \in BOOLEAN /\ Init
StoreNext ==
  \/ ~engine /\ Next /\ UNCHANGED engine
  \/ engine /\ Storage!Next /\ UNCHANGED engine

StoreSpec == StoreInit /\ [][StoreNext]_<<vars, engine>>

Symmetry == Permutations(Txns)
=============================================================================
