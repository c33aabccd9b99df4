----------------------------- MODULE RelayFee ------------------------------
(***************************************************************************)
(* GetTrumpowMinRelayFee step by step (trumpow-fees.cpp, lines 68-96).     *)
(* The function reads the deltas of the transaction in a block that holds  *)
(* mempool.cs, leaves the block, and computes the fee with the lock        *)
(* released; prioritisetransaction, served by another thread, changes the  *)
(* two deltas under the same lock, one store after the other.              *)
(*                                                                         *)
(* FeeRate describes the function as one step.  This module shows that the *)
(* steps of the code implement it: FeeRate's specification, read with the  *)
(* deltas as the last critical section left them and with the answer the   *)
(* unlocked part is about to return, is a property of RelaySpec.           *)
(***************************************************************************)
EXTENDS FeeRate

VARIABLES
    pc,         \* where the thread that asks for fees stands
    cs,         \* the critical section of PrioritiseTransaction that
                \* holds mempool.cs, or NoSection
    committed   \* mapDeltas as the last completed critical section left it

relayVars == <<vars, pc, cs, committed>>

NoSection == [hash |-> "none"]

\* The value of answer while a call has not returned.
NoAnswer == 0

----------------------------------------------------------------------------
(* PrioritiseTransaction under mempool.cs.                                 *)

\* LOCK(cs); deltas.first += dPriorityDelta;
PrioritiseStorePriority(hash, dPriorityDelta, nFeeDelta) ==
    /\ cs = NoSection
    /\ Bounded(hash, dPriorityDelta, nFeeDelta)
    /\ mapDeltas' = Stored(hash, Raised(hash, dPriorityDelta, 0))
    /\ cs' = [hash |-> hash, nFeeDelta |-> nFeeDelta]
    /\ UNCHANGED <<settings, call, answer, pc, committed>>

\* deltas.second += nFeeDelta; and the lock is released.
PrioritiseStoreFee ==
    /\ cs # NoSection
    /\ mapDeltas' = Stored(cs.hash, Raised(cs.hash, 0, cs.nFeeDelta))
    /\ committed' = mapDeltas'
    /\ cs' = NoSection
    /\ UNCHANGED <<settings, call, answer, pc>>

----------------------------------------------------------------------------
(* GetTrumpowMinRelayFee.                                                  *)

\* Mutation of MinRelayFeeLocked: the deltas are read without mempool.cs.
MinRelayFeeLockedWithoutLock(tx, nBytes, fAllowFree) ==
    /\ pc = "idle"
    /\ call' = [op |-> "GetTrumpowMinRelayFee", tx |-> tx, nBytes |-> nBytes,
                fAllowFree |-> fAllowFree]
    /\ IF Prioritised(ApplyDeltas(tx.hash))
       THEN answer' = 0 /\ pc' = "idle"
       ELSE answer' = NoAnswer /\ pc' = "unlocked"
    /\ UNCHANGED <<settings, mapDeltas, cs, committed>>

\* Lines 70-78: the block that holds mempool.cs.  A prioritised transaction
\* is relayed free and the function returns inside the block.
MinRelayFeeLocked(tx, nBytes, fAllowFree) ==
    /\ pc = "idle"
    /\ cs = NoSection
    /\ call' = [op |-> "GetTrumpowMinRelayFee", tx |-> tx, nBytes |-> nBytes,
                fAllowFree |-> fAllowFree]
    /\ IF Prioritised(ApplyDeltas(tx.hash))
       THEN answer' = 0 /\ pc' = "idle"
       ELSE answer' = NoAnswer /\ pc' = "unlocked"
    /\ UNCHANGED <<settings, mapDeltas, cs, committed>>

\* Lines 80-95: the fee, computed and returned with the lock released.
MinRelayFeeUnlocked ==
    /\ pc = "unlocked"
    /\ answer' = MinFee(call.tx, call.nBytes, call.fAllowFree)
    /\ pc' = "idle"
    /\ UNCHANGED <<settings, mapDeltas, call, cs, committed>>

----------------------------------------------------------------------------
(* The specification.                                                      *)

RelayInit ==
    /\ Init
    /\ pc = "idle"
    /\ cs = NoSection
    /\ committed = mapDeltas

\* The thread that asks for fees makes one call at a time; the thread of
\* prioritisetransaction runs beside it.
RelayNext ==
    \/ \E tx \in Transactions, p \in Steps(PriorityDeltas), f \in Steps(FeeDeltas) :
          PrioritiseStorePriority(tx.hash, p, f)
    \/ PrioritiseStoreFee
    \/ \E tx \in Transactions, nBytes \in Sizes, fAllowFree \in BOOLEAN :
          MinRelayFeeLocked(tx, nBytes, fAllowFree)
    \/ MinRelayFeeUnlocked

RelaySpec == RelayInit /\ [][RelayNext]_relayVars

----------------------------------------------------------------------------
(* The refinement mapping and the properties.                              *)

\* The answer of the call in progress: what the unlocked part returns.  It
\* is fixed when the block of mempool.cs is left, since the rest of the
\* function reads the settings and the transaction only.
Linearized ==
    IF pc = "unlocked" THEN MinFee(call.tx, call.nBytes, call.fAllowFree)
    ELSE answer

Abs == INSTANCE FeeRate WITH mapDeltas <- committed, answer <- Linearized

\* The type invariant: FeeRate's, of the committed deltas and the answer a
\* call returns, and the shape of the three variables of this module.
RelayTypeOK ==
    /\ pc \in {"idle", "unlocked"}
    /\ \/ cs = NoSection
       \/ cs.hash \in DOMAIN mapDeltas /\ cs.nFeeDelta \in Steps(FeeDeltas)
    /\ DOMAIN committed \subseteq DOMAIN mapDeltas
    /\ pc = "unlocked" => call.op = "GetTrumpowMinRelayFee" /\ answer = NoAnswer
    /\ Abs!TypeOK

\* GetTrumpowMinRelayFee is atomic: every behaviour of the steps of the
\* code is a behaviour of the one-step function of FeeRate, taken when the
\* block of mempool.cs is left, whatever prioritisetransaction does before,
\* between and after the two parts of a call.  The answer is the fee of
\* one pair of deltas that PrioritiseTransaction really left behind, never
\* of a priority delta already stored with a fee delta yet to come
\* (trumpow-fees.cpp, lines 70-78, with the rest of the function outside
\* the lock, lines 80-95).
MinRelayFeeIsAtomic == Abs!Spec

=============================================================================
