------------------------ MODULE JsonRpcProbeContract ------------------------
(***************************************************************************)
(* ProbeJSONRPC (module JsonRpcProbe) as an implementation of the abstract *)
(* ProbeContract.  The refinement mapping keeps the parameters, the series *)
(* and the outcome, and counts the descriptors reported by the loop index: *)
(* in both modes, descriptors 1..i-1 have had their series set.            *)
(***************************************************************************)
EXTENDS JsonRpcProbe

Contract == INSTANCE ProbeContract WITH reported <- i - 1

(***************************************************************************)
(* Every behaviour of the prober, sequential or batched, is a behaviour of *)
(* the contract: each step of lines 243-387 either leaves the observable   *)
(* state alone, sets the series of exactly the next descriptor, returns    *)
(* true after the last one, or returns false or panics.                    *)
(***************************************************************************)
ImplementsContract == Contract!ContractSpec

=============================================================================
