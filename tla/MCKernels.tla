----------------------------- MODULE MCKernels -----------------------------
(***************************************************************************)
(* The two algorithms every session rests on, each with its reference: the *)
(* event queue and the validator.  They share no state; a behaviour works  *)
(* on one of them or on the other.                                         *)
(***************************************************************************)
EXTENDS EventHeap, ValidatorReference

\* Two times, two priorities, and two requests that differ in nothing else than their label.
SmallRequests == [time : 0 .. 1, prio : {EmergencyControl, TimeoutPriority}, label : {"a", "b"}]

kernelVars == <<heapVars, candidate>>

KernelInit == HeapInit /\ candidate = <<>>

HeapStep == candidate = <<>> /\ HeapNext /\ UNCHANGED candidate
ValidatorStep == HeapInit /\ AddCommand /\ UNCHANGED heapVars

KernelSpec == KernelInit /\ [][HeapStep \/ ValidatorStep]_kernelVars
=============================================================================
