-------------------------- MODULE MCSurfaceBuffer --------------------------
(* Shared memory for the CPU (volatile), and video memory: pools that CPU  *)
(* and GPU can map ("video"), or the GPU only, with functions to read and  *)
(* write them ("local").                                                   *)
EXTENDS SurfaceBuffer

RW == {"read", "write"}

MCPoolAccess ==
    [p \in Pools |-> [CPU |-> IF p = "local" THEN {} ELSE RW, GPU |-> IF p = "shared" THEN {} ELSE RW]]

MCCallable == [p \in Pools |-> IF p = "local" THEN RW ELSE {}]

MCBackup == [p \in Pools |-> IF p = "shared" THEN NULL ELSE "shared"]

MCSetups == {s \in AllSetups : ~ (s.thrifty /\ s.faults)}

Symmetry == {[c \in Clients |-> IF c = x THEN y ELSE IF c = y THEN x ELSE c] : x \in Clients, y \in Clients}
=============================================================================
