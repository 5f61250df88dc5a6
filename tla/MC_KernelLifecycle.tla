------------------------- MODULE MC_KernelLifecycle -------------------------
(***************************************************************************)
(* Model-checking instances of KernelLifecycle: a few Kernel and           *)
(* SharedArray objects, and the sizes of the real build (a short kernel,  *)
(* MAX_KERNEL_PARAMS = 128, 4 KiB pages).                                  *)
(***************************************************************************)
EXTENDS KernelLifecycle

\* The QPU counts spec 5 allows on v3d, and every count setNumQPUs accepts
\* up to the v3d maximum.
SpecQPUCounts == {1, 8}
AnyQPUCounts == 1..8
=============================================================================
