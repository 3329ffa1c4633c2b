---------------------------- MODULE MCKernelLog ----------------------------
(* KernelLog with one or two CPUs besides the boot CPU.                      *)
EXTENDS KernelLog

OneAp  == {"ap1"}
TwoAps == {"ap1", "ap2"}
=============================================================================
