---------------------------- MODULE MC_CloudAgent ----------------------------
(* Two goroutines suffice for every race of an unlocked check-then-act: *)
(* each may call WorkerEA(), AttachSAImpl or CallEA.                    *)
EXTENDS CloudAgent

CONSTANTS t1, t2

MCThreads == {t1, t2}
=============================================================================
