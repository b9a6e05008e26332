------------------------------ MODULE MC_GrpcRun ------------------------------
(* One Run stream.  MaxEntries = 10 lets every protocol run to its end;    *)
(* ChanCap = 2 holds a whole engine call (Sending and its outcome).       *)
EXTENDS GrpcRun

CONSTANT k1

MCMaxEntries == 10
MCChanCap == 2
=============================================================================
