-------------------------- MODULE MCNativeProducer --------------------------
(***************************************************************************)
(* An instance of NativeProducer: as many runs as can be created by one    *)
(* dispatch of the job and by the MaxFaults doings of others.              *)
(***************************************************************************)
EXTENDS NativeProducer

Numbers == 1 .. MaxFaults + 1
=============================================================================
