---------------------------- MODULE MCRemoteDaemon -----------------------------
(* An instance of RemoteDaemon for TLC.                                       *)
EXTENDS RemoteDaemon

CONSTANTS i, r1, r2, n1, n2, n3
===============================================================================
