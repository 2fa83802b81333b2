---------------------------- MODULE MCCommandLife -----------------------------
(* An instance of CommandLife for TLC.                                        *)
EXTENDS CommandLife

CONSTANTS c1, c2, h1, h2
===============================================================================
