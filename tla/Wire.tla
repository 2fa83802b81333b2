--------------------------------- MODULE Wire ---------------------------------
(***************************************************************************)
(* What one direction of a forwarded TCP connection promises to the two      *)
(* programs at its ends: the bytes written arrive in order, each once, and    *)
(* the end of the stream arrives after all of them; or the connection is cut,  *)
(* and then what has arrived is still a prefix.  Bytes are counted: that the   *)
(* n-th to arrive is the n-th written is what a queue of the bytes would say.  *)
(***************************************************************************)
EXTENDS Naturals

VARIABLES
  wrote, fin,     \* written by the sender; the sender has ended its stream
  got, eof,       \* arrived at the receiver; it has been shown the end
  cut             \* the connection was cut

wireVars == <<wrote, fin, got, eof, cut>>

WireInit == wrote = 0 /\ got = 0 /\ ~fin /\ ~eof /\ ~cut

Write == ~fin /\ wrote' = wrote + 1 /\ UNCHANGED <<fin, got, eof, cut>>
Finish == ~fin /\ fin' = TRUE /\ UNCHANGED <<wrote, got, eof, cut>>
Arrives == ~eof /\ got < wrote /\ got' = got + 1 /\ UNCHANGED <<wrote, fin, eof, cut>>
EndArrives == (cut \/ (fin /\ got = wrote)) /\ ~eof /\ eof' = TRUE /\ UNCHANGED <<wrote, fin, got, cut>>
Cut == ~cut /\ cut' = TRUE /\ UNCHANGED <<wrote, fin, got, eof>>

WireNext == Write \/ Finish \/ Arrives \/ EndArrives \/ Cut

WireSpec == WireInit /\ [][WireNext]_wireVars
===============================================================================
