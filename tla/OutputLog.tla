------------------------------- MODULE OutputLog -------------------------------
(***************************************************************************)
(* What a managed command's output buffer promises its readers, without the *)
(* buffer: an append-only log of which a bounded window is replayable.      *)
(* Lossless logs move the window only past confirmed output; every reader   *)
(* sees a contiguous piece of the log from the point it attached at.        *)
(***************************************************************************)
EXTENDS Integers, Sequences

CONSTANTS Capacity, Pumps

VARIABLES
  log,        \* everything the command wrote and the buffer accepted
  low,        \* offset of the first replayable byte
  confirmed,  \* highest offset a consumer acknowledged
  sealed,     \* no more output will be accepted
  lossless,   \* unconfirmed output may not be given up
  view        \* what each reader has received since it attached

logVars == <<log, low, confirmed, sealed, lossless, view>>

NoView == [from |-> 0, got |-> <<>>, done |-> FALSE]

Position(v) == v.from + Len(v.got)

Init ==
  /\ log = <<>>
  /\ low = 0
  /\ confirmed = 0
  /\ ~sealed
  /\ lossless \in BOOLEAN
  /\ view = [p \in Pumps |-> NoView]

Extend ==
  /\ ~sealed
  /\ Len(log') > Len(log)
  /\ SubSeq(log', 1, Len(log)) = log
  /\ low' >= low
  /\ low' <= Len(log')
  /\ Len(log') - low' <= Capacity
  /\ lossless => low' = low \/ low' <= confirmed
  /\ UNCHANGED <<confirmed, sealed, lossless, view>>

Seal ==
  /\ sealed' = TRUE
  /\ UNCHANGED <<log, low, confirmed, lossless, view>>

Confirm ==
  /\ confirmed' > confirmed
  /\ confirmed' <= Len(log)
  /\ UNCHANGED <<log, low, sealed, lossless, view>>

Begin(p) ==
  /\ \E from \in low .. Len(log) : view' = [view EXCEPT ![p] = [NoView EXCEPT !.from = from]]
  /\ UNCHANGED <<log, low, confirmed, sealed, lossless>>

\* Only retained bytes can be sent, and they are sent in order.
Deliver(p) ==
  /\ low <= Position(view[p])
  /\ \E upto \in Position(view[p]) + 1 .. Len(log) :
       view' = [view EXCEPT ![p].got = @ \o SubSeq(log, Position(view[p]) + 1, upto)]
  /\ UNCHANGED <<log, low, confirmed, sealed, lossless>>

Finish(p) ==
  /\ sealed
  /\ Position(view[p]) = Len(log)
  /\ view' = [view EXCEPT ![p].done = TRUE]
  /\ UNCHANGED <<log, low, confirmed, sealed, lossless>>

Leave(p) ==
  /\ view' = [view EXCEPT ![p] = NoView]
  /\ UNCHANGED <<log, low, confirmed, sealed, lossless>>

Next ==
  \/ Extend
  \/ Seal
  \/ Confirm
  \/ \E p \in Pumps : Begin(p) \/ Deliver(p) \/ Finish(p) \/ Leave(p)

Spec == Init /\ [][Next]_logVars
===============================================================================
