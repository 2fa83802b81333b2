--------------------------- MODULE MCCommandStream ---------------------------
(* Instances of CommandStream for TLC.                                        *)
EXTENDS CommandStream, TLC

CONSTANTS out, err

\* A command that writes nout and nerr bytes over at most breaks breaks.
Load(nout, nerr, breaks) ==
  [len |-> [s \in Streams |-> IF s = out THEN nout ELSE nerr], until |-> "output", held |-> FALSE,
   fails |-> FALSE, stdinEnds |-> FALSE, breaks |-> breaks, signals |-> 0]

\* A silent command that reads until EOF; the input ends and a signal is sent.
Reader == [Load(0, 0, 1) EXCEPT !.until = "stdin", !.stdinEnds = TRUE, !.signals = 1]

\* More output than ring, drain buffer and pipe hold; more than a ring holds,
\* over a break; output on both streams; two breaks of a silent command; a
\* descendant that keeps the pipe open past an input that ended, and one whose
\* command cannot be waited for.
StreamLoads ==
  {Load(6, 0, 0), Load(3, 0, 1), Load(1, 1, 1), Load(0, 0, 2), Reader,
   [Load(3, 0, 0) EXCEPT !.held = TRUE, !.stdinEnds = TRUE],
   [Load(1, 0, 1) EXCEPT !.held = TRUE, !.fails = TRUE]}
===============================================================================
