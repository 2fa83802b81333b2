--------------------------------- MODULE Relay --------------------------------
(***************************************************************************)
(* One forwarded TCP connection: relayTCPConnection on this host, ForwardPort *)
(* with relayBidi on the remote, the gRPC stream between them, and the two    *)
(* programs at the ends.  Both sides run one goroutine for each direction and  *)
(* take the two results from errCh.                                          *)
(*                                                                          *)
(* A direction is the counts of bytes that passed each of its hops, and how    *)
(* far the end of the stream got.                                            *)
(***************************************************************************)
EXTENDS Naturals

CONSTANT Room    \* bytes a program leaves unread before writing to it blocks

ASSUME RelayAssumption == Room \in Nat \ {0}

VARIABLES
  up,        \* client to server: written by the client, sent, written to the server, read
  down,      \* server to client: written by the server, sent, written to the client, read
  localMain, lu, ld,     \* relayTCPConnection, its reader and its writer
  remoteMain, ru, rd,    \* relayBidi, its goroutine to the server and the one from it
  canceled,              \* streamCtx: by the forward, or by the relay that returns
  localOpen, remoteOpen, \* localConn and conn are not closed
  clientThere, serverThere, \* the programs have not closed their ends altogether
  limit                  \* bounds: bytes to write each way, who may leave

relayVars == <<up, down, localMain, lu, ld, remoteMain, ru, rd, canceled, localOpen,
               remoteOpen, clientThere, serverThere, limit>>

\* end: 0 not ended, 1 by the sender, 2 on the gRPC stream, 3 at the receiver.
NoBytes == [wrote |-> 0, sent |-> 0, got |-> 0, read |-> 0, end |-> 0]

\* The handler has returned, which ends the stream in both directions.
HandlerReturned == remoteMain \in {"returned", "failed"}

StreamCanceled == canceled # "no"
Returning == IF canceled = "forward" THEN "forward" ELSE "return"

-----------------------------------------------------------------------------
(* The programs.                                                             *)

ClientWrites ==
  /\ localMain # "idle" /\ clientThere /\ up.end = 0 /\ up.wrote < limit.up
  /\ up' = [up EXCEPT !.wrote = @ + 1]
  /\ UNCHANGED <<down, localMain, lu, ld, remoteMain, ru, rd, canceled, localOpen, remoteOpen,
                 clientThere, serverThere, limit>>

ClientEnds ==
  /\ localMain # "idle" /\ clientThere /\ up.end = 0
  /\ up' = [up EXCEPT !.end = 1]
  /\ UNCHANGED <<down, localMain, lu, ld, remoteMain, ru, rd, canceled, localOpen, remoteOpen,
                 clientThere, serverThere, limit>>

ClientReads ==
  /\ clientThere /\ down.read < down.got
  /\ down' = [down EXCEPT !.read = @ + 1]
  /\ UNCHANGED <<up, localMain, lu, ld, remoteMain, ru, rd, canceled, localOpen, remoteOpen,
                 clientThere, serverThere, limit>>

\* The client closes its connection or dies.
ClientLeaves ==
  /\ localMain # "idle" /\ clientThere /\ limit.leaves
  /\ clientThere' = FALSE
  /\ UNCHANGED <<up, down, localMain, lu, ld, remoteMain, ru, rd, canceled, localOpen,
                 remoteOpen, serverThere, limit>>

ServerWrites ==
  /\ remoteOpen /\ serverThere /\ down.end = 0 /\ down.wrote < limit.down
  /\ down' = [down EXCEPT !.wrote = @ + 1]
  /\ UNCHANGED <<up, localMain, lu, ld, remoteMain, ru, rd, canceled, localOpen, remoteOpen,
                 clientThere, serverThere, limit>>

ServerEnds ==
  /\ remoteOpen /\ serverThere /\ down.end = 0
  /\ down' = [down EXCEPT !.end = 1]
  /\ UNCHANGED <<up, localMain, lu, ld, remoteMain, ru, rd, canceled, localOpen, remoteOpen,
                 clientThere, serverThere, limit>>

ServerReads ==
  /\ serverThere /\ up.read < up.got
  /\ up' = [up EXCEPT !.read = @ + 1]
  /\ UNCHANGED <<down, localMain, lu, ld, remoteMain, ru, rd, canceled, localOpen, remoteOpen,
                 clientThere, serverThere, limit>>

ServerLeaves ==
  /\ remoteOpen /\ serverThere /\ limit.leaves
  /\ serverThere' = FALSE
  /\ UNCHANGED <<up, down, localMain, lu, ld, remoteMain, ru, rd, canceled, localOpen,
                 remoteOpen, clientThere, limit>>

-----------------------------------------------------------------------------
(* relayTCPConnection.                                                       *)

\* handleTCPForward accepts the connection; the stream is opened and its first
\* message sent, unless the context is canceled or there is no connection.
Accept(connected) ==
  /\ localMain = "idle"
  /\ IF connected
     THEN /\ localMain' = "both" /\ lu' = "run" /\ ld' = "run"
          /\ localOpen' = TRUE
          /\ remoteMain' = "dial"
          /\ UNCHANGED canceled
     ELSE /\ localMain' = "done" /\ canceled' = "forward"
          /\ UNCHANGED <<lu, ld, localOpen, remoteMain>>
  /\ UNCHANGED <<up, down, ru, rd, remoteOpen, clientThere, serverThere, limit>>

\* The forward's relay context is canceled.
CancelRelay ==
  /\ localMain \in {"both", "one", "closing"}
  /\ canceled = "no"
  /\ canceled' = "forward"
  /\ UNCHANGED <<up, down, localMain, lu, ld, remoteMain, ru, rd, localOpen, remoteOpen,
                 clientThere, serverThere, limit>>

\* local -> gRPC.  Read gives bytes, the end, or an error; Send fails once the
\* stream is over.
LocalUp ==
  /\ lu = "run"
  /\ \/ /\ localOpen /\ up.sent < up.wrote /\ clientThere
        /\ IF StreamCanceled \/ HandlerReturned
           THEN lu' = "err" /\ UNCHANGED up
           ELSE up' = [up EXCEPT !.sent = @ + 1] /\ UNCHANGED lu
     \/ /\ localOpen /\ up.sent = up.wrote /\ up.end = 1
        /\ up' = [up EXCEPT !.end = 2]
        /\ lu' = "ok"
     \/ /\ ~localOpen \/ ~clientThere
        /\ lu' = "err"
        /\ UNCHANGED up
  /\ UNCHANGED <<down, localMain, ld, remoteMain, ru, rd, canceled, localOpen, remoteOpen,
                 clientThere, serverThere, limit>>

\* CloseWrite, at the end of the direction d.
CloseWrite(d) == [d EXCEPT !.end = 3]

\* Writing to a program that leaves Room bytes unread blocks.
Blocked(d) == d.sent > d.got /\ d.got - d.read >= Room

\* gRPC -> local.  Recv gives a message, the end when the handler returned
\* without an error, or an error.
LocalDown ==
  /\ ld = "run"
  /\ \/ /\ down.got < down.sent
        /\ IF localOpen /\ clientThere
           THEN /\ ~Blocked(down)
                /\ down' = [down EXCEPT !.got = @ + 1]
                /\ UNCHANGED ld
           ELSE ld' = "err" /\ UNCHANGED down
     \/ /\ remoteMain = "returned" /\ down.got = down.sent /\ ~StreamCanceled
        /\ down' = IF localOpen THEN CloseWrite(down) ELSE down
        /\ ld' = "ok"
     \/ /\ StreamCanceled \/ (remoteMain = "failed" /\ down.got = down.sent)
        /\ Blocked(down) => ~localOpen
        /\ ld' = "err"
        /\ UNCHANGED down
  /\ UNCHANGED <<up, localMain, lu, remoteMain, ru, rd, canceled, localOpen, remoteOpen,
                 clientThere, serverThere, limit>>

\* Mutant: after an error the relay waits for the other direction as it is.
WaitAfterError == localMain' = "closing" /\ UNCHANGED <<localOpen, canceled>>

\* After an error both ends are closed.
CloseAfterError == localMain' = "closing" /\ localOpen' = FALSE /\ canceled' = Returning

\* The results: an error closes both ends at once, and so does the return.
LocalResult ==
  /\ \/ /\ localMain = "both"
        /\ \/ /\ "err" \in {lu, ld}
              /\ CloseAfterError
           \/ /\ "ok" \in {lu, ld}
              /\ localMain' = "one" /\ UNCHANGED <<localOpen, canceled>>
     \/ /\ localMain \in {"one", "closing"}
        /\ lu # "run" /\ ld # "run"
        /\ localMain' = "done" /\ localOpen' = FALSE /\ canceled' = Returning
  /\ UNCHANGED <<up, down, lu, ld, remoteMain, ru, rd, remoteOpen, clientThere, serverThere, limit>>

-----------------------------------------------------------------------------
(* ForwardPort and relayBidi.                                                *)

\* The dial succeeds or fails.
ForwardPort ==
  /\ remoteMain = "dial"
  /\ \/ /\ ~StreamCanceled
        /\ remoteMain' = "both" /\ ru' = "run" /\ rd' = "run" /\ remoteOpen' = TRUE
     \/ remoteMain' = "failed" /\ UNCHANGED <<ru, rd, remoteOpen>>
  /\ UNCHANGED <<up, down, localMain, lu, ld, canceled, localOpen, clientThere, serverThere, limit>>

\* gRPC stream -> network connection.
RemoteUp ==
  /\ ru = "run"
  /\ \/ /\ up.got < up.sent
        /\ IF remoteOpen /\ serverThere
           THEN /\ ~Blocked(up)
                /\ up' = [up EXCEPT !.got = @ + 1]
                /\ UNCHANGED ru
           ELSE ru' = "err" /\ UNCHANGED up
     \/ /\ up.end = 2 /\ up.got = up.sent
        /\ up' = IF remoteOpen THEN CloseWrite(up) ELSE up
        /\ ru' = "ok"
     \/ /\ StreamCanceled \/ HandlerReturned
        /\ Blocked(up) => ~remoteOpen
        /\ ru' = "err"
        /\ UNCHANGED up
  /\ UNCHANGED <<down, localMain, lu, ld, remoteMain, rd, canceled, localOpen, remoteOpen,
                 clientThere, serverThere, limit>>

\* network connection -> gRPC stream.
RemoteDown ==
  /\ rd = "run"
  /\ \/ /\ remoteOpen /\ serverThere /\ down.sent < down.wrote
        /\ IF StreamCanceled \/ HandlerReturned
           THEN rd' = "err" /\ UNCHANGED down
           ELSE down' = [down EXCEPT !.sent = @ + 1] /\ UNCHANGED rd
     \/ /\ remoteOpen /\ down.sent = down.wrote /\ down.end = 1
        /\ rd' = "ok"
        /\ UNCHANGED down
     \/ /\ ~remoteOpen \/ ~serverThere
        /\ rd' = "err"
        /\ UNCHANGED down
  /\ UNCHANGED <<up, localMain, lu, ld, remoteMain, ru, canceled, localOpen, remoteOpen,
                 clientThere, serverThere, limit>>

\* Mutant: the first direction to end ends the relay.
ReturnAtFirst == remoteMain' = "returned" /\ remoteOpen' = FALSE

\* After a clean end of one direction relayBidi waits for the other.
WaitForSecond == remoteMain' = "one" /\ UNCHANGED remoteOpen

RemoteResult ==
  /\ \/ /\ remoteMain = "both"
        /\ \/ "err" \in {ru, rd} /\ remoteMain' = "failed" /\ remoteOpen' = FALSE
           \/ "ok" \in {ru, rd} /\ WaitForSecond
     \/ /\ remoteMain = "one"
        /\ ru # "run" /\ rd # "run"
        /\ remoteMain' = (IF "err" \in {ru, rd} THEN "failed" ELSE "returned")
        /\ remoteOpen' = FALSE
  /\ UNCHANGED <<up, down, localMain, lu, ld, ru, rd, canceled, localOpen, clientThere,
                 serverThere, limit>>

-----------------------------------------------------------------------------
RelayInit ==
  /\ up = NoBytes /\ down = NoBytes
  /\ localMain = "idle" /\ lu = "none" /\ ld = "none"
  /\ remoteMain = "none" /\ ru = "none" /\ rd = "none"
  /\ canceled = "no" /\ localOpen = FALSE /\ remoteOpen = FALSE
  /\ clientThere = TRUE /\ serverThere = TRUE

RelaySteps ==
  LocalUp \/ LocalDown \/ LocalResult \/ ForwardPort \/ RemoteUp \/ RemoteDown \/ RemoteResult

\* Programs that use the connection as TCP programs do read what they get.
ProgramsRead == ClientReads \/ ServerReads

ProgramsAct ==
  ClientWrites \/ ClientEnds \/ ClientLeaves \/ ServerWrites \/ ServerEnds \/ ServerLeaves

-----------------------------------------------------------------------------
(* Properties.                                                               *)

Direction(max) == [wrote : 0..max, sent : 0..max, got : 0..max, read : 0..max, end : 0..3]

RelayTypeOK ==
  /\ up \in Direction(limit.up) /\ down \in Direction(limit.down)
  /\ localMain \in {"idle", "both", "one", "closing", "done"}
  /\ remoteMain \in {"none", "dial", "both", "one", "returned", "failed"}
  /\ {lu, ld, ru, rd} \subseteq {"none", "run", "ok", "err"}
  /\ canceled \in {"no", "forward", "return"}
  /\ {localOpen, remoteOpen, clientThere, serverThere} \subseteq BOOLEAN

\* The program at the end of a direction is shown the end of the stream, by
\* CloseWrite or by the connection being closed.
ServerSawEnd == up.end = 3 \/ (HandlerReturned /\ ru # "none")
ClientSawEnd == down.end = 3 \/ (localMain \in {"closing", "done"} /\ ld # "none")

\* The connection was not simply used to its end.
Severed ==
  \/ canceled = "forward" \/ remoteMain = "failed" \/ "err" \in {lu, ld, ru, rd}
  \/ ~clientThere \/ ~serverThere

Up == INSTANCE Wire WITH wrote <- up.wrote, fin <- up.end > 0, got <- up.got,
                         eof <- ServerSawEnd, cut <- Severed
Down == INSTANCE Wire WITH wrote <- down.wrote, fin <- down.end > 0, got <- down.got,
                           eof <- ClientSawEnd, cut <- Severed

\* Each direction of the relay is a wire: no byte is lost or repeated, and a
\* program is shown the end of the stream only after all its bytes, unless
\* the connection was severed (remote_daemon.go:1559, relayBidi).
UpIsWire == Up!WireSpec
DownIsWire == Down!WireSpec

\* No goroutine can take a step, and the programs have read what they were
\* sent: what a fair run comes to between two acts of the programs, since
\* each step moves a byte, an end or a result on.
RelayAtRest == ~ENABLED (RelaySteps \/ ProgramsRead)

\* A client that ends its side after its request has the server see that end,
\* as "HTTP request then close write, wait for response" needs
\* (server_grpc_port_forward.go:149), unless the connection is severed.
RequestEndReaches == RelayAtRest /\ up.end > 0 => up.end = 3 \/ Severed

WaitsForServer == remoteMain = "one" /\ ru = "ok" /\ rd = "run" /\ serverThere

\* Once both programs have ended their sides, or the forward cancels the
\* relay, or one goroutine fails, relayTCPConnection returns, which is what
\* Close waits for; and relayBidi returns too, unless it waits for the second
\* direction (server_grpc_port_forward.go:245), where it does not look at its
\* stream and stays until the server writes, ends or goes away.
RelayEnds ==
  RelayAtRest =>
    /\ (\/ up.end > 0 /\ down.end > 0
        \/ canceled = "forward" \/ "err" \in {lu, ld, ru, rd}) => localMain = "done"
    /\ localMain = "done" => remoteMain = "none" \/ HandlerReturned \/ WaitsForServer
===============================================================================
