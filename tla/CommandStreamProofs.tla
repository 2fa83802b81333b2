-------------------------- MODULE CommandStreamProofs --------------------------
(***************************************************************************)
(* Proofs about CommandStream, for any number of streams, any loads, ring    *)
(* capacity, window, ack interval and number of handlers: the consumer of a  *)
(* command's output is given it in order and once, whatever the transport    *)
(* does (Delivery).                                                          *)
(*                                                                           *)
(* Delivery speaks of the two ends only.  What makes it inductive            *)
(* (StreamInv) is what is between them: each handler has sent exactly what   *)
(* the rings hold below its offsets (Pumped); the messages in flight on the  *)
(* stream that the client reads are a chain that goes on at the client's     *)
(* offsets, without a hole, and up to the handler's offsets unless the       *)
(* stream died (Flow); an exit status in flight is the last message, of a    *)
(* handler that has sent all of two closed rings (ExitLast); a client that   *)
(* waits for an Attached reply finds it first (AttachFlow); and every ack on *)
(* its way confirms only what is consumed (AcksOK), so that a lossless ring  *)
(* never evicts what a re-attach would ask for (Supplied).                   *)
(***************************************************************************)
EXTENDS CommandStream, RingBufferProofs

Offsets == [Streams -> Nat]

\* What the client sends and what a handler sends.
Requests == [type : {"ack"}, offset : Offsets] \cup [type : {"eof", "signal"}]
Replies ==
  [type : {"data"}, stream : Streams, bytes : Seq(Nat)] \cup [type : {"exit"}]
    \cup [type : {"attached"}, offset : Offsets]

SessionType ==
  [state : {"unused", "serving", "removing", "ended"}, link : BOOLEAN, up : Seq(Requests), down : Seq(Replies),
   sendClosed : BOOLEAN, offset : Offsets, pump : [Streams -> {"tail", "eof", "stopped"}], stop : BOOLEAN,
   input : {"recv", "ended"}]

ClientFields ==
  {"pc", "cur", "new", "offset", "got", "acked", "stdinDone", "closing", "replay", "signals", "pending", "flush", "result"}

\* The state of the command: what its pipes, its drain goroutines and its rings
\* hold, when consumed is what its consumer has.
Supplied(r, d, tk, wr, len, consumed) ==
  /\ RingOK(r)
  /\ r.start < EndOffset(r) \/ r.start = 0
  /\ r.lossless => r.start <= r.released
  /\ consumed \in Nat /\ r.released <= consumed /\ consumed <= EndOffset(r)
  /\ tk \in Nat /\ wr \in Nat /\ len \in Nat /\ EndOffset(r) <= tk /\ tk <= wr /\ wr <= len
  /\ d.pc \in {"read", "write", "done"}
  /\ d.pc = "read" => EndOffset(r) = tk
  /\ d.pc = "write" => EndOffset(r) < tk /\ d.rest = Bytes(EndOffset(r), tk)

\* A handler's pumps have sent what the rings hold up to its offsets, and one
\* that is at its end has sent everything.
Pumped(x, r) ==
  \A s \in Streams :
    /\ x.offset[s] <= EndOffset(r[s])
    /\ x.pump[s] = "eof" => r[s].closed /\ x.offset[s] = EndOffset(r[s])
    /\ x.pump[s] = "stopped" => x.stop

\* The acks on their way confirm only what is consumed.
AcksOK(x, o) ==
  \A i \in DOMAIN x.up : x.up[i].type = "ack" => \A s \in Streams : x.up[i].offset[s] <= o[s]

SessionOK(x, r, o) == x \in SessionType /\ Len(x.down) <= Window /\ Pumped(x, r) /\ AcksOK(x, o)

\* Message m carries stream s from position a to position b.
Carries(m, s, a, b) ==
  IF m.type = "data" /\ m.stream = s THEN m.bytes = Bytes(a, b) ELSE b = a

\* The messages q carry stream s from position a to position b, each going on
\* where the one before it ended.
Links(pos, q, s, a, b) ==
  /\ pos \in [0 .. Len(q) -> a .. b]
  /\ pos[0] = a /\ pos[Len(q)] = b
  /\ \A i, k \in 0 .. Len(q) : i <= k => pos[i] <= pos[k]
  /\ \A i \in 1 .. Len(q) : Carries(q[i], s, pos[i - 1], pos[i])
Chain(q, s, a, b) == \E pos \in [0 .. Len(q) -> a .. b] : Links(pos, q, s, a, b)

\* An exit status is sent last, by a handler that has sent everything.
ExitLast(x, q, r) ==
  \A i \in DOMAIN q :
    /\ q[i].type \in {"data", "exit"}
    /\ q[i].type = "exit" =>
         /\ i = Len(q)
         /\ x.state # "serving"
         /\ \A s \in Streams : r[s].closed /\ x.offset[s] = EndOffset(r[s])

Ends(q) == \E i \in DOMAIN q : q[i].type = "exit"

\* What a client with offsets o will read from q, in flight from handler x: the
\* streams go on at its offsets, and up to the handler's if nothing was lost.
Reaches(x, q, s, a) ==
  \E b \in a .. x.offset[s] : Chain(q, s, a, b) /\ (x.link \/ Ends(q) => b = x.offset[s])
Flow(x, q, o, r) ==
  ExitLast(x, q, r) /\ \A s \in Streams : Reaches(x, q, s, o[s])

\* A client waiting for the Attached reply has lost it or finds it first.
AttachFlow(x, o, r) ==
  \/ x.down = <<>> /\ ~x.link
  \/ /\ x.down # <<>>
     /\ Head(x.down).type = "attached"
     /\ \A s \in Streams : /\ o[s] <= Head(x.down).offset[s]
                           /\ r[s].lossless => Head(x.down).offset[s] = o[s]
     /\ Flow(x, Tail(x.down), Head(x.down).offset, r)

\* What the consumer was given.
Given(g, a, lossless) ==
  /\ g \in Seq(Nat)
  /\ \A i, k \in DOMAIN g : i < k => g[i] < g[k]
  /\ \A i \in DOMAIN g : g[i] < a
  /\ lossless => g = Bytes(0, a)

View(c, ss, r) ==
  /\ c.pc \in {"recv", "flush"} => Flow(ss[c.cur], ss[c.cur].down, c.offset, r)
  /\ c.pc = "attaching" => AttachFlow(ss[c.new], c.offset, r)

ClientOK(c, r) ==
  /\ DOMAIN c = ClientFields
  /\ c.pc \in {"recv", "reattach", "attaching", "flush", "done"}
  /\ c.cur \in Sessions /\ c.new \in Sessions
  /\ c.offset \in Offsets
  /\ DOMAIN c.got = Streams /\ \A s \in Streams : Given(c.got[s], c.offset[s], r[s].lossless)
  /\ c.result \in {"none", "exit", "gone"}
  /\ c.result = "exit" =>
       c.pc = "done" /\ \A s \in Streams : r[s].closed /\ c.offset[s] = EndOffset(r[s])

ProcType == [wrote : Offsets, running : BOOLEAN, stdin : BOOLEAN, signals : Nat]
LoadType ==
  [len : Offsets, until : {"output", "stdin"}, held : BOOLEAN, fails : BOOLEAN, stdinEnds : BOOLEAN,
   breaks : Nat, signals : Nat]

Typed ==
  /\ proc \in ProcType /\ load \in LoadType /\ taken \in Offsets
  /\ reap \in {"wait", "drain", "forced", "forget", "done"}
  /\ listed \in BOOLEAN
  /\ current \in 0 .. MaxSessions
  /\ DOMAIN ring = Streams /\ DOMAIN sess = Sessions
  /\ drain \in [Streams -> [pc : {"read", "write", "done"}, rest : Seq(Nat)]]

Supply == \A s \in Streams : Supplied(ring[s], drain[s], taken[s], proc.wrote[s], load.len[s], client.offset[s])

StreamInv ==
  /\ Typed
  /\ Supply
  /\ \A j \in Sessions : SessionOK(sess[j], ring, client.offset)
  /\ ClientOK(client, ring)
  /\ View(client, sess, ring)

-----------------------------------------------------------------------------
(* Chains of messages.                                                       *)

\* No message carries nothing.
LEMMA ChainEmpty ==
  ASSUME NEW s, NEW a \in Nat
  PROVE  Chain(<<>>, s, a, a)
  <1>1. PICK pos : pos = [i \in 0 .. 0 |-> a]
    BY Zenon
  <1>2. Len(<<>>) = 0
    BY Zenon
  <1>3. pos \in [0 .. 0 -> a .. a] /\ pos[0] = a /\ (\A i, k \in 0 .. 0 : i <= k => pos[i] <= pos[k])
    BY <1>1
  <1>4. \A i \in 1 .. 0 : Carries(<<>>[i], s, pos[i - 1], pos[i])
    OBVIOUS
  <1>5. QED
    BY <1>2, <1>3, <1>4, Zenon DEF Chain, Links

\* A chain goes forward, and one without messages nowhere.
LEMMA ChainBounds ==
  ASSUME NEW T, NEW q \in Seq(T), NEW s, NEW a \in Nat, NEW b \in Nat, Chain(q, s, a, b)
  PROVE  a <= b /\ (q = <<>> => b = a)
  <1>1. PICK pos : Links(pos, q, s, a, b)
    BY Zenon DEF Chain
  <1>2. Len(q) \in Nat /\ 0 \in 0 .. Len(q) /\ Len(q) \in 0 .. Len(q)
    OBVIOUS
  <1>3. pos[0] = a /\ pos[Len(q)] = b /\ pos[0] <= pos[Len(q)]
    BY <1>1, <1>2 DEF Links
  <1>4. QED
    BY <1>3, Zenon

\* A message that goes on where a chain ends extends it.
LEMMA ChainAppend ==
  ASSUME NEW T, NEW q \in Seq(T), NEW m \in T, NEW s, NEW a \in Nat, NEW b \in Nat, NEW c \in Nat,
         Chain(q, s, a, b), b <= c, Carries(m, s, b, c)
  PROVE  Chain(Append(q, m), s, a, c)
  <1>1. PICK pos : Links(pos, q, s, a, b)
    BY Zenon DEF Chain
  <1>2. PICK n \in Nat : n = Len(q)
    OBVIOUS
  <1>3. /\ Len(Append(q, m)) = n + 1 /\ Append(q, m)[n + 1] = m
        /\ \A i \in 1 .. n : Append(q, m)[i] = q[i]
    BY <1>2
  <1>4. a <= b /\ \A i \in 0 .. n : pos[i] \in Nat /\ a <= pos[i] /\ pos[i] <= b
    BY <1>1, <1>2, ChainBounds DEF Links
  <1>5. PICK p : p = [i \in 0 .. n + 1 |-> IF i <= n THEN pos[i] ELSE c]
    BY Zenon
  <1>6. (\A i \in 0 .. n : p[i] = pos[i]) /\ p[n + 1] = c
    BY <1>2, <1>5
  <1>7. p \in [0 .. n + 1 -> a .. c]
    BY <1>2, <1>4, <1>5
  <1>8. ASSUME NEW i \in 0 .. n + 1, NEW k \in 0 .. n + 1, i <= k PROVE p[i] <= p[k]
    <2>1. CASE k <= n
      <3>1. i \in 0 .. n /\ k \in 0 .. n
        BY <1>8, <2>1
      <3>2. pos[i] <= pos[k]
        BY <1>1, <1>2, <1>8, <3>1, Zenon DEF Links
      <3>3. QED
        BY <1>6, <3>1, <3>2, Zenon
    <2>2. CASE k = n + 1 /\ i <= n
      BY <1>4, <1>6, <2>2
    <2>3. CASE k = n + 1 /\ i = n + 1
      BY <1>6, <2>3
    <2>4. QED
      BY <1>8, <2>1, <2>2, <2>3
  <1>9. ASSUME NEW i \in 1 .. n + 1 PROVE Carries(Append(q, m)[i], s, p[i - 1], p[i])
    <2>1. CASE i <= n
      <3>1. i \in 1 .. n /\ i \in 0 .. n /\ i - 1 \in 0 .. n
        BY <2>1
      <3>2. Carries(q[i], s, pos[i - 1], pos[i])
        BY <1>1, <1>2, <3>1, Zenon DEF Links
      <3>3. QED
        BY <1>3, <1>6, <3>1, <3>2, Zenon
    <2>2. CASE i = n + 1
      <3>1. i - 1 = n /\ n \in 0 .. n
        BY <2>2
      <3>2. p[i - 1] = b /\ p[i] = c
        BY <1>1, <1>2, <1>6, <2>2, <3>1, Zenon DEF Links
      <3>3. QED
        BY <1>3, <2>2, <3>2, Zenon
    <2>3. i <= n \/ i = n + 1
      OBVIOUS
    <2>4. QED
      BY <2>1, <2>2, <2>3, Zenon
  <1>10. p[0] = a
    <2>1. 0 \in 0 .. n
      OBVIOUS
    <2>2. QED
      BY <1>1, <1>2, <1>6, <2>1, Zenon DEF Links
  <1>11. Links(p, Append(q, m), s, a, c)
    BY <1>3, <1>6, <1>7, <1>8, <1>9, <1>10, Zenon DEF Links
  <1>12. QED
    BY <1>3, <1>7, <1>11, Zenon DEF Chain

\* The first message goes on where the chain starts, and the rest after it.
LEMMA ChainTail ==
  ASSUME NEW T, NEW q \in Seq(T), q # <<>>, NEW s, NEW a \in Nat, NEW b \in Nat, Chain(q, s, a, b)
  PROVE  \E c \in Nat : a <= c /\ c <= b /\ Carries(Head(q), s, a, c) /\ Chain(Tail(q), s, c, b)
  <1>1. PICK pos : Links(pos, q, s, a, b)
    BY Zenon DEF Chain
  <1>2. PICK n \in Nat : n = Len(q) /\ n >= 1
    OBVIOUS
  <1>3. Len(Tail(q)) = n - 1 /\ Head(q) = q[1] /\ \A i \in 1 .. n - 1 : Tail(q)[i] = q[i + 1]
    BY <1>2
  <1>4. PICK c : c = pos[1]
    BY Zenon
  <1>5. \A i \in 0 .. n : pos[i] \in Nat /\ a <= pos[i] /\ pos[i] <= b
    BY <1>1, <1>2 DEF Links
  <1>6. 0 \in 0 .. n /\ 1 \in 0 .. n /\ 1 \in 1 .. n /\ 1 - 1 = 0 /\ n \in 0 .. n /\ n - 1 + 1 = n /\ n - 1 \in 0 .. n - 1 /\ 0 \in 0 .. n - 1
    BY <1>2
  <1>7. c \in Nat /\ a <= c /\ c <= b
    BY <1>4, <1>5, <1>6, Zenon
  <1>8. Carries(Head(q), s, a, c)
    BY <1>1, <1>2, <1>3, <1>4, <1>6, Zenon DEF Links
  <1>9. PICK p : p = [i \in 0 .. n - 1 |-> pos[i + 1]]
    BY Zenon
  <1>10. \A i \in 0 .. n - 1 : i + 1 \in 0 .. n /\ p[i] = pos[i + 1]
    BY <1>2, <1>9
  <1>11. p \in [0 .. n - 1 -> c .. b]
    <2>1. \A i \in 0 .. n - 1 : pos[1] <= pos[i + 1]
      BY <1>1, <1>2, <1>6, <1>10 DEF Links
    <2>2. \A i \in 0 .. n - 1 : pos[i + 1] \in c .. b
      BY <1>4, <1>5, <1>7, <1>10, <2>1
    <2>3. QED
      BY <1>9, <2>2, Zenon
  <1>12. p[0] = c /\ p[n - 1] = b
    <2>1. p[0] = pos[1] /\ p[n - 1] = pos[n]
      BY <1>2, <1>6, <1>10
    <2>2. QED
      BY <1>1, <1>2, <1>4, <2>1, Zenon DEF Links
  <1>13. ASSUME NEW i \in 0 .. n - 1, NEW k \in 0 .. n - 1, i <= k PROVE p[i] <= p[k]
    <2>1. i + 1 <= k + 1
      BY <1>13
    <2>2. pos[i + 1] <= pos[k + 1]
      BY <1>1, <1>2, <1>10, <2>1, Zenon DEF Links
    <2>3. QED
      BY <1>10, <2>2, Zenon
  <1>14. ASSUME NEW i \in 1 .. n - 1 PROVE Carries(Tail(q)[i], s, p[i - 1], p[i])
    <2>1. PICK k \in 1 .. n : k = i + 1 /\ k - 1 = i
      BY <1>2
    <2>2. Carries(q[k], s, pos[k - 1], pos[k])
      BY <1>1, <1>2, <2>1, Zenon DEF Links
    <2>3. i - 1 \in 0 .. n - 1 /\ i \in 0 .. n - 1 /\ i - 1 + 1 = i
      BY <1>2
    <2>4. p[i - 1] = pos[i] /\ p[i] = pos[k]
      BY <1>10, <2>1, <2>3, Zenon
    <2>5. Tail(q)[i] = q[k]
      BY <1>3, <2>1, Zenon
    <2>6. QED
      BY <2>1, <2>2, <2>4, <2>5, Zenon
  <1>15. Links(p, Tail(q), s, c, b)
    BY <1>3, <1>11, <1>12, <1>13, <1>14, Zenon DEF Links
  <1>16. Chain(Tail(q), s, c, b)
    BY <1>3, <1>11, <1>15, Zenon DEF Chain
  <1>17. QED
    BY <1>7, <1>8, <1>16, Zenon

\* What is left of a chain that loses its last messages.
LEMMA ChainTake ==
  ASSUME NEW T, NEW q \in Seq(T), NEW d \in 0 .. Len(q), NEW s, NEW a \in Nat, NEW b \in Nat, Chain(q, s, a, b)
  PROVE  \E c \in Nat : a <= c /\ c <= b /\ Chain(TakeFirst(q, d), s, a, c)
  <1>1. PICK pos : Links(pos, q, s, a, b)
    BY Zenon DEF Chain
  <1>2. PICK n \in Nat : n = Len(q) /\ d \in Nat /\ d <= n
    OBVIOUS
  <1>3. Len(TakeFirst(q, d)) = d /\ \A i \in 1 .. d : TakeFirst(q, d)[i] = q[i]
    BY <1>2 DEF TakeFirst
  <1>4. PICK c : c = pos[d]
    BY Zenon
  <1>5. \A i \in 0 .. d : i \in 0 .. n /\ pos[i] \in Nat /\ a <= pos[i] /\ pos[i] <= pos[d] /\ pos[d] <= b
    BY <1>1, <1>2 DEF Links
  <1>6. c \in Nat /\ a <= c /\ c <= b /\ 0 \in 0 .. d /\ d \in 0 .. d
    BY <1>2, <1>4, <1>5
  <1>7. PICK p : p = [i \in 0 .. d |-> pos[i]]
    BY Zenon
  <1>8. \A i \in 0 .. d : p[i] = pos[i]
    BY <1>7, Zenon
  <1>9. p \in [0 .. d -> a .. c]
    BY <1>4, <1>5, <1>6, <1>7
  <1>10. p[0] = a /\ p[d] = c
    BY <1>1, <1>4, <1>6, <1>8, Zenon DEF Links
  <1>11. \A i, k \in 0 .. d : i <= k => p[i] <= p[k]
    BY <1>1, <1>2, <1>5, <1>8, Zenon DEF Links
  <1>12. ASSUME NEW i \in 1 .. d PROVE Carries(TakeFirst(q, d)[i], s, p[i - 1], p[i])
    <2>1. i \in 1 .. n /\ i \in 0 .. d /\ i - 1 \in 0 .. d
      BY <1>2
    <2>2. QED
      BY <1>1, <1>2, <1>3, <1>8, <2>1, Zenon DEF Links
  <1>13. Links(p, TakeFirst(q, d), s, a, c)
    BY <1>3, <1>9, <1>10, <1>11, <1>12, Zenon DEF Links
  <1>14. Chain(TakeFirst(q, d), s, a, c)
    BY <1>3, <1>9, <1>13, Zenon DEF Chain
  <1>15. QED
    BY <1>6, <1>14, Zenon

-----------------------------------------------------------------------------
(* What a client will read from a stream, as its handler, the transport and  *)
(* the client go on.                                                         *)

\* What a reader still finds, given the handler's offsets.
LEMMA ReachesType ==
  ASSUME NEW x, x.offset \in Offsets, NEW q, NEW s \in Streams, NEW a \in Nat, Reaches(x, q, s, a)
  PROVE  \E b \in Nat : /\ a <= b /\ b <= x.offset[s] /\ x.offset[s] \in Nat /\ Chain(q, s, a, b)
                        /\ x.link \/ Ends(q) => b = x.offset[s]
  <1>1. x.offset[s] \in Nat
    BY Zenon DEF Offsets
  <1>2. PICK b \in a .. x.offset[s] : Chain(q, s, a, b) /\ (x.link \/ Ends(q) => b = x.offset[s])
    BY Zenon DEF Reaches
  <1>3. b \in Nat /\ a <= b /\ b <= x.offset[s]
    BY <1>1, <1>2
  <1>4. QED
    BY <1>1, <1>2, <1>3, Zenon

\* The same the other way round.
LEMMA ReachesFrom ==
  ASSUME NEW x, NEW q, NEW s \in Streams, NEW a \in Nat, NEW b \in Nat, x.offset[s] \in Nat, a <= b, b <= x.offset[s],
         Chain(q, s, a, b), x.link \/ Ends(q) => b = x.offset[s]
  PROVE  Reaches(x, q, s, a)
  <1>1. b \in a .. x.offset[s]
    OBVIOUS
  <1>2. QED
    BY <1>1, Zenon DEF Reaches

\* A handler that sends nothing, and may end or lose its stream.
LEMMA FlowFrame ==
  ASSUME NEW x, NEW y, NEW q, NEW o, NEW r, Flow(x, q, o, r),
         y.offset = x.offset, y.state = "serving" => x.state = "serving", y.link => x.link
  PROVE  Flow(y, q, o, r)
  <1>1. ExitLast(y, q, r)
    BY Zenon DEF Flow, ExitLast
  <1>2. \A s \in Streams : Reaches(y, q, s, o[s])
    BY Zenon DEF Flow, Reaches
  <1>3. QED
    BY <1>1, <1>2, Zenon DEF Flow

\* Rings that only grow until they are closed.
Ahead(r, w) ==
  \A s \in Streams :
    /\ EndOffset(r[s]) <= EndOffset(w[s])
    /\ w[s].lossless = r[s].lossless
    /\ r[s].closed => w[s].closed /\ EndOffset(w[s]) = EndOffset(r[s])

\* The rings go on.
LEMMA FlowRings ==
  ASSUME NEW x, NEW q, NEW o, NEW r, NEW w, Flow(x, q, o, r), Ahead(r, w)
  PROVE  Flow(x, q, o, w)
  BY Zenon DEF Flow, ExitLast, Ahead

\* Where an exit status is, nothing follows.
LEMMA EndsLast ==
  ASSUME NEW x, NEW q, NEW r, ExitLast(x, q, r), Ends(q)
  PROVE  x.state # "serving"
  BY Zenon DEF ExitLast, Ends

\* What is in flight of a stream that breaks.
LEMMA FlowTake ==
  ASSUME NEW x, x.offset \in Offsets, NEW y, NEW q \in Seq(Replies), NEW d \in 0 .. Len(q), NEW o \in Offsets, NEW r,
         Flow(x, q, o, r), y.offset = x.offset, y.state = "serving" => x.state = "serving", ~y.link
  PROVE  Flow(y, TakeFirst(q, d), o, r)
  <1>1. PICK n \in Nat : n = Len(q) /\ d \in Nat /\ d <= n
    OBVIOUS
  <1>2. CASE d = n
    <2>1. TakeFirst(q, d) = q
      BY <1>1, <1>2 DEF TakeFirst
    <2>2. QED
      BY <2>1, FlowFrame, Zenon
  <1>3. CASE d < n
    <2>1. PICK t : t = TakeFirst(q, d)
      BY Zenon
    <2>2. DOMAIN t = 1 .. d /\ DOMAIN q = 1 .. n /\ \A i \in 1 .. d : t[i] = q[i] /\ i \in 1 .. n /\ i # n
      BY <1>1, <1>3, <2>1 DEF TakeFirst
    <2>3. \A i \in DOMAIN t : t[i].type \in {"data", "exit"} /\ t[i].type # "exit"
      BY <1>1, <2>2, Zenon DEF Flow, ExitLast
    <2>4. ExitLast(y, t, r) /\ ~Ends(t)
      BY <2>3, Zenon DEF ExitLast, Ends
    <2>5. ASSUME NEW s \in Streams PROVE Reaches(y, t, s, o[s])
      <3>1. o[s] \in Nat /\ Reaches(x, q, s, o[s])
        BY Zenon DEF Offsets, Flow
      <3>2. PICK b \in Nat : o[s] <= b /\ b <= x.offset[s] /\ x.offset[s] \in Nat /\ Chain(q, s, o[s], b)
        BY <3>1, ReachesType, Zenon
      <3>3. PICK c \in Nat : o[s] <= c /\ c <= b /\ Chain(t, s, o[s], c)
        BY <2>1, <3>1, <3>2, ChainTake, Zenon
      <3>4. c <= y.offset[s] /\ y.offset[s] \in Nat
        BY <3>2, <3>3
      <3>5. QED
        BY <2>4, <3>1, <3>3, <3>4, ReachesFrom, Zenon
    <2>6. QED
      BY <2>1, <2>4, <2>5, Zenon DEF Flow
  <1>4. QED
    BY <1>1, <1>2, <1>3

\* A pump sends what the ring holds beyond its offset.
LEMMA FlowData ==
  ASSUME NEW x, x.offset \in Offsets, NEW y, NEW q \in Seq(Replies), NEW o \in Offsets, NEW r, Flow(x, q, o, r),
         x.state = "serving", x.link, NEW p \in Streams, NEW e \in Nat, x.offset[p] <= e,
         y.state = "serving", y.offset = [x.offset EXCEPT ![p] = e],
         NEW m \in Replies, m.type = "data", m.stream = p, m.bytes = Bytes(x.offset[p], e)
  PROVE  Flow(y, Append(q, m), o, r)
  <1>1. PICK n \in Nat : n = Len(q)
    OBVIOUS
  <1>2. /\ DOMAIN Append(q, m) = 1 .. n + 1 /\ DOMAIN q = 1 .. n /\ Append(q, m)[n + 1] = m
        /\ \A i \in 1 .. n : Append(q, m)[i] = q[i]
    BY <1>1
  <1>3. \A i \in 1 .. n + 1 : i \in 1 .. n \/ i = n + 1
    OBVIOUS
  <1>4. \A i \in 1 .. n : q[i].type \in {"data", "exit"} /\ q[i].type # "exit"
    BY <1>2, Zenon DEF Flow, ExitLast
  <1>5. ExitLast(y, Append(q, m), r)
    BY <1>2, <1>3, <1>4, Zenon DEF ExitLast
  <1>6. ASSUME NEW s \in Streams PROVE Reaches(y, Append(q, m), s, o[s])
    <2>1. o[s] \in Nat /\ Reaches(x, q, s, o[s]) /\ x.offset[p] \in Nat
      BY Zenon DEF Offsets, Flow
    <2>2. PICK b \in Nat : o[s] <= b /\ b = x.offset[s] /\ Chain(q, s, o[s], b)
      BY <2>1, ReachesType, Zenon
    <2>3. PICK c \in Nat : c = y.offset[s]
      BY <2>2, Zenon DEF Offsets
    <2>4. (s = p => c = e) /\ (s # p => c = b)
      BY <2>2, <2>3, Zenon DEF Offsets
    <2>5. b <= c /\ o[s] <= c
      BY <2>1, <2>2, <2>4
    <2>6. Carries(m, s, b, c)
      BY <2>2, <2>4, Zenon DEF Carries
    <2>7. Chain(Append(q, m), s, o[s], c)
      BY <2>1, <2>2, <2>5, <2>6, ChainAppend, Zenon
    <2>8. c <= y.offset[s] /\ y.offset[s] \in Nat
      BY <2>3
    <2>9. QED
      BY <2>1, <2>3, <2>5, <2>7, <2>8, ReachesFrom, Zenon
  <1>7. QED
    BY <1>5, <1>6, Zenon DEF Flow

\* A send that seems to succeed on a broken stream.
LEMMA FlowLost ==
  ASSUME NEW x, x.offset \in Offsets, NEW y, y.offset \in Offsets, NEW q, NEW o \in Offsets, NEW r, Flow(x, q, o, r),
         x.state = "serving", y.state = "serving", ~y.link, \A s \in Streams : x.offset[s] <= y.offset[s]
  PROVE  Flow(y, q, o, r)
  <1>1. ~Ends(q)
    BY EndsLast, Zenon DEF Flow
  <1>2. ExitLast(y, q, r)
    BY <1>1, Zenon DEF Flow, ExitLast, Ends
  <1>3. ASSUME NEW s \in Streams PROVE Reaches(y, q, s, o[s])
    <2>1. o[s] \in Nat /\ Reaches(x, q, s, o[s])
      BY Zenon DEF Offsets, Flow
    <2>2. PICK b \in Nat : o[s] <= b /\ b <= x.offset[s] /\ x.offset[s] \in Nat /\ Chain(q, s, o[s], b)
      BY <2>1, ReachesType, Zenon
    <2>3. b <= y.offset[s] /\ y.offset[s] \in Nat
      BY <2>2 DEF Offsets
    <2>4. QED
      BY <1>1, <2>1, <2>2, <2>3, ReachesFrom, Zenon
  <1>4. QED
    BY <1>2, <1>3, Zenon DEF Flow

\* The exit status is sent.
LEMMA FlowExit ==
  ASSUME NEW x, x.offset \in Offsets, NEW y, NEW q \in Seq(Replies), NEW o \in Offsets, NEW r, Flow(x, q, o, r),
         x.state = "serving", x.link, y.state # "serving", y.offset = x.offset,
         \A s \in Streams : r[s].closed /\ x.offset[s] = EndOffset(r[s]), NEW m \in Replies, m.type = "exit"
  PROVE  Flow(y, Append(q, m), o, r)
  <1>1. PICK n \in Nat : n = Len(q)
    OBVIOUS
  <1>2. /\ DOMAIN Append(q, m) = 1 .. n + 1 /\ DOMAIN q = 1 .. n /\ Append(q, m)[n + 1] = m
        /\ Len(Append(q, m)) = n + 1 /\ \A i \in 1 .. n : Append(q, m)[i] = q[i]
    BY <1>1
  <1>3. \A i \in 1 .. n + 1 : i \in 1 .. n \/ i = n + 1
    OBVIOUS
  <1>4. \A i \in 1 .. n : q[i].type \in {"data", "exit"} /\ q[i].type # "exit"
    BY <1>2, Zenon DEF Flow, ExitLast
  <1>5. ExitLast(y, Append(q, m), r)
    BY <1>2, <1>3, <1>4, Zenon DEF ExitLast
  <1>6. ASSUME NEW s \in Streams PROVE Reaches(y, Append(q, m), s, o[s])
    <2>1. o[s] \in Nat /\ Reaches(x, q, s, o[s])
      BY Zenon DEF Offsets, Flow
    <2>2. PICK b \in Nat : o[s] <= b /\ b = x.offset[s] /\ Chain(q, s, o[s], b)
      BY <2>1, ReachesType, Zenon
    <2>3. b <= b /\ b <= y.offset[s] /\ y.offset[s] \in Nat
      BY <2>2
    <2>4. Carries(m, s, b, b)
      BY Zenon DEF Carries
    <2>5. Chain(Append(q, m), s, o[s], b)
      BY <2>1, <2>2, <2>3, <2>4, ChainAppend, Zenon
    <2>6. QED
      BY <2>1, <2>2, <2>3, <2>5, ReachesFrom, Zenon
  <1>7. QED
    BY <1>5, <1>6, Zenon DEF Flow

\* Nothing is in flight yet.
LEMMA FlowStart ==
  ASSUME NEW y, NEW o \in Offsets, y.offset = o, NEW r
  PROVE  Flow(y, <<>>, o, r)
  <1>1. ExitLast(y, <<>>, r) /\ ~Ends(<<>>)
    BY DEF ExitLast, Ends
  <1>2. ASSUME NEW s \in Streams PROVE Reaches(y, <<>>, s, o[s])
    <2>1. PICK a \in Nat : a = o[s]
      BY Zenon DEF Offsets
    <2>2. a <= a /\ a <= y.offset[s] /\ y.offset[s] \in Nat /\ Chain(<<>>, s, a, a)
      BY <2>1, ChainEmpty
    <2>3. QED
      BY <2>1, <2>2, ReachesFrom, Zenon
  <1>3. QED
    BY <1>1, <1>2, Zenon DEF Flow

\* The client takes a message: it is output that goes on at its offset, or the exit status after
\* everything.
LEMMA FlowPop ==
  ASSUME NEW x, x.offset \in Offsets, NEW q \in Seq(Replies), q # <<>>, NEW o \in Offsets, NEW r, Flow(x, q, o, r),
         Head(q).type = "data", NEW p \in Streams, Head(q).stream = p
  PROVE  \E c \in Nat : /\ o[p] \in Nat /\ o[p] <= c /\ c <= x.offset[p] /\ Head(q).bytes = Bytes(o[p], c)
                        /\ Flow(x, Tail(q), [o EXCEPT ![p] = c], r)
  <1>1. PICK n \in Nat : n = Len(q) /\ n >= 1
    OBVIOUS
  <1>2. /\ Tail(q) \in Seq(Replies) /\ Len(Tail(q)) = n - 1 /\ Head(q) = q[1] /\ DOMAIN q = 1 .. n /\ DOMAIN Tail(q) = 1 .. n - 1
        /\ \A i \in 1 .. n - 1 : Tail(q)[i] = q[i + 1] /\ i + 1 \in 1 .. n /\ (i + 1 = n => i = n - 1)
    BY <1>1
  <1>3. ExitLast(x, Tail(q), r)
    BY <1>1, <1>2, Zenon DEF Flow, ExitLast
  <1>4. Ends(Tail(q)) => Ends(q)
    BY <1>2, Zenon DEF Ends
  <1>5. ASSUME NEW s \in Streams
        PROVE  \E c \in Nat : /\ o[s] \in Nat /\ o[s] <= c /\ c <= x.offset[s] /\ Carries(Head(q), s, o[s], c)
                              /\ Reaches(x, Tail(q), s, c)
    <2>1. o[s] \in Nat /\ Reaches(x, q, s, o[s])
      BY Zenon DEF Offsets, Flow
    <2>2. PICK b \in Nat : /\ o[s] <= b /\ b <= x.offset[s] /\ x.offset[s] \in Nat /\ Chain(q, s, o[s], b)
                           /\ x.link \/ Ends(q) => b = x.offset[s]
      BY <2>1, ReachesType, Zenon
    <2>3. PICK c \in Nat : o[s] <= c /\ c <= b /\ Carries(Head(q), s, o[s], c) /\ Chain(Tail(q), s, c, b)
      BY <2>1, <2>2, ChainTail, Zenon
    <2>4. Reaches(x, Tail(q), s, c)
      BY <1>4, <2>2, <2>3, ReachesFrom, Zenon
    <2>5. c <= x.offset[s]
      BY <2>2, <2>3
    <2>6. QED
      BY <2>1, <2>3, <2>4, <2>5, Zenon
  <1>6. PICK c \in Nat : o[p] \in Nat /\ o[p] <= c /\ c <= x.offset[p] /\ Head(q).bytes = Bytes(o[p], c) /\ Reaches(x, Tail(q), p, c)
    BY <1>5, Zenon DEF Carries
  <1>7. \A s \in Streams \ {p} : Reaches(x, Tail(q), s, o[s])
    <2>1. TAKE s \in Streams \ {p}
    <2>2. PICK a \in Nat : Carries(Head(q), s, o[s], a) /\ Reaches(x, Tail(q), s, a)
      BY <1>5, Zenon
    <2>3. a = o[s]
      BY <2>2, Zenon DEF Carries
    <2>4. QED
      BY <2>2, <2>3, Zenon
  <1>8. \A s \in Streams : Reaches(x, Tail(q), s, [o EXCEPT ![p] = c][s])
    BY <1>6, <1>7, Zenon DEF Offsets
  <1>9. QED
    BY <1>3, <1>6, <1>8, Zenon DEF Flow

\* The exit status is read after everything the rings took.
LEMMA FlowExited ==
  ASSUME NEW x, x.offset \in Offsets, NEW q \in Seq(Replies), q # <<>>, NEW o \in Offsets, NEW r, Flow(x, q, o, r),
         Head(q).type = "exit"
  PROVE  \A s \in Streams : r[s].closed /\ o[s] = EndOffset(r[s])
  <1>1. 1 \in DOMAIN q /\ q[1] = Head(q) /\ Len(q) \in Nat
    OBVIOUS
  <1>2. 1 = Len(q) /\ \A s \in Streams : r[s].closed /\ x.offset[s] = EndOffset(r[s])
    BY <1>1, Zenon DEF Flow, ExitLast
  <1>3. Tail(q) = <<>> /\ Ends(q)
    <2>1. Tail(q) \in Seq(Replies) /\ Len(Tail(q)) = 0
      BY <1>2
    <2>2. Ends(q)
      BY <1>1, Zenon DEF Ends
    <2>3. QED
      BY <2>1, <2>2, EmptySequence, Zenon
  <1>4. ASSUME NEW s \in Streams PROVE o[s] = x.offset[s]
    <2>1. o[s] \in Nat /\ Reaches(x, q, s, o[s])
      BY Zenon DEF Offsets, Flow
    <2>2. PICK b \in Nat : b = x.offset[s] /\ Chain(q, s, o[s], b)
      BY <1>3, <2>1, ReachesType, Zenon
    <2>3. PICK c \in Nat : Carries(Head(q), s, o[s], c) /\ Chain(Tail(q), s, c, b)
      BY <2>1, <2>2, ChainTail, Zenon
    <2>4. c = o[s] /\ Tail(q) \in Seq(Replies)
      BY <2>3 DEF Carries
    <2>5. b = c
      BY <1>3, <2>3, <2>4, ChainBounds, Zenon
    <2>6. QED
      BY <2>2, <2>4, <2>5, Zenon
  <1>5. QED
    BY <1>2, <1>4, Zenon

\* The client's offsets never pass the handler's.
LEMMA FlowBounds ==
  ASSUME NEW x, x.offset \in Offsets, NEW q, NEW o \in Offsets, NEW r, Flow(x, q, o, r)
  PROVE  \A s \in Streams : o[s] <= x.offset[s]
  <1>1. TAKE s \in Streams
  <1>2. o[s] \in Nat /\ Reaches(x, q, s, o[s])
    BY Zenon DEF Offsets, Flow
  <1>3. PICK b \in Nat : o[s] <= b /\ b <= x.offset[s] /\ x.offset[s] \in Nat
    BY <1>2, ReachesType, Zenon
  <1>4. QED
    BY <1>2, <1>3

-----------------------------------------------------------------------------
(* What may become of a stream's handler and of what it has in flight.       *)

Quiet(x, y) ==
  /\ y.down = x.down /\ y.offset = x.offset
  /\ y.state = "serving" => x.state = "serving"
  /\ y.link => x.link
Cut(x, y) ==
  /\ ~y.link /\ y.offset = x.offset
  /\ y.state = "serving" => x.state = "serving"
  /\ \E d \in 0 .. Len(x.down) : y.down = TakeFirst(x.down, d)
Pumps(x, y) ==
  /\ x.state = "serving" /\ y.state = "serving"
  /\ \E p \in Streams, e \in Nat :
       /\ x.offset[p] <= e /\ y.offset = [x.offset EXCEPT ![p] = e]
       /\ \/ ~y.link /\ y.down = x.down
          \/ x.link /\ \E m \in Replies : /\ m.type = "data" /\ m.stream = p /\ m.bytes = Bytes(x.offset[p], e)
                                          /\ y.down = Append(x.down, m)
Exits(x, y, r) ==
  /\ x.state = "serving" /\ x.link /\ y.state # "serving" /\ y.offset = x.offset
  /\ \A s \in Streams : r[s].closed /\ x.offset[s] = EndOffset(r[s])
  /\ \E m \in Replies : m.type = "exit" /\ y.down = Append(x.down, m)
Follows(x, y, r) == Quiet(x, y) \/ Cut(x, y) \/ Pumps(x, y) \/ Exits(x, y, r)

\* A client that reads the stream still finds what it needs.
LEMMA FlowFollows ==
  ASSUME NEW x, x.offset \in Offsets, x.down \in Seq(Replies), NEW y, NEW o \in Offsets, NEW r,
         Follows(x, y, r), Flow(x, x.down, o, r)
  PROVE  Flow(y, y.down, o, r)
  <1>1. CASE Quiet(x, y)
    BY <1>1, FlowFrame, Zenon DEF Quiet
  <1>2. CASE Cut(x, y)
    BY <1>2, FlowTake, Zenon DEF Cut
  <1>3. CASE Pumps(x, y)
    <2>1. PICK p \in Streams, e \in Nat :
            /\ x.offset[p] <= e /\ y.offset = [x.offset EXCEPT ![p] = e]
            /\ \/ ~y.link /\ y.down = x.down
               \/ x.link /\ \E m \in Replies : /\ m.type = "data" /\ m.stream = p /\ m.bytes = Bytes(x.offset[p], e)
                                               /\ y.down = Append(x.down, m)
      BY <1>3, Zenon DEF Pumps
    <2>2. x.state = "serving" /\ y.state = "serving"
      BY <1>3, Zenon DEF Pumps
    <2>3. CASE ~y.link /\ y.down = x.down
      <3>1. y.offset \in Offsets /\ \A s \in Streams : x.offset[s] <= y.offset[s]
        BY <2>1 DEF Offsets
      <3>2. QED
        BY <2>2, <2>3, <3>1, FlowLost, Zenon
    <2>4. CASE x.link /\ \E m \in Replies : /\ m.type = "data" /\ m.stream = p /\ m.bytes = Bytes(x.offset[p], e)
                                            /\ y.down = Append(x.down, m)
      <3>1. PICK m \in Replies : /\ m.type = "data" /\ m.stream = p /\ m.bytes = Bytes(x.offset[p], e)
                                 /\ y.down = Append(x.down, m)
        BY <2>4, Zenon
      <3>2. Flow(y, Append(x.down, m), o, r)
        BY <2>1, <2>2, <2>4, <3>1, FlowData, Zenon
      <3>3. QED
        BY <3>1, <3>2, Zenon
    <2>5. QED
      BY <2>1, <2>3, <2>4, Zenon
  <1>4. CASE Exits(x, y, r)
    BY <1>4, FlowExit, Zenon DEF Exits
  <1>5. QED
    BY <1>1, <1>2, <1>3, <1>4, Zenon DEF Follows

\* What is in flight when the Attached reply is first and something is added or lost.
LEMMA HeadTail ==
  ASSUME NEW q \in Seq(Replies), q # <<>>
  PROVE  /\ Tail(q) \in Seq(Replies) /\ Head(q) \in Replies
         /\ \A m \in Replies : Append(q, m) # <<>> /\ Head(Append(q, m)) = Head(q) /\ Tail(Append(q, m)) = Append(Tail(q), m)
         /\ \A d \in 1 .. Len(q) : /\ d - 1 \in 0 .. Len(Tail(q)) /\ TakeFirst(q, d) # <<>>
                                   /\ Head(TakeFirst(q, d)) = Head(q) /\ Tail(TakeFirst(q, d)) = TakeFirst(Tail(q), d - 1)
  <1>1. Tail(q) \in Seq(Replies) /\ Head(q) \in Replies /\ Len(Tail(q)) = Len(q) - 1 /\ Len(q) \in Nat /\ Len(q) >= 1
    OBVIOUS
  <1>0. PICK n \in Nat : n = Len(q)
    BY <1>1, Zenon
  <1>2. ASSUME NEW m \in Replies
        PROVE  Append(q, m) # <<>> /\ Head(Append(q, m)) = Head(q) /\ Tail(Append(q, m)) = Append(Tail(q), m)
    <2>1. Append(q, m) \in Seq(Replies) /\ Len(Append(q, m)) = Len(q) + 1 /\ Append(q, m) # <<>> /\ Head(Append(q, m)) = Head(q)
      BY <1>1
    <2>2. Tail(Append(q, m)) \in Seq(Replies) /\ Append(Tail(q), m) \in Seq(Replies)
          /\ Len(Tail(Append(q, m))) = Len(q) /\ Len(Append(Tail(q), m)) = Len(q)
      BY <1>1, <2>1
    <2>3. ASSUME NEW i \in 1 .. Len(q) PROVE Tail(Append(q, m))[i] = Append(Tail(q), m)[i]
      <3>1. Tail(Append(q, m))[i] = Append(q, m)[i + 1]
        BY <1>1, <2>1
      <3>2. CASE i = Len(q)
        BY <1>1, <3>1, <3>2
      <3>3. CASE i < Len(q)
        <4>0. i + 1 \in 1 .. Len(q) /\ i \in 1 .. Len(Tail(q))
          BY <1>1, <3>3
        <4>1. Append(q, m)[i + 1] = q[i + 1] /\ Append(Tail(q), m)[i] = Tail(q)[i]
          <5>1. \A k \in 1 .. Len(q) : Append(q, m)[k] = q[k]
            OBVIOUS
          <5>2. \A k \in 1 .. Len(Tail(q)) : Append(Tail(q), m)[k] = Tail(q)[k]
            <6>1. Tail(q) \in Seq(Replies)
              BY <1>1, Zenon
            <6>2. QED
              BY <6>1
          <5>3. QED
            BY <4>0, <5>1, <5>2, Zenon
        <4>2. Tail(q)[i] = q[i + 1]
          BY <1>1, <3>3
        <4>3. QED
          BY <3>1, <4>1, <4>2, Zenon
      <3>4. i = Len(q) \/ i < Len(q)
        BY <1>0
      <3>5. QED
        BY <3>2, <3>3, <3>4, Zenon
    <2>4. QED
      BY <2>1, <2>2, <2>3, SameSequence, Zenon
  <1>3. ASSUME NEW d \in 1 .. Len(q)
        PROVE  /\ d - 1 \in 0 .. Len(Tail(q)) /\ TakeFirst(q, d) # <<>>
               /\ Head(TakeFirst(q, d)) = Head(q) /\ Tail(TakeFirst(q, d)) = TakeFirst(Tail(q), d - 1)
    <2>1. d - 1 \in 0 .. Len(Tail(q)) /\ TakeFirst(q, d) \in Seq(Replies) /\ Len(TakeFirst(q, d)) = d
          /\ \A i \in 1 .. d : TakeFirst(q, d)[i] = q[i]
      BY <1>1 DEF TakeFirst
    <2>2. TakeFirst(q, d) # <<>> /\ Head(TakeFirst(q, d)) = Head(q)
      BY <1>1, <2>1
    <2>3. TakeFirst(Tail(q), d - 1) \in Seq(Replies) /\ Len(TakeFirst(Tail(q), d - 1)) = d - 1
          /\ \A i \in 1 .. d - 1 : TakeFirst(Tail(q), d - 1)[i] = q[i + 1]
      BY <1>1, <2>1 DEF TakeFirst
    <2>4. Tail(TakeFirst(q, d)) \in Seq(Replies) /\ Len(Tail(TakeFirst(q, d))) = d - 1
          /\ \A i \in 1 .. d - 1 : Tail(TakeFirst(q, d))[i] = q[i + 1]
      BY <2>1, <2>2
    <2>5. QED
      BY <2>1, <2>2, <2>3, <2>4, SameSequence, Zenon
  <1>4. QED
    BY <1>1, <1>2, <1>3, Zenon

\* A client that waits for the Attached reply still finds it, or that it is lost.
LEMMA AttachFollows ==
  ASSUME NEW x, x.offset \in Offsets, x.down \in Seq(Replies), NEW y, NEW o, NEW r,
         Follows(x, y, r), AttachFlow(x, o, r), x.down # <<>> => Head(x.down).offset \in Offsets
  PROVE  AttachFlow(y, o, r)
  <1>1. CASE x.down = <<>> /\ ~x.link
    <2>1. Quiet(x, y) => y.down = <<>> /\ ~y.link
      BY <1>1, Zenon DEF Quiet
    <2>2. Cut(x, y) => y.down = <<>> /\ ~y.link
      BY <1>1 DEF Cut, TakeFirst
    <2>3. Pumps(x, y) => y.down = <<>> /\ ~y.link
      BY <1>1, Zenon DEF Pumps
    <2>4. ~Exits(x, y, r)
      BY <1>1, Zenon DEF Exits
    <2>5. QED
      BY <2>1, <2>2, <2>3, <2>4, Zenon DEF Follows, AttachFlow
  <1>2. CASE ~(x.down = <<>> /\ ~x.link)
    <2> PICK q : q = x.down
      BY Zenon
    <2>1. /\ q \in Seq(Replies) /\ q # <<>> /\ Head(q).type = "attached"
          /\ \A s \in Streams : /\ o[s] <= Head(q).offset[s]
                                /\ r[s].lossless => Head(q).offset[s] = o[s]
          /\ Flow(x, Tail(q), Head(q).offset, r) /\ Head(q).offset \in Offsets
      BY <1>2, Zenon DEF AttachFlow
    <2>2. SUFFICES \/ y.down = <<>> /\ ~y.link
                   \/ y.down # <<>> /\ Head(y.down) = Head(q) /\ Flow(y, Tail(y.down), Head(q).offset, r)
      BY <2>1, Zenon DEF AttachFlow
    <2>3. /\ Tail(q) \in Seq(Replies)
          /\ \A m \in Replies : Append(q, m) # <<>> /\ Head(Append(q, m)) = Head(q) /\ Tail(Append(q, m)) = Append(Tail(q), m)
          /\ \A d \in 1 .. Len(q) : /\ d - 1 \in 0 .. Len(Tail(q)) /\ TakeFirst(q, d) # <<>>
                                    /\ Head(TakeFirst(q, d)) = Head(q) /\ Tail(TakeFirst(q, d)) = TakeFirst(Tail(q), d - 1)
      BY <2>1, HeadTail, Zenon
    <2>4. CASE Quiet(x, y)
      BY <2>1, <2>4, FlowFrame, Zenon DEF Quiet
    <2>5. CASE Cut(x, y)
      <3>1. PICK d \in 0 .. Len(q) : y.down = TakeFirst(q, d)
        BY <2>5, Zenon DEF Cut
      <3>2. ~y.link /\ y.offset = x.offset /\ (y.state = "serving" => x.state = "serving")
        BY <2>5, Zenon DEF Cut
      <3>3. CASE d = 0
        BY <3>1, <3>2, <3>3 DEF TakeFirst
      <3>4. CASE d # 0
        <4>1. d \in 1 .. Len(q)
          BY <2>1, <3>4
        <4>2. Flow(y, TakeFirst(Tail(q), d - 1), Head(q).offset, r)
          BY <2>1, <2>3, <3>2, <4>1, FlowTake, Zenon
        <4>3. QED
          BY <2>3, <3>1, <4>1, <4>2, Zenon
      <3>5. QED
        BY <3>3, <3>4, Zenon
    <2>6. CASE Pumps(x, y)
      <3>1. PICK p \in Streams, e \in Nat :
              /\ x.offset[p] <= e /\ y.offset = [x.offset EXCEPT ![p] = e]
              /\ \/ ~y.link /\ y.down = q
                 \/ x.link /\ \E m \in Replies : /\ m.type = "data" /\ m.stream = p /\ m.bytes = Bytes(x.offset[p], e)
                                                 /\ y.down = Append(q, m)
        BY <2>6, Zenon DEF Pumps
      <3>2. x.state = "serving" /\ y.state = "serving"
        BY <2>6, Zenon DEF Pumps
      <3>3. CASE ~y.link /\ y.down = q
        <4>1. y.offset \in Offsets /\ \A s \in Streams : x.offset[s] <= y.offset[s]
          BY <3>1 DEF Offsets
        <4>2. Flow(y, Tail(q), Head(q).offset, r)
          BY <2>1, <3>2, <3>3, <4>1, FlowLost, Zenon
        <4>3. QED
          BY <2>1, <3>3, <4>2, Zenon
      <3>4. CASE x.link /\ \E m \in Replies : /\ m.type = "data" /\ m.stream = p /\ m.bytes = Bytes(x.offset[p], e)
                                              /\ y.down = Append(q, m)
        <4>1. PICK m \in Replies : /\ m.type = "data" /\ m.stream = p /\ m.bytes = Bytes(x.offset[p], e)
                                   /\ y.down = Append(q, m)
          BY <3>4, Zenon
        <4>2. PICK h \in Offsets : h = Head(q).offset
          BY <2>1, Zenon
        <4>3. Flow(x, Tail(q), h, r)
          BY <2>1, <4>2, Zenon
        <4>4. Flow(y, Append(Tail(q), m), h, r)
          BY <2>3, <3>1, <3>2, <3>4, <4>1, <4>3, FlowData
        <4>5. QED
          BY <2>3, <4>1, <4>2, <4>4, Zenon
      <3>5. QED
        BY <3>1, <3>3, <3>4, Zenon
    <2>7. CASE Exits(x, y, r)
      <3>1. PICK m \in Replies : m.type = "exit" /\ y.down = Append(q, m)
        BY <2>7, Zenon DEF Exits
      <3>2. Flow(y, Append(Tail(q), m), Head(q).offset, r)
        BY <2>1, <2>3, <2>7, <3>1, FlowExit DEF Exits
      <3>3. QED
        BY <2>3, <3>1, <3>2, Zenon
    <2>8. QED
      BY <2>4, <2>5, <2>6, <2>7, Zenon DEF Follows
  <1>3. QED
    BY <1>1, <1>2, Zenon

-----------------------------------------------------------------------------
(* Steps that leave the consumer where it is.                                *)

\* The rings' offsets are numbers.
LEMMA EndType ==
  ASSUME Supply, NEW s \in Streams
  PROVE  EndOffset(ring[s]) \in Nat /\ RingOK(ring[s]) /\ ring[s].released \in Nat /\ ring[s].start \in Nat
  BY RingOffsets, Zenon DEF Supply, Supplied

\* What a handler has done stays right as the rings go on.
LEMMA SessionAhead ==
  ASSUME NEW x, NEW r, NEW w, NEW o, SessionOK(x, r, o), Ahead(r, w),
         \A s \in Streams : EndOffset(r[s]) \in Nat /\ EndOffset(w[s]) \in Nat
  PROVE  SessionOK(x, w, o)
  <1>1. x \in SessionType /\ Len(x.down) <= Window /\ AcksOK(x, o) /\ x.offset \in Offsets
    BY Zenon DEF SessionOK, SessionType
  <1>2. ASSUME NEW s \in Streams
        PROVE  /\ x.offset[s] <= EndOffset(w[s])
               /\ x.pump[s] = "eof" => w[s].closed /\ x.offset[s] = EndOffset(w[s])
               /\ x.pump[s] = "stopped" => x.stop
    <2>1. /\ x.offset[s] <= EndOffset(r[s])
          /\ x.pump[s] = "eof" => r[s].closed /\ x.offset[s] = EndOffset(r[s])
          /\ x.pump[s] = "stopped" => x.stop
      BY Zenon DEF SessionOK, Pumped
    <2>2. EndOffset(r[s]) <= EndOffset(w[s]) /\ (r[s].closed => w[s].closed /\ EndOffset(w[s]) = EndOffset(r[s]))
      BY Zenon DEF Ahead
    <2>3. x.offset[s] \in Nat
      BY <1>1, Zenon DEF Offsets
    <2>4. x.offset[s] <= EndOffset(w[s])
      BY <2>1, <2>2, <2>3
    <2>5. QED
      BY <2>1, <2>2, <2>4, Zenon
  <1>3. QED
    BY <1>1, <1>2, Zenon DEF SessionOK, Pumped

\* So does what the client was given.
LEMMA ClientAhead ==
  ASSUME NEW c, NEW r, NEW w, ClientOK(c, r), Ahead(r, w)
  PROVE  ClientOK(c, w)
  <1>1. \A s \in Streams : Given(c.got[s], c.offset[s], w[s].lossless)
    BY Zenon DEF ClientOK, Ahead
  <1>2. c.result = "exit" => c.pc = "done" /\ \A s \in Streams : w[s].closed /\ c.offset[s] = EndOffset(w[s])
    BY Zenon DEF ClientOK, Ahead
  <1>3. QED
    BY <1>1, <1>2, Zenon DEF ClientOK

\* And what it waits for.
LEMMA AttachRings ==
  ASSUME NEW x, NEW o, NEW r, NEW w, AttachFlow(x, o, r), Ahead(r, w)
  PROVE  AttachFlow(x, o, w)
  <1>1. Flow(x, Tail(x.down), Head(x.down).offset, r) => Flow(x, Tail(x.down), Head(x.down).offset, w)
    BY FlowRings, Zenon
  <1>2. \A s \in Streams : w[s].lossless = r[s].lossless
    BY Zenon DEF Ahead
  <1>3. QED
    BY <1>1, <1>2, Zenon DEF AttachFlow

\* An Attached reply says where the stream goes on.
LEMMA AttachedType ==
  ASSUME NEW q \in Seq(Replies), q # <<>>, Head(q).type = "attached"
  PROVE  Head(q).offset \in Offsets
  <1>1. PICK m \in Replies : m = Head(q)
    OBVIOUS
  <1>2. m \in [type : {"attached"}, offset : Offsets]
    <2>1. m.type = "attached"
      BY <1>1, Zenon
    <2>2. m \notin [type : {"data"}, stream : Streams, bytes : Seq(Nat)] /\ m \notin [type : {"exit"}]
      BY <2>1, Zenon
    <2>3. QED
      BY <1>1, <2>2, Zenon DEF Replies
  <1>3. QED
    BY <1>1, <1>2, Zenon

\* Every handler goes on or stays, the rings go on, and the client stays where it is.
Goes ==
  /\ Ahead(ring, ring')
  /\ \A j \in Sessions : SessionOK(sess'[j], ring, client.offset) /\ Follows(sess[j], sess'[j], ring)
  /\ ClientOK(client', ring)
  /\ client'.offset = client.offset
  /\ client'.pc \in {"recv", "flush"} => client.pc \in {"recv", "flush"} /\ client'.cur = client.cur
  /\ client'.pc = "attaching" => client.pc = "attaching" /\ client'.new = client.new

\* Such a step keeps the invariant if the command's own state is right after it.
LEMMA GoesOn ==
  ASSUME StreamInv, Goes, Typed', Supply'
  PROVE  StreamInv'
  <1>1. \A s \in Streams : EndOffset(ring[s]) \in Nat /\ EndOffset(ring'[s]) \in Nat
    BY EndType, RingOffsets, Zenon DEF StreamInv, Supply, Supplied
  <1>2. \A j \in Sessions : SessionOK(sess'[j], ring', client'.offset)
    <2>1. \A j \in Sessions : SessionOK(sess'[j], ring, client'.offset)
      BY Zenon DEF Goes
    <2>2. Ahead(ring, ring')
      BY Zenon DEF Goes
    <2>3. QED
      BY <1>1, <2>1, <2>2, SessionAhead, Zenon
  <1>3. ClientOK(client', ring')
    BY ClientAhead, Zenon DEF Goes
  <1>4. \A j \in Sessions : sess[j].down \in Seq(Replies) /\ sess[j].offset \in Offsets
    BY Zenon DEF StreamInv, SessionOK, SessionType
  <1>5. client.offset \in Offsets /\ client.cur \in Sessions /\ client.new \in Sessions
    BY Zenon DEF StreamInv, ClientOK
  <1>6. ASSUME client'.pc \in {"recv", "flush"}
        PROVE  Flow(sess'[client'.cur], sess'[client'.cur].down, client'.offset, ring')
    <2>1. /\ client.pc \in {"recv", "flush"} /\ client'.cur = client.cur /\ client'.offset = client.offset
          /\ Follows(sess[client.cur], sess'[client.cur], ring) /\ Ahead(ring, ring')
      BY <1>5, <1>6, Zenon DEF Goes
    <2>2. Flow(sess[client.cur], sess[client.cur].down, client.offset, ring)
      BY <2>1, Zenon DEF StreamInv, View
    <2>3. Flow(sess'[client.cur], sess'[client.cur].down, client.offset, ring)
      BY <1>4, <1>5, <2>1, <2>2, FlowFollows, Zenon
    <2>4. QED
      BY <2>1, <2>3, FlowRings, Zenon
  <1>7. ASSUME client'.pc = "attaching" PROVE AttachFlow(sess'[client'.new], client'.offset, ring')
    <2>1. /\ client.pc = "attaching" /\ client'.new = client.new /\ client'.offset = client.offset
          /\ Follows(sess[client.new], sess'[client.new], ring) /\ Ahead(ring, ring')
      BY <1>5, <1>7, Zenon DEF Goes
    <2>2. AttachFlow(sess[client.new], client.offset, ring)
      BY <2>1, Zenon DEF StreamInv, View
    <2>3. sess[client.new].down # <<>> => Head(sess[client.new].down).offset \in Offsets
      BY <1>4, <1>5, <2>2, AttachedType, Zenon DEF AttachFlow
    <2>4. AttachFlow(sess'[client.new], client.offset, ring)
      BY <1>4, <1>5, <2>1, <2>2, <2>3, AttachFollows, Zenon
    <2>5. QED
      BY <2>1, <2>4, AttachRings, Zenon
  <1>8. View(client, sess, ring)'
    BY <1>6, <1>7, Zenon DEF View
  <1>9. (\A j \in Sessions : SessionOK(sess[j], ring, client.offset))' /\ ClientOK(client, ring)'
    BY <1>2, <1>3, Zenon DEF Sessions
  <1>10. QED
    BY <1>8, <1>9, Zenon DEF StreamInv

-----------------------------------------------------------------------------
(* The process, the drain goroutines and waitAndReap.                        *)

\* Rings that stay as they are.
LEMMA AheadSame ==
  ASSUME Supply, NEW w, w = ring
  PROVE  Ahead(ring, w)
  <1>1. \A s \in Streams : EndOffset(ring[s]) <= EndOffset(w[s])
    BY EndType
  <1>2. QED
    BY <1>1, Zenon DEF Ahead

\* A step of the command alone.
LEMMA CommandStep ==
  ASSUME StreamInv, UNCHANGED <<sess, client>>, Ahead(ring, ring'), Typed', Supply'
  PROVE  StreamInv'
  <1>1. sess' = sess /\ client' = client
    BY Zenon
  <1>2. \A j \in Sessions : SessionOK(sess'[j], ring, client.offset) /\ Follows(sess[j], sess'[j], ring)
    BY <1>1, Zenon DEF StreamInv, Follows, Quiet
  <1>3. ClientOK(client', ring)
    BY <1>1, Zenon DEF StreamInv
  <1>4. Goes
    BY <1>1, <1>2, <1>3, Zenon DEF Goes
  <1>5. QED
    BY <1>4, GoesOn, Zenon

\* What the invariant says of one stream's ring, pipe and drain goroutine.
LEMMA SuppliedFacts ==
  ASSUME StreamInv, NEW s \in Streams
  PROVE  /\ Supplied(ring[s], drain[s], taken[s], proc.wrote[s], load.len[s], client.offset[s])
         /\ RingOK(ring[s]) /\ EndOffset(ring[s]) \in Nat /\ ring[s].start \in Nat /\ ring[s].released \in Nat
         /\ taken[s] \in Nat /\ proc.wrote[s] \in Nat /\ load.len[s] \in Nat /\ client.offset[s] \in Nat
         /\ EndOffset(ring[s]) <= taken[s] /\ taken[s] <= proc.wrote[s] /\ proc.wrote[s] <= load.len[s]
         /\ drain[s] \in [pc : {"read", "write", "done"}, rest : Seq(Nat)]
  <1>1. Supplied(ring[s], drain[s], taken[s], proc.wrote[s], load.len[s], client.offset[s])
    BY Zenon DEF StreamInv, Supply
  <1>2. RingOK(ring[s]) /\ EndOffset(ring[s]) \in Nat /\ ring[s].start \in Nat /\ ring[s].released \in Nat
    BY EndType, Zenon DEF StreamInv
  <1>3. drain[s] \in [pc : {"read", "write", "done"}, rest : Seq(Nat)]
    BY Zenon DEF StreamInv, Typed
  <1>4. QED
    BY <1>1, <1>2, <1>3, Zenon DEF Supplied

\* The program writes.
LEMMA ProcWriteInv ==
  ASSUME StreamInv, NEW s \in Streams, ProcWrite(s)
  PROVE  StreamInv'
  <1>1. /\ proc' = [proc EXCEPT !.wrote[s] = @ + 1] /\ proc.wrote[s] < load.len[s]
        /\ UNCHANGED <<taken, ring, drain, reap, listed, current, sess, load, client>>
    BY Zenon DEF ProcWrite
  <1>2. proc \in ProcType /\ proc.wrote \in Offsets
    BY Zenon DEF StreamInv, Typed, ProcType
  <1>3. PICK o : o = [proc.wrote EXCEPT ![s] = proc.wrote[s] + 1]
    BY Zenon
  <1>4. o \in Offsets /\ o[s] = proc.wrote[s] + 1 /\ \A t \in Streams \ {s} : o[t] = proc.wrote[t]
    BY <1>2, <1>3 DEF Offsets
  <1>5. proc' = [proc EXCEPT !.wrote = o]
    BY <1>1, <1>2, <1>3, Zenon DEF ProcType
  <1>6. proc' \in ProcType /\ proc'.wrote = o
    BY <1>2, <1>4, <1>5, Zenon DEF ProcType
  <1>7. Typed'
    BY <1>1, <1>6, Zenon DEF StreamInv, Typed
  <1>8. ASSUME NEW t \in Streams
        PROVE  Supplied(ring[t], drain[t], taken[t], o[t], load.len[t], client.offset[t])
    <2>1. CASE t = s
      <3>1. o[t] \in Nat /\ taken[t] <= o[t] /\ o[t] <= load.len[t]
        BY <1>1, <1>4, <2>1, SuppliedFacts
      <3>2. QED
        BY <3>1, SuppliedFacts, Zenon DEF Supplied
    <2>2. CASE t # s
      BY <1>4, <2>2, SuppliedFacts, Zenon
    <2>3. QED
      BY <2>1, <2>2, Zenon
  <1>9. Supply'
    BY <1>1, <1>6, <1>8, Zenon DEF Supply
  <1>10. Ahead(ring, ring')
    BY <1>1, AheadSame, Zenon DEF StreamInv
  <1>11. QED
    BY <1>1, <1>7, <1>9, <1>10, CommandStep, Zenon

\* The program exits, and waitAndReap goes on without touching the rings.
LEMMA QuietCommandInv ==
  ASSUME StreamInv, ProcExit \/ ReapWait \/ ReapForget
  PROVE  StreamInv'
  <1>1. /\ UNCHANGED <<taken, ring, drain, current, sess, load, client>>
        /\ proc' = proc \/ proc' = [proc EXCEPT !.running = FALSE]
        /\ reap' \in {"wait", "drain", "forced", "forget", "done"} /\ listed' \in BOOLEAN
    BY DEF ProcExit, ReapWait, ReapForget, StreamInv, Typed
  <1>2. proc \in ProcType
    BY Zenon DEF StreamInv, Typed
  <1>3. \A b \in BOOLEAN : [proc EXCEPT !.running = b] \in ProcType /\ [proc EXCEPT !.running = b].wrote = proc.wrote
    BY <1>2, Zenon DEF ProcType
  <1>4. proc' \in ProcType /\ proc'.wrote = proc.wrote
    BY <1>1, <1>2, <1>3, Zenon
  <1>5. Typed'
    BY <1>1, <1>4, Zenon DEF StreamInv, Typed
  <1>6. Supply'
    BY <1>1, <1>4, Zenon DEF StreamInv, Supply
  <1>7. Ahead(ring, ring')
    BY <1>1, AheadSame, Zenon DEF StreamInv
  <1>8. QED
    BY <1>1, <1>5, <1>6, <1>7, CommandStep, Zenon

\* A drain goroutine reads from the pipe.
LEMMA DrainReadInv ==
  ASSUME StreamInv, NEW s \in Streams, DrainRead(s)
  PROVE  StreamInv'
  <1>1. PICK upto : /\ upto = MinOf(proc.wrote[s], taken[s] + MaxChunk)
                    /\ taken' = [taken EXCEPT ![s] = upto]
                    /\ drain' = [drain EXCEPT ![s] = [pc |-> "write", rest |-> Bytes(taken[s], upto)]]
    BY Zenon DEF DrainRead
  <1>2. drain[s].pc = "read" /\ proc.wrote[s] > taken[s] /\ UNCHANGED <<proc, ring, reap, listed, current, sess, load, client>>
    BY Zenon DEF DrainRead
  <1>3. MaxChunk \in Nat /\ MaxChunk > 0
    BY StreamAssumption
  <1>4. upto \in Nat /\ taken[s] < upto /\ upto <= proc.wrote[s] /\ taken[s] <= upto
    BY <1>1, <1>2, <1>3, SuppliedFacts DEF MinOf
  <1>5. Bytes(taken[s], upto) \in Seq(Nat)
    BY <1>4, SuppliedFacts, BytesType, Zenon
  <1>6. taken \in Offsets /\ drain \in [Streams -> [pc : {"read", "write", "done"}, rest : Seq(Nat)]]
    BY Zenon DEF StreamInv, Typed
  <1>7. taken' \in Offsets /\ taken'[s] = upto /\ \A t \in Streams \ {s} : taken'[t] = taken[t]
    BY <1>1, <1>4, <1>6, Zenon DEF Offsets
  <1>8. /\ drain' \in [Streams -> [pc : {"read", "write", "done"}, rest : Seq(Nat)]]
        /\ drain'[s].pc = "write" /\ drain'[s].rest = Bytes(taken[s], upto)
        /\ \A t \in Streams \ {s} : drain'[t] = drain[t]
    BY <1>1, <1>5, <1>6, Zenon
  <1>9. Typed'
    BY <1>2, <1>7, <1>8, Zenon DEF StreamInv, Typed
  <1>10. ASSUME NEW t \in Streams
         PROVE  Supplied(ring[t], drain'[t], taken'[t], proc.wrote[t], load.len[t], client.offset[t])
    <2>1. CASE t = s
      <3>1. EndOffset(ring[s]) = taken[s]
        BY <1>2, SuppliedFacts, Zenon DEF Supplied
      <3>2. EndOffset(ring[s]) <= upto /\ EndOffset(ring[s]) < upto
        BY <1>4, <3>1, Zenon
      <3>3. QED
        BY <1>4, <1>7, <1>8, <2>1, <3>1, <3>2, SuppliedFacts, Zenon DEF Supplied
    <2>2. CASE t # s
      BY <1>7, <1>8, <2>2, SuppliedFacts, Zenon
    <2>3. QED
      BY <2>1, <2>2, Zenon
  <1>11. Supply'
    BY <1>2, <1>10, Zenon DEF Supply
  <1>12. Ahead(ring, ring')
    BY <1>2, AheadSame, Zenon DEF StreamInv
  <1>13. QED
    BY <1>2, <1>9, <1>11, <1>12, CommandStep, Zenon

DrainType == [pc : {"read", "write", "done"}, rest : Seq(Nat)]

\* Closing a ring changes nothing else, and a drain goroutine that is done needs nothing.
LEMMA SuppliedClosed ==
  ASSUME NEW r, NEW d, NEW tk, NEW wr, NEW len, NEW c, Supplied(r, d, tk, wr, len, c), NEW w, w = CloseRing(r),
         NEW e, e.pc = "done" \/ e = d
  PROVE  Supplied(w, e, tk, wr, len, c) /\ EndOffset(w) = EndOffset(r) /\ w.lossless = r.lossless /\ w.closed
  <1>1. /\ RingOK(w) /\ w.closed /\ EndOffset(w) = EndOffset(r)
        /\ w.start = r.start /\ w.lossless = r.lossless /\ w.released = r.released
    BY CloseRingCorrect, Zenon DEF Supplied
  <1>2. QED
    BY <1>1, Zenon DEF Supplied

\* A drain goroutine is done with a ring that it may have closed.
LEMMA SuppliedDone ==
  ASSUME NEW r, NEW d, NEW tk, NEW wr, NEW len, NEW c, Supplied(r, d, tk, wr, len, c), NEW e, e.pc = "done"
  PROVE  Supplied(r, e, tk, wr, len, c)
  BY Zenon DEF Supplied

\* One stream's ring and drain goroutine change.
LEMMA OneStream ==
  ASSUME StreamInv, NEW s \in Streams, NEW w, NEW e \in DrainType,
         DOMAIN ring' = Streams, ring'[s] = w, \A t \in Streams \ {s} : ring'[t] = ring[t], drain' = [drain EXCEPT ![s] = e],
         UNCHANGED <<proc, taken, reap, listed, current, sess, load, client>>,
         Supplied(w, e, taken[s], proc.wrote[s], load.len[s], client.offset[s]),
         EndOffset(ring[s]) <= EndOffset(w), w.lossless = ring[s].lossless,
         ring[s].closed => w.closed /\ EndOffset(w) = EndOffset(ring[s])
  PROVE  StreamInv'
  <1>1. DOMAIN ring = Streams /\ drain \in [Streams -> DrainType]
    BY Zenon DEF StreamInv, Typed, DrainType
  <1>2. DOMAIN ring' = Streams /\ ring'[s] = w /\ \A t \in Streams \ {s} : ring'[t] = ring[t]
    BY Zenon
  <1>3. drain' \in [Streams -> DrainType] /\ drain'[s] = e /\ \A t \in Streams \ {s} : drain'[t] = drain[t]
    BY <1>1, Zenon
  <1>4. Typed'
    BY <1>2, <1>3, Zenon DEF StreamInv, Typed, DrainType
  <1>5. Supply'
    <2>1. ASSUME NEW t \in Streams
          PROVE  Supplied(ring'[t], drain'[t], taken[t], proc.wrote[t], load.len[t], client.offset[t])
      <3>1. CASE t = s
        BY <1>2, <1>3, <3>1, Zenon
      <3>2. CASE t # s
        BY <1>2, <1>3, <3>2, SuppliedFacts, Zenon
      <3>3. QED
        BY <3>1, <3>2, Zenon
    <2>2. QED
      BY <2>1, Zenon DEF Supply
  <1>6. Ahead(ring, ring')
    <2>1. \A t \in Streams : EndOffset(ring[t]) <= EndOffset(ring[t])
      BY SuppliedFacts
    <2>2. QED
      BY <1>2, <2>1, Zenon DEF Ahead
  <1>7. QED
    BY <1>4, <1>5, <1>6, CommandStep, Zenon

\* A drain goroutine is at the end of its pipe.
LEMMA DrainEOFInv ==
  ASSUME StreamInv, NEW s \in Streams, DrainEOF(s)
  PROVE  StreamInv'
  <1>1. /\ drain[s].pc = "read" /\ ring' = [ring EXCEPT ![s] = CloseRing(@)] /\ drain' = [drain EXCEPT ![s].pc = "done"]
        /\ UNCHANGED <<proc, taken, reap, listed, current, sess, load, client>>
    BY Zenon DEF DrainEOF
  <1>2. DOMAIN ring = Streams /\ drain \in [Streams -> DrainType] /\ drain[s] \in DrainType
    BY Zenon DEF StreamInv, Typed, DrainType
  <1>3. PICK w, e : w = CloseRing(ring[s]) /\ e = [drain[s] EXCEPT !.pc = "done"]
    BY Zenon
  <1>4. DOMAIN ring' = Streams /\ ring'[s] = w /\ (\A t \in Streams \ {s} : ring'[t] = ring[t]) /\ drain' = [drain EXCEPT ![s] = e]
    BY <1>1, <1>2, <1>3, Zenon
  <1>5. e \in DrainType /\ e.pc = "done"
    BY <1>2, <1>3, Zenon DEF DrainType
  <1>6. /\ Supplied(w, e, taken[s], proc.wrote[s], load.len[s], client.offset[s])
        /\ EndOffset(w) = EndOffset(ring[s]) /\ w.lossless = ring[s].lossless /\ w.closed
    <2>1. Supplied(ring[s], drain[s], taken[s], proc.wrote[s], load.len[s], client.offset[s])
      BY SuppliedFacts, Zenon
    <2>2. w = CloseRing(ring[s]) /\ e.pc = "done"
      BY <1>3, <1>5, Zenon
    <2>3. QED
      BY <2>1, <2>2, SuppliedClosed
  <1>7. EndOffset(ring[s]) <= EndOffset(w)
    BY <1>6, SuppliedFacts
  <1>8. QED
    BY <1>1, <1>4, <1>5, <1>6, <1>7, OneStream, Zenon

\* A drain goroutine writes to its ring, or finds it closed.
LEMMA DrainWriteInv ==
  ASSUME StreamInv, NEW s \in Streams, DrainWrite(s)
  PROVE  StreamInv'
  <1>1. drain[s].pc = "write" /\ UNCHANGED <<proc, taken, reap, listed, current, sess, load, client>>
    BY Zenon DEF DrainWrite
  <1>2. PICK k \in Nat, f \in Nat : k = EndOffset(ring[s]) /\ f = taken[s] /\ k < f /\ k <= f
    BY <1>1, SuppliedFacts, Zenon DEF Supplied
  <1>3. /\ drain[s].rest = Bytes(k, f) /\ RingOK(ring[s]) /\ ring[s].start \in Nat /\ ring[s].released \in Nat
        /\ client.offset[s] \in Nat /\ ring[s].released <= client.offset[s] /\ client.offset[s] <= k
        /\ ring[s].lossless => ring[s].start <= ring[s].released
    BY <1>1, <1>2, SuppliedFacts, Zenon DEF Supplied
  <1>4. CASE ring[s].closed /\ drain' = [drain EXCEPT ![s] = [pc |-> "done", rest |-> <<>>]] /\ UNCHANGED ring
    <2>1. PICK e : e = [pc |-> "done", rest |-> <<>>]
      BY Zenon
    <2>2. e \in DrainType /\ e.pc = "done"
      BY <2>1 DEF DrainType
    <2>3. Supplied(ring[s], e, taken[s], proc.wrote[s], load.len[s], client.offset[s])
      BY <2>2, SuppliedFacts, SuppliedDone, Zenon
    <2>4. DOMAIN ring' = Streams /\ ring' = ring
      BY <1>4, Zenon DEF StreamInv, Typed
    <2>5. EndOffset(ring[s]) <= EndOffset(ring[s])
      BY SuppliedFacts
    <2>6. QED
      BY <1>1, <1>4, <2>1, <2>2, <2>3, <2>4, <2>5, OneStream, Zenon
  <1>5. CASE /\ ~ring[s].closed /\ ~ring[s].lossless
             /\ ring' = [ring EXCEPT ![s] = WriteEvicting(@, drain[s].rest)]
             /\ drain' = [drain EXCEPT ![s] = [pc |-> "read", rest |-> <<>>]]
    <2>1. PICK e, w : e = [pc |-> "read", rest |-> <<>>] /\ w = WriteEvicting(ring[s], drain[s].rest)
      BY Zenon
    <2>2. e \in DrainType /\ e.pc = "read"
      BY <2>1 DEF DrainType
    <2>3. /\ RingOK(w) /\ EndOffset(w) = f /\ w.start < f /\ w.start >= ring[s].start
          /\ w.lossless = ring[s].lossless /\ w.released = ring[s].released /\ w.closed = ring[s].closed
      <3>1. drain[s].rest = Bytes(k, f) /\ RingOK(ring[s]) /\ k = EndOffset(ring[s])
        BY <1>2, <1>3, Zenon
      <3>2. QED
        BY <1>2, <2>1, <3>1, WriteEvictingCorrect
    <2>4. client.offset[s] <= f /\ f <= f /\ EndOffset(ring[s]) <= EndOffset(w)
      BY <1>2, <1>3, <2>3
    <2>5. Supplied(w, e, taken[s], proc.wrote[s], load.len[s], client.offset[s])
      BY <1>2, <1>3, <1>5, <2>2, <2>3, <2>4, SuppliedFacts, Zenon DEF Supplied
    <2>6. DOMAIN ring = Streams
      BY Zenon DEF StreamInv, Typed
    <2>7. DOMAIN ring' = Streams /\ ring'[s] = w /\ \A t \in Streams \ {s} : ring'[t] = ring[t]
      BY <1>5, <2>1, <2>6, Zenon
    <2>8. QED
      BY <1>1, <1>5, <2>1, <2>2, <2>3, <2>4, <2>5, <2>7, OneStream, Zenon
  <1>6. CASE /\ ~ring[s].closed /\ ring[s].lossless /\ Space(ring[s]) > 0
             /\ ring' = [ring EXCEPT ![s] = WriteLossless(@, drain[s].rest)]
             /\ LET rest == DropFirst(drain[s].rest, Accepted(ring[s], drain[s].rest))
                IN  drain' = [drain EXCEPT ![s] = [pc |-> IF rest = <<>> THEN "read" ELSE "write", rest |-> rest]]
    <2>1. PICK w, a : w = WriteLossless(ring[s], drain[s].rest) /\ a = Accepted(ring[s], drain[s].rest)
      BY Zenon
    <2>2. PICK rest : rest = DropFirst(drain[s].rest, a)
      BY Zenon
    <2>3. PICK e : e = [pc |-> IF rest = <<>> THEN "read" ELSE "write", rest |-> rest]
      BY Zenon
    <2>4. /\ a \in 1 .. (f - k) /\ RingOK(w) /\ EndOffset(w) = k + a /\ w.start < EndOffset(w)
          /\ w.start >= ring[s].start /\ (w.start <= ring[s].start \/ w.start <= ring[s].released)
          /\ w.lossless = ring[s].lossless /\ w.released = ring[s].released /\ w.closed = ring[s].closed
          /\ DropFirst(drain[s].rest, a) = Bytes(k + a, f)
      <3>1. drain[s].rest = Bytes(k, f) /\ RingOK(ring[s]) /\ k = EndOffset(ring[s]) /\ Space(ring[s]) > 0
        BY <1>2, <1>3, <1>6, Zenon
      <3>2. QED
        BY <1>2, <2>1, <3>1, WriteLosslessCorrect
    <2>5. PICK g \in Nat : g = k + a /\ g <= f /\ k <= g
      BY <1>2, <2>4
    <2>6. rest = Bytes(g, f) /\ rest \in Seq(Nat) /\ Len(rest) = f - g
      BY <2>2, <2>4, <2>5, BytesType, Zenon
    <2>7. e \in DrainType /\ e.rest = rest /\ (e.pc = "read" => g = f) /\ (e.pc = "write" => g < f) /\ e.pc \in {"read", "write"}
      <3>1. rest = <<>> => g = f
        BY <2>5, <2>6
      <3>2. rest # <<>> => g < f
        BY <2>5, <2>6
      <3>3. CASE rest = <<>>
        <4>1. e = [pc |-> "read", rest |-> rest]
          BY <2>3, <3>3, Zenon
        <4>2. QED
          BY <2>6, <3>1, <3>3, <4>1, Zenon DEF DrainType
      <3>4. CASE rest # <<>>
        <4>1. e = [pc |-> "write", rest |-> rest]
          BY <2>3, <3>4, Zenon
        <4>2. QED
          BY <2>6, <3>2, <3>4, <4>1, Zenon DEF DrainType
      <3>5. QED
        BY <3>3, <3>4, Zenon
    <2>8. EndOffset(w) = g /\ client.offset[s] <= g /\ EndOffset(ring[s]) <= g /\ w.start <= w.released /\ w.start \in Nat
      BY <1>2, <1>3, <1>6, <2>4, <2>5, RingOffsets
    <2>9. Supplied(w, e, taken[s], proc.wrote[s], load.len[s], client.offset[s])
      BY <1>2, <1>3, <2>4, <2>5, <2>6, <2>7, <2>8, SuppliedFacts, Zenon DEF Supplied
    <2>10. DOMAIN ring = Streams
      BY Zenon DEF StreamInv, Typed
    <2>11. DOMAIN ring' = Streams /\ ring'[s] = w /\ (\A t \in Streams \ {s} : ring'[t] = ring[t]) /\ drain' = [drain EXCEPT ![s] = e]
      BY <1>6, <2>1, <2>2, <2>3, <2>10, Zenon
    <2>12. QED
      BY <1>1, <1>6, <2>4, <2>7, <2>8, <2>9, <2>11, OneStream
  <1>7. QED
    BY <1>4, <1>5, <1>6, Zenon DEF DrainWrite

\* waitAndReap closes the rings.
LEMMA ReapInv ==
  ASSUME StreamInv, ReapForce \/ ReapRecord
  PROVE  StreamInv'
  <1>1. /\ ring' = [s \in Streams |-> CloseRing(ring[s])] /\ UNCHANGED <<proc, taken, drain, listed, current, sess, load, client>>
        /\ reap' \in {"wait", "drain", "forced", "forget", "done"}
    BY Zenon DEF ReapForce, ReapRecord
  <1>2. ASSUME NEW s \in Streams
        PROVE  /\ Supplied(ring'[s], drain[s], taken[s], proc.wrote[s], load.len[s], client.offset[s])
               /\ EndOffset(ring'[s]) = EndOffset(ring[s]) /\ ring'[s].lossless = ring[s].lossless /\ ring'[s].closed
    <2>1. ring'[s] = CloseRing(ring[s])
      BY <1>1, Zenon
    <2>2. QED
      <3>1. Supplied(ring[s], drain[s], taken[s], proc.wrote[s], load.len[s], client.offset[s])
        BY SuppliedFacts, Zenon
      <3>2. QED
        BY <2>1, <3>1, SuppliedClosed
  <1>3. Typed'
    BY <1>1, Zenon DEF StreamInv, Typed
  <1>4. Supply'
    BY <1>1, <1>2, Zenon DEF Supply
  <1>5. Ahead(ring, ring')
    <2>1. \A t \in Streams : EndOffset(ring[t]) <= EndOffset(ring[t])
      BY SuppliedFacts
    <2>2. QED
      BY <1>2, <2>1, Zenon DEF Ahead
  <1>6. QED
    BY <1>1, <1>3, <1>4, <1>5, CommandStep, Zenon

-----------------------------------------------------------------------------
(* The handlers.                                                             *)

\* One handler goes on, and perhaps the rings.
LEMMA OneHandler ==
  ASSUME StreamInv, NEW j \in Sessions, NEW y, sess' = [sess EXCEPT ![j] = y], client' = client,
         SessionOK(y, ring, client.offset), Follows(sess[j], y, ring), Ahead(ring, ring'), Typed', Supply'
  PROVE  StreamInv'
  <1>1. DOMAIN sess = Sessions
    BY Zenon DEF StreamInv, Typed
  <1>2. sess'[j] = y /\ \A i \in Sessions \ {j} : sess'[i] = sess[i]
    BY <1>1, Zenon
  <1>3. \A i \in Sessions : SessionOK(sess'[i], ring, client.offset) /\ Follows(sess[i], sess'[i], ring)
    BY <1>2, Zenon DEF StreamInv, Follows, Quiet
  <1>4. ClientOK(client', ring)
    BY Zenon DEF StreamInv
  <1>5. Goes
    BY <1>3, <1>4, Zenon DEF Goes
  <1>6. QED
    BY <1>5, GoesOn, Zenon

\* One handler goes on and leaves the rings alone.
LEMMA HandlerStep ==
  ASSUME StreamInv, NEW j \in Sessions, NEW y, sess' = [sess EXCEPT ![j] = y],
         UNCHANGED <<taken, ring, drain, reap, load, client>>,
         proc' \in ProcType, proc'.wrote = proc.wrote, listed' \in BOOLEAN, current' \in 0 .. MaxSessions,
         SessionOK(y, ring, client.offset), Follows(sess[j], y, ring)
  PROVE  StreamInv'
  <1>1. Ahead(ring, ring')
    BY AheadSame, Zenon DEF StreamInv
  <1>2. DOMAIN sess' = Sessions
    BY Zenon DEF StreamInv, Typed
  <1>3. Typed'
    BY <1>2, Zenon DEF StreamInv, Typed
  <1>4. Supply'
    BY Zenon DEF StreamInv, Supply
  <1>5. QED
    BY <1>1, <1>3, <1>4, OneHandler, Zenon

\* What the invariant says of a handler.
LEMMA HandlerFacts ==
  ASSUME StreamInv, NEW j \in Sessions
  PROVE  /\ SessionOK(sess[j], ring, client.offset) /\ sess[j] \in SessionType /\ DOMAIN sess = Sessions
         /\ proc \in ProcType /\ listed \in BOOLEAN /\ current \in 0 .. MaxSessions /\ ClientGone(j) \in 0 .. MaxSessions
  <1>1. current \in 0 .. MaxSessions /\ 0 \in 0 .. MaxSessions
    BY StreamAssumption DEF StreamInv, Typed
  <1>2. ClientGone(j) \in 0 .. MaxSessions
    BY <1>1, Zenon DEF ClientGone
  <1>3. QED
    BY <1>1, <1>2, Zenon DEF StreamInv, Typed, SessionOK

\* A request taken off the queue.
LEMMA TailRequests ==
  ASSUME NEW u \in Seq(Requests), u # <<>>
  PROVE  /\ Tail(u) \in Seq(Requests) /\ Head(u) \in Requests /\ Head(u) = u[1] /\ 1 \in DOMAIN u
         /\ \A i \in DOMAIN Tail(u) : i + 1 \in DOMAIN u /\ Tail(u)[i] = u[i + 1]
  OBVIOUS

\* A handler that has sent nothing new and read or dropped requests.
LEMMA SessionKept ==
  ASSUME NEW x, NEW r, NEW o, SessionOK(x, r, o), NEW y \in SessionType,
         y.offset = x.offset, y.pump = x.pump, x.stop => y.stop, y.down = x.down,
         \/ y.up = x.up \/ y.up = <<>> \/ (x.up # <<>> /\ y.up = Tail(x.up))
  PROVE  SessionOK(y, r, o)
  <1>1. SUFFICES AcksOK(y, o)
    BY Zenon DEF SessionOK, Pumped
  <1>2. x.up \in Seq(Requests)
    BY Zenon DEF SessionOK, SessionType
  <1>3. CASE y.up = x.up
    BY <1>3, Zenon DEF SessionOK, AcksOK
  <1>4. CASE y.up = <<>>
    BY <1>4 DEF AcksOK
  <1>5. CASE x.up # <<>> /\ y.up = Tail(x.up)
    <2>1. \A i \in DOMAIN y.up : i + 1 \in DOMAIN x.up /\ y.up[i] = x.up[i + 1]
      BY <1>2, <1>5, TailRequests, Zenon
    <2>2. QED
      BY <2>1, Zenon DEF SessionOK, AcksOK
  <1>6. QED
    BY <1>3, <1>4, <1>5, Zenon

\* The handler notices that it must stop.
LEMMA SrvStopInv ==
  ASSUME StreamInv, NEW j \in Sessions, SrvStop(j)
  PROVE  StreamInv'
  <1>1. sess' = [sess EXCEPT ![j].stop = TRUE] /\ UNCHANGED <<proc, taken, ring, drain, reap, listed, current, load, client>>
    BY Zenon DEF SrvStop
  <1>2. PICK y : y = [sess[j] EXCEPT !.stop = TRUE]
    BY Zenon
  <1>3. sess' = [sess EXCEPT ![j] = y]
    BY <1>1, <1>2, HandlerFacts, Zenon
  <1>4. \A b \in BOOLEAN : /\ [sess[j] EXCEPT !.stop = b] \in SessionType /\ [sess[j] EXCEPT !.stop = b].stop = b
                           /\ [sess[j] EXCEPT !.stop = b].offset = sess[j].offset /\ [sess[j] EXCEPT !.stop = b].pump = sess[j].pump
                           /\ [sess[j] EXCEPT !.stop = b].down = sess[j].down /\ [sess[j] EXCEPT !.stop = b].up = sess[j].up
                           /\ [sess[j] EXCEPT !.stop = b].state = sess[j].state /\ [sess[j] EXCEPT !.stop = b].link = sess[j].link
    BY HandlerFacts, Zenon DEF SessionType
  <1>5. /\ y \in SessionType /\ y.stop = TRUE /\ y.offset = sess[j].offset /\ y.pump = sess[j].pump /\ y.down = sess[j].down
        /\ y.up = sess[j].up /\ y.state = sess[j].state /\ y.link = sess[j].link
    BY <1>2, <1>4, Zenon
  <1>6. SessionOK(y, ring, client.offset)
    BY <1>5, HandlerFacts, SessionKept, Zenon
  <1>7. Follows(sess[j], y, ring)
    BY <1>5, Zenon DEF Follows, Quiet
  <1>8. QED
    BY <1>1, <1>3, <1>6, <1>7, HandlerFacts, HandlerStep, Zenon

\* The handler returns or goes on to remove the command.
LEMMA ServeEndInv ==
  ASSUME StreamInv, NEW j \in Sessions,
         \/ ServeInterrupted(j) \/ ServeRemove(j)
         \/ sess' = [sess EXCEPT ![j].state = "ended", ![j].up = <<>>] /\ current' = ClientGone(j)
              /\ UNCHANGED <<proc, taken, ring, drain, reap, listed, load, client>>
  PROVE  StreamInv'
  <1>1. /\ sess' = [sess EXCEPT ![j].state = "ended", ![j].up = <<>>] /\ current' = ClientGone(j)
        /\ UNCHANGED <<proc, taken, ring, drain, reap, load, client>> /\ listed' \in BOOLEAN
    BY HandlerFacts, Zenon DEF ServeInterrupted, ServeRemove
  <1>2. PICK y : y = [sess[j] EXCEPT !.state = "ended", !.up = <<>>]
    BY Zenon
  <1>3. sess' = [sess EXCEPT ![j] = y]
    BY <1>1, <1>2, HandlerFacts, Zenon
  <1>4. sess[j] \in SessionType /\ <<>> \in Seq(Requests)
    BY HandlerFacts
  <1>5. /\ y \in SessionType /\ y.stop = sess[j].stop /\ y.offset = sess[j].offset /\ y.pump = sess[j].pump /\ y.down = sess[j].down
        /\ y.up = <<>> /\ y.state = "ended" /\ y.link = sess[j].link
    BY <1>2, <1>4, Zenon DEF SessionType
  <1>6. SessionOK(y, ring, client.offset)
    BY <1>5, HandlerFacts, SessionKept, Zenon
  <1>7. Follows(sess[j], y, ring)
    BY <1>5, Zenon DEF Follows, Quiet
  <1>8. QED
    BY <1>1, <1>3, <1>6, <1>7, HandlerFacts, HandlerStep, Zenon

\* A ring whose consumer has confirmed some of what it has.
LEMMA SuppliedReleased ==
  ASSUME NEW r, NEW d, NEW tk, NEW wr, NEW len, NEW c, Supplied(r, d, tk, wr, len, c), NEW o \in Nat, o <= c,
         NEW w, w = SetReleased(r, o)
  PROVE  /\ Supplied(w, d, tk, wr, len, c) /\ EndOffset(w) = EndOffset(r) /\ w.lossless = r.lossless /\ w.closed = r.closed
         /\ w.start = r.start
  <1>1. /\ RingOK(w) /\ EndOffset(w) = EndOffset(r) /\ w.start = r.start /\ w.lossless = r.lossless /\ w.closed = r.closed
        /\ w.released >= r.released
    BY SetReleasedCorrect, Zenon DEF Supplied
  <1>2. r \in RingType /\ r.released \in Nat /\ r.start \in Nat /\ EndOffset(r) \in Nat /\ c \in Nat /\ r.released <= c
    BY RingOffsets, Zenon DEF Supplied
  <1>3. w.released = r.released \/ w.released = o
    BY <1>2, Zenon DEF SetReleased, RingType
  <1>4. w.released <= c /\ w.released \in Nat
    BY <1>2, <1>3, Zenon
  <1>5. r.lossless => r.start <= r.released
    BY Zenon DEF Supplied
  <1>6. w.lossless => w.start <= w.released
    BY <1>1, <1>2, <1>4, <1>5
  <1>7. QED
    BY <1>1, <1>4, <1>6, Zenon DEF Supplied

\* An ack names offsets.
LEMMA AckType ==
  ASSUME NEW m \in Requests, m.type = "ack"
  PROVE  m.offset \in Offsets
  <1>1. m \notin [type : {"eof", "signal"}]
    BY Zenon
  <1>2. m \in [type : {"ack"}, offset : Offsets]
    BY <1>1, Zenon DEF Requests
  <1>3. QED
    BY <1>2, Zenon

\* The rings are told of confirmed offsets that the consumer has passed.
LEMMA ConfirmRings ==
  ASSUME StreamInv, NEW o \in Offsets, \A s \in Streams : o[s] <= client.offset[s],
         ring' = [s \in Streams |-> SetReleased(ring[s], o[s])],
         UNCHANGED <<taken, drain, proc, load>>, client'.offset = client.offset
  PROVE  Supply' /\ Ahead(ring, ring') /\ DOMAIN ring' = Streams /\ \A s \in Streams : ring'[s].start = ring[s].start
  <1>1. ASSUME NEW s \in Streams
        PROVE  /\ Supplied(ring'[s], drain[s], taken[s], proc.wrote[s], load.len[s], client.offset[s])
               /\ EndOffset(ring'[s]) = EndOffset(ring[s]) /\ ring'[s].lossless = ring[s].lossless
               /\ ring'[s].closed = ring[s].closed /\ ring'[s].start = ring[s].start
    <2>1. ring'[s] = SetReleased(ring[s], o[s])
      BY Zenon
    <2>2. o[s] \in Nat /\ o[s] <= client.offset[s]
      BY Zenon DEF Offsets
    <2>3. Supplied(ring[s], drain[s], taken[s], proc.wrote[s], load.len[s], client.offset[s])
      BY SuppliedFacts, Zenon
    <2>4. QED
      BY <2>1, <2>2, <2>3, SuppliedReleased
  <1>2. Supply'
    BY <1>1, Zenon DEF Supply
  <1>3. \A s \in Streams : EndOffset(ring[s]) <= EndOffset(ring'[s])
    BY <1>1, SuppliedFacts
  <1>4. Ahead(ring, ring')
    BY <1>1, <1>3, Zenon DEF Ahead
  <1>5. QED
    BY <1>1, <1>2, <1>4, Zenon

\* The handler reads a request.
LEMMA SrvRecvInv ==
  ASSUME StreamInv, NEW j \in Sessions, SrvRecv(j)
  PROVE  StreamInv'
  <1> DEFINE m == Head(sess[j].up)
             a == [sess[j] EXCEPT !.up = Tail(@)]
             b == [a EXCEPT !.input = "ended"]
  <1>1. sess[j] \in SessionType /\ DOMAIN sess = Sessions /\ sess[j].up # <<>> /\ sess[j].up \in Seq(Requests)
    BY HandlerFacts, Zenon DEF SrvRecv, SessionType
  <1>2. Tail(sess[j].up) \in Seq(Requests) /\ m \in Requests /\ m = sess[j].up[1] /\ 1 \in DOMAIN sess[j].up
    BY <1>1, TailRequests, Zenon
  <1>3. /\ a \in SessionType /\ a.stop = sess[j].stop /\ a.offset = sess[j].offset /\ a.pump = sess[j].pump
        /\ a.down = sess[j].down /\ a.up = Tail(sess[j].up) /\ a.state = sess[j].state /\ a.link = sess[j].link
    BY <1>1, <1>2, Zenon DEF SessionType
  <1>4. /\ b \in SessionType /\ b.stop = sess[j].stop /\ b.offset = sess[j].offset /\ b.pump = sess[j].pump
        /\ b.down = sess[j].down /\ b.up = Tail(sess[j].up) /\ b.state = sess[j].state /\ b.link = sess[j].link
    BY <1>3, Zenon DEF SessionType
  <1>5. SessionOK(a, ring, client.offset) /\ SessionOK(b, ring, client.offset)
    BY <1>1, <1>3, <1>4, HandlerFacts, SessionKept, Zenon
  <1>6. Follows(sess[j], a, ring) /\ Follows(sess[j], b, ring)
    BY <1>3, <1>4, Zenon DEF Follows, Quiet
  <1>7. UNCHANGED <<taken, drain, reap, listed, current, load, client>>
    BY Zenon DEF SrvRecv
  <1>8. /\ proc \in ProcType
        /\ \A v \in BOOLEAN : [proc EXCEPT !.stdin = v] \in ProcType /\ [proc EXCEPT !.stdin = v].wrote = proc.wrote
    BY HandlerFacts, Zenon DEF ProcType
  <1>9. [proc EXCEPT !.signals = @ + 1] \in ProcType /\ [proc EXCEPT !.signals = @ + 1].wrote = proc.wrote
    <2>1. proc.signals + 1 \in Nat
      BY <1>8 DEF ProcType
    <2>2. QED
      BY <1>8, <2>1, Zenon DEF ProcType
  <1>10. CASE proc' = (IF Lossless THEN [proc EXCEPT !.stdin = FALSE] ELSE proc) /\ sess' = [sess EXCEPT ![j] = b] /\ UNCHANGED ring
    <2>1. proc' \in ProcType /\ proc'.wrote = proc.wrote
      BY <1>8, <1>10, Zenon
    <2>2. QED
      BY <1>5, <1>6, <1>7, <1>10, <2>1, HandlerFacts, HandlerStep, Zenon
  <1>11. CASE sess' = [sess EXCEPT ![j] = b] /\ UNCHANGED <<proc, ring>>
    BY <1>5, <1>6, <1>7, <1>11, HandlerFacts, HandlerStep, Zenon
  <1>12. CASE proc' = [proc EXCEPT !.signals = @ + 1] /\ sess' = [sess EXCEPT ![j] = a] /\ UNCHANGED ring
    BY <1>5, <1>6, <1>7, <1>9, <1>12, HandlerFacts, HandlerStep, Zenon
  <1>13. CASE /\ m.type = "ack" /\ ring' = [s \in Streams |-> SetReleased(ring[s], m.offset[s])]
              /\ sess' = [sess EXCEPT ![j] = a] /\ UNCHANGED proc
    <2>1. m.offset \in Offsets /\ \A s \in Streams : m.offset[s] <= client.offset[s]
      BY <1>2, <1>13, AckType, HandlerFacts, Zenon DEF SessionOK, AcksOK
    <2>2. Supply' /\ Ahead(ring, ring') /\ DOMAIN ring' = Streams
      BY <1>7, <1>13, <2>1, ConfirmRings, Zenon
    <2>3. Typed'
      BY <1>7, <1>13, <2>2, Zenon DEF StreamInv, Typed
    <2>4. QED
      BY <1>5, <1>6, <1>7, <1>13, <2>2, <2>3, OneHandler, Zenon
  <1>14. QED
    BY <1>10, <1>11, <1>12, <1>13, Zenon DEF SrvRecv

\* What a ring gives a pump that reads at its offset.
LEMMA ReadAt ==
  ASSUME NEW r, RingOK(r), NEW o \in Nat, o <= EndOffset(r), r.start < EndOffset(r) \/ r.start = 0
  PROVE  /\ HasData(r, o) /\ GotOffset(r, o) = o => DataAt(r, o) = Bytes(o, EndOffset(r)) /\ DataAt(r, o) \in Seq(Nat)
         /\ ~HasData(r, o) => o = EndOffset(r)
  <1>1. PICK a \in Nat, e \in Nat : /\ a = r.start /\ e = EndOffset(r) /\ r.buf = Bytes(a, e) /\ a <= e
    BY RingOffsets
  <1>2. ASSUME GotOffset(r, o) = o
        PROVE  DataAt(r, o) = Bytes(o, e) /\ Bytes(o, e) \in Seq(Nat)
    <2>1. a <= o /\ o - a \in Nat /\ a + (o - a) = o /\ o <= e
      BY <1>1, <1>2 DEF GotOffset, MaxOf
    <2>2. DropFirst(Bytes(a, e), o - a) = Bytes(o, e)
      BY <2>1, DropBytes
    <2>3. DataAt(r, o) = DropFirst(Bytes(a, e), o - a)
      BY <1>1, <1>2, Zenon DEF DataAt
    <2>4. QED
      BY <2>1, <2>2, <2>3, BytesType, Zenon
  <1>3. ~HasData(r, o) => o = e
    BY <1>1 DEF HasData, GotOffset, MaxOf
  <1>4. QED
    BY <1>1, <1>2, <1>3, Zenon

\* A handler one of whose pumps went on.
LEMMA SessionPump ==
  ASSUME NEW x, NEW r, NEW o, SessionOK(x, r, o), NEW y \in SessionType, NEW s \in Streams,
         y.up = x.up, Len(y.down) <= Window, x.stop => y.stop,
         \A t \in Streams \ {s} : y.offset[t] = x.offset[t] /\ y.pump[t] = x.pump[t],
         y.offset[s] <= EndOffset(r[s]),
         y.pump[s] = "eof" => r[s].closed /\ y.offset[s] = EndOffset(r[s]),
         y.pump[s] = "stopped" => y.stop
  PROVE  SessionOK(y, r, o)
  <1>1. Pumped(y, r)
    <2>1. ASSUME NEW t \in Streams
          PROVE  /\ y.offset[t] <= EndOffset(r[t])
                 /\ y.pump[t] = "eof" => r[t].closed /\ y.offset[t] = EndOffset(r[t])
                 /\ y.pump[t] = "stopped" => y.stop
      <3>1. CASE t = s
        BY <3>1, Zenon
      <3>2. CASE t # s
        BY <3>2, Zenon DEF SessionOK, Pumped
      <3>3. QED
        BY <3>1, <3>2, Zenon
    <2>2. QED
      BY <2>1, Zenon DEF Pumped
  <1>2. AcksOK(y, o)
    BY Zenon DEF SessionOK, AcksOK
  <1>3. QED
    BY <1>1, <1>2, Zenon DEF SessionOK

\* A pump's place in its handler's state.
LEMMA PumpFacts ==
  ASSUME StreamInv, NEW j \in Sessions, NEW s \in Streams
  PROVE  /\ sess[j] \in SessionType /\ sess[j].offset \in Offsets /\ sess[j].offset[s] \in Nat
         /\ sess[j].pump \in [Streams -> {"tail", "eof", "stopped"}] /\ sess[j].stop \in BOOLEAN
         /\ sess[j].down \in Seq(Replies) /\ Len(sess[j].down) <= Window /\ sess[j].offset[s] <= EndOffset(ring[s])
         /\ RingOK(ring[s]) /\ EndOffset(ring[s]) \in Nat /\ (ring[s].start < EndOffset(ring[s]) \/ ring[s].start = 0)
         /\ sess[j].pump[s] = "stopped" => sess[j].stop
         /\ sess[j].pump[s] = "eof" => ring[s].closed /\ sess[j].offset[s] = EndOffset(ring[s])
  <1>1. sess[j] \in SessionType /\ Len(sess[j].down) <= Window /\ Pumped(sess[j], ring)
    BY HandlerFacts, Zenon DEF SessionOK
  <1>2. RingOK(ring[s]) /\ EndOffset(ring[s]) \in Nat /\ (ring[s].start < EndOffset(ring[s]) \/ ring[s].start = 0)
    BY SuppliedFacts, Zenon DEF Supplied
  <1>3. QED
    BY <1>1, <1>2, Zenon DEF SessionType, Offsets, Pumped

\* A pump that stops its handler, or was stopped.
LEMMA PumpStopInv ==
  ASSUME StreamInv, NEW j \in Sessions, NEW s \in Streams,
         \/ sess' = [sess EXCEPT ![j].stop = TRUE, ![j].pump[s] = "stopped"]
         \/ sess[j].stop /\ sess' = [sess EXCEPT ![j].pump[s] = "stopped"]
         \/ /\ ring[s].closed /\ sess[j].offset[s] = EndOffset(ring[s])
            /\ sess' = [sess EXCEPT ![j].pump[s] = "eof"],
         UNCHANGED <<proc, taken, ring, drain, reap, listed, current, load, client>>
  PROVE  StreamInv'
  <1> DEFINE y(b, p) == [sess[j] EXCEPT !.stop = b, !.pump[s] = p]
  <1>1. DOMAIN sess = Sessions /\ sess[j] \in SessionType
    BY HandlerFacts, Zenon
  <1>2. [sess EXCEPT ![j].stop = TRUE, ![j].pump[s] = "stopped"] = [sess EXCEPT ![j] = y(TRUE, "stopped")]
    <2>1. PICK z : z = [sess[j] EXCEPT !.stop = TRUE]
      BY Zenon
    <2>2. [sess EXCEPT ![j].stop = TRUE] = [sess EXCEPT ![j] = z]
      BY <1>1, <2>1, Zenon
    <2>3. [[sess EXCEPT ![j] = z] EXCEPT ![j].pump[s] = "stopped"] = [sess EXCEPT ![j] = [z EXCEPT !.pump[s] = "stopped"]]
      BY <1>1, Zenon
    <2>4. [sess EXCEPT ![j].stop = TRUE, ![j].pump[s] = "stopped"]
            = [[sess EXCEPT ![j].stop = TRUE] EXCEPT ![j].pump[s] = "stopped"]
      BY Zenon
    <2>5. y(TRUE, "stopped") = [z EXCEPT !.pump[s] = "stopped"]
      BY <2>1, Zenon
    <2>6. QED
      BY <2>2, <2>3, <2>4, <2>5, Zenon
  <1>3. \A p : [sess EXCEPT ![j].pump[s] = p] = [sess EXCEPT ![j] = [sess[j] EXCEPT !.pump[s] = p]]
    BY <1>1, Zenon
  <1>4. ASSUME NEW p \in {"tail", "eof", "stopped"}
        PROVE  [sess[j] EXCEPT !.pump[s] = p] = y(sess[j].stop, p)
    BY <1>1 DEF SessionType
  <1>5. PICK b \in BOOLEAN, p \in {"eof", "stopped"} :
          /\ sess' = [sess EXCEPT ![j] = y(b, p)]
          /\ sess[j].stop => b
          /\ p = "stopped" => b
          /\ p = "eof" => ring[s].closed /\ sess[j].offset[s] = EndOffset(ring[s])
    BY <1>1, <1>2, <1>3, <1>4, PumpFacts
  <1>6. /\ y(b, p) \in SessionType /\ y(b, p).stop = b /\ y(b, p).offset = sess[j].offset
        /\ y(b, p).pump = [sess[j].pump EXCEPT ![s] = p]
        /\ y(b, p).down = sess[j].down /\ y(b, p).up = sess[j].up /\ y(b, p).state = sess[j].state
        /\ y(b, p).link = sess[j].link
    <2>1. [sess[j].pump EXCEPT ![s] = p] \in [Streams -> {"tail", "eof", "stopped"}]
      BY PumpFacts, Zenon
    <2>2. QED
      BY <1>1, <2>1, Zenon DEF SessionType
  <1> HIDE DEF y
  <1>7. y(b, p).pump[s] = p /\ \A t \in Streams \ {s} : y(b, p).pump[t] = sess[j].pump[t]
    <2>1. sess[j].pump \in [Streams -> {"tail", "eof", "stopped"}]
      BY PumpFacts, Zenon
    <2>2. [sess[j].pump EXCEPT ![s] = p][s] = p /\ \A t \in Streams \ {s} : [sess[j].pump EXCEPT ![s] = p][t] = sess[j].pump[t]
      BY <2>1, Zenon
    <2>3. QED
      BY <1>6, <2>2, Zenon
  <1>8. SessionOK(y(b, p), ring, client.offset)
    <2>1. SessionOK(sess[j], ring, client.offset)
      BY HandlerFacts, Zenon
    <2>2. y(b, p).offset[s] <= EndOffset(ring[s]) /\ Len(y(b, p).down) <= Window
      BY <1>6, PumpFacts, Zenon
    <2>3. y(b, p).pump[s] = "eof" => ring[s].closed /\ y(b, p).offset[s] = EndOffset(ring[s])
      BY <1>5, <1>6, <1>7, Zenon
    <2>4. (y(b, p).pump[s] = "stopped" => y(b, p).stop) /\ (sess[j].stop => y(b, p).stop)
      BY <1>5, <1>6, <1>7, Zenon
    <2>5. QED
      <3>1. PICK z : z = y(b, p)
        BY Zenon
      <3>2. z \in SessionType /\ z.up = sess[j].up /\ Len(z.down) <= Window /\ (sess[j].stop => z.stop)
        BY <1>6, <2>2, <2>4, <3>1, Zenon
      <3>3. \A t \in Streams \ {s} : z.offset[t] = sess[j].offset[t] /\ z.pump[t] = sess[j].pump[t]
        BY <1>6, <1>7, <3>1, Zenon
      <3>4. SessionOK(z, ring, client.offset)
        BY <2>1, <2>2, <2>3, <2>4, <3>1, <3>2, <3>3, SessionPump
      <3>5. QED
        BY <3>1, <3>4, Zenon
  <1>9. Follows(sess[j], y(b, p), ring)
    BY <1>6, Zenon DEF Follows, Quiet
  <1>10. QED
    BY <1>5, <1>8, <1>9, HandlerFacts, HandlerStep, Zenon

\* A pump sends what the ring holds, or loses it.
LEMMA PumpSendInv ==
  ASSUME StreamInv, NEW j \in Sessions, NEW s \in Streams, PumpSend(j, s)
  PROVE  StreamInv'
  <1> DEFINE e == EndOffset(ring[s])
             d == [type |-> "data", stream |-> s, bytes |-> DataAt(ring[s], sess[j].offset[s])]
             offset == [sess[j].offset EXCEPT ![s] = e]
             y(q) == [sess[j] EXCEPT !.offset = offset, !.down = q]
  <1>1. DOMAIN sess = Sessions /\ sess[j] \in SessionType /\ sess[j].state = "serving" /\ sess[j].pump[s] = "tail"
    BY HandlerFacts, Zenon DEF PumpSend
  <1>2. UNCHANGED <<proc, taken, ring, drain, reap, listed, current, load, client>>
    BY Zenon DEF PumpSend
  <1>3. CASE sess' = [sess EXCEPT ![j].stop = TRUE, ![j].pump[s] = "stopped"]
    BY <1>2, <1>3, PumpStopInv, Zenon
  <1>4. [sess EXCEPT ![j].offset[s] = EndOffset(ring[s])] = [sess EXCEPT ![j] = y(sess[j].down)]
    <2>1. [sess EXCEPT ![j].offset[s] = EndOffset(ring[s])] = [sess EXCEPT ![j] = [sess[j] EXCEPT !.offset = offset]]
      BY <1>1, Zenon
    <2>2. [sess[j] EXCEPT !.offset = offset] = y(sess[j].down)
      BY <1>1 DEF SessionType
    <2>3. QED
      BY <2>1, <2>2, Zenon
  <1>5. [[sess EXCEPT ![j].offset[s] = EndOffset(ring[s])] EXCEPT ![j].down = Append(@, d)]
          = [sess EXCEPT ![j] = y(Append(sess[j].down, d))]
    <2>1. PICK z : z = [sess[j] EXCEPT !.offset = offset]
      BY Zenon
    <2>2. [sess EXCEPT ![j].offset[s] = EndOffset(ring[s])] = [sess EXCEPT ![j] = z]
      BY <1>1, <2>1, Zenon
    <2>3. [[sess EXCEPT ![j] = z] EXCEPT ![j].down = Append(@, d)] = [sess EXCEPT ![j] = [z EXCEPT !.down = Append(z.down, d)]]
      BY <1>1, Zenon
    <2>4. z.down = sess[j].down
      BY <1>1, <2>1, Zenon DEF SessionType
    <2>5. QED
      BY <2>1, <2>2, <2>3, <2>4, Zenon
  <1>6. /\ e \in Nat /\ sess[j].offset[s] <= e /\ offset \in Offsets /\ offset[s] = e
        /\ \A t \in Streams \ {s} : offset[t] = sess[j].offset[t]
    BY PumpFacts, Zenon DEF Offsets
  <1>7. ASSUME NEW q \in Seq(Replies)
        PROVE  /\ y(q) \in SessionType /\ y(q).stop = sess[j].stop /\ y(q).offset = offset
               /\ y(q).pump = sess[j].pump /\ y(q).down = q /\ y(q).up = sess[j].up /\ y(q).state = sess[j].state
               /\ y(q).link = sess[j].link
    BY <1>1, <1>6, Zenon DEF SessionType
  <1> HIDE DEF y, offset
  <1>8. ASSUME NEW q \in Seq(Replies), Len(q) <= Window
        PROVE  SessionOK(y(q), ring, client.offset)
    <2>1. SessionOK(sess[j], ring, client.offset)
      BY HandlerFacts, Zenon
    <2>2. y(q).offset[s] <= EndOffset(ring[s])
      <3>1. y(q).offset[s] = e
        BY <1>6, <1>7, Zenon
      <3>2. e <= e
        BY <1>6
      <3>3. QED
        BY <3>1, <3>2, Zenon
    <2>3. y(q).pump[s] = "tail"
      BY <1>1, <1>7, Zenon
    <2>4. \A t \in Streams \ {s} : y(q).offset[t] = sess[j].offset[t] /\ y(q).pump[t] = sess[j].pump[t]
      BY <1>6, <1>7, Zenon
    <2>5. QED
      BY <1>7, <1>8, <2>1, <2>2, <2>3, <2>4, SessionPump
  <1>9. CASE ~sess[j].link /\ sess' = [sess EXCEPT ![j].offset[s] = EndOffset(ring[s])]
    <2>1. sess[j].down \in Seq(Replies) /\ Len(sess[j].down) <= Window
      BY PumpFacts, Zenon
    <2>2. Pumps(sess[j], y(sess[j].down))
      BY <1>1, <1>6, <1>7, <1>9, <2>1, Zenon DEF Pumps, offset
    <2>3. sess' = [sess EXCEPT ![j] = y(sess[j].down)]
      BY <1>4, <1>9, Zenon
    <2>4. QED
      BY <1>2, <1>8, <2>1, <2>2, <2>3, HandlerFacts, HandlerStep, Zenon DEF Follows
  <1>10. CASE /\ HasData(ring[s], sess[j].offset[s]) /\ GotOffset(ring[s], sess[j].offset[s]) = sess[j].offset[s]
              /\ sess[j].link /\ Len(sess[j].down) < Window
              /\ sess' = [[sess EXCEPT ![j].offset[s] = EndOffset(ring[s])] EXCEPT ![j].down = Append(@, d)]
    <2>1. d.bytes = Bytes(sess[j].offset[s], e) /\ d.bytes \in Seq(Nat)
      BY <1>10, PumpFacts, ReadAt, Zenon
    <2>2. d \in Replies /\ d.type = "data" /\ d.stream = s
      BY <2>1, Zenon DEF Replies
    <2> HIDE DEF d
    <2>3. Append(sess[j].down, d) \in Seq(Replies) /\ Len(Append(sess[j].down, d)) <= Window
      BY <1>10, <2>2, PumpFacts, StreamAssumption
    <2>4. Pumps(sess[j], y(Append(sess[j].down, d)))
      <3>1. PICK z : z = y(Append(sess[j].down, d))
        BY Zenon
      <3>2. z.state = "serving" /\ z.offset = [sess[j].offset EXCEPT ![s] = e] /\ z.down = Append(sess[j].down, d)
        BY <1>1, <1>7, <2>3, <3>1, Zenon DEF offset
      <3>3. \E m \in Replies : /\ m.type = "data" /\ m.stream = s /\ m.bytes = Bytes(sess[j].offset[s], e)
                               /\ z.down = Append(sess[j].down, m)
        BY <2>1, <2>2, <3>2, Zenon
      <3>4. QED
        BY <1>1, <1>6, <1>10, <3>1, <3>2, <3>3, Zenon DEF Pumps
    <2>5. sess' = [sess EXCEPT ![j] = y(Append(sess[j].down, d))]
      BY <1>5, <1>10, Zenon
    <2>6. QED
      BY <1>2, <1>8, <2>3, <2>4, <2>5, HandlerFacts, HandlerStep, Zenon DEF Follows
  <1>11. QED
    BY <1>3, <1>9, <1>10, Zenon DEF PumpSend

\* A pump reaches the end of its ring, or its handler's.
LEMMA PumpEndInv ==
  ASSUME StreamInv, NEW j \in Sessions, NEW s \in Streams, PumpEnd(j, s)
  PROVE  StreamInv'
  <1>1. sess[j].offset[s] = EndOffset(ring[s])
    BY PumpFacts, ReadAt, Zenon DEF PumpEnd
  <1>2. QED
    BY <1>1, PumpStopInv, Zenon DEF PumpEnd

\* The handler has sent everything and reports the exit.
LEMMA ServeExitInv ==
  ASSUME StreamInv, NEW j \in Sessions, ServeExit(j)
  PROVE  StreamInv'
  <1> DEFINE y(q) == [sess[j] EXCEPT !.state = "removing", !.down = q]
             d == [type |-> "exit"]
  <1>1. DOMAIN sess = Sessions /\ sess[j] \in SessionType /\ sess[j].state = "serving"
    BY HandlerFacts, Zenon DEF ServeExit
  <1>2. UNCHANGED <<proc, taken, ring, drain, reap, listed, load, client>>
    BY Zenon DEF ServeExit
  <1>3. \A s \in Streams : ring[s].closed /\ sess[j].offset[s] = EndOffset(ring[s])
    <2>1. \A s \in Streams : sess[j].pump[s] # "tail" /\ ~sess[j].stop
      BY Zenon DEF ServeExit, Complete, PumpsEnded
    <2>2. \A s \in Streams : sess[j].pump[s] \in {"tail", "eof", "stopped"}
      BY PumpFacts, Zenon
    <2>3. QED
      BY <2>1, <2>2, PumpFacts, Zenon
  <1>4. [sess EXCEPT ![j].state = "removing"] = [sess EXCEPT ![j] = y(sess[j].down)]
    <2>1. [sess[j] EXCEPT !.state = "removing"] = y(sess[j].down)
      BY <1>1 DEF SessionType
    <2>2. QED
      BY <1>1, <2>1, Zenon
  <1>5. [[sess EXCEPT ![j].state = "removing"] EXCEPT ![j].down = Append(@, d)] = [sess EXCEPT ![j] = y(Append(sess[j].down, d))]
    <2>1. PICK z : z = [sess[j] EXCEPT !.state = "removing"]
      BY Zenon
    <2>2. [sess EXCEPT ![j].state = "removing"] = [sess EXCEPT ![j] = z]
      BY <1>1, <2>1, Zenon
    <2>3. [[sess EXCEPT ![j] = z] EXCEPT ![j].down = Append(@, d)] = [sess EXCEPT ![j] = [z EXCEPT !.down = Append(z.down, d)]]
      BY <1>1, Zenon
    <2>4. z.down = sess[j].down
      BY <1>1, <2>1, Zenon DEF SessionType
    <2>5. QED
      BY <2>1, <2>2, <2>3, <2>4, Zenon
  <1>6. ASSUME NEW q \in Seq(Replies)
        PROVE  /\ y(q) \in SessionType /\ y(q).stop = sess[j].stop /\ y(q).offset = sess[j].offset
               /\ y(q).pump = sess[j].pump /\ y(q).down = q /\ y(q).up = sess[j].up /\ y(q).state = "removing"
               /\ y(q).link = sess[j].link
    BY <1>1, Zenon DEF SessionType
  <1> HIDE DEF y
  <1>7. ASSUME NEW q \in Seq(Replies), Len(q) <= Window
        PROVE  SessionOK(y(q), ring, client.offset)
    <2>1. SessionOK(sess[j], ring, client.offset)
      BY HandlerFacts, Zenon
    <2>2. Pumped(y(q), ring)
      BY <1>6, <1>7, <2>1, Zenon DEF SessionOK, Pumped
    <2>3. AcksOK(y(q), client.offset)
      BY <1>6, <1>7, <2>1, Zenon DEF SessionOK, AcksOK
    <2>4. y(q) \in SessionType /\ Len(y(q).down) <= Window
      BY <1>6, <1>7, Zenon
    <2>5. QED
      BY <2>2, <2>3, <2>4, Zenon DEF SessionOK
  <1>8. CASE sess' = [sess EXCEPT ![j].state = "removing"] /\ UNCHANGED current
    <2>1. sess[j].down \in Seq(Replies) /\ Len(sess[j].down) <= Window
      BY <1>1, HandlerFacts, Zenon DEF SessionType, SessionOK
    <2>2. Quiet(sess[j], y(sess[j].down))
      BY <1>1, <1>6, <2>1, Zenon DEF Quiet
    <2>3. sess' = [sess EXCEPT ![j] = y(sess[j].down)]
      BY <1>4, <1>8, Zenon
    <2>4. QED
      BY <1>2, <1>7, <1>8, <2>1, <2>2, <2>3, HandlerFacts, HandlerStep, Zenon DEF Follows
  <1>9. CASE /\ sess[j].link /\ Len(sess[j].down) < Window /\ UNCHANGED current
             /\ sess' = [[sess EXCEPT ![j].state = "removing"] EXCEPT ![j].down = Append(@, d)]
    <2>1. d \in Replies /\ d.type = "exit"
      BY Zenon DEF Replies
    <2> HIDE DEF d
    <2>2. sess[j].down \in Seq(Replies) /\ Len(sess[j].down) <= Window
      BY <1>1, HandlerFacts, Zenon DEF SessionType, SessionOK
    <2>3. Append(sess[j].down, d) \in Seq(Replies) /\ Len(Append(sess[j].down, d)) <= Window
      BY <1>9, <2>1, <2>2, StreamAssumption
    <2>4. y(Append(sess[j].down, d)).state # "serving"
      BY <1>6, <2>3
    <2>5. Exits(sess[j], y(Append(sess[j].down, d)), ring)
      BY <1>1, <1>3, <1>6, <1>9, <2>1, <2>3, <2>4, Zenon DEF Exits
    <2>6. sess' = [sess EXCEPT ![j] = y(Append(sess[j].down, d))]
      BY <1>5, <1>9, Zenon
    <2>7. QED
      BY <1>2, <1>7, <1>9, <2>3, <2>5, <2>6, HandlerFacts, HandlerStep, Zenon DEF Follows
  <1>10. CASE sess' = [sess EXCEPT ![j].state = "ended", ![j].up = <<>>] /\ current' = ClientGone(j)
    BY <1>2, <1>10, ServeEndInv, Zenon
  <1>11. QED
    BY <1>8, <1>9, <1>10, Zenon DEF ServeExit

-----------------------------------------------------------------------------
(* The transport, and what the client sends.                                 *)

\* Handlers that were right go on, for a consumer with offsets o.
Went(ss, tt, o) ==
  /\ DOMAIN tt = Sessions
  /\ \A i \in Sessions : SessionOK(tt[i], ring, o) /\ Follows(ss[i], tt[i], ring)

\* One handler goes on.
LEMMA OneWent ==
  ASSUME NEW ss, DOMAIN ss = Sessions, NEW o, \A i \in Sessions : SessionOK(ss[i], ring, o), NEW j \in Sessions,
         NEW y, SessionOK(y, ring, o), Follows(ss[j], y, ring), NEW tt, tt = [ss EXCEPT ![j] = y]
  PROVE  Went(ss, tt, o)
  <1>1. DOMAIN tt = Sessions /\ tt[j] = y /\ \A i \in Sessions \ {j} : tt[i] = ss[i]
    BY Zenon
  <1>2. \A i \in Sessions : SessionOK(tt[i], ring, o) /\ Follows(ss[i], tt[i], ring)
    BY <1>1, Zenon DEF Follows, Quiet
  <1>3. QED
    BY <1>1, <1>2, Zenon DEF Went

\* No handler does anything.
LEMMA NoneWent ==
  ASSUME NEW ss, DOMAIN ss = Sessions, NEW o, \A i \in Sessions : SessionOK(ss[i], ring, o)
  PROVE  Went(ss, ss, o)
  BY Zenon DEF Went, Follows, Quiet

\* A request added to the queue.
LEMMA MoreRequests ==
  ASSUME NEW x, NEW r, NEW o, SessionOK(x, r, o), NEW m \in Requests,
         m.type = "ack" => \A s \in Streams : m.offset[s] <= o[s],
         NEW y \in SessionType, y.offset = x.offset, y.pump = x.pump, y.stop = x.stop, y.down = x.down,
         y.up = Append(x.up, m)
  PROVE  SessionOK(y, r, o)
  <1>1. SUFFICES AcksOK(y, o)
    BY Zenon DEF SessionOK, Pumped
  <1>2. x.up \in Seq(Requests)
    BY Zenon DEF SessionOK, SessionType
  <1>3. \A i \in DOMAIN y.up : y.up[i] = m \/ (i \in DOMAIN x.up /\ y.up[i] = x.up[i])
    BY <1>2
  <1>4. QED
    BY <1>3, Zenon DEF SessionOK, AcksOK

\* A stream that dies loses a suffix of what is in flight, either way.
LEMMA BrokenWent ==
  ASSUME NEW ss, DOMAIN ss = Sessions, NEW o, \A i \in Sessions : SessionOK(ss[i], ring, o), NEW j \in Sessions,
         NEW tt \in Broken(j, ss)
  PROVE  Went(ss, tt, o)
  <1>1. PICK u \in 0 .. Len(ss[j].up), d \in 0 .. Len(ss[j].down) :
          tt = [ss EXCEPT ![j].link = FALSE, ![j].up = TakeFirst(@, u), ![j].down = TakeFirst(@, d)]
    <2>1. \E u \in 0 .. Len(ss[j].up), d \in 0 .. Len(ss[j].down) : tt = Lose(j, ss, u, d)
      BY DEF Broken
    <2>2. QED
      BY <2>1, Zenon DEF Lose
  <1>2. PICK x : x = ss[j]
    BY Zenon
  <1>3. SessionOK(x, ring, o) /\ x \in SessionType /\ x.up \in Seq(Requests) /\ x.down \in Seq(Replies) /\ Len(x.down) <= Window
    BY <1>2, Zenon DEF SessionOK, SessionType
  <1>4. PICK y : y = [x EXCEPT !.link = FALSE, !.up = TakeFirst(x.up, u), !.down = TakeFirst(x.down, d)]
    BY Zenon
  <1>5. tt = [ss EXCEPT ![j] = y]
    <2>1. PICK a : a = [x EXCEPT !.link = FALSE]
      BY Zenon
    <2>2. PICK b : b = [a EXCEPT !.up = TakeFirst(a.up, u)]
      BY Zenon
    <2>3. PICK c : c = [b EXCEPT !.down = TakeFirst(b.down, d)]
      BY Zenon
    <2>4. tt = [ss EXCEPT ![j] = c]
      BY <1>1, <1>2, <2>1, <2>2, <2>3
    <2>5. a.up = x.up /\ b.down = x.down
      BY <1>3, <2>1, <2>2, Zenon DEF SessionType
    <2>6. c = y
      BY <1>4, <2>1, <2>2, <2>3, <2>5, Zenon
    <2>7. QED
      BY <2>4, <2>6, Zenon
  <1>6. /\ TakeFirst(x.up, u) \in Seq(Requests)
        /\ \A i \in DOMAIN TakeFirst(x.up, u) : i \in DOMAIN x.up /\ TakeFirst(x.up, u)[i] = x.up[i]
    <2>1. u \in 0 .. Len(x.up)
      BY <1>2, Zenon
    <2>2. QED
      BY <1>3, <2>1 DEF TakeFirst
  <1>7. TakeFirst(x.down, d) \in Seq(Replies) /\ Len(TakeFirst(x.down, d)) <= Window /\ d \in 0 .. Len(x.down)
    <2>1. d \in 0 .. Len(x.down)
      BY <1>2, Zenon
    <2>2. QED
      BY <1>3, <2>1, StreamAssumption DEF TakeFirst
  <1>8. FALSE \in BOOLEAN
    BY Zenon
  <1>9. /\ y \in SessionType /\ y.stop = x.stop /\ y.offset = x.offset /\ y.pump = x.pump /\ y.state = x.state
        /\ y.up = TakeFirst(x.up, u) /\ y.down = TakeFirst(x.down, d) /\ y.link = FALSE
    <2>1. \A f \in BOOLEAN : LET z == [x EXCEPT !.link = f, !.up = TakeFirst(x.up, u), !.down = TakeFirst(x.down, d)]
                             IN /\ z \in SessionType /\ z.stop = x.stop /\ z.offset = x.offset /\ z.pump = x.pump
                                /\ z.state = x.state
                                /\ z.up = TakeFirst(x.up, u) /\ z.down = TakeFirst(x.down, d) /\ z.link = f
      BY <1>3, <1>6, <1>7, Zenon DEF SessionType
    <2>2. QED
      BY <1>4, <1>8, <2>1, Zenon
  <1>10. SessionOK(y, ring, o)
    <2>1. Pumped(y, ring)
      BY <1>3, <1>9, Zenon DEF SessionOK, Pumped
    <2>2. AcksOK(y, o)
      BY <1>3, <1>6, <1>9, Zenon DEF SessionOK, AcksOK
    <2>3. QED
      BY <1>7, <1>9, <2>1, <2>2, Zenon DEF SessionOK
  <1>11. Follows(x, y, ring)
    BY <1>7, <1>9, Zenon DEF Follows, Cut
  <1>12. QED
    BY <1>2, <1>5, <1>10, <1>11, OneWent, Zenon

\* Whatever becomes of a Send, the handlers are right after it.
LEMMA SendWent ==
  ASSUME NEW ss, DOMAIN ss = Sessions, NEW o, \A i \in Sessions : SessionOK(ss[i], ring, o), NEW j \in Sessions,
         NEW m \in Requests, m.type = "ack" => \A s \in Streams : m.offset[s] <= o[s],
         NEW out \in SendOutcomes(j, m, ss)
  PROVE  Went(ss, out.sess, o)
  <1>1. CASE ss[j].sendClosed
    <2>1. PICK tt \in Broken(j, ss) : out = [ok |-> FALSE, sess |-> tt]
      BY <1>1, Zenon DEF SendOutcomes
    <2>2. Went(ss, tt, o)
      BY BrokenWent, Zenon
    <2>3. QED
      BY <2>1, <2>2, Zenon
  <1>2. CASE out = [ok |-> TRUE, sess |-> [ss EXCEPT ![j].up = Append(@, m)]]
    <2>1. PICK x : x = ss[j]
      BY Zenon
    <2>2. SessionOK(x, ring, o) /\ x \in SessionType /\ x.up \in Seq(Requests)
      BY <2>1, Zenon DEF SessionOK, SessionType
    <2>3. PICK y : y = [x EXCEPT !.up = Append(x.up, m)]
      BY Zenon
    <2>4. out.sess = [ss EXCEPT ![j] = y]
      BY <1>2, <2>1, <2>3, Zenon
    <2>5. Append(x.up, m) \in Seq(Requests)
      BY <2>2
    <2>6. /\ y \in SessionType /\ y.stop = x.stop /\ y.offset = x.offset /\ y.pump = x.pump /\ y.state = x.state
          /\ y.up = Append(x.up, m) /\ y.down = x.down /\ y.link = x.link
      BY <2>2, <2>3, <2>5, Zenon DEF SessionType
    <2>7. SessionOK(y, ring, o)
      BY <2>2, <2>6, MoreRequests, Zenon
    <2>8. Follows(x, y, ring)
      BY <2>6, Zenon DEF Follows, Quiet
    <2>9. QED
      BY <2>1, <2>4, <2>7, <2>8, OneWent, Zenon
  <1>3. CASE out.sess = ss
    BY <1>3, NoneWent, Zenon
  <1>4. ~ss[j].sendClosed =>
          \/ out = [ok |-> TRUE, sess |-> [ss EXCEPT ![j].up = Append(@, m)]]
          \/ out \in {[ok |-> FALSE, sess |-> ss], [ok |-> TRUE, sess |-> ss]}
    BY Zenon DEF SendOutcomes
  <1>5. out \in {[ok |-> FALSE, sess |-> ss], [ok |-> TRUE, sess |-> ss]} => out.sess = ss
    OBVIOUS
  <1>6. QED
    BY <1>1, <1>2, <1>3, <1>4, <1>5, Zenon

\* A half-close adds at most an end-of-input request.
LEMMA SendClosedWent ==
  ASSUME NEW ss, DOMAIN ss = Sessions, NEW o, \A i \in Sessions : SessionOK(ss[i], ring, o), NEW j \in Sessions,
         NEW tt, tt = SendClosed(j, ss)
  PROVE  Went(ss, tt, o)
  <1>1. PICK x : x = ss[j]
    BY Zenon
  <1>2. SessionOK(x, ring, o) /\ x \in SessionType /\ x.up \in Seq(Requests)
    BY <1>1, Zenon DEF SessionOK, SessionType
  <1>3. PICK m : m = [type |-> "eof"]
    BY Zenon
  <1>4. m \in Requests /\ m.type # "ack"
    BY <1>3, Zenon DEF Requests
  <1>5. PICK u : u = IF x.sendClosed \/ ~x.link \/ x.state = "ended" THEN x.up ELSE Append(x.up, m)
    BY Zenon
  <1>6. u \in Seq(Requests)
    BY <1>2, <1>4, <1>5
  <1>7. PICK y : y = [x EXCEPT !.sendClosed = TRUE, !.up = u]
    BY Zenon
  <1>8. tt = [ss EXCEPT ![j] = y]
    <2>1. PICK a : a = [x EXCEPT !.sendClosed = TRUE]
      BY Zenon
    <2>2. a.up = x.up
      BY <1>2, <2>1, Zenon DEF SessionType
    <2>3. tt = [ss EXCEPT ![j] = [a EXCEPT !.up = IF x.sendClosed \/ ~x.link \/ x.state = "ended" THEN a.up ELSE Append(a.up, m)]]
      BY <1>1, <1>3, <2>1 DEF SendClosed
    <2>4. QED
      BY <1>5, <1>7, <2>1, <2>2, <2>3, Zenon
  <1>9. /\ y \in SessionType /\ y.stop = x.stop /\ y.offset = x.offset /\ y.pump = x.pump /\ y.state = x.state
        /\ y.up = u /\ y.down = x.down /\ y.link = x.link
    <2>1. \A f \in BOOLEAN : LET z == [x EXCEPT !.sendClosed = f, !.up = u]
                             IN /\ z \in SessionType /\ z.stop = x.stop /\ z.offset = x.offset /\ z.pump = x.pump
                                /\ z.state = x.state /\ z.up = u /\ z.down = x.down /\ z.link = x.link
      BY <1>2, <1>6, Zenon DEF SessionType
    <2>2. TRUE \in BOOLEAN
      BY Zenon
    <2>3. QED
      BY <1>7, <2>1, <2>2, Zenon
  <1>10. SessionOK(y, ring, o)
    <2>1. CASE u = x.up
      BY <1>2, <1>9, <2>1, SessionKept, Zenon
    <2>2. CASE u = Append(x.up, m)
      BY <1>2, <1>4, <1>9, <2>2, MoreRequests, Zenon
    <2>3. QED
      BY <1>5, <2>1, <2>2, Zenon
  <1>11. Follows(x, y, ring)
    BY <1>9, Zenon DEF Follows, Quiet
  <1>12. QED
    BY <1>1, <1>8, <1>10, <1>11, OneWent, Zenon

-----------------------------------------------------------------------------
(* Steps of the client that leave its offsets where they are.                *)

\* The client changes, what it sends goes out, and the command stays as it is.
LEMMA ClientStep ==
  ASSUME StreamInv, Went(sess, sess', client.offset), UNCHANGED <<proc, taken, ring, drain, reap, listed, current>>,
         load' \in LoadType, load'.len = load.len, ClientOK(client', ring), client'.offset = client.offset,
         client'.pc \in {"recv", "flush"} => client.pc \in {"recv", "flush"} /\ client'.cur = client.cur,
         client'.pc = "attaching" => client.pc = "attaching" /\ client'.new = client.new
  PROVE  StreamInv'
  <1>1. Ahead(ring, ring')
    BY AheadSame, Zenon DEF StreamInv
  <1>2. Typed'
    BY Zenon DEF StreamInv, Typed, Went
  <1>3. Supply'
    BY Zenon DEF StreamInv, Supply
  <1>4. Goes
    BY <1>1, Zenon DEF Goes, Went
  <1>5. QED
    BY <1>2, <1>3, <1>4, GoesOn, Zenon

\* What the invariant says of the client and the handlers.
LEMMA ClientFacts ==
  ASSUME StreamInv
  PROVE  /\ DOMAIN sess = Sessions /\ \A i \in Sessions : SessionOK(sess[i], ring, client.offset)
         /\ ClientOK(client, ring) /\ DOMAIN client = ClientFields /\ client.cur \in Sessions /\ client.new \in Sessions
         /\ client.offset \in Offsets /\ load \in LoadType
         /\ Went(sess, sess, client.offset)
  <1>1. DOMAIN sess = Sessions /\ \A i \in Sessions : SessionOK(sess[i], ring, client.offset)
    BY Zenon DEF StreamInv, Typed
  <1>2. Went(sess, sess, client.offset)
    BY <1>1, NoneWent, Zenon
  <1>3. QED
    BY <1>1, <1>2, Zenon DEF StreamInv, Typed, ClientOK

\* A client that has changed none of what the invariant looks at.
LEMMA ClientKept ==
  ASSUME NEW c, NEW r, ClientOK(c, r), NEW d, DOMAIN d = ClientFields,
         d.pc \in {"recv", "reattach", "attaching", "flush", "done"}, d.pc = c.pc \/ c.pc # "done",
         d.cur = c.cur, d.new \in Sessions, d.offset = c.offset, d.got = c.got,
         d.result = c.result \/ d.result = "gone"
  PROVE  ClientOK(d, r)
  <1>1. d.result \in {"none", "exit", "gone"}
    BY Zenon DEF ClientOK
  <1>2. d.result = "exit" => c.result = "exit"
    BY Zenon
  <1>3. d.result = "exit" => d.pc = "done" /\ \A s \in Streams : r[s].closed /\ d.offset[s] = EndOffset(r[s])
    BY <1>2, Zenon DEF ClientOK
  <1>4. QED
    BY <1>1, <1>3, Zenon DEF ClientOK

\* The client gives up on a stream.
LEMMA ClientErrorInv ==
  ASSUME StreamInv, ClientError \/ ClientAttachFailed
  PROVE  StreamInv'
  <1>1. /\ client' = [client EXCEPT !.pc = "reattach"] /\ client.pc # "done"
        /\ UNCHANGED <<proc, taken, ring, drain, reap, listed, current, sess, load>>
    BY Zenon DEF ClientError, ClientAttachFailed
  <1>2. /\ DOMAIN client' = ClientFields /\ client'.pc = "reattach" /\ client'.cur = client.cur /\ client'.new = client.new
        /\ client'.offset = client.offset /\ client'.got = client.got /\ client'.result = client.result
    BY <1>1, ClientFacts, Zenon DEF ClientFields
  <1>3. ClientOK(client', ring)
    BY <1>1, <1>2, ClientFacts, ClientKept
  <1>4. client'.pc \notin {"recv", "flush", "attaching"}
    BY <1>2, Zenon
  <1>5. QED
    BY <1>1, <1>2, <1>3, <1>4, ClientFacts, ClientStep, Zenon

\* The consumer's input ends.
LEMMA StdinEOFInv ==
  ASSUME StreamInv, StdinEOF
  PROVE  StreamInv'
  <1>1. /\ client' = [client EXCEPT !.stdinDone = TRUE, !.closing = TRUE]
        /\ UNCHANGED <<proc, taken, ring, drain, reap, listed, current, sess, load>>
    BY Zenon DEF StdinEOF
  <1>2. /\ DOMAIN client' = ClientFields /\ client'.pc = client.pc /\ client'.cur = client.cur /\ client'.new = client.new
        /\ client'.offset = client.offset /\ client'.got = client.got /\ client'.result = client.result
    BY <1>1, ClientFacts, Zenon DEF ClientFields
  <1>3. ClientOK(client', ring)
    BY <1>2, ClientFacts, ClientKept, Zenon DEF ClientOK
  <1>4. QED
    BY <1>1, <1>2, <1>3, ClientFacts, ClientStep, Zenon

\* The half-close is sent.
LEMMA CloseSendInv ==
  ASSUME StreamInv, CloseSend
  PROVE  StreamInv'
  <1>1. /\ client' = [client EXCEPT !.closing = FALSE] /\ sess' = SendClosed(client.cur, sess)
        /\ UNCHANGED <<proc, taken, ring, drain, reap, listed, current, load>>
    BY Zenon DEF CloseSend
  <1>2. /\ DOMAIN client' = ClientFields /\ client'.pc = client.pc /\ client'.cur = client.cur /\ client'.new = client.new
        /\ client'.offset = client.offset /\ client'.got = client.got /\ client'.result = client.result
    BY <1>1, ClientFacts, Zenon DEF ClientFields
  <1>3. ClientOK(client', ring)
    BY <1>2, ClientFacts, ClientKept, Zenon DEF ClientOK
  <1>4. Went(sess, sess', client.offset)
    BY <1>1, ClientFacts, SendClosedWent, Zenon
  <1>5. QED
    BY <1>1, <1>2, <1>3, <1>4, ClientFacts, ClientStep, Zenon

\* A signal is a request.
LEMMA SignalType ==
  ASSUME NEW m, m = [type |-> "signal"]
  PROVE  m \in Requests /\ m.type # "ack"
  BY Zenon DEF Requests

\* The consumer signals the command.
LEMMA SignalInv ==
  ASSUME StreamInv, Signal
  PROVE  StreamInv'
  <1>1. PICK out \in SendOutcomes(client.cur, [type |-> "signal"], sess) :
          /\ sess' = out.sess
          /\ client' = [client EXCEPT !.signals = @ + 1, !.pending = IF out.ok THEN @ ELSE @ + 1]
    BY Zenon DEF Signal
  <1>2. /\ load.signals > 0 /\ load' = [load EXCEPT !.signals = @ - 1]
        /\ UNCHANGED <<proc, taken, ring, drain, reap, listed, current>>
    BY Zenon DEF Signal
  <1>3. /\ DOMAIN client' = ClientFields /\ client'.pc = client.pc /\ client'.cur = client.cur /\ client'.new = client.new
        /\ client'.offset = client.offset /\ client'.got = client.got /\ client'.result = client.result
    BY <1>1, ClientFacts, Zenon DEF ClientFields
  <1>4. ClientOK(client', ring)
    BY <1>3, ClientFacts, ClientKept, Zenon DEF ClientOK
  <1>5. Went(sess, sess', client.offset)
    <2>1. PICK m : m = [type |-> "signal"]
      BY Zenon
    <2>2. m \in Requests /\ m.type # "ack" /\ out \in SendOutcomes(client.cur, m, sess)
      BY <2>1, SignalType, Zenon
    <2>3. Went(sess, out.sess, client.offset)
      BY <2>2, ClientFacts, SendWent, Zenon
    <2>4. QED
      BY <1>1, <2>3, Zenon
  <1>6. load' \in LoadType /\ load'.len = load.len
    <2>1. load.signals - 1 \in Nat /\ load \in LoadType
      BY <1>2, ClientFacts DEF LoadType
    <2>2. QED
      BY <1>2, <2>1, Zenon DEF LoadType
  <1>7. QED
    BY <1>2, <1>3, <1>4, <1>5, <1>6, ClientStep, Zenon

\* A stream dies.
LEMMA BreakInv ==
  ASSUME StreamInv, NEW j \in Sessions, Break(j)
  PROVE  StreamInv'
  <1>1. /\ load.breaks > 0 /\ sess' \in Broken(j, sess) /\ load' = [load EXCEPT !.breaks = @ - 1]
        /\ UNCHANGED <<proc, taken, ring, drain, reap, listed, current, client>>
    BY Zenon DEF Break
  <1>2. load' \in LoadType /\ load'.len = load.len
    <2>1. load.breaks - 1 \in Nat /\ load \in LoadType
      BY <1>1, ClientFacts DEF LoadType
    <2>2. QED
      BY <1>1, <2>1, Zenon DEF LoadType
  <1>3. Went(sess, sess', client.offset)
    BY <1>1, ClientFacts, BrokenWent, Zenon
  <1>4. ClientOK(client', ring)
    BY <1>1, ClientFacts, Zenon
  <1>5. QED
    BY <1>1, <1>2, <1>3, <1>4, ClientStep, Zenon

\* The queued signals and the half-close go out on the new stream.
LEMMA ClientFlushInv ==
  ASSUME StreamInv, ClientFlush
  PROVE  StreamInv'
  <1>1. client.pc = "flush" /\ UNCHANGED <<proc, taken, ring, drain, reap, listed, current, load>>
    BY Zenon DEF ClientFlush
  <1>2. CASE \E out \in SendOutcomes(client.cur, [type |-> "signal"], sess) :
               /\ sess' = out.sess
               /\ client' = [client EXCEPT !.flush = @ - 1, !.pending = IF out.ok THEN @ ELSE @ + 1]
    <2>1. PICK out \in SendOutcomes(client.cur, [type |-> "signal"], sess) :
            /\ sess' = out.sess
            /\ client' = [client EXCEPT !.flush = @ - 1, !.pending = IF out.ok THEN @ ELSE @ + 1]
      BY <1>2, Zenon
    <2>2. /\ DOMAIN client' = ClientFields /\ client'.pc = client.pc /\ client'.cur = client.cur /\ client'.new = client.new
          /\ client'.offset = client.offset /\ client'.got = client.got /\ client'.result = client.result
      BY <2>1, ClientFacts, Zenon DEF ClientFields
    <2>3. ClientOK(client', ring)
      BY <2>2, ClientFacts, ClientKept, Zenon DEF ClientOK
    <2>4. Went(sess, sess', client.offset)
      <3>1. PICK m : m = [type |-> "signal"]
        BY Zenon
      <3>2. m \in Requests /\ m.type # "ack" /\ out \in SendOutcomes(client.cur, m, sess)
        BY <3>1, SignalType, Zenon
      <3>3. Went(sess, out.sess, client.offset)
        BY <3>2, ClientFacts, SendWent, Zenon
      <3>4. QED
        BY <2>1, <3>3, Zenon
    <2>5. QED
      BY <1>1, <2>2, <2>3, <2>4, ClientFacts, ClientStep, Zenon
  <1>3. CASE /\ client' = [client EXCEPT !.pc = "recv"]
             /\ sess' = IF client.replay THEN SendClosed(client.cur, sess) ELSE sess
    <2>1. /\ DOMAIN client' = ClientFields /\ client'.pc = "recv" /\ client'.cur = client.cur /\ client'.new = client.new
          /\ client'.offset = client.offset /\ client'.got = client.got /\ client'.result = client.result
      BY <1>3, ClientFacts, Zenon DEF ClientFields
    <2>2. ClientOK(client', ring)
      BY <1>1, <2>1, ClientFacts, ClientKept, Zenon
    <2>3. Went(sess, sess', client.offset)
      BY <1>3, ClientFacts, SendClosedWent, Zenon
    <2>4. QED
      BY <1>1, <2>1, <2>2, <2>3, ClientFacts, ClientStep, Zenon
  <1>4. QED
    BY <1>2, <1>3, Zenon DEF ClientFlush

-----------------------------------------------------------------------------
(* Steps of the client that read a message.                                  *)

\* A data message names a stream and carries bytes.
LEMMA DataType ==
  ASSUME NEW q \in Seq(Replies), q # <<>>, Head(q).type = "data"
  PROVE  Head(q).stream \in Streams /\ Head(q).bytes \in Seq(Nat)
  <1>1. PICK m : m = Head(q)
    BY Zenon
  <1>2. m \in Replies
    BY <1>1
  <1>3. m \notin [type : {"exit"}] /\ m \notin [type : {"attached"}, offset : Offsets]
    BY <1>1, Zenon
  <1>4. m \in [type : {"data"}, stream : Streams, bytes : Seq(Nat)]
    BY <1>2, <1>3, Zenon DEF Replies
  <1>5. QED
    BY <1>1, <1>4, Zenon

\* The client takes a message off a stream, and may be further after it.
LEMMA Popped ==
  ASSUME StreamInv, NEW j \in Sessions, sess[j].down # <<>>, NEW o \in Offsets,
         \A s \in Streams : client.offset[s] <= o[s], NEW ss, ss = [sess EXCEPT ![j].down = Tail(@)]
  PROVE  /\ DOMAIN ss = Sessions /\ \A i \in Sessions : SessionOK(ss[i], ring, o)
         /\ ss[j].down = Tail(sess[j].down) /\ ss[j].offset = sess[j].offset /\ ss[j].state = sess[j].state
         /\ ss[j].link = sess[j].link
  <1>1. PICK x : x = sess[j]
    BY Zenon
  <1>2. /\ SessionOK(x, ring, client.offset) /\ x \in SessionType /\ x.down \in Seq(Replies) /\ x.down # <<>>
        /\ Len(x.down) <= Window /\ DOMAIN sess = Sessions
    BY <1>1, HandlerFacts, Zenon DEF SessionOK, SessionType
  <1>3. PICK y : y = [x EXCEPT !.down = Tail(x.down)]
    BY Zenon
  <1>4. ss = [sess EXCEPT ![j] = y]
    BY <1>1, <1>3, Zenon
  <1>5. Tail(x.down) \in Seq(Replies) /\ Len(Tail(x.down)) <= Window
    BY <1>2, StreamAssumption
  <1>6. /\ y \in SessionType /\ y.stop = x.stop /\ y.offset = x.offset /\ y.pump = x.pump /\ y.state = x.state
        /\ y.up = x.up /\ y.down = Tail(x.down) /\ y.link = x.link
    BY <1>2, <1>3, <1>5, Zenon DEF SessionType
  <1>7. SessionOK(y, ring, client.offset)
    <2>1. Pumped(y, ring)
      BY <1>2, <1>6, Zenon DEF SessionOK, Pumped
    <2>2. AcksOK(y, client.offset)
      BY <1>2, <1>6, Zenon DEF SessionOK, AcksOK
    <2>3. QED
      BY <1>5, <1>6, <2>1, <2>2, Zenon DEF SessionOK
  <1>8. DOMAIN ss = Sessions /\ ss[j] = y /\ \A i \in Sessions \ {j} : ss[i] = sess[i]
    BY <1>2, <1>4, Zenon
  <1>9. \A i \in Sessions : SessionOK(ss[i], ring, client.offset)
    BY <1>7, <1>8, HandlerFacts, Zenon
  <1>10. ASSUME NEW i \in Sessions
         PROVE  SessionOK(ss[i], ring, o)
    <2>1. PICK z : z = ss[i]
      BY Zenon
    <2>2. SessionOK(z, ring, client.offset) /\ z.up \in Seq(Requests)
      BY <1>9, <2>1, Zenon DEF SessionOK, SessionType
    <2>3. ASSUME NEW k \in DOMAIN z.up, z.up[k].type = "ack", NEW s \in Streams
          PROVE  z.up[k].offset[s] <= o[s]
      <3>1. z.up[k] \in Requests
        BY <2>2
      <3>2. z.up[k].offset \in Offsets
        BY <2>3, <3>1, AckType, Zenon
      <3>3. z.up[k].offset[s] <= client.offset[s]
        BY <2>2, <2>3, Zenon DEF SessionOK, AcksOK
      <3>4. client.offset \in Offsets
        BY ClientFacts, Zenon
      <3>5. z.up[k].offset[s] \in Nat /\ client.offset[s] \in Nat /\ o[s] \in Nat /\ client.offset[s] <= o[s]
        BY <3>2, <3>4, Zenon DEF Offsets
      <3>6. QED
        BY <3>3, <3>5
    <2>4. AcksOK(z, o)
      BY <2>3, Zenon DEF AcksOK
    <2>5. QED
      BY <2>1, <2>2, <2>4, Zenon DEF SessionOK
  <1>11. QED
    BY <1>1, <1>6, <1>8, <1>10, Zenon

\* The consumer is given the next bytes.
LEMMA GivenMore ==
  ASSUME NEW g, NEW a \in Nat, NEW c \in Nat, a <= c, NEW l, Given(g, a, l), NEW h, h = g \o Bytes(a, c)
  PROVE  Given(h, c, l)
  <1>0. PICK b : b = Bytes(a, c)
    BY Zenon
  <1>1. PICK n \in Nat : n = Len(g)
    BY DEF Given
  <1>2. g \in Seq(Nat) /\ b \in Seq(Nat) /\ Len(b) = c - a /\ \A i \in 1 .. (c - a) : b[i] = a + i - 1
    BY <1>0, <1>1, BytesType DEF Given
  <1>3. /\ h \in Seq(Nat) /\ DOMAIN h = 1 .. (n + (c - a)) /\ DOMAIN g = 1 .. n
        /\ \A i \in 1 .. n : h[i] = g[i]
        /\ \A i \in (n + 1) .. (n + (c - a)) : h[i] = a + (i - n) - 1
    <2>1. h = g \o b
      BY <1>0, <1>1, Zenon
    <2>2. /\ h \in Seq(Nat) /\ DOMAIN h = 1 .. (n + (c - a)) /\ DOMAIN g = 1 .. n
          /\ \A i \in 1 .. n : h[i] = g[i]
      <3>1. DOMAIN g = 1 .. n
        BY <1>0, <1>1, <1>2
      <3>2. h \in Seq(Nat) /\ Len(h) = n + (c - a)
        <4>1. h \in Seq(Nat) /\ Len(h) = Len(g) + Len(b)
          BY <1>2, <2>1, JoinedSequence, Zenon
        <4>2. QED
          BY <1>0, <1>1, <1>2, <4>1, Zenon
      <3>3. DOMAIN h = 1 .. (n + (c - a))
        BY <3>2
      <3>4. \A i \in 1 .. n : h[i] = g[i]
        BY <1>0, <1>1, <1>2, <2>1
      <3>5. QED
        BY <3>1, <3>2, <3>3, <3>4, Zenon
    <2>3. \A i \in (n + 1) .. (n + (c - a)) : h[i] = b[i - n] /\ i - n \in 1 .. (c - a)
      BY <1>0, <1>1, <1>2, <2>1
    <2>4. QED
      BY <1>2, <2>2, <2>3
  <1>4. \A i \in 1 .. n : g[i] < a /\ g[i] \in Nat
    <2>1. \A i \in DOMAIN g : g[i] < a
      BY Zenon DEF Given
    <2>2. \A i \in 1 .. n : g[i] \in Nat
      BY <1>0, <1>1, <1>2
    <2>3. QED
      BY <1>3, <2>1, <2>2, Zenon
  <1>5. \A i, k \in 1 .. n : i < k => g[i] < g[k]
    BY <1>3 DEF Given
  <1>6. ASSUME NEW i \in DOMAIN h, NEW k \in DOMAIN h, i < k
        PROVE  h[i] < h[k]
    <2>1. i \in Nat /\ k \in Nat /\ n \in Nat /\ i <= n + (c - a) /\ k <= n + (c - a) /\ 1 <= i /\ 1 <= k
      BY <1>3
    <2>2. CASE k <= n
      <3>1. i \in 1 .. n /\ k \in 1 .. n
        BY <1>6, <2>1, <2>2
      <3>2. QED
        BY <1>3, <1>5, <1>6, <3>1, Zenon
    <2>3. CASE i <= n /\ k > n
      <3>1. i \in 1 .. n /\ k \in (n + 1) .. (n + (c - a))
        BY <2>1, <2>3
      <3>2. h[i] = g[i] /\ g[i] < a /\ g[i] \in Nat /\ h[k] = a + (k - n) - 1
        BY <1>3, <1>4, <3>1
      <3>3. QED
        BY <2>1, <2>3, <3>2
    <2>4. CASE i > n
      <3>1. i \in (n + 1) .. (n + (c - a)) /\ k \in (n + 1) .. (n + (c - a))
        BY <1>6, <2>1, <2>4
      <3>2. h[i] = a + (i - n) - 1 /\ h[k] = a + (k - n) - 1
        BY <1>3, <3>1
      <3>3. QED
        BY <1>6, <2>1, <3>2
    <2>5. QED
      BY <2>1, <2>2, <2>3, <2>4
  <1>7. ASSUME NEW i \in DOMAIN h
        PROVE  h[i] < c
    <2>1. i \in Nat /\ i <= n + (c - a) /\ 1 <= i
      BY <1>3
    <2>2. CASE i <= n
      <3>1. i \in 1 .. n
        BY <2>1, <2>2
      <3>2. h[i] = g[i] /\ g[i] < a /\ g[i] \in Nat
        BY <1>3, <1>4, <3>1, Zenon
      <3>3. QED
        BY <3>2
    <2>3. CASE i > n
      <3>1. i \in (n + 1) .. (n + (c - a))
        BY <2>1, <2>3
      <3>2. h[i] = a + (i - n) - 1
        BY <1>3, <3>1, Zenon
      <3>3. QED
        BY <2>1, <2>3, <3>2
    <2>4. QED
      BY <2>1, <2>2, <2>3
  <1>8. l => h = Bytes(0, c)
    <2>1. SUFFICES ASSUME l PROVE h = Bytes(0, c)
      BY Zenon
    <2>2. g = Bytes(0, a)
      BY <2>1, Zenon DEF Given
    <2>3. 0 \in Nat /\ 0 <= a
      OBVIOUS
    <2>4. Bytes(0, a) \o Bytes(a, c) = Bytes(0, c)
      BY <2>3, JoinBytes
    <2>5. QED
      BY <2>2, <2>4, Zenon
  <1>9. QED
    BY <1>3, <1>6, <1>7, <1>8, Zenon DEF Given

\* The consumer skips output that its ring had to evict.
LEMMA GivenSkip ==
  ASSUME NEW g, NEW a \in Nat, NEW c \in Nat, a <= c, NEW l, Given(g, a, l), l => c = a
  PROVE  Given(g, c, l)
  <1>1. \A i \in DOMAIN g : g[i] \in Nat /\ g[i] < a
    BY DEF Given
  <1>2. \A i \in DOMAIN g : g[i] < c
    BY <1>1
  <1>3. QED
    BY <1>2, Zenon DEF Given

\* The consumer has more of what its ring was given.
LEMMA SuppliedConsumed ==
  ASSUME NEW r, NEW d, NEW tk, NEW wr, NEW len, NEW a, Supplied(r, d, tk, wr, len, a), NEW c \in Nat, a <= c, c <= EndOffset(r)
  PROVE  Supplied(r, d, tk, wr, len, c)
  <1>1. r.released \in Nat /\ a \in Nat /\ r.released <= a
    BY RingOffsets, Zenon DEF Supplied
  <1>2. r.released <= c
    BY <1>1
  <1>3. QED
    BY <1>2, Zenon DEF Supplied

\* The state after a step of the client alone that reads a message.
LEMMA ClientReads ==
  ASSUME StreamInv, UNCHANGED <<proc, taken, ring, drain, reap, listed, current, load>>, DOMAIN sess' = Sessions,
         \A i \in Sessions : SessionOK(sess'[i], ring, client'.offset),
         ClientOK(client', ring), View(client', sess', ring),
         \A s \in Streams : client.offset[s] <= client'.offset[s] /\ client'.offset[s] <= EndOffset(ring[s])
  PROVE  StreamInv'
  <1>1. Typed'
    BY Zenon DEF StreamInv, Typed
  <1>2. ASSUME NEW s \in Streams
        PROVE  Supplied(ring[s], drain[s], taken[s], proc.wrote[s], load.len[s], client'.offset[s])
    <2>1. Supplied(ring[s], drain[s], taken[s], proc.wrote[s], load.len[s], client.offset[s])
      BY SuppliedFacts, Zenon
    <2>2. client'.offset[s] \in Nat
      BY Zenon DEF ClientOK, Offsets
    <2>3. QED
      BY <2>1, <2>2, SuppliedConsumed, Zenon
  <1>3. Supply'
    BY <1>2, Zenon DEF Supply
  <1>4. QED
    BY <1>1, <1>3, Zenon DEF StreamInv

\* What the stream that the client reads has in flight.
LEMMA ReadFacts ==
  ASSUME StreamInv, client.pc = "recv", NEW j, j = client.cur
  PROVE  /\ j \in Sessions /\ sess[j].offset \in Offsets /\ sess[j].down \in Seq(Replies) /\ client.offset \in Offsets
         /\ Flow(sess[j], sess[j].down, client.offset, ring)
         /\ \A s \in Streams : /\ sess[j].offset[s] \in Nat /\ client.offset[s] \in Nat /\ EndOffset(ring[s]) \in Nat
                               /\ sess[j].offset[s] <= EndOffset(ring[s]) /\ client.offset[s] <= EndOffset(ring[s])
  <1>1. j \in Sessions /\ client.offset \in Offsets
    BY ClientFacts, Zenon
  <1>2. SessionOK(sess[j], ring, client.offset) /\ sess[j] \in SessionType
    BY <1>1, HandlerFacts, Zenon
  <1>3. sess[j].offset \in Offsets /\ sess[j].down \in Seq(Replies)
    BY <1>2, Zenon DEF SessionType
  <1>4. Flow(sess[j], sess[j].down, client.offset, ring)
    BY Zenon DEF StreamInv, View
  <1>5. ASSUME NEW s \in Streams
        PROVE  /\ sess[j].offset[s] \in Nat /\ client.offset[s] \in Nat /\ EndOffset(ring[s]) \in Nat
               /\ sess[j].offset[s] <= EndOffset(ring[s]) /\ client.offset[s] <= EndOffset(ring[s])
    <2>1. sess[j].offset[s] <= EndOffset(ring[s])
      BY <1>2, Zenon DEF SessionOK, Pumped
    <2>2. client.offset[s] <= EndOffset(ring[s]) /\ EndOffset(ring[s]) \in Nat
      BY SuppliedFacts, Zenon DEF Supplied
    <2>3. QED
      BY <1>1, <1>3, <2>1, <2>2, Zenon DEF Offsets
  <1>6. QED
    BY <1>1, <1>3, <1>4, <1>5, Zenon

\* The client reads the exit status: it has everything.
LEMMA ClientExitInv ==
  ASSUME StreamInv, ClientExit
  PROVE  StreamInv'
  <1>1. PICK j : j = client.cur
    BY Zenon
  <1>2. /\ client.pc = "recv" /\ sess[j].down # <<>> /\ Head(sess[j].down).type = "exit"
        /\ client' = [client EXCEPT !.pc = "done", !.result = "exit"]
        /\ sess' = [sess EXCEPT ![j].down = Tail(@)]
        /\ UNCHANGED <<proc, taken, ring, drain, reap, listed, current, load>>
    BY <1>1, Zenon DEF ClientExit
  <1>3. \A s \in Streams : ring[s].closed /\ client.offset[s] = EndOffset(ring[s])
    <2>1. PICK x, q, o : x = sess[j] /\ q = sess[j].down /\ o = client.offset
      BY Zenon
    <2>2. x.offset \in Offsets /\ q \in Seq(Replies) /\ q # <<>> /\ o \in Offsets /\ Flow(x, q, o, ring) /\ Head(q).type = "exit"
      BY <1>1, <1>2, <2>1, ReadFacts, Zenon
    <2>3. \A s \in Streams : ring[s].closed /\ o[s] = EndOffset(ring[s])
      BY <2>2, FlowExited, Zenon
    <2>4. QED
      BY <2>1, <2>3, Zenon
  <1>4. /\ DOMAIN client' = ClientFields /\ client'.pc = "done" /\ client'.cur = client.cur /\ client'.new = client.new
        /\ client'.offset = client.offset /\ client'.got = client.got /\ client'.result = "exit"
    BY <1>2, ClientFacts, Zenon DEF ClientFields
  <1>5. ClientOK(client', ring)
    BY <1>3, <1>4, ClientFacts, Zenon DEF ClientOK
  <1>6. \A s \in Streams : client.offset[s] <= client.offset[s]
    BY ClientFacts DEF Offsets
  <1>7. DOMAIN sess' = Sessions /\ \A i \in Sessions : SessionOK(sess'[i], ring, client.offset)
    BY <1>1, <1>2, <1>6, ReadFacts, Popped, Zenon
  <1>8. View(client', sess', ring)
    BY <1>4, Zenon DEF View
  <1>9. QED
    BY <1>1, <1>2, <1>4, <1>5, <1>6, <1>7, <1>8, ReadFacts, ClientReads, Zenon

\* The client reads a chunk of output, and perhaps acknowledges it.
LEMMA ClientDataInv ==
  ASSUME StreamInv, ClientData
  PROVE  StreamInv'
  <1>1. PICK j, q, p : j = client.cur /\ q = sess[j].down /\ p = Head(q).stream
    BY Zenon
  <1>2. /\ client.pc = "recv" /\ q # <<>> /\ Head(q).type = "data"
        /\ UNCHANGED <<proc, taken, ring, drain, reap, listed, current, load>>
    BY <1>1, Zenon DEF ClientData
  <1>3. /\ j \in Sessions /\ q \in Seq(Replies) /\ p \in Streams /\ sess[j].offset \in Offsets /\ client.offset \in Offsets
        /\ client.offset[p] \in Nat
    BY <1>1, <1>2, ReadFacts, DataType, Zenon
  <1>4. PICK c \in Nat : /\ client.offset[p] <= c /\ c <= sess[j].offset[p] /\ Head(q).bytes = Bytes(client.offset[p], c)
                         /\ Flow(sess[j], Tail(q), [client.offset EXCEPT ![p] = c], ring)
    BY <1>1, <1>2, <1>3, ReadFacts, FlowPop, Zenon
  <1>5. client.offset[p] + Len(Head(q).bytes) = c
    <2>1. PICK a \in Nat : a = client.offset[p]
      BY <1>3, Zenon
    <2>2. Len(Bytes(a, c)) = c - a
      BY <1>4, <2>1, BytesType, Zenon
    <2>3. a + (c - a) = c
      OBVIOUS
    <2>4. QED
      BY <1>4, <2>1, <2>2, <2>3, Zenon
  <1>6. PICK o : o = [client.offset EXCEPT ![p] = c]
    BY Zenon
  <1>7. o = [client.offset EXCEPT ![p] = @ + Len(Head(q).bytes)]
    BY <1>5, <1>6, Zenon
  <1>8. o \in Offsets /\ o[p] = c /\ \A s \in Streams \ {p} : o[s] = client.offset[s]
    BY <1>3, <1>6, Zenon DEF Offsets
  <1>9. \A s \in Streams : client.offset[s] <= o[s] /\ o[s] <= EndOffset(ring[s])
    <2>1. ASSUME NEW s \in Streams
          PROVE  client.offset[s] <= o[s] /\ o[s] <= EndOffset(ring[s])
      <3>1. /\ sess[j].offset[s] \in Nat /\ client.offset[s] \in Nat /\ EndOffset(ring[s]) \in Nat
            /\ sess[j].offset[s] <= EndOffset(ring[s]) /\ client.offset[s] <= EndOffset(ring[s])
        BY <1>1, <1>2, ReadFacts, Zenon
      <3>2. CASE s = p
        BY <1>4, <1>8, <3>1, <3>2
      <3>3. CASE s # p
        BY <1>8, <3>1, <3>3
      <3>4. QED
        BY <3>2, <3>3, Zenon
    <2>2. QED
      BY <2>1, Zenon
  <1>10. PICK ss : ss = [sess EXCEPT ![j].down = Tail(@)]
    BY Zenon
  <1>11. PICK m : m = [type |-> "ack", offset |-> o]
    BY Zenon
  <1>12. m \in Requests /\ m.type = "ack" /\ m.offset = o
    BY <1>8, <1>11, Zenon DEF Requests
  <1>13. PICK d : d = [client EXCEPT !.offset = o, !.got[p] = @ \o Head(q).bytes]
    BY Zenon
  <1>14. /\ client' = d \/ client' = [d EXCEPT !.acked = Total(o)]
         /\ sess' = ss \/ \E out \in SendOutcomes(j, m, ss) : sess' = out.sess
    BY <1>1, <1>7, <1>10, <1>11, <1>13, Zenon DEF ClientData
  <1>15. /\ DOMAIN d = ClientFields /\ d.pc = "recv" /\ d.cur = j /\ d.new = client.new
         /\ d.offset = o /\ d.got = [client.got EXCEPT ![p] = @ \o Head(q).bytes] /\ d.result = client.result
    BY <1>1, <1>2, <1>13, ClientFacts, Zenon DEF ClientFields
  <1>16. /\ DOMAIN client' = ClientFields /\ client'.pc = "recv" /\ client'.cur = j /\ client'.new = client.new
         /\ client'.offset = o /\ client'.got = [client.got EXCEPT ![p] = @ \o Head(q).bytes] /\ client'.result = client.result
    <2>1. CASE client' = d
      BY <1>15, <2>1, Zenon
    <2>2. CASE client' = [d EXCEPT !.acked = Total(o)]
      <3>1. PICK v : v = Total(o)
        BY Zenon
      <3>2. client' = [d EXCEPT !.acked = v]
        BY <2>2, <3>1, Zenon
      <3>3. QED
        BY <1>15, <3>2 DEF ClientFields
    <2>3. QED
      BY <1>14, <2>1, <2>2, Zenon
  <1>17. ClientOK(client', ring)
    <2>1. ClientOK(client, ring) /\ DOMAIN client.got = Streams
      BY ClientFacts, Zenon DEF ClientOK
    <2>2. DOMAIN client'.got = Streams
      BY <1>16, <2>1, Zenon
    <2>3. ASSUME NEW s \in Streams
          PROVE  Given(client'.got[s], o[s], ring[s].lossless)
      <3>1. Given(client.got[s], client.offset[s], ring[s].lossless)
        BY <2>1, Zenon DEF ClientOK
      <3>2. CASE s = p
        <4>1. client'.got[s] = client.got[s] \o Bytes(client.offset[s], c)
          BY <1>4, <1>16, <2>1, <3>2, Zenon
        <4>2. PICK a \in Nat : a = client.offset[s]
          BY <1>3, <3>2, Zenon
        <4>3. Given(client'.got[s], c, ring[s].lossless)
          BY <1>4, <3>1, <3>2, <4>1, <4>2, GivenMore
        <4>4. QED
          BY <1>8, <3>2, <4>3, Zenon
      <3>3. CASE s # p
        <4>1. client'.got[s] = client.got[s] /\ o[s] = client.offset[s]
          BY <1>8, <1>16, <2>1, <3>3, Zenon
        <4>2. QED
          BY <3>1, <4>1, Zenon
      <3>4. QED
        BY <3>2, <3>3, Zenon
    <2>4. client.result # "exit"
      BY <1>2, <2>1, Zenon DEF ClientOK
    <2>5. client.result \in {"none", "exit", "gone"} /\ client.new \in Sessions
      BY <2>1, Zenon DEF ClientOK
    <2>6. QED
      BY <1>3, <1>8, <1>16, <2>2, <2>3, <2>4, <2>5, Zenon DEF ClientOK
  <1>18. /\ DOMAIN ss = Sessions /\ \A i \in Sessions : SessionOK(ss[i], ring, o)
         /\ ss[j].down = Tail(q) /\ ss[j].offset = sess[j].offset /\ ss[j].state = sess[j].state
         /\ ss[j].link = sess[j].link
    <2>1. sess[j].down # <<>> /\ \A s \in Streams : client.offset[s] <= o[s]
      BY <1>1, <1>2, <1>9, Zenon
    <2>2. /\ DOMAIN ss = Sessions /\ \A i \in Sessions : SessionOK(ss[i], ring, o)
          /\ ss[j].down = Tail(sess[j].down) /\ ss[j].offset = sess[j].offset /\ ss[j].state = sess[j].state
          /\ ss[j].link = sess[j].link
      BY <1>3, <1>8, <1>10, <2>1, Popped, Zenon
    <2>3. QED
      BY <1>1, <2>2, Zenon
  <1>19. Went(ss, sess', o)
    <2>1. CASE sess' = ss
      BY <1>18, <2>1, NoneWent, Zenon
    <2>2. CASE \E out \in SendOutcomes(j, m, ss) : sess' = out.sess
      <3>1. PICK out \in SendOutcomes(j, m, ss) : sess' = out.sess
        BY <2>2, Zenon
      <3>2. \A s \in Streams : m.offset[s] <= o[s]
        BY <1>8, <1>12 DEF Offsets
      <3>3. Went(ss, out.sess, o)
        BY <1>3, <1>12, <1>18, <3>2, SendWent, Zenon
      <3>4. QED
        BY <3>1, <3>3, Zenon
    <2>3. QED
      BY <1>14, <2>1, <2>2, Zenon
  <1>20. Flow(sess'[j], sess'[j].down, o, ring)
    <2>1. Flow(ss[j], ss[j].down, o, ring)
      BY <1>4, <1>6, <1>18, FlowFrame, Zenon
    <2>2. ss[j].offset \in Offsets /\ ss[j].down \in Seq(Replies)
      BY <1>3, <1>18, Zenon DEF SessionOK, SessionType
    <2>3. Follows(ss[j], sess'[j], ring)
      BY <1>3, <1>19, Zenon DEF Went
    <2>4. QED
      BY <1>8, <2>1, <2>2, <2>3, FlowFollows, Zenon
  <1>21. View(client', sess', ring)
    BY <1>16, <1>20, Zenon DEF View
  <1>22. DOMAIN sess' = Sessions /\ \A i \in Sessions : SessionOK(sess'[i], ring, o)
    BY <1>19, Zenon DEF Went
  <1>23. QED
    BY <1>2, <1>9, <1>16, <1>17, <1>21, <1>22, ClientReads, Zenon

\* A handler that has just started.
LEMMA ServingType ==
  ASSUME NEW o \in Offsets, NEW q \in Seq(Replies), Len(q) <= Window, NEW y, y = Serving(o, q)
  PROVE  /\ y \in SessionType /\ y.state = "serving" /\ y.offset = o /\ y.down = q /\ y.up = <<>>
         /\ \A s \in Streams : y.pump[s] = "tail"
  <1>1. y = [state |-> "serving", link |-> TRUE, up |-> <<>>, down |-> q, sendClosed |-> FALSE, offset |-> o,
             pump |-> [s \in Streams |-> "tail"], stop |-> FALSE, input |-> "recv"]
    BY DEF Serving, Unused
  <1>2. <<>> \in Seq(Requests) /\ [s \in Streams |-> "tail"] \in [Streams -> {"tail", "eof", "stopped"}]
    OBVIOUS
  <1>3. QED
    BY <1>1, <1>2 DEF SessionType

\* Where it starts.
LEMMA ServingFrom ==
  ASSUME NEW o, NEW q, NEW y, y = Serving(o, q)
  PROVE  y.offset = o /\ y.down = q
  BY Zenon DEF Serving, Unused

\* Such a handler is right if it starts at retained output.
LEMMA ServingOK ==
  ASSUME NEW o \in Offsets, NEW q \in Seq(Replies), Len(q) <= Window, NEW y, y = Serving(o, q), NEW r, NEW c,
         \A s \in Streams : o[s] <= EndOffset(r[s])
  PROVE  SessionOK(y, r, c)
  <1>1. /\ y \in SessionType /\ y.state = "serving" /\ y.offset = o /\ y.down = q /\ y.up = <<>>
        /\ \A s \in Streams : y.pump[s] = "tail"
    BY ServingType
  <1>2. Pumped(y, r)
    BY <1>1, Zenon DEF Pumped
  <1>3. AcksOK(y, c)
    BY <1>1 DEF AcksOK
  <1>4. QED
    BY <1>1, <1>2, <1>3, Zenon DEF SessionOK

\* The client attaches again: the daemon confirms its offsets and replays from them.
LEMMA ReattachInv ==
  ASSUME StreamInv, NEW j \in Sessions, Reattach(j)
  PROVE  StreamInv'
  <1>1. client.pc = "reattach" /\ UNCHANGED <<proc, taken, drain, reap, listed, load>>
    BY Zenon DEF Reattach
  <1>2. CASE client' = [client EXCEPT !.pc = "done", !.result = "gone"] /\ UNCHANGED <<ring, current, sess>>
    <2>1. /\ DOMAIN client' = ClientFields /\ client'.pc = "done" /\ client'.cur = client.cur /\ client'.new = client.new
          /\ client'.offset = client.offset /\ client'.got = client.got /\ client'.result = "gone"
      BY <1>2, ClientFacts, Zenon DEF ClientFields
    <2>2. ClientOK(client', ring)
      BY <1>1, <2>1, ClientFacts, ClientKept, Zenon
    <2>3. client'.pc \notin {"recv", "flush", "attaching"}
      BY <2>1, Zenon
    <2>4. Went(sess, sess', client.offset)
      BY <1>2, ClientFacts, Zenon
    <2>5. QED
      BY <1>1, <1>2, <2>1, <2>2, <2>3, <2>4, ClientFacts, ClientStep, Zenon
  <1>3. CASE /\ current' = j /\ ring' = ConfirmOffsets
             /\ LET from == [s \in Streams |-> ReplayOffset(s)]
                IN  sess' = [sess EXCEPT ![j] = Serving(from, <<[type |-> "attached", offset |-> from]>>)]
             /\ client' = [client EXCEPT !.pc = "attaching", !.new = j]
    <2>1. PICK from, m, q, y : /\ from = [s \in Streams |-> ReplayOffset(s)] /\ m = [type |-> "attached", offset |-> from]
                               /\ q = <<m>> /\ y = Serving(from, q)
      BY Zenon
    <2>2. sess' = [sess EXCEPT ![j] = y]
      BY <1>3, <2>1, Zenon
    <2>3. /\ DOMAIN client' = ClientFields /\ client'.pc = "attaching" /\ client'.cur = client.cur /\ client'.new = j
          /\ client'.offset = client.offset /\ client'.got = client.got /\ client'.result = client.result
      BY <1>3, ClientFacts, Zenon DEF ClientFields
    <2>4. client.offset \in Offsets /\ \A s \in Streams : client.offset[s] <= client.offset[s]
      BY ClientFacts DEF Offsets
    <2>5. ring' = [s \in Streams |-> SetReleased(ring[s], client.offset[s])]
      BY <1>3, Zenon DEF ConfirmOffsets
    <2>6. Supply' /\ Ahead(ring, ring') /\ DOMAIN ring' = Streams
      BY <1>1, <2>3, <2>4, <2>5, ConfirmRings, Zenon
    <2>7. ASSUME NEW s \in Streams
          PROVE  /\ from[s] \in Nat /\ from[s] <= EndOffset(ring'[s]) /\ client.offset[s] <= from[s]
                 /\ ring'[s].lossless => from[s] = client.offset[s]
      <3>1. Supplied(ring[s], drain[s], taken[s], proc.wrote[s], load.len[s], client.offset[s])
        BY SuppliedFacts, Zenon
      <3>2. /\ ring[s].lossless => ring[s].start <= ring[s].released
            /\ client.offset[s] \in Nat /\ ring[s].released <= client.offset[s] /\ client.offset[s] <= EndOffset(ring[s])
            /\ ring[s].start \in Nat /\ ring[s].released \in Nat /\ EndOffset(ring[s]) \in Nat
            /\ ring[s].start < EndOffset(ring[s]) \/ ring[s].start = 0
        BY <3>1, RingOffsets, Zenon DEF Supplied
      <3>3. from[s] = MaxOf(client.offset[s], ring[s].start)
        BY <2>1, Zenon DEF ReplayOffset
      <3>4. EndOffset(ring'[s]) \in Nat /\ EndOffset(ring[s]) <= EndOffset(ring'[s]) /\ ring'[s].lossless = ring[s].lossless
        BY <2>6, RingOffsets, Zenon DEF Ahead, Supply, Supplied
      <3>5. from[s] \in Nat /\ client.offset[s] <= from[s] /\ from[s] <= EndOffset(ring[s])
        BY <3>2, <3>3 DEF MaxOf
      <3>6. ring[s].lossless => from[s] = client.offset[s]
        BY <3>2, <3>3 DEF MaxOf
      <3>7. from[s] <= EndOffset(ring'[s])
        BY <3>2, <3>4, <3>5
      <3>8. QED
        BY <3>4, <3>5, <3>6, <3>7, Zenon
    <2>8. from \in Offsets
      BY <2>1, <2>7, Zenon DEF Offsets
    <2>9. m \in Replies /\ m.type = "attached" /\ m.offset = from
      BY <2>1, <2>8, Zenon DEF Replies
    <2>10. q \in Seq(Replies) /\ q # <<>> /\ Head(q) = m /\ Tail(q) = <<>> /\ Len(q) <= Window
      BY <2>1, <2>9, StreamAssumption
    <2>11. SessionOK(y, ring', client.offset)
      <3>1. \A s \in Streams : from[s] <= EndOffset(ring'[s])
        BY <2>7, Zenon
      <3>2. QED
        BY <2>1, <2>8, <2>10, <3>1, ServingOK
    <2>12. DOMAIN sess' = Sessions /\ sess'[j] = y /\ \A i \in Sessions \ {j} : sess'[i] = sess[i]
      BY <2>2, ClientFacts, Zenon
    <2>13. \A i \in Sessions : SessionOK(sess[i], ring', client.offset)
      <3>1. \A s \in Streams : EndOffset(ring[s]) \in Nat /\ EndOffset(ring'[s]) \in Nat
        BY <2>6, SuppliedFacts, RingOffsets, Zenon DEF Supply, Supplied
      <3>2. QED
        BY <2>6, <3>1, ClientFacts, SessionAhead, Zenon
    <2>14. \A i \in Sessions : SessionOK(sess'[i], ring', client.offset)
      BY <2>11, <2>12, <2>13, Zenon
    <2>15. ClientOK(client', ring')
      <3>1. ClientOK(client', ring)
        BY <1>1, <2>3, ClientFacts, ClientKept, Zenon
      <3>2. QED
        BY <2>6, <3>1, ClientAhead, Zenon
    <2>16. AttachFlow(y, client.offset, ring')
      <3>1. y.offset = from /\ y.down = q
        BY <2>1, ServingFrom
      <3>2. Flow(y, <<>>, from, ring')
        BY <2>8, <3>1, FlowStart, Zenon
      <3>3. y.down # <<>> /\ Head(y.down).type = "attached" /\ Head(y.down).offset = from /\ Tail(y.down) = <<>>
        BY <2>9, <2>10, <3>1, Zenon
      <3>4. QED
        BY <2>7, <3>2, <3>3, Zenon DEF AttachFlow
    <2>17. View(client', sess', ring')
      <3>1. client'.pc \notin {"recv", "flush"}
        BY <2>3, Zenon
      <3>2. QED
        BY <2>3, <2>12, <2>16, <3>1, Zenon DEF View
    <2>18. Typed'
      <3>1. current' \in 0 .. MaxSessions
        BY <1>3 DEF Sessions
      <3>2. QED
        BY <1>1, <2>6, <2>12, <3>1, Zenon DEF StreamInv, Typed
    <2>19. QED
      BY <2>3, <2>6, <2>14, <2>15, <2>17, <2>18, Zenon DEF StreamInv
  <1>4. QED
    BY <1>2, <1>3, Zenon DEF Reattach

\* The Attached reply arrives: the client goes on where the handler starts.
LEMMA ClientAttachedInv ==
  ASSUME StreamInv, ClientAttached
  PROVE  StreamInv'
  <1>1. PICK j, x, q, m : j = client.new /\ x = sess[j] /\ q = x.down /\ m = Head(q)
    BY Zenon
  <1>2. /\ client.pc = "attaching" /\ q # <<>> /\ sess' = [sess EXCEPT ![j].down = Tail(@)]
        /\ client' = [TakeQueue EXCEPT !.pc = "flush", !.cur = j,
                         !.offset = [s \in Streams |-> ResumeOffset(s, m.offset[s])]]
        /\ UNCHANGED <<proc, taken, ring, drain, reap, listed, current, load>>
    BY <1>1, Zenon DEF ClientAttached
  <1>3. j \in Sessions /\ client.offset \in Offsets
    BY <1>1, ClientFacts, Zenon
  <1>4. SessionOK(x, ring, client.offset) /\ x.offset \in Offsets /\ q \in Seq(Replies)
    BY <1>1, <1>3, HandlerFacts, Zenon DEF SessionType
  <1>5. AttachFlow(x, client.offset, ring)
    BY <1>1, <1>2, Zenon DEF StreamInv, View
  <1>6. /\ m.type = "attached"
        /\ \A s \in Streams : client.offset[s] <= m.offset[s] /\ (ring[s].lossless => m.offset[s] = client.offset[s])
        /\ Flow(x, Tail(q), m.offset, ring)
    BY <1>1, <1>2, <1>5, Zenon DEF AttachFlow
  <1>7. PICK o : o = m.offset
    BY Zenon
  <1>8. o \in Offsets
    BY <1>1, <1>2, <1>4, <1>6, <1>7, AttachedType, Zenon
  <1>9. \A s \in Streams : client.offset[s] \in Nat /\ o[s] \in Nat /\ client.offset[s] <= o[s]
    BY <1>3, <1>6, <1>7, <1>8, Zenon DEF Offsets
  <1>10. [s \in Streams |-> ResumeOffset(s, m.offset[s])] = o
    <2>1. \A s \in Streams : ResumeOffset(s, m.offset[s]) = o[s]
      BY <1>7, <1>9 DEF ResumeOffset, MaxOf
    <2>2. QED
      BY <1>8, <2>1, Zenon DEF Offsets
  <1>11. client' = [TakeQueue EXCEPT !.pc = "flush", !.cur = j, !.offset = o]
    BY <1>2, <1>10, Zenon
  <1>12. PICK d : d = TakeQueue
    BY Zenon
  <1>13. /\ DOMAIN d = ClientFields /\ d.new = client.new /\ d.got = client.got /\ d.result = client.result
    BY <1>12, ClientFacts, Zenon DEF TakeQueue, ClientFields
  <1>14. /\ DOMAIN client' = ClientFields /\ client'.pc = "flush" /\ client'.cur = j /\ client'.new = client.new
         /\ client'.offset = o /\ client'.got = client.got /\ client'.result = client.result
    <2>1. client' = [d EXCEPT !.pc = "flush", !.cur = j, !.offset = o]
      BY <1>11, <1>12, Zenon
    <2>2. QED
      BY <1>13, <2>1, Zenon DEF ClientFields
  <1>15. ClientOK(client', ring)
    <2>1. ClientOK(client, ring) /\ DOMAIN client.got = Streams
      BY ClientFacts, Zenon DEF ClientOK
    <2>2. ASSUME NEW s \in Streams
          PROVE  Given(client.got[s], o[s], ring[s].lossless)
      <3>1. Given(client.got[s], client.offset[s], ring[s].lossless)
        BY <2>1, Zenon DEF ClientOK
      <3>2. client.offset[s] \in Nat /\ o[s] \in Nat /\ client.offset[s] <= o[s] /\ (ring[s].lossless => o[s] = client.offset[s])
        BY <1>6, <1>7, <1>9, Zenon
      <3>3. QED
        BY <3>1, <3>2, GivenSkip, Zenon
    <2>3. client.result # "exit"
      BY <1>2, <2>1, Zenon DEF ClientOK
    <2>4. client.result \in {"none", "exit", "gone"} /\ client.new \in Sessions
      BY <2>1, Zenon DEF ClientOK
    <2>5. QED
      BY <1>3, <1>8, <1>14, <2>1, <2>2, <2>3, <2>4, Zenon DEF ClientOK
  <1>16. /\ DOMAIN sess' = Sessions /\ \A i \in Sessions : SessionOK(sess'[i], ring, o)
         /\ sess'[j].down = Tail(q) /\ sess'[j].offset = x.offset /\ sess'[j].state = x.state /\ sess'[j].link = x.link
    <2>1. sess[j].down # <<>> /\ \A s \in Streams : client.offset[s] <= o[s]
      BY <1>1, <1>2, <1>9, Zenon
    <2>2. PICK ss : ss = sess'
      BY Zenon
    <2>3. /\ DOMAIN ss = Sessions /\ \A i \in Sessions : SessionOK(ss[i], ring, o)
          /\ ss[j].down = Tail(sess[j].down) /\ ss[j].offset = sess[j].offset /\ ss[j].state = sess[j].state
          /\ ss[j].link = sess[j].link
      BY <1>2, <1>3, <1>8, <2>1, <2>2, Popped, Zenon
    <2>4. QED
      BY <1>1, <2>2, <2>3, Zenon
  <1>17. Flow(sess'[j], sess'[j].down, o, ring)
    BY <1>6, <1>7, <1>16, FlowFrame, Zenon
  <1>18. View(client', sess', ring)
    BY <1>14, <1>17, Zenon DEF View
  <1>19. \A s \in Streams : o[s] <= EndOffset(ring[s])
    <2>1. ASSUME NEW s \in Streams
          PROVE  o[s] <= EndOffset(ring[s])
      <3>1. o[s] <= x.offset[s]
        BY <1>4, <1>6, <1>7, <1>8, FlowBounds, Zenon
      <3>2. x.offset[s] <= EndOffset(ring[s])
        BY <1>4, Zenon DEF SessionOK, Pumped
      <3>3. o[s] \in Nat /\ x.offset[s] \in Nat /\ EndOffset(ring[s]) \in Nat
        BY <1>4, <1>8, SuppliedFacts, Zenon DEF Offsets
      <3>4. QED
        BY <3>1, <3>2, <3>3
    <2>2. QED
      BY <2>1, Zenon
  <1>20. QED
    BY <1>2, <1>9, <1>14, <1>15, <1>16, <1>18, <1>19, ClientReads, Zenon

-----------------------------------------------------------------------------
(* The theorems.                                                             *)

\* A ring that nothing was written to.
LEMMA NewRing ==
  ASSUME NEW l \in BOOLEAN, NEW r, r = NewOutputRing(l)
  PROVE  RingOK(r) /\ r.start = 0 /\ r.released = 0 /\ EndOffset(r) = 0 /\ r.lossless = l /\ ~r.closed
  <1>1. r = [buf |-> <<>>, start |-> 0, lossless |-> l, released |-> 0, closed |-> FALSE]
    BY Zenon DEF NewOutputRing
  <1>2. r \in RingType /\ r.start = 0 /\ r.released = 0 /\ r.lossless = l /\ r.buf = <<>> /\ r.closed = FALSE
    BY <1>1 DEF RingType
  <1>3. EndOffset(r) = 0 /\ Len(r.buf) = 0
    BY <1>2 DEF EndOffset
  <1>4. Bytes(0, 0) = <<>>
    BY DEF Bytes
  <1>5. QED
    BY <1>2, <1>3, <1>4, CapacityAssumption DEF RingOK

\* RunCommand's start: the command, its rings and its first handler.
LEMMA InitInv ==
  ASSUME Init
  PROVE  StreamInv
  <1>1. PICK l \in BOOLEAN : ring = [s \in Streams |-> NewOutputRing(l)]
    BY StreamAssumption, Zenon DEF Init
  <1>2. Zero \in Offsets /\ \A s \in Streams : Zero[s] = 0
    BY Zenon DEF Zero, Offsets
  <1>3. \A s \in Streams : /\ RingOK(ring[s]) /\ ring[s].start = 0 /\ ring[s].released = 0 /\ EndOffset(ring[s]) = 0
    BY <1>1, NewRing, Zenon
  <1>4. 1 \in Sessions /\ 1 \in 0 .. MaxSessions
    BY StreamAssumption DEF Sessions
  <1>5. load \in LoadType
    BY StreamAssumption, Zenon DEF Init, LoadType, Offsets
  <1>6. proc \in ProcType /\ proc.wrote = Zero
    <2>1. proc \in [wrote : {Zero}, running : {TRUE}, stdin : {TRUE}, signals : {0}]
      BY Zenon DEF Init
    <2>2. proc.wrote = Zero /\ proc.running = TRUE /\ proc.stdin = TRUE /\ proc.signals = 0
      BY <2>1
    <2>3. proc = [wrote |-> proc.wrote, running |-> proc.running, stdin |-> proc.stdin, signals |-> proc.signals]
      BY <2>1, Zenon
    <2>4. proc.running \in BOOLEAN /\ proc.stdin \in BOOLEAN /\ proc.signals \in Nat /\ proc.wrote \in Offsets
      <3>1. TRUE \in BOOLEAN /\ 0 \in Nat
        BY Zenon
      <3>2. QED
        BY <1>2, <2>2, <3>1, Zenon
    <2>5. QED
      BY <2>2, <2>3, <2>4, Zenon DEF ProcType
  <1>7. drain \in [Streams -> [pc : {"read", "write", "done"}, rest : Seq(Nat)]] /\ \A s \in Streams : drain[s].pc = "read"
    BY DEF Init
  <1>8. Typed
    BY <1>2, <1>4, <1>5, <1>6, <1>7, Zenon DEF Init, Typed
  <1>9. /\ client.offset = Zero /\ client.pc = "recv" /\ client.cur = 1 /\ client.new = 1 /\ client.result = "none"
        /\ client.got = [s \in Streams |-> <<>>] /\ DOMAIN client = ClientFields
    BY Zenon DEF Init, ClientFields
  <1>10. Supply
    <2>1. ASSUME NEW s \in Streams
          PROVE  Supplied(ring[s], drain[s], taken[s], proc.wrote[s], load.len[s], client.offset[s])
      <3>1. /\ taken[s] = 0 /\ proc.wrote[s] = 0 /\ client.offset[s] = 0 /\ load.len[s] \in Nat /\ drain[s].pc = "read"
        BY <1>2, <1>5, <1>6, <1>7, <1>9, Zenon DEF Init, LoadType, Offsets
      <3>2. QED
        BY <1>3, <3>1 DEF Supplied
    <2>2. QED
      BY <2>1, Zenon DEF Supply
  <1>11. <<>> \in Seq(Replies) /\ Len(<<>>) <= Window
    BY StreamAssumption
  <1>12. PICK y : y = Serving(Zero, <<>>)
    BY Zenon
  <1>13. /\ SessionOK(y, ring, Zero) /\ y.offset = Zero /\ y.down = <<>>
    <2>1. \A s \in Streams : Zero[s] <= EndOffset(ring[s])
      BY <1>2, <1>3
    <2>2. SessionOK(y, ring, Zero)
      BY <1>2, <1>11, <1>12, <2>1, ServingOK
    <2>3. y.offset = Zero /\ y.down = <<>>
      BY <1>12, ServingFrom, Zenon
    <2>4. QED
      BY <2>2, <2>3, Zenon
  <1>14. SessionOK(Unused, ring, Zero)
    <2>1. PICK x : x = Unused
      BY Zenon
    <2>2. /\ x \in SessionType /\ x.offset = Zero /\ x.up = <<>> /\ x.down = <<>> /\ \A s \in Streams : x.pump[s] = "tail"
      <3>1. <<>> \in Seq(Requests) /\ [s \in Streams |-> "tail"] \in [Streams -> {"tail", "eof", "stopped"}]
        OBVIOUS
      <3>2. QED
        BY <1>2, <1>11, <2>1, <3>1, Zenon DEF Unused, SessionType
    <2>3. Pumped(x, ring)
      BY <1>2, <1>3, <2>2 DEF Pumped
    <2>4. AcksOK(x, Zero)
      BY <2>2 DEF AcksOK
    <2>5. QED
      BY <1>11, <2>1, <2>2, <2>3, <2>4, Zenon DEF SessionOK
  <1>15. sess[1] = y /\ \A j \in Sessions : sess[j] = y \/ sess[j] = Unused
    BY <1>4, <1>12, Zenon DEF Init
  <1>16. \A j \in Sessions : SessionOK(sess[j], ring, client.offset)
    BY <1>9, <1>13, <1>14, <1>15, Zenon
  <1>17. ClientOK(client, ring)
    <2>1. ASSUME NEW s \in Streams
          PROVE  Given(client.got[s], client.offset[s], ring[s].lossless)
      <3>1. client.got[s] = <<>> /\ client.offset[s] = 0
        BY <1>2, <1>9, Zenon
      <3>2. Bytes(0, 0) = <<>>
        BY DEF Bytes
      <3>3. QED
        BY <3>1, <3>2 DEF Given
    <2>2. DOMAIN client.got = Streams
      BY <1>9, Zenon
    <2>3. QED
      BY <1>2, <1>4, <1>9, <2>1, <2>2, Zenon DEF ClientOK
  <1>18. View(client, sess, ring)
    <2>1. Flow(y, <<>>, Zero, ring)
      BY <1>2, <1>13, FlowStart, Zenon
    <2>2. Flow(sess[client.cur], sess[client.cur].down, client.offset, ring)
      BY <1>9, <1>13, <1>15, <2>1, Zenon
    <2>3. QED
      BY <1>9, <2>2, Zenon DEF View
  <1>19. QED
    BY <1>8, <1>10, <1>16, <1>17, <1>18, Zenon DEF StreamInv

\* Nothing changes.
LEMMA StutterInv ==
  ASSUME StreamInv, UNCHANGED vars
  PROVE  StreamInv'
  <1>1. Ahead(ring, ring') /\ UNCHANGED <<sess, client>>
    BY AheadSame, Zenon DEF StreamInv, vars
  <1>2. Typed' /\ Supply'
    BY Zenon DEF StreamInv, Typed, Supply, vars
  <1>3. QED
    BY <1>1, <1>2, CommandStep, Zenon

\* What holds of a command's output, its handlers, its messages in flight and
\* its consumer, over every break and re-attachment.
THEOREM StreamInvariant == Spec => []StreamInv
  <1>1. Init => StreamInv
    BY InitInv, Zenon
  <1>2. StreamInv /\ [Next]_vars => StreamInv'
    <2>1. SUFFICES ASSUME StreamInv, [Next]_vars PROVE StreamInv'
      BY Zenon
    <2>2. CASE CommandNext
      BY <2>1, <2>2, ProcWriteInv, QuietCommandInv, DrainReadInv, DrainEOFInv, DrainWriteInv, ReapInv, Zenon DEF CommandNext
    <2>3. CASE HandlerNext
      BY <2>1, <2>3, SrvRecvInv, SrvStopInv, ServeEndInv, ServeExitInv, PumpSendInv, PumpEndInv, Zenon DEF HandlerNext
    <2>4. CASE ClientNext
      BY <2>1, <2>4, ClientDataInv, ClientExitInv, ClientErrorInv, ReattachInv, ClientAttachedInv, ClientFlushInv, CloseSendInv, Zenon
         DEF ClientNext
    <2>5. CASE Environment
      BY <2>1, <2>5, BreakInv, StdinEOFInv, SignalInv, Zenon DEF Environment
    <2>6. CASE UNCHANGED vars
      BY <2>1, <2>6, StutterInv, Zenon
    <2>7. QED
      BY <2>1, <2>2, <2>3, <2>4, <2>5, <2>6, Zenon DEF Next
  <1>3. QED
    BY <1>1, <1>2, PTL DEF Spec

\* However often the stream of RunCommand breaks and is taken up again, the
\* consumer is given all of every stream of a kill-policy command, in order and
\* once; a command whose ring evicts may only leave gaps; nothing is released to
\* the writer before the consumer has it; and the exit status comes last.
THEOREM StreamDelivers == Spec => []Delivery
  <1>1. StreamInv => Delivery
    <2>1. SUFFICES ASSUME StreamInv PROVE Delivery
      BY Zenon
    <2>2. ASSUME NEW s \in Streams
          PROVE  /\ EndOffset(ring[s]) \in 0 .. load.len[s] /\ taken[s] \in 0 .. load.len[s]
                 /\ proc.wrote[s] \in 0 .. load.len[s] /\ client.offset[s] \in 0 .. load.len[s]
                 /\ ring[s].released \in 0 .. load.len[s] /\ ring[s].released <= client.offset[s]
                 /\ drain[s].pc \in {"read", "write", "done"}
      <3>1. /\ ring[s].released <= client.offset[s] /\ client.offset[s] <= EndOffset(ring[s])
            /\ drain[s].pc \in {"read", "write", "done"}
        BY <2>1, SuppliedFacts, Zenon DEF Supplied
      <3>2. QED
        BY <2>1, <3>1, SuppliedFacts
    <2>3. ASSUME NEW j \in Sessions
          PROVE  /\ sess[j].state \in {"unused", "serving", "removing", "ended"}
                 /\ Len(sess[j].down) <= Window
                 /\ IsOffset(sess[j].offset)
      <3>1. SessionOK(sess[j], ring, client.offset) /\ sess[j] \in SessionType
        BY <2>1, HandlerFacts, Zenon
      <3>2. sess[j].state \in {"unused", "serving", "removing", "ended"} /\ Len(sess[j].down) <= Window /\ sess[j].offset \in Offsets
        BY <3>1, Zenon DEF SessionOK, SessionType
      <3>3. ASSUME NEW s \in Streams
            PROVE  sess[j].offset[s] \in 0 .. load.len[s]
        <4>1. sess[j].offset[s] <= EndOffset(ring[s])
          BY <3>1, Zenon DEF SessionOK, Pumped
        <4>2. sess[j].offset[s] \in Nat
          BY <3>2, Zenon DEF Offsets
        <4>3. load.len[s] \in Nat
          BY <2>1, SuppliedFacts, Zenon
        <4>4. QED
          BY <2>2, <4>1, <4>2, <4>3
      <3>4. QED
        BY <3>2, <3>3, Zenon DEF IsOffset, Offsets
    <2>4. Typed /\ ClientOK(client, ring)
      BY <2>1, Zenon DEF StreamInv
    <2>5. IsOffset(proc.wrote) /\ IsOffset(taken) /\ IsOffset(client.offset)
      <3>1. proc.wrote \in Offsets /\ taken \in Offsets /\ client.offset \in Offsets
        BY <2>4, Zenon DEF Typed, ProcType, ClientOK
      <3>2. QED
        BY <2>2, <3>1, Zenon DEF IsOffset, Offsets
    <2>6. /\ proc.running \in BOOLEAN /\ proc.stdin \in BOOLEAN /\ proc.signals \in Nat
          /\ load.breaks \in Nat /\ load.signals \in Nat
      BY <2>4, Zenon DEF Typed, ProcType, LoadType
    <2>7. TypeOK
      <3>1. {proc.running, proc.stdin} \subseteq BOOLEAN
        BY <2>6, Zenon
      <3>2. QED
        BY <2>2, <2>3, <2>4, <2>5, <2>6, <3>1, Zenon DEF TypeOK, Typed, ClientOK
    <2>8. InOrderExactlyOnce
      <3>1. \A s \in Streams : Given(client.got[s], client.offset[s], ring[s].lossless)
        BY <2>4, Zenon DEF ClientOK
      <3>2. QED
        BY <3>1, Zenon DEF InOrderExactlyOnce, Given, Lossless
    <2>9. ReleasedOnlyConsumed
      BY <2>2, Zenon DEF ReleasedOnlyConsumed
    <2>10. ExitAfterOutput
      BY <2>4, Zenon DEF ExitAfterOutput, ClientOK
    <2>11. QED
      BY <2>7, <2>8, <2>9, <2>10, Zenon DEF Delivery
  <1>2. QED
    BY <1>1, StreamInvariant, PTL
===============================================================================
