------------------------------- MODULE Stream -------------------------------
(***************************************************************************)
(* One streaming session through the tunnel: the gateway's handler         *)
(* (src/internal/cluster-gateway/exec.go, wirelogs.go), the connection     *)
(* between gateway and agent, and the agent's session with its stdin pipe  *)
(* (src/internal/cluster-agent/exec.go, hubble.go).  The client and the    *)
(* remote process (or flow stream) are the environment.                    *)
(***************************************************************************)
EXTENDS Naturals, Sequences

CONSTANTS Targets,    \* "k8s" (exec), "hubble" (wire logs), or both
          InChunks,   \* stdin chunks the client may send
          ChunkSize,  \* bytes per stdin chunk; Read asks for one byte
          OutChunks,  \* output chunks the process may produce
          StdinCap,   \* capacity of the stdin channel (64 in the code)
          OutCap,     \* capacity of the session's channel (256 in the code)
          MaxBreaks   \* how often the agent's connection may break

ASSUME TargetAssumption == Targets \subseteq {"k8s", "hubble"}
ASSUME SizeAssumption ==
  /\ InChunks \in Nat /\ OutChunks \in Nat /\ MaxBreaks \in Nat
  /\ ChunkSize \in Nat \ {0} /\ StdinCap \in Nat \ {0} /\ OutCap \in Nat \ {0}

VARIABLES
  handler,    \* the gateway's request handler
  reader,     \* the goroutine that relays the client's messages
  done,       \* session.done is closed
  fromAgent,  \* session.fromAgent
  client,     \* the stream the client asked for, what it sent and received
  writing,    \* the chunk the handler is writing to the client, if any
  link,       \* the agent's connection: its number, state and whose pod it is at
  toAgent,    \* messages on their way to the agent
  toGateway,  \* per connection to this pod: chunks on their way to the gateway
  session,    \* the agent's session
  pipe,       \* its stdin pipe
  process,    \* the remote process
  seen        \* history: what happened to the session

vars == <<handler, reader, done, fromAgent, client, writing, link, toAgent, toGateway,
          session, pipe, process, seen>>
gateway == <<handler, reader, done, fromAgent, writing>>
agent == <<session, pipe, process>>
wires == <<link, toAgent, toGateway>>

Bytes == 1..(InChunks * ChunkSize)
Chunk(i) == [k \in 1..ChunkSize |-> (i - 1) * ChunkSize + k]
Outputs == 1..OutChunks
Conns == 1..(MaxBreaks + 1)

Init1 == "init"     \* HTTPTunnelStreamInit
Eof == "eof"        \* a stdin frame without payload
Close == "close"    \* a chunk with IsClose
Ack == "ack"        \* the chunk that says the stream is active

ToAgent == {<<Init1, 0>>, <<Eof, 0>>, <<Close, 0>>} \cup ({"in"} \X (1..InChunks))
ToGateway == {<<Ack, 0>>, <<Close, 0>>} \cup ({"out"} \X Outputs)

Streams == [target : Targets, open : BOOLEAN, sent : 0..InChunks, eof : BOOLEAN,
            got : Seq(Outputs), end : {"none", "normal", "abrupt"}]
Pipes == [ch : Seq({Chunk(i) : i \in 1..InChunks}), buf : Seq(Bytes), closed : BOOLEAN]
Processes == [out : 0..OutChunks, mute : BOOLEAN, got : Seq(Bytes),
              read : {"check", "receive", "eof"}]
Links == [conn : Conns, state : {"up", "goaway", "broken"}, here : BOOLEAN]
Histories == [breaks : 0..MaxBreaks, overflow : BOOLEAN, pressure : BOOLEAN,
              via : Seq(Conns)]

\* Handlers, sessions and messages are in their states, and no channel exceeds
\* its capacity.
TypeOK ==
  /\ handler \in {"init", "waiting", "streaming", "ended"}
  /\ reader \in {"none", "reading", "ended"}
  /\ done \in BOOLEAN
  /\ fromAgent \in Seq(ToGateway) /\ Len(fromAgent) <= OutCap
  /\ client \in Streams
  /\ writing \in {<<>>} \cup {<<m>> : m \in ToGateway}
  /\ link \in Links
  /\ toAgent \in Seq(ToAgent) /\ toGateway \in [Conns -> Seq(ToGateway)]
  /\ session \in {"none", "starting", "active", "closed", "ended"}
  /\ pipe \in Pipes /\ Len(pipe.ch) <= StdinCap
  /\ process \in Processes
  /\ seen \in Histories

Init ==
  /\ handler = "init" /\ reader = "none" /\ done = FALSE /\ fromAgent = <<>> /\ writing = <<>>
  /\ \E t \in Targets :
       client = [target |-> t, open |-> TRUE, sent |-> 0, eof |-> FALSE, got |-> <<>>,
                 end |-> "none"]
  /\ link = [conn |-> 1, state |-> "up", here |-> TRUE]
  /\ toAgent = <<>> /\ toGateway = [c \in Conns |-> <<>>]
  /\ session = "none"
  /\ pipe = [ch |-> <<>>, buf |-> <<>>, closed |-> FALSE]
  /\ process = [out |-> 0, mute |-> FALSE, got |-> <<>>, read |-> "check"]
  /\ seen = [breaks |-> 0, overflow |-> FALSE, pressure |-> FALSE, via |-> <<>>]

-----------------------------------------------------------------------------
(* The connections.  The handler keeps the first one, which it selected; the *)
(* agent sends on whichever is current.  The gateway reads each connection   *)
(* in a goroutine of its own, to the end of what arrived, also after the     *)
(* agent has moved to another.                                               *)

\* SendRawMessage: the agent reads what is written until it stops reading; once
\* the connection broke the write fails or is lost.
GatewaySends(m) ==
  toAgent' = IF link.conn = 1 /\ link.state = "up" THEN Append(toAgent, m) ELSE toAgent
GatewaySendFails == link.conn # 1 \/ link.state = "broken"

\* sendStreamChunk: on the current connection, which still carries chunks after
\* the agent was told to go away; only at this pod do they reach the session.
AgentSends(m) ==
  toGateway' = IF link.here /\ link.state # "broken"
               THEN [toGateway EXCEPT ![link.conn] = Append(@, m)] ELSE toGateway
AgentSendFails == link.state = "broken"

\* The end of the current connection: of what is in flight the first messages
\* may still arrive.
Cut ==
  /\ link' = [link EXCEPT !.state = "broken"]
  /\ \E k \in 0..Len(toAgent) : toAgent' = SubSeq(toAgent, 1, k)
  /\ \E k \in 0..Len(toGateway[link.conn]) :
       toGateway' = [toGateway EXCEPT ![link.conn] = SubSeq(@, 1, k)]
  /\ UNCHANGED <<gateway, client, agent>>

LinkBreaks ==
  /\ link.state = "up" /\ seen.breaks < MaxBreaks
  /\ seen' = [seen EXCEPT !.breaks = @ + 1]
  /\ Cut

\* The agent is told to go away: it reads nothing more of this connection.
GoAway ==
  /\ link.state = "up" /\ seen.breaks < MaxBreaks
  /\ seen' = [seen EXCEPT !.breaks = @ + 1]
  /\ link' = [link EXCEPT !.state = "goaway"]
  /\ toAgent' = <<>>
  /\ UNCHANGED <<gateway, client, toGateway, agent>>

\* The agent's Start loop closes the connection it left, and dials again: it
\* reaches the same pod or another one.
CloseConnection ==
  /\ link.state = "goaway"
  /\ Cut /\ UNCHANGED seen

Reconnect ==
  /\ link.state = "broken"
  /\ \E here \in BOOLEAN : link' = [conn |-> link.conn + 1, state |-> "up", here |-> here]
  /\ toAgent' = <<>>
  /\ UNCHANGED <<gateway, client, toGateway, agent, seen>>

-----------------------------------------------------------------------------
(* The gateway. *)

\* The handler returns: the session is unregistered and the client's connection
\* closed, after a close message or without one.
HandlerEnds(how) ==
  /\ handler' = "ended"
  /\ client' = [client EXCEPT !.open = FALSE, !.end = IF client.open THEN how ELSE @]

\* The session is registered and the init message sent.
SendInit ==
  /\ handler = "init"
  /\ \/ handler' = "waiting" /\ GatewaySends(<<Init1, 0>>) /\ UNCHANGED client
     \/ GatewaySendFails /\ HandlerEnds("abrupt") /\ UNCHANGED toAgent
  /\ UNCHANGED <<reader, done, fromAgent, writing, link, toGateway, agent, seen>>

\* The payload of a chunk is written to the client.  After the client has left
\* the write fails, or succeeds and is lost; an exec's first chunk has a payload,
\* that of wire logs has none.
Deliver(m) ==
  client' = IF m[1] = "out" /\ client.open THEN [client EXCEPT !.got = Append(@, m[2])]
            ELSE client
WriteFails(m) == ~client.open /\ (m[1] = "out" \/ client.target = "k8s")

\* The handler takes the next chunk and starts to write it; a close that comes
\* first ends the request.
TakeChunk ==
  /\ handler \in {"waiting", "streaming"} /\ writing = <<>> /\ fromAgent # <<>>
  /\ fromAgent' = Tail(fromAgent)
  /\ IF handler = "waiting" /\ Head(fromAgent)[1] = Close
     THEN HandlerEnds("abrupt") /\ UNCHANGED writing
     ELSE writing' = <<Head(fromAgent)>> /\ UNCHANGED <<handler, client>>
  /\ UNCHANGED <<reader, done, wires, agent, seen>>

\* The write returns.  It has no deadline: while the client neither reads nor
\* leaves, it need not.  The first chunk starts the relay of the client's
\* messages, and a close chunk becomes a normal closure.
WriteChunk ==
  /\ writing # <<>> /\ writing' = <<>>
  /\ LET m == Head(writing) IN
       \/ m[1] = Close /\ HandlerEnds("normal") /\ UNCHANGED reader
       \/ m[1] # Close /\ WriteFails(m) /\ HandlerEnds("abrupt") /\ UNCHANGED reader
       \/ /\ m[1] # Close /\ Deliver(m)
          /\ handler' = "streaming"
          /\ reader' = IF handler = "waiting" THEN "reading" ELSE reader
  /\ UNCHANGED <<done, fromAgent, wires, agent, seen>>

\* No chunk within 30 seconds; the agent is not told.
StartTimeout ==
  /\ handler = "waiting" /\ writing = <<>>
  /\ HandlerEnds("abrupt")
  /\ UNCHANGED <<reader, done, fromAgent, writing, wires, agent, seen>>

\* Between two writes the handler sees session.done or, for wire logs, the end
\* of the client's request; select may prefer a chunk that is there as well.
SeesDone ==
  /\ handler \in {"waiting", "streaming"} /\ writing = <<>>
  /\ done \/ (client.target = "hubble" /\ ~client.open)
  /\ HandlerEnds("abrupt")
  /\ UNCHANGED <<reader, done, fromAgent, writing, wires, agent, seen>>

\* The reader goroutine forwards the client's next message: a stdin chunk or,
\* at any point, the empty frame that ends stdin.
RelayInput ==
  /\ client.target = "k8s"
  /\ reader = "reading" /\ client.open /\ ~client.eof
  /\ \/ /\ \/ /\ client.sent < InChunks
              /\ client' = [client EXCEPT !.sent = @ + 1]
              /\ GatewaySends(<<"in", client.sent + 1>>)
           \/ /\ client' = [client EXCEPT !.eof = TRUE]
              /\ GatewaySends(<<Eof, 0>>)
        /\ UNCHANGED <<reader, done>>
     \/ GatewaySendFails /\ reader' = "ended" /\ done' = TRUE /\ UNCHANGED <<client, toAgent>>
  /\ UNCHANGED <<handler, fromAgent, writing, link, toGateway, agent, seen>>

ReaderEndsSilently ==
  /\ reader = "reading" /\ ~client.open
  /\ reader' = "ended" /\ done' = TRUE
  /\ UNCHANGED <<handler, fromAgent, writing, client, link, toAgent, toGateway, agent, seen>>

\* The client's connection is closed, by either side: the agent is told.
ReaderEnds ==
  /\ reader = "reading" /\ ~client.open
  /\ reader' = "ended" /\ done' = TRUE
  /\ GatewaySends(<<Close, 0>>)
  /\ UNCHANGED <<handler, fromAgent, writing, client, link, toGateway, agent, seen>>

NextOn(c) == toGateway' = [toGateway EXCEPT ![c] = Tail(@)]

handleStreamChunkDrops(c) ==
  /\ toGateway[c] # <<>> /\ NextOn(c)
  /\ fromAgent' = IF handler # "ended" /\ Len(fromAgent) < OutCap
                  THEN Append(fromAgent, Head(toGateway[c])) ELSE fromAgent
  /\ UNCHANGED <<handler, reader, done, writing, client, link, toAgent, agent, seen>>

\* The read loop of connection c hands a chunk to its session, which it finds by
\* the request id.  It waits while the channel is full, and drops the chunk when
\* the session is unknown or done.
handleStreamChunk(c) ==
  /\ toGateway[c] # <<>> /\ NextOn(c)
  /\ \/ /\ handler # "ended" /\ Len(fromAgent) < OutCap
        /\ fromAgent' = Append(fromAgent, Head(toGateway[c]))
     \/ (handler = "ended" \/ done) /\ UNCHANGED fromAgent
  /\ UNCHANGED <<handler, reader, done, writing, client, link, toAgent, agent, seen>>

\* Five seconds with a full channel: the chunk is dropped and the session closed.
BackpressureTimeout(c) ==
  /\ toGateway[c] # <<>> /\ handler # "ended" /\ ~done /\ Len(fromAgent) >= OutCap
  /\ NextOn(c)
  /\ done' = TRUE
  /\ seen' = [seen EXCEPT !.pressure = TRUE]
  /\ UNCHANGED <<handler, reader, fromAgent, writing, client, link, toAgent, agent>>

-----------------------------------------------------------------------------
(* The agent. *)

\* stdinPipeReader.Write: to the channel, or to the buffer when it is full.
PipeWrite(i) ==
  IF pipe.closed
  THEN UNCHANGED <<pipe, seen>>
  ELSE IF Len(pipe.ch) < StdinCap
       THEN pipe' = [pipe EXCEPT !.ch = Append(@, Chunk(i))] /\ UNCHANGED seen
       ELSE /\ pipe' = [pipe EXCEPT !.buf = @ \o Chunk(i)]
            /\ seen' = [seen EXCEPT !.overflow = TRUE]

ClosedPipe == [pipe EXCEPT !.closed = TRUE]

\* The read loop starts a goroutine for an init message and routes a chunk to
\* the session, if it is registered; what arrived before a break is still read.
AgentReads ==
  /\ link.conn = 1 /\ link.state # "goaway" /\ toAgent # <<>>
  /\ toAgent' = Tail(toAgent)
  /\ LET m == Head(toAgent) IN
       CASE m[1] = Init1 -> session' = "starting" /\ UNCHANGED <<pipe, seen>>
         [] m[1] # Init1 /\ session # "active" -> UNCHANGED <<session, pipe, seen>>
         [] m[1] = "in" /\ session = "active" -> PipeWrite(m[2]) /\ UNCHANGED session
         [] m[1] = Eof /\ session = "active" -> pipe' = ClosedPipe /\ UNCHANGED <<session, seen>>
         [] m[1] = Close /\ session = "active" ->
              session' = "closed" /\ pipe' = ClosedPipe /\ UNCHANGED seen
  /\ UNCHANGED <<gateway, client, link, toGateway, process>>

\* The session is registered and the first chunk sent, or the stream cannot be
\* opened and a close chunk is sent.
StartSession ==
  /\ session = "starting"
  /\ \/ session' = "active" /\ AgentSends(<<Ack, 0>>) /\ UNCHANGED pipe
     \/ session' = "ended" /\ AgentSends(<<Close, 0>>) /\ pipe' = ClosedPipe
  /\ UNCHANGED <<gateway, client, link, toAgent, process, seen>>

EndSessionSilently(tell) ==
  session' = "ended" /\ pipe' = ClosedPipe /\ UNCHANGED toGateway

\* The goroutine returns: session.close and the removal from the map.  The close
\* chunk is sent unless the goroutine leaves because a send failed (hubble).
EndSession(tell) ==
  /\ session' = "ended" /\ pipe' = ClosedPipe
  /\ IF tell THEN AgentSends(<<Close, 0>>) ELSE UNCHANGED toGateway

\* The process produces output, which is sent as it comes.  A failed send ends a
\* flow stream; of a process it only ends the copying of its output, the rest of
\* which is discarded.
Produce ==
  /\ session = "active" /\ process.out < OutChunks
  /\ \/ /\ process' = [process EXCEPT !.out = @ + 1]
        /\ IF process.mute THEN UNCHANGED toGateway ELSE AgentSends(<<"out", process.out + 1>>)
        /\ seen' = [seen EXCEPT !.via = Append(@, link.conn)]
        /\ UNCHANGED <<session, pipe>>
     \/ /\ AgentSendFails /\ client.target = "k8s"
        /\ process' = [process EXCEPT !.mute = TRUE]
        /\ UNCHANGED <<session, pipe, toGateway, seen>>
     \/ /\ AgentSendFails /\ client.target = "hubble"
        /\ EndSession(FALSE) /\ UNCHANGED <<process, seen>>
  /\ UNCHANGED <<gateway, client, link, toAgent>>

\* The process exits, or the flow stream ends.
Exit ==
  /\ session = "active"
  /\ EndSession(TRUE)
  /\ UNCHANGED <<gateway, client, link, toAgent, process, seen>>

\* A cancelled session returns from its stream.
Cancelled ==
  /\ session = "closed"
  /\ EndSession(TRUE)
  /\ UNCHANGED <<gateway, client, link, toAgent, process, seen>>

\* stdinPipeReader.Read, up to the receive: buffered bytes first, then the end
\* of a closed pipe.
ReadBuffer ==
  /\ client.target = "k8s" /\ session \in {"active", "closed"} /\ process.read = "check"
  /\ process' = IF pipe.buf # <<>> THEN [process EXCEPT !.got = Append(@, Head(pipe.buf))]
                ELSE [process EXCEPT !.read = IF pipe.closed THEN "eof" ELSE "receive"]
  /\ pipe' = [pipe EXCEPT !.buf = IF @ # <<>> THEN Tail(@) ELSE @]
  /\ UNCHANGED <<gateway, client, wires, session, seen>>

ReceiveForgets ==
  /\ process.read = "receive" /\ session \in {"active", "closed"}
  /\ \/ /\ pipe.ch # <<>>
        /\ process' = [process EXCEPT !.read = "check", !.got = Append(@, Head(pipe.ch)[1])]
        /\ pipe' = [pipe EXCEPT !.ch = Tail(@)]
     \/ /\ pipe.ch = <<>> /\ pipe.closed
        /\ process' = [process EXCEPT !.read = "eof"]
        /\ UNCHANGED pipe
  /\ UNCHANGED <<gateway, client, wires, session, seen>>

\* The receive: one byte of the chunk is returned and the rest is appended to
\* the buffer; a closed and empty channel ends stdin.
Receive ==
  /\ process.read = "receive" /\ session \in {"active", "closed"}
  /\ \/ /\ pipe.ch # <<>>
        /\ process' = [process EXCEPT !.read = "check", !.got = Append(@, Head(pipe.ch)[1])]
        /\ pipe' = [pipe EXCEPT !.ch = Tail(@), !.buf = @ \o Tail(Head(pipe.ch))]
     \/ /\ pipe.ch = <<>> /\ pipe.closed
        /\ process' = [process EXCEPT !.read = "eof"]
        /\ UNCHANGED pipe
  /\ UNCHANGED <<gateway, client, wires, session, seen>>

-----------------------------------------------------------------------------

\* The client goes away.
ClientLeaves ==
  /\ client.open /\ handler # "init"
  /\ client' = [client EXCEPT !.open = FALSE]
  /\ UNCHANGED <<gateway, wires, agent, seen>>

ReadLoop(c) == handleStreamChunk(c) \/ BackpressureTimeout(c)

Gateway ==
  \/ SendInit \/ TakeChunk \/ WriteChunk \/ StartTimeout \/ SeesDone
  \/ ReaderEnds \/ (\E c \in Conns : ReadLoop(c))

Agent == AgentReads \/ StartSession \/ Cancelled \/ ReadBuffer \/ Receive

Wire == LinkBreaks \/ GoAway \/ CloseConnection \/ Reconnect

Next == Gateway \/ Agent \/ Wire \/ RelayInput \/ Produce \/ Exit \/ ClientLeaves

Spec == Init /\ [][Next]_vars

\* Goroutines that can run do, timers fire, and a write to a client that left
\* returns; the client, the process and the network owe nothing.
Fairness ==
  /\ WF_vars(SendInit) /\ WF_vars(TakeChunk) /\ WF_vars(~client.open /\ WriteChunk)
  /\ WF_vars(StartTimeout) /\ WF_vars(SeesDone) /\ WF_vars(ReaderEnds)
  /\ \A c \in Conns : WF_vars(ReadLoop(c))
  /\ WF_vars(AgentReads) /\ WF_vars(StartSession) /\ WF_vars(Cancelled)
  /\ WF_vars(ReadBuffer) /\ WF_vars(Receive)
  /\ WF_vars(CloseConnection) /\ WF_vars(Reconnect)

FairSpec == Spec /\ Fairness

-----------------------------------------------------------------------------
(* Properties. *)

WithoutHoles(s) == \A i \in DOMAIN s : s[i] = i

\* Chunks i and j of the output were sent on the same connection.
Together(i, j) == seen.via[i] = seen.via[j]

\* The output reaches the client in the order it was produced, connection by
\* connection, and no chunk twice: after a reconnect to the same pod the old
\* connection's reader and the new one's feed the same session, so only the
\* chunks sent on one connection keep their order.  There are no holes as long
\* as the connection held and no chunk was dropped for back-pressure
\* (handleStreamChunk, handleExec).
OutputInOrder ==
  /\ \A i, j \in DOMAIN client.got :
       i < j => /\ client.got[i] # client.got[j]
                /\ Together(client.got[i], client.got[j]) => client.got[i] < client.got[j]
  /\ seen.breaks = 0 /\ ~seen.pressure => WithoutHoles(client.got)

\* A normal closure tells the client that it has everything the process wrote,
\* as long as the connection held and no chunk was dropped for back-pressure
\* (handleExec, handleHTTPTunnelStreamInit).
NormalCloseIsComplete ==
  client.end = "normal" /\ seen.breaks = 0 /\ ~seen.pressure =>
    Len(client.got) = process.out

\* What the process reads is what the client sent, in order, as long as the
\* stdin channel never overflowed (stdinPipeReader).
StdinInOrder == ~seen.overflow => WithoutHoles(process.got)

\* Once the stream was up and the connection holds, a client that leaves takes
\* the agent's session down with it (ReaderEnds, routeStreamChunk).
ClientTakesSessionDown ==
  [](reader # "none" /\ ~client.open => <>(session = "ended" \/ seen.breaks > 0))

\* A session that ended, on a connection that held, ends the gateway's handler
\* and with it the client's request, provided that no write to the client is
\* stuck for ever: the write has no deadline, so a client that stays without
\* reading keeps its request (sendStreamClose, handleExec).
SessionEndsRequest ==
  []<>(writing = <<>>) =>
    [](session = "ended" => <>(handler = "ended" \/ seen.breaks > 0))

-----------------------------------------------------------------------------
(* Why OutputInOrder, NormalCloseIsComplete and StdinInOrder hold. *)

\* Chunks the session holds, and with them those on their way on connection c:
\* the next one for the client is first.
Held == writing \o fromAgent
Line(c) == Held \o toGateway[c]

\* The agent is on its first connection until that breaks, no later one has
\* carried anything yet, and the output is recorded with its connection.
LinkFits ==
  /\ link.conn = IF link.state = "up" THEN seen.breaks + 1 ELSE seen.breaks
  /\ link.conn = 1 => link.here
  /\ \A c \in Conns : c > link.conn => toGateway[c] = <<>>
  /\ process.mute => seen.breaks > 0
  /\ Len(seen.via) = process.out

\* A session starts once, and until it is active nothing flows.
StartsOnce ==
  /\ handler = "init" => session = "none" /\ toAgent = <<>>
  /\ handler \in {"init", "waiting"} => client.got = <<>>
  /\ session \in {"none", "starting"} =>
       /\ writing = <<>> /\ fromAgent = <<>> /\ \A c \in Conns : toGateway[c] = <<>>
       /\ process.out = 0 /\ process.got = <<>>
       /\ handler # "streaming" /\ reader = "none" /\ client.sent = 0 /\ pipe.ch = <<>> /\ pipe.buf = <<>>
  /\ session = "none" => toAgent \in {<<>>, <<<<Init1, 0>>>>}
  /\ session = "starting" => toAgent = <<>>
  /\ session # "none" => \A i \in DOMAIN toAgent : toAgent[i][1] # Init1
  /\ client.end # "none" => handler = "ended"
  /\ handler = "ended" => ~client.open
  /\ writing # <<>> =>
       handler = "streaming" \/ (handler = "waiting" /\ Head(writing)[1] # Close)

\* Of the output sent on connection c, what the client has and what is in the
\* line is in the order of its numbers.
OfConn(c, via, m) == m[1] = "out" /\ via[m[2]] = c

Chained(got, line, via, c) ==
  /\ \A i, j \in DOMAIN got :
       i < j /\ via[got[i]] = c /\ via[got[j]] = c => got[i] < got[j]
  /\ \A i \in DOMAIN line : OfConn(c, via, line[i]) =>
       \A j \in DOMAIN got : via[got[j]] = c => got[j] < line[i][2]
  /\ \A i, j \in DOMAIN line :
       i < j /\ OfConn(c, via, line[i]) /\ OfConn(c, via, line[j]) => line[i][2] < line[j][2]

\* All output anywhere was produced, and a connection carries its own.
Produced(line, via) ==
  \A i \in DOMAIN line : line[i][1] = "out" => line[i][2] <= Len(via)
Carries(line, via, c) ==
  \A i \in DOMAIN line : line[i][1] = "out" => line[i][2] <= Len(via) /\ via[line[i][2]] = c

\* The agent's messages are numbered as they are sent: the ack is 0, the first
\* output 1.  The client waits for message Pos.
Msg(n) == IF n = 0 THEN <<Ack, 0>> ELSE <<"out", n>>
Pos == IF handler = "streaming" THEN Len(client.got) + 1 ELSE 0
Numbered(line, n, pos) == \A i \in 1..n : line[i] = Msg(pos + i - 1)

\* All that was sent and has not been delivered is on its way.
OnTheWay(line, pos, out, s) ==
  /\ s \in {"active", "closed"} =>
       Numbered(line, Len(line), pos) /\ pos + Len(line) = out + 1
  /\ s = "ended" =>
       /\ line # <<>> /\ line[Len(line)] = <<Close, 0>>
       /\ Numbered(line, Len(line) - 1, pos)
       /\ pos + Len(line) = out + 2 \/ (pos + Len(line) = 1 /\ out = 0)

Unbroken == seen.breaks = 0 /\ ~seen.pressure

OrderInv ==
  /\ \A i \in DOMAIN client.got : client.got[i] <= Len(seen.via)
  /\ Produced(Held, seen.via)
  /\ \A c \in Conns : Carries(toGateway[c], seen.via, c)
  /\ \A c \in Conns : Chained(client.got, Line(c), seen.via, c)

WholeInv ==
  Unbroken =>
    /\ done => ~client.open
    /\ WithoutHoles(client.got)
    /\ client.open => OnTheWay(Line(1), Pos, process.out, session)
    /\ client.end = "normal" => session = "ended" /\ Len(client.got) = process.out

\* The stdin chunks after the first n are on their way to the agent, and with
\* them, on the first connection, all that the client sent.
SentAfter(n) ==
  session = "active" /\ ~pipe.closed =>
    /\ \A i \in DOMAIN toAgent : toAgent[i][1] = "in" => toAgent[i][2] = n + i
    /\ link.conn = 1 /\ link.state = "up" /\ (\A i \in DOMAIN toAgent : toAgent[i][1] = "in") =>
         client.sent = n + Len(toAgent)

\* c chunks have left the stdin channel: their bytes are read or buffered, and
\* the following chunks are in the channel.
ReadFrom(c) ==
  /\ Len(process.got) + Len(pipe.buf) = c * ChunkSize
  /\ WithoutHoles(process.got)
  /\ \A i \in DOMAIN pipe.buf : pipe.buf[i] = Len(process.got) + i
  /\ \A i \in DOMAIN pipe.ch : pipe.ch[i] = Chunk(c + i)
  /\ process.read = "receive" => pipe.buf = <<>>

\* The end of stdin and the close are sent after the client is done.
SignalsSaid ==
  \A i \in DOMAIN toAgent :
    /\ toAgent[i][1] = Eof => client.eof
    /\ toAgent[i][1] = Close => ~client.open

StdinInv ==
  /\ SignalsSaid
  /\ ~seen.overflow => \E c \in 0..InChunks : ReadFrom(c) /\ SentAfter(c + Len(pipe.ch))

StreamInv == TypeOK /\ LinkFits /\ StartsOnce /\ OrderInv /\ WholeInv /\ StdinInv
=============================================================================
