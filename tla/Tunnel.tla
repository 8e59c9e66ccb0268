------------------------------- MODULE Tunnel -------------------------------
(***************************************************************************)
(* Requests tunnelled through one gateway pod to the agents connected to   *)
(* it (internal/cluster-gateway/server.go, dispatchTunnelRequest and the   *)
(* reader of each agent websocket; internal/cluster-agent/agent.go, the    *)
(* agent's side).  An agent has one websocket at a time; after a GOAWAY or *)
(* an error it stops reading, closes the socket and connects again.        *)
(***************************************************************************)
EXTENDS Naturals, FiniteSets

CONSTANTS
  Conns,    \* bound: agent connections over a pod's life; an id is never reused
  Reqs,     \* bound: requests, each stamped with a fresh RequestID
  Agents,
  AgentOf,  \* the agent behind each connection
  None      \* no connection

ASSUME AgentOfAssumption == AgentOf \in [Conns -> Agents]
ASSUME NoneAssumption == None \notin Conns

VARIABLES
  \* the gateway's end of each connection
  registered,  \* connections the ConnectionManager hands out
  sock,        \* "new", "up", "dead" (broken, not closed by the gateway), "closed"
  reader,      \* handleConnection's goroutine
  hand,        \* replies it has taken out of the pending map and not yet sent
  answers,     \* responses on the way to it
  \* dispatchTunnelRequest, one goroutine per request
  call,        \* how far it has come
  on,          \* the connection it picked
  pending,     \* the keys of pendingHTTPRequests
  reply,       \* what its replyChan holds
  result,      \* what it returned
  \* the agents
  phase,       \* "away", "serving" or "leaving" (no longer reading, a.conn still set)
  current,     \* a.conn
  wire,        \* requests on the way to the agent at a connection
  working,     \* requests an agent is running
  runs         \* history: how often a request was run

gatewayVars == <<registered, sock, reader, hand, answers>>
callVars == <<call, on, pending, reply, result>>
agentVars == <<phase, current, wire, working, runs>>
vars == <<gatewayVars, callVars, agentVars>>

(***************************************************************************)
(* Every variable holds what its counterpart can hold, and no request has  *)
(* been run twice (AgentConnection, pendingRequest, Agent).                *)
(***************************************************************************)
TypeOK ==
  /\ registered \subseteq Conns
  /\ sock \in [Conns -> {"new", "up", "dead", "closed"}]
  /\ reader \in [Conns -> {"idle", "reading", "handing", "failing", "releasing", "gone"}]
  /\ hand \in [Conns -> SUBSET (Reqs \X {"response", "nil"})]
  /\ answers \in [Conns -> SUBSET Reqs]
  /\ call \in [Reqs -> {"idle", "picked", "added", "waiting", "returned"}]
  /\ on \in [Reqs -> Conns \cup {None}]
  /\ pending \subseteq Reqs
  /\ reply \in [Reqs -> {"empty", "response", "nil"}]
  /\ result \in [Reqs -> {"none", "response", "noagent", "notsent", "closed", "timeout"}]
  /\ phase \in [Agents -> {"away", "serving", "leaving"}]
  /\ current \in [Agents -> Conns \cup {None}]
  /\ wire \in [Conns -> SUBSET Reqs]
  /\ working \in [Agents -> SUBSET Reqs]
  /\ runs \in [Reqs -> {0, 1}]

Init ==
  /\ registered = {}
  /\ sock = [c \in Conns |-> "new"]
  /\ reader = [c \in Conns |-> "idle"]
  /\ hand = [c \in Conns |-> {}]
  /\ answers = [c \in Conns |-> {}]
  /\ call = [r \in Reqs |-> "idle"]
  /\ on = [r \in Reqs |-> None]
  /\ pending = {}
  /\ reply = [r \in Reqs |-> "empty"]
  /\ result = [r \in Reqs |-> "none"]
  /\ phase = [a \in Agents |-> "away"]
  /\ current = [a \in Agents |-> None]
  /\ wire = [c \in Conns |-> {}]
  /\ working = [a \in Agents |-> {}]
  /\ runs = [r \in Reqs |-> 0]

-----------------------------------------------------------------------------
\* Agents.

\* connect and Register: the gateway hands out the connection, its reader runs.
Connect(c) ==
  LET a == AgentOf[c]
  IN  /\ sock[c] = "new"
      /\ phase[a] = "away"
      /\ sock' = [sock EXCEPT ![c] = "up"]
      /\ registered' = registered \cup {c}
      /\ reader' = [reader EXCEPT ![c] = "reading"]
      /\ phase' = [phase EXCEPT ![a] = "serving"]
      /\ current' = [current EXCEPT ![a] = c]
      /\ UNCHANGED <<hand, answers, callVars, wire, working, runs>>

\* The agent reads a request and starts a goroutine that runs it.  Frames sent
\* before the connection broke can still be read.
AgentReads(a, r) ==
  LET c == current[a]
  IN  /\ phase[a] = "serving"
      /\ r \in wire[c]
      /\ wire' = [wire EXCEPT ![c] = @ \ {r}]
      /\ working' = [working EXCEPT ![a] = @ \cup {r}]
      /\ runs' = [runs EXCEPT ![r] = @ + 1]
      /\ UNCHANGED <<gatewayVars, callVars, phase, current>>

\* sendHTTPTunnelResponse writes to a.conn, which need not be the connection
\* the request came on, nor be there at all.
AgentResponds(a, r) ==
  LET c == current[a]
  IN  /\ r \in working[a]
      /\ working' = [working EXCEPT ![a] = @ \ {r}]
      /\ answers' = IF c # None /\ sock[c] = "up"
                      THEN [answers EXCEPT ![c] = @ \cup {r}] ELSE answers
      /\ UNCHANGED <<registered, sock, reader, hand, callVars, phase, current, wire, runs>>

\* handleConnection returns: a GOAWAY arrived or reading failed.
AgentStopsReading(a) ==
  /\ phase[a] = "serving"
  /\ phase' = [phase EXCEPT ![a] = "leaving"]
  /\ UNCHANGED <<gatewayVars, callVars, current, wire, working, runs>>

\* closeConnection, before dialing again: what was not read is lost.
AgentCloses(a) ==
  LET c == current[a]
  IN  /\ phase[a] = "leaving"
      /\ phase' = [phase EXCEPT ![a] = "away"]
      /\ current' = [current EXCEPT ![a] = None]
      /\ wire' = [wire EXCEPT ![c] = {}]
      /\ sock' = IF sock[c] = "up" THEN [sock EXCEPT ![c] = "dead"] ELSE sock
      /\ UNCHANGED <<registered, reader, hand, answers, callVars, working, runs>>

\* The network drops a connection; neither end has noticed yet.
Break(c) ==
  /\ sock[c] = "up"
  /\ sock' = [sock EXCEPT ![c] = "dead"]
  /\ UNCHANGED <<registered, reader, hand, answers, callVars, agentVars>>

-----------------------------------------------------------------------------
\* dispatchTunnelRequest.

\* GetForCR picks a registered connection, or there is none.
Pick(r) ==
  /\ call[r] = "idle"
  /\ \/ \E c \in registered :
          /\ on' = [on EXCEPT ![r] = c]
          /\ call' = [call EXCEPT ![r] = "picked"]
          /\ UNCHANGED result
     \/ /\ registered = {}
        /\ call' = [call EXCEPT ![r] = "returned"]
        /\ result' = [result EXCEPT ![r] = "noagent"]
        /\ UNCHANGED on
  /\ UNCHANGED <<gatewayVars, pending, reply, agentVars>>

AddPending(r) ==
  /\ call[r] = "picked"
  /\ call' = [call EXCEPT ![r] = "added"]
  /\ pending' = pending \cup {r}
  /\ UNCHANGED <<gatewayVars, on, reply, result, agentVars>>

SendGivesUp(r) ==
  /\ call[r] = "added"
  /\ wire' = IF sock[on[r]] = "up" THEN [wire EXCEPT ![on[r]] = @ \cup {r}] ELSE wire
  /\ \/ call' = [call EXCEPT ![r] = "waiting"] /\ UNCHANGED <<pending, result>>
     \/ /\ call' = [call EXCEPT ![r] = "returned"]
        /\ result' = [result EXCEPT ![r] = "notsent"]
        /\ pending' = pending \ {r}
  /\ UNCHANGED <<gatewayVars, on, reply, phase, current, working, runs>>

\* The write on a broken connection may be buffered and vanish; on a closed
\* one it fails, and the entry is removed.
Send(r) ==
  LET c == on[r]
  IN  /\ call[r] = "added"
      /\ \/ /\ sock[c] # "closed"
            /\ call' = [call EXCEPT ![r] = "waiting"]
            /\ wire' = IF sock[c] = "up" THEN [wire EXCEPT ![c] = @ \cup {r}] ELSE wire
            /\ UNCHANGED <<pending, result>>
         \/ /\ sock[c] # "up"
            /\ call' = [call EXCEPT ![r] = "returned"]
            /\ result' = [result EXCEPT ![r] = "notsent"]
            /\ pending' = pending \ {r}
            /\ UNCHANGED wire
      /\ UNCHANGED <<gatewayVars, on, reply, phase, current, working, runs>>

Return(r) ==
  /\ call[r] = "waiting"
  /\ reply[r] # "empty"
  /\ call' = [call EXCEPT ![r] = "returned"]
  /\ result' = [result EXCEPT ![r] = IF reply[r] = "nil" THEN "closed" ELSE "response"]
  /\ UNCHANGED <<gatewayVars, on, pending, reply, agentVars>>

TimeoutNoCleanup(r) ==
  /\ call[r] = "waiting"
  /\ call' = [call EXCEPT ![r] = "returned"]
  /\ result' = [result EXCEPT ![r] = "timeout"]
  /\ UNCHANGED <<gatewayVars, on, pending, reply, agentVars>>

Timeout(r) ==
  /\ call[r] = "waiting"
  /\ call' = [call EXCEPT ![r] = "returned"]
  /\ result' = [result EXCEPT ![r] = "timeout"]
  /\ pending' = pending \ {r}
  /\ UNCHANGED <<gatewayVars, on, reply, agentVars>>

-----------------------------------------------------------------------------
\* The reader of a connection.

ReceiveKeeps(c, r) ==
  /\ reader[c] = "reading"
  /\ r \in answers[c]
  /\ answers' = [answers EXCEPT ![c] = @ \ {r}]
  /\ IF r \in pending /\ on[r] = c
       THEN /\ hand' = [hand EXCEPT ![c] = {<<r, "response">>}]
            /\ reader' = [reader EXCEPT ![c] = "handing"]
       ELSE UNCHANGED <<hand, reader>>
  /\ UNCHANGED <<registered, sock, callVars, agentVars>>

\* handleHTTPTunnelResponse takes the entry only if this is the connection the
\* request was dispatched on; any other response is dropped.
Receive(c, r) ==
  /\ reader[c] = "reading"
  /\ r \in answers[c]
  /\ answers' = [answers EXCEPT ![c] = @ \ {r}]
  /\ IF r \in pending /\ on[r] = c
       THEN /\ pending' = pending \ {r}
            /\ hand' = [hand EXCEPT ![c] = {<<r, "response">>}]
            /\ reader' = [reader EXCEPT ![c] = "handing"]
       ELSE UNCHANGED <<pending, hand, reader>>
  /\ UNCHANGED <<registered, sock, call, on, reply, result, agentVars>>

\* The send to replyChan does not block: a full channel keeps what it has.
HandOver(c) ==
  /\ reader[c] \in {"handing", "releasing"}
  /\ \E x \in hand[c] :
       /\ hand' = [hand EXCEPT ![c] = @ \ {x}]
       /\ reply' = IF reply[x[1]] = "empty" THEN [reply EXCEPT ![x[1]] = x[2]] ELSE reply
  /\ reader' = IF reader[c] = "handing" THEN [reader EXCEPT ![c] = "reading"] ELSE reader
  /\ UNCHANGED <<registered, sock, answers, call, on, pending, result, agentVars>>

\* Reading fails: the connection is no longer up, or no pong came in time.
ReadError(c) ==
  /\ reader[c] = "reading"
  /\ reader' = [reader EXCEPT ![c] = "failing"]
  /\ answers' = [answers EXCEPT ![c] = {}]
  /\ UNCHANGED <<registered, sock, hand, callVars, agentVars>>

FailPendingSilently(c) ==
  LET orphaned == {r \in pending : on[r] = c}
  IN  /\ reader[c] = "failing"
      /\ pending' = pending \ orphaned
      /\ reader' = [reader EXCEPT ![c] = "releasing"]
      /\ UNCHANGED <<registered, sock, hand, answers, call, on, reply, result, agentVars>>

FailPending(c) ==
  LET orphaned == {r \in pending : on[r] = c}
  IN  /\ reader[c] = "failing"
      /\ pending' = pending \ orphaned
      /\ hand' = [hand EXCEPT ![c] = orphaned \X {"nil"}]
      /\ reader' = [reader EXCEPT ![c] = "releasing"]
      /\ UNCHANGED <<registered, sock, answers, call, on, reply, result, agentVars>>

\* The last deferred call: the connection is closed and no longer handed out.
Unregister(c) ==
  /\ reader[c] = "releasing"
  /\ hand[c] = {}
  /\ reader' = [reader EXCEPT ![c] = "gone"]
  /\ registered' = registered \ {c}
  /\ sock' = [sock EXCEPT ![c] = "closed"]
  /\ UNCHANGED <<hand, answers, callVars, agentVars>>

\* DisconnectAllForPlane: every connection is closed and forgotten at once.
\* Their readers will notice.
DisconnectAll ==
  /\ registered # {}
  /\ registered' = {}
  /\ sock' = [c \in Conns |-> IF c \in registered THEN "closed" ELSE sock[c]]
  /\ UNCHANGED <<reader, hand, answers, callVars, agentVars>>

-----------------------------------------------------------------------------
Call(r) == Pick(r) \/ AddPending(r) \/ Send(r) \/ Return(r)

Read(c) ==
  \/ \E r \in Reqs : Receive(c, r)
  \/ HandOver(c)
  \/ ReadError(c)
  \/ FailPending(c)
  \/ Unregister(c)

AgentStep(a) ==
  \/ \E r \in Reqs : AgentReads(a, r) \/ AgentResponds(a, r)
  \/ AgentStopsReading(a)
  \/ AgentCloses(a)

Next ==
  \/ \E r \in Reqs : Call(r) \/ Timeout(r)
  \/ \E c \in Conns : Connect(c) \/ Break(c) \/ Read(c)
  \/ \E a \in Agents : AgentStep(a)
  \/ DisconnectAll

Spec == Init /\ [][Next]_vars

\* Goroutines run, and a connection that is no longer up is noticed.  No
\* request has to time out, and agents owe nothing.
Fair ==
  /\ \A r \in Reqs : WF_vars(Call(r))
  /\ \A c \in Conns : /\ WF_vars(HandOver(c) \/ FailPending(c) \/ Unregister(c))
                      /\ WF_vars(ReadError(c) /\ sock[c] # "up")

FairSpec == Spec /\ Fair

-----------------------------------------------------------------------------
(***************************************************************************)
(* The pending map holds no entry whose caller is gone, and an entry in it *)
(* has not been answered: every way out of dispatchTunnelRequest, and      *)
(* every reader that takes an entry, leaves it clean                       *)
(* (dispatchTunnelRequest, handleHTTPTunnelResponse,                       *)
(* failPendingForConnection).                                              *)
(***************************************************************************)
PendingIsAwaited ==
  \A r \in pending : call[r] \in {"added", "waiting"} /\ reply[r] = "empty"

(***************************************************************************)
(* Whoever holds a reply for a caller is the only one who ever will, and   *)
(* the caller's channel of one is empty: the send that would drop it never *)
(* finds the channel full, even when the response and the end of the       *)
(* connection coincide (handleHTTPTunnelResponse,                          *)
(* failPendingForConnection).                                              *)
(***************************************************************************)
RepliesFit ==
  \A c, d \in Conns : \A x \in hand[c], y \in hand[d] :
    /\ reply[x[1]] = "empty" /\ x[1] \notin pending
    /\ x[1] = y[1] => c = d /\ x = y

(***************************************************************************)
(* A caller whose entry is in the map when its connection's reader fails   *)
(* returns without waiting for its timeout (failPendingForConnection).     *)
(***************************************************************************)
OrphansReturn ==
  \A r \in Reqs :
    (r \in pending /\ reader[on[r]] = "failing") ~> (call[r] = "returned")

\* What the callers of dispatchTunnelRequest may rely on.
Told(r) ==
  CASE result[r] = "none" -> "none"
    [] result[r] = "response" -> "response"
    [] result[r] \in {"noagent", "notsent"} -> "refused"
    [] OTHER -> "failed"

E == INSTANCE Exchange WITH result <- [r \in Reqs |-> Told(r)]

(***************************************************************************)
(* Dispatching through the pending map and the agents' websockets          *)
(* implements one exchange per request: an agent runs it at most once, a   *)
(* response comes from a run, and a caller that was told there is no agent *)
(* or that nothing was sent can send it elsewhere (dispatchTunnelRequest,  *)
(* handleConnection, the agent's handleHTTPTunnelRequest).                 *)
(***************************************************************************)
ImplementsExchange == E!Spec

-----------------------------------------------------------------------------
\* Why these hold: the strengthening that is inductive.

\* A goroutine that needs a connection has one.
ConnsThere ==
  /\ \A a \in Agents : phase[a] # "away" => current[a] \in Conns
  /\ \A r \in Reqs : call[r] \in {"picked", "added", "waiting"} => on[r] \in Conns
  /\ \A r \in Reqs : (result[r] = "none") = (call[r] # "returned")

\* Nothing has happened to what has not started.
NotYet ==
  /\ \A c \in Conns : sock[c] = "new" => reader[c] = "idle"
  /\ \A r \in Reqs : call[r] \in {"idle", "picked"} => reply[r] = "empty"

\* Only a reader that has just taken entries holds replies, each for a request
\* of its own connection that nobody else can still answer.
HandsClean ==
  \A c \in Conns :
    /\ reader[c] \notin {"handing", "releasing"} => hand[c] = {}
    /\ reader[c] = "handing" => \A x, y \in hand[c] : x = y
    /\ \A x \in hand[c] : /\ on[x[1]] = c
                          /\ x[1] \notin pending
                          /\ reply[x[1]] = "empty"
                          /\ call[x[1]] \in {"added", "waiting", "returned"}
    /\ \A x, y \in hand[c] : x[1] = y[1] => x = y

\* What is on the way to an agent has been sent once and not yet run; what an
\* agent, a response or a reply is about has been sent and run.
RunsOnce ==
  /\ \A r \in Reqs : runs[r] = 1 => /\ call[r] \in {"waiting", "returned"}
                                    /\ result[r] \notin {"noagent", "notsent"}
  /\ \A c \in Conns : \A r \in wire[c] :
       /\ runs[r] = 0
       /\ on[r] = c
       /\ call[r] \in {"waiting", "returned"}
       /\ result[r] \notin {"noagent", "notsent"}
  /\ \A r \in Reqs : (\/ \E a \in Agents : r \in working[a]
                      \/ \E c \in Conns : r \in answers[c] \/ <<r, "response">> \in hand[c]
                      \/ reply[r] = "response"
                      \/ result[r] = "response") => runs[r] = 1

(***************************************************************************)
(* The facts about who may answer and who may still run a request from     *)
(* which the properties above follow (dispatchTunnelRequest, the readers,  *)
(* the agents).                                                            *)
(***************************************************************************)
TunnelInv == TypeOK /\ ConnsThere /\ NotYet /\ PendingIsAwaited /\ HandsClean /\ RunsOnce

-----------------------------------------------------------------------------
(***************************************************************************)
(* server.go:697-700: "once that connection dies the answer can never      *)
(* arrive: without this the caller would block for the full tunnel timeout *)
(* waiting for a reply that no longer has a sender."  Nobody waits for a   *)
(* reply on a connection whose reader is gone (failPendingForConnection,   *)
(* Unregister).                                                            *)
(***************************************************************************)
NobodyStranded ==
  \A r \in Reqs :
    ~(call[r] = "waiting" /\ reply[r] = "empty" /\ reader[on[r]] = "gone")
=============================================================================
