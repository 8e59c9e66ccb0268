--------------------------- MODULE DeliveryProofs ---------------------------
(***************************************************************************)
(* Proofs about the two components that deliver on somebody's behalf: the  *)
(* gateway's Tunnel, which carries requests to the agents and replies back *)
(* to their callers, and the EventForwarder, which carries changes of      *)
(* resources to their consumers.  Each has one lemma per action, and the   *)
(* theorems that rest on them.                                             *)
(***************************************************************************)
EXTENDS Tunnel, EventForwarder, TLAPS

-----------------------------------------------------------------------------
\* The tunnel.

\* Most leaves are first-order; those that are not cite SMT.
USE Zenon

(* A fresh connection finds no reader, no reply and no request (connect, Register). *)
LEMMA ConnectInv ==
  ASSUME TunnelInv, NEW c \in Conns, Connect(c)
  PROVE  TunnelInv'
<1>1. TypeOK'
  <2>1. AgentOf[c] \in Agents
    BY AgentOfAssumption
  <2>2. /\ registered' \subseteq Conns
        /\ sock' \in [Conns -> {"new", "up", "dead", "closed"}]
        /\ reader' \in [Conns -> {"idle", "reading", "handing", "failing", "releasing", "gone"}]
    BY <2>1 DEF TunnelInv, TypeOK, Connect
  <2>3. /\ phase' \in [Agents -> {"away", "serving", "leaving"}]
        /\ current' \in [Agents -> Conns \cup {None}]
    BY <2>1 DEF TunnelInv, TypeOK, Connect
  <2>4. QED
    BY <2>2, <2>3 DEF TunnelInv, TypeOK, Connect, callVars
<1>2. ConnsThere'
  BY DEF TunnelInv, TypeOK, ConnsThere, Connect, callVars
<1>3. NotYet' /\ PendingIsAwaited'
  BY SMT DEF TunnelInv, TypeOK, NotYet, PendingIsAwaited, HandsClean, Connect, callVars
<1>4. HandsClean'
  BY SMT DEF TunnelInv, TypeOK, HandsClean, NotYet, PendingIsAwaited, ConnsThere, Connect,
         callVars
<1>5. RunsOnce'
  BY SMT DEF TunnelInv, TypeOK, RunsOnce, ConnsThere, Connect, callVars
<1>6. QED
  BY <1>1, <1>2, <1>3, <1>4, <1>5 DEF TunnelInv

(* A request that an agent reads is on the wire of one connection only, and is
   run for the first time (the agent's handleConnection). *)
LEMMA AgentReadsInv ==
  ASSUME TunnelInv, NEW a \in Agents, NEW r \in Reqs, AgentReads(a, r)
  PROVE  TunnelInv'
<1>1. TypeOK'
  BY SMT DEF TunnelInv, TypeOK, ConnsThere, RunsOnce, AgentReads, gatewayVars, callVars
<1>2. ConnsThere'
  BY DEF TunnelInv, TypeOK, ConnsThere, AgentReads, gatewayVars, callVars
<1>3. NotYet' /\ PendingIsAwaited'
  BY DEF TunnelInv, TypeOK, NotYet, PendingIsAwaited, HandsClean, AgentReads,
         gatewayVars, callVars
<1>4. HandsClean'
  BY SMT DEF TunnelInv, TypeOK, HandsClean, NotYet, PendingIsAwaited, ConnsThere,
         AgentReads, gatewayVars, callVars
<1>5. RunsOnce'
  BY SMT DEF TunnelInv, TypeOK, RunsOnce, ConnsThere, AgentReads, gatewayVars, callVars
<1>6. QED
  BY <1>1, <1>2, <1>3, <1>4, <1>5 DEF TunnelInv

(* Only a request that was run is responded to (sendHTTPTunnelResponse). *)
LEMMA AgentRespondsInv ==
  ASSUME TunnelInv, NEW a \in Agents, NEW r \in Reqs, AgentResponds(a, r)
  PROVE  TunnelInv'
<1>1. TypeOK'
  BY SMT DEF TunnelInv, TypeOK, ConnsThere, RunsOnce, AgentResponds, callVars
<1>2. ConnsThere'
  BY DEF TunnelInv, TypeOK, ConnsThere, AgentResponds, callVars
<1>3. NotYet' /\ PendingIsAwaited'
  BY DEF TunnelInv, TypeOK, NotYet, PendingIsAwaited, HandsClean, AgentResponds,
         callVars
<1>4. HandsClean'
  BY SMT DEF TunnelInv, TypeOK, HandsClean, NotYet, PendingIsAwaited, ConnsThere,
         AgentResponds, callVars
<1>5. RunsOnce'
  BY SMT DEF TunnelInv, TypeOK, RunsOnce, ConnsThere, AgentResponds, callVars
<1>6. QED
  BY <1>1, <1>2, <1>3, <1>4, <1>5 DEF TunnelInv

(* Leaving a connection changes nothing else (the agent's handleConnection). *)
LEMMA AgentStopsReadingInv ==
  ASSUME TunnelInv, NEW a \in Agents, AgentStopsReading(a)
  PROVE  TunnelInv'
<1>1. TypeOK'
  BY DEF TunnelInv, TypeOK, ConnsThere, RunsOnce, AgentStopsReading, gatewayVars,
         callVars
<1>2. ConnsThere'
  BY SMT DEF TunnelInv, TypeOK, ConnsThere, AgentStopsReading, gatewayVars, callVars
<1>3. NotYet' /\ PendingIsAwaited'
  BY DEF TunnelInv, TypeOK, NotYet, PendingIsAwaited, HandsClean, AgentStopsReading,
         gatewayVars, callVars
<1>4. HandsClean'
  BY SMT DEF TunnelInv, TypeOK, HandsClean, NotYet, PendingIsAwaited, ConnsThere,
         AgentStopsReading, gatewayVars, callVars
<1>5. RunsOnce'
  BY SMT DEF TunnelInv, TypeOK, RunsOnce, ConnsThere, AgentStopsReading, gatewayVars,
         callVars
<1>6. QED
  BY <1>1, <1>2, <1>3, <1>4, <1>5 DEF TunnelInv

(* Closing loses what was not read (closeConnection). *)
LEMMA AgentClosesInv ==
  ASSUME TunnelInv, NEW a \in Agents, AgentCloses(a)
  PROVE  TunnelInv'
<1>1. TypeOK'
  BY DEF TunnelInv, TypeOK, ConnsThere, RunsOnce, AgentCloses, callVars
<1>2. ConnsThere'
  BY DEF TunnelInv, TypeOK, ConnsThere, AgentCloses, callVars
<1>3. NotYet' /\ PendingIsAwaited'
  BY SMT DEF TunnelInv, TypeOK, NotYet, PendingIsAwaited, HandsClean, AgentCloses, callVars
<1>4. HandsClean'
  BY SMT DEF TunnelInv, TypeOK, HandsClean, NotYet, PendingIsAwaited, ConnsThere,
         AgentCloses, callVars
<1>5. RunsOnce'
  BY SMT DEF TunnelInv, TypeOK, RunsOnce, ConnsThere, AgentCloses, callVars
<1>6. QED
  BY <1>1, <1>2, <1>3, <1>4, <1>5 DEF TunnelInv

(* A broken connection has changed nothing else yet. *)
LEMMA BreakInv ==
  ASSUME TunnelInv, NEW c \in Conns, Break(c)
  PROVE  TunnelInv'
<1>1. TypeOK'
  BY DEF TunnelInv, TypeOK, ConnsThere, RunsOnce, Break, callVars, agentVars
<1>2. ConnsThere'
  BY DEF TunnelInv, TypeOK, ConnsThere, Break, callVars, agentVars
<1>3. NotYet' /\ PendingIsAwaited'
  BY SMT DEF TunnelInv, TypeOK, NotYet, PendingIsAwaited, HandsClean, Break, callVars,
         agentVars
<1>4. HandsClean'
  BY SMT DEF TunnelInv, TypeOK, HandsClean, NotYet, PendingIsAwaited, ConnsThere, Break,
         callVars, agentVars
<1>5. RunsOnce'
  BY SMT DEF TunnelInv, TypeOK, RunsOnce, ConnsThere, Break, callVars, agentVars
<1>6. QED
  BY <1>1, <1>2, <1>3, <1>4, <1>5 DEF TunnelInv

(* A request that is picking its connection is nowhere else (dispatchTunnelRequest). *)
LEMMA PickInv ==
  ASSUME TunnelInv, NEW r \in Reqs, Pick(r)
  PROVE  TunnelInv'
<1>1. TypeOK'
  <2>1. /\ on' \in [Reqs -> Conns \cup {None}]
        /\ call' \in [Reqs -> {"idle", "picked", "added", "waiting", "returned"}]
        /\ result' \in [Reqs -> {"none", "response", "noagent", "notsent", "closed", "timeout"}]
    BY SMT DEF TunnelInv, TypeOK, Pick
  <2>2. QED
    BY <2>1 DEF TunnelInv, TypeOK, Pick, gatewayVars, agentVars
<1>2. ConnsThere'
  BY SMTT(20) DEF TunnelInv, TypeOK, ConnsThere, Pick, gatewayVars, agentVars
<1>3. NotYet' /\ PendingIsAwaited'
  BY SMT DEF TunnelInv, TypeOK, NotYet, PendingIsAwaited, HandsClean, Pick, gatewayVars,
         agentVars
<1>4. HandsClean'
  BY SMTT(20) DEF TunnelInv, TypeOK, HandsClean, NotYet, PendingIsAwaited, ConnsThere, Pick,
         gatewayVars, agentVars
<1>5. RunsOnce'
  <2>1. /\ \A q \in Reqs \ {r} : /\ call'[q] = call[q]
                                 /\ result'[q] = result[q]
                                 /\ on'[q] = on[q]
        /\ call[r] = "idle" /\ result[r] = "none" /\ result'[r] \in {"none", "noagent"}
        /\ UNCHANGED <<gatewayVars, reply, agentVars>>
    BY SMT DEF TunnelInv, TypeOK, ConnsThere, Pick
  <2>2. runs[r] = 0 /\ \A d \in Conns : r \notin wire[d]
    BY SMT, <2>1 DEF TunnelInv, TypeOK, RunsOnce
  <2>3. \A d \in Conns : wire[d] \subseteq Reqs
    BY DEF TunnelInv, TypeOK
  <2>4. QED
    BY SMT, <2>1, <2>2, <2>3 DEF TunnelInv, TypeOK, RunsOnce, gatewayVars, agentVars
<1>6. QED
  BY <1>1, <1>2, <1>3, <1>4, <1>5 DEF TunnelInv

(* A request that enters the pending map has not been answered
   (dispatchTunnelRequest). *)
LEMMA AddPendingInv ==
  ASSUME TunnelInv, NEW r \in Reqs, AddPending(r)
  PROVE  TunnelInv'
<1>1. TypeOK'
  BY SMT DEF TunnelInv, TypeOK, ConnsThere, RunsOnce, AddPending, gatewayVars, agentVars
<1>2. ConnsThere'
  BY SMT DEF TunnelInv, TypeOK, ConnsThere, AddPending, gatewayVars, agentVars
<1>3. NotYet' /\ PendingIsAwaited'
  BY SMT DEF TunnelInv, TypeOK, NotYet, PendingIsAwaited, HandsClean, AddPending,
         gatewayVars, agentVars
<1>4. HandsClean'
  BY SMT DEF TunnelInv, TypeOK, HandsClean, NotYet, PendingIsAwaited, ConnsThere,
         AddPending, gatewayVars, agentVars
<1>5. RunsOnce'
  BY SMT DEF TunnelInv, TypeOK, RunsOnce, ConnsThere, AddPending, gatewayVars, agentVars
<1>6. QED
  BY <1>1, <1>2, <1>3, <1>4, <1>5 DEF TunnelInv

(* A request is written to its own connection before it has run, and one that
   was not sent leaves the map (dispatchTunnelRequest). *)
LEMMA SendInv ==
  ASSUME TunnelInv, NEW r \in Reqs, Send(r)
  PROVE  TunnelInv'
<1>1. TypeOK'
  <2>1. on[r] \in Conns
    BY DEF TunnelInv, ConnsThere, Send
  <2>2. /\ call' \in [Reqs -> {"idle", "picked", "added", "waiting", "returned"}]
        /\ result' \in [Reqs -> {"none", "response", "noagent", "notsent", "closed", "timeout"}]
        /\ pending' \subseteq Reqs
    BY SMT DEF TunnelInv, TypeOK, Send
  <2>3. wire' \in [Conns -> SUBSET Reqs]
    BY SMT, <2>1 DEF TunnelInv, TypeOK, Send
  <2>4. QED
    BY <2>2, <2>3 DEF TunnelInv, TypeOK, Send, gatewayVars
<1>2. ConnsThere'
  <2>1. \A q \in Reqs \ {r} : call'[q] = call[q] /\ result'[q] = result[q]
    BY SMT DEF TunnelInv, TypeOK, Send
  <2>2. \/ call'[r] = "waiting" /\ result'[r] = result[r]
        \/ call'[r] = "returned" /\ result'[r] = "notsent"
    BY SMT DEF TunnelInv, TypeOK, Send
  <2>3. call[r] = "added" /\ UNCHANGED <<on, phase, current>>
    BY DEF Send
  <2>4. QED
    BY <2>1, <2>2, <2>3 DEF TunnelInv, ConnsThere
<1>3. NotYet' /\ PendingIsAwaited'
  BY SMT DEF TunnelInv, TypeOK, NotYet, PendingIsAwaited, HandsClean, Send, gatewayVars
<1>4. HandsClean'
  BY SMTT(20) DEF TunnelInv, TypeOK, HandsClean, NotYet, PendingIsAwaited, ConnsThere, Send,
         gatewayVars
<1>5. RunsOnce'
  BY SMTT(20) DEF TunnelInv, TypeOK, RunsOnce, ConnsThere, Send, gatewayVars
<1>6. QED
  BY <1>1, <1>2, <1>3, <1>4, <1>5 DEF TunnelInv

(* A caller takes its reply (dispatchTunnelRequest). *)
LEMMA ReturnInv ==
  ASSUME TunnelInv, NEW r \in Reqs, Return(r)
  PROVE  TunnelInv'
<1>1. TypeOK'
  BY DEF TunnelInv, TypeOK, ConnsThere, RunsOnce, Return, gatewayVars, agentVars
<1>2. ConnsThere'
  BY SMT DEF TunnelInv, TypeOK, ConnsThere, Return, gatewayVars, agentVars
<1>3. NotYet' /\ PendingIsAwaited'
  BY SMT DEF TunnelInv, TypeOK, NotYet, PendingIsAwaited, HandsClean, Return, gatewayVars,
         agentVars
<1>4. HandsClean'
  BY SMT DEF TunnelInv, TypeOK, HandsClean, NotYet, PendingIsAwaited, ConnsThere, Return,
         gatewayVars, agentVars
<1>5. RunsOnce'
  BY SMT DEF TunnelInv, TypeOK, RunsOnce, ConnsThere, Return, gatewayVars, agentVars
<1>6. QED
  BY <1>1, <1>2, <1>3, <1>4, <1>5 DEF TunnelInv

(* A caller that gives up takes its entry out of the map (dispatchTunnelRequest). *)
LEMMA TimeoutInv ==
  ASSUME TunnelInv, NEW r \in Reqs, Timeout(r)
  PROVE  TunnelInv'
<1>1. TypeOK'
  BY DEF TunnelInv, TypeOK, ConnsThere, RunsOnce, Timeout, gatewayVars, agentVars
<1>2. ConnsThere'
  BY SMT DEF TunnelInv, TypeOK, ConnsThere, Timeout, gatewayVars, agentVars
<1>3. NotYet' /\ PendingIsAwaited'
  BY SMT DEF TunnelInv, TypeOK, NotYet, PendingIsAwaited, HandsClean, Timeout, gatewayVars,
         agentVars
<1>4. HandsClean'
  BY SMT DEF TunnelInv, TypeOK, HandsClean, NotYet, PendingIsAwaited, ConnsThere, Timeout,
         gatewayVars, agentVars
<1>5. RunsOnce'
  BY SMT DEF TunnelInv, TypeOK, RunsOnce, ConnsThere, Timeout, gatewayVars, agentVars
<1>6. QED
  BY <1>1, <1>2, <1>3, <1>4, <1>5 DEF TunnelInv

(* The reader that takes an entry becomes the only one to answer it
   (handleHTTPTunnelResponse). *)
LEMMA ReceiveInv ==
  ASSUME TunnelInv, NEW c \in Conns, NEW r \in Reqs, Receive(c, r)
  PROVE  TunnelInv'
<1>1. TypeOK'
  <2>1. {<<r, "response">>} \in SUBSET (Reqs \X {"response", "nil"})
    BY SMT
  <2>2. hand' = hand \/ hand' = [hand EXCEPT ![c] = {<<r, "response">>}]
    BY DEF Receive
  <2>3. hand' \in [Conns -> SUBSET (Reqs \X {"response", "nil"})]
    BY SMT, <2>1, <2>2 DEF TunnelInv, TypeOK
  <2>4. /\ pending' \subseteq Reqs
        /\ answers' \in [Conns -> SUBSET Reqs]
        /\ reader' \in [Conns -> {"idle", "reading", "handing", "failing", "releasing", "gone"}]
    BY SMT DEF TunnelInv, TypeOK, Receive
  <2>5. QED
    BY <2>3, <2>4 DEF TunnelInv, TypeOK, Receive, agentVars
<1>2. ConnsThere'
  BY DEF TunnelInv, TypeOK, ConnsThere, Receive, agentVars
<1>3. NotYet' /\ PendingIsAwaited'
  BY SMT DEF TunnelInv, TypeOK, NotYet, PendingIsAwaited, HandsClean, Receive, agentVars
<1>4. HandsClean'
  <2>1. CASE UNCHANGED <<pending, hand, reader>>
    BY SMT, <2>1 DEF TunnelInv, HandsClean, Receive
  <2>2. CASE /\ r \in pending /\ on[r] = c
             /\ pending' = pending \ {r}
             /\ hand' = [hand EXCEPT ![c] = {<<r, "response">>}]
             /\ reader' = [reader EXCEPT ![c] = "handing"]
    <3>1. UNCHANGED <<on, call, reply>>
      BY DEF Receive
    <3>2. hand'[c] = {<<r, "response">>} /\ reader'[c] = "handing"
      BY <2>2 DEF TunnelInv, TypeOK
    <3>3. \A d \in Conns \ {c} : hand'[d] = hand[d] /\ reader'[d] = reader[d]
      BY <2>2 DEF TunnelInv, TypeOK
    <3>4. reply[r] = "empty" /\ call[r] \in {"added", "waiting", "returned"}
      BY <2>2 DEF TunnelInv, PendingIsAwaited
    <3>5. \A x \in hand'[c] : x[1] = r
      BY SMT, <3>2
    <3>6. \A x, y \in hand'[c] : x = y
      BY <3>2
    <3>7. QED
      BY SMT, <2>2, <3>1, <3>2, <3>3, <3>4, <3>5, <3>6 DEF TunnelInv, HandsClean
  <2>3. QED
    BY <2>1, <2>2 DEF Receive
<1>5. RunsOnce'
  BY SMT DEF TunnelInv, TypeOK, RunsOnce, ConnsThere, Receive, agentVars
<1>6. QED
  BY <1>1, <1>2, <1>3, <1>4, <1>5 DEF TunnelInv

(* A reply goes to the one caller it is for (handleHTTPTunnelResponse,
   failPendingForConnection). *)
LEMMA HandOverInv ==
  ASSUME TunnelInv, NEW c \in Conns, HandOver(c)
  PROVE  TunnelInv'
<1>1. TypeOK'
  BY SMT DEF TunnelInv, TypeOK, ConnsThere, RunsOnce, HandOver, agentVars
<1>2. ConnsThere'
  BY DEF TunnelInv, TypeOK, ConnsThere, HandOver, agentVars
<1>3. NotYet' /\ PendingIsAwaited'
  BY SMT DEF TunnelInv, TypeOK, NotYet, PendingIsAwaited, HandsClean, HandOver, agentVars
<1>4. HandsClean'
  <2>1. PICK x \in hand[c] :
         /\ hand' = [hand EXCEPT ![c] = @ \ {x}]
         /\ reply' = IF reply[x[1]] = "empty" THEN [reply EXCEPT ![x[1]] = x[2]] ELSE reply
    BY DEF HandOver
  <2>2. UNCHANGED <<on, pending, call>>
    BY DEF HandOver
  <2>3. \A d \in Conns : hand'[d] \subseteq hand[d] /\ (d # c => hand'[d] = hand[d])
    BY <2>1 DEF TunnelInv, TypeOK
  <2>4. \A d \in Conns : \A y \in hand'[d] : y[1] # x[1]
    BY SMT, <2>1, <2>3 DEF TunnelInv, TypeOK, HandsClean
  <2>5. \A r \in Reqs : r # x[1] => reply'[r] = reply[r]
    BY <2>1 DEF TunnelInv, TypeOK
  <2>6. \A d \in Conns : \A y \in hand'[d] : y[1] \in Reqs
    BY SMT, <2>3 DEF TunnelInv, TypeOK
  <2>7. \A d \in Conns : reader'[d] \notin {"handing", "releasing"} => hand'[d] = {}
    BY SMT, <2>1, <2>3 DEF TunnelInv, TypeOK, HandsClean, HandOver
  <2>8. \A d \in Conns : reader'[d] = "handing" => reader[d] = "handing"
    BY DEF TunnelInv, TypeOK, HandOver
  <2>9. QED
    BY SMT, <2>2, <2>3, <2>4, <2>5, <2>6, <2>7, <2>8 DEF TunnelInv, HandsClean
<1>5. RunsOnce'
  BY SMT DEF TunnelInv, TypeOK, RunsOnce, ConnsThere, HandOver, agentVars
<1>6. QED
  BY <1>1, <1>2, <1>3, <1>4, <1>5 DEF TunnelInv

(* A reader that fails holds no reply (handleConnection). *)
LEMMA ReadErrorInv ==
  ASSUME TunnelInv, NEW c \in Conns, ReadError(c)
  PROVE  TunnelInv'
<1>1. TypeOK'
  BY DEF TunnelInv, TypeOK, ConnsThere, RunsOnce, ReadError, callVars, agentVars
<1>2. ConnsThere'
  BY DEF TunnelInv, TypeOK, ConnsThere, ReadError, callVars, agentVars
<1>3. NotYet' /\ PendingIsAwaited'
  BY SMT DEF TunnelInv, TypeOK, NotYet, PendingIsAwaited, HandsClean, ReadError, callVars,
         agentVars
<1>4. HandsClean'
  BY SMT DEF TunnelInv, TypeOK, HandsClean, NotYet, PendingIsAwaited, ConnsThere,
         ReadError, callVars, agentVars
<1>5. RunsOnce'
  BY SMT DEF TunnelInv, TypeOK, RunsOnce, ConnsThere, ReadError, callVars, agentVars
<1>6. QED
  BY <1>1, <1>2, <1>3, <1>4, <1>5 DEF TunnelInv

(* The entries of a failed connection are taken by its reader and by nobody else
   (failPendingForConnection). *)
LEMMA FailPendingInv ==
  ASSUME TunnelInv, NEW c \in Conns, FailPending(c)
  PROVE  TunnelInv'
<1>1. TypeOK'
  BY DEF TunnelInv, TypeOK, ConnsThere, RunsOnce, FailPending, agentVars
<1>2. ConnsThere'
  BY DEF TunnelInv, TypeOK, ConnsThere, FailPending, agentVars
<1>3. NotYet' /\ PendingIsAwaited'
  BY SMTT(20) DEF TunnelInv, TypeOK, NotYet, PendingIsAwaited, HandsClean, FailPending, agentVars
<1>4. HandsClean'
  BY SMT DEF TunnelInv, TypeOK, HandsClean, NotYet, PendingIsAwaited, ConnsThere,
         FailPending, agentVars
<1>5. RunsOnce'
  <2>1. \A d \in Conns, r \in Reqs :
          <<r, "response">> \in hand'[d] => <<r, "response">> \in hand[d]
    BY DEF TunnelInv, TypeOK, FailPending
  <2>2. QED
    BY SMTT(20), <2>1 DEF TunnelInv, TypeOK, RunsOnce, FailPending, agentVars
<1>6. QED
  BY <1>1, <1>2, <1>3, <1>4, <1>5 DEF TunnelInv

(* A reader that is done holds no reply (Unregister). *)
LEMMA UnregisterInv ==
  ASSUME TunnelInv, NEW c \in Conns, Unregister(c)
  PROVE  TunnelInv'
<1>1. TypeOK'
  BY DEF TunnelInv, TypeOK, ConnsThere, RunsOnce, Unregister, callVars, agentVars
<1>2. ConnsThere'
  BY DEF TunnelInv, TypeOK, ConnsThere, Unregister, callVars, agentVars
<1>3. NotYet' /\ PendingIsAwaited'
  BY SMTT(20) DEF TunnelInv, TypeOK, NotYet, PendingIsAwaited, HandsClean, Unregister, callVars,
         agentVars
<1>4. HandsClean'
  BY SMT DEF TunnelInv, TypeOK, HandsClean, NotYet, PendingIsAwaited, ConnsThere,
         Unregister, callVars, agentVars
<1>5. RunsOnce'
  BY SMT DEF TunnelInv, TypeOK, RunsOnce, ConnsThere, Unregister, callVars, agentVars
<1>6. QED
  BY <1>1, <1>2, <1>3, <1>4, <1>5 DEF TunnelInv

(* Closing every connection leaves readers and callers where they are
   (DisconnectAllForPlane). *)
LEMMA DisconnectAllInv ==
  ASSUME TunnelInv, DisconnectAll
  PROVE  TunnelInv'
<1>1. TypeOK'
  BY SMT DEF TunnelInv, TypeOK, ConnsThere, RunsOnce, DisconnectAll, callVars, agentVars
<1>2. ConnsThere'
  BY DEF TunnelInv, TypeOK, ConnsThere, DisconnectAll, callVars, agentVars
<1>3. NotYet' /\ PendingIsAwaited'
  BY DEF TunnelInv, TypeOK, NotYet, PendingIsAwaited, HandsClean, DisconnectAll,
         callVars, agentVars
<1>4. HandsClean'
  BY SMT DEF TunnelInv, TypeOK, HandsClean, NotYet, PendingIsAwaited, ConnsThere,
         DisconnectAll, callVars, agentVars
<1>5. RunsOnce'
  BY SMT DEF TunnelInv, TypeOK, RunsOnce, ConnsThere, DisconnectAll, callVars, agentVars
<1>6. QED
  BY <1>1, <1>2, <1>3, <1>4, <1>5 DEF TunnelInv

-----------------------------------------------------------------------------
(* The facts hold at the start and through every step of the gateway, the
   callers, the agents and the network (server.go, agent.go). *)
THEOREM TunnelInvariant == Spec => []TunnelInv
<1>1. Init => TunnelInv
  BY SMT DEF Init, TunnelInv, TypeOK, ConnsThere, NotYet, PendingIsAwaited, HandsClean, RunsOnce
<1>2. TunnelInv /\ [Next]_vars => TunnelInv'
  <2> SUFFICES ASSUME TunnelInv, [Next]_vars
               PROVE  TunnelInv'
    OBVIOUS
  <2>1. CASE UNCHANGED vars
    <3>1. UNCHANGED <<gatewayVars, callVars, agentVars>>
      BY <2>1 DEF vars
    <3>2. TypeOK' /\ ConnsThere' /\ NotYet' /\ PendingIsAwaited'
      BY SMTT(20), <3>1 DEF gatewayVars, callVars, agentVars, TunnelInv, TypeOK, ConnsThere, NotYet,
         PendingIsAwaited
    <3>3. HandsClean'
      <4>1. UNCHANGED <<reader, hand, on, pending, reply, call>>
        BY <3>1 DEF gatewayVars, callVars, agentVars
      <4>2. QED
        BY SMT, <4>1 DEF TunnelInv, HandsClean
    <3>4. RunsOnce'
      BY SMT, <3>1 DEF gatewayVars, callVars, agentVars, TunnelInv, RunsOnce
    <3>5. QED
      BY <3>2, <3>3, <3>4 DEF TunnelInv
  <2>2. ASSUME NEW r \in Reqs, Call(r) \/ Timeout(r)
        PROVE  TunnelInv'
    BY <2>2, PickInv, AddPendingInv, SendInv, ReturnInv, TimeoutInv DEF Call
  <2>3. ASSUME NEW c \in Conns, Connect(c) \/ Break(c) \/ Read(c)
        PROVE  TunnelInv'
    BY <2>3, ConnectInv, BreakInv, ReceiveInv, HandOverInv, ReadErrorInv, FailPendingInv,
       UnregisterInv DEF Read
  <2>4. ASSUME NEW a \in Agents, AgentStep(a)
        PROVE  TunnelInv'
    BY <2>4, AgentReadsInv, AgentRespondsInv, AgentStopsReadingInv, AgentClosesInv
       DEF AgentStep
  <2>5. QED
    BY <2>1, <2>2, <2>3, <2>4, DisconnectAllInv DEF Next
<1>3. QED
  BY <1>1, <1>2, PTL DEF Spec

(* No request is ever run twice, and every variable keeps its type
   (dispatchTunnelRequest, the agent's handleConnection). *)
THEOREM TypeCorrect == Spec => []TypeOK
BY TunnelInvariant, PTL DEF TunnelInv

(* The pending map never holds an entry whose caller is gone or answered
   (dispatchTunnelRequest, failPendingForConnection). *)
THEOREM NoStaleEntries == Spec => []PendingIsAwaited
BY TunnelInvariant, PTL DEF TunnelInv

(* No reply is dropped on a full channel, however a response, the end of its
   connection and other requests coincide (handleHTTPTunnelResponse,
   failPendingForConnection). *)
THEOREM RepliesAlwaysFit == Spec => []RepliesFit
<1>1. TunnelInv => RepliesFit
  BY SMT DEF TunnelInv, TypeOK, HandsClean, RepliesFit
<1>2. QED
  BY <1>1, TunnelInvariant, PTL

-----------------------------------------------------------------------------
(* Every step is a step of the exchange, or changes neither how often a
   request was run nor what its caller was told (dispatchTunnelRequest, the
   agent's handleConnection). *)
LEMMA StepRefines ==
  ASSUME TunnelInv, [Next]_vars
  PROVE  [E!Next]_<<runs, [r \in Reqs |-> Told(r)]>>
<1> DEFINE told == [r \in Reqs |-> Told(r)]
<1>1. UNCHANGED <<runs, result>> => UNCHANGED <<runs, told>>
  BY DEF Told
<1>2. ASSUME NEW a \in Agents, NEW r \in Reqs, AgentReads(a, r)
      PROVE  E!Run(r)
  <2>1. current[a] \in Conns
    BY <1>2 DEF AgentReads, TunnelInv, ConnsThere
  <2>2. runs[r] = 0 /\ result[r] \notin {"noagent", "notsent"}
    <3>1. r \in wire[current[a]]
      BY <1>2 DEF AgentReads
    <3>2. QED
      BY <2>1, <3>1 DEF TunnelInv, RunsOnce
  <2>3. result[r] # "response"
    <3>1. result[r] = "response" => runs[r] = 1
      BY DEF TunnelInv, RunsOnce
    <3>2. QED
      BY SMT, <2>2, <3>1
  <2>4. runs' = [runs EXCEPT ![r] = 1]
    BY SMT, <1>2, <2>2 DEF AgentReads, TunnelInv, TypeOK
  <2>5. told[r] \in {"none", "failed"}
    BY <2>2, <2>3 DEF Told, TunnelInv, TypeOK
  <2>6. UNCHANGED told
    BY <1>2 DEF AgentReads, callVars, Told
  <2>7. QED
    BY <2>2, <2>4, <2>5, <2>6 DEF E!Run
<1>3. ASSUME NEW r \in Reqs, NEW what, result[r] = "none",
             result' = [result EXCEPT ![r] = what], UNCHANGED runs
      PROVE  /\ what = "response" => E!Tell(r, "response")
             /\ what \in {"noagent", "notsent"} => E!Tell(r, "refused")
             /\ what \in {"closed", "timeout"} => E!Tell(r, "failed")
  <2>1. told[r] = "none"
    BY <1>3 DEF Told
  <2>2. \A q \in Reqs : q # r => Told(q)' = Told(q)
    BY SMT, <1>3 DEF Told, TunnelInv, TypeOK
  <2>3. Told(r)' = CASE what = "none" -> "none"
                     [] what = "response" -> "response"
                     [] what \in {"noagent", "notsent"} -> "refused"
                     [] OTHER -> "failed"
    BY <1>3 DEF Told, TunnelInv, TypeOK
  <2>4. told' = [told EXCEPT ![r] = Told(r)']
    BY <2>2
  <2>5. QED
    BY <1>3, <2>1, <2>3, <2>4 DEF E!Tell
<1>4. ASSUME NEW r \in Reqs, Pick(r)
      PROVE  UNCHANGED <<runs, result>> \/ E!Refuse(r)
  <2>1. result[r] = "none" /\ runs[r] = 0
    BY SMT, <1>4 DEF Pick, TunnelInv, TypeOK, ConnsThere, RunsOnce
  <2>2. UNCHANGED runs
    BY <1>4 DEF Pick, agentVars
  <2>3. QED
    BY <1>3, <1>4, <2>1, <2>2 DEF Pick, E!Refuse
<1>5. ASSUME NEW r \in Reqs, Send(r)
      PROVE  UNCHANGED <<runs, result>> \/ E!Refuse(r)
  <2>1. result[r] = "none" /\ runs[r] = 0
    BY SMT, <1>5 DEF Send, TunnelInv, TypeOK, ConnsThere, RunsOnce
  <2>2. UNCHANGED runs
    BY <1>5 DEF Send
  <2>3. QED
    BY <1>3, <1>5, <2>1, <2>2 DEF Send, E!Refuse
<1>6. ASSUME NEW r \in Reqs, Return(r)
      PROVE  E!Respond(r) \/ E!Fail(r)
  <2>1. result[r] = "none" /\ reply[r] \in {"response", "nil"}
    BY <1>6 DEF Return, TunnelInv, TypeOK, ConnsThere
  <2>2. UNCHANGED runs
    BY <1>6 DEF Return, agentVars
  <2>3. CASE reply[r] = "nil"
    BY <1>3, <1>6, <2>1, <2>2, <2>3 DEF Return, E!Fail
  <2>4. CASE reply[r] = "response"
    <3>1. runs[r] = 1
      BY <2>4 DEF TunnelInv, RunsOnce
    <3>2. QED
      BY <1>3, <1>6, <2>1, <2>2, <2>4, <3>1 DEF Return, E!Respond
  <2>5. QED
    BY <2>1, <2>3, <2>4
<1>7. ASSUME NEW r \in Reqs, Timeout(r)
      PROVE  E!Fail(r)
  <2>1. result[r] = "none" /\ UNCHANGED runs
    BY <1>7 DEF Timeout, agentVars, TunnelInv, TypeOK, ConnsThere
  <2>2. QED
    BY <1>3, <1>7, <2>1 DEF Timeout, E!Fail
<1>8. ASSUME NEW c \in Conns, Connect(c) \/ Break(c) \/ Read(c)
      PROVE  UNCHANGED <<runs, result>>
  BY <1>8 DEF Connect, Break, Read, Receive, HandOver, ReadError, FailPending, Unregister,
     callVars, agentVars
<1>9. ASSUME NEW a \in Agents, AgentStep(a)
      PROVE  UNCHANGED <<runs, result>> \/ \E r \in Reqs : E!Run(r)
  BY <1>2, <1>9 DEF AgentStep, AgentResponds, AgentStopsReading, AgentCloses, callVars
<1>10. ASSUME NEW r \in Reqs, AddPending(r)
       PROVE  UNCHANGED <<runs, result>>
  BY <1>10 DEF AddPending, agentVars
<1>11. UNCHANGED vars \/ DisconnectAll => UNCHANGED <<runs, result>>
  BY DEF vars, DisconnectAll, callVars, agentVars
<1>12. UNCHANGED <<runs, result>> \/ E!Next
  BY <1>4, <1>5, <1>6, <1>7, <1>8, <1>9, <1>10, <1>11 DEF Next, Call, E!Next
<1>13. QED
  BY <1>1, <1>12

(* Dispatching through the pending map and the agents' websockets implements
   one exchange per request, for any number of requests, connections and
   agents (dispatchTunnelRequest, handleConnection, handleHTTPTunnelRequest). *)
THEOREM TunnelImplementsExchange == Spec => ImplementsExchange
<1>1. Init => E!Init
  BY SMT DEF Init, E!Init, Told
<1>2. QED
  BY <1>1, StepRefines, TunnelInvariant, PTL DEF Spec, ImplementsExchange, E!Spec

-----------------------------------------------------------------------------
\* The event forwarder.

USE AttemptsAssumption, SizesAssumption

(* What Append does, entry by entry. *)
LEMMA AppendFacts ==
  ASSUME NEW S, NEW s \in Seq(S), NEW x \in S
  PROVE  /\ Append(s, x) \in Seq(S) /\ Append(s, x) # <<>>
         /\ Len(Append(s, x)) = Len(s) + 1
         /\ Len(s) + 1 \in DOMAIN Append(s, x) /\ Append(s, x)[Len(s) + 1] = x
         /\ \A i \in DOMAIN s : i \in DOMAIN Append(s, x) /\ Append(s, x)[i] = s[i]
<1>1. /\ Append(s, x) \in Seq(S) /\ Len(Append(s, x)) = Len(s) + 1
      /\ Len(s) \in Nat /\ DOMAIN s = 1 .. Len(s)
  BY SMT
<1>2. DOMAIN Append(s, x) = 1 .. (Len(s) + 1)
  BY SMT, <1>1
<1>3. \A i \in 1 .. (Len(s) + 1) : Append(s, x)[i] = IF i = Len(s) + 1 THEN x ELSE s[i]
  BY SMT, <1>1
<1>4. Append(s, x) # <<>>
  BY SMT, <1>1
<1>5. QED
  BY SMT, <1>1, <1>2, <1>3, <1>4

(* Nothing is known and nothing is there to know (NewDispatcher, NewForwarder). *)
LEMMA InitInv == ForwarderInit => ForwarderInv
<1> SUFFICES ASSUME ForwarderInit PROVE ForwarderInv
  OBVIOUS
<1>1. Free \in Assignments
  BY DEF Free, Assignments
<1>2. ForwarderTypeOK
  <2>1. Absent \in Objects /\ 0 \in 0 .. MaxFaults
    BY SMT DEF Absent, Objects
  <2>2. \A ep \in Endpoints : 0 < MaxAttempts[ep] /\ Free.tries[ep] = 0
    BY SMT DEF Free
  <2>3. <<>> \in Seq(Actions) /\ <<>> \in Seq(Event) /\ Len(<<>>) <= QueueSize
    BY SMT
  <2>4. /\ api \in [Resources -> Objects]
        /\ watch \in [Resources -> Seq(Actions)]
        /\ consumer \in [Endpoints -> [Resources -> Objects]]
        /\ worker \in [Workers -> Assignments]
        /\ \A w \in Workers : \A ep \in Endpoints : worker[w].tries[ep] < MaxAttempts[ep]
    BY <1>1, <2>1, <2>2, <2>3 DEF ForwarderInit
  <2>5. QED
    BY <2>1, <2>3, <2>4 DEF ForwarderInit, ForwarderTypeOK
<1>3. KnownUpToWatch
  BY DEF ForwarderInit, KnownUpToWatch, Absent
<1>4. QED
  BY <1>2, <1>3 DEF ForwarderInv

(* A change is an event of the watch, and only a creation or deletion changes
   whether the resource exists (the informers' handlers). *)
LEMMA ChangeInv ==
  ASSUME ForwarderInv, NEW r \in Resources, NEW a \in Actions, Change(r, a)
  PROVE  ForwarderInv'
<1>1. ForwarderTypeOK'
  BY SMT DEF ForwarderInv, ForwarderTypeOK, Change, Objects
<1>2. KnownUpToWatch'
  <2> SUFFICES ASSUME NEW ep \in Endpoints, NEW q \in Resources,
                      ~Handed(ep, q), <<ep, q>> \notin lost
               PROVE  /\ (\A i \in DOMAIN watch'[q] : watch'[q][i] = "updated") =>
                           consumer[ep][q].exists = api'[q].exists
                      /\ watch'[q] = <<>> => consumer[ep][q] = api'[q] \/ q \in debounced
    BY SMT DEF KnownUpToWatch, Handed, Change
  <2>1. CASE q # r
    BY <2>1 DEF ForwarderInv, ForwarderTypeOK, KnownUpToWatch, Change
  <2>2. CASE q = r
    <3>1. watch'[r] = Append(watch[r], a) /\ watch[r] \in Seq(Actions)
      BY DEF ForwarderInv, ForwarderTypeOK, Change
    <3>2. watch'[r] # <<>>
      BY SMT, <3>1
    <3>3. ASSUME \A i \in DOMAIN watch'[r] : watch'[r][i] = "updated"
          PROVE  a = "updated" /\ \A i \in DOMAIN watch[r] : watch[r][i] = "updated"
      <4>1. \A i \in DOMAIN Append(watch[r], a) : Append(watch[r], a)[i] = "updated"
        BY <3>1, <3>3
      <4>2. watch[r] \in Seq(Actions)
        BY <3>1
      <4> DEFINE s == watch[r]
      <4> HIDE DEF s
      <4>3. s \in Seq(Actions) /\ \A i \in DOMAIN Append(s, a) : Append(s, a)[i] = "updated"
        BY <4>1, <4>2 DEF s
      <4>4. a = "updated" /\ \A i \in DOMAIN s : s[i] = "updated"
        <5>1. /\ Len(s) + 1 \in DOMAIN Append(s, a) /\ Append(s, a)[Len(s) + 1] = a
              /\ \A i \in DOMAIN s : i \in DOMAIN Append(s, a) /\ Append(s, a)[i] = s[i]
          BY SMT, <4>3
        <5>2. QED
          BY <4>3, <5>1
      <4>5. QED
        BY <4>4 DEF s
    <3>4. a = "updated" => api'[r].exists = api[r].exists
      BY DEF ForwarderInv, ForwarderTypeOK, Objects, Change
    <3>5. QED
      BY <2>2, <3>2, <3>3, <3>4 DEF ForwarderInv, KnownUpToWatch
  <2>3. QED
    BY <2>1, <2>2
<1>3. QED
  BY <1>1, <1>2 DEF ForwarderInv

(* An update may be suppressed, which is remembered, and any other event is queued
   or given up (handleEvent, Dispatch). *)
LEMMA HandleEventInv ==
  ASSUME ForwarderInv, NEW r \in Resources, handleEvent(r)
  PROVE  ForwarderInv'
<1> DEFINE a == Head(watch[r])
           e == [res |-> r, action |-> a]
<1>1. /\ watch[r] \in Seq(Actions) /\ watch[r] # <<>>
      /\ a \in Actions /\ e \in Event /\ e.res = r
      /\ Tail(watch[r]) \in Seq(Actions)
  <2>1. watch[r] \in Seq(Actions) /\ watch[r] # <<>>
    BY DEF ForwarderInv, ForwarderTypeOK, handleEvent
  <2>2. a \in Actions /\ Tail(watch[r]) \in Seq(Actions)
    BY SMT, <2>1
  <2>3. e \in Event /\ e.res = r
    BY <2>2 DEF Event
  <2>4. QED
    BY <2>1, <2>2, <2>3
<1>2. /\ watch' = [watch EXCEPT ![r] = Tail(watch[r])]
      /\ watch' \in [Resources -> Seq(Actions)]
      /\ UNCHANGED <<api, worker, consumer, faults>>
  BY <1>1 DEF ForwarderInv, ForwarderTypeOK, handleEvent
<1>3. CASE Suppressed(r, a)
  <2>1. UNCHANGED <<lastEvent, jobs, lost>> /\ debounced' = debounced \cup {r}
    BY <1>3 DEF handleEvent
  <2>2. ForwarderTypeOK'
    BY <1>2, <2>1 DEF ForwarderInv, ForwarderTypeOK
  <2>3. KnownUpToWatch'
    <3> SUFFICES ASSUME NEW ep \in Endpoints, NEW q \in Resources,
                        ~Handed(ep, q), <<ep, q>> \notin lost
                 PROVE  /\ (\A i \in DOMAIN watch'[q] : watch'[q][i] = "updated") =>
                             consumer[ep][q].exists = api[q].exists
                        /\ watch'[q] = <<>> => consumer[ep][q] = api[q] \/ q \in debounced'
      BY <1>2, <2>1 DEF KnownUpToWatch, Handed
    <3>1. CASE q # r
      <4>1. watch'[q] = watch[q] /\ (q \in debounced => q \in debounced')
        BY <1>2, <2>1, <3>1 DEF ForwarderInv, ForwarderTypeOK
      <4>2. QED
        BY <4>1 DEF ForwarderInv, KnownUpToWatch
    <3>2. CASE q = r
      <4>1. watch'[r] = Tail(watch[r]) /\ r \in debounced'
        BY <1>2, <2>1 DEF ForwarderInv, ForwarderTypeOK
      <4>2. watch[r][1] = "updated"
        BY SMT, <1>1, <1>3 DEF Suppressed
      <4>3. ASSUME \A i \in DOMAIN watch'[r] : watch'[r][i] = "updated"
            PROVE  \A i \in DOMAIN watch[r] : watch[r][i] = "updated"
        <5>1. ASSUME NEW i \in DOMAIN watch[r], i # 1
              PROVE  watch[r][i] = "updated"
          <6>1. i - 1 \in DOMAIN Tail(watch[r]) /\ Tail(watch[r])[i - 1] = watch[r][i]
            BY SMT, <1>1, <5>1
          <6>2. QED
            BY <4>1, <4>3, <6>1
        <5>2. QED
          BY <4>2, <5>1
      <4>4. QED
        BY <3>2, <4>1, <4>3 DEF ForwarderInv, KnownUpToWatch
    <3>3. QED
      BY <3>1, <3>2
  <2>4. QED
    BY <2>2, <2>3 DEF ForwarderInv
<1>4. CASE ~Suppressed(r, a)
  <2>1. /\ Enqueue(e)
        /\ debounced' = debounced \ {r}
        /\ lastEvent' \in [Resources -> {"none", "recent", "old"}]
    BY <1>4 DEF handleEvent, ForwarderInv, ForwarderTypeOK
  <2>2. /\ jobs' \in Seq(Event) /\ Len(jobs') <= QueueSize
        /\ lost' \subseteq Endpoints \X Resources
        /\ lost \subseteq lost'
        /\ \A i \in DOMAIN jobs : i \in DOMAIN jobs' /\ jobs'[i] = jobs[i]
    <3>1. CASE Len(jobs) < QueueSize
      <4>1. jobs \in Seq(Event) /\ jobs' = Append(jobs, e) /\ lost' = lost
        BY <2>1, <3>1 DEF Enqueue, ForwarderInv, ForwarderTypeOK
      <4>2. lost \subseteq Endpoints \X Resources /\ Len(jobs) \in Nat
        BY SMT DEF ForwarderInv, ForwarderTypeOK
      <4>3. QED
        BY SMT, <1>1, <3>1, <4>1, <4>2, AppendFacts
    <3>2. CASE ~(Len(jobs) < QueueSize)
      <4>1. jobs' = jobs /\ lost' = lost \cup (Endpoints \X {r})
        BY <1>1, <2>1, <3>2 DEF Enqueue
      <4>2. QED
        BY <4>1 DEF ForwarderInv, ForwarderTypeOK
    <3>3. QED
      BY <3>1, <3>2
  <2>3. ForwarderTypeOK'
    BY <1>2, <2>1, <2>2 DEF ForwarderInv, ForwarderTypeOK
  <2>4. \A ep \in Endpoints, q \in Resources : Handed(ep, q) => Handed(ep, q)'
    BY <1>2, <2>2 DEF Handed
  <2>5. \A ep \in Endpoints : Handed(ep, r)' \/ <<ep, r>> \in lost'
    <3>1. CASE Len(jobs) < QueueSize
      <4>1. jobs' = Append(jobs, e)
        BY <2>1, <3>1 DEF Enqueue
      <4>2. Len(jobs) + 1 \in DOMAIN jobs' /\ jobs'[Len(jobs) + 1] = e
        BY SMT, <1>1, <4>1, AppendFacts DEF ForwarderInv, ForwarderTypeOK
      <4>3. QED
        BY <1>1, <4>2 DEF Handed
    <3>2. CASE ~(Len(jobs) < QueueSize)
      BY <1>1, <2>1, <3>2 DEF Enqueue
    <3>3. QED
      BY <3>1, <3>2
  <2>6. KnownUpToWatch'
    <3> SUFFICES ASSUME NEW ep \in Endpoints, NEW q \in Resources,
                        ~Handed(ep, q)', <<ep, q>> \notin lost'
                 PROVE  /\ (\A i \in DOMAIN watch'[q] : watch'[q][i] = "updated") =>
                             consumer[ep][q].exists = api[q].exists
                        /\ watch'[q] = <<>> => consumer[ep][q] = api[q] \/ q \in debounced'
      BY <1>2 DEF KnownUpToWatch
    <3>1. q # r
      BY <2>5
    <3>2. ~Handed(ep, q) /\ <<ep, q>> \notin lost
      BY <2>2, <2>4
    <3>3. QED
      <4>1. watch'[q] = watch[q] /\ (q \in debounced => q \in debounced')
        BY <1>2, <2>1, <3>1 DEF ForwarderInv, ForwarderTypeOK
      <4>2. QED
        BY <3>2, <4>1 DEF ForwarderInv, KnownUpToWatch
  <2>7. QED
    BY <2>3, <2>6 DEF ForwarderInv
<1>5. QED
  BY <1>3, <1>4

(* The debounce map decides what is suppressed, and nothing else (handleEvent,
   cleanupDebounceLoop). *)
LEMMA DebounceInv ==
  ASSUME ForwarderInv, cleanupDebounceLoop \/ \E r \in Resources : WindowEnds(r)
  PROVE  ForwarderInv'
<1>1. /\ UNCHANGED <<api, watch, jobs, worker, consumer, faults, debounced, lost>>
      /\ lastEvent' \in [Resources -> {"none", "recent", "old"}]
  BY DEF ForwarderInv, ForwarderTypeOK, WindowEnds, cleanupDebounceLoop
<1>2. ForwarderTypeOK'
  BY <1>1 DEF ForwarderInv, ForwarderTypeOK
<1>3. KnownUpToWatch'
  BY <1>1 DEF ForwarderInv, KnownUpToWatch, Handed
<1>4. QED
  BY <1>2, <1>3 DEF ForwarderInv

(* A job that leaves the queue is with a worker for every endpoint (worker,
   dispatchAll). *)
LEMMA TakeInv ==
  ASSUME ForwarderInv, NEW w \in Workers, Take(w)
  PROVE  ForwarderInv'
<1> DEFINE e == Head(jobs)
<1>1. /\ jobs \in Seq(Event) /\ jobs # <<>> /\ jobs' = Tail(jobs)
      /\ worker[w].event = {}
      /\ UNCHANGED <<api, watch, lastEvent, consumer, faults, debounced, lost>>
  BY DEF ForwarderInv, ForwarderTypeOK, Take, Busy
<1>2. /\ e \in Event /\ e = jobs[1]
      /\ jobs' \in Seq(Event) /\ Len(jobs') <= QueueSize
      /\ \A i \in DOMAIN jobs : i # 1 => i - 1 \in DOMAIN jobs' /\ jobs'[i - 1] = jobs[i]
  BY SMT, <1>1 DEF ForwarderInv, ForwarderTypeOK
<1>3. /\ Dispatch(e) \in Assignments
      /\ Dispatch(e).event = {e} /\ Dispatch(e).open = Endpoints
      /\ \A ep \in Endpoints : Dispatch(e).tries[ep] = 0
  BY <1>2 DEF Dispatch, Free, Assignments
<1>4. /\ worker' \in [Workers -> Assignments] /\ worker'[w] = Dispatch(e)
      /\ \A v \in Workers : v # w => worker'[v] = worker[v]
  BY <1>3 DEF Take, ForwarderInv, ForwarderTypeOK
<1>5. ForwarderTypeOK'
  <2>1. \A v \in Workers : \A ep \in Endpoints : worker'[v].tries[ep] < MaxAttempts[ep]
    <3>1. \A ep \in Endpoints : worker'[w].tries[ep] = 0 /\ 0 < MaxAttempts[ep]
      <4>1. \A ep \in Endpoints : 0 < MaxAttempts[ep]
        BY SMT
      <4>2. QED
        BY <1>3, <1>4, <4>1
    <3>2. QED
      BY <1>4, <3>1 DEF ForwarderInv, ForwarderTypeOK
  <2>2. QED
    BY <1>1, <1>2, <1>4, <2>1 DEF ForwarderInv, ForwarderTypeOK
<1>6. \A ep \in Endpoints, q \in Resources : Handed(ep, q) => Handed(ep, q)'
  <2> SUFFICES ASSUME NEW ep \in Endpoints, NEW q \in Resources, Handed(ep, q)
               PROVE  Handed(ep, q)'
    OBVIOUS
  <2>1. ASSUME NEW i \in DOMAIN jobs, jobs[i].res = q
        PROVE  Handed(ep, q)'
    <3>1. CASE i = 1
      <4>1. /\ e.res = q /\ worker'[w].event = {e} /\ ep \in worker'[w].open
        BY <1>2, <1>3, <1>4, <2>1, <3>1
      <4>2. QED
        BY <4>1 DEF Handed
    <3>2. CASE i # 1
      <4>1. i - 1 \in DOMAIN jobs' /\ jobs'[i - 1].res = q
        BY <1>2, <2>1, <3>2
      <4>2. QED
        BY <4>1 DEF Handed
    <3>3. QED
      BY <3>1, <3>2
  <2>2. ASSUME NEW v \in Workers, ep \in worker[v].open, \E x \in worker[v].event : x.res = q
        PROVE  Handed(ep, q)'
    BY <1>1, <1>4, <2>2 DEF Handed
  <2>3. QED
    BY <2>1, <2>2 DEF Handed
<1>7. KnownUpToWatch'
  BY <1>1, <1>6 DEF ForwarderInv, KnownUpToWatch
<1>8. QED
  BY <1>5, <1>7 DEF ForwarderInv

(* A goroutine that returns leaves the others of its worker as they are
   (dispatchAll). *)
LEMMA DoneFacts ==
  ASSUME ForwarderInv, NEW w \in Workers, NEW ep \in worker[w].open, Done(w, ep), jobs' = jobs
  PROVE  /\ worker' \in [Workers -> Assignments]
         /\ \A v \in Workers : \A x \in Endpoints : worker'[v].tries[x] < MaxAttempts[x]
         /\ \A x \in Endpoints, q \in Resources :
              Handed(x, q) =>
                Handed(x, q)' \/ (x = ep /\ \E e \in worker[w].event : e.res = q)
<1>1. /\ worker[w] \in Assignments /\ ep \in Endpoints
      /\ \A x \in Endpoints : worker[w].tries[x] < MaxAttempts[x] /\ 0 < MaxAttempts[x]
  BY SMT DEF ForwarderInv, ForwarderTypeOK, Assignments
<1>2. \A v \in Workers : v # w => worker'[v] = worker[v]
  BY DEF Done, ForwarderInv, ForwarderTypeOK
<1>3. CASE worker[w].open = {ep}
  <2>1. worker'[w] = Free /\ worker' = [worker EXCEPT ![w] = Free]
    BY <1>3 DEF Done, ForwarderInv, ForwarderTypeOK
  <2>2. /\ worker'[w] \in Assignments
        /\ \A x \in Endpoints : worker'[w].tries[x] = 0
    BY SMT, <2>1 DEF Free, Assignments
  <2>3. worker' \in [Workers -> Assignments]
    BY <2>1, <2>2 DEF ForwarderInv, ForwarderTypeOK
  <2>4. \A v \in Workers : \A x \in Endpoints : worker'[v].tries[x] < MaxAttempts[x]
    BY <1>1, <1>2, <2>2 DEF ForwarderInv, ForwarderTypeOK
  <2>5. QED
    BY <1>2, <1>3, <2>3, <2>4 DEF Handed
<1>4. CASE worker[w].open # {ep}
  <2> DEFINE a == Returned(worker[w], ep)
  <2>1. worker'[w] = a /\ worker' = [worker EXCEPT ![w] = a]
    BY <1>4 DEF Done, ForwarderInv, ForwarderTypeOK
  <2>2. /\ a \in Assignments /\ a.event = worker[w].event /\ a.open = worker[w].open \ {ep}
        /\ \A x \in Endpoints : a.tries[x] = IF x = ep THEN 0 ELSE worker[w].tries[x]
    BY <1>1 DEF Assignments, Returned
  <2>3. worker' \in [Workers -> Assignments]
    BY <2>1, <2>2 DEF ForwarderInv, ForwarderTypeOK
  <2>4. \A v \in Workers : \A x \in Endpoints : worker'[v].tries[x] < MaxAttempts[x]
    BY <1>1, <1>2, <2>1, <2>2 DEF ForwarderInv, ForwarderTypeOK
  <2>5. QED
    BY <1>2, <2>1, <2>2, <2>3, <2>4 DEF Handed
<1>5. QED
  BY <1>3, <1>4

(* A consumer that was notified fetches what is there (send). *)
LEMMA ForwarderSendInv ==
  ASSUME ForwarderInv, NEW w \in Workers, NEW ep \in Endpoints, send(w, ep)
  PROVE  ForwarderInv'
<1>1. PICK e \in worker[w].event :
        /\ consumer' = [consumer EXCEPT ![ep][e.res] = api[e.res]]
        /\ lost' = lost \ {<<ep, e.res>>}
  BY DEF send
<1>2. /\ e.res \in Resources
      /\ \A x \in worker[w].event : x = e
      /\ ep \in worker[w].open /\ Done(w, ep)
      /\ UNCHANGED <<api, watch, lastEvent, jobs, faults, debounced>>
  BY SMT, <1>1 DEF send, ForwarderInv, ForwarderTypeOK, Assignments, Event
<1>3. /\ consumer' \in [Endpoints -> [Resources -> Objects]]
      /\ consumer'[ep][e.res] = api[e.res]
      /\ \A x \in Endpoints, q \in Resources :
           (x # ep \/ q # e.res) => consumer'[x][q] = consumer[x][q]
  BY <1>1, <1>2 DEF ForwarderInv, ForwarderTypeOK
<1>4. ForwarderTypeOK'
  BY <1>1, <1>2, <1>3, DoneFacts DEF ForwarderInv, ForwarderTypeOK
<1>5. KnownUpToWatch'
  <2> SUFFICES ASSUME NEW x \in Endpoints, NEW q \in Resources,
                      ~Handed(x, q)', <<x, q>> \notin lost'
               PROVE  /\ (\A i \in DOMAIN watch[q] : watch[q][i] = "updated") =>
                           consumer'[x][q].exists = api[q].exists
                      /\ watch[q] = <<>> => consumer'[x][q] = api[q] \/ q \in debounced
    BY <1>2 DEF KnownUpToWatch
  <2>1. CASE x = ep /\ q = e.res
    BY <1>3, <2>1
  <2>2. CASE x # ep \/ q # e.res
    <3>1. ~Handed(x, q)
      BY <1>2, <2>2, DoneFacts
    <3>2. <<x, q>> \notin lost
      BY <1>1, <2>2
    <3>3. consumer'[x][q] = consumer[x][q]
      BY <1>3, <2>2
    <3>4. QED
      BY <3>1, <3>2, <3>3 DEF ForwarderInv, KnownUpToWatch
  <2>3. QED
    BY <2>1, <2>2
<1>6. QED
  BY <1>4, <1>5 DEF ForwarderInv

(* A failed send is tried again or given up, whether or not the consumer was
   notified (sendWithRetry). *)
LEMMA SendFailsInv ==
  ASSUME ForwarderInv, NEW w \in Workers, NEW ep \in Endpoints, SendFails(w, ep)
  PROVE  ForwarderInv'
<1>1. PICK e \in worker[w].event :
        /\ \/ UNCHANGED consumer
           \/ consumer' = [consumer EXCEPT ![ep][e.res] = api[e.res]]
        /\ \/ /\ worker[w].tries[ep] + 1 < MaxAttempts[ep]
              /\ worker' = [worker EXCEPT ![w].tries[ep] = @ + 1]
              /\ UNCHANGED lost
           \/ /\ Done(w, ep)
              /\ lost' = lost \cup {<<ep, e.res>>}
  BY DEF SendFails
<1>2. /\ e.res \in Resources /\ worker[w] \in Assignments
      /\ \A x \in worker[w].event : x = e
      /\ ep \in worker[w].open
      /\ UNCHANGED <<api, watch, lastEvent, jobs, debounced>>
      /\ faults' \in 0 .. MaxFaults
  <2>1. worker[w] \in Assignments /\ faults \in 0 .. MaxFaults
    BY DEF ForwarderInv, ForwarderTypeOK
  <2>2. /\ faults < MaxFaults /\ faults' = faults + 1
        /\ ep \in worker[w].open
        /\ UNCHANGED <<api, watch, lastEvent, jobs, debounced>>
    BY DEF SendFails
  <2>3. e.res \in Resources /\ \A x \in worker[w].event : x = e
    BY <1>1, <2>1 DEF Assignments, Event
  <2>4. faults' \in 0 .. MaxFaults
    BY SMT, <2>1, <2>2
  <2>5. QED
    BY <2>1, <2>2, <2>3, <2>4
<1>3. /\ consumer' \in [Endpoints -> [Resources -> Objects]]
      /\ consumer'[ep][e.res] \in {consumer[ep][e.res], api[e.res]}
      /\ \A x \in Endpoints, q \in Resources :
           (x # ep \/ q # e.res) => consumer'[x][q] = consumer[x][q]
  <2>1. CASE UNCHANGED consumer
    BY <2>1 DEF ForwarderInv, ForwarderTypeOK
  <2>2. CASE consumer' = [consumer EXCEPT ![ep][e.res] = api[e.res]]
    BY <1>2, <2>2 DEF ForwarderInv, ForwarderTypeOK
  <2>3. QED
    BY <1>1, <2>1, <2>2
<1>4. /\ lost \subseteq lost' /\ lost' \subseteq Endpoints \X Resources
      /\ worker' \in [Workers -> Assignments]
      /\ \A v \in Workers : \A x \in Endpoints : worker'[v].tries[x] < MaxAttempts[x]
      /\ \A x \in Endpoints, q \in Resources :
           Handed(x, q) => Handed(x, q)' \/ <<x, q>> \in lost'
  <2>1. CASE Done(w, ep) /\ lost' = lost \cup {<<ep, e.res>>}
    <3>1. /\ worker' \in [Workers -> Assignments]
          /\ \A v \in Workers : \A x \in Endpoints : worker'[v].tries[x] < MaxAttempts[x]
          /\ \A x \in Endpoints, q \in Resources :
               Handed(x, q) => Handed(x, q)' \/ (x = ep /\ q = e.res)
      <4>1. ep \in worker[w].open /\ Done(w, ep) /\ jobs' = jobs
        BY <1>2, <2>1
      <4>2. /\ worker' \in [Workers -> Assignments]
            /\ \A v \in Workers : \A x \in Endpoints : worker'[v].tries[x] < MaxAttempts[x]
            /\ \A x \in Endpoints, q \in Resources :
                 Handed(x, q) =>
                   Handed(x, q)' \/ (x = ep /\ \E y \in worker[w].event : y.res = q)
        BY <4>1, DoneFacts
      <4>3. QED
        BY <1>2, <4>2
    <3>2. lost \subseteq Endpoints \X Resources
      BY DEF ForwarderInv, ForwarderTypeOK
    <3>3. lost \subseteq lost' /\ <<ep, e.res>> \in lost'
      BY <2>1
    <3>4. lost' \subseteq Endpoints \X Resources
      BY SMT, <1>2, <2>1, <3>2
    <3>5. \A x \in Endpoints, q \in Resources :
            Handed(x, q) => Handed(x, q)' \/ <<x, q>> \in lost'
      BY <3>1, <3>3
    <3>6. QED
      BY <3>1, <3>3, <3>4, <3>5
  <2>2. CASE /\ worker[w].tries[ep] + 1 < MaxAttempts[ep]
             /\ worker' = [worker EXCEPT ![w].tries[ep] = @ + 1]
             /\ UNCHANGED lost
    <3> DEFINE a == [worker[w] EXCEPT !.tries[ep] = @ + 1]
    <3>1. /\ a \in Assignments /\ a.event = worker[w].event /\ a.open = worker[w].open
          /\ \A x \in Endpoints : a.tries[x] = IF x = ep THEN worker[w].tries[x] + 1
                                                ELSE worker[w].tries[x]
      BY SMT, <1>2 DEF Assignments
    <3>2. worker' = [worker EXCEPT ![w] = a]
      BY <2>2 DEF ForwarderInv, ForwarderTypeOK
    <3> HIDE DEF a
    <3>3. /\ worker' \in [Workers -> Assignments] /\ worker'[w] = a
          /\ \A v \in Workers : v # w => worker'[v] = worker[v]
      BY <3>1, <3>2 DEF ForwarderInv, ForwarderTypeOK
    <3>4. \A v \in Workers : \A x \in Endpoints : worker'[v].tries[x] < MaxAttempts[x]
      BY SMT, <2>2, <3>1, <3>3 DEF ForwarderInv, ForwarderTypeOK
    <3>5. \A v \in Workers : /\ worker'[v].event = worker[v].event
                              /\ worker'[v].open = worker[v].open
      BY <3>1, <3>3
    <3>6. \A x \in Endpoints, q \in Resources : Handed(x, q) => Handed(x, q)'
      BY <1>2, <3>5 DEF Handed
    <3>7. QED
      BY <2>2, <3>3, <3>4, <3>6 DEF ForwarderInv, ForwarderTypeOK
  <2>3. QED
    BY <1>1, <2>1, <2>2
<1>5. ForwarderTypeOK'
  BY <1>2, <1>3, <1>4 DEF ForwarderInv, ForwarderTypeOK
<1>6. KnownUpToWatch'
  <2> SUFFICES ASSUME NEW x \in Endpoints, NEW q \in Resources,
                      ~Handed(x, q)', <<x, q>> \notin lost'
               PROVE  /\ (\A i \in DOMAIN watch[q] : watch[q][i] = "updated") =>
                           consumer'[x][q].exists = api[q].exists
                      /\ watch[q] = <<>> => consumer'[x][q] = api[q] \/ q \in debounced
    BY <1>2 DEF KnownUpToWatch
  <2>1. ~Handed(x, q) /\ <<x, q>> \notin lost
    BY <1>4
  <2>2. consumer'[x][q] \in {consumer[x][q], api[q]}
    BY <1>3
  <2>3. QED
    BY <2>1, <2>2 DEF ForwarderInv, KnownUpToWatch
<1>7. QED
  BY <1>5, <1>6 DEF ForwarderInv

(* After a restart every resource that exists is reported, and what was deleted
   meanwhile is given up (the informers' initial list). *)
LEMMA RestartInv ==
  ASSUME ForwarderInv, Restart
  PROVE  ForwarderInv'
<1>1. Free \in Assignments /\ \A ep \in Endpoints : Free.tries[ep] = 0
  BY DEF Free, Assignments
<1>2. /\ watch' \in [Resources -> Seq(Actions)]
      /\ lost' \subseteq Endpoints \X Resources
      /\ faults' \in 0 .. MaxFaults
  <2>1. <<"created">> \in Seq(Actions) /\ <<>> \in Seq(Actions)
    BY SMT DEF Actions
  <2>2. watch' \in [Resources -> Seq(Actions)]
    BY <2>1 DEF Restart
  <2>3. QED
    BY SMT, <2>2 DEF Restart, ForwarderInv, ForwarderTypeOK
<1>3. ForwarderTypeOK'
  BY SMT, <1>1, <1>2 DEF Restart, ForwarderInv, ForwarderTypeOK
<1>4. KnownUpToWatch'
  <2> SUFFICES ASSUME NEW x \in Endpoints, NEW q \in Resources, <<x, q>> \notin lost'
               PROVE  /\ watch'[q] # <<>>
                      /\ ~ \A i \in DOMAIN watch'[q] : watch'[q][i] = "updated"
    BY DEF KnownUpToWatch
  <2>1. api[q].exists
    BY DEF Restart
  <2>2. watch'[q] = <<"created">>
    BY <2>1 DEF Restart
  <2>3. QED
    BY SMT, <2>2
<1>5. QED
  BY <1>3, <1>4 DEF ForwarderInv

(* The invariant holds throughout, for any number of resources, endpoints and
   workers (handleEvent, Dispatch, sendWithRetry). *)
THEOREM ForwarderInvariant == ForwarderSpec => []ForwarderInv
<1>1. ForwarderInv /\ [ForwarderNext]_forwarderVars => ForwarderInv'
  <2> SUFFICES ASSUME ForwarderInv, [ForwarderNext]_forwarderVars PROVE ForwarderInv'
    OBVIOUS
  <2>1. CASE UNCHANGED forwarderVars
    BY <2>1 DEF forwarderVars, ForwarderInv, ForwarderTypeOK, KnownUpToWatch, Handed
  <2>2. CASE ForwarderNext
    BY <2>2, ChangeInv, HandleEventInv, DebounceInv, TakeInv, ForwarderSendInv, SendFailsInv,
       RestartInv DEF ForwarderNext
  <2>3. QED
    BY <2>1, <2>2
<1>2. QED
  BY InitInv, <1>1, PTL DEF ForwarderSpec

(* The queue and the attempts stay within their limits (Dispatch, sendWithRetry). *)
THEOREM ForwarderTypeCorrect == ForwarderSpec => []ForwarderTypeOK
<1>1. ForwarderInv => ForwarderTypeOK
  BY DEF ForwarderInv
<1>2. QED
  BY <1>1, ForwarderInvariant, PTL

(* With nothing on its way and nothing given up a consumer knows whether a resource
   exists, and its latest version up to a debounced update (handleEvent, Dispatch,
   sendWithRetry). *)
THEOREM QuietConsumersAreCurrent == ForwarderSpec => []QuietIsCurrent
<1>1. ForwarderInv => QuietIsCurrent
  BY SMT DEF ForwarderInv, KnownUpToWatch, QuietIsCurrent, InFlight
<1>2. QED
  BY <1>1, ForwarderInvariant, PTL
=============================================================================
