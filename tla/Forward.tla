------------------------------ MODULE Forward -------------------------------
(***************************************************************************)
(* Forwarding requests over the mesh (internal/cluster-gateway/server.go,  *)
(* forwardViaMesh and ServeForward; fabric/mesh.go, Forward, runLink and   *)
(* failPendingForPeer), seen from the pod that received them and has no    *)
(* agent of its own for them.  What the owner pod does with a request is   *)
(* an Exchange, which Tunnel implements.  A link to an owner is replaced   *)
(* when discovery reports the owner gone and back, or at a new address; a  *)
(* link dials a new websocket whenever its current one is lost.            *)
(***************************************************************************)
EXTENDS Naturals, Sequences

CONSTANTS
  Owners,      \* the other gateway pods
  Reqs,        \* bound: requests to forward
  Safe,        \* the ones with method GET, HEAD or OPTIONS
  Candidates,  \* what Lookup may return: the owner of each agent, in order
  MaxLinks,    \* bound: links to one owner over time
  MaxDials     \* bound: websockets of one link over time

ASSUME SafeAssumption == Safe \subseteq Reqs
ASSUME CandidatesAssumption == Candidates \subseteq Seq(Owners)
ASSUME BoundsAssumption == MaxLinks \in Nat /\ MaxDials \in Nat

Links == Owners \X (1 .. MaxLinks)
Socks == Links \X (1 .. MaxDials)
Fwds == Reqs \X {1, 2}    \* the attempts of a request

VARIABLES
  \* links
  link,     \* link[o]: the number of the link to o in m.links, 0 if none
  loop,     \* loop[l]: what runLink is doing
  dials,    \* dials[l]: the number of its latest websocket
  ws,       \* ws[l]: the websocket it has published, 0 if none
  sock,     \* "new", "up", "broken" (not yet closed by this pod) or "closed"
  \* forwardViaMesh and Forward
  plan,     \* plan[r]: the owners to try, in order
  try,      \* try[r]: the attempt under way, 0 before the first
  final,    \* final[r]: what the caller was told
  step,     \* step[f]: how far Forward has come
  on,       \* on[f]: the number of the link and the websocket it sends on
  pending,  \* the keys of m.pending
  reply,    \* reply[f]: what its channel holds
  \* the owners
  wire,     \* forwards on the way to their owner
  serving,  \* forwards received by their owner
  answers,  \* answers[f]: the frame on the way back
  runs,     \* Exchange: how often an agent has run a forwarded request
  served    \* Exchange: what the owner's dispatch returned

linkVars == <<link, loop, dials, ws, sock>>
callVars == <<plan, try, final, step, on, pending, reply>>
ownerVars == <<wire, serving, answers, runs, served>>
vars == <<linkVars, callVars, ownerVars>>

X == INSTANCE Exchange WITH Reqs <- Fwds, result <- served

OwnerOf(f) == plan[f[1]][f[2]]
SockOf(f) == <<<<OwnerOf(f), on[f][1]>>, on[f][2]>>
Ongoing(r) == {f \in Fwds : f[1] = r /\ f[2] = try[r] /\ final[r] = "none"}

(***************************************************************************)
(* Every variable holds what its counterpart can hold (peerLink,           *)
(* pendingForward, ForwardResponse).                                       *)
(***************************************************************************)
TypeOK ==
  /\ link \in [Owners -> 0 .. MaxLinks]
  /\ loop \in [Links -> {"idle", "dialing", "serving", "lost", "detached", "closed"}]
  /\ dials \in [Links -> 0 .. MaxDials]
  /\ ws \in [Links -> 0 .. MaxDials]
  /\ sock \in [Socks -> {"new", "up", "broken", "closed"}]
  /\ plan \in [Reqs -> Seq(Owners)] /\ \A r \in Reqs : Len(plan[r]) <= 2
  /\ try \in [Reqs -> 0 .. 2]
  /\ final \in [Reqs -> {"none", "response", "forbidden", "unavailable"}]
  /\ step \in [Fwds -> {"none", "picked", "added", "waiting", "over"}]
  /\ on \in [Fwds -> (0 .. MaxLinks) \X (0 .. MaxDials)]
  /\ pending \subseteq Fwds
  /\ reply \in [Fwds -> {"empty", "response", "noagent", "error", "nil"}]
  /\ wire \subseteq Fwds
  /\ serving \subseteq Fwds
  /\ answers \in [Fwds -> {"none", "response", "noagent", "error"}]
  /\ runs \in [Fwds -> {0, 1}]
  /\ served \in [Fwds -> {"none", "response", "refused", "failed"}]

Init ==
  /\ link = [o \in Owners |-> 0]
  /\ loop = [l \in Links |-> "idle"]
  /\ dials = [l \in Links |-> 0]
  /\ ws = [l \in Links |-> 0]
  /\ sock = [s \in Socks |-> "new"]
  /\ plan = [r \in Reqs |-> << >>]
  /\ try = [r \in Reqs |-> 0]
  /\ final = [r \in Reqs |-> "none"]
  /\ step = [f \in Fwds |-> "none"]
  /\ on = [f \in Fwds |-> <<0, 0>>]
  /\ pending = {}
  /\ reply = [f \in Fwds |-> "empty"]
  /\ wire = {}
  /\ serving = {}
  /\ answers = [f \in Fwds |-> "none"]
  /\ X!Init

-----------------------------------------------------------------------------
\* Links.

Cancelled(l) == link[l[1]] # l[2]
Socket(l) == <<l, dials[l]>>

\* reconcilePeers: the owner appears, or moves to a new address, and gets a new
\* link.
AddLink(o) ==
  /\ \E k \in 1 .. MaxLinks :
       /\ loop[<<o, k>>] = "idle"
       /\ \A j \in 1 .. k - 1 : loop[<<o, j>>] # "idle"
       /\ link' = [link EXCEPT ![o] = k]
       /\ loop' = [loop EXCEPT ![<<o, k>>] = "dialing"]
  /\ UNCHANGED <<dials, ws, sock, callVars, ownerVars>>

\* ... or it is gone.
DropLink(o) ==
  /\ link[o] # 0
  /\ link' = [link EXCEPT ![o] = 0]
  /\ UNCHANGED <<loop, dials, ws, sock, callVars, ownerVars>>

\* runLink, step by step: dial and publish the socket; find that it can no
\* longer be read; unpublish it; close it; release the waiters.
Dial(l) ==
  /\ loop[l] = "dialing"
  /\ ~Cancelled(l)
  /\ dials[l] < MaxDials
  /\ dials' = [dials EXCEPT ![l] = @ + 1]
  /\ ws' = [ws EXCEPT ![l] = dials[l] + 1]
  /\ sock' = [sock EXCEPT ![<<l, dials[l] + 1>>] = "up"]
  /\ loop' = [loop EXCEPT ![l] = "serving"]
  /\ UNCHANGED <<link, callVars, ownerVars>>

\* The AfterFunc of serveLink, on the cancelled context.
CloseCancelled(l) ==
  /\ loop[l] = "serving"
  /\ Cancelled(l)
  /\ sock[Socket(l)] # "closed"
  /\ sock' = [sock EXCEPT ![Socket(l)] = "closed"]
  /\ UNCHANGED <<link, loop, dials, ws, callVars, ownerVars>>

\* The read fails: the connection is broken or closed, a pong is late, or a frame
\* cannot be decoded.
LinkLost(l) ==
  /\ loop[l] = "serving"
  /\ loop' = [loop EXCEPT ![l] = "lost"]
  /\ UNCHANGED <<link, dials, ws, sock, callVars, ownerVars>>

Unpublish(l) ==
  /\ loop[l] = "lost"
  /\ ws' = [ws EXCEPT ![l] = 0]
  /\ loop' = [loop EXCEPT ![l] = "detached"]
  /\ UNCHANGED <<link, dials, sock, callVars, ownerVars>>

CloseSocket(l) ==
  /\ loop[l] = "detached"
  /\ sock' = [sock EXCEPT ![Socket(l)] = "closed"]
  /\ loop' = [loop EXCEPT ![l] = "closed"]
  /\ UNCHANGED <<link, dials, ws, callVars, ownerVars>>

\* What failPendingForPeer does: it releases every forward to this owner, on
\* whatever socket.
Release(l) ==
  LET orphaned == {f \in pending : OwnerOf(f) = l[1]}
  IN  /\ pending' = pending \ orphaned
      /\ reply' = [f \in Fwds |-> IF f \in orphaned THEN "nil" ELSE reply[f]]

FailNobody(l) ==
  /\ loop[l] = "closed"
  /\ loop' = [loop EXCEPT ![l] = "dialing"]
  /\ UNCHANGED <<link, dials, ws, sock, callVars, ownerVars>>

FailPendingFirst(l) ==
  \/ FailNobody(l)
  \/ /\ loop[l] = "detached"
     /\ Release(l)
     /\ UNCHANGED <<linkVars, plan, try, final, step, on, ownerVars>>

FailPending(l) ==
  /\ loop[l] = "closed"
  /\ Release(l)
  /\ loop' = [loop EXCEPT ![l] = "dialing"]
  /\ UNCHANGED <<link, dials, ws, sock, plan, try, final, step, on, ownerVars>>

\* The network or the owner breaks a connection.
Break(s) ==
  /\ sock[s] = "up"
  /\ sock' = [sock EXCEPT ![s] = "broken"]
  /\ UNCHANGED <<link, loop, dials, ws, callVars, ownerVars>>

-----------------------------------------------------------------------------
\* forwardViaMesh.

\* The first candidate and, as the second, the next one of another owner; where
\* there is no other owner, simply the next.
Attempts(cs) ==
  LET others == {i \in 2 .. Len(cs) : cs[i] # cs[1]}
      next == {i \in others : \A j \in others : i <= j}
  IN  IF others # {} THEN {<<cs[1], cs[i]>> : i \in next}
      ELSE {SubSeq(cs, 1, IF Len(cs) > 1 THEN 2 ELSE 1)}

\* Without a candidate the caller gets the error of the local lookup: no agent
\* of this plane here, or none authorised for the CR.
Lookup(r) ==
  /\ try[r] = 0
  /\ final[r] = "none"
  /\ \/ /\ \E cs \in Candidates \ {<< >>} :
             \E attempts \in Attempts(cs) : plan' = [plan EXCEPT ![r] = attempts]
        /\ try' = [try EXCEPT ![r] = 1]
        /\ UNCHANGED final
     \/ /\ << >> \in Candidates
        /\ \E e \in {"forbidden", "unavailable"} : final' = [final EXCEPT ![r] = e]
        /\ UNCHANGED <<plan, try>>
  /\ UNCHANGED <<step, on, pending, reply, linkVars, ownerVars>>

AlwaysRetry(r, why) == why # "response"

\* forwardIsSafeToRetry, and the check of NoAgent.
MayRetry(r, why) == why \in {"nolink", "notsent", "noagent"} \/ r \in Safe

\* What becomes of the request when its attempt ends: it is served, tried
\* elsewhere, or fails with the error of the local lookup.
After(r, why) ==
  \/ /\ why = "response"
     /\ final' = [final EXCEPT ![r] = "response"]
     /\ UNCHANGED try
  \/ /\ why # "response"
     /\ IF MayRetry(r, why) /\ try[r] < Len(plan[r])
          THEN /\ try' = [try EXCEPT ![r] = @ + 1]
               /\ UNCHANGED final
          ELSE /\ \E e \in {"forbidden", "unavailable"} : final' = [final EXCEPT ![r] = e]
               /\ UNCHANGED try

\* Forward: the link's current socket, the pending entry, the frame.
PickLink(f) ==
  LET o == OwnerOf(f)
      l == <<o, link[o]>>
      there == link[o] # 0 /\ ws[l] # 0
  IN  /\ f \in Ongoing(f[1])
      /\ step[f] = "none"
      /\ IF there
           THEN /\ on' = [on EXCEPT ![f] = <<link[o], ws[l]>>]
                /\ step' = [step EXCEPT ![f] = "picked"]
                /\ UNCHANGED <<try, final>>
           ELSE /\ step' = [step EXCEPT ![f] = "over"]
                /\ After(f[1], "nolink")
                /\ UNCHANGED on
      /\ UNCHANGED <<plan, pending, reply, linkVars, ownerVars>>

AddPending(f) ==
  /\ step[f] = "picked"
  /\ step' = [step EXCEPT ![f] = "added"]
  /\ pending' = pending \cup {f}
  /\ UNCHANGED <<plan, try, final, on, reply, linkVars, ownerVars>>

\* A write to a broken socket may vanish or fail, to a closed one it fails.  A
\* write that misses its deadline leaves the connection unusable.
Send(f) ==
  LET s == SockOf(f)
  IN  /\ step[f] = "added"
      /\ \/ /\ sock[s] # "closed"
            /\ step' = [step EXCEPT ![f] = "waiting"]
            /\ wire' = IF sock[s] = "up" THEN wire \cup {f} ELSE wire
            /\ UNCHANGED <<try, final, pending, sock>>
         \/ /\ step' = [step EXCEPT ![f] = "over"]
            /\ pending' = pending \ {f}
            /\ sock' = [sock EXCEPT ![s] = IF @ = "up" THEN "broken" ELSE @]
            /\ After(f[1], "notsent")
            /\ UNCHANGED wire
      /\ UNCHANGED <<plan, on, reply, link, loop, dials, ws, serving, answers, runs, served>>

Return(f) ==
  /\ step[f] = "waiting"
  /\ reply[f] # "empty"
  /\ step' = [step EXCEPT ![f] = "over"]
  /\ After(f[1], reply[f])
  /\ UNCHANGED <<plan, on, pending, reply, linkVars, ownerVars>>

Timeout(f) ==
  /\ step[f] = "waiting"
  /\ step' = [step EXCEPT ![f] = "over"]
  /\ pending' = pending \ {f}
  /\ After(f[1], "timeout")
  /\ UNCHANGED <<plan, on, reply, linkVars, ownerVars>>

\* The link's reader handles the answer.
Receive(f) ==
  /\ answers[f] # "none"
  /\ loop[SockOf(f)[1]] = "serving"
  /\ dials[SockOf(f)[1]] = SockOf(f)[2]
  /\ answers' = [answers EXCEPT ![f] = "none"]
  /\ IF f \in pending
       THEN /\ pending' = pending \ {f}
            /\ reply' = [reply EXCEPT ![f] = answers[f]]
       ELSE UNCHANGED <<pending, reply>>
  /\ UNCHANGED <<plan, try, final, step, on, linkVars, wire, serving, runs, served>>

-----------------------------------------------------------------------------
\* The owner: the frame arrives, ServeForward dispatches it (an Exchange), the
\* answer goes back on the same socket.
Arrive(f) ==
  /\ f \in wire
  /\ wire' = wire \ {f}
  /\ serving' = serving \cup {f}
  /\ UNCHANGED <<linkVars, callVars, answers, runs, served>>

\* The agent may also run it after its owner has given up on it.
Dispatch(f) ==
  /\ f \in serving \/ served[f] = "failed"
  /\ X!Run(f) \/ X!Respond(f) \/ X!Refuse(f) \/ X!Fail(f)
  /\ UNCHANGED <<linkVars, callVars, wire, serving, answers>>

\* A refused request had no agent, or its agent could not be sent to.  The
\* answer may be lost.
ServeForward(f) ==
  LET kinds == CASE served[f] = "response" -> {"response"}
                 [] served[f] = "refused" -> {"noagent", "error"}
                 [] served[f] = "failed" -> {"error"}
  IN  /\ f \in serving
      /\ served[f] # "none"
      /\ serving' = serving \ {f}
      /\ \/ UNCHANGED answers
         \/ /\ sock[SockOf(f)] # "closed"
            /\ \E k \in kinds : answers' = [answers EXCEPT ![f] = k]
      /\ UNCHANGED <<linkVars, callVars, wire, runs, served>>

-----------------------------------------------------------------------------
LinkStep(l) ==
  \/ Dial(l) \/ CloseCancelled(l) \/ LinkLost(l)
  \/ Unpublish(l) \/ CloseSocket(l) \/ FailPending(l)

Call(f) == PickLink(f) \/ AddPending(f) \/ Send(f) \/ Return(f)

Next ==
  \/ \E o \in Owners : AddLink(o) \/ DropLink(o)
  \/ \E l \in Links : LinkStep(l)
  \/ \E s \in Socks : Break(s)
  \/ \E r \in Reqs : Lookup(r)
  \/ \E f \in Fwds : \/ Call(f) \/ Timeout(f) \/ Receive(f)
                     \/ Arrive(f) \/ Dispatch(f) \/ ServeForward(f)

Spec == Init /\ [][Next]_vars

\* A reader is sure to fail only when its connection is broken or closed, which
\* its deadline or the AfterFunc brings about.
ReadFails(l) == loop[l] = "serving" => sock[Socket(l)] # "up" \/ Cancelled(l)

\* Goroutines run; no forward has to time out, and no owner has to answer.
Fair ==
  /\ \A l \in Links : WF_vars(ReadFails(l) /\ LinkStep(l))
  /\ \A f \in Fwds : WF_vars(Call(f))

FairSpec == Spec /\ Fair

-----------------------------------------------------------------------------
(***************************************************************************)
(* A request whose method is not safe is run at most once, however its     *)
(* links break, its answers get lost and it is tried again                 *)
(* (forwardViaMesh, forwardIsSafeToRetry, ServeForward).                   *)
(***************************************************************************)
AtMostOnce ==
  \A r \in Reqs \ Safe : ~(runs[<<r, 1>>] = 1 /\ runs[<<r, 2>>] = 1)

(***************************************************************************)
(* Whoever waits for an answer on a socket this pod has closed is still    *)
(* going to be released: the link has yet to fail its pending forwards,    *)
(* and no forward can slip in behind that (runLink, failPendingForPeer,    *)
(* Forward).                                                               *)
(***************************************************************************)
NoForwardStranded ==
  \A f \in Fwds :
    step[f] = "waiting" /\ reply[f] = "empty" /\ sock[SockOf(f)] = "closed"
      => LET l == SockOf(f)[1]
         IN  Socket(l) = SockOf(f) /\ loop[l] # "dialing"

(***************************************************************************)
(* A forward whose socket breaks comes back without its timeout            *)
(* (runLink, failPendingForPeer).                                          *)
(***************************************************************************)
BrokenForwardsReturn ==
  \A f \in Fwds : (step[f] = "waiting" /\ sock[SockOf(f)] = "broken") ~> (step[f] = "over")

-----------------------------------------------------------------------------
(* Why the invariants hold: the strengthening that is inductive.            *)

UnderWay(f) == step[f] \in {"picked", "added", "waiting"}

\* An attempt under way is the latest of its request, and one to a planned
\* owner; later ones have not begun.
AttemptsInOrder ==
  /\ \A r \in Reqs : try[r] <= Len(plan[r])
  /\ \A f \in Fwds : /\ UnderWay(f) => f \in Ongoing(f[1])
                     /\ f[2] > try[f[1]] => step[f] = "none"

\* The owner does not have the forward.
Unsent(f) == f \notin wire \cup serving /\ served[f] = "none" /\ runs[f] = 0

UnsentUntilWritten == \A f \in Fwds : step[f] \in {"none", "picked", "added"} => Unsent(f)

\* NoAgent is said only of requests that were refused.
NoAgentIsRefusal ==
  \A f \in Fwds :
    /\ answers[f] = "noagent" \/ reply[f] = "noagent" => served[f] = "refused"
    /\ served[f] = "refused" => runs[f] = 0

\* A second attempt is made only when the first cannot run any more.
NeverRuns(f) == step[f] = "over" /\ runs[f] = 0 /\ (served[f] = "refused" \/ Unsent(f))

RetriedNeverRan == \A r \in Reqs \ Safe : try[r] = 2 => NeverRuns(<<r, 1>>)

\* A link has one websocket that is not closed, which it publishes while it
\* serves it.
OneSocket ==
  \A l \in Links :
    /\ ws[l] = IF loop[l] \in {"serving", "lost"} THEN dials[l] ELSE 0
    /\ loop[l] = "idle" => dials[l] = 0
    /\ loop[l] \in {"serving", "lost", "detached", "closed"} => dials[l] # 0
    /\ \A n \in 1 .. MaxDials :
         n < dials[l] \/ (n = dials[l] /\ loop[l] \in {"dialing", "closed"}) => sock[<<l, n>>] = "closed"

\* An attempt under way has picked a websocket its link has dialled.
OnDialled ==
  \A f \in Fwds :
    UnderWay(f) => on[f][1] # 0 /\ on[f][2] # 0 /\ on[f][2] <= dials[SockOf(f)[1]]

\* Who waits without an answer can be found and released.
WaitersPending ==
  \A f \in Fwds : step[f] \in {"added", "waiting"} /\ reply[f] = "empty" => f \in pending

ForwardInv ==
  /\ TypeOK
  /\ AttemptsInOrder
  /\ UnsentUntilWritten
  /\ NoAgentIsRefusal
  /\ RetriedNeverRan
  /\ OneSocket
  /\ OnDialled
  /\ WaitersPending
  /\ NoForwardStranded
=============================================================================
