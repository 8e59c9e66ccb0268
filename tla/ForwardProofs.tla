--------------------------- MODULE ForwardProofs ----------------------------
(***************************************************************************)
(* Proofs about Forward, for any number of owners, requests, links and     *)
(* websockets, and whatever Lookup returns.                                *)
(***************************************************************************)
EXTENDS Forward, TLAPS

-----------------------------------------------------------------------------
\* The links and their websockets: dialling, losing, detaching and closing.

(* The socket of an attempt under way is one of its owner's (Forward). *)
LEMMA SockFacts ==
  ASSUME ForwardInv, NEW f \in Fwds, f \in Ongoing(f[1])
  PROVE  /\ f[1] \in Reqs /\ f[2] \in {1, 2} /\ f = <<f[1], f[2]>>
         /\ f[2] = try[f[1]] /\ final[f[1]] = "none"
         /\ OwnerOf(f) \in Owners
         /\ UnderWay(f) => /\ SockOf(f) \in Socks
                           /\ SockOf(f)[1] \in Links /\ SockOf(f)[1][1] = OwnerOf(f)
                           /\ SockOf(f) = <<SockOf(f)[1], SockOf(f)[2]>>
                           /\ SockOf(f)[2] \in 1 .. MaxDials
                           /\ SockOf(f)[2] <= dials[SockOf(f)[1]]
<1>1. f[1] \in Reqs /\ f[2] \in {1, 2} /\ f = <<f[1], f[2]>>
  BY DEF Fwds
<1>2. f[2] = try[f[1]] /\ final[f[1]] = "none"
  BY DEF Ongoing
<1>3. plan[f[1]] \in Seq(Owners) /\ f[2] <= Len(plan[f[1]])
  BY <1>1, <1>2 DEF ForwardInv, TypeOK, AttemptsInOrder
<1>4. OwnerOf(f) \in Owners
  <2>1. f[2] \in 1 .. Len(plan[f[1]])
    BY <1>1, <1>3
  <2>2. QED
    BY <1>3, <2>1 DEF OwnerOf
<1>5. ASSUME UnderWay(f)
      PROVE  /\ SockOf(f) \in Socks
             /\ SockOf(f)[1] \in Links /\ SockOf(f)[1][1] = OwnerOf(f)
             /\ SockOf(f) = <<SockOf(f)[1], SockOf(f)[2]>>
             /\ SockOf(f)[2] \in 1 .. MaxDials
             /\ SockOf(f)[2] <= dials[SockOf(f)[1]]
  <2>1. /\ on[f][1] \in 0 .. MaxLinks /\ on[f][2] \in 0 .. MaxDials
        /\ on[f][1] # 0 /\ on[f][2] # 0 /\ on[f][2] <= dials[SockOf(f)[1]]
    BY <1>5 DEF ForwardInv, TypeOK, OnDialled
  <2>2. on[f][1] \in 1 .. MaxLinks /\ on[f][2] \in 1 .. MaxDials
    BY <2>1, BoundsAssumption
  <2>3. QED
    BY <1>4, <2>1, <2>2 DEF SockOf, Socks, Links
<1>6. QED
  BY <1>1, <1>2, <1>4, <1>5

(* Attempts under way are ongoing ones (forwardViaMesh waits for each). *)
LEMMA UnderWayIsOngoing ==
  ASSUME ForwardInv, NEW f \in Fwds, UnderWay(f)
  PROVE  f \in Ongoing(f[1])
BY DEF ForwardInv, AttemptsInOrder

(* A step of the links alone leaves the calls and the owners as they are; it has to
   keep the sockets of the links in order and may strand nobody. *)
LEMMA LinksKeep ==
  ASSUME ForwardInv,
         link' \in [Owners -> 0 .. MaxLinks],
         loop' \in [Links -> {"idle", "dialing", "serving", "lost", "detached", "closed"}],
         dials' \in [Links -> 0 .. MaxDials],
         ws' \in [Links -> 0 .. MaxDials],
         sock' \in [Socks -> {"new", "up", "broken", "closed"}],
         \A l \in Links : dials[l] <= dials'[l],
         OneSocket', NoForwardStranded',
         UNCHANGED <<callVars, ownerVars>>
  PROVE  ForwardInv'
<1>1. /\ UNCHANGED <<plan, try, final, step, on, pending, reply>>
      /\ UNCHANGED <<wire, serving, answers, runs, served>>
  BY DEF callVars, ownerVars
<1>2. TypeOK'
  BY <1>1 DEF ForwardInv, TypeOK
<1>3. AttemptsInOrder' /\ WaitersPending'
  BY <1>1 DEF ForwardInv, AttemptsInOrder, WaitersPending, UnderWay, Ongoing
<1>4. UnsentUntilWritten' /\ NoAgentIsRefusal' /\ RetriedNeverRan'
  BY <1>1 DEF ForwardInv, UnsentUntilWritten, NoAgentIsRefusal, RetriedNeverRan, NeverRuns, Unsent
<1>5. OnDialled'
  <2> SUFFICES ASSUME NEW f \in Fwds, UnderWay(f)
               PROVE  on[f][1] # 0 /\ on[f][2] # 0 /\ on[f][2] <= dials'[SockOf(f)[1]]
    BY <1>1 DEF OnDialled, UnderWay, SockOf, OwnerOf
  <2>1. on[f][1] # 0 /\ on[f][2] # 0 /\ on[f][2] <= dials[SockOf(f)[1]]
    BY DEF ForwardInv, OnDialled
  <2>2. SockOf(f)[1] \in Links
    BY UnderWayIsOngoing, SockFacts
  <2>3. on[f][2] \in Nat /\ dials[SockOf(f)[1]] \in Nat /\ dials'[SockOf(f)[1]] \in Nat
        /\ dials[SockOf(f)[1]] <= dials'[SockOf(f)[1]]
    BY <2>2 DEF ForwardInv, TypeOK
  <2>4. QED
    BY <2>1, <2>3
<1>6. QED
  BY <1>2, <1>3, <1>4, <1>5 DEF ForwardInv

(* Links come and go, and find that their socket is lost, without touching a socket
   (reconcilePeers, runLink). *)
LEMMA LoopKeeps ==
  ASSUME ForwardInv,
         \/ \E o \in Owners : AddLink(o) \/ DropLink(o)
         \/ \E l \in Links : LinkLost(l) \/ Unpublish(l)
  PROVE  ForwardInv'
<1>1. /\ link \in [Owners -> 0 .. MaxLinks]
      /\ loop \in [Links -> {"idle", "dialing", "serving", "lost", "detached", "closed"}]
      /\ dials \in [Links -> 0 .. MaxDials] /\ ws \in [Links -> 0 .. MaxDials]
      /\ sock \in [Socks -> {"new", "up", "broken", "closed"}]
      /\ MaxLinks \in Nat /\ MaxDials \in Nat
  BY BoundsAssumption DEF ForwardInv, TypeOK
<1>2. ASSUME NEW l \in Links, NEW x \in {"dialing", "lost", "detached"},
             loop' = [loop EXCEPT ![l] = x],
             ws' \in [Links -> 0 .. MaxDials],
             \A k \in Links : k # l => ws'[k] = ws[k],
             ws'[l] = IF x = "lost" THEN dials[l] ELSE 0,
             x = "dialing" => dials[l] = 0,
             x # "dialing" => dials[l] # 0,
             UNCHANGED <<dials, sock, callVars, ownerVars>>,
             link' \in [Owners -> 0 .. MaxLinks]
      PROVE  ForwardInv'
  <2>1. /\ loop' \in [Links -> {"idle", "dialing", "serving", "lost", "detached", "closed"}]
        /\ loop'[l] = x /\ \A k \in Links : k # l => loop'[k] = loop[k]
    BY <1>1, <1>2
  <2>2. OneSocket'
    <3> SUFFICES ASSUME NEW k \in Links
                 PROVE  /\ ws'[k] = IF loop'[k] \in {"serving", "lost"} THEN dials[k] ELSE 0
                        /\ loop'[k] = "idle" => dials[k] = 0
                        /\ loop'[k] \in {"serving", "lost", "detached", "closed"} => dials[k] # 0
                        /\ \A n \in 1 .. MaxDials :
                             n < dials[k] \/ (n = dials[k] /\ loop'[k] \in {"dialing", "closed"})
                               => sock[<<k, n>>] = "closed"
      BY <1>2 DEF OneSocket
    <3>1. CASE k # l
      BY <1>2, <2>1, <3>1 DEF ForwardInv, OneSocket
    <3>2. CASE k = l
      BY <1>1, <1>2, <2>1, <3>2 DEF ForwardInv, OneSocket
    <3>3. QED
      BY <3>1, <3>2
  <2>3. NoForwardStranded'
    <3> SUFFICES ASSUME NEW f \in Fwds, step[f] = "waiting", reply[f] = "empty",
                        sock[SockOf(f)] = "closed"
                 PROVE  Socket(SockOf(f)[1]) = SockOf(f) /\ loop'[SockOf(f)[1]] # "dialing"
      BY <1>2 DEF NoForwardStranded, SockOf, OwnerOf, Socket, callVars
    <3>1. /\ Socket(SockOf(f)[1]) = SockOf(f) /\ loop[SockOf(f)[1]] # "dialing"
      BY DEF ForwardInv, NoForwardStranded
    <3>2. /\ SockOf(f)[1] \in Links /\ SockOf(f)[2] \in 1 .. MaxDials
          /\ SockOf(f)[2] <= dials[SockOf(f)[1]]
      BY UnderWayIsOngoing, SockFacts DEF UnderWay
    <3>3. dials[SockOf(f)[1]] # 0
      BY <1>1, <3>2
    <3>4. QED
      BY <1>2, <2>1, <3>1, <3>2, <3>3
  <2>4. \A k \in Links : dials[k] <= dials'[k]
    BY <1>1, <1>2
  <2>5. QED
    BY <1>1, <1>2, <2>1, <2>2, <2>3, <2>4, LinksKeep
<1>3. ASSUME NEW o \in Owners, AddLink(o) PROVE ForwardInv'
  <2>1. PICK k \in 1 .. MaxLinks :
          /\ loop[<<o, k>>] = "idle"
          /\ link' = [link EXCEPT ![o] = k]
          /\ loop' = [loop EXCEPT ![<<o, k>>] = "dialing"]
    BY <1>3, Zenon DEF AddLink
  <2>2. <<o, k>> \in Links
    BY DEF Links
  <2>3. /\ dials[<<o, k>>] = 0 /\ ws[<<o, k>>] = 0
    BY <2>1, <2>2 DEF ForwardInv, OneSocket
  <2>4. UNCHANGED <<dials, sock, callVars, ownerVars>> /\ ws' = ws
    BY <1>3 DEF AddLink
  <2>5. link' \in [Owners -> 0 .. MaxLinks]
    BY <1>1, <2>1
  <2>6. QED
    BY <1>1, <1>2, <2>1, <2>2, <2>3, <2>4, <2>5, Zenon
<1>4. ASSUME NEW o \in Owners, DropLink(o) PROVE ForwardInv'
  <2>1. link' \in [Owners -> 0 .. MaxLinks] /\ UNCHANGED <<loop, dials, ws, sock, callVars, ownerVars>>
    BY <1>1, <1>4 DEF DropLink
  <2>2. OneSocket' /\ NoForwardStranded'
    BY <2>1 DEF ForwardInv, OneSocket, NoForwardStranded, SockOf, OwnerOf, Socket, callVars
  <2>3. \A k \in Links : dials[k] <= dials'[k]
    BY <1>1, <2>1
  <2>4. QED
    BY <1>1, <2>1, <2>2, <2>3, LinksKeep
<1>5. ASSUME NEW l \in Links, LinkLost(l) PROVE ForwardInv'
  <2>1. /\ loop[l] = "serving" /\ loop' = [loop EXCEPT ![l] = "lost"]
        /\ UNCHANGED <<dials, sock, callVars, ownerVars>> /\ ws' = ws /\ link' = link
    BY <1>5 DEF LinkLost
  <2>2. ws[l] = dials[l] /\ dials[l] # 0
    BY <2>1 DEF ForwardInv, OneSocket
  <2>3. QED
    BY <1>1, <1>2, <2>1, <2>2, Zenon
<1>6. ASSUME NEW l \in Links, Unpublish(l) PROVE ForwardInv'
  <2>1. /\ loop[l] = "lost" /\ loop' = [loop EXCEPT ![l] = "detached"]
        /\ ws' = [ws EXCEPT ![l] = 0]
        /\ UNCHANGED <<dials, sock, callVars, ownerVars>> /\ link' = link
    BY <1>6 DEF Unpublish
  <2>2. dials[l] # 0
    BY <2>1 DEF ForwardInv, OneSocket
  <2>3. /\ ws' \in [Links -> 0 .. MaxDials] /\ ws'[l] = 0
        /\ \A k \in Links : k # l => ws'[k] = ws[k]
    BY <1>1, <2>1
  <2>4. QED
    BY <1>1, <1>2, <2>1, <2>2, <2>3, Zenon
<1>7. QED
  BY <1>3, <1>4, <1>5, <1>6

(* A link dials only after its last socket is closed and its waiters are released,
   so that nobody waits on the old one (runLink). *)
LEMMA DialKeeps ==
  ASSUME ForwardInv, NEW l \in Links, Dial(l)
  PROVE  ForwardInv'
<1>1. /\ link \in [Owners -> 0 .. MaxLinks]
      /\ loop \in [Links -> {"idle", "dialing", "serving", "lost", "detached", "closed"}]
      /\ dials \in [Links -> 0 .. MaxDials] /\ ws \in [Links -> 0 .. MaxDials]
      /\ sock \in [Socks -> {"new", "up", "broken", "closed"}]
      /\ MaxLinks \in Nat /\ MaxDials \in Nat
  BY BoundsAssumption DEF ForwardInv, TypeOK
<1>2. /\ loop[l] = "dialing" /\ dials[l] < MaxDials
      /\ dials' = [dials EXCEPT ![l] = dials[l] + 1]
      /\ ws' = [ws EXCEPT ![l] = dials[l] + 1]
      /\ sock' = [sock EXCEPT ![<<l, dials[l] + 1>>] = "up"]
      /\ loop' = [loop EXCEPT ![l] = "serving"]
      /\ link' = link /\ UNCHANGED <<callVars, ownerVars>>
  BY DEF Dial
<1>3. dials[l] + 1 \in 1 .. MaxDials /\ <<l, dials[l] + 1>> \in Socks
  BY <1>1, <1>2 DEF Socks
<1>4. /\ dials' \in [Links -> 0 .. MaxDials] /\ dials'[l] = dials[l] + 1
      /\ \A k \in Links : k # l => dials'[k] = dials[k]
      /\ \A k \in Links : dials[k] <= dials'[k]
  BY <1>1, <1>2, <1>3
<1>5. /\ ws' \in [Links -> 0 .. MaxDials] /\ ws'[l] = dials[l] + 1
      /\ \A k \in Links : k # l => ws'[k] = ws[k]
  BY <1>1, <1>2, <1>3
<1>6. /\ loop' \in [Links -> {"idle", "dialing", "serving", "lost", "detached", "closed"}]
      /\ loop'[l] = "serving" /\ \A k \in Links : k # l => loop'[k] = loop[k]
  BY <1>1, <1>2
<1>7. /\ sock' \in [Socks -> {"new", "up", "broken", "closed"}]
      /\ \A k \in Links, n \in 1 .. MaxDials :
           k # l \/ n # dials[l] + 1 => sock'[<<k, n>>] = sock[<<k, n>>]
  BY <1>1, <1>2 DEF Socks
<1>8. OneSocket'
  <2> SUFFICES ASSUME NEW k \in Links
               PROVE  /\ ws'[k] = IF loop'[k] \in {"serving", "lost"} THEN dials'[k] ELSE 0
                      /\ loop'[k] = "idle" => dials'[k] = 0
                      /\ loop'[k] \in {"serving", "lost", "detached", "closed"} => dials'[k] # 0
                      /\ \A n \in 1 .. MaxDials :
                           n < dials'[k] \/ (n = dials'[k] /\ loop'[k] \in {"dialing", "closed"})
                             => sock'[<<k, n>>] = "closed"
    BY DEF OneSocket
  <2>1. CASE k # l
    BY <1>4, <1>5, <1>6, <1>7, <2>1 DEF ForwardInv, OneSocket
  <2>2. CASE k = l
    <3>1. dials'[k] # 0 /\ ws'[k] = dials'[k] /\ loop'[k] = "serving"
      BY <1>1, <1>4, <1>5, <1>6, <2>2
    <3>2. ASSUME NEW n \in 1 .. MaxDials, n < dials'[k]
          PROVE  sock'[<<k, n>>] = "closed"
      <4>1. n < dials[l] \/ n = dials[l]
        BY <1>1, <1>4, <2>2, <3>2
      <4>2. sock[<<l, n>>] = "closed"
        BY <1>2, <4>1 DEF ForwardInv, OneSocket
      <4>3. n # dials[l] + 1
        BY <1>1, <1>4, <2>2, <3>2
      <4>4. QED
        BY <1>7, <2>2, <4>2, <4>3
    <3>3. QED
      BY <3>1, <3>2
  <2>3. QED
    BY <2>1, <2>2
<1>9. NoForwardStranded'
  <2> SUFFICES ASSUME NEW f \in Fwds, step[f] = "waiting", reply[f] = "empty",
                      sock'[SockOf(f)] = "closed"
               PROVE  <<SockOf(f)[1], dials'[SockOf(f)[1]]>> = SockOf(f) /\ loop'[SockOf(f)[1]] # "dialing"
    BY <1>2, Zenon DEF NoForwardStranded, SockOf, OwnerOf, Socket, callVars
  <2> DEFINE k == SockOf(f)[1]
             n == SockOf(f)[2]
  <2>1. k \in Links /\ n \in 1 .. MaxDials /\ SockOf(f) = <<k, n>> /\ n <= dials[k]
    BY UnderWayIsOngoing, SockFacts DEF UnderWay
  <2> HIDE DEF k, n
  <2>2. k # l \/ n # dials[l] + 1
    BY <1>1, <2>1
  <2>3. sock[SockOf(f)] = "closed"
    BY <1>7, <2>1, <2>2
  <2>4. <<k, dials[k]>> = SockOf(f) /\ loop[k] # "dialing"
    BY <2>3 DEF ForwardInv, NoForwardStranded, Socket, k
  <2>5. k # l
    BY <1>2, <2>4
  <2>6. QED
    BY <1>4, <1>6, <2>1, <2>4, <2>5 DEF k
<1>10. QED
  BY <1>1, <1>2, <1>4, <1>5, <1>6, <1>7, <1>8, <1>9, LinksKeep

(* Breaking a socket strands nobody, and closing one does not either as long as its
   link has yet to release its waiters (runLink, serveLink). *)
LEMMA SocketsKeep ==
  ASSUME ForwardInv,
         \/ \E l \in Links : CloseCancelled(l) \/ CloseSocket(l)
         \/ \E s \in Socks : Break(s)
  PROVE  ForwardInv'
<1>1. /\ link \in [Owners -> 0 .. MaxLinks]
      /\ loop \in [Links -> {"idle", "dialing", "serving", "lost", "detached", "closed"}]
      /\ dials \in [Links -> 0 .. MaxDials] /\ ws \in [Links -> 0 .. MaxDials]
      /\ sock \in [Socks -> {"new", "up", "broken", "closed"}]
      /\ MaxLinks \in Nat /\ MaxDials \in Nat
  BY BoundsAssumption DEF ForwardInv, TypeOK
<1>2. ASSUME NEW s \in Socks, sock' = [sock EXCEPT ![s] = "broken"], sock[s] = "up",
             UNCHANGED <<link, loop, dials, ws, callVars, ownerVars>>
      PROVE  ForwardInv'
  <2>1. /\ sock' \in [Socks -> {"new", "up", "broken", "closed"}]
        /\ \A t \in Socks : (sock'[t] = "closed") = (sock[t] = "closed")
    BY <1>1, <1>2
  <2>2. OneSocket'
    <3>1. \A l \in Links, n \in 1 .. MaxDials : <<l, n>> \in Socks
      BY DEF Socks
    <3>2. QED
      BY <1>2, <2>1, <3>1 DEF ForwardInv, OneSocket
  <2>3. NoForwardStranded'
    <3> SUFFICES ASSUME NEW f \in Fwds, step[f] = "waiting", reply[f] = "empty",
                        sock'[SockOf(f)] = "closed"
                 PROVE  Socket(SockOf(f)[1]) = SockOf(f) /\ loop[SockOf(f)[1]] # "dialing"
      BY <1>2 DEF NoForwardStranded, SockOf, OwnerOf, Socket, callVars
    <3>1. SockOf(f) \in Socks
      BY UnderWayIsOngoing, SockFacts DEF UnderWay
    <3>2. QED
      BY <2>1, <3>1 DEF ForwardInv, NoForwardStranded
  <2>4. \A k \in Links : dials[k] <= dials'[k]
    BY <1>1, <1>2
  <2>5. QED
    BY <1>1, <1>2, <2>1, <2>2, <2>3, <2>4, LinksKeep
<1>3. ASSUME NEW l \in Links, NEW x \in {"serving", "closed"},
             loop[l] \in {"serving", "detached"}, x = "serving" => loop[l] = "serving",
             sock' = [sock EXCEPT ![Socket(l)] = "closed"],
             loop' = [loop EXCEPT ![l] = x],
             UNCHANGED <<link, dials, callVars, ownerVars>>, ws' = ws,
             x = "closed" => loop[l] = "detached"
      PROVE  ForwardInv'
  <2>1. /\ loop' \in [Links -> {"idle", "dialing", "serving", "lost", "detached", "closed"}]
        /\ loop'[l] = x /\ \A k \in Links : k # l => loop'[k] = loop[k]
    BY <1>1, <1>3
  <2>2. dials[l] \in 1 .. MaxDials /\ Socket(l) \in Socks
    BY <1>1, <1>3 DEF ForwardInv, OneSocket, Socket, Socks
  <2>3. /\ sock' \in [Socks -> {"new", "up", "broken", "closed"}]
        /\ \A t \in Socks : sock'[t] = IF t = Socket(l) THEN "closed" ELSE sock[t]
    BY <1>1, <1>3, <2>2
  <2>4. OneSocket'
    <3> SUFFICES ASSUME NEW k \in Links
                 PROVE  /\ ws[k] = IF loop'[k] \in {"serving", "lost"} THEN dials[k] ELSE 0
                        /\ loop'[k] = "idle" => dials[k] = 0
                        /\ loop'[k] \in {"serving", "lost", "detached", "closed"} => dials[k] # 0
                        /\ \A n \in 1 .. MaxDials :
                             n < dials[k] \/ (n = dials[k] /\ loop'[k] \in {"dialing", "closed"})
                               => sock'[<<k, n>>] = "closed"
      BY <1>3 DEF OneSocket
    <3>1. /\ ws[k] = IF loop'[k] \in {"serving", "lost"} THEN dials[k] ELSE 0
          /\ loop'[k] = "idle" => dials[k] = 0
          /\ loop'[k] \in {"serving", "lost", "detached", "closed"} => dials[k] # 0
      <4>1. CASE k # l
        BY <2>1, <4>1 DEF ForwardInv, OneSocket
      <4>2. CASE k = l
        BY <1>3, <2>1, <4>2 DEF ForwardInv, OneSocket
      <4>3. QED
        BY <4>1, <4>2
    <3>2. ASSUME NEW n \in 1 .. MaxDials,
                 n < dials[k] \/ (n = dials[k] /\ loop'[k] \in {"dialing", "closed"})
          PROVE  sock'[<<k, n>>] = "closed"
      <4>1. <<k, n>> \in Socks
        BY DEF Socks
      <4>2. CASE <<k, n>> = Socket(l)
        BY <2>3, <4>1, <4>2
      <4>3. CASE <<k, n>> # Socket(l)
        <5>1. sock'[<<k, n>>] = sock[<<k, n>>]
          BY <2>3, <4>1, <4>3
        <5>2. k # l \/ n < dials[k]
          BY <3>2, <4>3 DEF Socket
        <5>3. sock[<<k, n>>] = "closed"
          BY <2>1, <3>2, <5>2 DEF ForwardInv, OneSocket
        <5>4. QED
          BY <5>1, <5>3
      <4>4. QED
        BY <4>2, <4>3
    <3>3. QED
      BY <3>1, <3>2
  <2>5. NoForwardStranded'
    <3> SUFFICES ASSUME NEW f \in Fwds, step[f] = "waiting", reply[f] = "empty",
                        sock'[SockOf(f)] = "closed"
                 PROVE  Socket(SockOf(f)[1]) = SockOf(f) /\ loop'[SockOf(f)[1]] # "dialing"
      BY <1>3 DEF NoForwardStranded, SockOf, OwnerOf, Socket, callVars
    <3>1. SockOf(f) \in Socks /\ SockOf(f)[1] \in Links
      BY UnderWayIsOngoing, SockFacts DEF UnderWay
    <3>2. CASE SockOf(f) = Socket(l)
      BY <2>1, <3>2 DEF Socket
    <3>3. CASE SockOf(f) # Socket(l)
      <4>1. Socket(SockOf(f)[1]) = SockOf(f) /\ loop[SockOf(f)[1]] # "dialing"
        BY <2>3, <3>1, <3>3 DEF ForwardInv, NoForwardStranded
      <4>2. QED
        BY <2>1, <3>1, <4>1
    <3>4. QED
      BY <3>2, <3>3
  <2>6. \A k \in Links : dials[k] <= dials'[k]
    BY <1>1, <1>3
  <2>7. QED
    BY <1>1, <1>3, <2>1, <2>3, <2>4, <2>5, <2>6, LinksKeep
<1>4. ASSUME NEW l \in Links, CloseCancelled(l) PROVE ForwardInv'
  <2>1. loop' = [loop EXCEPT ![l] = "serving"]
    BY <1>1, <1>4 DEF CloseCancelled
  <2>2. QED
    BY <1>3, <1>4, <2>1, Zenon DEF CloseCancelled
<1>5. ASSUME NEW l \in Links, CloseSocket(l) PROVE ForwardInv'
  BY <1>3, <1>5, Zenon DEF CloseSocket
<1>6. ASSUME NEW s \in Socks, Break(s) PROVE ForwardInv'
  BY <1>2, <1>6, Zenon DEF Break
<1>7. QED
  BY <1>4, <1>5, <1>6

(* Every forward to the owner is released before the link dials again
   (failPendingForPeer). *)
LEMMA FailPendingKeeps ==
  ASSUME ForwardInv, NEW l \in Links, FailPending(l)
  PROVE  ForwardInv'
<1> DEFINE orphaned == {f \in pending : OwnerOf(f) = l[1]}
<1>1. /\ loop[l] = "closed" /\ loop' = [loop EXCEPT ![l] = "dialing"]
      /\ pending' = pending \ orphaned
      /\ reply' = [f \in Fwds |-> IF f \in orphaned THEN "nil" ELSE reply[f]]
      /\ UNCHANGED <<link, dials, ws, sock, plan, try, final, step, on>>
      /\ UNCHANGED <<wire, serving, answers, runs, served>>
  BY DEF FailPending, Release, ownerVars
<1>2. \A f \in Fwds : reply'[f] = IF f \in orphaned THEN "nil" ELSE reply[f]
  BY <1>1
<1>3. TypeOK'
  <2>1. /\ loop' \in [Links -> {"idle", "dialing", "serving", "lost", "detached", "closed"}]
        /\ reply' \in [Fwds -> {"empty", "response", "noagent", "error", "nil"}]
        /\ pending' \subseteq Fwds
    BY <1>1 DEF ForwardInv, TypeOK
  <2>2. QED
    BY <1>1, <2>1 DEF ForwardInv, TypeOK
<1>4. loop'[l] = "dialing" /\ \A k \in Links : k # l => loop'[k] = loop[k]
  BY <1>1 DEF ForwardInv, TypeOK
<1>5. AttemptsInOrder' /\ UnsentUntilWritten' /\ RetriedNeverRan'
  BY <1>1 DEF ForwardInv, AttemptsInOrder, UnderWay, Ongoing, UnsentUntilWritten, RetriedNeverRan,
              NeverRuns, Unsent
<1>6. NoAgentIsRefusal'
  BY <1>1, <1>2 DEF ForwardInv, NoAgentIsRefusal
<1>7. OneSocket'
  <2> SUFFICES ASSUME NEW k \in Links
               PROVE  /\ ws[k] = IF loop'[k] \in {"serving", "lost"} THEN dials[k] ELSE 0
                      /\ loop'[k] = "idle" => dials[k] = 0
                      /\ loop'[k] \in {"serving", "lost", "detached", "closed"} => dials[k] # 0
                      /\ \A n \in 1 .. MaxDials :
                           n < dials[k] \/ (n = dials[k] /\ loop'[k] \in {"dialing", "closed"})
                             => sock[<<k, n>>] = "closed"
    BY <1>1 DEF OneSocket
  <2>1. CASE k # l
    BY <1>4, <2>1 DEF ForwardInv, OneSocket
  <2>2. CASE k = l
    BY <1>1, <1>4, <2>2 DEF ForwardInv, OneSocket
  <2>3. QED
    BY <2>1, <2>2
<1>8. OnDialled'
  BY <1>1 DEF ForwardInv, OnDialled, UnderWay, SockOf, OwnerOf
<1>9. WaitersPending'
  BY <1>1, <1>2 DEF ForwardInv, WaitersPending
<1>10. NoForwardStranded'
  <2> SUFFICES ASSUME NEW f \in Fwds, step[f] = "waiting", reply'[f] = "empty",
                      sock[SockOf(f)] = "closed"
               PROVE  Socket(SockOf(f)[1]) = SockOf(f) /\ loop'[SockOf(f)[1]] # "dialing"
    BY <1>1 DEF NoForwardStranded, SockOf, OwnerOf, Socket
  <2>1. f \notin orphaned /\ reply[f] = "empty"
    BY <1>2
  <2>2. f \in pending
    BY <2>1 DEF ForwardInv, WaitersPending
  <2>3. SockOf(f)[1] \in Links /\ SockOf(f)[1][1] = OwnerOf(f)
    BY UnderWayIsOngoing, SockFacts DEF UnderWay
  <2>4. SockOf(f)[1] # l
    BY <2>1, <2>2, <2>3
  <2>5. Socket(SockOf(f)[1]) = SockOf(f) /\ loop[SockOf(f)[1]] # "dialing"
    BY <2>1 DEF ForwardInv, NoForwardStranded
  <2>6. QED
    BY <1>4, <2>3, <2>4, <2>5
<1>11. QED
  BY <1>3, <1>5, <1>6, <1>7, <1>8, <1>9, <1>10 DEF ForwardInv

-----------------------------------------------------------------------------
\* The calls: attempts, writes, waiting and answers.

(* The attempt a request is at is not one past it: the numbers of forwardViaMesh's
   attempts. *)
LEMMA NotPast ==
  ASSUME NEW n \in {1, 2}, NEW t, n = t
  PROVE  ~(n > t)
OBVIOUS

(* An attempt goes on: it picks a socket, enters itself in the pending map, or is
   written to a socket that is not closed (Forward). *)
LEMMA MovesKeeps ==
  ASSUME ForwardInv, NEW f \in Fwds, f \in Ongoing(f[1]), step[f] # "over",
         NEW x \in {"picked", "added", "waiting"},
         step' = [step EXCEPT ![f] = x],
         on' \in [Fwds -> (0 .. MaxLinks) \X (0 .. MaxDials)],
         \A g \in Fwds : g # f => on'[g] = on[g],
         on'[f][1] # 0, on'[f][2] # 0, on'[f][2] <= dials[<<OwnerOf(f), on'[f][1]>>],
         pending' \in SUBSET Fwds, pending \subseteq pending',
         x \in {"added", "waiting"} /\ reply[f] = "empty" => f \in pending',
         wire' = wire \/ wire' = wire \cup {f},
         x # "waiting" => wire' = wire /\ Unsent(f),
         x = "waiting" => on'[f] = on[f] /\ sock[SockOf(f)] # "closed",
         UNCHANGED <<plan, try, final, reply, linkVars, serving, answers, runs, served>>
  PROVE  ForwardInv'
<1>1. /\ UNCHANGED <<link, loop, dials, ws, sock>>
      /\ UNCHANGED <<plan, try, final, reply, serving, answers, runs, served>>
  BY DEF linkVars
<1>2. step'[f] = x /\ \A g \in Fwds : g # f => step'[g] = step[g]
  BY DEF ForwardInv, TypeOK
<1>3. TypeOK'
  <2>1. /\ step' \in [Fwds -> {"none", "picked", "added", "waiting", "over"}]
        /\ wire' \subseteq Fwds
    BY DEF ForwardInv, TypeOK
  <2>2. TypeOK
    BY DEF ForwardInv
  <2>3. /\ link' \in [Owners -> 0 .. MaxLinks]
        /\ loop' \in [Links -> {"idle", "dialing", "serving", "lost", "detached", "closed"}]
        /\ dials' \in [Links -> 0 .. MaxDials]
        /\ ws' \in [Links -> 0 .. MaxDials]
        /\ sock' \in [Socks -> {"new", "up", "broken", "closed"}]
    BY <1>1, <2>2 DEF TypeOK
  <2>4. /\ plan' \in [Reqs -> Seq(Owners)] /\ \A r \in Reqs : Len(plan'[r]) <= 2
        /\ try' \in [Reqs -> 0 .. 2]
        /\ final' \in [Reqs -> {"none", "response", "forbidden", "unavailable"}]
        /\ reply' \in [Fwds -> {"empty", "response", "noagent", "error", "nil"}]
    BY <1>1, <2>2 DEF TypeOK
  <2>5. /\ serving' \subseteq Fwds
        /\ answers' \in [Fwds -> {"none", "response", "noagent", "error"}]
        /\ runs' \in [Fwds -> {0, 1}]
        /\ served' \in [Fwds -> {"none", "response", "refused", "failed"}]
    BY <1>1, <2>2 DEF TypeOK
  <2>6. QED
    BY <2>1, <2>3, <2>4, <2>5, Zenon DEF TypeOK
<1>4. AttemptsInOrder'
  <2>1. \A g \in Fwds : /\ UnderWay(g)' => g \in Ongoing(g[1])
                        /\ g[2] > try[g[1]] => step'[g] = "none"
    <3> TAKE g \in Fwds
    <3>1. CASE g # f
      BY <1>2, <3>1 DEF ForwardInv, AttemptsInOrder, UnderWay
    <3>2. CASE g = f
      <4>1. g \in Ongoing(g[1]) /\ g[2] = try[g[1]] /\ g[2] \in {1, 2}
        BY <3>2, SockFacts
      <4>2. ~(g[2] > try[g[1]])
        BY <4>1, NotPast, Zenon
      <4>3. QED
        BY <4>1, <4>2, Zenon
    <3>3. QED
      BY <3>1, <3>2
  <2>2. QED
    BY <1>1, <2>1 DEF ForwardInv, AttemptsInOrder, Ongoing
<1>5. UnsentUntilWritten'
  <2> SUFFICES ASSUME NEW g \in Fwds, step'[g] \in {"none", "picked", "added"}
               PROVE  Unsent(g)'
    BY DEF UnsentUntilWritten
  <2>1. CASE g # f
    <3>1. Unsent(g)
      BY <1>2, <2>1 DEF ForwardInv, UnsentUntilWritten
    <3>2. QED
      BY <1>1, <2>1, <3>1 DEF Unsent
  <2>2. CASE g = f
    BY <1>1, <1>2, <2>2, Zenon DEF Unsent
  <2>3. QED
    BY <2>1, <2>2, Zenon
<1>6. NoAgentIsRefusal' /\ OneSocket'
  <2>1. NoAgentIsRefusal /\ OneSocket
    BY Zenon DEF ForwardInv
  <2>2. NoAgentIsRefusal'
    BY <1>1, <2>1 DEF NoAgentIsRefusal
  <2>3. OneSocket'
    BY <1>1, <2>1 DEF OneSocket
  <2>4. QED
    BY <2>2, <2>3, Zenon
<1>7. RetriedNeverRan'
  <2> SUFFICES ASSUME NEW r \in Reqs \ Safe, try[r] = 2
               PROVE  NeverRuns(<<r, 1>>)'
    BY <1>1, Zenon DEF RetriedNeverRan
  <2>1. <<r, 1>> \in Fwds /\ NeverRuns(<<r, 1>>)
    BY Zenon DEF ForwardInv, RetriedNeverRan, Fwds
  <2>2. <<r, 1>> # f
    BY <2>1 DEF NeverRuns
  <2>3. QED
    BY <1>1, <1>2, <2>1, <2>2, Zenon DEF NeverRuns, Unsent
<1>8. \A g \in Fwds : g # f => SockOf(g)' = SockOf(g)
  BY <1>1, Zenon DEF SockOf, OwnerOf
<1>9. OnDialled'
  <2> SUFFICES ASSUME NEW g \in Fwds, UnderWay(g)'
               PROVE  on'[g][1] # 0 /\ on'[g][2] # 0 /\ on'[g][2] <= dials[SockOf(g)'[1]]
    BY <1>1, Zenon DEF OnDialled
  <2>1. CASE g # f
    BY <1>2, <1>8, <2>1 DEF ForwardInv, OnDialled, UnderWay
  <2>2. CASE g = f
    BY <1>1, <2>2, Zenon DEF SockOf, OwnerOf
  <2>3. QED
    BY <2>1, <2>2, Zenon
<1>10. WaitersPending'
  BY <1>1, <1>2, Zenon DEF ForwardInv, WaitersPending
<1>11. NoForwardStranded'
  <2> SUFFICES ASSUME NEW g \in Fwds, step'[g] = "waiting", reply[g] = "empty",
                      sock[SockOf(g)'] = "closed"
               PROVE  Socket(SockOf(g)'[1]) = SockOf(g)' /\ loop[SockOf(g)'[1]] # "dialing"
    BY <1>1 DEF NoForwardStranded, Socket
  <2>1. CASE g # f
    BY <1>2, <1>8, <2>1, Zenon DEF ForwardInv, NoForwardStranded
  <2>2. CASE g = f
    <3>1. x = "waiting"
      BY <1>2, <2>2
    <3>2. SockOf(f)' = SockOf(f)
      BY <1>1, <3>1 DEF SockOf, OwnerOf
    <3>3. QED
      BY <2>2, <3>1, <3>2, Zenon
  <2>3. QED
    BY <2>1, <2>2, Zenon
<1>12. QED
  BY <1>3, <1>4, <1>5, <1>6, <1>7, <1>9, <1>10, <1>11 DEF ForwardInv

(* When an attempt ends its request is answered or tried again, the latter at most
   once and only if MayRetry allows it (forwardViaMesh). *)
LEMMA AfterFacts ==
  ASSUME ForwardInv, NEW r \in Reqs, NEW why, After(r, why)
  PROVE  /\ try' \in [Reqs -> 0 .. 2]
         /\ final' \in [Reqs -> {"none", "response", "forbidden", "unavailable"}]
         /\ \A q \in Reqs : q # r => try'[q] = try[q] /\ final'[q] = final[q]
         /\ \/ try'[r] = try[r]
            \/ try'[r] = try[r] + 1 /\ try[r] < Len(plan[r]) /\ MayRetry(r, why) /\ why # "response"
<1>1. /\ try \in [Reqs -> 0 .. 2] /\ Len(plan[r]) <= 2 /\ Len(plan[r]) \in Nat
      /\ final \in [Reqs -> {"none", "response", "forbidden", "unavailable"}]
  <2>1. plan[r] \in Seq(Owners)
    BY DEF ForwardInv, TypeOK
  <2>2. QED
    BY <2>1 DEF ForwardInv, TypeOK
<1>2. CASE final' = [final EXCEPT ![r] = "response"] /\ try' = try
  BY <1>1, <1>2
<1>3. CASE \E e \in {"forbidden", "unavailable"} : final' = [final EXCEPT ![r] = e] /\ try' = try
  BY <1>1, <1>3
<1>4. CASE /\ why # "response" /\ MayRetry(r, why) /\ try[r] < Len(plan[r])
           /\ try' = [try EXCEPT ![r] = try[r] + 1] /\ final' = final
  <2>1. try[r] + 1 \in 0 .. 2
    BY <1>1, <1>4
  <2>2. QED
    BY <1>1, <1>4, <2>1
<1>5. QED
  BY <1>2, <1>3, <1>4 DEF After

(* An attempt ends, with an answer, an error or a timeout: a second one is made only
   of a safe request, or when the first was not sent or was refused
   (forwardViaMesh, forwardIsSafeToRetry). *)
LEMMA EndsKeeps ==
  ASSUME ForwardInv, NEW f \in Fwds, f \in Ongoing(f[1]),
         NEW why, After(f[1], why),
         why \in {"nolink", "notsent"} => Unsent(f),
         why = "noagent" => served[f] = "refused",
         step' = [step EXCEPT ![f] = "over"],
         pending' \in SUBSET Fwds, pending \ {f} \subseteq pending',
         sock' \in [Socks -> {"new", "up", "broken", "closed"}],
         \A s \in Socks : (sock'[s] = "closed") = (sock[s] = "closed"),
         UNCHANGED <<plan, on, reply, link, loop, dials, ws, ownerVars>>
  PROVE  ForwardInv'
<1>1. UNCHANGED <<wire, serving, answers, runs, served>>
  BY DEF ownerVars
<1>2. step'[f] = "over" /\ \A g \in Fwds : g # f => step'[g] = step[g]
  BY DEF ForwardInv, TypeOK
<1>3. f[1] \in Reqs /\ f[2] \in {1, 2} /\ f = <<f[1], f[2]>> /\ f[2] = try[f[1]]
  BY SockFacts
<1>4. /\ try' \in [Reqs -> 0 .. 2]
      /\ final' \in [Reqs -> {"none", "response", "forbidden", "unavailable"}]
      /\ \A q \in Reqs : q # f[1] => try'[q] = try[q] /\ final'[q] = final[q]
      /\ \/ try'[f[1]] = try[f[1]]
         \/ try'[f[1]] = try[f[1]] + 1 /\ try[f[1]] < Len(plan[f[1]]) /\ MayRetry(f[1], why)
            /\ why # "response"
  BY <1>3, AfterFacts
<1>5. TypeOK'
  <2>1. step' \in [Fwds -> {"none", "picked", "added", "waiting", "over"}]
    BY DEF ForwardInv, TypeOK
  <2>2. QED
    BY <1>1, <1>4, <2>1 DEF ForwardInv, TypeOK
<1>6. \A q \in Reqs : try[q] <= try'[q] /\ try'[q] <= Len(plan[q])
  <2> TAKE q \in Reqs
  <2>1. try[q] \in Nat /\ Len(plan[q]) \in Nat /\ try[q] <= Len(plan[q])
    <3>1. plan[q] \in Seq(Owners) /\ try[q] \in 0 .. 2 /\ try[q] <= Len(plan[q])
      BY DEF ForwardInv, TypeOK, AttemptsInOrder
    <3>2. QED
      BY <3>1
  <2>2. try'[q] = try[q] \/ (try'[q] = try[q] + 1 /\ try[q] < Len(plan[q]))
    BY <1>4, Zenon
  <2>3. PICK n \in Nat, m \in Nat : n = try[q] /\ m = Len(plan[q]) /\ n <= m
    BY <2>1
  <2>4. try'[q] = n \/ (try'[q] = n + 1 /\ n < m)
    BY <2>2, <2>3
  <2>5. n <= try'[q] /\ try'[q] <= m
    BY <2>3, <2>4
  <2>6. QED
    BY <2>3, <2>5
<1>7. AttemptsInOrder'
  <2>1. ASSUME NEW g \in Fwds, UnderWay(g)' PROVE g \in Ongoing(g[1])'
    <3>1. g # f /\ UnderWay(g)
      BY <1>2, <2>1 DEF UnderWay
    <3>2. g \in Ongoing(g[1])
      BY <3>1, UnderWayIsOngoing
    <3>3. g[1] \in Reqs /\ g = <<g[1], g[2]>> /\ g[2] = try[g[1]] /\ final[g[1]] = "none"
      BY <3>2, SockFacts
    <3>4. g[1] # f[1]
      BY <1>3, <3>1, <3>3
    <3>5. QED
      BY <1>4, <3>3, <3>4 DEF Ongoing
  <2>2. ASSUME NEW g \in Fwds, g[2] > try'[g[1]] PROVE step'[g] = "none"
    <3>1. g[1] \in Reqs /\ g[2] \in {1, 2}
      BY DEF Fwds
    <3>2. try[g[1]] \in 0 .. 2 /\ try'[g[1]] \in 0 .. 2 /\ try[g[1]] <= try'[g[1]]
      <4>1. try[g[1]] \in 0 .. 2
        BY <3>1 DEF ForwardInv, TypeOK
      <4>2. try'[g[1]] \in 0 .. 2
        BY <1>4, <3>1
      <4>3. try[g[1]] <= try'[g[1]]
        BY <1>6, <3>1, Zenon
      <4>4. QED
        BY <4>1, <4>2, <4>3
    <3>3. g[2] > try[g[1]]
      <4> DEFINE t == try[g[1]]
                 u == try'[g[1]]
                 n == g[2]
      <4>1. t \in 0 .. 2 /\ u \in 0 .. 2 /\ t <= u /\ n \in {1, 2} /\ n > u
        BY <2>2, <3>1, <3>2
      <4> HIDE DEF t, u, n
      <4>2. n > t
        BY <4>1
      <4>3. QED
        BY <4>2 DEF t, n
    <3>4. g # f
      BY <1>3, <3>1, <3>2, <3>3
    <3>5. QED
      BY <1>2, <3>3, <3>4 DEF ForwardInv, AttemptsInOrder
  <2>3. QED
    BY <1>6, <2>1, <2>2 DEF AttemptsInOrder
<1>8. UnsentUntilWritten' /\ NoAgentIsRefusal'
  BY <1>1, <1>2 DEF ForwardInv, UnsentUntilWritten, NoAgentIsRefusal, Unsent
<1>9. RetriedNeverRan'
  <2> SUFFICES ASSUME NEW r \in Reqs \ Safe, try'[r] = 2
               PROVE  NeverRuns(<<r, 1>>)'
    BY DEF RetriedNeverRan
  <2>1. <<r, 1>> \in Fwds
    BY DEF Fwds
  <2>2. CASE try[r] = 2
    <3>1. NeverRuns(<<r, 1>>)
      BY <2>2 DEF ForwardInv, RetriedNeverRan
    <3>2. QED
      BY <1>1, <1>2, <2>1, <3>1 DEF NeverRuns, Unsent
  <2>3. CASE try[r] # 2
    <3>1. r = f[1] /\ try[r] + 1 = 2 /\ MayRetry(r, why) /\ why # "response"
      BY <1>4, <2>3
    <3>2. f = <<r, 1>>
      BY <1>3, <3>1
    <3>3. why \in {"nolink", "notsent", "noagent"}
      BY <3>1 DEF MayRetry
    <3>4. runs[f] = 0 /\ (served[f] = "refused" \/ Unsent(f))
      BY <3>3 DEF ForwardInv, NoAgentIsRefusal, Unsent
    <3>5. QED
      BY <1>1, <1>2, <3>2, <3>4 DEF NeverRuns, Unsent
  <2>4. QED
    BY <2>2, <2>3
<1>10. OneSocket'
  <2>1. \A l \in Links, n \in 1 .. MaxDials : <<l, n>> \in Socks
    BY DEF Socks
  <2>2. QED
    BY <2>1 DEF ForwardInv, OneSocket
<1>11. OnDialled'
  BY <1>2 DEF ForwardInv, OnDialled, UnderWay, SockOf, OwnerOf
<1>12. WaitersPending'
  BY <1>2 DEF ForwardInv, WaitersPending
<1>13. NoForwardStranded'
  <2> SUFFICES ASSUME NEW g \in Fwds, step'[g] = "waiting", reply[g] = "empty",
                      sock'[SockOf(g)] = "closed"
               PROVE  Socket(SockOf(g)[1]) = SockOf(g) /\ loop[SockOf(g)[1]] # "dialing"
    BY Zenon DEF NoForwardStranded, Socket, SockOf, OwnerOf
  <2>1. g # f /\ step[g] = "waiting"
    BY <1>2
  <2>2. SockOf(g) \in Socks
    BY <2>1, UnderWayIsOngoing, SockFacts DEF UnderWay
  <2>3. QED
    BY <2>1, <2>2 DEF ForwardInv, NoForwardStranded
<1>14. QED
  BY <1>5, <1>7, <1>8, <1>9, <1>10, <1>11, <1>12, <1>13 DEF ForwardInv

(* The steps of Forward, from the choice of the link to the answer or the timeout. *)
LEMMA CallKeeps ==
  ASSUME ForwardInv, NEW f \in Fwds, Call(f) \/ Timeout(f)
  PROVE  ForwardInv'
<1>1. /\ pending \in SUBSET Fwds /\ link \in [Owners -> 0 .. MaxLinks]
      /\ ws \in [Links -> 0 .. MaxDials] /\ dials \in [Links -> 0 .. MaxDials]
      /\ sock \in [Socks -> {"new", "up", "broken", "closed"}]
      /\ on \in [Fwds -> (0 .. MaxLinks) \X (0 .. MaxDials)]
      /\ MaxLinks \in Nat /\ MaxDials \in Nat
  BY BoundsAssumption DEF ForwardInv, TypeOK
<1>2. \A s \in Socks : (sock[s] = "closed") = (sock[s] = "closed")
  OBVIOUS
<1>3. step[f] \in {"picked", "added", "waiting"} => f \in Ongoing(f[1])
  BY UnderWayIsOngoing DEF UnderWay
<1>4. CASE PickLink(f)
  <2> DEFINE o == OwnerOf(f)
             l == <<o, link[o]>>
  <2>1. f \in Ongoing(f[1]) /\ step[f] = "none" /\ Unsent(f)
    BY <1>4, Zenon DEF PickLink, ForwardInv, UnsentUntilWritten
  <2>2. UNCHANGED <<plan, pending, reply, linkVars, ownerVars>>
    BY <1>4, Zenon DEF PickLink
  <2>3. o \in Owners
    BY <2>1, SockFacts
  <2>4. CASE /\ link[o] # 0 /\ ws[l] # 0
             /\ on' = [on EXCEPT ![f] = <<link[o], ws[l]>>]
             /\ step' = [step EXCEPT ![f] = "picked"]
             /\ UNCHANGED <<try, final>>
    <3>1. l \in Links
      BY <1>1, <2>3, <2>4 DEF Links
    <3>2. ws[l] = dials[l] /\ ws[l] \in 0 .. MaxDials
      BY <1>1, <2>4, <3>1, Zenon DEF ForwardInv, OneSocket
    <3>3. /\ on' \in [Fwds -> (0 .. MaxLinks) \X (0 .. MaxDials)]
          /\ on'[f] = <<link[o], ws[l]>>
          /\ \A g \in Fwds : g # f => on'[g] = on[g]
      BY <1>1, <2>3, <2>4, <3>2
    <3>4. on'[f][1] # 0 /\ on'[f][2] # 0 /\ on'[f][2] <= dials[<<OwnerOf(f), on'[f][1]>>]
      <4>1. on'[f][1] = link[o] /\ on'[f][2] = ws[l]
        BY <3>3
      <4>2. dials[<<OwnerOf(f), on'[f][1]>>] = dials[l]
        BY <4>1
      <4>3. ws[l] <= dials[l]
        BY <1>1, <3>2
      <4>4. QED
        BY <2>4, <4>1, <4>2, <4>3
    <3>5. UNCHANGED <<reply, serving, answers, runs, served>> /\ wire' = wire /\ pending' = pending
      BY <2>2 DEF ownerVars
    <3>6. QED
      BY <1>1, <2>1, <2>2, <2>4, <3>3, <3>4, <3>5, MovesKeeps, Zenon
  <2>5. CASE /\ step' = [step EXCEPT ![f] = "over"]
             /\ After(f[1], "nolink")
             /\ on' = on
    <3>1. UNCHANGED <<plan, on, reply, link, loop, dials, ws, ownerVars>> /\ sock' = sock
          /\ pending' = pending
      BY <2>2, <2>5 DEF linkVars
    <3>2. QED
      BY <1>1, <1>2, <2>1, <2>5, <3>1, EndsKeeps, Zenon
  <2>6. QED
    BY <1>4, <2>4, <2>5, Zenon DEF PickLink
<1>5. CASE AddPending(f)
  <2>1. /\ step[f] = "picked" /\ step' = [step EXCEPT ![f] = "added"]
        /\ pending' = pending \cup {f}
        /\ UNCHANGED <<plan, try, final, reply, linkVars, ownerVars>> /\ on' = on
    BY <1>5 DEF AddPending
  <2>2. on[f][1] # 0 /\ on[f][2] # 0 /\ on[f][2] <= dials[<<OwnerOf(f), on[f][1]>>]
    BY <2>1 DEF ForwardInv, OnDialled, UnderWay, SockOf
  <2>3. Unsent(f)
    BY <2>1 DEF ForwardInv, UnsentUntilWritten
  <2>4. UNCHANGED <<serving, answers, runs, served>> /\ wire' = wire
    BY <2>1 DEF ownerVars
  <2>5. QED
    BY <1>1, <1>3, <2>1, <2>2, <2>3, <2>4, MovesKeeps, Zenon
<1>6. CASE Send(f)
  <2> DEFINE s == SockOf(f)
  <2>1. step[f] = "added" /\ Unsent(f) /\ f \in Ongoing(f[1])
    BY <1>3, <1>6, Zenon DEF Send, ForwardInv, UnsentUntilWritten
  <2>2. UNCHANGED <<plan, on, reply, link, loop, dials, ws, serving, answers, runs, served>>
    BY <1>6 DEF Send
  <2>3. on[f][1] # 0 /\ on[f][2] # 0 /\ on[f][2] <= dials[<<OwnerOf(f), on[f][1]>>]
    BY <2>1 DEF ForwardInv, OnDialled, UnderWay, SockOf
  <2>4. reply[f] = "empty" => f \in pending
    BY <2>1 DEF ForwardInv, WaitersPending
  <2>5. CASE /\ sock[s] # "closed"
             /\ step' = [step EXCEPT ![f] = "waiting"]
             /\ wire' = IF sock[s] = "up" THEN wire \cup {f} ELSE wire
             /\ UNCHANGED <<try, final, pending, sock>>
    <3>1. wire' = wire \/ wire' = wire \cup {f}
      BY <2>5
    <3>2. UNCHANGED <<plan, try, final, reply, linkVars, serving, answers, runs, served>>
      BY <2>2, <2>5 DEF linkVars
    <3>3. on' = on /\ pending' = pending
      BY <2>2, <2>5
    <3>4. QED
      BY <1>1, <2>1, <2>3, <2>4, <2>5, <3>1, <3>2, <3>3, MovesKeeps, Zenon
  <2>6. CASE /\ step' = [step EXCEPT ![f] = "over"]
             /\ pending' = pending \ {f}
             /\ sock' = [sock EXCEPT ![s] = IF sock[s] = "up" THEN "broken" ELSE sock[s]]
             /\ After(f[1], "notsent")
             /\ UNCHANGED wire
    <3>1. s \in Socks
      BY <2>1, SockFacts DEF UnderWay
    <3>2. /\ sock' \in [Socks -> {"new", "up", "broken", "closed"}]
          /\ \A t \in Socks : (sock'[t] = "closed") = (sock[t] = "closed")
      BY <1>1, <2>6, <3>1
    <3>3. UNCHANGED <<plan, on, reply, link, loop, dials, ws, ownerVars>>
      BY <2>2, <2>6 DEF ownerVars
    <3>4. pending' \in SUBSET Fwds /\ pending \ {f} \subseteq pending'
      BY <1>1, <2>6
    <3>5. QED
      BY <2>1, <2>6, <3>2, <3>3, <3>4, EndsKeeps, Zenon
  <2>7. QED
    BY <1>6, <2>5, <2>6 DEF Send
<1>7. CASE Return(f)
  <2>1. /\ step[f] = "waiting" /\ step' = [step EXCEPT ![f] = "over"]
        /\ After(f[1], reply[f])
        /\ UNCHANGED <<plan, on, reply, link, loop, dials, ws, ownerVars>>
        /\ pending' = pending /\ sock' = sock
    BY <1>7, Zenon DEF Return, linkVars
  <2>2. reply[f] \notin {"nolink", "notsent"} /\ (reply[f] = "noagent" => served[f] = "refused")
    <3>1. reply[f] \in {"empty", "response", "noagent", "error", "nil"}
      BY DEF ForwardInv, TypeOK
    <3>2. QED
      BY <3>1 DEF ForwardInv, NoAgentIsRefusal
  <2>3. QED
    BY <1>1, <1>2, <1>3, <2>1, <2>2, EndsKeeps, Zenon
<1>8. CASE Timeout(f)
  <2>1. /\ step[f] = "waiting" /\ step' = [step EXCEPT ![f] = "over"]
        /\ After(f[1], "timeout")
        /\ UNCHANGED <<plan, on, reply, link, loop, dials, ws, ownerVars>>
        /\ pending' = pending \ {f} /\ sock' = sock
    BY <1>8 DEF Timeout, linkVars
  <2>2. pending' \in SUBSET Fwds /\ pending \ {f} \subseteq pending'
    BY <1>1, <2>1
  <2>3. QED
    BY <1>1, <1>2, <1>3, <2>1, <2>2, EndsKeeps, Zenon
<1>9. QED
  BY <1>4, <1>5, <1>6, <1>7, <1>8 DEF Call

-----------------------------------------------------------------------------
\* Requests, their plans and their outcomes.

(* A plan names one owner or two (forwardViaMesh). *)
LEMMA AttemptsFacts ==
  ASSUME NEW cs \in Seq(Owners), cs # << >>, NEW p \in Attempts(cs)
  PROVE  p \in Seq(Owners) /\ 1 <= Len(p) /\ Len(p) <= 2
<1> DEFINE others == {i \in 2 .. Len(cs) : cs[i] # cs[1]}
<1>1. Len(cs) \in Nat /\ Len(cs) >= 1 /\ \A i \in 1 .. Len(cs) : cs[i] \in Owners
  OBVIOUS
<1>2. CASE others # {}
  <2>1. PICK i \in others : p = <<cs[1], cs[i]>>
    BY <1>2 DEF Attempts
  <2>2. cs[1] \in Owners /\ cs[i] \in Owners
    BY <1>1
  <2>3. QED
    BY <2>1, <2>2
<1>3. CASE others = {}
  <2>1. p = SubSeq(cs, 1, IF Len(cs) > 1 THEN 2 ELSE 1)
    BY <1>3 DEF Attempts
  <2>2. CASE Len(cs) > 1
    BY <1>1, <2>1, <2>2
  <2>3. CASE ~(Len(cs) > 1)
    BY <1>1, <2>1, <2>3
  <2>4. QED
    BY <2>2, <2>3
<1>4. QED
  BY <1>2, <1>3

(* A request gets its plan before its first attempt, or fails without one
   (forwardViaMesh). *)
LEMMA LookupKeeps ==
  ASSUME ForwardInv, NEW r \in Reqs, Lookup(r)
  PROVE  ForwardInv'
<1>1. /\ try[r] = 0 /\ final[r] = "none"
      /\ UNCHANGED <<step, on, pending, reply, link, loop, dials, ws, sock>>
      /\ UNCHANGED <<wire, serving, answers, runs, served>>
  BY DEF Lookup, linkVars, ownerVars
<1>2. /\ plan \in [Reqs -> Seq(Owners)] /\ \A q \in Reqs : Len(plan[q]) <= 2
      /\ try \in [Reqs -> 0 .. 2]
      /\ final \in [Reqs -> {"none", "response", "forbidden", "unavailable"}]
  BY DEF ForwardInv, TypeOK
<1>3. /\ plan' \in [Reqs -> Seq(Owners)] /\ \A q \in Reqs : Len(plan'[q]) <= 2
      /\ try' \in [Reqs -> 0 .. 2]
      /\ final' \in [Reqs -> {"none", "response", "forbidden", "unavailable"}]
      /\ \A q \in Reqs : q # r => plan'[q] = plan[q] /\ try'[q] = try[q] /\ final'[q] = final[q]
      /\ try'[r] \in {0, 1} /\ try'[r] <= Len(plan'[r])
  <2>1. CASE /\ \E cs \in Candidates \ {<< >>} :
                  \E p \in Attempts(cs) : plan' = [plan EXCEPT ![r] = p]
             /\ try' = [try EXCEPT ![r] = 1]
             /\ UNCHANGED final
    <3>1. PICK cs \in Seq(Owners) :
            cs # << >> /\ \E p \in Attempts(cs) : plan' = [plan EXCEPT ![r] = p]
      BY <2>1, CandidatesAssumption, Zenon
    <3> PICK p \in Attempts(cs) : plan' = [plan EXCEPT ![r] = p]
      BY <3>1, Zenon
    <3>2. p \in Seq(Owners) /\ 1 <= Len(p) /\ Len(p) <= 2
      BY <3>1, AttemptsFacts
    <3>3. /\ plan' \in [Reqs -> Seq(Owners)] /\ plan'[r] = p
          /\ \A q \in Reqs : q # r => plan'[q] = plan[q]
      BY <1>2, <3>1, <3>2
    <3>4. \A q \in Reqs : Len(plan'[q]) <= 2
      <4> TAKE q \in Reqs
      <4>1. CASE q = r
        BY <3>2, <3>3, <4>1
      <4>2. CASE q # r
        BY <1>2, <3>3, <4>2
      <4>3. QED
        BY <4>1, <4>2
    <3>5. try' \in [Reqs -> 0 .. 2] /\ try'[r] = 1 /\ \A q \in Reqs : q # r => try'[q] = try[q]
      BY <1>2, <2>1
    <3>6. try'[r] <= Len(plan'[r])
      BY <3>2, <3>3, <3>5
    <3>7. QED
      BY <1>2, <2>1, <3>3, <3>4, <3>5, <3>6
  <2>2. CASE /\ \E e \in {"forbidden", "unavailable"} : final' = [final EXCEPT ![r] = e]
             /\ UNCHANGED <<plan, try>>
    <3>1. try[r] <= Len(plan[r])
      BY DEF ForwardInv, AttemptsInOrder
    <3>2. QED
      BY <1>1, <1>2, <2>2, <3>1
  <2>3. QED
    BY <2>1, <2>2 DEF Lookup
<1>4. \A f \in Fwds : UnderWay(f) => f[1] \in Reqs /\ f[1] # r /\ f \in Ongoing(f[1])
  <2> SUFFICES ASSUME NEW f \in Fwds, UnderWay(f)
               PROVE  f[1] \in Reqs /\ f[1] # r /\ f \in Ongoing(f[1])
    OBVIOUS
  <2>1. f \in Ongoing(f[1])
    BY UnderWayIsOngoing
  <2>2. f[1] \in Reqs /\ f[2] \in {1, 2} /\ f[2] = try[f[1]]
    BY <2>1, SockFacts
  <2>3. QED
    BY <1>1, <2>1, <2>2
<1>5. TypeOK'
  BY <1>1, <1>3 DEF ForwardInv, TypeOK
<1>6. AttemptsInOrder'
  <2>1. \A q \in Reqs : try'[q] <= Len(plan'[q])
    BY <1>3 DEF ForwardInv, AttemptsInOrder
  <2>2. ASSUME NEW f \in Fwds, UnderWay(f)' PROVE f \in Ongoing(f[1])'
    <3>1. UnderWay(f)
      BY <1>1, <2>2 DEF UnderWay
    <3>2. QED
      BY <1>3, <1>4, <3>1, Zenon DEF Ongoing
  <2>3. ASSUME NEW f \in Fwds, f[2] > try'[f[1]] PROVE step'[f] = "none"
    <3>1. f[1] \in Reqs /\ f[2] \in {1, 2}
      BY DEF Fwds
    <3>2. f[2] > try[f[1]]
      <4>1. CASE f[1] = r
        BY <1>1, <3>1, <4>1
      <4>2. CASE f[1] # r
        BY <1>3, <2>3, <3>1, <4>2
      <4>3. QED
        BY <4>1, <4>2
    <3>3. QED
      BY <1>1, <3>2, Zenon DEF ForwardInv, AttemptsInOrder
  <2>4. QED
    BY <2>1, <2>2, <2>3 DEF AttemptsInOrder
<1>7. UnsentUntilWritten' /\ NoAgentIsRefusal' /\ OneSocket' /\ WaitersPending'
  BY <1>1 DEF ForwardInv, UnsentUntilWritten, Unsent, NoAgentIsRefusal, OneSocket, WaitersPending
<1>8. RetriedNeverRan'
  <2> SUFFICES ASSUME NEW q \in Reqs \ Safe, try'[q] = 2
               PROVE  NeverRuns(<<q, 1>>)'
    BY DEF RetriedNeverRan
  <2>1. q # r
    BY <1>3
  <2>2. QED
    BY <1>1, <1>3, <2>1, Zenon DEF ForwardInv, RetriedNeverRan, NeverRuns, Unsent
<1>9. \A f \in Fwds : UnderWay(f) => SockOf(f)' = SockOf(f)
  BY <1>1, <1>3, <1>4, Zenon DEF SockOf, OwnerOf
<1>10. OnDialled'
  BY <1>1, <1>9, Zenon DEF ForwardInv, OnDialled, UnderWay
<1>11. NoForwardStranded'
  BY <1>1, <1>9 DEF ForwardInv, NoForwardStranded, UnderWay, Socket
<1>12. QED
  BY <1>5, <1>6, <1>7, <1>8, <1>10, <1>11 DEF ForwardInv

(* The link's reader hands an answer to whoever waits for it (runLink). *)
LEMMA ReceiveKeeps ==
  ASSUME ForwardInv, NEW f \in Fwds, Receive(f)
  PROVE  ForwardInv'
<1>1. /\ answers[f] # "none" /\ answers' = [answers EXCEPT ![f] = "none"]
      /\ UNCHANGED <<plan, try, final, step, on, link, loop, dials, ws, sock>>
      /\ UNCHANGED <<wire, serving, runs, served>>
  BY DEF Receive, linkVars
<1>2. /\ answers \in [Fwds -> {"none", "response", "noagent", "error"}]
      /\ reply \in [Fwds -> {"empty", "response", "noagent", "error", "nil"}]
      /\ pending \subseteq Fwds
  BY DEF ForwardInv, TypeOK
<1>3. /\ reply' \in [Fwds -> {"empty", "response", "noagent", "error", "nil"}]
      /\ reply'[f] = reply[f] \/ reply'[f] = answers[f]
      /\ \A g \in Fwds : g # f => reply'[g] = reply[g]
      /\ pending' \subseteq Fwds
      /\ \A g \in Fwds : reply'[g] = "empty" /\ g \in pending => g \in pending'
      /\ \A g \in Fwds : reply'[g] = "empty" => reply[g] = "empty"
  <2>1. CASE f \in pending /\ pending' = pending \ {f} /\ reply' = [reply EXCEPT ![f] = answers[f]]
    <3>1. answers[f] \in {"response", "noagent", "error"}
      BY <1>1, <1>2
    <3>2. QED
      BY <1>2, <2>1, <3>1
  <2>2. CASE UNCHANGED <<pending, reply>>
    BY <1>2, <2>2
  <2>3. QED
    BY <2>1, <2>2, Zenon DEF Receive
<1>4. TypeOK'
  <2>1. answers' \in [Fwds -> {"none", "response", "noagent", "error"}]
    BY <1>1, <1>2
  <2>2. QED
    BY <1>1, <1>3, <2>1 DEF ForwardInv, TypeOK
<1>5. AttemptsInOrder' /\ UnsentUntilWritten' /\ RetriedNeverRan' /\ OneSocket' /\ OnDialled'
  <2>1. AttemptsInOrder'
    BY <1>1, Zenon DEF ForwardInv, AttemptsInOrder, UnderWay, Ongoing
  <2>2. UnsentUntilWritten' /\ RetriedNeverRan'
    BY <1>1, Zenon DEF ForwardInv, UnsentUntilWritten, RetriedNeverRan, NeverRuns, Unsent
  <2>3. OneSocket'
    BY <1>1 DEF ForwardInv, OneSocket
  <2>4. OnDialled'
    BY <1>1, Zenon DEF ForwardInv, OnDialled, UnderWay, SockOf, OwnerOf
  <2>5. QED
    BY <2>1, <2>2, <2>3, <2>4
<1>6. NoAgentIsRefusal'
  BY <1>1, <1>2, <1>3, Zenon DEF ForwardInv, NoAgentIsRefusal
<1>7. WaitersPending'
  BY <1>1, <1>3, Zenon DEF ForwardInv, WaitersPending
<1>8. NoForwardStranded'
  BY <1>1, <1>3, Zenon DEF ForwardInv, NoForwardStranded, SockOf, OwnerOf, Socket
<1>9. QED
  BY <1>4, <1>5, <1>6, <1>7, <1>8 DEF ForwardInv

(* What happens at the owner only matters for what has run, or still can. *)
LEMMA OwnerKeeps ==
  ASSUME ForwardInv,
         wire' \subseteq Fwds, serving' \subseteq Fwds,
         answers' \in [Fwds -> {"none", "response", "noagent", "error"}],
         runs' \in [Fwds -> {0, 1}],
         served' \in [Fwds -> {"none", "response", "refused", "failed"}],
         \A f \in Fwds : Unsent(f) => Unsent(f)',
         \A f \in Fwds : served[f] = "refused" => served'[f] = "refused",
         \A f \in Fwds : served'[f] = "refused" => runs'[f] = 0,
         \A f \in Fwds : answers'[f] = "noagent" => answers[f] = "noagent" \/ served'[f] = "refused",
         UNCHANGED <<linkVars, callVars>>
  PROVE  ForwardInv'
<1>1. /\ UNCHANGED <<link, loop, dials, ws, sock>>
      /\ UNCHANGED <<plan, try, final, step, on, pending, reply>>
  BY Zenon DEF linkVars, callVars
<1>2. TypeOK'
  BY <1>1 DEF ForwardInv, TypeOK
<1>3. AttemptsInOrder' /\ OneSocket' /\ OnDialled' /\ WaitersPending' /\ NoForwardStranded'
  <2>1. AttemptsInOrder' /\ WaitersPending'
    BY <1>1, Zenon DEF ForwardInv, AttemptsInOrder, UnderWay, Ongoing, WaitersPending
  <2>2. OneSocket'
    BY <1>1 DEF ForwardInv, OneSocket
  <2>3. OnDialled'
    BY <1>1, Zenon DEF ForwardInv, OnDialled, UnderWay, SockOf, OwnerOf
  <2>4. NoForwardStranded'
    <3> SUFFICES ASSUME NEW g \in Fwds, step[g] = "waiting", reply[g] = "empty",
                        sock[SockOf(g)] = "closed"
                 PROVE  Socket(SockOf(g)[1]) = SockOf(g) /\ loop[SockOf(g)[1]] # "dialing"
      BY <1>1, Zenon DEF NoForwardStranded, SockOf, OwnerOf, Socket
    <3>1. QED
      BY Zenon DEF ForwardInv, NoForwardStranded
  <2>5. QED
    BY <2>1, <2>2, <2>3, <2>4, Zenon
<1>4. UnsentUntilWritten'
  BY <1>1, Zenon DEF ForwardInv, UnsentUntilWritten
<1>5. NoAgentIsRefusal'
  BY <1>1 DEF ForwardInv, NoAgentIsRefusal
<1>6. RetriedNeverRan'
  <2> SUFFICES ASSUME NEW r \in Reqs \ Safe, try[r] = 2
               PROVE  NeverRuns(<<r, 1>>)'
    BY <1>1, Zenon DEF RetriedNeverRan
  <2>1. <<r, 1>> \in Fwds /\ NeverRuns(<<r, 1>>)
    BY DEF ForwardInv, RetriedNeverRan, Fwds
  <2>2. served'[<<r, 1>>] = "refused" \/ Unsent(<<r, 1>>)'
    BY <2>1 DEF NeverRuns
  <2>3. runs'[<<r, 1>>] = 0
    BY <2>1, <2>2 DEF Unsent
  <2>4. QED
    BY <1>1, <2>1, <2>2, <2>3, Zenon DEF NeverRuns
<1>7. QED
  BY <1>2, <1>3, <1>4, <1>5, <1>6, Zenon DEF ForwardInv

(* The frame arrives at the owner, which runs it, or not, and answers
   (ServeForward). *)
LEMMA ServeKeeps ==
  ASSUME ForwardInv, NEW f \in Fwds, Arrive(f) \/ Dispatch(f) \/ ServeForward(f)
  PROVE  ForwardInv'
<1>1. /\ wire \subseteq Fwds /\ serving \subseteq Fwds
      /\ answers \in [Fwds -> {"none", "response", "noagent", "error"}]
      /\ runs \in [Fwds -> {0, 1}]
      /\ served \in [Fwds -> {"none", "response", "refused", "failed"}]
      /\ \A g \in Fwds : served[g] = "refused" => runs[g] = 0
  BY DEF ForwardInv, TypeOK, NoAgentIsRefusal
<1>2. CASE Arrive(f)
  <2>1. /\ f \in wire /\ wire' = wire \ {f} /\ serving' = serving \cup {f}
        /\ UNCHANGED <<linkVars, callVars>> /\ answers' = answers /\ runs' = runs /\ served' = served
    BY <1>2 DEF Arrive
  <2>2. \A g \in Fwds : Unsent(g) => Unsent(g)'
    BY <2>1 DEF Unsent
  <2>3. wire' \subseteq Fwds /\ serving' \subseteq Fwds
    BY <1>1, <2>1
  <2>4. QED
    BY <1>1, <2>1, <2>2, <2>3, OwnerKeeps
<1>3. CASE Dispatch(f)
  <2>1. /\ f \in serving \/ served[f] = "failed"
        /\ UNCHANGED <<linkVars, callVars>> /\ wire' = wire /\ serving' = serving /\ answers' = answers
    BY <1>3 DEF Dispatch
  <2>2. \/ /\ runs[f] = 0 /\ served[f] \in {"none", "failed"}
           /\ runs' = [runs EXCEPT ![f] = 1] /\ served' = served
        \/ /\ served[f] = "none" /\ runs' = runs
           /\ \E x \in {"response", "refused", "failed"} :
                served' = [served EXCEPT ![f] = x] /\ (x = "refused" => runs[f] = 0)
    BY <1>3 DEF Dispatch, X!Run, X!Respond, X!Refuse, X!Fail, X!Tell
  <2>3. /\ runs' \in [Fwds -> {0, 1}]
        /\ served' \in [Fwds -> {"none", "response", "refused", "failed"}]
        /\ \A g \in Fwds : g # f => runs'[g] = runs[g] /\ served'[g] = served[g]
        /\ served[f] # "refused" /\ (served'[f] = "refused" => runs'[f] = 0)
    BY <1>1, <2>2
  <2>4. \A g \in Fwds : Unsent(g) => Unsent(g)'
    BY <2>1, <2>3, Zenon DEF Unsent
  <2>5. /\ \A g \in Fwds : served[g] = "refused" => served'[g] = "refused"
        /\ \A g \in Fwds : served'[g] = "refused" => runs'[g] = 0
    BY <1>1, <2>3
  <2>6. QED
    BY <1>1, <2>1, <2>3, <2>4, <2>5, OwnerKeeps
<1>4. CASE ServeForward(f)
  <2>1. /\ f \in serving /\ served[f] # "none" /\ serving' = serving \ {f}
        /\ UNCHANGED <<linkVars, callVars>> /\ wire' = wire /\ runs' = runs /\ served' = served
    BY <1>4 DEF ServeForward
  <2>2. \/ answers' = answers
        \/ \E k \in {"response", "noagent", "error"} :
             answers' = [answers EXCEPT ![f] = k] /\ (k = "noagent" => served[f] = "refused")
    <3>1. served[f] \in {"response", "refused", "failed"}
      BY <1>1, <2>1
    <3>2. CASE served[f] = "response"
      BY <1>4, <3>2 DEF ServeForward
    <3>3. CASE served[f] = "refused"
      BY <1>4, <3>3 DEF ServeForward
    <3>4. CASE served[f] = "failed"
      BY <1>4, <3>4 DEF ServeForward
    <3>5. QED
      BY <3>1, <3>2, <3>3, <3>4
  <2>3. /\ answers' \in [Fwds -> {"none", "response", "noagent", "error"}]
        /\ \A g \in Fwds : answers'[g] = "noagent" => answers[g] = "noagent" \/ served'[g] = "refused"
    BY <1>1, <2>1, <2>2
  <2>4. \A g \in Fwds : Unsent(g) => Unsent(g)'
    BY <2>1, Zenon DEF Unsent
  <2>5. serving' \subseteq Fwds
    BY <1>1, <2>1
  <2>6. QED
    BY <1>1, <2>1, <2>3, <2>4, <2>5, OwnerKeeps
<1>5. QED
  BY <1>2, <1>3, <1>4

(* A pod starts without links and without requests. *)
LEMMA InitKeeps ==
  ASSUME Init
  PROVE  ForwardInv
<1>1. \A f \in Fwds : f[1] \in Reqs /\ f[2] \in {1, 2}
  BY DEF Fwds
<1>2. runs = [f \in Fwds |-> 0] /\ served = [f \in Fwds |-> "none"]
  BY DEF Init, X!Init
<1>3. TypeOK
  <2>1. << >> \in Seq(Owners) /\ Len(<< >>) = 0
    OBVIOUS
  <2>2. /\ plan \in [Reqs -> Seq(Owners)] /\ \A r \in Reqs : Len(plan[r]) <= 2
    BY <2>1 DEF Init
  <2>3. /\ link \in [Owners -> 0 .. MaxLinks]
        /\ loop \in [Links -> {"idle", "dialing", "serving", "lost", "detached", "closed"}]
        /\ dials \in [Links -> 0 .. MaxDials]
        /\ ws \in [Links -> 0 .. MaxDials]
        /\ sock \in [Socks -> {"new", "up", "broken", "closed"}]
    BY BoundsAssumption DEF Init
  <2>4. /\ try \in [Reqs -> 0 .. 2]
        /\ final \in [Reqs -> {"none", "response", "forbidden", "unavailable"}]
        /\ step \in [Fwds -> {"none", "picked", "added", "waiting", "over"}]
        /\ on \in [Fwds -> (0 .. MaxLinks) \X (0 .. MaxDials)]
        /\ pending \subseteq Fwds
        /\ reply \in [Fwds -> {"empty", "response", "noagent", "error", "nil"}]
    BY BoundsAssumption DEF Init
  <2>5. /\ wire \subseteq Fwds /\ serving \subseteq Fwds
        /\ answers \in [Fwds -> {"none", "response", "noagent", "error"}]
        /\ runs \in [Fwds -> {0, 1}]
        /\ served \in [Fwds -> {"none", "response", "refused", "failed"}]
    BY <1>2 DEF Init
  <2>6. QED
    BY <2>2, <2>3, <2>4, <2>5, Zenon DEF TypeOK
<1>4. AttemptsInOrder
  BY <1>1 DEF Init, AttemptsInOrder, UnderWay
<1>5. UnsentUntilWritten /\ NoAgentIsRefusal /\ RetriedNeverRan
  BY <1>2 DEF Init, UnsentUntilWritten, Unsent, NoAgentIsRefusal, RetriedNeverRan
<1>6. OneSocket
  BY BoundsAssumption DEF Init, OneSocket
<1>7. OnDialled /\ WaitersPending /\ NoForwardStranded
  BY DEF Init, OnDialled, UnderWay, WaitersPending, NoForwardStranded
<1>8. QED
  BY <1>3, <1>4, <1>5, <1>6, <1>7 DEF ForwardInv

-----------------------------------------------------------------------------

(* What makes forwarding safe holds in every state a pod can reach, for any number
   of owners, links, websockets and requests (runLink, forwardViaMesh). *)
THEOREM ForwardInvariant == Spec => []ForwardInv
<1>1. Init => ForwardInv
  BY InitKeeps
<1>2. ASSUME ForwardInv, [Next]_vars PROVE ForwardInv'
  <2>1. CASE \/ \E o \in Owners : AddLink(o) \/ DropLink(o)
             \/ \E l \in Links : LinkLost(l) \/ Unpublish(l)
    BY <1>2, <2>1, LoopKeeps
  <2>2. CASE \E l \in Links : Dial(l)
    BY <1>2, <2>2, DialKeeps
  <2>3. CASE \/ \E l \in Links : CloseCancelled(l) \/ CloseSocket(l)
             \/ \E s \in Socks : Break(s)
    BY <1>2, <2>3, SocketsKeep
  <2>4. CASE \E l \in Links : FailPending(l)
    BY <1>2, <2>4, FailPendingKeeps
  <2>5. CASE \E r \in Reqs : Lookup(r)
    BY <1>2, <2>5, LookupKeeps
  <2>6. CASE \E f \in Fwds : Call(f) \/ Timeout(f)
    BY <1>2, <2>6, CallKeeps
  <2>7. CASE \E f \in Fwds : Receive(f)
    BY <1>2, <2>7, ReceiveKeeps
  <2>8. CASE \E f \in Fwds : Arrive(f) \/ Dispatch(f) \/ ServeForward(f)
    BY <1>2, <2>8, ServeKeeps
  <2>9. CASE UNCHANGED vars
    <3>1. UNCHANGED <<linkVars, callVars>> /\ UNCHANGED <<wire, serving, answers, runs, served>>
      BY <2>9 DEF vars, ownerVars
    <3>2. /\ wire' \subseteq Fwds /\ serving' \subseteq Fwds
          /\ answers' \in [Fwds -> {"none", "response", "noagent", "error"}]
          /\ runs' \in [Fwds -> {0, 1}]
          /\ served' \in [Fwds -> {"none", "response", "refused", "failed"}]
          /\ \A f \in Fwds : Unsent(f) => Unsent(f)'
          /\ \A f \in Fwds : served'[f] = "refused" => runs'[f] = 0
      BY <1>2, <3>1 DEF ForwardInv, TypeOK, NoAgentIsRefusal, Unsent
    <3>3. QED
      BY <1>2, <3>1, <3>2, OwnerKeeps
  <2>10. QED
    BY <1>2, <2>1, <2>2, <2>3, <2>4, <2>5, <2>6, <2>7, <2>8, <2>9 DEF Next, LinkStep
<1>3. QED
  BY <1>1, <1>2, PTL DEF Spec

(* Every variable holds what its counterpart can hold (peerLink, pendingForward). *)
THEOREM TypeCorrect == Spec => []TypeOK
<1>1. ForwardInv => TypeOK
  BY DEF ForwardInv
<1>2. QED
  BY <1>1, ForwardInvariant, PTL

(* A request whose method is not safe runs at most once, whatever is retried: the
   second attempt is made only when the first cannot have run and never will
   (forwardViaMesh, forwardIsSafeToRetry). *)
THEOREM UnsafeRunsAtMostOnce == Spec => []AtMostOnce
<1>1. ASSUME ForwardInv PROVE AtMostOnce
  <2> SUFFICES ASSUME NEW r \in Reqs \ Safe, runs[<<r, 2>>] = 1
               PROVE  runs[<<r, 1>>] # 1
    BY Zenon DEF AtMostOnce
  <2>1. <<r, 2>> \in Fwds
    BY DEF Fwds
  <2>2. step[<<r, 2>>] # "none"
    BY <1>1, <2>1 DEF ForwardInv, UnsentUntilWritten, Unsent
  <2>3. ~(2 > try[r])
    BY <1>1, <2>1, <2>2 DEF ForwardInv, AttemptsInOrder
  <2>4. try[r] = 2
    <3>1. try[r] \in 0 .. 2
      BY <1>1 DEF ForwardInv, TypeOK
    <3>2. QED
      BY <2>3, <3>1
  <2>5. QED
    BY <1>1, <2>4 DEF ForwardInv, RetriedNeverRan, NeverRuns
<1>2. QED
  BY <1>1, ForwardInvariant, PTL

(* Nobody is left waiting on a socket this pod has closed: the link has yet to
   release its waiters (runLink, failPendingForPeer). *)
THEOREM NobodyIsStranded == Spec => []NoForwardStranded
<1>1. ForwardInv => NoForwardStranded
  BY DEF ForwardInv
<1>2. QED
  BY <1>1, ForwardInvariant, PTL
=============================================================================
