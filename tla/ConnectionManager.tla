------------------------- MODULE ConnectionManager --------------------------
(***************************************************************************)
(* The agent connections of one plane at one gateway pod                   *)
(* (internal/cluster-gateway/connection_manager.go): how they are handed   *)
(* out round-robin, which of the plane's custom resources (CRs) each may   *)
(* serve, and what the pod tells the mesh of them.  cm.mu makes Register,  *)
(* Unregister, Get, GetForCR and DisconnectAllForPlane atomic; RevalidateCR *)
(* takes it only to copy the list and to sweep the cursors.                *)
(*                                                                         *)
(* Under cm.mu the validity of the listed connections is read one by one,  *)
(* each under its own lock.  Here it is one read: the cursors of a CR are  *)
(* written and swept under cm.mu only, and a round of turns ends with any  *)
(* change of validity.                                                     *)
(***************************************************************************)
EXTENDS Naturals, Sequences, FiniteSets

CONSTANTS
  Conns,       \* bound: agent connections over the pod's life
  CRs,         \* the CRs with this planeID
  CAs,         \* client CAs a CR may be configured with
  Trusts,      \* Trusts[k]: the connections whose certificate k verifies
  Tasks,       \* bound: goroutines in RevalidateCR at one time
  MaxChanges,  \* bound: changes of a CR's client CA
  Plane        \* the round-robin key of the plane itself

\* A plane without CRs accepts no connection: handleWebSocket turns it away.
ASSUME ConnsAssumption == IsFiniteSet(Conns)
ASSUME CRsAssumption == CRs # {}
ASSUME TrustsAssumption == Trusts \in [CAs -> SUBSET Conns]
ASSUME PlaneAssumption == Plane \notin CRs
ASSUME BoundAssumption == MaxChanges \in Nat

VARIABLES
  ca,           \* the client CA each CR is configured with
  changes,      \* how often one was changed
  handler,      \* handleWebSocket and handleConnection of each connection
  connections,  \* cm.connections of the plane
  validCRs,     \* ValidCRs of each connection
  roundRobin,   \* cm.roundRobin, without the prefix of the plane
  mirror,       \* what the mesh was told: its localEntries
  task,         \* the calls of RevalidateCR under way
  turns         \* history: how often each was chosen for a CR in the current round

vars == <<ca, changes, handler, connections, validCRs, roundRobin, mirror, task, turns>>

Registered == {connections[i] : i \in DOMAIN connections}
Authorized(cr) == {c \in Registered : cr \in validCRs[c]}
Keys == CRs \cup {Plane}
NoTurns == [c \in Conns |-> 0]

\* A call of RevalidateCR: its local variables.
Revalidation ==
  [pc : {"idle", "fetched", "next", "read", "publish"}, cr : CRs, ca : CAs,
   todo : Seq(Conns), crs : SUBSET CRs, removed : BOOLEAN]
Idle == [pc |-> "idle", cr |-> CHOOSE cr \in CRs : TRUE, ca |-> CHOOSE k \in CAs : TRUE,
         todo |-> << >>, crs |-> {}, removed |-> FALSE]

(***************************************************************************)
(* Every variable holds what its counterpart can hold; a connection is     *)
(* listed once, and a cursor is an index (AgentConnection,                 *)
(* ConnectionManager).                                                     *)
(***************************************************************************)
TypeOK ==
  /\ ca \in [CRs -> CAs]
  /\ changes \in 0 .. MaxChanges
  /\ handler \in [Conns -> {"new", "verified", "serving", "gone"}]
  /\ connections \in Seq(Conns) /\ Len(connections) = Cardinality(Registered)
  /\ validCRs \in [Conns -> SUBSET CRs]
  /\ DOMAIN roundRobin \subseteq Keys
  /\ \A k \in DOMAIN roundRobin : roundRobin[k] \in 0 .. Cardinality(Conns) - 1
  /\ DOMAIN mirror \subseteq Conns /\ \A c \in DOMAIN mirror : mirror[c] \subseteq CRs
  /\ task \in [Tasks -> Revalidation]
  /\ turns \in [CRs -> [Conns -> Nat]]

Init ==
  /\ ca \in [CRs -> CAs]
  /\ changes = 0
  /\ handler = [c \in Conns |-> "new"]
  /\ connections = << >>
  /\ validCRs = [c \in Conns |-> {}]
  /\ roundRobin = << >>
  /\ mirror = << >>
  /\ task = [t \in Tasks |-> Idle]
  /\ turns = [cr \in CRs |-> NoTurns]

\* A map with one key set, and a map with some keys deleted.
With(f, key, v) == [k \in DOMAIN f \cup {key} |-> IF k = key THEN v ELSE f[k]]
Without(f, gone) == [k \in DOMAIN f \ gone |-> f[k]]

\* A list without its i-th element.
Removed(s, i) == SubSeq(s, 1, i - 1) \o SubSeq(s, i + 1, Len(s))

\* The history starts a new round when the connections to choose from change.
NewRounds ==
  turns' = [cr \in CRs |-> IF Authorized(cr)' = Authorized(cr) THEN turns[cr] ELSE NoTurns]

-----------------------------------------------------------------------------
\* The life of a connection.

\* handleWebSocket reads the CAs of all CRs and checks the certificate ...
Verify(c) ==
  LET found == {cr \in CRs : c \in Trusts[ca[cr]]}
  IN  /\ handler[c] = "new"
      /\ validCRs' = [validCRs EXCEPT ![c] = found]
      /\ handler' = [handler EXCEPT ![c] = IF found = {} THEN "gone" ELSE "verified"]
      /\ UNCHANGED <<ca, changes, connections, roundRobin, mirror, task, turns>>

\* ... and registers the connection with what it found.
Register(c) ==
  /\ handler[c] = "verified"
  /\ handler' = [handler EXCEPT ![c] = "serving"]
  /\ connections' = Append(connections, c)
  /\ mirror' = With(mirror, c, validCRs[c])
  /\ UNCHANGED <<ca, changes, validCRs, roundRobin, task>>
  /\ NewRounds

NoneOrphaned(c) == {}

\* cleanupOrphanedCRKeys: the CRs of c that nobody else serves.
Orphaned(c) == {cr \in validCRs[c] : Authorized(cr) \subseteq {c}}

\* The reader ends.  The cursors of CRs nobody serves any more go with the
\* connection, and all of them with the last one.
Unregister(c) ==
  /\ handler[c] = "serving"
  /\ handler' = [handler EXCEPT ![c] = "gone"]
  /\ \/ \E i \in DOMAIN connections :
          /\ connections[i] = c
          /\ connections' = Removed(connections, i)
          /\ mirror' = Without(mirror, {c})
          /\ roundRobin' = Without(roundRobin, IF connections' = << >> THEN Keys ELSE Orphaned(c))
     \/ /\ c \notin Registered
        /\ UNCHANGED <<connections, mirror, roundRobin>>
  /\ UNCHANGED <<ca, changes, validCRs, task>>
  /\ NewRounds

\* DisconnectAllForPlane; the readers find their connections closed later.
DisconnectAll ==
  /\ connections # << >>
  /\ connections' = << >>
  /\ mirror' = Without(mirror, Registered)
  /\ roundRobin' = << >>
  /\ UNCHANGED <<ca, changes, handler, validCRs, task>>
  /\ NewRounds

-----------------------------------------------------------------------------
\* Handing out connections.

Cursor(key) == IF key \in DOMAIN roundRobin THEN roundRobin[key] ELSE 0

Unwrapped(key, n) == With(roundRobin, key, Cursor(key) + 1)
SkipsOne(key, n) == With(roundRobin, key, (Cursor(key) + 2) % n)

\* The cursor after one of n connections was chosen.
Advance(key, n) == With(roundRobin, key, ((Cursor(key) % n) + 1) % n)

Get ==
  /\ connections # << >>
  /\ roundRobin' = Advance(Plane, Len(connections))
  /\ UNCHANGED <<ca, changes, handler, connections, validCRs, mirror, task, turns>>

\* The connections that may serve cr and are listed before c.
Precedes(s, d, c) == \E i, j \in DOMAIN s : i < j /\ s[i] = d /\ s[j] = c
Ahead(cr, c) == {d \in Authorized(cr) : Precedes(connections, d, c)}

\* Of the connections that may serve cr, in the order of the list, the cursor
\* is at c.
GetForCR(cr, c) ==
  LET n == Cardinality(Authorized(cr))
      round == [turns[cr] EXCEPT ![c] = @ + 1]
  IN  /\ c \in Authorized(cr)
      /\ Cardinality(Ahead(cr, c)) = Cursor(cr) % n
      /\ roundRobin' = Advance(cr, n)
      /\ turns' = [turns EXCEPT ![cr] = IF \E d \in Authorized(cr) : round[d] = 0 THEN round ELSE NoTurns]
      /\ UNCHANGED <<ca, changes, handler, connections, validCRs, mirror, task>>

-----------------------------------------------------------------------------
\* A CR's client CA changes, and the pod hears of it.

ChangeCA(cr) ==
  /\ changes < MaxChanges
  /\ \E k \in CAs \ {ca[cr]} : ca' = [ca EXCEPT ![cr] = k]
  /\ changes' = changes + 1
  /\ UNCHANGED <<handler, connections, validCRs, roundRobin, mirror, task, turns>>

\* handlePlaneNotification or ApplyPlaneEvent reads the CA ...
FetchCA(t, cr) ==
  /\ task[t].pc = "idle"
  /\ task' = [task EXCEPT ![t] = [Idle EXCEPT !.pc = "fetched", !.cr = cr, !.ca = ca[cr]]]
  /\ UNCHANGED <<ca, changes, handler, connections, validCRs, roundRobin, mirror, turns>>

\* ... and RevalidateCR copies the list of connections.
CopyConns(t) ==
  /\ task[t].pc = "fetched"
  /\ task' = [task EXCEPT ![t] = IF connections = << >> THEN Idle
                                 ELSE [@ EXCEPT !.pc = "next", !.todo = connections]]
  /\ UNCHANGED <<ca, changes, handler, connections, validCRs, roundRobin, mirror, turns>>

\* The next connection gains the CR, loses it, or stays as it is.
UpdateCRValidity(t) ==
  LET cr == task[t].cr
      c == Head(task[t].todo)
      isValid == c \in Trusts[task[t].ca]
      wasValid == cr \in validCRs[c]
  IN  /\ task[t].pc = "next"
      /\ task[t].todo # << >>
      /\ validCRs' = [validCRs EXCEPT ![c] = IF isValid THEN @ \cup {cr} ELSE @ \ {cr}]
      /\ task' = [task EXCEPT ![t] = IF isValid = wasValid THEN [@ EXCEPT !.todo = Tail(task[t].todo)]
                                     ELSE [@ EXCEPT !.pc = "read",
                                                    !.removed = task[t].removed \/ wasValid]]
      /\ UNCHANGED <<ca, changes, handler, connections, roundRobin, mirror>>
      /\ NewRounds

\* GetValidCRs, under the connection's lock, and then the listener.
ReadCRs(t) ==
  /\ task[t].pc = "read"
  /\ task' = [task EXCEPT ![t].pc = "publish", ![t].crs = validCRs[Head(task[t].todo)]]
  /\ UNCHANGED <<ca, changes, handler, connections, validCRs, roundRobin, mirror, turns>>

OnAgentCRsChanged(t) ==
  /\ task[t].pc = "publish"
  /\ mirror' = With(mirror, Head(task[t].todo), task[t].crs)
  /\ task' = [task EXCEPT ![t].pc = "next", ![t].todo = Tail(@)]
  /\ UNCHANGED <<ca, changes, handler, connections, validCRs, roundRobin, turns>>

\* After a revocation, the CR's cursor goes if nobody serves it any more.
Sweep(t) ==
  LET cr == task[t].cr
  IN  /\ task[t].pc = "next"
      /\ task[t].todo = << >>
      /\ roundRobin' = Without(roundRobin,
                               IF task[t].removed /\ Authorized(cr) = {} THEN {cr} ELSE {})
      /\ task' = [task EXCEPT ![t] = Idle]
      /\ UNCHANGED <<ca, changes, handler, connections, validCRs, mirror, turns>>

-----------------------------------------------------------------------------
RevalidateCR(t) ==
  \/ CopyConns(t) \/ UpdateCRValidity(t) \/ ReadCRs(t) \/ OnAgentCRsChanged(t) \/ Sweep(t)

Next ==
  \/ \E c \in Conns : Verify(c) \/ Register(c) \/ Unregister(c)
  \/ DisconnectAll
  \/ Get
  \/ \E cr \in CRs : ChangeCA(cr) \/ \E c \in Conns : GetForCR(cr, c)
  \/ \E t \in Tasks : RevalidateCR(t) \/ \E cr \in CRs : FetchCA(t, cr)

Spec == Init /\ [][Next]_vars

-----------------------------------------------------------------------------
(***************************************************************************)
(* A CR's cursor exists only while a registered connection serves the CR,  *)
(* or while a revalidation that took the CR from a connection has yet to   *)
(* sweep: connections that come and go, and authorisations that do, leave  *)
(* no cursor behind (cleanupOrphanedCRKeys, cleanupPerCRRoundRobinKeys,    *)
(* RevalidateCR).                                                          *)
(***************************************************************************)
CursorsBacked ==
  \A cr \in CRs \cap DOMAIN roundRobin :
    \/ Authorized(cr) # {}
    \/ \E t \in Tasks : task[t].removed /\ task[t].cr = cr

(***************************************************************************)
(* No connection is chosen for a CR a second time while another one that   *)
(* may serve it waits for its turn, as long as the connections to choose   *)
(* from stay the same, and wherever earlier changes of them left the       *)
(* cursor (GetForCR).                                                      *)
(***************************************************************************)
TurnsAreFair == \A cr \in CRs, c \in Conns : turns[cr][c] <= 1
=============================================================================
