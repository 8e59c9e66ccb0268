----------------------- MODULE ConnectionManagerProofs ----------------------
(***************************************************************************)
(* Proofs about ConnectionManager, for any connections, CRs, client CAs    *)
(* and concurrent revalidations: the types hold, no cursor is left behind, *)
(* and connections take turns in order.                                    *)
(*                                                                         *)
(* The types rest on two facts about the list (a connection is there once, *)
(* and only while its handler serves it) and two about the revalidations.  *)
(* That cursors are backed is inductive over them.  That turns are fair is *)
(* not: it needs to know where in the list those chosen in the current     *)
(* round are, which is right behind the cursor.                            *)
(***************************************************************************)
EXTENDS ConnectionManager, FiniteSetTheorems, TLAPS

\* Register appends a connection once, and only a serving handler's is listed.
ListedOnce == \A i, j \in DOMAIN connections : connections[i] = connections[j] => i = j
ListedServe == \A c \in Registered : handler[c] = "serving"

\* RevalidateCR has revoked nothing before its loop, and has a connection at
\* hand while it publishes a change.
TasksInv ==
  \A t \in Tasks :
    /\ task[t].pc \in {"idle", "fetched"} => ~ task[t].removed
    /\ task[t].pc \in {"read", "publish"} => task[t].todo # << >>

TypeInv == TypeOK /\ ListedOnce /\ ListedServe /\ TasksInv

Elements(s) == {s[i] : i \in DOMAIN s}

\* Unregister finds c at i and takes it from the list.
Delists(c, i) ==
  /\ connections[i] = c
  /\ connections' = Removed(connections, i)
  /\ mirror' = Without(mirror, {c})
  /\ roundRobin' = Without(roundRobin, IF connections' = << >> THEN Keys ELSE Orphaned(c))

-----------------------------------------------------------------------------
\* Sets, maps and lists.

\* Most leaves are first-order; those that are not cite SMT.
USE Zenon

(* A part of a finite set is no larger, and smaller if it is not the whole
   (the validConns of GetForCR among the connections). *)
LEMMA SubsetSize ==
  ASSUME NEW S, IsFiniteSet(S), NEW T, T \subseteq S
  PROVE  /\ IsFiniteSet(T)
         /\ Cardinality(T) \in Nat /\ Cardinality(S) \in Nat
         /\ Cardinality(T) <= Cardinality(S)
         /\ Cardinality(T) = Cardinality(S) => T = S
<1>1. /\ IsFiniteSet(T) /\ Cardinality(T) <= Cardinality(S)
      /\ Cardinality(S) = Cardinality(T) => S = T
  BY FS_Subset
<1>2. Cardinality(T) \in Nat /\ Cardinality(S) \in Nat
  BY <1>1, FS_CardinalityType
<1> QED
  BY <1>1, <1>2

(* Setting a key of a map adds no other key (roundRobin, localEntries). *)
LEMMA WithDomain ==
  ASSUME NEW f, NEW key, NEW v
  PROVE  DOMAIN With(f, key, v) = DOMAIN f \cup {key}
BY DEF With

(* A key that is set has its new value, and the others keep theirs
   (roundRobin, localEntries). *)
LEMMA WithIs ==
  ASSUME NEW f, NEW key, NEW v
  PROVE  /\ With(f, key, v)[key] = v
         /\ \A k \in DOMAIN f : k # key => With(f, key, v)[k] = f[k]
BY DEF With

(* What append(conns[:i], conns[i+1:]...) yields, entry by entry (Unregister). *)
LEMMA RemovedIs ==
  ASSUME NEW S, NEW s \in Seq(S), NEW i \in DOMAIN s
  PROVE  /\ Removed(s, i) \in Seq(S)
         /\ Len(Removed(s, i)) = Len(s) - 1
         /\ \A j \in 1 .. Len(s) - 1 :
              Removed(s, i)[j] = IF j < i THEN s[j] ELSE s[j + 1]
<1> DEFINE a == SubSeq(s, 1, i - 1)
           b == SubSeq(s, i + 1, Len(s))
<1>1. i \in 1 .. Len(s)
  BY SMT
<1>2. a \in Seq(S) /\ Len(a) = i - 1 /\ \A j \in 1 .. i - 1 : a[j] = s[j]
  BY SMT, <1>1
<1>3. b \in Seq(S) /\ Len(b) = Len(s) - i /\ \A j \in 1 .. Len(s) - i : b[j] = s[j + i]
  BY SMT, <1>1
<1> HIDE DEF a, b
<1>4. /\ a \o b \in Seq(S)
      /\ Len(a \o b) = Len(a) + Len(b)
      /\ \A j \in 1 .. Len(a) + Len(b) : (a \o b)[j] = IF j <= Len(a) THEN a[j] ELSE b[j - Len(a)]
  <2>1. a \in Seq(S) /\ b \in Seq(S)
    BY <1>2, <1>3
  <2> QED
    BY SMT, <2>1
<1>5. Removed(s, i) = a \o b
  BY DEF Removed, a, b
<1>6. Len(s) \in Nat /\ Len(a) + Len(b) = Len(s) - 1
  <2>1. Len(s) \in Nat
    BY SMT
  <2>2. Len(a) = i - 1 /\ Len(b) = Len(s) - i
    BY <1>2, <1>3
  <2> QED
    BY SMT, <1>1, <2>1, <2>2
<1>7. ASSUME NEW j \in 1 .. Len(s) - 1
      PROVE  (a \o b)[j] = IF j < i THEN s[j] ELSE s[j + 1]
  <2>1. (a \o b)[j] = IF j <= i - 1 THEN a[j] ELSE b[j - (i - 1)]
    BY <1>2, <1>4, <1>6
  <2>2. CASE j < i
    BY SMT, <1>1, <1>2, <1>6, <2>1, <2>2
  <2>3. CASE ~ (j < i)
    <3>1. j - (i - 1) \in 1 .. Len(s) - i /\ (j - (i - 1)) + i = j + 1 /\ ~ (j <= i - 1)
      BY SMT, <1>1, <1>6, <2>3
    <3>2. b[j - (i - 1)] = s[j + 1]
      BY <1>3, <3>1
    <3> QED
      BY <2>1, <2>3, <3>1, <3>2
  <2> QED
    BY <2>2, <2>3
<1>8. Len(a \o b) = Len(s) - 1
  BY <1>4, <1>6
<1> QED
  BY <1>4, <1>5, <1>7, <1>8

(* A list without its i-th entry still lists everything else once, in the
   same order (Unregister). *)
LEMMA RemovedOnce ==
  ASSUME NEW S, NEW s \in Seq(S), NEW i \in DOMAIN s,
         \A j, k \in DOMAIN s : s[j] = s[k] => j = k
  PROVE  /\ \A j, k \in DOMAIN Removed(s, i) : Removed(s, i)[j] = Removed(s, i)[k] => j = k
         /\ Elements(Removed(s, i)) = Elements(s) \ {s[i]}
         /\ \A d, e \in Elements(s) \ {s[i]} :
              Precedes(Removed(s, i), d, e) <=> Precedes(s, d, e)
<1> DEFINE r == Removed(s, i)
           up(j) == IF j < i THEN j ELSE j + 1
           down(j) == IF j < i THEN j ELSE j - 1
<1>a. Len(s) \in Nat /\ i \in 1 .. Len(s)
  BY SMT
<1>b. /\ r \in Seq(S) /\ Len(r) = Len(s) - 1
      /\ \A j \in 1 .. Len(s) - 1 : r[j] = IF j < i THEN s[j] ELSE s[j + 1]
  BY RemovedIs
<1>1. /\ r \in Seq(S) /\ Len(r) = Len(s) - 1 /\ Len(s) \in Nat /\ i \in 1 .. Len(s)
      /\ \A j \in 1 .. Len(s) - 1 : r[j] = s[up(j)]
  BY <1>a, <1>b, Zenon
<1>2. DOMAIN r = 1 .. Len(s) - 1 /\ DOMAIN s = 1 .. Len(s)
  BY SMT, <1>1
<1> HIDE DEF r
<1>3. \A j \in DOMAIN r : up(j) \in DOMAIN s /\ up(j) # i /\ r[j] = s[up(j)]
  BY SMT, <1>1, <1>2
<1>4. ASSUME NEW j \in DOMAIN s \ {i}
      PROVE  down(j) \in DOMAIN r /\ r[down(j)] = s[j]
  <2>1. down(j) \in 1 .. Len(s) - 1 /\ up(down(j)) = j
    BY SMT, <1>1, <1>2
  <2> HIDE DEF up, down
  <2> QED
    BY <1>1, <1>2, <2>1
<1>5. \A j, k \in DOMAIN r : r[j] = r[k] => j = k
  BY SMT, <1>1, <1>2, <1>3
<1>6. \A j, k \in DOMAIN r : j < k => up(j) < up(k)
  BY SMT, <1>1, <1>2
<1>7. \A j, k \in DOMAIN s \ {i} : j < k => down(j) < down(k)
  BY SMT, <1>1, <1>2
<1> HIDE DEF up, down
<1>8. Elements(r) = Elements(s) \ {s[i]}
  <2>1. Elements(r) \subseteq Elements(s) \ {s[i]}
    BY SMT, <1>3 DEF Elements
  <2>2. Elements(s) \ {s[i]} \subseteq Elements(r)
    BY SMT, <1>4 DEF Elements
  <2> QED
    BY <2>1, <2>2
<1>9. ASSUME NEW d \in Elements(s) \ {s[i]}, NEW e \in Elements(s) \ {s[i]}
      PROVE  Precedes(r, d, e) <=> Precedes(s, d, e)
  <2>1. ASSUME Precedes(r, d, e) PROVE Precedes(s, d, e)
    <3>1. PICK j, k \in DOMAIN r : j < k /\ r[j] = d /\ r[k] = e
      BY <2>1 DEF Precedes
    <3> QED
      BY <3>1, <1>3, <1>6 DEF Precedes
  <2>2. ASSUME Precedes(s, d, e) PROVE Precedes(r, d, e)
    <3>1. PICK j, k \in DOMAIN s : j < k /\ s[j] = d /\ s[k] = e
      BY <2>2 DEF Precedes
    <3>2. j # i /\ k # i
      BY <3>1
    <3> QED
      BY <3>1, <3>2, <1>4, <1>7 DEF Precedes
  <2> QED
    BY <2>1, <2>2
<1> QED
  BY <1>5, <1>8, <1>9 DEF r

(* A list with a new entry lists everything once, and what was there in the
   same order (Register). *)
LEMMA AppendedOnce ==
  ASSUME NEW S, NEW s \in Seq(S), NEW c \in S, c \notin Elements(s),
         \A j, k \in DOMAIN s : s[j] = s[k] => j = k
  PROVE  /\ \A j, k \in DOMAIN Append(s, c) : Append(s, c)[j] = Append(s, c)[k] => j = k
         /\ Elements(Append(s, c)) = Elements(s) \cup {c}
         /\ \A d, e \in Elements(s) :
              Precedes(Append(s, c), d, e) <=> Precedes(s, d, e)
<1> DEFINE r == Append(s, c)
<1>1. /\ r \in Seq(S) /\ Len(r) = Len(s) + 1 /\ Len(s) \in Nat /\ r[Len(s) + 1] = c
      /\ \A j \in 1 .. Len(s) : r[j] = s[j]
  BY SMT
<1>2. DOMAIN r = 1 .. Len(s) + 1 /\ DOMAIN s = 1 .. Len(s)
  BY SMT, <1>1
<1> HIDE DEF r
<1>3. /\ DOMAIN r = DOMAIN s \cup {Len(s) + 1} /\ Len(s) + 1 \notin DOMAIN s
      /\ \A j \in DOMAIN s : r[j] = s[j] /\ s[j] # c
  <2>1. \A j \in DOMAIN s : r[j] = s[j]
    BY <1>1, <1>2
  <2>2. \A j \in DOMAIN s : s[j] # c
    BY DEF Elements
  <2>3. DOMAIN r = DOMAIN s \cup {Len(s) + 1} /\ Len(s) + 1 \notin DOMAIN s
    BY SMT, <1>1, <1>2
  <2> QED
    BY <2>1, <2>2, <2>3
<1>4. \A j, k \in DOMAIN r : r[j] = r[k] => j = k
  BY <1>1, <1>3
<1>5. Elements(r) = Elements(s) \cup {c}
  <2>1. Elements(r) \subseteq Elements(s) \cup {c}
    BY SMT, <1>1, <1>3 DEF Elements
  <2>2. Elements(s) \cup {c} \subseteq Elements(r)
    BY SMT, <1>1, <1>3 DEF Elements
  <2> QED
    BY <2>1, <2>2
<1>6. ASSUME NEW d \in Elements(s), NEW e \in Elements(s)
      PROVE  Precedes(r, d, e) <=> Precedes(s, d, e)
  BY <1>1, <1>3 DEF Precedes
<1> QED
  BY <1>4, <1>5, <1>6 DEF r

-----------------------------------------------------------------------------
\* The parts of the state.

USE ConnsAssumption, CRsAssumption, PlaneAssumption, BoundAssumption

(* A cursor is an index, 0 for a key that is not there (Get, GetForCR). *)
LEMMA CursorIs ==
  ASSUME TypeOK, NEW key \in Keys
  PROVE  Cursor(key) \in Nat
<1>1. Cardinality(Conns) \in Nat
  BY FS_CardinalityType
<1> QED
  BY SMT, <1>1 DEF TypeOK, Cursor

(* The cursor's index moves to the next one, and from the last to the first
   (Get, GetForCR). *)
LEMMA NextIndex ==
  ASSUME NEW n \in Nat, n # 0, NEW p \in Nat
  PROVE  /\ p % n \in 0 .. n - 1
         /\ ((p % n) + 1) % n = IF (p % n) + 1 = n THEN 0 ELSE (p % n) + 1
BY SMT

(* An advanced cursor is an index, and the others are as they were (Get,
   GetForCR). *)
LEMMA AdvanceTyped ==
  ASSUME TypeOK, NEW key \in Keys,
         NEW n \in Nat, n # 0, n <= Cardinality(Conns), roundRobin' = Advance(key, n)
  PROVE  /\ DOMAIN roundRobin' \subseteq Keys
         /\ \A k \in DOMAIN roundRobin' : roundRobin'[k] \in 0 .. Cardinality(Conns) - 1
<1> DEFINE v == ((Cursor(key) % n) + 1) % n
<1>1. Cardinality(Conns) \in Nat
  BY FS_CardinalityType
<1>2. Cursor(key) \in Nat
  BY CursorIs
<1>3. v \in 0 .. Cardinality(Conns) - 1
  <2>1. v \in 0 .. n - 1
    BY SMT, <1>2
  <2> HIDE DEF v
  <2> QED
    BY SMT, <1>1, <2>1
<1>4. roundRobin' = With(roundRobin, key, v)
  BY DEF Advance
<1> HIDE DEF v
<1>5. DOMAIN roundRobin' = DOMAIN roundRobin \cup {key}
  BY <1>4, WithDomain
<1>6. /\ roundRobin'[key] = v
      /\ \A k \in DOMAIN roundRobin : k # key => roundRobin'[k] = roundRobin[k]
  BY SMT, <1>4, WithIs
<1> QED
  BY <1>3, <1>5, <1>6 DEF TypeOK

(* Deleting cursors leaves cursors (cleanupOrphanedCRKeys,
   cleanupPerCRRoundRobinKeys). *)
LEMMA WithoutTyped ==
  ASSUME TypeOK, NEW gone, roundRobin' = Without(roundRobin, gone)
  PROVE  /\ DOMAIN roundRobin' \subseteq Keys
         /\ \A k \in DOMAIN roundRobin' : roundRobin'[k] \in 0 .. Cardinality(Conns) - 1
BY DEF TypeOK, Without

(* What the mesh is told of a connection is a set of CRs (OnAgentRegistered,
   OnAgentCRsChanged). *)
LEMMA MirrorWithTyped ==
  ASSUME TypeOK, NEW c \in Conns, NEW crs \in SUBSET CRs, mirror' = With(mirror, c, crs)
  PROVE  DOMAIN mirror' \subseteq Conns /\ \A d \in DOMAIN mirror' : mirror'[d] \subseteq CRs
<1>1. DOMAIN mirror' = DOMAIN mirror \cup {c}
  BY WithDomain
<1>2. /\ mirror'[c] = crs
      /\ \A k \in DOMAIN mirror : k # c => mirror'[k] = mirror[k]
  BY SMT, WithIs
<1> QED
  BY <1>1, <1>2 DEF TypeOK

(* What the mesh forgets leaves the rest as it was (OnAgentUnregistered). *)
LEMMA MirrorWithoutTyped ==
  ASSUME TypeOK, NEW gone, mirror' = Without(mirror, gone)
  PROVE  DOMAIN mirror' \subseteq Conns /\ \A d \in DOMAIN mirror' : mirror'[d] \subseteq CRs
BY DEF TypeOK, Without

(* The history starts with nobody chosen (GetForCR). *)
LEMMA NoTurnsTyped == NoTurns \in [Conns -> Nat]
BY DEF NoTurns

(* A new round of the history is one (GetForCR). *)
LEMMA NewRoundsTyped ==
  ASSUME TypeOK, NewRounds
  PROVE  turns' \in [CRs -> [Conns -> Nat]]
BY NoTurnsTyped DEF TypeOK, NewRounds

(* A goroutine outside RevalidateCR has revoked nothing (RevalidateCR). *)
LEMMA IdleTyped ==
  ASSUME ca \in [CRs -> CAs]
  PROVE  /\ Idle \in Revalidation
         /\ Idle.pc = "idle" /\ Idle.removed = FALSE
<1>1. CRs # {} /\ CAs # {}
  OBVIOUS
<1>2. (CHOOSE cr \in CRs : TRUE) \in CRs /\ (CHOOSE k \in CAs : TRUE) \in CAs
  BY <1>1
<1>3. << >> \in Seq(Conns) /\ {} \in SUBSET CRs
  BY SMT
<1> QED
  BY <1>2, <1>3 DEF Idle, Revalidation

(* The registered connections are those of the list (ConnectionManager). *)
LEMMA RegisteredIs == Registered = Elements(connections)
BY DEF Registered, Elements

(* Each list of connections a caller picks from is finite, and no longer than
   there are connections (Get, GetForCR). *)
LEMMA SizesBounded ==
  ASSUME TypeOK
  PROVE  /\ Registered \subseteq Conns /\ IsFiniteSet(Registered)
         /\ Len(connections) \in Nat /\ Len(connections) <= Cardinality(Conns)
         /\ \A cr : /\ IsFiniteSet(Authorized(cr))
                    /\ Cardinality(Authorized(cr)) \in Nat
                    /\ Cardinality(Authorized(cr)) <= Cardinality(Conns)
                    /\ Authorized(cr) # {} => Cardinality(Authorized(cr)) # 0
<1>1. Registered \subseteq Conns
  BY SMT DEF TypeOK, Registered
<1>2. IsFiniteSet(Registered) /\ Cardinality(Registered) <= Cardinality(Conns)
  BY <1>1, SubsetSize
<1>3. ASSUME NEW cr
      PROVE  /\ IsFiniteSet(Authorized(cr))
             /\ Cardinality(Authorized(cr)) \in Nat
             /\ Cardinality(Authorized(cr)) <= Cardinality(Conns)
             /\ Authorized(cr) # {} => Cardinality(Authorized(cr)) # 0
  <2>1. Authorized(cr) \subseteq Conns
    BY <1>1 DEF Authorized
  <2>2. /\ IsFiniteSet(Authorized(cr)) /\ Cardinality(Authorized(cr)) \in Nat
        /\ Cardinality(Authorized(cr)) <= Cardinality(Conns)
    BY <2>1, SubsetSize
  <2>3. Authorized(cr) # {} => Cardinality(Authorized(cr)) # 0
    BY <2>2, FS_EmptySet
  <2> QED
    BY <2>2, <2>3
<1>4. Len(connections) \in Nat /\ Len(connections) = Cardinality(Registered)
  BY SMT DEF TypeOK
<1> QED
  BY <1>1, <1>2, <1>3, <1>4

(* Registering keeps the list free of duplicates and its order (Register). *)
LEMMA ListAppended ==
  ASSUME TypeOK, ListedOnce, NEW c \in Conns, c \notin Registered,
         connections' = Append(connections, c)
  PROVE  /\ connections' \in Seq(Conns) /\ Len(connections') = Cardinality(Registered')
         /\ ListedOnce'
         /\ Registered' = Registered \cup {c}
         /\ \A d, e \in Registered :
              Precedes(connections', d, e) <=> Precedes(connections, d, e)
<1>1. connections \in Seq(Conns) /\ c \notin Elements(connections)
  BY RegisteredIs DEF TypeOK
<1>2. \A j, k \in DOMAIN connections : connections[j] = connections[k] => j = k
  BY DEF ListedOnce
<1>3. /\ \A j, k \in DOMAIN connections' : connections'[j] = connections'[k] => j = k
      /\ Elements(connections') = Elements(connections) \cup {c}
      /\ \A d, e \in Elements(connections) :
           Precedes(connections', d, e) <=> Precedes(connections, d, e)
  BY SMT, <1>1, <1>2, AppendedOnce
<1>4. Registered' = Elements(connections')
  BY DEF Registered, Elements
<1>5. connections' \in Seq(Conns) /\ Len(connections') = Len(connections) + 1
  BY SMT, <1>1
<1>6. Cardinality(Registered \cup {c}) = Cardinality(Registered) + 1
  BY SizesBounded, FS_AddElement
<1>7. Len(connections) = Cardinality(Registered)
  BY DEF TypeOK
<1>8. Registered' = Registered \cup {c}
  BY <1>3, <1>4, RegisteredIs
<1>9. ListedOnce'
  BY <1>3 DEF ListedOnce
<1> QED
  BY <1>3, <1>5, <1>6, <1>7, <1>8, <1>9, RegisteredIs

(* Removing one connection keeps the list free of duplicates and the order of
   the others (Unregister). *)
LEMMA ListRemoved ==
  ASSUME TypeOK, ListedOnce, NEW i \in DOMAIN connections,
         connections' = Removed(connections, i)
  PROVE  /\ connections' \in Seq(Conns) /\ Len(connections') = Cardinality(Registered')
         /\ ListedOnce'
         /\ Registered' = Registered \ {connections[i]}
         /\ \A d, e \in Registered \ {connections[i]} :
              Precedes(connections', d, e) <=> Precedes(connections, d, e)
<1> DEFINE c == connections[i]
<1>1. connections \in Seq(Conns) /\ c \in Elements(connections)
  BY DEF TypeOK, Elements
<1>2. \A j, k \in DOMAIN connections : connections[j] = connections[k] => j = k
  BY DEF ListedOnce
<1>3. /\ \A j, k \in DOMAIN connections' : connections'[j] = connections'[k] => j = k
      /\ Elements(connections') = Elements(connections) \ {c}
      /\ \A d, e \in Elements(connections) \ {c} :
           Precedes(connections', d, e) <=> Precedes(connections, d, e)
  BY SMT, <1>1, <1>2, RemovedOnce
<1>4. Registered' = Elements(connections')
  BY DEF Registered, Elements
<1>5. connections' \in Seq(Conns) /\ Len(connections') = Len(connections) - 1
  BY <1>1, RemovedIs
<1> HIDE DEF c
<1>6. Cardinality(Registered \ {c}) = Cardinality(Registered) - 1
  BY <1>1, RegisteredIs, SizesBounded, FS_RemoveElement
<1>7. Len(connections) = Cardinality(Registered)
  BY DEF TypeOK
<1>8. Registered' = Registered \ {c}
  BY <1>3, <1>4, RegisteredIs
<1>9. ListedOnce'
  BY <1>3 DEF ListedOnce
<1> QED
  BY <1>3, <1>5, <1>6, <1>7, <1>8, <1>9, RegisteredIs DEF c

(* An empty list registers nobody (DisconnectAllForPlane). *)
LEMMA ListEmptied ==
  ASSUME connections' = << >>
  PROVE  /\ connections' \in Seq(Conns) /\ Len(connections') = Cardinality(Registered')
         /\ ListedOnce' /\ Registered' = {}
<1>1. connections' \in Seq(Conns) /\ Len(connections') = 0 /\ DOMAIN connections' = {}
  BY SMT
<1>2. Registered' = {} /\ ListedOnce'
  BY <1>1 DEF Registered, ListedOnce
<1> QED
  BY <1>1, <1>2, FS_EmptySet

(* A list that nobody writes stays free of duplicates (ConnectionManager). *)
LEMMA ListKept ==
  ASSUME TypeOK, ListedOnce, connections' = connections
  PROVE  /\ connections' \in Seq(Conns) /\ Len(connections') = Cardinality(Registered')
         /\ ListedOnce' /\ Registered' = Registered
<1>1. Registered' = Registered
  BY DEF Registered
<1> QED
  BY <1>1 DEF TypeOK, ListedOnce

(* The parts of the type invariant make the whole after a step
   (ConnectionManager). *)
LEMMA TypeOfParts ==
  ASSUME ca' \in [CRs -> CAs], changes' \in 0 .. MaxChanges,
         handler' \in [Conns -> {"new", "verified", "serving", "gone"}],
         connections' \in Seq(Conns), Len(connections') = Cardinality(Registered'),
         validCRs' \in [Conns -> SUBSET CRs],
         DOMAIN roundRobin' \subseteq Keys,
         \A k \in DOMAIN roundRobin' : roundRobin'[k] \in 0 .. Cardinality(Conns) - 1,
         DOMAIN mirror' \subseteq Conns, \A d \in DOMAIN mirror' : mirror'[d] \subseteq CRs,
         task' \in [Tasks -> Revalidation], turns' \in [CRs -> [Conns -> Nat]]
  PROVE  TypeOK'
BY DEF TypeOK

(* Cursors that nobody writes stay indices (roundRobin). *)
LEMMA CursorsKept ==
  ASSUME TypeOK, roundRobin' = roundRobin
  PROVE  /\ DOMAIN roundRobin' \subseteq Keys
         /\ \A k \in DOMAIN roundRobin' : roundRobin'[k] \in 0 .. Cardinality(Conns) - 1
BY DEF TypeOK

(* What the mesh was told stays a set of CRs for each connection (localEntries). *)
LEMMA MirrorKept ==
  ASSUME TypeOK, mirror' = mirror
  PROVE  DOMAIN mirror' \subseteq Conns /\ \A d \in DOMAIN mirror' : mirror'[d] \subseteq CRs
BY DEF TypeOK

-----------------------------------------------------------------------------
\* The types.

(* Checking a certificate keeps the types (handleWebSocket). *)
LEMMA VerifyTyped ==
  ASSUME TypeInv, NEW c \in Conns, Verify(c)
  PROVE  TypeInv'
<1>1. TypeOK'
  <2>1. /\ ca' \in [CRs -> CAs] /\ changes' \in 0 .. MaxChanges
        /\ handler' \in [Conns -> {"new", "verified", "serving", "gone"}]
        /\ validCRs' \in [Conns -> SUBSET CRs] /\ task' \in [Tasks -> Revalidation]
        /\ turns' \in [CRs -> [Conns -> Nat]]
    BY DEF TypeInv, TypeOK, Verify
  <2> QED
    BY <2>1, ListKept, CursorsKept, MirrorKept, TypeOfParts DEF TypeInv, Verify
<1>2. ListedOnce' /\ Registered' = Registered
  BY ListKept DEF TypeInv, Verify
<1>3. ListedServe'
  BY SMT, <1>2 DEF TypeInv, TypeOK, Verify, ListedServe
<1>4. TasksInv'
  BY DEF TypeInv, Verify, TasksInv
<1> QED
  BY <1>1, <1>2, <1>3, <1>4 DEF TypeInv

(* Registering keeps the types, and lists a connection that was not there
   (Register). *)
LEMMA RegisterTyped ==
  ASSUME TypeInv, NEW c \in Conns, Register(c)
  PROVE  TypeInv'
<1>a. c \notin Registered /\ handler[c] = "verified"
  BY DEF TypeInv, ListedServe, Register
<1>b. /\ connections' \in Seq(Conns) /\ Len(connections') = Cardinality(Registered')
      /\ ListedOnce'
      /\ Registered' = Registered \cup {c}
  BY <1>a, ListAppended DEF TypeInv, Register
<1>1. TypeOK'
  <2>1. /\ ca' \in [CRs -> CAs] /\ changes' \in 0 .. MaxChanges
        /\ handler' \in [Conns -> {"new", "verified", "serving", "gone"}]
        /\ validCRs' \in [Conns -> SUBSET CRs] /\ task' \in [Tasks -> Revalidation]
    BY DEF TypeInv, TypeOK, Register
  <2>2. validCRs[c] \in SUBSET CRs
    BY DEF TypeInv, TypeOK
  <2>3. DOMAIN mirror' \subseteq Conns /\ \A d \in DOMAIN mirror' : mirror'[d] \subseteq CRs
    BY <2>2, MirrorWithTyped DEF TypeInv, Register
  <2>4. turns' \in [CRs -> [Conns -> Nat]]
    BY NewRoundsTyped DEF TypeInv, Register
  <2> QED
    BY <1>b, <2>1, <2>3, <2>4, CursorsKept, TypeOfParts DEF TypeInv, Register
<1>3. ListedServe'
  BY SMT, <1>b DEF TypeInv, TypeOK, Register, ListedServe
<1>4. TasksInv'
  BY DEF TypeInv, Register, TasksInv
<1> QED
  BY <1>1, <1>b, <1>3, <1>4 DEF TypeInv

(* Unregistering keeps the types, whether or not the connection was still
   listed (Unregister). *)
LEMMA UnregisterTyped ==
  ASSUME TypeInv, NEW c \in Conns, Unregister(c)
  PROVE  TypeInv'
<1>a. /\ ca' \in [CRs -> CAs] /\ changes' \in 0 .. MaxChanges
      /\ handler' \in [Conns -> {"new", "verified", "serving", "gone"}]
      /\ validCRs' \in [Conns -> SUBSET CRs] /\ task' \in [Tasks -> Revalidation]
  BY DEF TypeInv, TypeOK, Unregister
<1>b. turns' \in [CRs -> [Conns -> Nat]]
  BY NewRoundsTyped DEF TypeInv, Unregister
<1>c. TasksInv' /\ \A d \in Conns : d # c => handler'[d] = handler[d]
  BY DEF TypeInv, TypeOK, Unregister, TasksInv
<1>1. CASE c \notin Registered /\ UNCHANGED <<connections, mirror, roundRobin>>
  <2>1. TypeOK'
    BY <1>1, <1>a, <1>b, ListKept, CursorsKept, MirrorKept, TypeOfParts DEF TypeInv
  <2>2. ListedOnce' /\ Registered' = Registered
    BY <1>1, ListKept DEF TypeInv
  <2>3. ListedServe'
    BY <1>1, <1>c, <2>2, SizesBounded DEF TypeInv, ListedServe
  <2> QED
    BY <1>c, <2>1, <2>2, <2>3 DEF TypeInv
<1>2. CASE \E i \in DOMAIN connections : Delists(c, i)
  <2> PICK i \in DOMAIN connections : Delists(c, i)
    BY <1>2
  <2> USE DEF Delists
  <2>1. /\ connections' \in Seq(Conns) /\ Len(connections') = Cardinality(Registered')
        /\ ListedOnce'
        /\ Registered' = Registered \ {c}
    BY ListRemoved DEF TypeInv
  <2>2. /\ DOMAIN roundRobin' \subseteq Keys
        /\ \A k \in DOMAIN roundRobin' : roundRobin'[k] \in 0 .. Cardinality(Conns) - 1
    BY WithoutTyped DEF TypeInv
  <2>3. DOMAIN mirror' \subseteq Conns /\ \A d \in DOMAIN mirror' : mirror'[d] \subseteq CRs
    BY MirrorWithoutTyped DEF TypeInv
  <2>4. TypeOK'
    BY <1>a, <1>b, <2>1, <2>2, <2>3, TypeOfParts
  <2>5. ListedServe'
    BY <1>c, <2>1, SizesBounded DEF TypeInv, ListedServe
  <2> QED
    BY <1>c, <2>1, <2>4, <2>5 DEF TypeInv
<1> QED
  BY <1>1, <1>2 DEF Unregister, Delists

(* Dropping every connection of the plane keeps the types
   (DisconnectAllForPlane). *)
LEMMA DisconnectAllTyped ==
  ASSUME TypeInv, DisconnectAll
  PROVE  TypeInv'
<1>a. /\ ca' \in [CRs -> CAs] /\ changes' \in 0 .. MaxChanges
      /\ handler' \in [Conns -> {"new", "verified", "serving", "gone"}]
      /\ validCRs' \in [Conns -> SUBSET CRs] /\ task' \in [Tasks -> Revalidation]
  BY DEF TypeInv, TypeOK, DisconnectAll
<1>b. turns' \in [CRs -> [Conns -> Nat]]
  BY NewRoundsTyped DEF TypeInv, DisconnectAll
<1>c. DOMAIN mirror' \subseteq Conns /\ \A d \in DOMAIN mirror' : mirror'[d] \subseteq CRs
  BY MirrorWithoutTyped DEF TypeInv, DisconnectAll
<1>d. DOMAIN roundRobin' = {}
  BY SMT DEF DisconnectAll
<1>1. /\ connections' \in Seq(Conns) /\ Len(connections') = Cardinality(Registered')
      /\ ListedOnce' /\ Registered' = {}
  BY ListEmptied DEF DisconnectAll
<1>2. TypeOK'
  BY <1>a, <1>b, <1>c, <1>d, <1>1, TypeOfParts
<1>3. ListedServe' /\ TasksInv'
  BY <1>1 DEF TypeInv, ListedServe, TasksInv, DisconnectAll
<1> QED
  BY <1>1, <1>2, <1>3 DEF TypeInv

(* Steps that leave list and handlers alone leave served what is listed
   (ConnectionManager). *)
LEMMA ServeKept ==
  ASSUME TypeInv, connections' = connections, handler' = handler
  PROVE  ListedOnce' /\ ListedServe' /\ Registered' = Registered
BY ListKept DEF TypeInv, ListedServe

(* Handing out any connection keeps the plane's cursor an index (Get). *)
LEMMA GetTyped ==
  ASSUME TypeInv, Get
  PROVE  TypeInv'
<1>a. /\ ca' \in [CRs -> CAs] /\ changes' \in 0 .. MaxChanges
      /\ handler' \in [Conns -> {"new", "verified", "serving", "gone"}]
      /\ validCRs' \in [Conns -> SUBSET CRs] /\ task' \in [Tasks -> Revalidation]
      /\ turns' \in [CRs -> [Conns -> Nat]]
  BY DEF TypeInv, TypeOK, Get
<1>1. Plane \in Keys /\ connections \in Seq(Conns) /\ connections # << >>
  BY DEF TypeInv, TypeOK, Keys, Get
<1>2. Len(connections) \in Nat /\ Len(connections) # 0 /\ Len(connections) <= Cardinality(Conns)
  BY SMT, <1>1, SizesBounded DEF TypeInv
<1>3. /\ DOMAIN roundRobin' \subseteq Keys
      /\ \A k \in DOMAIN roundRobin' : roundRobin'[k] \in 0 .. Cardinality(Conns) - 1
  BY <1>1, <1>2, AdvanceTyped DEF TypeInv, Get
<1>4. TypeOK'
  BY <1>a, <1>3, ListKept, MirrorKept, TypeOfParts DEF TypeInv, Get
<1>5. ListedOnce' /\ ListedServe' /\ TasksInv'
  BY ServeKept DEF Get, TypeInv, TasksInv
<1> QED
  BY <1>4, <1>5 DEF TypeInv

(* Handing out a connection for a CR keeps the CR's cursor an index (GetForCR). *)
LEMMA GetForCRTyped ==
  ASSUME TypeInv, NEW cr \in CRs, NEW c \in Conns, GetForCR(cr, c)
  PROVE  TypeInv'
<1> DEFINE n == Cardinality(Authorized(cr))
           round == [turns[cr] EXCEPT ![c] = @ + 1]
<1>a. /\ ca' \in [CRs -> CAs] /\ changes' \in 0 .. MaxChanges
      /\ handler' \in [Conns -> {"new", "verified", "serving", "gone"}]
      /\ validCRs' \in [Conns -> SUBSET CRs] /\ task' \in [Tasks -> Revalidation]
  BY DEF TypeInv, TypeOK, GetForCR
<1>1. cr \in Keys /\ c \in Authorized(cr) /\ roundRobin' = Advance(cr, n)
  BY DEF Keys, GetForCR
<1>2. n \in Nat /\ n # 0 /\ n <= Cardinality(Conns)
  BY <1>1, SizesBounded DEF TypeInv
<1>3. /\ DOMAIN roundRobin' \subseteq Keys
      /\ \A k \in DOMAIN roundRobin' : roundRobin'[k] \in 0 .. Cardinality(Conns) - 1
  <2> HIDE DEF n
  <2> QED
    BY <1>1, <1>2, AdvanceTyped DEF TypeInv
<1>b. turns' \in [CRs -> [Conns -> Nat]]
  <2>1. turns \in [CRs -> [Conns -> Nat]]
    BY DEF TypeInv, TypeOK
  <2>2. round \in [Conns -> Nat]
    BY SMT, <2>1
  <2>3. \/ turns' = [turns EXCEPT ![cr] = round]
        \/ turns' = [turns EXCEPT ![cr] = NoTurns]
    BY DEF GetForCR
  <2> HIDE DEF round
  <2> QED
    BY <2>1, <2>2, <2>3, NoTurnsTyped
<1>4. TypeOK'
  BY <1>a, <1>b, <1>3, ListKept, MirrorKept, TypeOfParts DEF TypeInv, GetForCR
<1>5. ListedOnce' /\ ListedServe' /\ TasksInv'
  BY ServeKept DEF GetForCR, TypeInv, TasksInv
<1> QED
  BY <1>4, <1>5 DEF TypeInv

(* A new client CA keeps the types (a CR's spec). *)
LEMMA ChangeCATyped ==
  ASSUME TypeInv, NEW cr \in CRs, ChangeCA(cr)
  PROVE  TypeInv'
<1>a. /\ handler' \in [Conns -> {"new", "verified", "serving", "gone"}]
      /\ validCRs' \in [Conns -> SUBSET CRs] /\ task' \in [Tasks -> Revalidation]
      /\ turns' \in [CRs -> [Conns -> Nat]]
  BY DEF TypeInv, TypeOK, ChangeCA
<1>1. ca' \in [CRs -> CAs]
  BY DEF TypeInv, TypeOK, ChangeCA
<1>2. changes' \in 0 .. MaxChanges
  BY SMT DEF TypeInv, TypeOK, ChangeCA
<1>4. TypeOK'
  BY <1>a, <1>1, <1>2, ListKept, CursorsKept, MirrorKept, TypeOfParts DEF TypeInv, ChangeCA
<1>5. ListedOnce' /\ ListedServe' /\ TasksInv'
  BY ServeKept DEF ChangeCA, TypeInv, TasksInv
<1> QED
  BY <1>4, <1>5 DEF TypeInv

(* One goroutine moves on and the others stay where they are (RevalidateCR). *)
LEMMA TaskSet ==
  ASSUME TypeInv, NEW t \in Tasks, NEW v \in Revalidation, task' = [task EXCEPT ![t] = v],
         v.pc \in {"idle", "fetched"} => ~ v.removed,
         v.pc \in {"read", "publish"} => v.todo # << >>
  PROVE  task' \in [Tasks -> Revalidation] /\ TasksInv'
<1>1. task \in [Tasks -> Revalidation]
  BY DEF TypeInv, TypeOK
<1>2. task' \in [Tasks -> Revalidation]
  BY <1>1
<1>3. task'[t] = v /\ \A u \in Tasks : u # t => task'[u] = task[u]
  BY <1>1
<1> QED
  BY <1>2, <1>3 DEF TypeInv, TasksInv

(* Reading a CR's CA starts a revalidation (handlePlaneNotification,
   ApplyPlaneEvent). *)
LEMMA FetchCATyped ==
  ASSUME TypeInv, NEW t \in Tasks, NEW cr \in CRs, FetchCA(t, cr)
  PROVE  TypeInv'
<1> DEFINE v == [Idle EXCEPT !.pc = "fetched", !.cr = cr, !.ca = ca[cr]]
<1>1. ca \in [CRs -> CAs]
  BY DEF TypeInv, TypeOK
<1>2. Idle \in Revalidation /\ Idle.removed = FALSE
  BY <1>1, IdleTyped
<1>3. v \in Revalidation /\ v.pc = "fetched" /\ v.removed = FALSE
  BY <1>1, <1>2 DEF Revalidation
<1>4. task' = [task EXCEPT ![t] = v]
  BY DEF FetchCA
<1> HIDE DEF v
<1>5. task' \in [Tasks -> Revalidation] /\ TasksInv'
  BY <1>3, <1>4, TaskSet
<1>a. /\ ca' \in [CRs -> CAs] /\ changes' \in 0 .. MaxChanges
      /\ handler' \in [Conns -> {"new", "verified", "serving", "gone"}]
      /\ validCRs' \in [Conns -> SUBSET CRs]
      /\ turns' \in [CRs -> [Conns -> Nat]]
  BY DEF TypeInv, TypeOK, FetchCA
<1>6. TypeOK'
  BY <1>a, <1>5, ListKept, CursorsKept, MirrorKept, TypeOfParts DEF TypeInv, FetchCA
<1> QED
  BY <1>5, <1>6, ServeKept DEF TypeInv, FetchCA

(* Copying the list keeps the types (RevalidateCR). *)
LEMMA CopyConnsTyped ==
  ASSUME TypeInv, NEW t \in Tasks, CopyConns(t)
  PROVE  TypeInv'
<1> DEFINE w == [task[t] EXCEPT !.pc = "next", !.todo = connections]
<1>1. ca \in [CRs -> CAs] /\ connections \in Seq(Conns) /\ task[t] \in Revalidation
  BY DEF TypeInv, TypeOK
<1>2. Idle \in Revalidation /\ Idle.pc = "idle" /\ Idle.removed = FALSE
  BY <1>1, IdleTyped
<1>3. w \in Revalidation /\ w.pc = "next"
  BY <1>1 DEF Revalidation
<1>4. task' = [task EXCEPT ![t] = Idle] \/ task' = [task EXCEPT ![t] = w]
  BY DEF CopyConns
<1> HIDE DEF w
<1>5. task' \in [Tasks -> Revalidation] /\ TasksInv'
  BY <1>2, <1>3, <1>4, TaskSet
<1>a. /\ ca' \in [CRs -> CAs] /\ changes' \in 0 .. MaxChanges
      /\ handler' \in [Conns -> {"new", "verified", "serving", "gone"}]
      /\ validCRs' \in [Conns -> SUBSET CRs]
      /\ turns' \in [CRs -> [Conns -> Nat]]
  BY DEF TypeInv, TypeOK, CopyConns
<1>6. TypeOK'
  BY <1>a, <1>5, ListKept, CursorsKept, MirrorKept, TypeOfParts DEF TypeInv, CopyConns
<1> QED
  BY <1>5, <1>6, ServeKept DEF TypeInv, CopyConns

(* Granting or revoking a CR keeps the types (UpdateCRValidity). *)
LEMMA UpdateCRValidityTyped ==
  ASSUME TypeInv, NEW t \in Tasks, UpdateCRValidity(t)
  PROVE  TypeInv'
<1> DEFINE u == [task[t] EXCEPT !.todo = Tail(task[t].todo)]
           c == Head(task[t].todo)
           w == [task[t] EXCEPT !.pc = "read",
                                !.removed = task[t].removed \/ (task[t].cr \in validCRs[c])]
<1>1. task[t] \in Revalidation /\ task[t].pc = "next" /\ task[t].todo # << >>
  BY DEF TypeInv, TypeOK, UpdateCRValidity
<1>2. task[t].todo \in Seq(Conns) /\ task[t].cr \in CRs
  BY <1>1 DEF Revalidation
<1>3. c \in Conns /\ Tail(task[t].todo) \in Seq(Conns)
  BY SMT, <1>1, <1>2
<1>4. u \in Revalidation /\ u.pc = "next"
  BY <1>1, <1>3 DEF Revalidation
<1>5. w \in Revalidation /\ w.pc = "read" /\ w.todo # << >>
  BY <1>1 DEF Revalidation
<1>6. task' = [task EXCEPT ![t] = u] \/ task' = [task EXCEPT ![t] = w]
  BY DEF UpdateCRValidity
<1>7. validCRs' = [validCRs EXCEPT ![c] = IF c \in Trusts[task[t].ca]
                                           THEN validCRs[c] \cup {task[t].cr}
                                           ELSE validCRs[c] \ {task[t].cr}]
  BY DEF UpdateCRValidity
<1> HIDE DEF u, w, c
<1>8. task' \in [Tasks -> Revalidation] /\ TasksInv'
  BY <1>4, <1>5, <1>6, TaskSet
<1>9. validCRs' \in [Conns -> SUBSET CRs]
  <2>1. validCRs \in [Conns -> SUBSET CRs]
    BY DEF TypeInv, TypeOK
  <2>2. validCRs[c] \cup {task[t].cr} \in SUBSET CRs /\ validCRs[c] \ {task[t].cr} \in SUBSET CRs
    BY <1>2, <1>3, <2>1
  <2> QED
    BY <1>7, <2>1, <2>2
<1>a. /\ ca' \in [CRs -> CAs] /\ changes' \in 0 .. MaxChanges
      /\ handler' \in [Conns -> {"new", "verified", "serving", "gone"}]
  BY DEF TypeInv, TypeOK, UpdateCRValidity
<1>b. turns' \in [CRs -> [Conns -> Nat]]
  BY NewRoundsTyped DEF TypeInv, UpdateCRValidity
<1>c. TypeOK'
  BY <1>a, <1>b, <1>8, <1>9, ListKept, CursorsKept, MirrorKept, TypeOfParts
     DEF TypeInv, UpdateCRValidity
<1> QED
  BY <1>8, <1>c, ServeKept DEF TypeInv, UpdateCRValidity

(* Reading what a connection may serve keeps the types (GetValidCRs). *)
LEMMA ReadCRsTyped ==
  ASSUME TypeInv, NEW t \in Tasks, ReadCRs(t)
  PROVE  TypeInv'
<1> DEFINE w == [task[t] EXCEPT !.pc = "publish", !.crs = validCRs[Head(task[t].todo)]]
<1>1. task[t] \in Revalidation /\ task[t].pc = "read" /\ task[t].todo # << >>
  BY DEF TypeInv, TypeOK, ReadCRs, TasksInv
<1>2. task[t].todo \in Seq(Conns)
  BY <1>1 DEF Revalidation
<1>3. Head(task[t].todo) \in Conns
  BY SMT, <1>1, <1>2
<1>4. validCRs[Head(task[t].todo)] \in SUBSET CRs
  BY <1>3 DEF TypeInv, TypeOK
<1>5. w \in Revalidation /\ w.pc = "publish" /\ w.todo # << >>
  BY <1>1, <1>4 DEF Revalidation
<1>6. task' = [task EXCEPT ![t] = w]
  BY <1>1 DEF ReadCRs, TypeInv, TypeOK
<1> HIDE DEF w
<1>8. task' \in [Tasks -> Revalidation] /\ TasksInv'
  BY <1>5, <1>6, TaskSet
<1>a. /\ ca' \in [CRs -> CAs] /\ changes' \in 0 .. MaxChanges
      /\ handler' \in [Conns -> {"new", "verified", "serving", "gone"}]
      /\ validCRs' \in [Conns -> SUBSET CRs]
      /\ turns' \in [CRs -> [Conns -> Nat]]
  BY DEF TypeInv, TypeOK, ReadCRs
<1>c. TypeOK'
  BY <1>a, <1>8, ListKept, CursorsKept, MirrorKept, TypeOfParts DEF TypeInv, ReadCRs
<1> QED
  BY <1>8, <1>c, ServeKept DEF TypeInv, ReadCRs

(* Telling the mesh keeps the types (OnAgentCRsChanged). *)
LEMMA OnAgentCRsChangedTyped ==
  ASSUME TypeInv, NEW t \in Tasks, OnAgentCRsChanged(t)
  PROVE  TypeInv'
<1> DEFINE w == [task[t] EXCEPT !.pc = "next", !.todo = Tail(@)]
<1>1. task[t] \in Revalidation /\ task[t].pc = "publish" /\ task[t].todo # << >>
  BY DEF TypeInv, TypeOK, OnAgentCRsChanged, TasksInv
<1>2. task[t].todo \in Seq(Conns) /\ task[t].crs \in SUBSET CRs
  BY <1>1 DEF Revalidation
<1>3. Head(task[t].todo) \in Conns /\ Tail(task[t].todo) \in Seq(Conns)
  BY SMT, <1>1, <1>2
<1>5. w \in Revalidation /\ w.pc = "next"
  BY <1>1, <1>3 DEF Revalidation
<1>6. task' = [task EXCEPT ![t] = w]
  BY <1>1 DEF OnAgentCRsChanged, TypeInv, TypeOK
<1> HIDE DEF w
<1>7. DOMAIN mirror' \subseteq Conns /\ \A d \in DOMAIN mirror' : mirror'[d] \subseteq CRs
  BY <1>2, <1>3, MirrorWithTyped DEF TypeInv, OnAgentCRsChanged
<1>8. task' \in [Tasks -> Revalidation] /\ TasksInv'
  BY <1>5, <1>6, TaskSet
<1>a. /\ ca' \in [CRs -> CAs] /\ changes' \in 0 .. MaxChanges
      /\ handler' \in [Conns -> {"new", "verified", "serving", "gone"}]
      /\ validCRs' \in [Conns -> SUBSET CRs]
      /\ turns' \in [CRs -> [Conns -> Nat]]
  BY DEF TypeInv, TypeOK, OnAgentCRsChanged
<1>c. TypeOK'
  BY <1>a, <1>7, <1>8, ListKept, CursorsKept, TypeOfParts DEF TypeInv, OnAgentCRsChanged
<1> QED
  BY <1>8, <1>c, ServeKept DEF TypeInv, OnAgentCRsChanged

(* The end of a revalidation keeps the types (RevalidateCR). *)
LEMMA SweepTyped ==
  ASSUME TypeInv, NEW t \in Tasks, Sweep(t)
  PROVE  TypeInv'
<1>1. ca \in [CRs -> CAs]
  BY DEF TypeInv, TypeOK
<1>2. Idle \in Revalidation /\ Idle.pc = "idle" /\ Idle.removed = FALSE
  BY <1>1, IdleTyped
<1>3. /\ DOMAIN roundRobin' \subseteq Keys
      /\ \A k \in DOMAIN roundRobin' : roundRobin'[k] \in 0 .. Cardinality(Conns) - 1
  BY WithoutTyped DEF TypeInv, Sweep
<1>5. task' \in [Tasks -> Revalidation] /\ TasksInv'
  BY <1>2, TaskSet DEF Sweep
<1>a. /\ ca' \in [CRs -> CAs] /\ changes' \in 0 .. MaxChanges
      /\ handler' \in [Conns -> {"new", "verified", "serving", "gone"}]
      /\ validCRs' \in [Conns -> SUBSET CRs]
      /\ turns' \in [CRs -> [Conns -> Nat]]
  BY DEF TypeInv, TypeOK, Sweep
<1>6. TypeOK'
  BY <1>a, <1>3, <1>5, ListKept, MirrorKept, TypeOfParts DEF TypeInv, Sweep
<1> QED
  BY <1>5, <1>6, ServeKept DEF TypeInv, Sweep

(* Every step keeps the types (ConnectionManager). *)
LEMMA TypeInvStep ==
  ASSUME TypeInv, [Next]_vars
  PROVE  TypeInv'
<1>1. CASE UNCHANGED vars
  <2>1. /\ ca' \in [CRs -> CAs] /\ changes' \in 0 .. MaxChanges
        /\ handler' \in [Conns -> {"new", "verified", "serving", "gone"}]
        /\ validCRs' \in [Conns -> SUBSET CRs] /\ task' \in [Tasks -> Revalidation]
        /\ turns' \in [CRs -> [Conns -> Nat]]
    BY <1>1 DEF vars, TypeInv, TypeOK
  <2>2. TypeOK'
    BY <1>1, <2>1, ListKept, CursorsKept, MirrorKept, TypeOfParts DEF TypeInv, vars
  <2>3. ListedOnce' /\ ListedServe' /\ TasksInv'
    BY <1>1, ServeKept DEF vars, TypeInv, TasksInv
  <2> QED
    BY <2>2, <2>3 DEF TypeInv
<1>2. ASSUME NEW c \in Conns, Verify(c) \/ Register(c) \/ Unregister(c) PROVE TypeInv'
  BY <1>2, VerifyTyped, RegisterTyped, UnregisterTyped
<1>3. ASSUME NEW cr \in CRs, ChangeCA(cr) \/ \E c \in Conns : GetForCR(cr, c) PROVE TypeInv'
  BY <1>3, ChangeCATyped, GetForCRTyped
<1>4. ASSUME NEW t \in Tasks, RevalidateCR(t) \/ \E cr \in CRs : FetchCA(t, cr) PROVE TypeInv'
  BY <1>4, CopyConnsTyped, UpdateCRValidityTyped, ReadCRsTyped, OnAgentCRsChangedTyped,
     SweepTyped, FetchCATyped DEF RevalidateCR
<1> QED
  BY <1>1, <1>2, <1>3, <1>4, DisconnectAllTyped, GetTyped DEF Next

(* The types hold of a new manager (NewConnectionManager). *)
LEMMA TypeInvInit ==
  ASSUME Init
  PROVE  TypeInv
<1>1. /\ ca \in [CRs -> CAs] /\ changes \in 0 .. MaxChanges
      /\ handler \in [Conns -> {"new", "verified", "serving", "gone"}]
      /\ validCRs \in [Conns -> SUBSET CRs]
      /\ turns \in [CRs -> [Conns -> Nat]]
  BY SMT, NoTurnsTyped DEF Init
<1>2. Idle \in Revalidation /\ Idle.pc = "idle" /\ Idle.removed = FALSE
  BY <1>1, IdleTyped
<1>3. task \in [Tasks -> Revalidation] /\ TasksInv
  BY <1>2 DEF Init, TasksInv
<1>4. /\ connections = << >> /\ connections \in Seq(Conns)
      /\ Len(connections) = 0 /\ DOMAIN connections = {}
  BY SMT DEF Init
<1>5. Registered = {} /\ ListedOnce /\ ListedServe
  BY <1>4 DEF Registered, ListedOnce, ListedServe
<1>6. Len(connections) = Cardinality(Registered)
  BY <1>4, <1>5, FS_EmptySet
<1>7. DOMAIN roundRobin = {} /\ DOMAIN mirror = {}
  BY SMT DEF Init
<1>8. TypeOK
  BY <1>1, <1>3, <1>4, <1>6, <1>7 DEF TypeOK
<1> QED
  BY <1>3, <1>5, <1>8 DEF TypeInv

-----------------------------------------------------------------------------
\* Who may serve a CR.

(* Who may serve a CR depends on the list and on ValidCRs only (GetForCR). *)
LEMMA AuthorizedKept ==
  ASSUME connections' = connections, validCRs' = validCRs, NEW cr
  PROVE  Authorized(cr)' = Authorized(cr)
BY DEF Authorized, Registered

(* A connection that is being verified is not listed yet, and may serve
   nothing (handleWebSocket). *)
LEMMA AuthorizedVerify ==
  ASSUME TypeInv, NEW c \in Conns, Verify(c), NEW cr
  PROVE  Authorized(cr)' = Authorized(cr)
<1>1. c \notin Registered
  BY DEF TypeInv, ListedServe, Verify
<1>2. Registered' = Registered
  BY DEF Registered, Verify
<1>3. \A d \in Registered : validCRs'[d] = validCRs[d]
  BY <1>1, SizesBounded DEF TypeInv, TypeOK, Verify
<1> QED
  BY <1>2, <1>3 DEF Authorized

(* A registered connection may serve what its certificate was verified for
   (Register). *)
LEMMA AuthorizedRegister ==
  ASSUME TypeInv, NEW c \in Conns, Register(c), NEW cr
  PROVE  Authorized(cr)' = Authorized(cr) \cup {d \in {c} : cr \in validCRs[c]}
<1>1. c \notin Registered
  BY DEF TypeInv, ListedServe, Register
<1>2. Registered' = Registered \cup {c}
  BY <1>1, ListAppended DEF TypeInv, Register
<1> QED
  BY <1>2 DEF Authorized, Register

(* Those that may serve a CR lose the connection that is removed (Unregister). *)
LEMMA AuthorizedRemoved ==
  ASSUME TypeInv, NEW i \in DOMAIN connections,
         connections' = Removed(connections, i), validCRs' = validCRs, NEW cr
  PROVE  Authorized(cr)' = Authorized(cr) \ {connections[i]}
<1>1. Registered' = Registered \ {connections[i]}
  BY ListRemoved DEF TypeInv
<1> QED
  BY <1>1 DEF Authorized

(* A revalidation of one CR changes nothing for the others (UpdateCRValidity). *)
LEMMA AuthorizedUpdate ==
  ASSUME TypeInv, NEW t \in Tasks, UpdateCRValidity(t), NEW cr, cr # task[t].cr
  PROVE  Authorized(cr)' = Authorized(cr)
<1> DEFINE c == Head(task[t].todo)
<1>1. task[t] \in Revalidation /\ task[t].todo # << >>
  BY DEF TypeInv, TypeOK, UpdateCRValidity
<1>2. c \in Conns
  BY SMT, <1>1 DEF Revalidation
<1>3. Registered' = Registered
  BY DEF Registered, UpdateCRValidity
<1>4. validCRs' = [validCRs EXCEPT ![c] = IF c \in Trusts[task[t].ca]
                                           THEN validCRs[c] \cup {task[t].cr}
                                           ELSE validCRs[c] \ {task[t].cr}]
  BY DEF UpdateCRValidity
<1> HIDE DEF c
<1>5. validCRs \in [Conns -> SUBSET CRs] /\ Registered \subseteq Conns
  BY SizesBounded DEF TypeInv, TypeOK
<1>6. \A d \in Registered : cr \in validCRs'[d] <=> cr \in validCRs[d]
  BY <1>2, <1>4, <1>5
<1> QED
  BY <1>3, <1>6 DEF Authorized

-----------------------------------------------------------------------------
\* No cursor is left behind.

\* What CursorsBacked says of one CR with a cursor.
Backed(cr) == Authorized(cr) # {} \/ \E t \in Tasks : task[t].removed /\ task[t].cr = cr

(* A step keeps the cursors backed if it keeps each one backed that was, and
   every new one is (GetForCR, RevalidateCR). *)
LEMMA BackedStep ==
  ASSUME CursorsBacked,
         \A cr \in CRs \cap DOMAIN roundRobin' :
           (cr \in DOMAIN roundRobin => Backed(cr)) => Backed(cr)'
  PROVE  CursorsBacked'
<1>1. \A cr \in CRs \cap DOMAIN roundRobin' : Backed(cr)'
  BY DEF CursorsBacked, Backed
<1> QED
  BY <1>1 DEF CursorsBacked, Backed

(* No cursor is left behind where each CR that was served still is and every
   revocation is still to be swept (Register, handleWebSocket). *)
LEMMA BackedGrows ==
  ASSUME CursorsBacked, DOMAIN roundRobin' \subseteq DOMAIN roundRobin, task' = task,
         \A cr \in CRs : Authorized(cr) # {} => Authorized(cr)' # {}
  PROVE  CursorsBacked'
<1>1. \A cr \in CRs \cap DOMAIN roundRobin' : Backed(cr) => Backed(cr)'
  BY DEF Backed
<1>2. \A cr \in CRs \cap DOMAIN roundRobin' : cr \in DOMAIN roundRobin
  OBVIOUS
<1> QED
  BY <1>1, <1>2, BackedStep

(* The cursors of CRs that only the removed connection served go with it
   (cleanupOrphanedCRKeys, cleanupPerCRRoundRobinKeys). *)
LEMMA UnregisterBacked ==
  ASSUME TypeInv, CursorsBacked, NEW c \in Conns, Unregister(c)
  PROVE  CursorsBacked'
<1>1. task' = task /\ validCRs' = validCRs
  BY DEF Unregister
<1>2. CASE c \notin Registered /\ UNCHANGED <<connections, mirror, roundRobin>>
  <2>1. \A cr \in CRs : Authorized(cr)' = Authorized(cr)
    BY <1>1, <1>2, AuthorizedKept
  <2> QED
    BY <1>1, <1>2, <2>1, BackedGrows
<1>3. CASE \E i \in DOMAIN connections : Delists(c, i)
  <2> PICK i \in DOMAIN connections : Delists(c, i)
    BY <1>3
  <2> USE DEF Delists
  <2>1. CASE connections' = << >>
    <3>1. CRs \cap DOMAIN roundRobin' = {}
      BY <2>1 DEF Without, Keys
    <3> QED
      BY <3>1 DEF CursorsBacked
  <2>2. CASE connections' # << >>
    <3>1. DOMAIN roundRobin' = DOMAIN roundRobin \ Orphaned(c)
      BY <2>2 DEF Without
    <3>2. \A cr \in CRs : Authorized(cr)' = Authorized(cr) \ {c}
      BY <1>1, AuthorizedRemoved
    <3>3. ASSUME NEW cr \in CRs \cap DOMAIN roundRobin', cr \in DOMAIN roundRobin => Backed(cr)
          PROVE  Backed(cr)'
      <4>1. cr \notin Orphaned(c) /\ Backed(cr)
        BY <3>1, <3>3
      <4>2. Authorized(cr) # {} => Authorized(cr) \ {c} # {}
        BY <4>1 DEF Orphaned, Authorized
      <4> QED
        BY <1>1, <3>2, <4>1, <4>2 DEF Backed
    <3> QED
      BY <3>3, BackedStep
  <2> QED
    BY <2>1, <2>2
<1> QED
  BY <1>2, <1>3 DEF Unregister, Delists

(* A revocation that leaves a CR without connections is remembered for the
   sweep, in the same step (UpdateCRValidity, RevalidateCR). *)
LEMMA UpdateCRValidityBacked ==
  ASSUME TypeInv, CursorsBacked, NEW t \in Tasks, UpdateCRValidity(t)
  PROVE  CursorsBacked'
<1> DEFINE c == Head(task[t].todo)
           k == task[t].cr
<1>1. /\ task \in [Tasks -> Revalidation] /\ task[t] \in Revalidation /\ task[t].todo # << >>
      /\ validCRs \in [Conns -> SUBSET CRs] /\ Registered \subseteq Conns
  BY SizesBounded DEF TypeInv, TypeOK, UpdateCRValidity
<1>2. c \in Conns /\ task[t].removed \in BOOLEAN
  BY SMT, <1>1 DEF Revalidation
<1>3. roundRobin' = roundRobin /\ Registered' = Registered
  BY DEF Registered, UpdateCRValidity
<1>4. validCRs' = [validCRs EXCEPT ![c] = IF c \in Trusts[task[t].ca]
                                           THEN validCRs[c] \cup {k} ELSE validCRs[c] \ {k}]
  BY DEF UpdateCRValidity
<1>5. task' = [task EXCEPT ![t] =
                 IF (c \in Trusts[task[t].ca]) = (k \in validCRs[c])
                   THEN [task[t] EXCEPT !.todo = Tail(task[t].todo)]
                   ELSE [task[t] EXCEPT !.pc = "read",
                                        !.removed = task[t].removed \/ (k \in validCRs[c])]]
  BY DEF UpdateCRValidity
<1>6. /\ \A u \in Tasks : u # t => task'[u] = task[u]
      /\ task'[t].cr = k
      /\ task[t].removed => task'[t].removed
      /\ c \notin Trusts[task[t].ca] /\ k \in validCRs[c] => task'[t].removed
  <2>1. /\ task[t].removed => task'[t].removed
        /\ task'[t].cr = k
        /\ \A u \in Tasks : u # t => task'[u] = task[u]
    BY <1>1, <1>2, <1>5 DEF Revalidation
  <2>2. c \notin Trusts[task[t].ca] /\ k \in validCRs[c] => task'[t].removed
    BY <1>1, <1>2, <1>5 DEF Revalidation
  <2> QED
    BY <2>1, <2>2
<1> HIDE DEF c, k
<1>7. ASSUME NEW cr \in CRs \cap DOMAIN roundRobin', cr \in DOMAIN roundRobin => Backed(cr)
      PROVE  Backed(cr)'
  <2>1. CASE \E u \in Tasks : task[u].removed /\ task[u].cr = cr
    BY <2>1, <1>6 DEF Backed, k
  <2>2. CASE Authorized(cr) # {} /\ cr # k
    BY <2>2, AuthorizedUpdate DEF Backed, k
  <2>3. CASE Authorized(cr) # {} /\ cr = k
    <3>1. CASE c \notin Trusts[task[t].ca] /\ k \in validCRs[c]
      BY <2>3, <3>1, <1>6 DEF Backed
    <3>2. CASE ~ (c \notin Trusts[task[t].ca] /\ k \in validCRs[c])
      <4>1. \A d \in Registered : cr \in validCRs[d] => cr \in validCRs'[d]
        BY <1>1, <1>2, <1>4, <2>3, <3>2
      <4> QED
        BY <1>3, <2>3, <4>1 DEF Backed, Authorized
    <3> QED
      BY <3>1, <3>2
  <2> QED
    BY <1>3, <1>7, <2>1, <2>2, <2>3 DEF Backed
<1> QED
  BY <1>7, BackedStep

(* A revalidation under way forgets no revocation (RevalidateCR). *)
LEMMA TaskBacked ==
  ASSUME TypeInv, CursorsBacked, NEW t \in Tasks, roundRobin' = roundRobin,
         connections' = connections, validCRs' = validCRs,
         \A u \in Tasks : u # t => task'[u] = task[u],
         task[t].removed => task'[t].removed /\ task'[t].cr = task[t].cr
  PROVE  CursorsBacked'
<1>1. \A cr \in CRs \cap DOMAIN roundRobin' : Authorized(cr)' = Authorized(cr)
  BY AuthorizedKept
<1>2. \A cr \in CRs \cap DOMAIN roundRobin' : Backed(cr) => Backed(cr)'
  BY <1>1 DEF Backed
<1> QED
  BY <1>2, BackedStep

(* The sweep drops the cursor unless the CR is served; a concurrent
   revalidation that revoked the CR too still has its own sweep (RevalidateCR). *)
LEMMA SweepBacked ==
  ASSUME TypeInv, CursorsBacked, NEW t \in Tasks, Sweep(t)
  PROVE  CursorsBacked'
<1>1. \A u \in Tasks : u # t => task'[u] = task[u]
  BY DEF TypeInv, TypeOK, Sweep
<1>2. DOMAIN roundRobin' = DOMAIN roundRobin \
        (IF task[t].removed /\ Authorized(task[t].cr) = {} THEN {task[t].cr} ELSE {})
  BY DEF Without, Sweep
<1>3. ASSUME NEW cr \in CRs \cap DOMAIN roundRobin', cr \in DOMAIN roundRobin => Backed(cr)
      PROVE  Backed(cr)'
  <2>1. Authorized(cr)' = Authorized(cr)
    BY AuthorizedKept DEF Sweep
  <2>2. Backed(cr)
    BY <1>2, <1>3
  <2> QED
    BY <1>1, <1>2, <2>1, <2>2 DEF Backed
<1> QED
  BY <1>3, BackedStep

(* A cursor is created only for a CR that is served (Get, GetForCR). *)
LEMMA GetsBacked ==
  ASSUME CursorsBacked,
         Get \/ \E cr \in CRs, c \in Conns : GetForCR(cr, c)
  PROVE  CursorsBacked'
<1>1. CASE Get
  <2>1. CRs \cap DOMAIN roundRobin' = CRs \cap DOMAIN roundRobin
    <3>1. DOMAIN roundRobin' = DOMAIN roundRobin \cup {Plane}
      BY <1>1, WithDomain DEF Get, Advance
    <3> QED
      BY <3>1
  <2>2. \A cr \in CRs : Authorized(cr)' = Authorized(cr)
    BY <1>1, AuthorizedKept DEF Get
  <2>3. task' = task
    BY <1>1 DEF Get
  <2>4. \A cr \in CRs \cap DOMAIN roundRobin' :
          (cr \in DOMAIN roundRobin => Backed(cr)) => Backed(cr)'
    BY <2>1, <2>2, <2>3 DEF Backed
  <2> QED
    BY <2>4, BackedStep
<1>2. ASSUME NEW k \in CRs, NEW c \in Conns, GetForCR(k, c)
      PROVE  CursorsBacked'
  <2>1. c \in Authorized(k) /\ task' = task
    BY <1>2 DEF GetForCR
  <2>2. DOMAIN roundRobin' = DOMAIN roundRobin \cup {k}
    BY <1>2, WithDomain DEF GetForCR, Advance
  <2>3. \A cr \in CRs : Authorized(cr)' = Authorized(cr)
    BY <1>2, AuthorizedKept DEF GetForCR
  <2>4. \A cr \in CRs \cap DOMAIN roundRobin' :
          (cr \in DOMAIN roundRobin => Backed(cr)) => Backed(cr)'
    BY <2>1, <2>2, <2>3 DEF Backed
  <2> QED
    BY <2>4, BackedStep
<1> QED
  BY <1>1, <1>2

(* Every step keeps the cursors backed (ConnectionManager). *)
LEMMA BackedInvStep ==
  ASSUME TypeInv, CursorsBacked, [Next]_vars
  PROVE  CursorsBacked'
<1>1. CASE UNCHANGED vars \/ \E cr \in CRs : ChangeCA(cr)
  <2>1. /\ task' = task /\ roundRobin' = roundRobin
        /\ connections' = connections /\ validCRs' = validCRs
    BY <1>1 DEF vars, ChangeCA
  <2>2. \A cr \in CRs : Authorized(cr)' = Authorized(cr)
    BY <2>1, AuthorizedKept
  <2> QED
    BY <2>1, <2>2, BackedGrows
<1>2. ASSUME NEW c \in Conns, Verify(c) PROVE CursorsBacked'
  <2>1. \A cr \in CRs : Authorized(cr)' = Authorized(cr)
    BY <1>2, AuthorizedVerify
  <2> QED
    BY <1>2, <2>1, BackedGrows DEF Verify
<1>3. ASSUME NEW c \in Conns, Register(c) PROVE CursorsBacked'
  <2>1. \A cr \in CRs : Authorized(cr) \subseteq Authorized(cr)'
    BY <1>3, AuthorizedRegister
  <2>2. \A cr \in CRs : Authorized(cr) # {} => Authorized(cr)' # {}
    BY <2>1
  <2> QED
    BY <1>3, <2>2, BackedGrows DEF Register
<1>4. ASSUME NEW c \in Conns, Unregister(c) PROVE CursorsBacked'
  BY <1>4, UnregisterBacked
<1>5. CASE DisconnectAll
  <2>1. DOMAIN roundRobin' = {}
    BY SMT, <1>5 DEF DisconnectAll
  <2> QED
    BY <2>1 DEF CursorsBacked
<1>6. CASE Get \/ \E cr \in CRs, c \in Conns : GetForCR(cr, c)
  BY <1>6, GetsBacked
<1>7. ASSUME NEW t \in Tasks, NEW cr \in CRs, FetchCA(t, cr) PROVE CursorsBacked'
  <2>1. ~ task[t].removed /\ \A u \in Tasks : u # t => task'[u] = task[u]
    BY <1>7 DEF TypeInv, TasksInv, TypeOK, FetchCA
  <2> QED
    BY <1>7, <2>1, TaskBacked DEF FetchCA
<1>8. ASSUME NEW t \in Tasks, RevalidateCR(t) PROVE CursorsBacked'
  <2>1. CASE CopyConns(t)
    <3>1. ~ task[t].removed /\ \A u \in Tasks : u # t => task'[u] = task[u]
      BY <2>1 DEF TypeInv, TasksInv, TypeOK, CopyConns
    <3> QED
      BY <2>1, <3>1, TaskBacked DEF CopyConns
  <2>2. CASE UpdateCRValidity(t)
    BY <2>2, UpdateCRValidityBacked
  <2>3. CASE ReadCRs(t)
    <3>1. task \in [Tasks -> Revalidation]
      BY DEF TypeInv, TypeOK
    <3>2. /\ \A u \in Tasks : u # t => task'[u] = task[u]
          /\ task'[t].removed = task[t].removed /\ task'[t].cr = task[t].cr
      BY <2>3, <3>1 DEF ReadCRs, Revalidation
    <3> QED
      BY <2>3, <3>2, TaskBacked DEF ReadCRs
  <2>4. CASE OnAgentCRsChanged(t)
    <3>1. task \in [Tasks -> Revalidation]
      BY DEF TypeInv, TypeOK
    <3>2. /\ \A u \in Tasks : u # t => task'[u] = task[u]
          /\ task'[t].removed = task[t].removed /\ task'[t].cr = task[t].cr
      BY <2>4, <3>1 DEF OnAgentCRsChanged, Revalidation
    <3> QED
      BY <2>4, <3>2, TaskBacked DEF OnAgentCRsChanged
  <2>5. CASE Sweep(t)
    BY <2>5, SweepBacked
  <2> QED
    BY <1>8, <2>1, <2>2, <2>3, <2>4, <2>5 DEF RevalidateCR
<1> QED
  BY <1>1, <1>2, <1>3, <1>4, <1>5, <1>6, <1>7, <1>8 DEF Next

(* The types and the facts about list and revalidations hold throughout
   (ConnectionManager). *)
THEOREM TypesHold == Spec => []TypeInv
<1>1. Init => TypeInv
  BY TypeInvInit
<1>2. TypeInv /\ [Next]_vars => TypeInv'
  BY TypeInvStep
<1> QED
  BY <1>1, <1>2, PTL DEF Spec

(* Every connection is listed once and every cursor is an index, however
   registrations, disconnections and revalidations interleave (ConnectionManager). *)
THEOREM TypeCorrect == Spec => []TypeOK
<1>1. TypeInv => TypeOK
  BY DEF TypeInv
<1> QED
  BY <1>1, TypesHold, PTL

(* No cursor of a CR outlives its last connection, unless a revalidation that
   revoked the CR has yet to sweep it (cleanupOrphanedCRKeys, RevalidateCR). *)
THEOREM CursorsAreBacked == Spec => []CursorsBacked
<1>1. ASSUME Init PROVE CursorsBacked
  <2>1. DOMAIN roundRobin = {}
    BY SMT, <1>1 DEF Init
  <2> QED
    BY <2>1 DEF CursorsBacked
<1>2. TypeInv /\ CursorsBacked /\ [Next]_vars => CursorsBacked'
  BY BackedInvStep
<1> QED
  BY <1>1, <1>2, TypesHold, PTL DEF Spec

-----------------------------------------------------------------------------
\* Connections take turns.

\* How far place r is behind place p on a circle of n, n for p itself.
Behind(n, p, r) == IF r < p THEN p - r ELSE p + n - r

\* The index of c in validConns, their number, and the index at the cursor.
Rank(cr, c) == Cardinality(Ahead(cr, c))
Choices(cr) == Cardinality(Authorized(cr))
Index(cr) == Cursor(cr) % Choices(cr)

\* Those chosen in a round are the k connections behind the cursor, each once,
\* and a round of all of them is over.
Chosen(cr, c, k) ==
  c \in Authorized(cr) /\ Behind(Choices(cr), Index(cr), Rank(cr, c)) \in 1 .. k
Round(cr) ==
  \E k \in Nat :
    /\ k = 0 \/ k < Choices(cr)
    /\ \A c \in Conns : turns[cr][c] = IF Chosen(cr, c, k) THEN 1 ELSE 0
RoundsInv == \A cr \in CRs : Round(cr)

(* When the cursor moves on by one, the place it leaves is one behind it, and
   every other place is one further behind than it was (GetForCR). *)
LEMMA BehindMoves ==
  ASSUME NEW n \in Nat, n # 0, NEW p \in 0 .. n - 1, NEW q, q = IF p + 1 = n THEN 0 ELSE p + 1
  PROVE  /\ q \in 0 .. n - 1
         /\ Behind(n, p, p) = n /\ Behind(n, q, p) = 1
         /\ \A r \in 0 .. n - 1 :
              r # p => Behind(n, p, r) \in 1 .. n - 1 /\ Behind(n, q, r) = Behind(n, p, r) + 1
BY SMT DEF Behind

(* Each connection that may serve a CR has its own index among them
   (the validConns of GetForCR). *)
LEMMA RanksDiffer ==
  ASSUME TypeInv, NEW cr
  PROVE  /\ \A c \in Authorized(cr) : Rank(cr, c) \in 0 .. Choices(cr) - 1
         /\ \A c, d \in Authorized(cr) : c # d => Rank(cr, c) # Rank(cr, d)
<1>1. /\ IsFiniteSet(Authorized(cr)) /\ Choices(cr) \in Nat
      /\ DOMAIN connections \subseteq Nat
  <2>1. TypeOK
    BY DEF TypeInv
  <2>2. DOMAIN connections \subseteq Nat
    BY SMT, <2>1 DEF TypeOK
  <2> QED
    BY <2>1, <2>2, SizesBounded DEF Choices
<1>2. ASSUME NEW c \in Authorized(cr)
      PROVE  /\ Ahead(cr, c) \subseteq Authorized(cr)
             /\ c \notin Ahead(cr, c)
             /\ \E i \in DOMAIN connections : connections[i] = c
  <2>1. Ahead(cr, c) \subseteq Authorized(cr)
    BY DEF Ahead
  <2>2. c \notin Ahead(cr, c)
    <3>1. \A i, j \in DOMAIN connections : connections[i] = c /\ connections[j] = c => i = j
      BY DEF TypeInv, ListedOnce
    <3>2. \A i \in DOMAIN connections : ~ (i < i)
      BY SMT, <1>1
    <3> QED
      BY <3>1, <3>2 DEF Ahead, Precedes
  <2>3. \E i \in DOMAIN connections : connections[i] = c
    BY DEF Authorized, Registered
  <2> QED
    BY <2>1, <2>2, <2>3
<1>3. ASSUME NEW c \in Authorized(cr) PROVE Rank(cr, c) \in 0 .. Choices(cr) - 1
  <2>1. Ahead(cr, c) # Authorized(cr)
    BY <1>2
  <2>2. Rank(cr, c) \in Nat /\ Rank(cr, c) <= Choices(cr) /\ Rank(cr, c) # Choices(cr)
    BY <1>1, <1>2, <2>1, SubsetSize DEF Rank, Choices
  <2> QED
    BY SMT, <1>1, <2>2
<1>4. ASSUME NEW c \in Authorized(cr), NEW d \in Authorized(cr),
             NEW i \in DOMAIN connections, NEW j \in DOMAIN connections,
             connections[i] = c, connections[j] = d, i < j
      PROVE  Rank(cr, c) # Rank(cr, d)
  <2>1. Ahead(cr, c) \subseteq Ahead(cr, d)
    <3> SUFFICES ASSUME NEW e \in Ahead(cr, c) PROVE e \in Ahead(cr, d)
      OBVIOUS
    <3>1. e \in Authorized(cr) /\ Precedes(connections, e, c)
      BY DEF Ahead
    <3>2. PICK a, b \in DOMAIN connections : a < b /\ connections[a] = e /\ connections[b] = c
      BY <3>1 DEF Precedes
    <3>3. b = i
      BY <1>4, <3>2 DEF TypeInv, ListedOnce
    <3>4. a < j
      BY SMT, <1>1, <1>4, <3>2, <3>3
    <3> QED
      BY <1>4, <3>1, <3>2, <3>4 DEF Ahead, Precedes
  <2>2. c \in Ahead(cr, d)
    BY <1>4 DEF Ahead, Precedes
  <2>3. Ahead(cr, c) # Ahead(cr, d) /\ Ahead(cr, d) \subseteq Authorized(cr)
    BY <1>2, <2>2
  <2>4. IsFiniteSet(Ahead(cr, d))
    BY <1>1, <2>3, SubsetSize
  <2> QED
    BY <2>1, <2>3, <2>4, SubsetSize DEF Rank
<1>5. ASSUME NEW c \in Authorized(cr), NEW d \in Authorized(cr), c # d
      PROVE  Rank(cr, c) # Rank(cr, d)
  <2>1. PICK i \in DOMAIN connections : connections[i] = c
    BY <1>2
  <2>2. PICK j \in DOMAIN connections : connections[j] = d
    BY <1>2
  <2>3. i < j \/ j < i
    BY SMT, <1>1, <1>5, <2>1, <2>2
  <2> QED
    BY <1>4, <2>1, <2>2, <2>3
<1> QED
  BY <1>3, <1>5

(* A round in which nobody was chosen is one (GetForCR). *)
LEMMA RoundFresh ==
  ASSUME NEW cr \in CRs, \A c \in Conns : turns'[cr][c] = 0
  PROVE  Round(cr)'
<1>1. \A c \in Conns : turns'[cr][c] = IF Chosen(cr, c, 0)' THEN 1 ELSE 0
  <2>1. 1 .. 0 = {}
    BY SMT
  <2> QED
    BY <2>1 DEF Chosen
<1> QED
  BY <1>1 DEF Round

(* A round goes on where cursor, choices and their order stay (GetForCR). *)
LEMMA RoundKept ==
  ASSUME NEW cr \in CRs, Round(cr), turns'[cr] = turns[cr], Cursor(cr)' = Cursor(cr),
         Authorized(cr)' = Authorized(cr),
         \A c \in Authorized(cr) : Ahead(cr, c)' = Ahead(cr, c)
  PROVE  Round(cr)'
<1>1. Choices(cr)' = Choices(cr)
  BY DEF Choices
<1>2. Index(cr)' = Index(cr)
  BY <1>1 DEF Index
<1>3. \A c \in Authorized(cr) : Rank(cr, c)' = Rank(cr, c)
  BY DEF Rank
<1>4. ASSUME NEW k \in Nat, NEW c PROVE Chosen(cr, c, k)' <=> Chosen(cr, c, k)
  BY <1>1, <1>2, <1>3 DEF Chosen
<1>5. PICK k \in Nat : /\ k = 0 \/ k < Choices(cr)
                       /\ \A c \in Conns : turns[cr][c] = IF Chosen(cr, c, k) THEN 1 ELSE 0
  BY DEF Round
<1>6. \A c \in Conns : turns'[cr][c] = IF Chosen(cr, c, k)' THEN 1 ELSE 0
  BY <1>4, <1>5
<1> QED
  BY <1>1, <1>5, <1>6 DEF Round

(* Choosing the connection at the cursor extends the run of those chosen behind
   the cursor by one, or completes the round (GetForCR). *)
LEMMA RoundAdvances ==
  ASSUME TypeInv, NEW cr \in CRs, NEW c \in Conns, GetForCR(cr, c), Round(cr)
  PROVE  Round(cr)'
<1> DEFINE n == Choices(cr)
           p == Index(cr)
           q == Index(cr)'
           round == [turns[cr] EXCEPT ![c] = @ + 1]
<1>1. /\ c \in Authorized(cr) /\ Rank(cr, c) = p /\ roundRobin' = Advance(cr, n)
      /\ connections' = connections /\ validCRs' = validCRs
  BY DEF GetForCR, Rank, Index, Choices
<1>2. n \in Nat /\ n # 0
  BY <1>1, SizesBounded DEF TypeInv, Choices
<1>3. Cursor(cr) \in Nat
  BY CursorIs DEF TypeInv, Keys
<1>4. Authorized(cr)' = Authorized(cr) /\ \A d : Ahead(cr, d)' = Ahead(cr, d)
  BY <1>1, AuthorizedKept DEF Ahead
<1>5. Choices(cr)' = n /\ \A d : Rank(cr, d)' = Rank(cr, d)
  BY <1>4 DEF Choices, Rank
<1>6. p \in 0 .. n - 1 /\ q = IF p + 1 = n THEN 0 ELSE p + 1
  <2>1. p \in 0 .. n - 1
    BY SMT, <1>2, <1>3 DEF Index
  <2>2. Cursor(cr)' = ((Cursor(cr) % n) + 1) % n
    <3>0. DOMAIN roundRobin' = DOMAIN roundRobin \cup {cr}
      BY <1>1, WithDomain DEF Advance
    <3>1. cr \in DOMAIN roundRobin'
      BY <3>0
    <3> DEFINE v == ((Cursor(cr) % n) + 1) % n
    <3>2. roundRobin'[cr] = v
      <4>1. roundRobin' = With(roundRobin, cr, v)
        BY <1>1 DEF Advance
      <4> HIDE DEF v
      <4> QED
        BY SMT, <4>1, WithIs
    <3> QED
      BY <3>1, <3>2 DEF Cursor
  <2>3. Cursor(cr)' = IF p + 1 = n THEN 0 ELSE p + 1
    BY <1>2, <1>3, <2>2, NextIndex DEF Index
  <2>4. q = Cursor(cr)' % n
    BY <1>5 DEF Index
  <2> HIDE DEF n, p, q
  <2> QED
    BY SMT, <1>2, <2>1, <2>3, <2>4
<1> HIDE DEF n, p, q
<1>7. /\ Behind(n, p, p) = n /\ Behind(n, q, p) = 1
      /\ \A r \in 0 .. n - 1 :
           r # p => Behind(n, p, r) \in 1 .. n - 1 /\ Behind(n, q, r) = Behind(n, p, r) + 1
  BY SMT, <1>2, <1>6, BehindMoves
<1>8. \A d \in Authorized(cr) : d # c => Rank(cr, d) \in 0 .. n - 1 /\ Rank(cr, d) # p
  BY <1>1, RanksDiffer DEF n
<1>9. \A d \in Authorized(cr) : d # c =>
         /\ Behind(n, p, Rank(cr, d)) \in 1 .. n - 1
         /\ Behind(n, q, Rank(cr, d)) = Behind(n, p, Rank(cr, d)) + 1
  BY <1>7, <1>8
<1>10. PICK k \in Nat : /\ k = 0 \/ k < n
                        /\ \A d \in Conns : turns[cr][d] = IF Chosen(cr, d, k) THEN 1 ELSE 0
  BY DEF Round, n
<1>11. turns \in [CRs -> [Conns -> Nat]] /\ turns[cr] \in [Conns -> Nat]
  BY DEF TypeInv, TypeOK
<1>12. turns[cr][c] = 0
  <2>1. ~ (n \in 1 .. k)
    BY SMT, <1>2, <1>10
  <2>2. ~ Chosen(cr, c, k)
    BY <1>1, <1>7, <2>1 DEF Chosen, n, p
  <2> QED
    BY <1>10, <2>2
<1>13. round[c] = 1 /\ \A d \in Conns : d # c => round[d] = turns[cr][d]
  BY SMT, <1>11, <1>12
<1>14. turns'[cr] = IF \E d \in Authorized(cr) : round[d] = 0 THEN round ELSE NoTurns
  BY <1>11 DEF GetForCR
<1> HIDE DEF round
<1>15. CASE ~ \E d \in Authorized(cr) : round[d] = 0
  <2>1. turns'[cr] = NoTurns
    BY <1>14, <1>15
  <2>2. \A d \in Conns : turns'[cr][d] = 0
    BY <2>1 DEF NoTurns
  <2> QED
    BY <2>2, RoundFresh
<1>16. CASE \E d \in Authorized(cr) : round[d] = 0
  <2>1. k + 1 < n
    <3>1. PICK d \in Authorized(cr) : round[d] = 0
      BY <1>16
    <3>2. d # c /\ d \in Conns
      <4>1. d # c
        BY SMT, <1>13, <3>1
      <4>2. Registered \subseteq Conns
        BY SizesBounded DEF TypeInv
      <4> QED
        BY <4>1, <4>2 DEF Authorized
    <3>3. ~ Chosen(cr, d, k)
      BY SMT, <1>10, <1>13, <3>1, <3>2
    <3> DEFINE b == Behind(n, p, Rank(cr, d))
    <3>4. ~ (b \in 1 .. k)
      BY <3>3 DEF Chosen, n, p
    <3>5. b \in 1 .. n - 1
      BY <1>9, <3>2
    <3> HIDE DEF b
    <3> QED
      BY SMT, <1>2, <1>10, <3>4, <3>5
  <2>2. turns'[cr] = round
    BY <1>14, <1>16
  <2>3. \A d : Chosen(cr, d, k + 1)' <=>
                 d \in Authorized(cr) /\ Behind(n, q, Rank(cr, d)) \in 1 .. k + 1
    BY <1>4, <1>5 DEF Chosen, q
  <2>4. ASSUME NEW d \in Conns PROVE turns'[cr][d] = IF Chosen(cr, d, k + 1)' THEN 1 ELSE 0
    <3>1. CASE d = c
      <4>1. Behind(n, q, Rank(cr, d)) \in 1 .. k + 1
        BY SMT, <1>1, <1>7, <3>1 DEF p
      <4> QED
        BY <1>1, <1>13, <2>2, <2>3, <3>1, <4>1
    <3>2. CASE d # c /\ d \in Authorized(cr)
      <4> DEFINE b == Behind(n, p, Rank(cr, d))
      <4>1. b \in 1 .. n - 1 /\ Behind(n, q, Rank(cr, d)) = b + 1
        BY <1>9, <3>2
      <4>2. Chosen(cr, d, k) <=> b \in 1 .. k
        BY <3>2 DEF Chosen, n, p
      <4> HIDE DEF b
      <4>3. b \in 1 .. k <=> b + 1 \in 1 .. k + 1
        BY SMT, <1>2, <4>1
      <4>4. Chosen(cr, d, k + 1)' <=> Chosen(cr, d, k)
        BY <2>3, <3>2, <4>1, <4>2, <4>3
      <4> QED
        BY <1>10, <1>13, <2>2, <3>2, <4>4
    <3>3. CASE d # c /\ d \notin Authorized(cr)
      BY <1>10, <1>13, <2>2, <2>3, <3>3 DEF Chosen
    <3> QED
      BY <3>1, <3>2, <3>3
  <2>5. k + 1 \in Nat /\ k + 1 < Choices(cr)'
    BY SMT, <1>5, <2>1
  <2> QED
    BY <2>4, <2>5 DEF Round
<1> QED
  BY <1>15, <1>16

(* A round goes on in a step that writes neither list, ValidCRs nor its cursor
   (ConnectionManager). *)
LEMMA RoundUntouched ==
  ASSUME NEW cr \in CRs, Round(cr), connections' = connections, validCRs' = validCRs,
         turns'[cr] = turns[cr], Cursor(cr)' = Cursor(cr)
  PROVE  Round(cr)'
<1>1. Authorized(cr)' = Authorized(cr)
  BY AuthorizedKept
<1>2. \A c \in Authorized(cr) : Ahead(cr, c)' = Ahead(cr, c)
  BY <1>1 DEF Ahead
<1> QED
  BY <1>1, <1>2, RoundKept

(* Advancing one key leaves the cursors of the others (Get, GetForCR). *)
LEMMA CursorKept ==
  ASSUME NEW cr, NEW key, key # cr, NEW v,
         roundRobin' = roundRobin \/ roundRobin' = With(roundRobin, key, v)
  PROVE  Cursor(cr)' = Cursor(cr)
<1>1. CASE roundRobin' = roundRobin
  BY <1>1 DEF Cursor
<1>2. CASE roundRobin' = With(roundRobin, key, v)
  <2>1. DOMAIN roundRobin' = DOMAIN roundRobin \cup {key}
    BY <1>2, WithDomain
  <2>2. \A k \in DOMAIN roundRobin : k # key => roundRobin'[k] = roundRobin[k]
    BY SMT, <1>2, WithIs
  <2> QED
    BY <2>1, <2>2 DEF Cursor
<1> QED
  BY <1>1, <1>2

(* Nobody was chosen for a CR that nobody may serve (GetForCR). *)
LEMMA RoundUnserved ==
  ASSUME NEW cr \in CRs, Round(cr), Authorized(cr) = {}
  PROVE  \A c \in Conns : turns[cr][c] = 0
BY DEF Round, Chosen

(* After a change the history is empty, or the choices are the same (GetForCR). *)
LEMMA NewRoundsCases ==
  ASSUME NEW cr \in CRs, NewRounds
  PROVE  \/ \A c \in Conns : turns'[cr][c] = 0
         \/ turns'[cr] = turns[cr] /\ Authorized(cr)' = Authorized(cr)
<1>1. turns'[cr] = IF Authorized(cr)' = Authorized(cr) THEN turns[cr] ELSE NoTurns
  BY DEF NewRounds
<1>2. \A c \in Conns : NoTurns[c] = 0
  BY DEF NoTurns
<1> QED
  BY <1>1, <1>2

(* A new connection starts a new round for the CRs it serves, and leaves the
   order for the others (Register). *)
LEMMA RoundRegister ==
  ASSUME TypeInv, NEW c \in Conns, Register(c), NEW cr \in CRs, Round(cr)
  PROVE  Round(cr)'
<1>1. c \notin Registered
  BY DEF TypeInv, ListedServe, Register
<1>2. \A d, e \in Registered : Precedes(connections', d, e) <=> Precedes(connections, d, e)
  BY <1>1, ListAppended DEF TypeInv, Register
<1>3. CASE turns'[cr] = turns[cr] /\ Authorized(cr)' = Authorized(cr)
  <2>1. \A d \in Authorized(cr) : Ahead(cr, d)' = Ahead(cr, d)
    <3>1. Authorized(cr) \subseteq Registered
      BY DEF Authorized
    <3>2. \A d : Ahead(cr, d)' = {e \in Authorized(cr)' : Precedes(connections', e, d)}
      BY DEF Ahead, Precedes
    <3> QED
      BY <1>2, <1>3, <3>1, <3>2 DEF Ahead
  <2>2. Cursor(cr)' = Cursor(cr)
    BY DEF Cursor, Register
  <2> QED
    BY <1>3, <2>1, <2>2, RoundKept
<1> QED
  BY <1>3, NewRoundsCases, RoundFresh DEF Register

(* A removed connection starts a new round for the CRs it served, and leaves
   order and cursor for the others (Unregister, cleanupOrphanedCRKeys). *)
LEMMA RoundUnregister ==
  ASSUME TypeInv, NEW c \in Conns, Unregister(c), NEW cr \in CRs, Round(cr)
  PROVE  Round(cr)'
<1>1. NewRounds /\ validCRs' = validCRs
  BY DEF Unregister
<1>2. CASE \A d \in Conns : turns'[cr][d] = 0
  BY <1>2, RoundFresh
<1>3. CASE turns'[cr] = turns[cr] /\ Authorized(cr)' = Authorized(cr)
  <2>1. CASE c \notin Registered /\ UNCHANGED <<connections, mirror, roundRobin>>
    <3>1. Cursor(cr)' = Cursor(cr)
      BY <2>1 DEF Cursor
    <3> QED
      BY <1>1, <1>3, <2>1, <3>1, RoundUntouched
  <2>2. CASE \E i \in DOMAIN connections : Delists(c, i)
    <3> PICK i \in DOMAIN connections : Delists(c, i)
      BY <2>2
    <3> USE DEF Delists
    <3>1. /\ Registered' = Registered \ {c}
          /\ \A d, e \in Registered \ {c} :
               Precedes(connections', d, e) <=> Precedes(connections, d, e)
      BY ListRemoved DEF TypeInv
    <3>2. Authorized(cr)' = Authorized(cr) \ {c}
      BY <1>1, AuthorizedRemoved
    <3>3. c \notin Authorized(cr) /\ c \in Registered
      BY <1>3, <3>2 DEF Registered
    <3>4. CASE Authorized(cr) = {}
      <4>1. \A d \in Conns : turns'[cr][d] = 0
        BY <1>3, <3>4, RoundUnserved
      <4> QED
        BY <4>1, RoundFresh
    <3>5. CASE Authorized(cr) # {}
      <4>1. connections' # << >> /\ cr \notin Orphaned(c)
        <5>1. Registered' # {}
          BY <1>3, <3>5 DEF Authorized
        <5>2. connections' # << >>
          BY <5>1, ListEmptied
        <5>3. cr \notin Orphaned(c)
          BY <3>3 DEF Orphaned, Authorized
        <5> QED
          BY <5>2, <5>3
      <4>2. roundRobin' = Without(roundRobin, Orphaned(c))
        BY <4>1
      <4>3. Cursor(cr)' = Cursor(cr)
        BY <4>1, <4>2 DEF Cursor, Without
      <4>4. \A d \in Authorized(cr) : Ahead(cr, d)' = Ahead(cr, d)
        <5>1. Authorized(cr) \subseteq Registered \ {c}
          BY <3>3 DEF Authorized
        <5>2. \A d : Ahead(cr, d)' = {e \in Authorized(cr)' : Precedes(connections', e, d)}
          BY DEF Ahead, Precedes
        <5> QED
          BY <1>3, <3>1, <5>1, <5>2 DEF Ahead
      <4> QED
        BY <1>3, <4>3, <4>4, RoundKept
    <3> QED
      BY <3>4, <3>5
  <2> QED
    BY <2>1, <2>2 DEF Unregister, Delists
<1> QED
  BY <1>1, <1>2, <1>3, NewRoundsCases

(* A round goes on where list and cursors stay and the choices are the same
   (RevalidateCR). *)
LEMMA RoundSameChoices ==
  ASSUME NEW cr \in CRs, Round(cr), connections' = connections, roundRobin' = roundRobin,
         turns'[cr] = turns[cr], Authorized(cr)' = Authorized(cr)
  PROVE  Round(cr)'
<1>1. \A c \in Authorized(cr) : Ahead(cr, c)' = Ahead(cr, c)
  BY DEF Ahead
<1>2. Cursor(cr)' = Cursor(cr)
  BY DEF Cursor
<1> QED
  BY <1>1, <1>2, RoundKept

(* Without connections there is no round (DisconnectAllForPlane). *)
LEMMA RoundDisconnectAll ==
  ASSUME DisconnectAll, NEW cr \in CRs, Round(cr)
  PROVE  Round(cr)'
<1>1. CASE turns'[cr] = turns[cr] /\ Authorized(cr)' = Authorized(cr)
  <2>1. Authorized(cr)' = {}
    BY ListEmptied DEF DisconnectAll, Authorized
  <2>2. \A c \in Conns : turns[cr][c] = 0
    BY <1>1, <2>1, RoundUnserved
  <2> QED
    BY <1>1, <2>2, RoundFresh
<1> QED
  BY <1>1, NewRoundsCases, RoundFresh DEF DisconnectAll

(* The sweep drops a cursor only where nobody can be chosen (RevalidateCR). *)
LEMMA RoundSweep ==
  ASSUME NEW t \in Tasks, Sweep(t), NEW cr \in CRs, Round(cr)
  PROVE  Round(cr)'
<1>1. turns' = turns /\ connections' = connections /\ validCRs' = validCRs
  BY DEF Sweep
<1>2. CASE cr = task[t].cr /\ Authorized(cr) = {}
  <2>1. \A c \in Conns : turns'[cr][c] = 0
    BY <1>1, <1>2, RoundUnserved
  <2> QED
    BY <2>1, RoundFresh
<1>3. CASE ~ (cr = task[t].cr /\ Authorized(cr) = {})
  <2>1. Cursor(cr)' = Cursor(cr)
    BY <1>3 DEF Sweep, Cursor, Without
  <2> QED
    BY <1>1, <2>1, RoundUntouched
<1> QED
  BY <1>2, <1>3

(* Every step keeps the rounds in order (ConnectionManager). *)
LEMMA RoundsInvStep ==
  ASSUME TypeInv, RoundsInv, [Next]_vars
  PROVE  RoundsInv'
<1> SUFFICES ASSUME NEW cr \in CRs, Round(cr) PROVE Round(cr)'
  BY DEF RoundsInv
<1>1. CASE \/ UNCHANGED vars
           \/ \E k \in CRs : ChangeCA(k)
           \/ \E t \in Tasks : \/ \E k \in CRs : FetchCA(t, k)
                               \/ CopyConns(t) \/ ReadCRs(t) \/ OnAgentCRsChanged(t)
  <2>1. /\ turns' = turns /\ roundRobin' = roundRobin
        /\ connections' = connections /\ validCRs' = validCRs
    BY <1>1 DEF vars, ChangeCA, FetchCA, CopyConns, ReadCRs, OnAgentCRsChanged
  <2>2. Authorized(cr)' = Authorized(cr)
    BY <2>1, AuthorizedKept
  <2> QED
    BY <2>1, <2>2, RoundSameChoices
<1>2. ASSUME NEW c \in Conns, Verify(c) PROVE Round(cr)'
  <2>1. Authorized(cr)' = Authorized(cr)
    BY <1>2, AuthorizedVerify
  <2> QED
    BY <1>2, <2>1, RoundSameChoices DEF Verify
<1>3. ASSUME NEW c \in Conns, Register(c) \/ Unregister(c) PROVE Round(cr)'
  BY <1>3, RoundRegister, RoundUnregister
<1>4. CASE DisconnectAll
  BY <1>4, RoundDisconnectAll
<1>5. CASE Get
  <2>1. Cursor(cr)' = Cursor(cr)
    BY <1>5, CursorKept DEF Get, Advance
  <2> QED
    BY <1>5, <2>1, RoundUntouched DEF Get
<1>6. ASSUME NEW k \in CRs, NEW c \in Conns, GetForCR(k, c) PROVE Round(cr)'
  <2>1. CASE k = cr
    BY <1>6, <2>1, RoundAdvances
  <2>2. CASE k # cr
    <3>1. roundRobin' = Advance(k, Cardinality(Authorized(k)))
      BY <1>6 DEF GetForCR
    <3>2. Cursor(cr)' = Cursor(cr)
      BY <2>2, <3>1, CursorKept DEF Advance
    <3>3. turns'[cr] = turns[cr]
      BY <1>6, <2>2 DEF GetForCR, TypeInv, TypeOK
    <3> QED
      BY <1>6, <3>2, <3>3, RoundUntouched DEF GetForCR
  <2> QED
    BY <2>1, <2>2
<1>7. ASSUME NEW t \in Tasks, UpdateCRValidity(t) PROVE Round(cr)'
  <2>1. connections' = connections /\ roundRobin' = roundRobin /\ NewRounds
    BY <1>7 DEF UpdateCRValidity
  <2> QED
    BY <2>1, NewRoundsCases, RoundFresh, RoundSameChoices
<1>8. ASSUME NEW t \in Tasks, Sweep(t) PROVE Round(cr)'
  BY <1>8, RoundSweep
<1> QED
  BY SMT, <1>1, <1>2, <1>3, <1>4, <1>5, <1>6, <1>7, <1>8 DEF Next, RevalidateCR

(* No connection is chosen for a CR a second time while another one that may
   serve it waits, wherever earlier changes left the cursor (GetForCR). *)
THEOREM TurnsAreTakenInOrder == Spec => []TurnsAreFair
<1>1. ASSUME Init PROVE RoundsInv
  <2> SUFFICES ASSUME NEW cr \in CRs PROVE Round(cr)
    BY DEF RoundsInv
  <2>1. \A c \in Conns : turns[cr][c] = 0
    BY <1>1 DEF Init, NoTurns
  <2>2. 1 .. 0 = {}
    BY SMT
  <2>3. \A c \in Conns : turns[cr][c] = IF Chosen(cr, c, 0) THEN 1 ELSE 0
    BY <2>1, <2>2 DEF Chosen
  <2> QED
    BY <2>3 DEF Round
<1>2. TypeInv /\ RoundsInv /\ [Next]_vars => RoundsInv'
  BY RoundsInvStep
<1>3. RoundsInv => TurnsAreFair
  BY SMT DEF RoundsInv, Round, TurnsAreFair
<1> QED
  BY <1>1, <1>2, <1>3, TypesHold, PTL DEF Spec
-----------------------------------------------------------------------------
\* Whoever has connections to choose from is given one.

\* The cursor is at exactly one of the connections that may serve a CR, if
\* there is any: validConns[idx] is in range.
NextIsThere ==
  \A cr \in CRs :
    Authorized(cr) # {} =>
      \E c \in Authorized(cr) :
        /\ Cardinality(Ahead(cr, c)) = Cursor(cr) % Cardinality(Authorized(cr))
        /\ \A d \in Authorized(cr) : Cardinality(Ahead(cr, d)) = Cardinality(Ahead(cr, c)) => d = c

(* Every index below their number is that of some connection among those that
   may serve a CR (the validConns of GetForCR). *)
LEMMA RanksFill ==
  ASSUME TypeInv, NEW cr, NEW p \in 0 .. Choices(cr) - 1
  PROVE  \E c \in Authorized(cr) : Rank(cr, c) = p
<1> DEFINE S == Authorized(cr)
           T == 0 .. Choices(cr) - 1
           f == [c \in S |-> Rank(cr, c)]
<1>1. Choices(cr) \in Nat /\ Choices(cr) = Cardinality(S)
  BY SizesBounded DEF TypeInv, Choices
<1>2. IsFiniteSet(T) /\ Cardinality(T) = Cardinality(S)
  <2>1. /\ 0 \in Int /\ Choices(cr) - 1 \in Int
        /\ (IF 0 > Choices(cr) - 1 THEN 0 ELSE (Choices(cr) - 1) - 0 + 1) = Choices(cr)
    BY SMT, <1>1
  <2>2. IsFiniteSet(T) /\ Cardinality(T) = IF 0 > Choices(cr) - 1 THEN 0 ELSE (Choices(cr) - 1) - 0 + 1
    BY <2>1, FS_Interval
  <2> QED
    BY <1>1, <2>1, <2>2
<1>3. f \in Injection(S, T)
  <2>1. f \in [S -> T]
    BY RanksDiffer
  <2>2. \A c, d \in S : f[c] = f[d] => c = d
    BY RanksDiffer
  <2> QED
    BY <2>1, <2>2 DEF Injection, IsInjective
<1>4. f \in Surjection(S, T)
  BY <1>2, <1>3, FS_Injection
<1>5. PICK c \in S : f[c] = p
  BY <1>4 DEF Surjection
<1> QED
  BY <1>5

(* GetForCR finds a connection whenever one may serve the CR, and there is no
   other it could have meant, wherever earlier changes left the cursor. *)
THEOREM SomebodyIsNext == Spec => []NextIsThere
<1>1. TypeInv => NextIsThere
  <2> SUFFICES ASSUME TypeInv, NEW cr \in CRs, Authorized(cr) # {}
               PROVE  \E c \in Authorized(cr) :
                        /\ Cardinality(Ahead(cr, c)) = Cursor(cr) % Cardinality(Authorized(cr))
                        /\ \A d \in Authorized(cr) :
                             Cardinality(Ahead(cr, d)) = Cardinality(Ahead(cr, c)) => d = c
    BY DEF NextIsThere
  <2>1. Choices(cr) \in Nat /\ Choices(cr) # 0 /\ Cursor(cr) \in Nat
    BY SizesBounded, CursorIs DEF TypeInv, Choices, Keys
  <2>2. Index(cr) \in 0 .. Choices(cr) - 1
    BY SMT, <2>1 DEF Index
  <2>3. PICK c \in Authorized(cr) : Rank(cr, c) = Index(cr)
    BY <2>2, RanksFill
  <2>4. \A d \in Authorized(cr) : Rank(cr, d) = Rank(cr, c) => d = c
    BY RanksDiffer
  <2> QED
    BY <2>3, <2>4 DEF Rank, Index, Choices
<1> QED
  BY <1>1, TypesHold, PTL
=============================================================================
