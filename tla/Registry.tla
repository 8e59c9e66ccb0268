------------------------------ MODULE Registry ------------------------------
(***************************************************************************)
(* The replicated connection registry of one gateway pod                   *)
(* (internal/cluster-gateway/fabric/registry.go), as operators on the      *)
(* state one pod keeps about one owner pod.  An agent connection is        *)
(* described by an entry: its connection id and the custom resources (CRs) *)
(* its certificate is valid for.                                           *)
(***************************************************************************)
EXTENDS Naturals, FiniteSets

CONSTANTS
  Pods,     \* gateway replicas, by pod name
  Conns,    \* agent connection ids
  CRs,      \* plane custom resources a connection can be authorised for
  MaxSeq    \* bound: mutations of one owner's connection set in a behaviour

ASSUME MaxSeqAssumption == MaxSeq \in Nat

Entry == [conn : Conns, crs : SUBSET CRs]

\* ownerState, with exists = FALSE for an owner that is not a key of the map.
OwnerState ==
  [exists : BOOLEAN, seq : 0 .. MaxSeq, draining : BOOLEAN, entries : SUBSET Entry]

NoOwner == [exists |-> FALSE, seq |-> 0, draining |-> FALSE, entries |-> {}]

Delta ==
  [type : {"delta"}, op : {"add", "remove"}, owner : Pods, seq : 1 .. MaxSeq, entry : Entry]

Snapshot == [type : {"snapshot_rsp"}, owner : Pods, seq : 0 .. MaxSeq, entries : SUBSET Entry]

-----------------------------------------------------------------------------
\* An entry map keyed by connection id: writing replaces, deleting drops.
Put(entries, e) == {x \in entries : x.conn # e.conn} \cup {e}

Del(entries, c) == {x \in entries : x.conn # c}

\* What one mutation does to the owner's entries.
Mutate(entries, d) ==
  IF d.op = "add" THEN Put(entries, d.entry) ELSE Del(entries, d.entry.conn)

\* Whether ApplyDelta accepts d.  An unknown owner has sequence number 0, so
\* its numbering has to start at 1.
DeltaAnySeq(st, d) == d.seq > st.seq

InSequence(st, d) == d.seq = st.seq + 1

ApplyDelta(st, d) ==
  [exists |-> TRUE, seq |-> d.seq, draining |-> st.draining, entries |-> Mutate(st.entries, d)]

ApplySnapshotForgetsDraining(st, s) ==
  [exists |-> TRUE, seq |-> s.seq, draining |-> FALSE, entries |-> s.entries]

ApplySnapshot(st, s) ==
  [exists |-> TRUE, seq |-> s.seq, draining |-> st.draining, entries |-> s.entries]

SetDraining(st) == [st EXCEPT !.exists = TRUE, !.draining = TRUE]

PurgeOwner(st) == NoOwner
=============================================================================
