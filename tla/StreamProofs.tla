---------------------------- MODULE StreamProofs ----------------------------
(***************************************************************************)
(* StreamInv is an inductive invariant of one streaming session, and with  *)
(* it what the client and the process receive is in order.                 *)
(***************************************************************************)
EXTENDS Stream, TLAPS

-----------------------------------------------------------------------------
(* Chunks on their way to the client: those the session holds, then those on *)
(* a connection.                                                             *)

\* A chunk of the agent is the ack, a close or a numbered output.
LEMMA ChunkFacts ==
  ASSUME NEW m \in ToGateway
  PROVE  /\ m[1] = "out" => m[2] \in 1..OutChunks /\ m = <<"out", m[2]>>
         /\ m[1] = Close => m = <<Close, 0>>
         /\ m[1] \in {"out", Close, Ack}
BY DEF ToGateway, Outputs, Ack, Close

\* A chunk handed to the session keeps its place (handleStreamChunk).
LEMMA LineMove ==
  ASSUME NEW S, NEW f \in Seq(S), NEW t \in Seq(S), t # <<>>
  PROVE  Append(f, Head(t)) \o Tail(t) = f \o t
OBVIOUS

\* The chunk the handler takes is the first of the line (handleExec).
LEMMA LineTake ==
  ASSUME NEW S, NEW f \in Seq(S), NEW t \in Seq(S), f # <<>>
  PROVE  /\ Tail(f) \o t = Tail(f \o t)
         /\ Head(f) = Head(f \o t) /\ f \o t # <<>>
<1>1. Tail(f) \o t = Tail(f \o t)
  OBVIOUS
<1>2. Len(f) \in Nat \ {0} /\ Len(f \o t) = Len(f) + Len(t) /\ Len(t) \in Nat
  OBVIOUS
<1>3. f \o t # <<>>
  BY <1>2
<1>4. Head(f) = f[1] /\ Head(f \o t) = (f \o t)[1] /\ (f \o t)[1] = f[1]
  BY <1>2
<1>5. QED
  BY <1>1, <1>3, <1>4

\* A line in which every output of connection c has a place in a line that is in
\* order, and in the same order, is in order for c.
LEMMA ChainThin ==
  ASSUME NEW got, NEW via, NEW c,
         NEW line \in Seq(ToGateway), NEW thin \in Seq(ToGateway), NEW g,
         \A i \in DOMAIN thin : OfConn(c, via, thin[i]) =>
           g[i] \in DOMAIN line /\ thin[i] = line[g[i]],
         \A i, j \in DOMAIN thin :
           i < j /\ OfConn(c, via, thin[i]) /\ OfConn(c, via, thin[j]) => g[i] < g[j],
         Chained(got, line, via, c)
  PROVE  Chained(got, thin, via, c)
<1>1. \A i \in DOMAIN thin : OfConn(c, via, thin[i]) =>
        \A j \in DOMAIN got : via[got[j]] = c => got[j] < thin[i][2]
  BY Zenon DEF Chained
<1>2. \A i, j \in DOMAIN thin :
        i < j /\ OfConn(c, via, thin[i]) /\ OfConn(c, via, thin[j]) => thin[i][2] < thin[j][2]
  BY Zenon DEF Chained
<1>3. \A i, j \in DOMAIN got :
        i < j /\ via[got[i]] = c /\ via[got[j]] = c => got[i] < got[j]
  BY Zenon DEF Chained
<1>4. QED
  BY <1>1, <1>2, <1>3, Zenon DEF Chained

\* What is left of the line when its first chunk is gone is in order.
LEMMA ChainTail ==
  ASSUME NEW got, NEW via, NEW c, NEW line \in Seq(ToGateway),
         line # <<>>, Chained(got, line, via, c)
  PROVE  Chained(got, Tail(line), via, c)
<1>. DEFINE thin == Tail(line)
            g == [i \in DOMAIN thin |-> i + 1]
<1>1. thin \in Seq(ToGateway) /\ DOMAIN thin = 1..(Len(line) - 1) /\ DOMAIN line = 1..Len(line)
      /\ Len(line) \in Nat
  OBVIOUS
<1>2. \A i \in DOMAIN thin : i + 1 \in DOMAIN line /\ thin[i] = line[i + 1]
  BY <1>1
<1>. HIDE DEF thin
<1>3. \A i \in DOMAIN thin : g[i] \in DOMAIN line /\ thin[i] = line[g[i]]
  BY <1>2, Zenon
<1>4. \A i, j \in DOMAIN thin : i < j => g[i] < g[j]
  BY <1>1
<1>. HIDE DEF g
<1>5. Chained(got, thin, via, c)
  BY <1>1, <1>3, <1>4, ChainThin, Zenon
<1>6. QED
  BY <1>5 DEF thin

\* The read loop drops a chunk (handleStreamChunk, BackpressureTimeout).
LEMMA ChainDrop ==
  ASSUME NEW got, NEW via, NEW c,
         NEW f \in Seq(ToGateway), NEW t \in Seq(ToGateway), t # <<>>,
         Chained(got, f \o t, via, c)
  PROVE  Chained(got, f \o Tail(t), via, c)
<1>. DEFINE line == f \o t
            thin == f \o Tail(t)
            g == [i \in DOMAIN thin |-> IF i <= Len(f) THEN i ELSE i + 1]
<1>1. /\ line \in Seq(ToGateway) /\ thin \in Seq(ToGateway)
      /\ Len(f) \in Nat /\ Len(thin) \in Nat /\ Len(line) = Len(thin) + 1
      /\ DOMAIN thin = 1..Len(thin) /\ DOMAIN line = 1..Len(line)
  OBVIOUS
<1>2. \A i \in DOMAIN thin : thin[i] = line[g[i]]
  OBVIOUS
<1>3. Chained(got, line, via, c)
  OBVIOUS
<1>. HIDE DEF line, thin
<1>4. \A i \in DOMAIN thin : g[i] \in DOMAIN line
  BY <1>1
<1>5. \A i, j \in DOMAIN thin : i < j => g[i] < g[j]
  BY <1>1
<1>. HIDE DEF g
<1>6. Chained(got, thin, via, c)
  BY <1>1, <1>2, <1>3, <1>4, <1>5, ChainThin, Zenon
<1>7. QED
  BY <1>6 DEF thin

\* The connection breaks: only the first chunks in flight arrive (Cut).
LEMMA ChainCut ==
  ASSUME NEW got, NEW via, NEW c,
         NEW f \in Seq(ToGateway), NEW t \in Seq(ToGateway), NEW k \in 0..Len(t),
         Chained(got, f \o t, via, c)
  PROVE  Chained(got, f \o SubSeq(t, 1, k), via, c)
<1>. DEFINE line == f \o t
            part == SubSeq(t, 1, k)
            thin == f \o part
            g == [i \in DOMAIN thin |-> i]
<1>1. /\ part \in Seq(ToGateway) /\ Len(part) = k /\ \A i \in 1..k : part[i] = t[i]
      /\ Len(t) \in Nat /\ Len(f) \in Nat /\ k \in Nat /\ k <= Len(t)
  OBVIOUS
<1>. HIDE DEF part
<1>2. /\ line \in Seq(ToGateway) /\ thin \in Seq(ToGateway)
      /\ DOMAIN thin = 1..(Len(f) + k) /\ DOMAIN line = 1..(Len(f) + Len(t))
  BY <1>1
<1>3. \A i \in DOMAIN thin : thin[i] = line[i]
  <2>. SUFFICES ASSUME NEW i \in 1..(Len(f) + k) PROVE thin[i] = line[i]
    BY <1>2
  <2>1. CASE i <= Len(f)
    BY <1>1, <2>1
  <2>2. CASE i > Len(f)
    <3>1. i - Len(f) \in 1..k /\ i - Len(f) \in 1..Len(t)
      BY <1>1, <2>2
    <3>2. thin[i] = part[i - Len(f)] /\ line[i] = t[i - Len(f)]
      BY <1>1, <2>2, <3>1
    <3>3. QED
      BY <1>1, <3>1, <3>2
  <2>3. QED
    BY <1>1, <2>1, <2>2
<1>4. Chained(got, line, via, c)
  OBVIOUS
<1>. HIDE DEF line, thin
<1>5. \A i \in DOMAIN thin : g[i] \in DOMAIN line /\ thin[i] = line[g[i]]
  BY <1>1, <1>2, <1>3
<1>6. \A i, j \in DOMAIN thin : i < j => g[i] < g[j]
  BY <1>2
<1>. HIDE DEF g
<1>7. Chained(got, thin, via, c)
  BY <1>2, <1>4, <1>5, <1>6, ChainThin, Zenon
<1>8. QED
  BY <1>7 DEF thin, part

\* A chunk of another connection joins those the session holds
\* (handleStreamChunk): it is no matter for the order of connection c.
LEMMA ChainJoin ==
  ASSUME NEW got, NEW via, NEW c,
         NEW f \in Seq(ToGateway), NEW t \in Seq(ToGateway), NEW m \in ToGateway,
         ~OfConn(c, via, m), Chained(got, f \o t, via, c)
  PROVE  Chained(got, Append(f, m) \o t, via, c)
<1>. DEFINE line == f \o t
            wide == Append(f, m) \o t
            g == [i \in DOMAIN wide |-> IF i <= Len(f) THEN i ELSE i - 1]
<1>1. /\ line \in Seq(ToGateway) /\ wide \in Seq(ToGateway)
      /\ Len(f) \in Nat /\ Len(t) \in Nat
      /\ DOMAIN wide = 1..(Len(f) + 1 + Len(t)) /\ DOMAIN line = 1..(Len(f) + Len(t))
  OBVIOUS
<1>2. wide[Len(f) + 1] = m
  BY <1>1
<1>3. \A i \in DOMAIN wide : i # Len(f) + 1 => wide[i] = line[g[i]]
  BY <1>1
<1>4. Chained(got, line, via, c)
  OBVIOUS
<1>. HIDE DEF line, wide
<1>5. \A i \in DOMAIN wide : i # Len(f) + 1 => g[i] \in DOMAIN line
  BY <1>1
<1>6. \A i, j \in DOMAIN wide :
        i < j /\ i # Len(f) + 1 /\ j # Len(f) + 1 => g[i] < g[j]
  BY <1>1
<1>. HIDE DEF g
<1>7. \A i \in DOMAIN wide : OfConn(c, via, wide[i]) => i # Len(f) + 1
  BY <1>2, Zenon
<1>8. Chained(got, wide, via, c)
  BY <1>1, <1>3, <1>4, <1>5, <1>6, <1>7, ChainThin, Zenon
<1>9. QED
  BY <1>8 DEF wide

\* A chunk without output, or of another connection, joins the line
\* (StartSession, EndSession).
LEMMA ChainTell ==
  ASSUME NEW got, NEW via, NEW c, NEW line \in Seq(ToGateway), NEW m \in ToGateway,
         ~OfConn(c, via, m), Chained(got, line, via, c)
  PROVE  Chained(got, Append(line, m), via, c)
<1>. DEFINE more == Append(line, m)
            g == [i \in DOMAIN more |-> i]
<1>1. /\ more \in Seq(ToGateway) /\ DOMAIN more = 1..(Len(line) + 1) /\ DOMAIN line = 1..Len(line)
      /\ \A i \in DOMAIN line : more[i] = line[i]
      /\ more[Len(line) + 1] = m /\ Len(line) \in Nat
  OBVIOUS
<1>. HIDE DEF more
<1>2. \A i \in DOMAIN more : OfConn(c, via, more[i]) => i \in DOMAIN line
  <2>1. \A i \in DOMAIN more : i = Len(line) + 1 \/ i \in DOMAIN line
    BY <1>1
  <2>2. QED
    BY <1>1, <2>1, Zenon
<1>3. \A i \in DOMAIN more : OfConn(c, via, more[i]) =>
        g[i] \in DOMAIN line /\ more[i] = line[g[i]]
  BY <1>1, <1>2, Zenon
<1>4. \A i, j \in DOMAIN more : i < j => g[i] < g[j]
  BY <1>1
<1>. HIDE DEF g
<1>5. Chained(got, more, via, c)
  BY <1>1, <1>3, <1>4, ChainThin, Zenon
<1>6. QED
  BY <1>5 DEF more

\* The first output of the line goes to the client (Deliver).
LEMMA ChainTake ==
  ASSUME NEW got \in Seq(Nat), NEW via, NEW c, NEW line \in Seq(ToGateway),
         line # <<>>, Head(line)[1] = "out", Chained(got, line, via, c)
  PROVE  Chained(Append(got, Head(line)[2]), Tail(line), via, c)
<1>. DEFINE v == Head(line)[2]
            more == Append(got, v)
            rest == Tail(line)
<1>1. Head(line) = line[1] /\ 1 \in DOMAIN line /\ line[1] \in ToGateway
  OBVIOUS
<1>2. v \in Nat /\ line[1][2] = v
  BY <1>1, ChunkFacts
<1>3. /\ DOMAIN more = 1..(Len(got) + 1) /\ DOMAIN got = 1..Len(got) /\ Len(got) \in Nat
      /\ more[Len(got) + 1] = v
      /\ \A i \in DOMAIN got : more[i] = got[i]
  BY <1>2
<1>4. \A i \in DOMAIN rest : rest[i] = line[i + 1] /\ i + 1 \in DOMAIN line /\ 1 < i + 1
  OBVIOUS
<1>5. via[v] = c => OfConn(c, via, line[1])
  BY <1>1, <1>2, Zenon DEF OfConn
<1>. HIDE DEF more, rest, v
<1>6. Chained(got, rest, via, c)
  BY ChainTail DEF rest
<1>7. via[v] = c => \A j \in DOMAIN got : via[got[j]] = c => got[j] < v
  BY <1>1, <1>2, <1>5, Zenon DEF Chained
<1>8. via[v] = c => \A i \in DOMAIN rest : OfConn(c, via, rest[i]) => v < rest[i][2]
  BY <1>1, <1>2, <1>4, <1>5, Zenon DEF Chained
<1>9. \A i \in DOMAIN more : i = Len(got) + 1 \/ i \in DOMAIN got
  BY <1>3
<1>10. \A i \in DOMAIN rest : OfConn(c, via, rest[i]) =>
         \A j \in DOMAIN more : via[more[j]] = c => more[j] < rest[i][2]
  <2>1. \A i \in DOMAIN rest : OfConn(c, via, rest[i]) =>
          \A j \in DOMAIN got : via[got[j]] = c => got[j] < rest[i][2]
    BY <1>6, Zenon DEF Chained
  <2>2. QED
    BY <1>3, <1>8, <1>9, <2>1, Zenon
<1>11. \A i, j \in DOMAIN more :
         i < j /\ via[more[i]] = c /\ via[more[j]] = c => more[i] < more[j]
  <2>. SUFFICES ASSUME NEW i \in DOMAIN more, NEW j \in DOMAIN more,
                       i < j, via[more[i]] = c, via[more[j]] = c
                PROVE  more[i] < more[j]
    BY Zenon
  <2>1. i \in DOMAIN got /\ more[i] = got[i]
    BY <1>3
  <2>2. CASE j = Len(got) + 1
    BY <1>3, <1>7, <2>1, <2>2, Zenon
  <2>3. CASE j \in DOMAIN got
    <3>1. more[j] = got[j]
      BY <1>3, <2>3, Zenon
    <3>2. QED
      BY <2>1, <2>3, <3>1, Zenon DEF Chained
  <2>4. QED
    BY <1>9, <2>2, <2>3, Zenon
<1>12. \A i, j \in DOMAIN rest :
         i < j /\ OfConn(c, via, rest[i]) /\ OfConn(c, via, rest[j]) => rest[i][2] < rest[j][2]
  BY <1>6, Zenon DEF Chained
<1>13. Chained(more, rest, via, c)
  BY <1>10, <1>11, <1>12, Zenon DEF Chained
<1>14. QED
  BY <1>13 DEF more, rest, v

\* One more output is recorded (Produce): that of the earlier ones stands.
LEMMA ViaGrows ==
  ASSUME NEW via \in Seq(Conns), NEW d \in Conns, NEW n \in 1..Len(via)
  PROVE  Append(via, d)[n] = via[n]
OBVIOUS

\* What was in order before the next output is recorded still is (Produce).
LEMMA ChainVia ==
  ASSUME NEW got \in Seq(Outputs), NEW via \in Seq(Conns), NEW d \in Conns, NEW c,
         NEW line \in Seq(ToGateway), Chained(got, line, via, c),
         \A i \in DOMAIN got : got[i] <= Len(via), Produced(line, via)
  PROVE  Chained(got, line, Append(via, d), c)
<1>. DEFINE new == Append(via, d)
<1>1. \A i \in DOMAIN got : new[got[i]] = via[got[i]]
  <2>1. \A i \in DOMAIN got : got[i] \in 1..Len(via)
    BY SizeAssumption DEF Outputs
  <2>2. QED
    BY <2>1, ViaGrows, Zenon
<1>2. \A i \in DOMAIN line : OfConn(c, new, line[i]) => OfConn(c, via, line[i])
  <2>. SUFFICES ASSUME NEW i \in DOMAIN line, OfConn(c, new, line[i])
                PROVE  OfConn(c, via, line[i])
    BY Zenon
  <2>1. line[i] \in ToGateway /\ line[i][1] = "out" /\ new[line[i][2]] = c
    BY DEF OfConn
  <2>2. line[i][2] \in 1..OutChunks /\ line[i][2] <= Len(via)
    BY <2>1, ChunkFacts, Zenon DEF Produced
  <2>3. line[i][2] \in 1..Len(via)
    BY <2>2, SizeAssumption
  <2>4. QED
    BY <2>1, <2>3, ViaGrows, Zenon DEF OfConn
<1>. HIDE DEF new
<1>3. Chained(got, line, new, c)
  BY <1>1, <1>2, Zenon DEF Chained
<1>4. QED
  BY <1>3 DEF new

\* The next output joins the line of its connection (Produce).
LEMMA ChainProduce ==
  ASSUME NEW got \in Seq(Outputs), NEW via \in Seq(Conns), NEW d \in Conns, NEW c,
         NEW line \in Seq(ToGateway), Chained(got, line, via, c),
         \A i \in DOMAIN got : got[i] <= Len(via), Produced(line, via)
  PROVE  Chained(got, Append(line, <<"out", Len(via) + 1>>), Append(via, d), c)
<1>. DEFINE new == Append(via, d)
            m == <<"out", Len(via) + 1>>
            more == Append(line, m)
            n == Len(via)
<1>1. Chained(got, line, new, c)
  BY ChainVia, Zenon
<1>2. /\ DOMAIN more = 1..(Len(line) + 1) /\ DOMAIN line = 1..Len(line) /\ Len(line) \in Nat
      /\ \A i \in DOMAIN line : more[i] = line[i]
      /\ more[Len(line) + 1] = m
  OBVIOUS
<1>3. n \in Nat /\ m[2] = n + 1
  OBVIOUS
<1>4. \A i \in DOMAIN got : got[i] < n + 1
  BY <1>3, SizeAssumption DEF Outputs
<1>5. \A i \in DOMAIN line : line[i][1] = "out" => line[i][2] < n + 1
  <2>1. \A i \in DOMAIN line : line[i][1] = "out" => line[i][2] \in Nat /\ line[i][2] <= n
    BY ChunkFacts DEF Produced
  <2>. HIDE DEF n
  <2>2. QED
    BY <1>3, <2>1
<1>. HIDE DEF more, new, m, n
<1>6. \A i \in DOMAIN more : i = Len(line) + 1 \/ i \in DOMAIN line
  BY <1>2
<1>7. \A i \in DOMAIN more : OfConn(c, new, more[i]) =>
        \A j \in DOMAIN got : new[got[j]] = c => got[j] < more[i][2]
  BY <1>1, <1>2, <1>3, <1>4, <1>6, Zenon DEF Chained
<1>8. \A i, j \in DOMAIN more :
        i < j /\ OfConn(c, new, more[i]) /\ OfConn(c, new, more[j]) => more[i][2] < more[j][2]
  <2>. SUFFICES ASSUME NEW i \in DOMAIN more, NEW j \in DOMAIN more, i < j,
                       OfConn(c, new, more[i]), OfConn(c, new, more[j])
                PROVE  more[i][2] < more[j][2]
    BY Zenon
  <2>1. i \in DOMAIN line /\ more[i] = line[i]
    BY <1>2
  <2>2. CASE j = Len(line) + 1
    BY <1>2, <1>3, <1>5, <2>1, <2>2, Zenon DEF OfConn
  <2>3. CASE j \in DOMAIN line
    BY <1>1, <1>2, <2>1, <2>3, Zenon DEF Chained
  <2>4. QED
    BY <1>6, <2>2, <2>3, Zenon
<1>9. Chained(got, more, new, c)
  BY <1>1, <1>7, <1>8, Zenon DEF Chained
<1>10. QED
  BY <1>9 DEF more, new, m, n

-----------------------------------------------------------------------------
(* Which output is where. *)

\* A chunk joins a line (sendStreamChunk, handleStreamChunk).
LEMMA ProducedJoin ==
  ASSUME NEW line \in Seq(ToGateway), NEW m \in ToGateway, NEW via,
         Produced(line, via), m[1] = "out" => m[2] <= Len(via)
  PROVE  Produced(Append(line, m), via)
<1>1. \A i \in DOMAIN Append(line, m) :
        Append(line, m)[i] = m \/ (i \in DOMAIN line /\ Append(line, m)[i] = line[i])
  OBVIOUS
<1>2. QED
  BY <1>1, Zenon DEF Produced

\* A chunk joins the line of its connection (sendStreamChunk).
LEMMA CarriesJoin ==
  ASSUME NEW line \in Seq(ToGateway), NEW m \in ToGateway, NEW via, NEW c,
         Carries(line, via, c), m[1] = "out" => m[2] <= Len(via) /\ via[m[2]] = c
  PROVE  Carries(Append(line, m), via, c)
<1>1. \A i \in DOMAIN Append(line, m) :
        Append(line, m)[i] = m \/ (i \in DOMAIN line /\ Append(line, m)[i] = line[i])
  OBVIOUS
<1>2. QED
  BY <1>1, Zenon DEF Carries

\* A chunk leaves a line (handleStreamChunk, TakeChunk).
LEMMA LineLeave ==
  ASSUME NEW line \in Seq(ToGateway), line # <<>>, NEW via, NEW c
  PROVE  /\ Head(line) \in ToGateway
         /\ Produced(line, via) => Produced(Tail(line), via)
         /\ Carries(line, via, c) =>
              /\ Carries(Tail(line), via, c)
              /\ Head(line)[1] = "out" => Head(line)[2] <= Len(via) /\ via[Head(line)[2]] = c
<1>1. \A i \in DOMAIN Tail(line) : i + 1 \in DOMAIN line /\ Tail(line)[i] = line[i + 1]
  OBVIOUS
<1>2. 1 \in DOMAIN line /\ Head(line) = line[1] /\ Head(line) \in ToGateway
  OBVIOUS
<1>3. QED
  BY <1>1, <1>2, Zenon DEF Produced, Carries

\* The connection breaks: only the first chunks in flight arrive (Cut).
LEMMA CarriesCut ==
  ASSUME NEW line \in Seq(ToGateway), NEW k \in 0..Len(line), NEW via, NEW c,
         Carries(line, via, c)
  PROVE  SubSeq(line, 1, k) \in Seq(ToGateway) /\ Carries(SubSeq(line, 1, k), via, c)
<1>. DEFINE part == SubSeq(line, 1, k)
<1>1. /\ part \in Seq(ToGateway)
      /\ \A i \in DOMAIN part : i \in DOMAIN line /\ part[i] = line[i]
  OBVIOUS
<1>. HIDE DEF part
<1>2. Carries(part, via, c)
  BY <1>1, Zenon DEF Carries
<1>3. QED
  BY <1>1, <1>2 DEF part

\* All output on the line of a connection was produced.
LEMMA ProducedLine ==
  ASSUME NEW f \in Seq(ToGateway), NEW t \in Seq(ToGateway), NEW via, NEW c,
         Produced(f, via), Carries(t, via, c)
  PROVE  Produced(f \o t, via)
<1>1. \A i \in DOMAIN (f \o t) :
        \/ i \in DOMAIN f /\ (f \o t)[i] = f[i]
        \/ i - Len(f) \in DOMAIN t /\ (f \o t)[i] = t[i - Len(f)]
  OBVIOUS
<1>2. QED
  BY <1>1, Zenon DEF Produced, Carries

\* One more output is recorded (Produce).
LEMMA ProducedVia ==
  ASSUME NEW via \in Seq(Conns), NEW d \in Conns, NEW line \in Seq(ToGateway), NEW c
  PROVE  /\ Produced(line, via) => Produced(line, Append(via, d))
         /\ Carries(line, via, c) => Carries(line, Append(via, d), c)
<1>1. Len(Append(via, d)) = Len(via) + 1 /\ Len(via) \in Nat
  OBVIOUS
<1>2. \A i \in DOMAIN line : line[i][1] = "out" /\ line[i][2] <= Len(via) =>
        /\ line[i][2] <= Len(Append(via, d))
        /\ Append(via, d)[line[i][2]] = via[line[i][2]]
  <2>. SUFFICES ASSUME NEW i \in DOMAIN line, line[i][1] = "out", line[i][2] <= Len(via)
                PROVE  /\ line[i][2] <= Len(Append(via, d))
                       /\ Append(via, d)[line[i][2]] = via[line[i][2]]
    BY Zenon
  <2>1. line[i] \in ToGateway
    OBVIOUS
  <2>2. line[i][2] \in 1..Len(via)
    BY <1>1, <2>1, ChunkFacts, SizeAssumption
  <2>3. QED
    BY <1>1, <2>2, ViaGrows
<1>3. QED
  BY <1>2, Zenon DEF Produced, Carries

-----------------------------------------------------------------------------
(* While the connection holds, no chunk is missing from the line. *)

\* The ack is first, and a stream that cannot be opened says so (StartSession).
LEMMA WayStarts ==
  /\ OnTheWay(<<<<Ack, 0>>>>, 0, 0, "active")
  /\ OnTheWay(<<<<Close, 0>>>>, 0, 0, "ended")
BY DEF OnTheWay, Numbered, Msg

\* The next output is the next number (Produce).
LEMMA WayProduce ==
  ASSUME NEW line \in Seq(ToGateway), NEW pos \in Nat, NEW out \in Nat,
         OnTheWay(line, pos, out, "active")
  PROVE  OnTheWay(Append(line, <<"out", out + 1>>), pos, out + 1, "active")
<1>. DEFINE more == Append(line, <<"out", out + 1>>)
<1>1. /\ Len(more) = Len(line) + 1 /\ more[Len(line) + 1] = <<"out", out + 1>>
      /\ \A i \in 1..Len(line) : more[i] = line[i]
  OBVIOUS
<1>. HIDE DEF more
<1>2. Numbered(line, Len(line), pos) /\ pos + Len(line) = out + 1
  BY DEF OnTheWay
<1>3. Numbered(more, Len(more), pos)
  <2>. SUFFICES ASSUME NEW i \in 1..Len(more)
                PROVE  more[i] = Msg(pos + i - 1)
    BY DEF Numbered
  <2>1. CASE i \in 1..Len(line)
    BY <2>1, <1>1, <1>2 DEF Numbered
  <2>2. CASE i = Len(line) + 1
    <3>1. pos + i - 1 = out + 1 /\ out + 1 # 0
      BY <2>2, <1>2
    <3>2. QED
      BY <2>2, <3>1, <1>1 DEF Msg
  <2>3. QED
    BY <2>1, <2>2, <1>1
<1>4. OnTheWay(more, pos, out + 1, "active")
  BY <1>1, <1>2, <1>3 DEF OnTheWay
<1>5. QED
  BY <1>4 DEF more

\* The close chunk follows everything else (EndSession).
LEMMA WayEnds ==
  ASSUME NEW line \in Seq(ToGateway), NEW pos \in Nat, NEW out \in Nat,
         NEW s \in {"active", "closed"}, OnTheWay(line, pos, out, s)
  PROVE  OnTheWay(Append(line, <<Close, 0>>), pos, out, "ended")
<1>. DEFINE more == Append(line, <<Close, 0>>)
<1>1. /\ Len(more) = Len(line) + 1 /\ more[Len(line) + 1] = <<Close, 0>>
      /\ \A i \in 1..Len(line) : more[i] = line[i]
  OBVIOUS
<1>. HIDE DEF more
<1>. more # <<>>
  BY <1>1
<1>2. Numbered(line, Len(line), pos) /\ pos + Len(line) = out + 1
  BY DEF OnTheWay
<1>3. Numbered(more, Len(more) - 1, pos)
  BY <1>1, <1>2 DEF Numbered
<1>4. OnTheWay(more, pos, out, "ended")
  BY <1>1, <1>2, <1>3 DEF OnTheWay
<1>5. QED
  BY <1>4 DEF more

\* The chunk the handler takes is the one it waits for (TakeChunk).
LEMMA WayTake ==
  ASSUME NEW line \in Seq(ToGateway), NEW pos \in Nat, NEW out \in Nat,
         NEW s \in {"active", "closed", "ended"}, OnTheWay(line, pos, out, s),
         line # <<>>, Head(line)[1] # Close
  PROVE  /\ Head(line) = Msg(pos)
         /\ OnTheWay(Tail(line), pos + 1, out, s)
<1>. DEFINE n == IF s = "ended" THEN Len(line) - 1 ELSE Len(line)
            rest == Tail(line)
<1>1. /\ Head(line) = line[1] /\ Len(line) \in Nat \ {0} /\ Len(rest) = Len(line) - 1
      /\ \A i \in 1..Len(rest) : rest[i] = line[i + 1]
  OBVIOUS
<1>2. s = "ended" => Len(line) > 1
  BY <1>1 DEF OnTheWay
<1>3. n \in Nat \ {0} /\ n <= Len(line)
  BY <1>1, <1>2
<1>4. Numbered(line, n, pos)
  BY DEF OnTheWay
<1>5. Head(line) = Msg(pos)
  BY <1>1, <1>3, <1>4 DEF Numbered
<1>6. \A i \in 1..(n - 1) : rest[i] = line[i + 1] /\ line[i + 1] = Msg(pos + 1 + i - 1)
  BY <1>1, <1>3, <1>4 DEF Numbered
<1>7. Numbered(rest, n - 1, pos + 1)
  BY <1>6 DEF Numbered
<1>8. s = "ended" => rest # <<>> /\ rest[Len(rest)] = <<Close, 0>>
  <2>1. s = "ended" => rest[Len(rest)] = <<Close, 0>>
    <3>1. s = "ended" => Len(rest) \in 1..Len(rest) /\ Len(rest) + 1 = Len(line)
      BY <1>1, <1>2
    <3>2. s = "ended" => rest[Len(rest)] = line[Len(line)]
      BY <3>1, <1>1
    <3>3. QED
      BY <3>2 DEF OnTheWay
  <2>2. s = "ended" => Len(rest) # 0
    BY <1>1, <1>2
  <2>3. QED
    BY <2>1, <2>2, Zenon
<1>9. OnTheWay(rest, pos + 1, out, s)
  <2>1. CASE s = "ended"
    <3>1. Numbered(rest, Len(rest) - 1, pos + 1)
      BY <2>1, <1>1, <1>7
    <3>2. pos + Len(line) = out + 2
      BY <2>1, <1>1, <1>2 DEF OnTheWay
    <3>3. pos + 1 + Len(rest) = out + 2
      BY <3>2, <1>1
    <3>4. QED
      BY <2>1, <3>1, <3>3, <1>8 DEF OnTheWay
  <2>2. CASE s # "ended"
    <3>1. Numbered(rest, Len(rest), pos + 1)
      BY <2>2, <1>1, <1>7
    <3>2. pos + 1 + Len(rest) = out + 1
      BY <2>2, <1>1 DEF OnTheWay
    <3>3. QED
      BY <2>2, <3>1, <3>2 DEF OnTheWay
  <2>3. QED
    BY <2>1, <2>2
<1>10. QED
  BY <1>5, <1>9

\* A close chunk is the last of the line, and the client has all before it.
LEMMA WayClose ==
  ASSUME NEW line \in Seq(ToGateway), NEW pos \in Nat, NEW out \in Nat,
         NEW s \in {"active", "closed", "ended"}, OnTheWay(line, pos, out, s),
         line # <<>>, Head(line)[1] = Close
  PROVE  s = "ended" /\ (pos = out + 1 \/ pos = 0)
<1>1. Head(line) = line[1] /\ Len(line) \in Nat \ {0}
  OBVIOUS
<1>2. \A n \in Nat : Msg(n)[1] # Close
  BY DEF Msg, Ack, Close
<1>3. s = "ended"
  BY <1>1, <1>2 DEF OnTheWay, Numbered
<1>4. Len(line) = 1
  <2>. SUFFICES ASSUME Len(line) # 1 PROVE FALSE
    OBVIOUS
  <2>. DEFINE n == Len(line)
  <2>1. 1 \in 1..(n - 1)
    <3>1. n \in Nat \ {0} /\ n # 1
      BY <1>1
    <3>. HIDE DEF n
    <3>2. QED
      BY <3>1
  <2>2. line[1] = Msg(pos + 1 - 1) /\ pos + 1 - 1 \in Nat
    BY <2>1, <1>3 DEF OnTheWay, Numbered
  <2>3. QED
    BY <2>2, <1>1, <1>2
<1>5. QED
  BY <1>3, <1>4 DEF OnTheWay

-----------------------------------------------------------------------------
(* Types. *)

\* Chunk i of stdin holds the ChunkSize bytes after those of the chunks before it.
LEMMA StdinChunk ==
  ASSUME NEW i \in 1..InChunks
  PROVE  /\ Chunk(i) \in Seq(Bytes) /\ Len(Chunk(i)) = ChunkSize
         /\ Chunk(i) # <<>> /\ Head(Chunk(i)) \in Bytes /\ Chunk(i)[1] \in Bytes
         /\ Tail(Chunk(i)) \in Seq(Bytes)
<1>1. /\ (i - 1) * ChunkSize \in Nat
      /\ (i - 1) * ChunkSize + ChunkSize <= InChunks * ChunkSize
      /\ ChunkSize \in Nat \ {0}
  <2>1. InChunks \in Nat /\ ChunkSize \in Nat \ {0}
    BY SizeAssumption
  <2>2. PICK k \in Nat : InChunks = i + k
    <3>1. InChunks - i \in Nat /\ InChunks = i + (InChunks - i)
      BY <2>1
    <3>2. QED
      BY <3>1
  <2>3. InChunks * ChunkSize = (i - 1) * ChunkSize + ChunkSize + k * ChunkSize
    BY <2>1, <2>2
  <2>4. (i - 1) * ChunkSize \in Nat /\ k * ChunkSize \in Nat
    BY <2>1, <2>2
  <2>5. QED
    BY <2>1, <2>3, <2>4
<1>2. \A k \in 1..ChunkSize : (i - 1) * ChunkSize + k \in Bytes
  <2>. DEFINE a == (i - 1) * ChunkSize
              b == InChunks * ChunkSize
  <2>1. a \in Nat /\ a + ChunkSize <= b /\ ChunkSize \in Nat /\ b \in Nat
    BY <1>1, SizeAssumption
  <2>. HIDE DEF a, b
  <2>2. \A k \in 1..ChunkSize : a + k \in 1..b
    BY <2>1
  <2>3. QED
    BY <2>2 DEF a, b, Bytes
<1>3. Chunk(i) \in [1..ChunkSize -> Bytes]
  BY <1>2 DEF Chunk
<1>4. Chunk(i) \in Seq(Bytes) /\ Len(Chunk(i)) = ChunkSize
  BY <1>1, <1>3
<1>5. QED
  BY <1>1, <1>4

\* The fields of the records.
LEMMA Fields ==
  ASSUME TypeOK
  PROVE  /\ client.target \in Targets /\ client.open \in BOOLEAN /\ client.sent \in 0..InChunks
         /\ client.eof \in BOOLEAN /\ client.got \in Seq(Outputs)
         /\ client.end \in {"none", "normal", "abrupt"}
BY DEF TypeOK, Streams

\* The fields of the pipe.
LEMMA PipeFields ==
  ASSUME TypeOK
  PROVE  /\ pipe.ch \in Seq({Chunk(i) : i \in 1..InChunks}) /\ pipe.buf \in Seq(Bytes)
         /\ pipe.closed \in BOOLEAN /\ Len(pipe.ch) <= StdinCap
BY DEF TypeOK, Pipes

\* The fields of the process and of the history.
LEMMA ProcessFields ==
  ASSUME TypeOK
  PROVE  /\ process.out \in 0..OutChunks /\ process.got \in Seq(Bytes)
         /\ process.read \in {"check", "receive", "eof"} /\ process.mute \in BOOLEAN
         /\ seen.breaks \in 0..MaxBreaks /\ seen.overflow \in BOOLEAN /\ seen.pressure \in BOOLEAN
         /\ seen.via \in Seq(Conns)
BY DEF TypeOK, Processes, Histories

\* The connection and what is on it.
LEMMA LinkFields ==
  ASSUME TypeOK
  PROVE  /\ link.conn \in Conns /\ link.state \in {"up", "goaway", "broken"}
         /\ link.here \in BOOLEAN
         /\ \A c \in Conns : toGateway[c] \in Seq(ToGateway)
         /\ toGateway[link.conn] \in Seq(ToGateway)
BY Zenon DEF TypeOK, Links

\* The number of a connection.
LEMMA ConnFacts ==
  /\ 1 \in Conns /\ Conns \subseteq Nat \ {0}
  /\ \A n \in 0..MaxBreaks : n + 1 \in Conns
BY SizeAssumption DEF Conns

\* The chunk the handler writes.
LEMMA WritingFacts ==
  ASSUME TypeOK
  PROVE  /\ writing \in Seq(ToGateway)
         /\ writing # <<>> => Head(writing) \in ToGateway /\ writing = <<Head(writing)>>
<1>1. CASE writing = <<>>
  BY <1>1
<1>2. CASE writing # <<>>
  <2>1. PICK m \in ToGateway : writing = <<m>>
    BY <1>2, Zenon DEF TypeOK
  <2>2. QED
    BY <2>1
<1>3. QED
  BY <1>1, <1>2

\* The next chunk of output has a number.
LEMMA NextOutput ==
  ASSUME TypeOK, process.out < OutChunks
  PROVE  process.out + 1 \in 1..OutChunks
<1>1. process.out \in 0..OutChunks /\ OutChunks \in Nat
  BY ProcessFields, SizeAssumption
<1>2. QED
  BY <1>1

\* The next chunk of stdin has a number.
LEMMA NextInput ==
  ASSUME TypeOK, client.sent < InChunks
  PROVE  client.sent + 1 \in 1..InChunks /\ client.sent + 1 \in 0..InChunks
<1>1. client.sent \in 0..InChunks /\ InChunks \in Nat
  BY Fields, SizeAssumption
<1>2. QED
  BY <1>1

\* A new request has the types (handleExec, handleWirelogs).
LEMMA TypeInit == Init => TypeOK
<1>. SUFFICES ASSUME Init PROVE TypeOK
  OBVIOUS
<1>1. client \in Streams
  BY SizeAssumption DEF Init, Streams
<1>2. pipe \in Pipes
  <2>1. <<>> \in Seq({Chunk(i) : i \in 1..InChunks})
    OBVIOUS
  <2>2. QED
    BY <2>1 DEF Init, Pipes
<1>3. Len(pipe.ch) <= StdinCap /\ Len(fromAgent) <= OutCap
  BY SizeAssumption DEF Init
<1>4. process \in Processes
  BY SizeAssumption DEF Init, Processes
<1>5. seen \in Histories
  <2>1. <<>> \in Seq(Conns) /\ 0 \in 0..MaxBreaks
    BY SizeAssumption
  <2>2. QED
    BY <2>1, Zenon DEF Init, Histories
<1>6. /\ handler = "init" /\ reader = "none" /\ done = FALSE /\ fromAgent = <<>> /\ writing = <<>>
      /\ toAgent = <<>> /\ session = "none"
  BY DEF Init
<1>7. fromAgent \in Seq(ToGateway) /\ toAgent \in Seq(ToAgent) /\ <<>> \in Seq(ToGateway)
  BY <1>6
<1>8. link \in Links /\ toGateway \in [Conns -> Seq(ToGateway)]
  BY <1>7, ConnFacts, Zenon DEF Init, Links
<1>9. QED
  BY <1>1, <1>2, <1>3, <1>4, <1>5, <1>6, <1>7, <1>8, Zenon DEF TypeOK

\* What the end of the handler leaves of the client's stream.
LEMMA EndsType ==
  ASSUME TypeOK, NEW how \in {"normal", "abrupt"}, HandlerEnds(how)
  PROVE  /\ handler' = "ended" /\ client'.open = FALSE /\ client'.target = client.target
         /\ client'.sent = client.sent /\ client'.eof = client.eof /\ client'.got = client.got
         /\ client'.end = IF client.open THEN how ELSE client.end
         /\ client' \in Streams
BY Zenon DEF HandlerEnds, TypeOK, Streams

\* What a delivered chunk changes.
LEMMA DeliverType ==
  ASSUME TypeOK, NEW m \in ToGateway, Deliver(m)
  PROVE  /\ client'.open = client.open /\ client'.target = client.target
         /\ client'.sent = client.sent /\ client'.eof = client.eof /\ client'.end = client.end
         /\ client'.got = IF m[1] = "out" /\ client.open THEN Append(client.got, m[2])
                          ELSE client.got
         /\ client' \in Streams
<1>1. m[1] = "out" => m[2] \in Outputs
  BY ChunkFacts DEF Outputs
<1>2. CASE m[1] = "out" /\ client.open
  <2>. DEFINE got == Append(client.got, m[2])
  <2>1. got \in Seq(Outputs)
    BY <1>1, <1>2, Fields
  <2>2. client' = [client EXCEPT !.got = got]
    BY <1>2 DEF Deliver
  <2>. HIDE DEF got
  <2>3. /\ client'.open = client.open /\ client'.target = client.target
        /\ client'.sent = client.sent /\ client'.eof = client.eof /\ client'.end = client.end
        /\ client'.got = got
        /\ client' \in Streams
    BY <2>1, <2>2, Zenon DEF TypeOK, Streams
  <2>4. QED
    BY <2>3, <1>2 DEF got
<1>3. CASE ~(m[1] = "out" /\ client.open)
  BY <1>3 DEF Deliver, TypeOK
<1>4. QED
  BY <1>2, <1>3

\* A message to the agent (SendRawMessage).
LEMMA GatewaySendsType ==
  ASSUME TypeOK, NEW m \in ToAgent, GatewaySends(m)
  PROVE  toAgent' \in Seq(ToAgent)
BY DEF GatewaySends, TypeOK

\* A chunk to the gateway (sendStreamChunk).
LEMMA AgentSendsType ==
  ASSUME TypeOK, NEW m \in ToGateway, AgentSends(m)
  PROVE  toGateway' \in [Conns -> Seq(ToGateway)]
<1>1. Append(toGateway[link.conn], m) \in Seq(ToGateway)
  BY LinkFields
<1>2. QED
  BY <1>1, LinkFields, Zenon DEF AgentSends, TypeOK

\* The next chunk of a connection is read (NextOn).
LEMMA NextOnType ==
  ASSUME TypeOK, NEW c \in Conns, toGateway[c] # <<>>, NextOn(c)
  PROVE  /\ toGateway' \in [Conns -> Seq(ToGateway)] /\ Head(toGateway[c]) \in ToGateway
         /\ toGateway'[c] = Tail(toGateway[c])
         /\ \A d \in Conns \ {c} : toGateway'[d] = toGateway[d]
<1>1. toGateway[c] \in Seq(ToGateway)
  BY LinkFields, Zenon
<1>2. Head(toGateway[c]) \in ToGateway /\ Tail(toGateway[c]) \in Seq(ToGateway)
  BY <1>1
<1>3. QED
  BY <1>2, Zenon DEF NextOn, TypeOK

\* What the end of a connection leaves of it (Cut).
LEMMA CutType ==
  ASSUME TypeOK, Cut
  PROVE  /\ toAgent' \in Seq(ToAgent) /\ toGateway' \in [Conns -> Seq(ToGateway)]
         /\ link' \in Links /\ link'.conn = link.conn /\ link'.here = link.here
         /\ link'.state = "broken"
         /\ \E k \in 0..Len(toGateway[link.conn]) :
              toGateway'[link.conn] = SubSeq(toGateway[link.conn], 1, k)
         /\ \A d \in Conns \ {link.conn} : toGateway'[d] = toGateway[d]
<1>1. toAgent' \in Seq(ToAgent)
  <2>1. toAgent \in Seq(ToAgent)
    BY DEF TypeOK
  <2>2. PICK k \in 0..Len(toAgent) : toAgent' = SubSeq(toAgent, 1, k)
    BY DEF Cut
  <2>3. QED
    BY <2>1, <2>2
<1>2. PICK k \in 0..Len(toGateway[link.conn]) :
        toGateway' = [toGateway EXCEPT ![link.conn] = SubSeq(@, 1, k)]
  BY Zenon DEF Cut
<1>3. SubSeq(toGateway[link.conn], 1, k) \in Seq(ToGateway)
  <2>. DEFINE t == toGateway[link.conn]
  <2>1. t \in Seq(ToGateway) /\ k \in 0..Len(t)
    BY LinkFields, Zenon
  <2>. HIDE DEF t
  <2>2. SubSeq(t, 1, k) \in Seq(ToGateway)
    BY <2>1
  <2>3. QED
    BY <2>2 DEF t
<1>4. link' \in Links /\ link'.conn = link.conn /\ link'.here = link.here /\ link'.state = "broken"
  BY Zenon DEF Cut, TypeOK, Links
<1>5. QED
  BY <1>1, <1>2, <1>3, <1>4, LinkFields, Zenon DEF TypeOK

\* The messages the actions send.
LEMMA Signals ==
  /\ <<Init1, 0>> \in ToAgent /\ <<Eof, 0>> \in ToAgent /\ <<Close, 0>> \in ToAgent
  /\ <<Ack, 0>> \in ToGateway /\ <<Close, 0>> \in ToGateway
  /\ \A i \in 1..InChunks : <<"in", i>> \in ToAgent
  /\ \A i \in 1..OutChunks : <<"out", i>> \in ToGateway
BY DEF ToAgent, ToGateway, Outputs

\* What the agent's read loop does with a message (handleHTTPTunnelStreamInit,
\* routeStreamChunk).
LEMMA ReadsCases ==
  ASSUME AgentReads, Head(toAgent)[1] \in {Init1, "in", Eof, Close}
  PROVE  \/ Head(toAgent)[1] = Init1 /\ session' = "starting" /\ UNCHANGED <<pipe, seen>>
         \/ /\ Head(toAgent)[1] # Init1 /\ session # "active"
            /\ UNCHANGED <<session, pipe, seen>>
         \/ /\ Head(toAgent)[1] = "in" /\ session = "active"
            /\ PipeWrite(Head(toAgent)[2]) /\ UNCHANGED session
         \/ /\ Head(toAgent)[1] = Eof /\ session = "active"
            /\ pipe' = ClosedPipe /\ UNCHANGED <<session, seen>>
         \/ /\ Head(toAgent)[1] = Close /\ session = "active"
            /\ session' = "closed" /\ pipe' = ClosedPipe /\ UNCHANGED seen
BY Zenon DEF AgentReads, Init1, Eof, Close

\* Every action keeps the types.
LEMMA TypeStep == TypeOK /\ LinkFits /\ [Next]_vars => TypeOK'
<1>. SUFFICES ASSUME TypeOK, LinkFits, [Next]_vars PROVE TypeOK'
  OBVIOUS
<1>1. CASE SendInit
  <2>1. CASE handler' = "waiting" /\ GatewaySends(<<Init1, 0>>) /\ UNCHANGED client
    BY <1>1, <2>1, GatewaySendsType, Signals DEF SendInit, TypeOK, agent
  <2>2. CASE HandlerEnds("abrupt") /\ UNCHANGED toAgent
    BY <1>1, <2>2, EndsType, Zenon DEF SendInit, TypeOK, agent
  <2>3. QED
    BY <1>1, <2>1, <2>2 DEF SendInit
<1>2. CASE TakeChunk
  <2>1. /\ fromAgent' \in Seq(ToGateway) /\ Len(fromAgent') <= OutCap
        /\ Head(fromAgent) \in ToGateway
    <3>1. fromAgent \in Seq(ToGateway) /\ fromAgent # <<>> /\ fromAgent' = Tail(fromAgent)
          /\ Len(fromAgent) <= OutCap /\ OutCap \in Nat
      BY <1>2, SizeAssumption DEF TakeChunk, TypeOK
    <3>2. QED
      BY <3>1
  <2>2. CASE HandlerEnds("abrupt") /\ UNCHANGED writing
    BY <1>2, <2>1, <2>2, EndsType, Zenon DEF TakeChunk, TypeOK, agent, wires
  <2>3. CASE writing' = <<Head(fromAgent)>> /\ UNCHANGED <<handler, client>>
    BY <1>2, <2>1, <2>3, Zenon DEF TakeChunk, TypeOK, agent, wires
  <2>4. QED
    BY <1>2, <2>2, <2>3, Zenon DEF TakeChunk
<1>3. CASE StartTimeout
  BY <1>3, EndsType, Zenon DEF StartTimeout, TypeOK, agent, wires
<1>4. CASE WriteChunk
  <2>. DEFINE m == Head(writing)
  <2>1. m \in ToGateway /\ writing' = <<>>
    BY <1>4, WritingFacts, Zenon DEF WriteChunk
  <2>2. CASE (\E how \in {"normal", "abrupt"} : HandlerEnds(how)) /\ UNCHANGED reader
    BY <1>4, <2>1, <2>2, EndsType, Zenon DEF WriteChunk, TypeOK, agent, wires
  <2>3. CASE /\ Deliver(m) /\ handler' = "streaming"
             /\ reader' = IF handler = "waiting" THEN "reading" ELSE reader
    BY <1>4, <2>1, <2>3, DeliverType, Zenon DEF WriteChunk, TypeOK, agent, wires
  <2>4. QED
    BY <1>4, <2>2, <2>3, Zenon DEF WriteChunk
<1>5. CASE SeesDone
  BY <1>5, EndsType, Zenon DEF SeesDone, TypeOK, agent, wires
<1>6. CASE ReaderEnds
  BY <1>6, GatewaySendsType, Signals DEF ReaderEnds, TypeOK, agent
<1>7. ASSUME NEW c \in Conns, handleStreamChunk(c) PROVE TypeOK'
  <2>1. Head(toGateway[c]) \in ToGateway /\ toGateway' \in [Conns -> Seq(ToGateway)]
    BY <1>7, NextOnType, Zenon DEF handleStreamChunk
  <2>2. fromAgent' \in Seq(ToGateway) /\ Len(fromAgent') <= OutCap
    <3>1. fromAgent \in Seq(ToGateway) /\ Len(fromAgent) <= OutCap /\ OutCap \in Nat
      BY SizeAssumption DEF TypeOK
    <3>2. \/ fromAgent' = fromAgent
          \/ Len(fromAgent) < OutCap /\ fromAgent' = Append(fromAgent, Head(toGateway[c]))
      BY <1>7, Zenon DEF handleStreamChunk
    <3>3. QED
      BY <2>1, <3>1, <3>2
  <2>3. QED
    BY <1>7, <2>1, <2>2, Zenon DEF handleStreamChunk, TypeOK, agent
<1>8. ASSUME NEW c \in Conns, BackpressureTimeout(c) PROVE TypeOK'
  <2>1. toGateway' \in [Conns -> Seq(ToGateway)]
    BY <1>8, NextOnType, Zenon DEF BackpressureTimeout
  <2>2. seen' \in Histories
    BY <1>8, Zenon DEF BackpressureTimeout, TypeOK, Histories
  <2>3. QED
    BY <1>8, <2>1, <2>2, Zenon DEF BackpressureTimeout, TypeOK, agent
<1>9. CASE AgentReads
  <2>. DEFINE m == Head(toAgent)
  <2>1. m \in ToAgent /\ toAgent' \in Seq(ToAgent)
    BY <1>9 DEF AgentReads, TypeOK
  <2>2. /\ session' \in {"none", "starting", "active", "closed", "ended"}
        /\ pipe' \in Pipes
        /\ Len(pipe'.ch) <= StdinCap
        /\ seen' \in Histories
    <3>1. CASE session' \in {session, "starting"} /\ UNCHANGED <<pipe, seen>>
      BY <3>1 DEF TypeOK
    <3>2. CASE session' \in {session, "closed"} /\ pipe' = ClosedPipe /\ UNCHANGED seen
      BY <3>2, Zenon DEF TypeOK, ClosedPipe, Pipes
    <3>3. CASE m[1] = "in" /\ PipeWrite(m[2]) /\ UNCHANGED session
      <4>. DEFINE c == Chunk(m[2])
      <4>1. m[2] \in 1..InChunks
        BY <2>1, <3>3 DEF ToAgent, Init1, Eof, Close
      <4>2. c \in {Chunk(i) : i \in 1..InChunks} /\ c \in Seq(Bytes)
        BY <4>1, StdinChunk
      <4>. HIDE DEF c
      <4>3. CASE pipe.closed
        BY <3>3, <4>3 DEF PipeWrite, TypeOK
      <4>4. CASE ~pipe.closed /\ Len(pipe.ch) < StdinCap
        <5>. DEFINE ch == Append(pipe.ch, c)
        <5>1. ch \in Seq({Chunk(i) : i \in 1..InChunks}) /\ Len(ch) <= StdinCap
          <6>1. StdinCap \in Nat /\ pipe.ch \in Seq({Chunk(i) : i \in 1..InChunks})
            BY SizeAssumption, PipeFields
          <6>2. QED
            BY <4>2, <4>4, <6>1
        <5>2. pipe' = [pipe EXCEPT !.ch = ch] /\ UNCHANGED seen
          BY <3>3, <4>4 DEF PipeWrite, c
        <5>. HIDE DEF ch
        <5>3. QED
          BY <3>3, <5>1, <5>2, Zenon DEF TypeOK, Pipes
      <4>5. CASE ~pipe.closed /\ ~(Len(pipe.ch) < StdinCap)
        <5>. DEFINE buf == pipe.buf \o c
        <5>1. buf \in Seq(Bytes)
          BY <4>2, PipeFields
        <5>2. pipe' = [pipe EXCEPT !.buf = buf] /\ seen' = [seen EXCEPT !.overflow = TRUE]
          BY <3>3, <4>5, Zenon DEF PipeWrite, c
        <5>. HIDE DEF buf
        <5>3. QED
          BY <3>3, <5>1, <5>2, Zenon DEF TypeOK, Pipes, Histories
      <4>6. QED
        BY <4>3, <4>4, <4>5
    <3>4. QED
      <4>1. m[1] \in {Init1, "in", Eof, Close}
        BY <2>1 DEF ToAgent
      <4>2. QED
        BY <1>9, <3>1, <3>2, <3>3, <4>1, ReadsCases
  <2>3. QED
    BY <1>9, <2>1, <2>2 DEF AgentReads, TypeOK, gateway
<1>10. CASE StartSession
  <2>1. toGateway' \in [Conns -> Seq(ToGateway)]
    BY <1>10, AgentSendsType, Signals DEF StartSession
  <2>2. /\ pipe' \in Pipes
        /\ Len(pipe'.ch) <= StdinCap
    BY <1>10, Zenon DEF StartSession, TypeOK, ClosedPipe, Pipes
  <2>3. QED
    BY <1>10, <2>1, <2>2 DEF StartSession, TypeOK, gateway
<1>11. ASSUME NEW tell \in BOOLEAN, EndSession(tell)
       PROVE  /\ toGateway' \in [Conns -> Seq(ToGateway)] /\ session' = "ended"
              /\ pipe' \in Pipes
              /\ Len(pipe'.ch) <= StdinCap
  BY <1>11, AgentSendsType, Signals, Zenon DEF EndSession, TypeOK, ClosedPipe, Pipes
<1>12. CASE Cancelled \/ Exit
  BY <1>11, <1>12, Zenon DEF Cancelled, Exit, TypeOK, gateway
<1>13. CASE ReadBuffer
  <2>1. CASE pipe.buf # <<>>
    <3>. DEFINE got == Append(process.got, Head(pipe.buf))
                buf == Tail(pipe.buf)
    <3>1. got \in Seq(Bytes) /\ buf \in Seq(Bytes)
      BY <2>1, PipeFields, ProcessFields
    <3>2. process' = [process EXCEPT !.got = got] /\ pipe' = [pipe EXCEPT !.buf = buf]
      BY <1>13, <2>1 DEF ReadBuffer
    <3>. HIDE DEF got, buf
    <3>3. pipe' \in Pipes /\ Len(pipe'.ch) <= StdinCap /\ process' \in Processes
      BY <3>1, <3>2, Zenon DEF TypeOK, Pipes, Processes
    <3>4. QED
      BY <1>13, <3>3 DEF ReadBuffer, TypeOK, gateway, wires
  <2>2. CASE pipe.buf = <<>>
    <3>1. pipe' = pipe
      BY <1>13, <2>2 DEF ReadBuffer, TypeOK, Pipes
    <3>2. process' \in Processes
      BY <1>13, <2>2, Zenon DEF ReadBuffer, TypeOK, Processes
    <3>3. QED
      BY <1>13, <3>1, <3>2, Zenon DEF ReadBuffer, TypeOK, gateway, wires
  <2>3. QED
    BY <2>1, <2>2
<1>14. CASE Receive
  <2>1. CASE pipe.ch = <<>> /\ process' = [process EXCEPT !.read = "eof"] /\ UNCHANGED pipe
    <3>1. process' \in Processes
      BY <2>1, Zenon DEF TypeOK, Processes
    <3>2. QED
      BY <1>14, <2>1, <3>1 DEF Receive, TypeOK, gateway, wires
  <2>2. CASE /\ pipe.ch # <<>>
             /\ process' = [process EXCEPT !.read = "check", !.got = Append(@, Head(pipe.ch)[1])]
             /\ pipe' = [pipe EXCEPT !.ch = Tail(@), !.buf = @ \o Tail(Head(pipe.ch))]
    <3>1. PICK i \in 1..InChunks : Head(pipe.ch) = Chunk(i)
      BY <2>2, PipeFields
    <3>2. Head(pipe.ch)[1] \in Bytes /\ Tail(Head(pipe.ch)) \in Seq(Bytes)
      BY <3>1, StdinChunk
    <3>. DEFINE got == Append(process.got, Head(pipe.ch)[1])
                buf == pipe.buf \o Tail(Head(pipe.ch))
                ch == Tail(pipe.ch)
    <3>3. got \in Seq(Bytes) /\ buf \in Seq(Bytes)
      BY <3>2, PipeFields, ProcessFields
    <3>4. ch \in Seq({Chunk(j) : j \in 1..InChunks}) /\ Len(ch) <= StdinCap
      BY <2>2, SizeAssumption, PipeFields
    <3>5. /\ process' = [process EXCEPT !.read = "check", !.got = got]
          /\ pipe' = [pipe EXCEPT !.ch = ch, !.buf = buf]
      BY <2>2
    <3>. HIDE DEF got, buf, ch
    <3>6. /\ pipe' \in Pipes
          /\ Len(pipe'.ch) <= StdinCap
          /\ process' \in Processes
      BY <3>3, <3>4, <3>5, Zenon DEF TypeOK, Pipes, Processes
    <3>7. QED
      BY <1>14, <3>6 DEF Receive, TypeOK, gateway, wires
  <2>3. QED
    BY <1>14, <2>1, <2>2 DEF Receive
<1>15. CASE RelayInput
  <2>1. client' \in Streams
    <3>1. CASE UNCHANGED client
      BY <3>1 DEF TypeOK
    <3>2. CASE client' = [client EXCEPT !.eof = TRUE]
      BY <3>2, Zenon DEF TypeOK, Streams
    <3>3. CASE client.sent < InChunks /\ client' = [client EXCEPT !.sent = @ + 1]
      <4>1. client.sent + 1 \in 0..InChunks
        BY <3>3, NextInput
      <4>2. QED
        BY <3>3, <4>1, Zenon DEF TypeOK, Streams
    <3>4. QED
      BY <1>15, <3>1, <3>2, <3>3 DEF RelayInput
  <2>2. toAgent' \in Seq(ToAgent)
    <3>1. client.sent < InChunks => client.sent + 1 \in 1..InChunks
      BY NextInput
    <3>2. QED
      BY <1>15, <3>1, GatewaySendsType, Signals DEF RelayInput, TypeOK
  <2>3. QED
    BY <1>15, <2>1, <2>2, Zenon DEF RelayInput, TypeOK, agent
<1>16. CASE Produce
  <2>1. CASE /\ process' = [process EXCEPT !.out = @ + 1]
             /\ IF process.mute THEN UNCHANGED toGateway ELSE AgentSends(<<"out", process.out + 1>>)
             /\ seen' = [seen EXCEPT !.via = Append(@, link.conn)]
             /\ UNCHANGED <<session, pipe>>
    <3>1. process.out + 1 \in 1..OutChunks
      BY <1>16, NextOutput DEF Produce
    <3>2. toGateway' \in [Conns -> Seq(ToGateway)]
      BY <2>1, <3>1, AgentSendsType, Signals, Zenon DEF TypeOK
    <3>3. process' \in Processes
      <4>. DEFINE out == process.out + 1
      <4>1. out \in 0..OutChunks
        BY <3>1
      <4>2. process' = [process EXCEPT !.out = out]
        BY <2>1
      <4>. HIDE DEF out
      <4>3. QED
        BY <4>1, <4>2, Zenon DEF TypeOK, Processes
    <3>4. seen' \in Histories
      <4>. DEFINE via == Append(seen.via, link.conn)
      <4>1. via \in Seq(Conns)
        BY ProcessFields, LinkFields
      <4>2. seen' = [seen EXCEPT !.via = via]
        BY <2>1
      <4>. HIDE DEF via
      <4>3. QED
        BY <4>1, <4>2, Zenon DEF TypeOK, Histories
    <3>5. QED
      BY <1>16, <2>1, <3>2, <3>3, <3>4, Zenon DEF Produce, TypeOK, gateway
  <2>2. CASE process' = [process EXCEPT !.mute = TRUE] /\ UNCHANGED <<session, pipe, toGateway, seen>>
    <3>1. process' \in Processes
      BY <2>2, Zenon DEF TypeOK, Processes
    <3>2. QED
      BY <1>16, <2>2, <3>1, Zenon DEF Produce, TypeOK, gateway
  <2>3. CASE EndSession(FALSE) /\ UNCHANGED <<process, seen>>
    BY <1>11, <1>16, <2>3, Zenon DEF Produce, TypeOK, gateway
  <2>4. QED
    BY <1>16, <2>1, <2>2, <2>3, Zenon DEF Produce
<1>17. CASE ClientLeaves
  BY <1>17, Zenon DEF ClientLeaves, TypeOK, Streams, gateway, wires, agent
<1>18. ASSUME seen.breaks < MaxBreaks, seen' = [seen EXCEPT !.breaks = @ + 1]
       PROVE  seen' \in Histories
  <2>1. seen.breaks + 1 \in 0..MaxBreaks
    BY <1>18, SizeAssumption, ProcessFields
  <2>2. QED
    BY <1>18, <2>1, Zenon DEF TypeOK, Histories
<1>19. CASE LinkBreaks
  BY <1>18, <1>19, CutType, Zenon DEF LinkBreaks, Cut, TypeOK, gateway, agent
<1>20. CASE GoAway
  <2>1. link' \in Links
    BY <1>20, Zenon DEF GoAway, TypeOK, Links
  <2>2. toAgent' \in Seq(ToAgent)
    BY <1>20 DEF GoAway
  <2>3. QED
    BY <1>18, <1>20, <2>1, <2>2, Zenon DEF GoAway, TypeOK, gateway, agent
<1>21. CASE CloseConnection
  BY <1>21, CutType, Zenon DEF CloseConnection, Cut, TypeOK, gateway, agent
<1>22. CASE Reconnect
  <2>1. link.conn + 1 \in Conns
    <3>1. link.conn = seen.breaks /\ seen.breaks \in 0..MaxBreaks
      BY <1>22, ProcessFields DEF Reconnect, LinkFits
    <3>2. QED
      BY <3>1, ConnFacts
  <2>2. link' \in Links
    <3>1. PICK here \in BOOLEAN : link' = [conn |-> link.conn + 1, state |-> "up", here |-> here]
      BY <1>22, Zenon DEF Reconnect
    <3>2. QED
      BY <2>1, <3>1, Zenon DEF Links
  <2>3. toAgent' \in Seq(ToAgent)
    BY <1>22 DEF Reconnect
  <2>4. QED
    BY <1>22, <2>2, <2>3, Zenon DEF Reconnect, TypeOK, gateway, agent
<1>23. CASE UNCHANGED vars
  BY <1>23, Zenon DEF vars, TypeOK
<1>24. QED
  BY <1>1, <1>2, <1>3, <1>4, <1>5, <1>6, <1>7, <1>8, <1>9, <1>10, <1>12, <1>13, <1>14,
     <1>15, <1>16, <1>17, <1>19, <1>20, <1>21, <1>22, <1>23, Zenon
     DEF Next, Gateway, Agent, Wire, ReadLoop

-----------------------------------------------------------------------------
(* The connection. *)

\* The agent starts on its first connection.
LEMMA LinkInit == Init => LinkFits
<1>. SUFFICES ASSUME Init PROVE LinkFits
  OBVIOUS
<1>1. /\ link.conn = 1 /\ link.state = "up" /\ link.here /\ seen.breaks = 0 /\ ~process.mute
      /\ seen.via = <<>> /\ process.out = 0 /\ \A c \in Conns : toGateway[c] = <<>>
  BY DEF Init
<1>2. QED
  BY <1>1 DEF LinkFits

\* A step that leaves the connection, the numbers of breaks and outputs alone,
\* and puts nothing on a later connection.
LEMMA LinkSame ==
  ASSUME LinkFits, link' = link, seen'.breaks = seen.breaks, seen'.via = seen.via,
         process'.mute = process.mute, process'.out = process.out,
         \A c \in Conns : c > link.conn /\ toGateway[c] = <<>> => toGateway'[c] = <<>>
  PROVE  LinkFits'
BY Zenon DEF LinkFits

\* The agent sends on its current connection.
LEMMA LinkSends ==
  ASSUME TypeOK, NEW m, AgentSends(m)
  PROVE  \A c \in Conns : c > link.conn => toGateway'[c] = toGateway[c]
<1>1. link.conn \in Nat
  BY LinkFields, ConnFacts
<1>2. \A c \in Conns : c > link.conn => c # link.conn
  BY <1>1
<1>3. QED
  BY <1>2, Zenon DEF AgentSends, TypeOK

\* Every action keeps LinkFits.
LEMMA LinkStep == TypeOK /\ LinkFits /\ [Next]_vars => LinkFits'
<1>. SUFFICES ASSUME TypeOK, LinkFits, [Next]_vars PROVE LinkFits'
  OBVIOUS
<1>1. CASE SendInit \/ TakeChunk \/ WriteChunk \/ StartTimeout \/ SeesDone \/ ReaderEnds
  <2>1. UNCHANGED <<link, toGateway, process, seen>>
    BY <1>1, Zenon DEF SendInit, TakeChunk, WriteChunk, StartTimeout, SeesDone, ReaderEnds,
                       wires, agent
  <2>2. QED
    BY <2>1, LinkSame, Zenon
<1>2. ASSUME NEW c \in Conns, ReadLoop(c) PROVE LinkFits'
  <2>1. toGateway[c] # <<>> /\ NextOn(c) /\ UNCHANGED <<link, process>>
    BY <1>2, Zenon DEF ReadLoop, handleStreamChunk, BackpressureTimeout, agent
  <2>2. seen'.breaks = seen.breaks /\ seen'.via = seen.via
    BY <1>2, Zenon DEF ReadLoop, handleStreamChunk, BackpressureTimeout, TypeOK, Histories
  <2>3. \A d \in Conns : toGateway[d] = <<>> => toGateway'[d] = <<>>
    BY <2>1, NextOnType, Zenon
  <2>4. QED
    BY <2>1, <2>2, <2>3, LinkSame, Zenon
<1>3. CASE AgentReads
  <2>1. UNCHANGED <<link, toGateway, process>>
    BY <1>3, Zenon DEF AgentReads
  <2>2. Head(toAgent)[1] \in {Init1, "in", Eof, Close}
    <3>1. Head(toAgent) \in ToAgent
      BY <1>3 DEF AgentReads, TypeOK
    <3>2. QED
      BY <3>1 DEF ToAgent
  <2>3. seen' = seen \/ seen' = [seen EXCEPT !.overflow = TRUE]
    BY <1>3, <2>2, ReadsCases, Zenon DEF PipeWrite
  <2>4. seen'.breaks = seen.breaks /\ seen'.via = seen.via
    BY <2>3, Zenon DEF TypeOK, Histories
  <2>5. QED
    BY <2>1, <2>4, LinkSame, Zenon
<1>4. CASE StartSession
  <2>1. UNCHANGED <<link, process, seen>> /\ \E m \in ToGateway : AgentSends(m)
    BY <1>4, Signals, Zenon DEF StartSession
  <2>2. QED
    BY <2>1, LinkSame, LinkSends, Zenon
<1>5. ASSUME NEW tell \in BOOLEAN, EndSession(tell), UNCHANGED <<link, process, seen>>
      PROVE  LinkFits'
  BY <1>5, LinkSame, LinkSends, Zenon DEF EndSession
<1>6. CASE Cancelled \/ Exit
  BY <1>5, <1>6, Zenon DEF Cancelled, Exit
<1>7. CASE ReadBuffer \/ Receive
  <2>1. UNCHANGED <<link, toGateway, seen>>
    BY <1>7, Zenon DEF ReadBuffer, Receive, wires
  <2>2. process'.out = process.out /\ process'.mute = process.mute
    BY <1>7, Zenon DEF ReadBuffer, Receive, TypeOK, Processes
  <2>3. QED
    BY <2>1, <2>2, LinkSame, Zenon
<1>8. CASE RelayInput \/ ClientLeaves
  <2>1. UNCHANGED <<link, toGateway, process, seen>>
    BY <1>8, Zenon DEF RelayInput, ClientLeaves, wires, agent
  <2>2. QED
    BY <2>1, LinkSame, Zenon
<1>9. CASE Produce
  <2>1. CASE /\ process' = [process EXCEPT !.out = @ + 1]
             /\ IF process.mute THEN UNCHANGED toGateway ELSE AgentSends(<<"out", process.out + 1>>)
             /\ seen' = [seen EXCEPT !.via = Append(@, link.conn)]
    <3>1. process'.out = process.out + 1 /\ process'.mute = process.mute
      BY <2>1, Zenon DEF TypeOK, Processes
    <3>2. seen'.breaks = seen.breaks /\ seen'.via = Append(seen.via, link.conn)
      BY <2>1, Zenon DEF TypeOK, Histories
    <3>3. Len(seen'.via) = process'.out
      <4>1. Len(Append(seen.via, link.conn)) = Len(seen.via) + 1
        BY ProcessFields, LinkFields
      <4>2. QED
        BY <3>1, <3>2, <4>1, Zenon DEF LinkFits
    <3>4. \A c \in Conns : c > link.conn => toGateway'[c] = toGateway[c]
      BY <2>1, LinkSends, Zenon
    <3>5. link' = link
      BY <1>9 DEF Produce
    <3>6. QED
      BY <3>1, <3>2, <3>3, <3>4, <3>5, Zenon DEF LinkFits
  <2>2. CASE AgentSendFails /\ process' = [process EXCEPT !.mute = TRUE] /\ UNCHANGED <<toGateway, seen>>
    <3>1. process'.out = process.out /\ link' = link
      BY <1>9, <2>2, Zenon DEF Produce, TypeOK, Processes
    <3>2. seen.breaks > 0
      <4>1. seen.breaks \in Conns
        BY <2>2, LinkFields, Zenon DEF AgentSendFails, LinkFits
      <4>2. seen.breaks \in Nat \ {0}
        BY <4>1, ConnFacts, Zenon
      <4>3. QED
        BY <4>2
    <3>3. QED
      BY <2>2, <3>1, <3>2, Zenon DEF LinkFits
  <2>3. CASE EndSession(FALSE) /\ UNCHANGED <<process, seen>>
    BY <1>5, <1>9, <2>3, Zenon DEF Produce
  <2>4. QED
    BY <1>9, <2>1, <2>2, <2>3, Zenon DEF Produce
<1>10. ASSUME seen' = [seen EXCEPT !.breaks = @ + 1], link.state = "up"
       PROVE  /\ seen'.breaks = link.conn /\ seen'.via = seen.via /\ seen'.breaks > 0
  <2>1. seen'.breaks = seen.breaks + 1 /\ seen'.via = seen.via
    BY <1>10, Zenon DEF TypeOK, Histories
  <2>2. link.conn = seen.breaks + 1
    BY <1>10, Zenon DEF LinkFits
  <2>3. QED
    BY <2>1, <2>2, ProcessFields
<1>11. CASE LinkBreaks
  <2>1. \A c \in Conns : c > link.conn => toGateway'[c] = toGateway[c]
    <3>1. \A c \in Conns : c > link.conn => c # link.conn
      BY LinkFields, ConnFacts
    <3>2. QED
      BY <1>11, <3>1, CutType, Zenon DEF LinkBreaks
  <2>2. process' = process
    BY <1>11, Zenon DEF LinkBreaks, Cut, agent
  <2>3. QED
    BY <1>10, <1>11, <2>1, <2>2, CutType, Zenon DEF LinkBreaks, LinkFits
<1>12. CASE GoAway
  <2>1. link'.conn = link.conn /\ link'.here = link.here /\ link'.state = "goaway"
    BY <1>12, Zenon DEF GoAway, TypeOK, Links
  <2>2. UNCHANGED <<toGateway, process>>
    BY <1>12, Zenon DEF GoAway, agent
  <2>3. QED
    BY <1>10, <1>12, <2>1, <2>2, Zenon DEF GoAway, LinkFits
<1>13. CASE CloseConnection
  <2>1. \A c \in Conns : c > link.conn => toGateway'[c] = toGateway[c]
    <3>1. \A c \in Conns : c > link.conn => c # link.conn
      BY LinkFields, ConnFacts
    <3>2. QED
      BY <1>13, <3>1, CutType, Zenon DEF CloseConnection
  <2>2. process' = process /\ seen' = seen /\ link.state = "goaway"
    BY <1>13, Zenon DEF CloseConnection, Cut, agent
  <2>3. QED
    BY <1>13, <2>1, <2>2, CutType, Zenon DEF CloseConnection, LinkFits
<1>14. CASE Reconnect
  <2>1. /\ link'.conn = link.conn + 1 /\ link'.state = "up" /\ link.state = "broken"
        /\ UNCHANGED <<toGateway, process, seen>>
    <3>1. PICK here \in BOOLEAN : link' = [conn |-> link.conn + 1, state |-> "up", here |-> here]
      BY <1>14, Zenon DEF Reconnect
    <3>2. link'.conn = link.conn + 1 /\ link'.state = "up"
      BY <3>1, Zenon
    <3>3. QED
      BY <1>14, <3>2, Zenon DEF Reconnect, agent
  <2>2. link.conn = seen.breaks
    BY <2>1, Zenon DEF LinkFits
  <2>3. link.conn \in Nat \ {0} /\ \A c \in Conns : c \in Nat
    BY LinkFields, ConnFacts, Zenon
  <2>4. link.conn + 1 # 1 /\ \A c \in Conns : c > link.conn + 1 => c > link.conn
    BY <2>3
  <2>5. QED
    BY <2>1, <2>2, <2>3, <2>4, Zenon DEF LinkFits
<1>15. CASE UNCHANGED vars
  BY <1>15, LinkSame, Zenon DEF vars
<1>16. QED
  BY <1>1, <1>2, <1>3, <1>4, <1>6, <1>7, <1>8, <1>9, <1>11, <1>12, <1>13, <1>14, <1>15, Zenon
     DEF Next, Gateway, Agent, Wire

-----------------------------------------------------------------------------
(* A session starts once. *)

\* What the agent's read loop takes is gone from the wire; what is left came
\* after it.
LEMMA WireTake ==
  ASSUME TypeOK, toAgent # <<>>, toAgent' = Tail(toAgent)
  PROVE  /\ Head(toAgent) \in ToAgent /\ Head(toAgent) = toAgent[1]
         /\ Len(toAgent') = Len(toAgent) - 1 /\ Len(toAgent) \in Nat \ {0}
         /\ 1 \in DOMAIN toAgent
         /\ DOMAIN toAgent' = 1..(Len(toAgent) - 1)
         /\ \A i \in DOMAIN toAgent' : i + 1 \in DOMAIN toAgent /\ toAgent'[i] = toAgent[i + 1]
<1>1. toAgent \in Seq(ToAgent)
  BY DEF TypeOK
<1>2. QED
  BY <1>1

\* A message for the agent joins the end of the wire, or is lost.
LEMMA WireSend ==
  ASSUME TypeOK, NEW m \in ToAgent, GatewaySends(m)
  PROVE  \/ ~(link.conn = 1 /\ link.state = "up") /\ toAgent' = toAgent
         \/ /\ link.conn = 1 /\ link.state = "up"
            /\ Len(toAgent') = Len(toAgent) + 1 /\ Len(toAgent) \in Nat
            /\ DOMAIN toAgent = 1..Len(toAgent) /\ DOMAIN toAgent' = 1..(Len(toAgent) + 1)
            /\ toAgent'[Len(toAgent) + 1] = m
            /\ \A i \in DOMAIN toAgent : toAgent'[i] = toAgent[i]
<1>1. toAgent \in Seq(ToAgent)
  BY DEF TypeOK
<1>2. QED
  BY <1>1 DEF GatewaySends

\* Of the messages for the agent the first k arrive (Cut).
LEMMA WireCut ==
  ASSUME TypeOK, Cut
  PROVE  /\ DOMAIN toAgent' \subseteq DOMAIN toAgent
         /\ \A i \in DOMAIN toAgent' : toAgent'[i] = toAgent[i]
         /\ toAgent = <<>> => toAgent' = <<>>
         /\ toAgent = <<<<Init1, 0>>>> => toAgent' \in {<<>>, <<<<Init1, 0>>>>}
<1>1. PICK k \in 0..Len(toAgent) : toAgent' = SubSeq(toAgent, 1, k)
  BY Zenon DEF Cut
<1>2. toAgent \in Seq(ToAgent)
  BY DEF TypeOK
<1>3. /\ DOMAIN toAgent' \subseteq DOMAIN toAgent
      /\ \A i \in DOMAIN toAgent' : toAgent'[i] = toAgent[i]
  BY <1>1, <1>2
<1>4. toAgent = <<>> => toAgent' = <<>>
  BY <1>1
<1>5. ASSUME toAgent = <<<<Init1, 0>>>> PROVE toAgent' \in {<<>>, <<<<Init1, 0>>>>}
  <2>1. k = 0 \/ k = 1
    <3>1. Len(toAgent) = 1
      BY <1>5
    <3>2. k \in 0..1
      BY <3>1, Zenon
    <3>3. QED
      BY <3>2
  <2>2. k = 0 => toAgent' = <<>>
    BY <1>1, <1>2
  <2>3. k = 1 => toAgent' = <<<<Init1, 0>>>>
    <3>. DEFINE x == <<Init1, 0>>
    <3>. HIDE DEF x
    <3>1. <<x>> \in Seq({x}) /\ Len(<<x>>) = 1 /\ <<x>>[1] = x
      OBVIOUS
    <3>2. ASSUME NEW u \in Seq({x}), Len(u) = 1 PROVE SubSeq(u, 1, 1) = u
      BY <3>2
    <3>3. QED
      BY <1>1, <1>5, <3>1, <3>2, Zenon DEF x
  <2>4. QED
    BY <2>1, <2>2, <2>3, Zenon
<1>6. QED
  BY <1>3, <1>4, <1>5, Zenon

\* Nothing has been sent or read when the request arrives.
LEMMA StartsInit == Init => StartsOnce
BY DEF Init, StartsOnce, Init1

\* Every action keeps StartsOnce.
LEMMA StartsStep == TypeOK /\ StartsOnce /\ [Next]_vars => StartsOnce'
<1>. SUFFICES ASSUME TypeOK, StartsOnce, [Next]_vars PROVE StartsOnce'
  OBVIOUS
<1>1. CASE SendInit
  <2>1. CASE handler' = "waiting" /\ GatewaySends(<<Init1, 0>>) /\ UNCHANGED client
    <3>1. toAgent' \in {<<>>, <<<<Init1, 0>>>>}
      BY <1>1, <2>1 DEF SendInit, StartsOnce, GatewaySends
    <3>2. session = "none" /\ writing = <<>> /\ handler = "init" /\ client.end = "none"
      BY <1>1, Zenon DEF SendInit, StartsOnce
    <3>3. QED
      BY <1>1, <2>1, <3>1, <3>2, Zenon DEF SendInit, StartsOnce, agent
  <2>2. CASE HandlerEnds("abrupt") /\ UNCHANGED toAgent
    BY <1>1, <2>2, EndsType, Zenon DEF SendInit, StartsOnce, agent
  <2>3. QED
    BY <1>1, <2>1, <2>2 DEF SendInit
<1>2. CASE TakeChunk
  <2>1. session \notin {"none", "starting"} /\ handler \in {"waiting", "streaming"}
    BY <1>2, Zenon DEF TakeChunk, StartsOnce
  <2>2. UNCHANGED <<reader, toAgent, session, process>>
    BY <1>2, Zenon DEF TakeChunk, agent, wires
  <2>3. CASE HandlerEnds("abrupt") /\ UNCHANGED writing
    <3>1. writing = <<>>
      BY <1>2 DEF TakeChunk
    <3>2. QED
      BY <2>1, <2>2, <2>3, <3>1, EndsType, Zenon DEF StartsOnce
  <2>4. CASE /\ ~(handler = "waiting" /\ Head(fromAgent)[1] = Close)
             /\ writing' = <<Head(fromAgent)>> /\ UNCHANGED <<handler, client>>
    <3>1. Head(writing') = Head(fromAgent)
      BY <2>4
    <3>2. QED
      BY <2>1, <2>2, <2>4, <3>1, Zenon DEF StartsOnce
  <2>5. QED
    BY <1>2, <2>3, <2>4, Zenon DEF TakeChunk
<1>3. CASE StartTimeout
  BY <1>3, EndsType, Zenon DEF StartTimeout, StartsOnce, agent, wires
<1>4. CASE WriteChunk
  <2>. DEFINE m == Head(writing)
  <2>1. m \in ToGateway /\ writing' = <<>> /\ writing # <<>>
    BY <1>4, WritingFacts, Zenon DEF WriteChunk
  <2>2. session \notin {"none", "starting"} /\ handler \in {"waiting", "streaming"}
    BY <2>1, Zenon DEF StartsOnce
  <2>3. UNCHANGED <<toAgent, session, process>>
    BY <1>4, Zenon DEF WriteChunk, agent, wires
  <2>4. CASE \E how \in {"normal", "abrupt"} : HandlerEnds(how)
    BY <2>1, <2>2, <2>3, <2>4, EndsType, Zenon DEF StartsOnce
  <2>5. CASE Deliver(m) /\ handler' = "streaming"
    BY <2>1, <2>2, <2>3, <2>5, DeliverType, Zenon DEF StartsOnce
  <2>6. QED
    BY <1>4, <2>4, <2>5, Zenon DEF WriteChunk
<1>5. CASE SeesDone
  BY <1>5, EndsType, Zenon DEF SeesDone, StartsOnce, agent, wires
<1>6. CASE ReaderEnds
  <2>1. session \notin {"none", "starting"} /\ handler # "init"
    BY <1>6 DEF ReaderEnds, StartsOnce
  <2>2. \A i \in DOMAIN toAgent' : toAgent'[i][1] # Init1
    BY <1>6, <2>1, WireSend, Signals DEF ReaderEnds, StartsOnce, Close, Init1
  <2>3. QED
    BY <1>6, <2>1, <2>2 DEF ReaderEnds, StartsOnce, agent
<1>7. ASSUME NEW c \in Conns, ReadLoop(c) PROVE StartsOnce'
  <2>1. session \notin {"none", "starting"}
    BY <1>7, Zenon DEF ReadLoop, handleStreamChunk, BackpressureTimeout, StartsOnce
  <2>2. UNCHANGED <<handler, client, writing, toAgent, session>>
    BY <1>7, Zenon DEF ReadLoop, handleStreamChunk, BackpressureTimeout, agent
  <2>3. QED
    BY <2>1, <2>2, Zenon DEF StartsOnce
<1>9. CASE AgentReads
  <2>. DEFINE m == Head(toAgent)
  <2>1. m \in ToAgent /\ toAgent' = Tail(toAgent) /\ toAgent # <<>>
    BY <1>9 DEF AgentReads, TypeOK
  <2>2. m[1] \in {Init1, "in", Eof, Close}
    BY <2>1 DEF ToAgent
  <2>3. CASE session = "none"
    <3>1. toAgent = <<<<Init1, 0>>>>
      BY <2>1, <2>3 DEF StartsOnce
    <3>2. m[1] = Init1 /\ toAgent' = <<>>
      BY <2>1, <3>1
    <3>3. session' = "starting" /\ UNCHANGED <<pipe, seen>>
      BY <1>9, <2>2, <2>3, <3>2, ReadsCases DEF Init1, Eof, Close
    <3>4. QED
      BY <1>9, <2>3, <3>2, <3>3 DEF AgentReads, StartsOnce, gateway
  <2>4. CASE session # "none"
    <3>1. m[1] # Init1 /\ \A i \in DOMAIN toAgent' : toAgent'[i][1] # Init1
      BY <2>1, <2>4, WireTake DEF StartsOnce
    <3>2. session # "starting"
      BY <2>1 DEF StartsOnce
    <3>3. session' \in {session, "closed"}
      BY <1>9, <2>2, <3>1, ReadsCases
    <3>4. QED
      BY <1>9, <2>4, <3>1, <3>2, <3>3 DEF AgentReads, StartsOnce, gateway
  <2>5. QED
    BY <2>3, <2>4
<1>10. CASE StartSession
  BY <1>10 DEF StartSession, StartsOnce, gateway
<1>11. CASE Cancelled \/ Exit
  BY <1>11 DEF Cancelled, Exit, EndSession, StartsOnce, gateway
<1>12. CASE ReadBuffer \/ Receive
  BY <1>12 DEF ReadBuffer, Receive, StartsOnce, gateway, wires
<1>13. CASE RelayInput
  <2>1. session \notin {"none", "starting"} /\ handler # "init"
    BY <1>13 DEF RelayInput, StartsOnce
  <2>2. client'.got = client.got /\ client'.end = client.end /\ client'.open = client.open
    BY <1>13, Zenon DEF RelayInput, TypeOK, Streams
  <2>3. \/ toAgent' = toAgent
        \/ \E m \in ToAgent : GatewaySends(m) /\ m[1] # Init1
    <3>1. client.sent < InChunks => client.sent + 1 \in 1..InChunks
      BY NextInput
    <3>2. QED
      BY <1>13, <3>1, Signals DEF RelayInput, Init1, Eof
  <2>4. \A i \in DOMAIN toAgent' : toAgent'[i][1] # Init1
    BY <2>1, <2>3, WireSend DEF StartsOnce
  <2>5. QED
    BY <1>13, <2>1, <2>2, <2>4 DEF RelayInput, StartsOnce, agent
<1>14. CASE Produce
  <2>1. session' \in {"active", "ended"} /\ UNCHANGED <<handler, client, writing, toAgent>>
    BY <1>14, Zenon DEF Produce, EndSession, gateway
  <2>2. session = "active"
    BY <1>14, Zenon DEF Produce
  <2>3. QED
    BY <2>1, <2>2, Zenon DEF StartsOnce
<1>15. CASE ClientLeaves
  <2>1. /\ client'.got = client.got /\ client'.end = client.end /\ client'.sent = client.sent
        /\ client'.open = FALSE
    BY <1>15 DEF ClientLeaves, TypeOK, Streams
  <2>2. QED
    BY <1>15, <2>1 DEF ClientLeaves, StartsOnce, gateway, wires, agent
<1>16. ASSUME Cut PROVE StartsOnce'
  <2>1. UNCHANGED <<handler, reader, fromAgent, writing, client, session, pipe, process>>
    BY <1>16, Zenon DEF Cut, gateway, agent
  <2>2. \A c \in Conns : toGateway[c] = <<>> => toGateway'[c] = <<>>
    <3>1. PICK k \in 0..Len(toGateway[link.conn]) :
            toGateway'[link.conn] = SubSeq(toGateway[link.conn], 1, k)
      BY <1>16, CutType, Zenon
    <3>2. toGateway[link.conn] = <<>> => toGateway'[link.conn] = <<>>
      BY <3>1
    <3>3. QED
      BY <1>16, <3>2, CutType, Zenon
  <2>3. QED
    BY <1>16, <2>1, <2>2, WireCut, Zenon DEF StartsOnce
<1>17. CASE LinkBreaks \/ CloseConnection
  BY <1>16, <1>17, Zenon DEF LinkBreaks, CloseConnection
<1>18. CASE GoAway \/ Reconnect
  <2>1. /\ toAgent' = <<>>
        /\ UNCHANGED <<handler, reader, fromAgent, writing, client, toGateway, session, pipe, process>>
    BY <1>18, Zenon DEF GoAway, Reconnect, gateway, agent
  <2>2. \A i \in DOMAIN toAgent' : FALSE
    BY <2>1
  <2>3. QED
    BY <2>1, <2>2, Zenon DEF StartsOnce
<1>19. CASE UNCHANGED vars
  BY <1>19, Zenon DEF vars, StartsOnce
<1>20. QED
  BY <1>1, <1>2, <1>3, <1>4, <1>5, <1>6, <1>7, <1>9, <1>10, <1>11, <1>12, <1>13,
     <1>14, <1>15, <1>17, <1>18, <1>19, Zenon DEF Next, Gateway, Agent, Wire

-----------------------------------------------------------------------------
(* Output, connection by connection. *)

\* The chunks of the session and of its lines have their types.
LEMMA LineType ==
  ASSUME TypeOK
  PROVE  /\ fromAgent \in Seq(ToGateway) /\ writing \in Seq(ToGateway) /\ Held \in Seq(ToGateway)
         /\ \A c \in Conns : toGateway[c] \in Seq(ToGateway) /\ Line(c) \in Seq(ToGateway)
         /\ client.got \in Seq(Outputs) /\ client.got \in Seq(Nat) /\ Len(client.got) \in Nat
         /\ process.out \in Nat /\ Pos \in Nat
<1>1. fromAgent \in Seq(ToGateway) /\ writing \in Seq(ToGateway)
  BY WritingFacts DEF TypeOK
<1>2. Held \in Seq(ToGateway)
  BY <1>1 DEF Held
<1>3. \A c \in Conns : toGateway[c] \in Seq(ToGateway) /\ Line(c) \in Seq(ToGateway)
  <2>. SUFFICES ASSUME NEW c \in Conns
                PROVE  toGateway[c] \in Seq(ToGateway) /\ Line(c) \in Seq(ToGateway)
    OBVIOUS
  <2>. DEFINE t == toGateway[c]
  <2>1. t \in Seq(ToGateway)
    BY LinkFields, Zenon
  <2>. HIDE DEF t
  <2>2. Held \o t \in Seq(ToGateway)
    BY <1>2, <2>1
  <2>3. QED
    BY <2>1, <2>2 DEF t, Line
<1>4. client.got \in Seq(Outputs) /\ process.out \in Nat
  BY Fields, ProcessFields
<1>5. client.got \in Seq(Nat) /\ Len(client.got) \in Nat
  <2>1. Outputs \subseteq Nat
    BY SizeAssumption DEF Outputs
  <2>2. Len(client.got) \in Nat /\ client.got \in [1..Len(client.got) -> Outputs]
    BY <1>4
  <2>3. client.got \in [1..Len(client.got) -> Nat]
    BY <2>1, <2>2, Zenon
  <2>4. QED
    BY <2>2, <2>3
<1>6. Pos \in Nat
  BY <1>5 DEF Pos
<1>7. QED
  BY <1>1, <1>2, <1>3, <1>4, <1>5, <1>6, Zenon

\* The handler takes a chunk: the session holds it still, unless that ends the
\* request (TakeChunk).
LEMMA HeldTakes ==
  ASSUME TypeOK, writing = <<>>, fromAgent # <<>>, fromAgent' = Tail(fromAgent)
  PROVE  /\ Held # <<>> /\ Head(Held) = Head(fromAgent)
         /\ writing' = <<Head(fromAgent)>> => Held' = Held
         /\ writing' = <<>> => Held' = Tail(Held)
<1>1. fromAgent \in Seq(ToGateway)
  BY LineType
<1>2. <<>> \o fromAgent = fromAgent /\ <<>> \o Tail(fromAgent) = Tail(fromAgent)
  BY <1>1
<1>3. <<Head(fromAgent)>> \o Tail(fromAgent) = fromAgent
  BY <1>1
<1>4. QED
  BY <1>2, <1>3, Zenon DEF Held

\* The write returns: its chunk is gone (WriteChunk).
LEMMA HeldWrites ==
  ASSUME TypeOK, writing # <<>>, writing' = <<>>, fromAgent' = fromAgent
  PROVE  Held # <<>> /\ Head(Held) = Head(writing) /\ Held' = Tail(Held)
<1>1. fromAgent \in Seq(ToGateway) /\ writing \in Seq(ToGateway)
  BY LineType
<1>2. /\ Tail(writing) \o fromAgent = Tail(writing \o fromAgent)
      /\ Head(writing) = Head(writing \o fromAgent) /\ writing \o fromAgent # <<>>
  BY <1>1, LineTake, Zenon
<1>3. Tail(writing) = <<>>
  <2>1. writing = <<Head(writing)>>
    BY WritingFacts, Zenon
  <2>. DEFINE m == Head(writing)
  <2>2. writing = <<m>>
    BY <2>1
  <2>. HIDE DEF m
  <2>3. QED
    BY <2>2
<1>4. QED
  BY <1>2, <1>3, Zenon DEF Held

\* The read loop hands a chunk to the session (handleStreamChunk).
LEMMA HeldJoins ==
  ASSUME TypeOK, NEW m \in ToGateway, writing' = writing, fromAgent' = Append(fromAgent, m)
  PROVE  Held' = Append(Held, m)
<1>1. writing \in Seq(ToGateway) /\ fromAgent \in Seq(ToGateway)
  BY LineType
<1>2. writing \o Append(fromAgent, m) = Append(writing \o fromAgent, m)
  BY <1>1
<1>3. QED
  BY <1>2, Zenon DEF Held

\* A step that leaves the output and the lines alone.
LEMMA OrderSame ==
  ASSUME OrderInv, Held' = Held, toGateway' = toGateway, client'.got = client.got,
         seen'.via = seen.via
  PROVE  OrderInv'
<1>1. \A c \in Conns : Line(c)' = Line(c)
  BY Zenon DEF Line
<1>2. QED
  BY <1>1, Zenon DEF OrderInv

\* The first chunk of the lines is gone, and if it is output the client may have
\* it (TakeChunk, WriteChunk).
LEMMA OrderTaken ==
  ASSUME TypeOK, OrderInv, Held # <<>>, Held' = Tail(Held), toGateway' = toGateway,
         seen'.via = seen.via,
         \/ client'.got = client.got
         \/ Head(Held)[1] = "out" /\ client'.got = Append(client.got, Head(Held)[2])
  PROVE  OrderInv'
<1>1. /\ Held \in Seq(ToGateway) /\ Head(Held) \in ToGateway
      /\ Produced(Tail(Held), seen.via)
  BY LineType, LineLeave, Zenon DEF OrderInv
<1>2. Head(Held)[1] = "out" => Head(Held)[2] <= Len(seen.via)
  <2>1. 1 \in DOMAIN Held /\ Head(Held) = Held[1]
    BY <1>1
  <2>2. QED
    BY <2>1, Zenon DEF OrderInv, Produced
<1>3. \A i \in DOMAIN client'.got : client'.got[i] <= Len(seen.via)
  <2>1. CASE client'.got = client.got
    BY <2>1, Zenon DEF OrderInv
  <2>2. CASE Head(Held)[1] = "out" /\ client'.got = Append(client.got, Head(Held)[2])
    <3>. DEFINE v == Head(Held)[2]
                got == client.got
    <3>1. v \in Nat /\ got \in Seq(Nat)
      BY <1>1, <2>2, ChunkFacts, LineType
    <3>2. v <= Len(seen.via) /\ client'.got = Append(got, v) /\ \A i \in DOMAIN got : got[i] <= Len(seen.via)
      BY <1>2, <2>2, Zenon DEF OrderInv
    <3>. HIDE DEF v, got
    <3>3. \A i \in DOMAIN Append(got, v) :
            Append(got, v)[i] = v \/ (i \in DOMAIN got /\ Append(got, v)[i] = got[i])
      BY <3>1
    <3>4. QED
      BY <3>2, <3>3, Zenon
  <2>3. QED
    BY <2>1, <2>2
<1>4. ASSUME NEW c \in Conns PROVE Chained(client.got, Line(c), seen.via, c)' 
  <2>1. Line(c) \in Seq(ToGateway) /\ toGateway[c] \in Seq(ToGateway)
    BY LineType, Zenon
  <2>2. Line(c)' = Tail(Line(c)) /\ Head(Line(c)) = Head(Held) /\ Line(c) # <<>>
    BY <1>1, <2>1, LineTake, Zenon DEF Line
  <2>3. Chained(client.got, Line(c), seen.via, c)
    BY Zenon DEF OrderInv
  <2>4. CASE client'.got = client.got
    BY <2>1, <2>2, <2>3, <2>4, ChainTail, Zenon
  <2>5. CASE Head(Held)[1] = "out" /\ client'.got = Append(client.got, Head(Held)[2])
    <3>1. client.got \in Seq(Nat)
      BY LineType
    <3>2. QED
      BY <2>1, <2>2, <2>3, <2>5, <3>1, ChainTake, Zenon
  <2>6. QED
    BY <2>4, <2>5
<1>5. QED
  BY <1>1, <1>3, <1>4, Zenon DEF OrderInv

\* The read loop of a connection takes its next chunk, which joins those the
\* session holds or is dropped (handleStreamChunk, BackpressureTimeout).
LEMMA OrderRead ==
  ASSUME TypeOK, OrderInv, NEW c \in Conns, toGateway[c] # <<>>, NextOn(c),
         Held' = Held \/ Held' = Append(Held, Head(toGateway[c])),
         client'.got = client.got, seen'.via = seen.via
  PROVE  OrderInv'
<1>. DEFINE m == Head(toGateway[c])
<1>1. /\ Held \in Seq(ToGateway) /\ toGateway[c] \in Seq(ToGateway) /\ m \in ToGateway
      /\ toGateway'[c] = Tail(toGateway[c])
      /\ \A d \in Conns \ {c} : toGateway'[d] = toGateway[d]
  BY LineType, NextOnType, Zenon
<1>2. /\ Carries(Tail(toGateway[c]), seen.via, c)
      /\ m[1] = "out" => m[2] <= Len(seen.via) /\ seen.via[m[2]] = c
  <2>1. Carries(toGateway[c], seen.via, c)
    BY Zenon DEF OrderInv
  <2>2. QED
    BY <1>1, <2>1, LineLeave, Zenon
<1>. HIDE DEF m
<1>3. Produced(Held', seen.via)
  <2>1. Produced(Held, seen.via)
    BY Zenon DEF OrderInv
  <2>2. Produced(Append(Held, m), seen.via)
    BY <1>1, <1>2, <2>1, ProducedJoin, Zenon
  <2>3. QED
    BY <2>1, <2>2 DEF m
<1>4. \A d \in Conns : Carries(toGateway'[d], seen.via, d)
  BY <1>1, <1>2, Zenon DEF OrderInv
<1>5. ASSUME NEW d \in Conns PROVE Chained(client.got, Line(d), seen.via, d)'
  <2>1. Chained(client.got, Held \o toGateway[d], seen.via, d) /\ toGateway[d] \in Seq(ToGateway)
    BY LineType, Zenon DEF OrderInv, Line
  <2>2. CASE d = c /\ Held' = Held
    BY <1>1, <2>1, <2>2, ChainDrop, Zenon DEF Line
  <2>3. CASE d = c /\ Held' = Append(Held, m)
    <3>1. Append(Held, m) \o Tail(toGateway[c]) = Held \o toGateway[c]
      BY <1>1, LineMove, Zenon DEF m
    <3>2. QED
      BY <1>1, <2>1, <2>3, <3>1, Zenon DEF Line
  <2>4. CASE d # c /\ Held' = Held
    BY <1>1, <2>1, <2>4, Zenon DEF Line
  <2>5. CASE d # c /\ Held' = Append(Held, m)
    <3>1. ~OfConn(d, seen.via, m)
      BY <1>2, <2>5, Zenon DEF OfConn
    <3>2. Chained(client.got, Append(Held, m) \o toGateway[d], seen.via, d)
      BY <1>1, <2>1, <3>1, ChainJoin, Zenon
    <3>3. QED
      BY <1>1, <2>5, <3>2, Zenon DEF Line
  <2>6. QED
    BY <2>2, <2>3, <2>4, <2>5, Zenon DEF m
<1>6. QED
  BY <1>3, <1>4, <1>5, Zenon DEF OrderInv

\* A chunk the agent sends joins the line of its connection, or is lost
\* (sendStreamChunk).
LEMMA LineSends ==
  ASSUME TypeOK, NEW m \in ToGateway, AgentSends(m), Held' = Held, NEW c \in Conns
  PROVE  \/ toGateway'[c] = toGateway[c] /\ Line(c)' = Line(c)
         \/ /\ c = link.conn
            /\ toGateway'[c] = Append(toGateway[c], m) /\ Line(c)' = Append(Line(c), m)
<1>1. CASE toGateway'[c] = toGateway[c]
  BY <1>1, Zenon DEF Line
<1>2. CASE c = link.conn /\ toGateway'[c] = Append(toGateway[c], m)
  <2>. DEFINE t == toGateway[c]
  <2>1. Held \in Seq(ToGateway) /\ t \in Seq(ToGateway)
    BY LineType, Zenon
  <2>2. Line(c)' = Held \o Append(t, m) /\ Line(c) = Held \o t
    BY <1>2, Zenon DEF Line
  <2>. HIDE DEF t
  <2>3. Held \o Append(t, m) = Append(Held \o t, m)
    BY <2>1
  <2>4. QED
    BY <1>2, <2>2, <2>3, Zenon
<1>3. QED
  BY <1>1, <1>2, LinkFields, Zenon DEF AgentSends, TypeOK

\* An ack or a close is sent (StartSession, EndSession).
LEMMA OrderTells ==
  ASSUME TypeOK, OrderInv, NEW m \in ToGateway, m[1] # "out", AgentSends(m), Held' = Held,
         client'.got = client.got, seen'.via = seen.via
  PROVE  OrderInv'
<1>1. \A c \in Conns : Carries(toGateway'[c], seen.via, c)
  <2>. SUFFICES ASSUME NEW c \in Conns PROVE Carries(toGateway'[c], seen.via, c)
    BY Zenon
  <2>1. Carries(toGateway[c], seen.via, c) /\ toGateway[c] \in Seq(ToGateway)
    BY LineType, Zenon DEF OrderInv
  <2>2. Carries(Append(toGateway[c], m), seen.via, c)
    BY <2>1, CarriesJoin, Zenon
  <2>3. QED
    BY <2>1, <2>2, LineSends, Zenon
<1>2. ASSUME NEW c \in Conns PROVE Chained(client.got, Line(c), seen.via, c)'
  <2>1. Chained(client.got, Line(c), seen.via, c) /\ Line(c) \in Seq(ToGateway)
    BY LineType, Zenon DEF OrderInv
  <2>2. Chained(client.got, Append(Line(c), m), seen.via, c)
    BY <2>1, ChainTell, Zenon DEF OfConn
  <2>3. QED
    BY <2>1, <2>2, LineSends, Zenon
<1>3. QED
  BY <1>1, <1>2, Zenon DEF OrderInv

\* The next output is recorded with its connection, and sent or lost (Produce).
LEMMA OrderProduces ==
  ASSUME TypeOK, LinkFits, OrderInv, process.out + 1 \in 1..OutChunks,
         toGateway' = toGateway \/ AgentSends(<<"out", process.out + 1>>), Held' = Held,
         client'.got = client.got, seen'.via = Append(seen.via, link.conn)
  PROVE  OrderInv'
<1>. DEFINE m == <<"out", process.out + 1>>
            via == Append(seen.via, link.conn)
<1>1. /\ seen.via \in Seq(Conns) /\ link.conn \in Conns /\ m \in ToGateway
      /\ Len(seen.via) = process.out
      /\ Held \in Seq(ToGateway) /\ client.got \in Seq(Outputs)
  BY ProcessFields, LinkFields, LineType, Signals, Zenon DEF LinkFits
<1>2. Len(via) = process.out + 1 /\ via[process.out + 1] = link.conn /\ process.out \in Nat
  BY <1>1
<1>3. m[1] = "out" /\ m[2] = process.out + 1
  OBVIOUS
<1>4. m[2] <= Len(via)
  BY <1>2
<1>5. m = <<"out", Len(seen.via) + 1>>
  BY <1>1
<1>6. \A i \in DOMAIN client.got : client.got[i] <= Len(via)
  <2>1. \A i \in DOMAIN client.got : client.got[i] \in Nat /\ client.got[i] <= process.out
    <3>1. \A i \in DOMAIN client.got : client.got[i] \in Nat
      <4>. DEFINE got == client.got
      <4>1. got \in Seq(Nat)
        BY LineType, Zenon
      <4>. HIDE DEF got
      <4>2. \A i \in DOMAIN got : got[i] \in Nat
        BY <4>1
      <4>3. QED
        BY <4>2 DEF got
    <3>2. QED
      BY <1>1, <3>1, Zenon DEF OrderInv
  <2>2. \A n \in Nat : n <= process.out => n <= Len(via)
    BY <1>2
  <2>3. QED
    BY <2>1, <2>2, Zenon
<1>7. \A c \in Conns : toGateway'[c] = toGateway[c] \/ (c = link.conn /\ toGateway'[c] = Append(toGateway[c], m))
  BY <1>1, LineSends, Zenon
<1>8. \A c \in Conns : Line(c)' = Line(c) \/ (c = link.conn /\ Line(c)' = Append(Line(c), m))
  <2>1. CASE toGateway' = toGateway
    BY <2>1, Zenon DEF Line
  <2>2. CASE AgentSends(m)
    BY <1>1, <2>2, LineSends, Zenon
  <2>3. QED
    BY <2>1, <2>2
<1>. HIDE DEF m
<1>9. Produced(Held, via)
  BY <1>1, ProducedVia, Zenon DEF OrderInv
<1>10. ASSUME NEW c \in Conns PROVE Carries(toGateway'[c], via, c)
  <2>1. toGateway[c] \in Seq(ToGateway)
    BY LineType, Zenon
  <2>2. Carries(toGateway[c], via, c)
    BY <1>1, <2>1, ProducedVia, Zenon DEF OrderInv
  <2>3. c = link.conn => Carries(Append(toGateway[c], m), via, c)
    BY <1>1, <1>2, <1>3, <1>4, <2>1, <2>2, CarriesJoin, Zenon
  <2>4. QED
    BY <1>7, <2>2, <2>3, Zenon
<1>11. ASSUME NEW c \in Conns PROVE Chained(client.got, Line(c)', via, c)
  <2>1. /\ Line(c) \in Seq(ToGateway) /\ toGateway[c] \in Seq(ToGateway)
        /\ Chained(client.got, Line(c), seen.via, c)
        /\ \A i \in DOMAIN client.got : client.got[i] <= Len(seen.via)
    BY LineType, Zenon DEF OrderInv
  <2>2. Produced(Line(c), seen.via)
    BY <1>1, <2>1, ProducedLine, Zenon DEF OrderInv, Line
  <2>3. Chained(client.got, Line(c), via, c)
    BY <1>1, <2>1, <2>2, ChainVia, Zenon
  <2>4. Chained(client.got, Append(Line(c), m), via, c)
    BY <1>1, <1>5, <2>1, <2>2, ChainProduce, Zenon
  <2>5. QED
    BY <1>8, <2>3, <2>4, Zenon
<1>12. QED
  BY <1>6, <1>9, <1>10, <1>11, Zenon DEF OrderInv

\* The connection ends with part of what is in flight (Cut).
LEMMA OrderCut ==
  ASSUME TypeOK, OrderInv, Cut, seen'.via = seen.via
  PROVE  OrderInv'
<1>. DEFINE c == link.conn
<1>1. c \in Conns /\ toGateway[c] \in Seq(ToGateway) /\ Held \in Seq(ToGateway)
  BY LinkFields, LineType, Zenon
<1>2. PICK k \in 0..Len(toGateway[c]) : toGateway'[c] = SubSeq(toGateway[c], 1, k)
  BY CutType, Zenon
<1>3. \A d \in Conns \ {c} : toGateway'[d] = toGateway[d]
  BY CutType, Zenon
<1>4. Held' = Held /\ client' = client
  BY Zenon DEF Cut, gateway, Held
<1>. HIDE DEF c
<1>5. Carries(toGateway'[c], seen.via, c)
  BY <1>1, <1>2, CarriesCut, Zenon DEF OrderInv
<1>6. Chained(client.got, Held \o toGateway'[c], seen.via, c)
  <2>1. Chained(client.got, Held \o toGateway[c], seen.via, c)
    BY <1>1, Zenon DEF OrderInv, Line
  <2>2. QED
    BY <1>1, <1>2, <2>1, ChainCut, Zenon
<1>7. \A d \in Conns : Carries(toGateway'[d], seen.via, d)
  BY <1>3, <1>5, Zenon DEF OrderInv
<1>8. \A d \in Conns : Chained(client.got, Held \o toGateway'[d], seen.via, d)
  BY <1>3, <1>6, Zenon DEF OrderInv, Line
<1>9. QED
  BY <1>4, <1>7, <1>8, Zenon DEF OrderInv, Line

\* Before the client has anything everything is in order.
LEMMA OrderInit == Init => OrderInv
<1>. SUFFICES ASSUME Init PROVE OrderInv
  OBVIOUS
<1>1. /\ client.got = <<>> /\ fromAgent = <<>> /\ writing = <<>>
      /\ \A c \in Conns : toGateway[c] = <<>>
  BY DEF Init
<1>2. Held = <<>>
  BY <1>1 DEF Held
<1>3. \A c \in Conns : Line(c) = <<>>
  <2>1. <<>> \o <<>> = <<>>
    OBVIOUS
  <2>2. QED
    BY <1>1, <1>2, <2>1, Zenon DEF Line
<1>4. DOMAIN <<>> = {}
  OBVIOUS
<1>5. QED
  BY <1>1, <1>2, <1>3, <1>4, Zenon DEF OrderInv, Produced, Carries, Chained

\* Every action keeps OrderInv.
LEMMA OrderStep == TypeOK /\ LinkFits /\ OrderInv /\ [Next]_vars => OrderInv'
<1>. SUFFICES ASSUME TypeOK, LinkFits, OrderInv, [Next]_vars PROVE OrderInv'
  OBVIOUS
<1>1. CASE SendInit \/ StartTimeout \/ SeesDone
  <2>1. client'.got = client.got
    BY <1>1, EndsType, Zenon DEF SendInit, StartTimeout, SeesDone
  <2>2. Held' = Held /\ UNCHANGED <<toGateway, seen>>
    BY <1>1, Zenon DEF SendInit, StartTimeout, SeesDone, Held, wires
  <2>3. QED
    BY <2>1, <2>2, OrderSame, Zenon
<1>2. CASE TakeChunk
  <2>1. /\ writing = <<>> /\ fromAgent # <<>> /\ fromAgent' = Tail(fromAgent)
        /\ UNCHANGED <<toGateway, seen>>
    BY <1>2, Zenon DEF TakeChunk, wires
  <2>2. CASE HandlerEnds("abrupt") /\ UNCHANGED writing
    BY <2>1, <2>2, EndsType, HeldTakes, OrderTaken, Zenon
  <2>3. CASE writing' = <<Head(fromAgent)>> /\ UNCHANGED <<handler, client>>
    BY <2>1, <2>3, HeldTakes, OrderSame, Zenon
  <2>4. QED
    BY <1>2, <2>2, <2>3, Zenon DEF TakeChunk
<1>3. CASE WriteChunk
  <2>. DEFINE m == Head(writing)
  <2>1. /\ writing # <<>> /\ writing' = <<>> /\ fromAgent' = fromAgent
        /\ UNCHANGED <<toGateway, seen>>
    BY <1>3, Zenon DEF WriteChunk, wires
  <2>2. m \in ToGateway /\ m = Head(Held) /\ Held # <<>> /\ Held' = Tail(Held)
    BY <2>1, WritingFacts, HeldWrites, Zenon
  <2>3. client'.got = client.got \/ (m[1] = "out" /\ client'.got = Append(client.got, m[2]))
    <3>1. CASE \E how \in {"normal", "abrupt"} : HandlerEnds(how)
      BY <3>1, EndsType, Zenon
    <3>2. CASE Deliver(m)
      BY <2>2, <3>2, DeliverType, Zenon
    <3>3. QED
      BY <1>3, <3>1, <3>2, Zenon DEF WriteChunk
  <2>4. QED
    BY <2>1, <2>2, <2>3, OrderTaken, Zenon
<1>4. ASSUME NEW c \in Conns, ReadLoop(c) PROVE OrderInv'
  <2>1. toGateway[c] # <<>> /\ NextOn(c) /\ client' = client /\ writing' = writing
    BY <1>4, Zenon DEF ReadLoop, handleStreamChunk, BackpressureTimeout
  <2>2. seen'.via = seen.via
    BY <1>4, Zenon DEF ReadLoop, handleStreamChunk, BackpressureTimeout, TypeOK, Histories
  <2>3. fromAgent' = fromAgent \/ fromAgent' = Append(fromAgent, Head(toGateway[c]))
    BY <1>4, Zenon DEF ReadLoop, handleStreamChunk, BackpressureTimeout
  <2>4. Held' = Held \/ Held' = Append(Held, Head(toGateway[c]))
    <3>1. fromAgent' = fromAgent => Held' = Held
      BY <2>1, Zenon DEF Held
    <3>2. QED
      BY <2>1, <2>3, <3>1, NextOnType, HeldJoins, Zenon
  <2>5. QED
    BY <2>1, <2>2, <2>4, OrderRead, Zenon
<1>5. CASE ReaderEnds \/ RelayInput \/ ClientLeaves
  <2>1. client'.got = client.got
    BY <1>5, Zenon DEF ReaderEnds, RelayInput, ClientLeaves, TypeOK, Streams
  <2>2. Held' = Held /\ UNCHANGED <<toGateway, seen>>
    BY <1>5, Zenon DEF ReaderEnds, RelayInput, ClientLeaves, Held, gateway, wires
  <2>3. QED
    BY <2>1, <2>2, OrderSame, Zenon
<1>6. CASE AgentReads
  <2>1. Held' = Held /\ UNCHANGED <<toGateway, client>>
    BY <1>6, Zenon DEF AgentReads, gateway, Held
  <2>2. Head(toAgent)[1] \in {Init1, "in", Eof, Close}
    <3>1. Head(toAgent) \in ToAgent
      BY <1>6 DEF AgentReads, TypeOK
    <3>2. QED
      BY <3>1 DEF ToAgent
  <2>3. seen' = seen \/ seen' = [seen EXCEPT !.overflow = TRUE]
    BY <1>6, <2>2, ReadsCases, Zenon DEF PipeWrite
  <2>4. seen'.via = seen.via
    BY <2>3, Zenon DEF TypeOK, Histories
  <2>5. QED
    BY <2>1, <2>4, OrderSame, Zenon
<1>7. <<Ack, 0>>[1] # "out" /\ <<Close, 0>>[1] # "out"
  BY DEF Ack, Close
<1>8. CASE StartSession
  <2>1. UNCHANGED <<client, seen>> /\ Held' = Held
    BY <1>8, Zenon DEF StartSession, gateway, Held
  <2>2. AgentSends(<<Ack, 0>>) \/ AgentSends(<<Close, 0>>)
    BY <1>8, Zenon DEF StartSession
  <2>3. QED
    BY <1>7, <2>1, <2>2, Signals, OrderTells, Zenon
<1>9. ASSUME NEW tell \in BOOLEAN, EndSession(tell), UNCHANGED <<client, seen>>, Held' = Held
      PROVE  OrderInv'
  <2>1. CASE tell
    BY <1>7, <1>9, <2>1, Signals, OrderTells, Zenon DEF EndSession
  <2>2. CASE ~tell
    BY <1>9, <2>2, OrderSame, Zenon DEF EndSession
  <2>3. QED
    BY <2>1, <2>2
<1>10. CASE Cancelled \/ Exit
  <2>1. EndSession(TRUE) /\ UNCHANGED <<client, seen>> /\ Held' = Held
    BY <1>10, Zenon DEF Cancelled, Exit, gateway, Held
  <2>2. QED
    BY <1>9, <2>1, Zenon
<1>11. CASE ReadBuffer \/ Receive
  <2>1. Held' = Held /\ UNCHANGED <<toGateway, client, seen>>
    BY <1>11, Zenon DEF ReadBuffer, Receive, gateway, wires, Held
  <2>2. QED
    BY <2>1, OrderSame, Zenon
<1>12. CASE Produce
  <2>1. Held' = Held /\ client' = client
    BY <1>12, Zenon DEF Produce, gateway, Held
  <2>2. CASE /\ IF process.mute THEN UNCHANGED toGateway ELSE AgentSends(<<"out", process.out + 1>>)
             /\ seen' = [seen EXCEPT !.via = Append(@, link.conn)]
    <3>1. process.out + 1 \in 1..OutChunks
      BY <1>12, NextOutput, Zenon DEF Produce
    <3>2. seen'.via = Append(seen.via, link.conn)
      BY <2>2, Zenon DEF TypeOK, Histories
    <3>3. QED
      BY <2>1, <2>2, <3>1, <3>2, OrderProduces, Zenon
  <2>3. CASE UNCHANGED <<toGateway, seen>>
    BY <2>1, <2>3, OrderSame, Zenon
  <2>4. CASE EndSession(FALSE) /\ UNCHANGED seen
    BY <1>9, <2>1, <2>4, Zenon
  <2>5. QED
    BY <1>12, <2>2, <2>3, <2>4, Zenon DEF Produce
<1>13. CASE LinkBreaks \/ CloseConnection
  <2>1. seen'.via = seen.via
    BY <1>13, Zenon DEF LinkBreaks, CloseConnection, TypeOK, Histories
  <2>2. QED
    BY <1>13, <2>1, OrderCut, Zenon DEF LinkBreaks, CloseConnection
<1>14. CASE GoAway \/ Reconnect
  <2>1. Held' = Held /\ UNCHANGED <<toGateway, client>>
    BY <1>14, Zenon DEF GoAway, Reconnect, gateway, Held
  <2>2. seen'.via = seen.via
    BY <1>14, Zenon DEF GoAway, Reconnect, TypeOK, Histories
  <2>3. QED
    BY <2>1, <2>2, OrderSame, Zenon
<1>15. CASE UNCHANGED vars
  BY <1>15, OrderSame, Zenon DEF vars, Held
<1>16. QED
  BY <1>1, <1>2, <1>3, <1>4, <1>5, <1>6, <1>8, <1>10, <1>11, <1>12, <1>13, <1>14, <1>15, Zenon
     DEF Next, Gateway, Agent, Wire

-----------------------------------------------------------------------------
(* Output, while the connection holds and no chunk is dropped. *)

\* The agent is on its first connection, and no other carries anything.
LEMMA Up ==
  ASSUME TypeOK, LinkFits, Unbroken
  PROVE  /\ link.conn = 1 /\ link.state = "up" /\ link.here /\ ~process.mute
         /\ \A c \in Conns : c # 1 => toGateway[c] = <<>>
<1>1. seen.breaks = 0
  BY DEF Unbroken
<1>2. link.conn \in Nat \ {0}
  BY LinkFields, ConnFacts, Zenon
<1>3. link.conn = IF link.state = "up" THEN seen.breaks + 1 ELSE seen.breaks
  BY DEF LinkFits
<1>4. link.state = "up" /\ link.conn = 1
  BY <1>1, <1>2, <1>3
<1>5. \A c \in Conns : c # 1 => c > link.conn
  BY <1>4, ConnFacts
<1>6. ~(seen.breaks > 0)
  BY <1>1
<1>7. QED
  BY <1>4, <1>5, <1>6, Zenon DEF LinkFits

\* While the connection holds, what the agent sends joins the line.
LEMMA UpSends ==
  ASSUME TypeOK, LinkFits, Unbroken, NEW m \in ToGateway, AgentSends(m), Held' = Held
  PROVE  Line(1)' = Append(Line(1), m)
<1>1. link.conn = 1 /\ link.state = "up" /\ link.here /\ 1 \in Conns
  BY Up, ConnFacts, Zenon
<1>2. toGateway'[1] = Append(toGateway[1], m)
  BY <1>1, Zenon DEF AgentSends, TypeOK
<1>. DEFINE t == toGateway[1]
<1>3. t \in Seq(ToGateway) /\ Held \in Seq(ToGateway)
  BY <1>1, LineType, Zenon
<1>4. Line(1)' = Held \o Append(t, m) /\ Line(1) = Held \o t
  BY <1>2, Zenon DEF Line
<1>. HIDE DEF t
<1>5. Held \o Append(t, m) = Append(Held \o t, m)
  BY <1>3
<1>6. QED
  BY <1>4, <1>5, Zenon

\* A step that leaves the line, the output and the client's position alone.
LEMMA WholeSame ==
  ASSUME WholeInv, Line(1)' = Line(1), client'.got = client.got, process'.out = process.out,
         Unbroken' => Unbroken,
         Unbroken => (done' => done \/ ~client'.open),
         client'.open => /\ client.open /\ Pos' = Pos
                         /\ \/ session' = session \/ session' = "starting"
                            \/ session = "active" /\ session' = "closed",
         client'.end = "normal" =>
           client.end = "normal" /\ (session = "ended" => session' = "ended")
  PROVE  WholeInv'
<1>. SUFFICES ASSUME Unbroken'
              PROVE  /\ done' => ~client'.open
                     /\ WithoutHoles(client'.got)
                     /\ client'.open => OnTheWay(Line(1)', Pos', process'.out, session')
                     /\ client'.end = "normal" => session' = "ended" /\ Len(client'.got) = process'.out
  BY Zenon DEF WholeInv
<1>1. /\ done => ~client.open
      /\ WithoutHoles(client.got)
      /\ client.open => OnTheWay(Line(1), Pos, process.out, session)
      /\ client.end = "normal" => session = "ended" /\ Len(client.got) = process.out
  BY Zenon DEF WholeInv
<1>2. client'.open => OnTheWay(Line(1)', Pos', process'.out, session')
  <2>1. OnTheWay(Line(1), Pos, process.out, "starting")
    BY DEF OnTheWay
  <2>2. session = "active" /\ OnTheWay(Line(1), Pos, process.out, session)
          => OnTheWay(Line(1), Pos, process.out, "closed")
    BY DEF OnTheWay
  <2>3. QED
    BY <1>1, <2>1, <2>2, Zenon
<1>3. QED
  BY <1>1, <1>2, Zenon

\* A step after which the line has no gap while the client is there.
LEMMA WholeHeld ==
  ASSUME WholeInv, UNCHANGED done, Unbroken' => Unbroken,
         Unbroken => /\ WithoutHoles(client'.got)
                     /\ client'.open => client.open /\ OnTheWay(Line(1)', Pos', process'.out, session')
                     /\ client'.end = "normal" => session' = "ended" /\ Len(client'.got) = process'.out
  PROVE  WholeInv'
BY Zenon DEF WholeInv

\* Before the client has anything nothing is missing.
LEMMA WholeInit == Init => WholeInv
<1>. SUFFICES ASSUME Init PROVE WholeInv
  OBVIOUS
<1>1. /\ client.got = <<>> /\ client.end = "none" /\ done = FALSE /\ session = "none"
  BY DEF Init
<1>2. WithoutHoles(client.got)
  <2>1. \A i : i \notin DOMAIN <<>>
    OBVIOUS
  <2>2. QED
    BY <1>1, <2>1, Zenon DEF WithoutHoles
<1>3. OnTheWay(Line(1), Pos, process.out, session)
  BY <1>1 DEF OnTheWay
<1>4. QED
  BY <1>1, <1>2, <1>3 DEF WholeInv

\* The write of a chunk returns: it is the next one, and after it the line has
\* no gap (WriteChunk, and TakeChunk of a close that comes first).
LEMMA WholeTaken ==
  ASSUME TypeOK, StartsOnce, WholeInv,
         handler \in {"waiting", "streaming"}, Held # <<>>, Held' = Tail(Held),
         UNCHANGED <<done, wires, agent, seen>>, NEW m \in ToGateway, m = Head(Held),
         \/ handler' = "streaming" /\ Deliver(m) /\ m[1] # Close
         \/ HandlerEnds("abrupt")
         \/ handler = "streaming" /\ m[1] = Close /\ HandlerEnds("normal")
  PROVE  WholeInv'
<1>1. /\ Line(1) # <<>> /\ Line(1)' = Tail(Line(1)) /\ m = Head(Line(1))
      /\ process' = process /\ session' = session
  <2>1. Held \in Seq(ToGateway) /\ toGateway[1] \in Seq(ToGateway)
    BY LineType, ConnFacts, Zenon
  <2>2. toGateway' = toGateway /\ process' = process /\ session' = session
    BY Zenon DEF wires, agent
  <2>3. QED
    BY <2>1, <2>2, LineTake, Zenon DEF Line
<1>2. session \in {"active", "closed", "ended"}
  <2>1. writing # <<>> \/ fromAgent # <<>>
    <3>1. <<>> \o <<>> = <<>>
      OBVIOUS
    <3>2. QED
      BY <3>1, Zenon DEF Held
  <2>2. QED
    BY <2>1, Zenon DEF TypeOK, StartsOnce
<1>3. Unbroken /\ client.open => OnTheWay(Line(1), Pos, process.out, session)
  BY Zenon DEF WholeInv
<1>4. Unbroken' = Unbroken
  BY DEF Unbroken
<1>5. Line(1) \in Seq(ToGateway)
  BY LineType, ConnFacts, Zenon
<1>6. client.end = "none"
  BY Fields DEF StartsOnce
<1>7. CASE handler' = "streaming" /\ Deliver(m) /\ m[1] # Close
  <2>1. /\ client'.open = client.open /\ client'.end = client.end
        /\ client'.got = IF m[1] = "out" /\ client.open THEN Append(client.got, m[2])
                         ELSE client.got
    BY <1>7, DeliverType, Zenon
  <2>2. ASSUME Unbroken, client.open
        PROVE  WithoutHoles(client'.got) /\ OnTheWay(Line(1)', Pos', process'.out, session')
    <3>1. m = Msg(Pos) /\ OnTheWay(Line(1)', Pos + 1, process'.out, session')
      <4>1. Pos \in Nat /\ process.out \in Nat
        BY LineType, Zenon
      <4>2. QED
        BY <1>1, <1>2, <1>3, <1>5, <1>7, <2>2, <4>1, WayTake, Zenon
    <3>2. WithoutHoles(client.got)
      BY <2>2, Zenon DEF WholeInv
    <3>3. CASE handler = "waiting"
      <4>1. Pos = 0 /\ client.got = <<>>
        BY <3>3 DEF Pos, StartsOnce
      <4>2. m[1] # "out"
        BY <3>1, <4>1 DEF Msg, Ack
      <4>3. client'.got = <<>>
        BY <2>1, <4>1, <4>2
      <4>4. Pos' = Pos + 1
        BY <1>7, <4>1, <4>3 DEF Pos
      <4>5. QED
        BY <3>1, <4>3, <4>4 DEF WithoutHoles
    <3>4. CASE handler = "streaming"
      <4>. DEFINE n == Len(client.got)
      <4>1. Pos = n + 1 /\ n \in Nat
        BY <3>4, LineType DEF Pos
      <4>2. m[1] = "out" /\ m[2] = n + 1
        BY <3>1, <4>1 DEF Msg
      <4>3. client'.got = Append(client.got, n + 1)
        BY <2>1, <2>2, <4>2
      <4>4. Pos' = Pos + 1
        BY <1>7, <4>1, <4>3, LineType DEF Pos
      <4>5. WithoutHoles(client'.got)
        <5>1. /\ DOMAIN client'.got = 1..(n + 1) /\ client'.got[n + 1] = n + 1
              /\ DOMAIN client.got = 1..n
              /\ \A i \in 1..n : client'.got[i] = client.got[i]
          BY <4>1, <4>3, LineType
        <5>2. \A i \in 1..n : client.got[i] = i
          BY <3>2, <5>1, Zenon DEF WithoutHoles
        <5>3. \A i \in 1..(n + 1) : i \in 1..n \/ i = n + 1
          BY <4>1, SMT
        <5>4. \A i \in 1..(n + 1) : client'.got[i] = i
          BY <5>1, <5>2, <5>3, Zenon
        <5>5. QED
          BY <5>1, <5>4, Zenon DEF WithoutHoles
      <4>6. QED
        BY <3>1, <4>4, <4>5
    <3>5. QED
      BY <3>3, <3>4
  <2>3. Unbroken => WithoutHoles(client'.got)
    <3>1. CASE client.open
      BY <2>2, <3>1
    <3>2. CASE ~client.open
      BY <2>1, <3>2 DEF WholeInv
    <3>3. QED
      BY <3>1, <3>2
  <2>4. QED
    BY <1>4, <1>6, <2>1, <2>2, <2>3, WholeHeld, Zenon
<1>8. CASE HandlerEnds("abrupt")
  <2>1. /\ client'.open = FALSE /\ client'.got = client.got /\ client'.end # "normal"
    BY <1>6, <1>8, EndsType, Zenon
  <2>2. Unbroken => WithoutHoles(client'.got)
    BY <2>1, Zenon DEF WholeInv
  <2>3. QED
    BY <1>4, <2>1, <2>2, WholeHeld, Zenon
<1>9. CASE handler = "streaming" /\ m[1] = Close /\ HandlerEnds("normal")
  <2>1. /\ client'.open = FALSE /\ client'.got = client.got
        /\ client'.end = "normal" => client.open
    BY <1>6, <1>9, EndsType, Zenon
  <2>2. ASSUME Unbroken, client.open
        PROVE  session' = "ended" /\ Len(client'.got) = process'.out
    <3>1. session = "ended" /\ (Pos = process.out + 1 \/ Pos = 0)
      <4>1. Pos \in Nat /\ process.out \in Nat
        BY LineType, Zenon
      <4>2. QED
        BY <1>1, <1>2, <1>3, <1>5, <1>9, <2>2, <4>1, WayClose, Zenon
    <3>2. Pos = Len(client.got) + 1
      BY <1>9 DEF Pos
    <3>3. Len(client.got) = process.out
      <4>. DEFINE n == Len(client.got)
      <4>1. n \in Nat /\ process.out \in Nat /\ (n + 1 = process.out + 1 \/ n + 1 = 0)
        BY <3>1, <3>2, LineType, Zenon
      <4>. HIDE DEF n
      <4>2. n = process.out
        BY <4>1
      <4>3. QED
        BY <4>2 DEF n
    <3>4. QED
      BY <1>1, <2>1, <3>1, <3>3
  <2>3. Unbroken => WithoutHoles(client'.got)
    BY <2>1, Zenon DEF WholeInv
  <2>4. QED
    BY <1>4, <2>1, <2>2, <2>3, WholeHeld, Zenon
<1>10. QED
  BY <1>7, <1>8, <1>9

\* The agent ends its session: the close chunk is the last of the line
\* (EndSession).
LEMMA WholeEnds ==
  ASSUME TypeOK, LinkFits, WholeInv, NEW tell \in BOOLEAN, session \in {"active", "closed"},
         EndSession(tell), Unbroken => tell,
         UNCHANGED <<gateway, client, process, seen>>
  PROVE  WholeInv'
<1>1. Held' = Held /\ done' = done /\ Pos' = Pos /\ session' = "ended"
  BY Zenon DEF gateway, Held, Pos, EndSession
<1>2. Unbroken' = Unbroken
  BY DEF Unbroken
<1>3. Unbroken /\ client.open => OnTheWay(Line(1)', Pos', process'.out, session')
  <2>. SUFFICES ASSUME Unbroken, client.open
                PROVE  OnTheWay(Line(1)', Pos', process'.out, session')
    OBVIOUS
  <2>1. OnTheWay(Line(1), Pos, process.out, session)
    BY Zenon DEF WholeInv
  <2>2. Line(1)' = Append(Line(1), <<Close, 0>>)
    BY <1>1, Signals, UpSends, Zenon DEF EndSession
  <2>3. Line(1) \in Seq(ToGateway) /\ Pos \in Nat /\ process.out \in Nat
    BY LineType, ConnFacts, Zenon
  <2>4. OnTheWay(Append(Line(1), <<Close, 0>>), Pos, process.out, "ended")
    BY <2>1, <2>3, WayEnds, Zenon
  <2>5. QED
    BY <1>1, <2>2, <2>4, Zenon
<1>4. Unbroken => WithoutHoles(client'.got) /\ client'.end # "normal"
  BY DEF WholeInv
<1>5. QED
  BY <1>1, <1>2, <1>3, <1>4, WholeHeld, Zenon

\* The next output joins the line (Produce).
LEMMA WholeProduces ==
  ASSUME TypeOK, LinkFits, WholeInv, session = "active", session' = session,
         process.out < OutChunks, process' = [process EXCEPT !.out = @ + 1],
         process.mute \/ AgentSends(<<"out", process.out + 1>>),
         seen' = [seen EXCEPT !.via = Append(@, link.conn)],
         UNCHANGED <<gateway, client>>
  PROVE  WholeInv'
<1>. DEFINE out == process.out
<1>1. Held' = Held /\ done' = done /\ Pos' = Pos
  BY Zenon DEF gateway, Held, Pos
<1>2. process'.out = out + 1 /\ out + 1 \in 1..OutChunks
  BY NextOutput, Zenon DEF TypeOK, Processes
<1>3. Unbroken' = Unbroken
  BY Zenon DEF Unbroken, TypeOK, Histories
<1>4. Unbroken /\ client.open => OnTheWay(Line(1)', Pos', process'.out, session')
  <2>. SUFFICES ASSUME Unbroken, client.open
                PROVE  OnTheWay(Line(1)', Pos', process'.out, session')
    OBVIOUS
  <2>1. OnTheWay(Line(1), Pos, out, "active")
    BY Zenon DEF WholeInv
  <2>2. Line(1)' = Append(Line(1), <<"out", out + 1>>)
    BY <1>1, <1>2, Up, Signals, UpSends, Zenon
  <2>3. Line(1) \in Seq(ToGateway) /\ Pos \in Nat /\ out \in Nat
    BY LineType, ConnFacts, Zenon
  <2>4. OnTheWay(Append(Line(1), <<"out", out + 1>>), Pos, out + 1, "active")
    BY <2>1, <2>3, WayProduce, Zenon
  <2>5. QED
    BY <1>1, <1>2, <2>2, <2>4, Zenon
<1>5. Unbroken => WithoutHoles(client'.got) /\ client'.end # "normal"
  BY DEF WholeInv
<1>6. QED
  BY <1>1, <1>3, <1>4, <1>5, WholeHeld, Zenon

\* The session starts: its answer is the line (StartSession).
LEMMA WholeStarts ==
  ASSUME TypeOK, LinkFits, StartsOnce, WholeInv, StartSession
  PROVE  WholeInv'
<1>1. /\ process.out = 0 /\ fromAgent = <<>> /\ writing = <<>> /\ toGateway[1] = <<>>
      /\ handler # "streaming"
  BY ConnFacts, Zenon DEF StartSession, StartsOnce
<1>2. Line(1) = <<>> /\ Pos = 0
  <2>1. <<>> \o <<>> = <<>>
    OBVIOUS
  <2>2. QED
    BY <1>1, <2>1, Zenon DEF Line, Held, Pos
<1>3. PICK m \in {<<Ack, 0>>, <<Close, 0>>} :
        AgentSends(m) /\ session' = IF m = <<Ack, 0>> THEN "active" ELSE "ended"
  BY DEF StartSession, Ack, Close
<1>4. Held' = Held /\ Pos' = Pos /\ UNCHANGED <<client, process, done, seen>>
  BY Zenon DEF StartSession, gateway, Held, Pos
<1>5. Unbroken' = Unbroken
  BY <1>4, Zenon DEF Unbroken
<1>6. Unbroken => OnTheWay(Line(1)', Pos', process'.out, session')
  <2>. SUFFICES ASSUME Unbroken PROVE OnTheWay(Line(1)', Pos', process'.out, session')
    OBVIOUS
  <2>1. Line(1)' = Append(<<>>, m)
    BY <1>2, <1>3, <1>4, Signals, UpSends, Zenon
  <2>2. Line(1)' = <<m>>
    BY <2>1
  <2>3. CASE m = <<Ack, 0>>
    BY <1>1, <1>2, <1>3, <1>4, <2>2, <2>3, WayStarts, Zenon
  <2>4. CASE m = <<Close, 0>>
    <3>1. session' = "ended"
      BY <1>3, <2>4 DEF Ack, Close
    <3>2. QED
      BY <1>1, <1>2, <1>4, <2>2, <2>4, <3>1, WayStarts, Zenon
  <2>5. QED
    BY <2>3, <2>4
<1>7. Unbroken => WithoutHoles(client'.got) /\ client'.end # "normal"
  BY <1>4 DEF WholeInv, StartSession
<1>8. QED
  BY <1>4, <1>5, <1>6, <1>7, WholeHeld, Zenon

\* Every action keeps WholeInv.
LEMMA WholeStep ==
  TypeOK /\ LinkFits /\ StartsOnce /\ WholeInv /\ [Next]_vars => WholeInv'
<1>. SUFFICES ASSUME TypeOK, LinkFits, StartsOnce, WholeInv, [Next]_vars PROVE WholeInv'
  OBVIOUS
<1>1. ASSUME HandlerEnds("abrupt"), UNCHANGED <<done, fromAgent, writing, toGateway, agent, seen>>
      PROVE  WholeInv'
  <2>1. /\ client'.got = client.got /\ ~client'.open
        /\ client'.end = IF client.open THEN "abrupt" ELSE client.end
    BY <1>1, EndsType, Zenon
  <2>2. Line(1)' = Line(1) /\ Unbroken' = Unbroken /\ UNCHANGED <<session, process>>
    BY <1>1, Zenon DEF Line, Held, Unbroken, agent
  <2>3. QED
    BY <1>1, <2>1, <2>2, WholeSame, Zenon
<1>2. CASE SendInit
  <2>1. CASE handler' = "waiting" /\ UNCHANGED client
    <3>1. /\ Pos' = Pos /\ Line(1)' = Line(1) /\ Unbroken' = Unbroken
          /\ UNCHANGED <<done, session, process>>
      BY <1>2, <2>1 DEF SendInit, Pos, Line, Held, Unbroken, agent
    <3>2. QED
      BY <2>1, <3>1, WholeSame, Zenon
  <2>2. CASE HandlerEnds("abrupt")
    BY <1>1, <1>2, <2>2, Zenon DEF SendInit
  <2>3. QED
    BY <1>2, <2>1, <2>2, Zenon DEF SendInit
<1>3. CASE StartTimeout \/ SeesDone
  BY <1>1, <1>3, Zenon DEF StartTimeout, SeesDone, wires
<1>4. CASE TakeChunk
  <2>1. /\ writing = <<>> /\ fromAgent # <<>> /\ fromAgent' = Tail(fromAgent)
        /\ handler \in {"waiting", "streaming"} /\ UNCHANGED <<done, wires, agent, seen>>
    BY <1>4, Zenon DEF TakeChunk
  <2>2. CASE HandlerEnds("abrupt") /\ UNCHANGED writing
    <3>1. /\ Held # <<>> /\ Held' = Tail(Held) /\ Head(Held) = Head(fromAgent)
          /\ Head(fromAgent) \in ToGateway
      BY <2>1, <2>2, HeldTakes, LineType, LineLeave, Zenon
    <3>2. QED
      BY <2>1, <2>2, <3>1, WholeTaken, Zenon
  <2>3. CASE writing' = <<Head(fromAgent)>> /\ UNCHANGED <<handler, client>>
    <3>1. Held' = Held
      BY <2>1, <2>3, HeldTakes, Zenon
    <3>2. /\ Line(1)' = Line(1) /\ Pos' = Pos /\ Unbroken' = Unbroken
          /\ UNCHANGED <<done, session, process>>
      BY <2>1, <2>3, <3>1, Zenon DEF Line, Pos, Unbroken, wires, agent
    <3>3. QED
      BY <2>3, <3>2, WholeSame, Zenon
  <2>4. QED
    BY <1>4, <2>2, <2>3, Zenon DEF TakeChunk
<1>5. CASE WriteChunk
  <2>1. /\ writing # <<>> /\ writing' = <<>> /\ fromAgent' = fromAgent
        /\ UNCHANGED <<done, wires, agent, seen>>
    BY <1>5, Zenon DEF WriteChunk
  <2>2. /\ Held # <<>> /\ Held' = Tail(Held) /\ Head(Held) = Head(writing)
        /\ Head(writing) \in ToGateway
    BY <2>1, HeldWrites, WritingFacts, Zenon
  <2>3. /\ handler \in {"waiting", "streaming"}
        /\ Head(writing)[1] = Close => handler = "streaming"
    BY <2>1, Zenon DEF StartsOnce
  <2>4. \/ handler' = "streaming" /\ Deliver(Head(writing)) /\ Head(writing)[1] # Close
        \/ HandlerEnds("abrupt")
        \/ Head(writing)[1] = Close /\ HandlerEnds("normal")
    BY <1>5, Zenon DEF WriteChunk
  <2>5. QED
    BY <2>1, <2>2, <2>3, <2>4, WholeTaken, Zenon
<1>6. CASE ReaderEnds
  <2>1. Line(1)' = Line(1) /\ Pos' = Pos /\ Unbroken' = Unbroken /\ ~client.open
        /\ UNCHANGED <<client, session, process>>
    BY <1>6, Zenon DEF ReaderEnds, Line, Held, Pos, Unbroken, agent
  <2>2. QED
    BY <2>1, WholeSame, Zenon
<1>7. ASSUME NEW c \in Conns, handleStreamChunk(c) PROVE WholeInv'
  <2>1. Pos' = Pos /\ Unbroken' = Unbroken /\ UNCHANGED <<handler, done, client, session, process>>
    BY <1>7, Zenon DEF handleStreamChunk, Pos, Unbroken, agent
  <2>2. CASE ~Unbroken
    BY <2>1, <2>2, Zenon DEF WholeInv
  <2>3. CASE Unbroken /\ fromAgent' = Append(fromAgent, Head(toGateway[c]))
    <3>1. c = 1 /\ toGateway[c] # <<>> /\ NextOn(c) /\ writing' = writing
      BY <1>7, <2>3, Up, Zenon DEF handleStreamChunk
    <3>2. /\ toGateway'[1] = Tail(toGateway[1]) /\ toGateway[1] \in Seq(ToGateway)
          /\ Head(toGateway[1]) \in ToGateway /\ Held \in Seq(ToGateway)
      BY <3>1, NextOnType, LineType, Zenon
    <3>3. Held' = Append(Held, Head(toGateway[1]))
      BY <2>3, <3>1, <3>2, HeldJoins, Zenon
    <3>4. Line(1)' = Line(1)
      BY <3>1, <3>2, <3>3, LineMove, Zenon DEF Line
    <3>5. QED
      BY <2>1, <3>4, WholeSame, Zenon
  <2>4. CASE Unbroken /\ (handler = "ended" \/ done) /\ fromAgent' = fromAgent
    <3>1. ~client.open
      BY <2>4, Zenon DEF StartsOnce, WholeInv
    <3>2. /\ WithoutHoles(client.got)
          /\ client.end = "normal" => session = "ended" /\ Len(client.got) = process.out
      BY <2>4, Zenon DEF WholeInv
    <3>3. QED
      BY <2>1, <3>1, <3>2, WholeHeld, Zenon
  <2>5. QED
    BY <1>7, <2>2, <2>3, <2>4, Zenon DEF handleStreamChunk
<1>8. ASSUME NEW c \in Conns, BackpressureTimeout(c) PROVE WholeInv'
  <2>1. seen'.pressure
    BY <1>8, Zenon DEF BackpressureTimeout, TypeOK, Histories
  <2>2. QED
    BY <2>1, Zenon DEF WholeInv, Unbroken
<1>9. CASE AgentReads
  <2>1. Line(1)' = Line(1) /\ Pos' = Pos /\ UNCHANGED <<done, client, process>>
    BY <1>9, Zenon DEF AgentReads, gateway, Line, Held, Pos
  <2>2. Head(toAgent)[1] \in {Init1, "in", Eof, Close}
    <3>1. Head(toAgent) \in ToAgent
      BY <1>9, WireTake, Zenon DEF AgentReads
    <3>2. QED
      BY <3>1 DEF ToAgent
  <2>3. Unbroken' = Unbroken
    <3>1. seen' = seen \/ seen' = [seen EXCEPT !.overflow = TRUE]
      BY <1>9, <2>2, ReadsCases, Zenon DEF PipeWrite
    <3>2. QED
      BY <3>1, Zenon DEF Unbroken, TypeOK, Histories
  <2>4. /\ session' = session \/ session' = "starting" \/ (session = "active" /\ session' = "closed")
        /\ session = "ended" => session' = "ended"
    <3>1. Head(toAgent)[1] = Init1 => session = "none"
      BY <1>9, WireTake DEF AgentReads, StartsOnce
    <3>2. QED
      BY <1>9, <2>2, <3>1, ReadsCases
  <2>5. QED
    BY <2>1, <2>3, <2>4, WholeSame, Zenon
<1>10. CASE StartSession
  BY <1>10, WholeStarts, Zenon
<1>11. CASE Cancelled \/ Exit
  BY <1>11, WholeEnds, Zenon DEF Cancelled, Exit
<1>12. CASE ReadBuffer \/ Receive
  <2>1. Line(1)' = Line(1) /\ Pos' = Pos /\ Unbroken' = Unbroken /\ UNCHANGED <<done, client, session>>
    BY <1>12, Zenon DEF ReadBuffer, Receive, gateway, wires, Line, Held, Pos, Unbroken
  <2>2. process'.out = process.out
    BY <1>12, Zenon DEF ReadBuffer, Receive, TypeOK, Processes
  <2>3. QED
    BY <2>1, <2>2, WholeSame, Zenon
<1>13. CASE RelayInput
  <2>1. client'.got = client.got /\ client'.end = client.end /\ client'.open = client.open
    BY <1>13, Zenon DEF RelayInput, TypeOK, Streams
  <2>2. Line(1)' = Line(1) /\ Pos' = Pos /\ Unbroken' = Unbroken /\ UNCHANGED <<session, process>>
    BY <1>13, <2>1, Zenon DEF RelayInput, Line, Held, Pos, Unbroken, agent
  <2>3. Unbroken => (done' => done)
    BY <1>13, Up, Zenon DEF RelayInput, GatewaySendFails
  <2>4. QED
    BY <2>1, <2>2, <2>3, WholeSame, Zenon
<1>14. CASE Produce
  <2>1. session = "active" /\ process.out < OutChunks /\ UNCHANGED <<gateway, client>>
    BY <1>14, Zenon DEF Produce
  <2>2. CASE /\ process' = [process EXCEPT !.out = @ + 1]
             /\ IF process.mute THEN UNCHANGED toGateway ELSE AgentSends(<<"out", process.out + 1>>)
             /\ seen' = [seen EXCEPT !.via = Append(@, link.conn)]
             /\ UNCHANGED session
    BY <2>1, <2>2, WholeProduces, Zenon
  <2>3. CASE AgentSendFails
    <3>1. ~Unbroken
      BY <2>3, Up, Zenon DEF AgentSendFails
    <3>2. CASE UNCHANGED seen
      BY <3>1, <3>2, Zenon DEF WholeInv, Unbroken
    <3>3. CASE /\ process' = [process EXCEPT !.out = @ + 1]
               /\ IF process.mute THEN UNCHANGED toGateway ELSE AgentSends(<<"out", process.out + 1>>)
               /\ seen' = [seen EXCEPT !.via = Append(@, link.conn)]
               /\ UNCHANGED session
      BY <2>2, <3>3
    <3>4. QED
      BY <1>14, <3>2, <3>3, Zenon DEF Produce
  <2>4. QED
    BY <1>14, <2>2, <2>3, Zenon DEF Produce
<1>15. CASE ClientLeaves
  <2>1. client'.got = client.got /\ client'.end = client.end /\ client'.open = FALSE
    BY <1>15, Zenon DEF ClientLeaves, TypeOK, Streams
  <2>2. Line(1)' = Line(1) /\ Unbroken' = Unbroken /\ UNCHANGED <<done, session, process>>
    BY <1>15, Zenon DEF ClientLeaves, gateway, wires, agent, Line, Held, Unbroken
  <2>3. QED
    BY <2>1, <2>2, WholeSame, Zenon
<1>16. ASSUME seen' = [seen EXCEPT !.breaks = @ + 1] PROVE WholeInv'
  <2>1. seen'.breaks = seen.breaks + 1
    BY <1>16, Zenon DEF TypeOK, Histories
  <2>2. seen'.breaks # 0
    BY <2>1, ProcessFields
  <2>3. QED
    BY <2>2, Zenon DEF WholeInv, Unbroken
<1>17. CASE LinkBreaks \/ GoAway
  BY <1>16, <1>17, Zenon DEF LinkBreaks, GoAway
<1>18. CASE CloseConnection \/ Reconnect
  <2>1. ~Unbroken
    BY <1>18, Up, Zenon DEF CloseConnection, Reconnect
  <2>2. seen' = seen
    BY <1>18, Zenon DEF CloseConnection, Reconnect
  <2>3. QED
    BY <2>1, <2>2, Zenon DEF WholeInv, Unbroken
<1>19. CASE UNCHANGED vars
  <2>1. Line(1)' = Line(1) /\ Pos' = Pos /\ Unbroken' = Unbroken
        /\ UNCHANGED <<done, client, session, process>>
    BY <1>19, Zenon DEF vars, Line, Held, Pos, Unbroken
  <2>2. QED
    BY <2>1, WholeSame, Zenon
<1>20. QED
  BY <1>2, <1>3, <1>4, <1>5, <1>6, <1>7, <1>8, <1>9, <1>10, <1>11, <1>12, <1>13, <1>14,
     <1>15, <1>17, <1>18, <1>19, Zenon DEF Next, Gateway, Agent, Wire, ReadLoop

-----------------------------------------------------------------------------
(* Stdin. *)

\* The bytes of a stdin chunk.
LEMMA ChunkBytes ==
  ASSUME NEW c \in Nat
  PROVE  /\ c * ChunkSize \in Nat /\ (c + 1) * ChunkSize = c * ChunkSize + ChunkSize
         /\ Chunk(c + 1)[1] = c * ChunkSize + 1
         /\ Len(Tail(Chunk(c + 1))) = ChunkSize - 1
         /\ Tail(Chunk(c + 1)) \in Seq(Nat)
         /\ \A i \in 1..(ChunkSize - 1) : Tail(Chunk(c + 1))[i] = c * ChunkSize + 1 + i
<1>1. ChunkSize \in Nat \ {0}
  BY SizeAssumption
<1>2. c * ChunkSize \in Nat /\ (c + 1) * ChunkSize = c * ChunkSize + ChunkSize
  BY <1>1
<1>. DEFINE b == c * ChunkSize
            s == Chunk(c + 1)
<1>3. s = [k \in 1..ChunkSize |-> b + k]
  <2>1. c + 1 - 1 = c
    OBVIOUS
  <2>2. QED
    BY <2>1 DEF Chunk
<1>4. b \in Nat
  BY <1>2
<1>. HIDE DEF b, s
<1>5. s \in Seq(Nat) /\ Len(s) = ChunkSize /\ s # <<>>
  BY <1>1, <1>3, <1>4
<1>6. s[1] = b + 1
  BY <1>1, <1>3
<1>7. Tail(s) \in Seq(Nat) /\ Len(Tail(s)) = ChunkSize - 1
  BY <1>1, <1>5
<1>8. \A i \in 1..(ChunkSize - 1) : Tail(s)[i] = b + 1 + i
  <2>. SUFFICES ASSUME NEW i \in 1..(ChunkSize - 1) PROVE Tail(s)[i] = b + 1 + i
    BY Zenon
  <2>1. Tail(s)[i] = s[i + 1]
    BY <1>1, <1>5, <1>7
  <2>2. i + 1 \in 1..ChunkSize
    BY <1>1
  <2>3. QED
    <3>1. s[i + 1] = b + (i + 1)
      BY <1>3, <2>2
    <3>2. b + (i + 1) = b + 1 + i
      BY <1>1, <1>4
    <3>3. QED
      BY <2>1, <3>1, <3>2, Zenon
<1>9. QED
  BY <1>2, <1>6, <1>7, <1>8 DEF b, s

\* No two stdin chunks are the same.
LEMMA ChunkNumber ==
  ASSUME NEW c \in Nat, NEW i \in 1..InChunks, Chunk(c + 1) = Chunk(i)
  PROVE  c + 1 = i
<1>1. ChunkSize \in Nat \ {0} /\ InChunks \in Nat
  BY SizeAssumption
<1>2. PICK d \in Nat : i = d + 1
  <2>1. i - 1 \in Nat /\ i = (i - 1) + 1
    BY <1>1
  <2>2. QED
    BY <2>1
<1>3. c * ChunkSize + 1 = d * ChunkSize + 1
  BY <1>2, ChunkBytes, Zenon
<1>4. c * ChunkSize \in Nat /\ d * ChunkSize \in Nat
  BY ChunkBytes, Zenon
<1>5. ASSUME NEW x \in Nat, NEW y \in Nat, x < y, x * ChunkSize = y * ChunkSize PROVE FALSE
  <2>1. PICK k \in Nat : y = x + 1 + k
    <3>1. y - x - 1 \in Nat /\ y = x + 1 + (y - x - 1)
      BY <1>5
    <3>2. QED
      BY <3>1
  <2>2. y * ChunkSize = x * ChunkSize + ChunkSize + k * ChunkSize
    BY <1>1, <2>1
  <2>3. x * ChunkSize \in Nat /\ k * ChunkSize \in Nat
    BY <1>1, <2>1
  <2>4. QED
    BY <1>1, <1>5, <2>2, <2>3
<1>6. c = d
  BY <1>3, <1>4, <1>5
<1>7. QED
  BY <1>2, <1>6

\* StdinInv from a count of the chunks that left the channel.
LEMMA StdinFrom ==
  ASSUME SignalsSaid',
         ~seen'.overflow => \E c \in 0..InChunks : ReadFrom(c)' /\ SentAfter(c + Len(pipe.ch))'
  PROVE  StdinInv'
BY DEF StdinInv

\* A step that leaves the pipe, the process and the wire alone.
LEMMA StdinSame ==
  ASSUME StdinInv, process'.got = process.got, process'.read = process.read,
         pipe'.ch = pipe.ch, pipe'.buf = pipe.buf, seen'.overflow = seen.overflow,
         toAgent' = toAgent, client'.sent = client.sent, client'.eof = client.eof,
         client'.open => client.open,
         link'.conn = 1 /\ link'.state = "up" => link.conn = 1 /\ link.state = "up",
         session' = "active" /\ ~pipe'.closed => session = "active" /\ ~pipe.closed
  PROVE  StdinInv'
<1>1. SignalsSaid'
  BY DEF StdinInv, SignalsSaid
<1>2. ASSUME ~seen'.overflow
      PROVE  \E c \in 0..InChunks : ReadFrom(c)' /\ SentAfter(c + Len(pipe.ch))'
  <2>1. PICK c \in 0..InChunks : ReadFrom(c) /\ SentAfter(c + Len(pipe.ch))
    BY <1>2 DEF StdinInv
  <2>2. ReadFrom(c)'
    BY <2>1, Zenon DEF ReadFrom
  <2>3. SentAfter(c + Len(pipe.ch))'
    BY <2>1 DEF SentAfter
  <2>4. QED
    BY <2>2, <2>3
<1>3. QED
  BY <1>1, <1>2, StdinFrom

\* A step that leaves the pipe's contents and the process alone, after which
\* nothing more is written to the pipe.
LEMMA StdinQuiet ==
  ASSUME StdinInv, SignalsSaid', process'.got = process.got, process'.read = process.read,
         pipe'.ch = pipe.ch, pipe'.buf = pipe.buf, seen'.overflow = seen.overflow,
         ~(session' = "active" /\ ~pipe'.closed)
  PROVE  StdinInv'
<1>2. ASSUME ~seen'.overflow
      PROVE  \E c \in 0..InChunks : ReadFrom(c)' /\ SentAfter(c + Len(pipe.ch))'
  <2>1. PICK c \in 0..InChunks : ReadFrom(c)
    BY <1>2 DEF StdinInv
  <2>2. ReadFrom(c)'
    BY <2>1, Zenon DEF ReadFrom
  <2>3. SentAfter(c + Len(pipe.ch))'
    BY DEF SentAfter
  <2>4. QED
    BY <2>2, <2>3
<1>3. QED
  BY <1>2, StdinFrom

\* A step that leaves the pipe and the process alone, after which the gateway's
\* messages are lost and of those on the wire the first remain.
LEMMA StdinLost ==
  ASSUME StdinInv, UNCHANGED <<client, agent>>, seen'.overflow = seen.overflow,
         DOMAIN toAgent' \subseteq DOMAIN toAgent,
         \A i \in DOMAIN toAgent' : toAgent'[i] = toAgent[i],
         ~(link'.conn = 1 /\ link'.state = "up")
  PROVE  StdinInv'
<1>1. SignalsSaid'
  BY Zenon DEF StdinInv, SignalsSaid
<1>2. ASSUME ~seen'.overflow
      PROVE  \E c \in 0..InChunks : ReadFrom(c)' /\ SentAfter(c + Len(pipe.ch))'
  <2>1. PICK c \in 0..InChunks : ReadFrom(c) /\ SentAfter(c + Len(pipe.ch))
    BY <1>2 DEF StdinInv
  <2>2. UNCHANGED <<session, pipe, process>>
    BY DEF agent
  <2>3. ReadFrom(c)'
    BY <2>1, <2>2, Zenon DEF ReadFrom
  <2>4. SentAfter(c + Len(pipe.ch))'
    BY <2>1, <2>2, Zenon DEF SentAfter
  <2>5. QED
    BY <2>3, <2>4
<1>3. QED
  BY <1>1, <1>2, StdinFrom

\* Before stdin has been sent there is nothing to be out of order.
LEMMA StdinInit == Init => StdinInv
<1>. SUFFICES ASSUME Init PROVE StdinInv
  OBVIOUS
<1>1. /\ toAgent = <<>> /\ session = "none" /\ process.got = <<>> /\ pipe.buf = <<>> /\ pipe.ch = <<>>
  BY DEF Init
<1>2. 0 \in 0..InChunks /\ 0 * ChunkSize = 0
  BY SizeAssumption
<1>3. ReadFrom(0)
  BY <1>1, <1>2 DEF ReadFrom, WithoutHoles
<1>4. SentAfter(0 + Len(pipe.ch))
  BY <1>1 DEF SentAfter
<1>5. QED
  BY <1>1, <1>2, <1>3, <1>4 DEF StdinInv, SignalsSaid

\* A byte of the buffer is read (stdinPipeReader.Read).
LEMMA StdinBuffer ==
  ASSUME TypeOK, StartsOnce, StdinInv, ReadBuffer, pipe.buf # <<>>
  PROVE  StdinInv'
<1>. DEFINE got == process.got
            buf == pipe.buf
            n == Len(got)
<1>1. /\ got \in Seq(Bytes) /\ buf \in Seq(Bytes) /\ n \in Nat /\ buf # <<>>
      /\ DOMAIN got = 1..n /\ DOMAIN buf = 1..Len(buf) /\ Len(buf) \in Nat \ {0}
  BY PipeFields, ProcessFields
<1>2. /\ process'.got = Append(got, Head(buf)) /\ process'.read = process.read
      /\ pipe'.buf = Tail(buf) /\ pipe'.ch = pipe.ch /\ pipe'.closed = pipe.closed
      /\ process.read = "check"
  BY DEF ReadBuffer, TypeOK, Pipes, Processes
<1>3. UNCHANGED <<toAgent, client, link, session, seen>>
  BY DEF ReadBuffer, wires
<1>4. SignalsSaid'
  BY <1>3 DEF StdinInv, SignalsSaid
<1>5. ASSUME ~seen'.overflow
      PROVE  \E c \in 0..InChunks : ReadFrom(c)' /\ SentAfter(c + Len(pipe.ch))'
  <2>1. PICK c \in 0..InChunks : ReadFrom(c) /\ SentAfter(c + Len(pipe.ch))
    BY <1>3, <1>5 DEF StdinInv
  <2>2. Head(buf) = n + 1
    BY <1>1, <2>1 DEF ReadFrom
  <2>3. /\ Len(process'.got) = n + 1 /\ DOMAIN process'.got = 1..(n + 1)
        /\ process'.got[n + 1] = n + 1 /\ \A i \in 1..n : process'.got[i] = got[i]
    BY <1>1, <1>2, <2>2
  <2>4. /\ Len(pipe'.buf) = Len(buf) - 1 /\ DOMAIN pipe'.buf = 1..(Len(buf) - 1)
        /\ \A i \in 1..(Len(buf) - 1) : pipe'.buf[i] = buf[i + 1] /\ i + 1 \in 1..Len(buf)
    BY <1>1, <1>2
  <2>5. Len(process'.got) + Len(pipe'.buf) = c * ChunkSize
    <3>1. n + Len(buf) = c * ChunkSize
      BY <2>1, Zenon DEF ReadFrom
    <3>2. n + 1 + (Len(buf) - 1) = n + Len(buf)
      <4>. HIDE DEF n, buf
      <4>1. QED
        BY <1>1
    <3>3. QED
      BY <2>3, <2>4, <3>1, <3>2, Zenon
  <2>6. WithoutHoles(process'.got)
    <3>1. WithoutHoles(got)
      BY <2>1 DEF ReadFrom
    <3>2. QED
      BY <1>1, <2>3, <3>1 DEF WithoutHoles
  <2>7. \A i \in DOMAIN pipe'.buf : pipe'.buf[i] = Len(process'.got) + i
    <3>1. \A i \in 1..Len(buf) : buf[i] = n + i
      BY <1>1, <2>1 DEF ReadFrom
    <3>. SUFFICES ASSUME NEW i \in 1..(Len(buf) - 1) PROVE pipe'.buf[i] = Len(process'.got) + i
      BY <2>4
    <3>2. pipe'.buf[i] = n + (i + 1)
      BY <2>4, <3>1, Zenon
    <3>3. n + (i + 1) = n + 1 + i
      <4>. HIDE DEF n, buf
      <4>1. QED
        BY <1>1
    <3>4. QED
      BY <2>3, <3>2, <3>3, Zenon
  <2>8. ReadFrom(c)'
    BY <1>2, <2>1, <2>5, <2>6, <2>7, Zenon DEF ReadFrom
  <2>9. SentAfter(c + Len(pipe.ch))'
    BY <1>2, <1>3, <2>1 DEF SentAfter
  <2>10. QED
    BY <2>8, <2>9
<1>6. QED
  BY <1>4, <1>5, StdinFrom

\* A chunk leaves the channel: its first byte is read, the others are buffered
\* (stdinPipeReader.Read).
LEMMA StdinReceive ==
  ASSUME TypeOK, StdinInv, Receive, pipe.ch # <<>>
  PROVE  StdinInv'
<1>. DEFINE got == process.got
            ch == pipe.ch
            n == Len(got)
<1>1. /\ got \in Seq(Bytes) /\ n \in Nat /\ DOMAIN got = 1..n
      /\ ch \in Seq({Chunk(i) : i \in 1..InChunks}) /\ ch # <<>> /\ Len(ch) \in Nat \ {0}
      /\ DOMAIN ch = 1..Len(ch) /\ Head(ch) = ch[1]
  BY PipeFields, ProcessFields
<1>2. /\ process'.got = Append(got, Head(ch)[1]) /\ process'.read = "check"
      /\ pipe'.buf = pipe.buf \o Tail(Head(ch)) /\ pipe'.ch = Tail(ch)
      /\ pipe'.closed = pipe.closed /\ process.read = "receive"
  BY Zenon DEF Receive, TypeOK, Pipes, Processes
<1>3. UNCHANGED <<toAgent, client, link, session, seen>>
  BY DEF Receive, wires
<1>4. SignalsSaid'
  BY <1>3 DEF StdinInv, SignalsSaid
<1>5. ASSUME ~seen'.overflow
      PROVE  \E c \in 0..InChunks : ReadFrom(c)' /\ SentAfter(c + Len(pipe.ch))'
  <2>1. PICK c \in 0..InChunks : ReadFrom(c) /\ SentAfter(c + Len(ch))
    BY <1>3, <1>5 DEF StdinInv
  <2>. DEFINE b == c * ChunkSize
  <2>2. c \in Nat /\ b \in Nat /\ (c + 1) * ChunkSize = b + ChunkSize /\ ChunkSize \in Nat \ {0}
    BY ChunkBytes, SizeAssumption
  <2>3. pipe.buf = <<>> /\ n = b
    <3>1. pipe.buf = <<>>
      BY <1>2, <2>1 DEF ReadFrom
    <3>2. QED
      BY <1>1, <2>1, <3>1 DEF ReadFrom
  <2>4. Head(ch) = Chunk(c + 1)
    BY <1>1, <2>1 DEF ReadFrom
  <2>5. c + 1 \in 0..InChunks
    <3>1. PICK i \in 1..InChunks : Head(ch) = Chunk(i)
      BY <1>1
    <3>2. c + 1 = i
      BY <2>2, <2>4, <3>1, ChunkNumber
    <3>3. QED
      BY <2>2, <3>2, SizeAssumption
  <2>. DEFINE tail == Tail(Chunk(c + 1))
  <2>6. /\ Chunk(c + 1)[1] = b + 1 /\ tail \in Seq(Nat) /\ Len(tail) = ChunkSize - 1
        /\ \A i \in 1..(ChunkSize - 1) : tail[i] = b + 1 + i
    BY <2>2, ChunkBytes
  <2>7. process'.got = Append(got, b + 1) /\ pipe'.buf = <<>> \o tail
    BY <1>2, <2>3, <2>4, <2>6, Zenon
  <2>. HIDE DEF b, tail
  <2>8. /\ Len(process'.got) = b + 1 /\ DOMAIN process'.got = 1..(b + 1)
        /\ process'.got[b + 1] = b + 1 /\ \A i \in 1..b : process'.got[i] = got[i]
    BY <1>1, <2>2, <2>3, <2>7
  <2>9. /\ Len(pipe'.buf) = ChunkSize - 1 /\ DOMAIN pipe'.buf = 1..(ChunkSize - 1)
        /\ \A i \in 1..(ChunkSize - 1) : pipe'.buf[i] = tail[i]
    BY <2>2, <2>6, <2>7
  <2>10. Len(process'.got) + Len(pipe'.buf) = (c + 1) * ChunkSize
    BY <2>2, <2>8, <2>9
  <2>11. WithoutHoles(process'.got)
    <3>1. WithoutHoles(got)
      BY <2>1 DEF ReadFrom
    <3>2. QED
      BY <1>1, <2>2, <2>3, <2>8, <3>1 DEF WithoutHoles
  <2>12. \A i \in DOMAIN pipe'.buf : pipe'.buf[i] = Len(process'.got) + i
    BY <2>6, <2>8, <2>9
  <2>13. /\ Len(pipe'.ch) = Len(ch) - 1 /\ DOMAIN pipe'.ch = 1..(Len(ch) - 1)
         /\ \A i \in DOMAIN pipe'.ch : pipe'.ch[i] = ch[i + 1] /\ i + 1 \in DOMAIN ch
    <3>1. pipe'.ch = Tail(ch) /\ ch \in Seq({Chunk(i) : i \in 1..InChunks}) /\ ch # <<>>
      BY <1>1, <1>2
    <3>. HIDE DEF ch
    <3>2. QED
      BY <3>1
  <2>14. \A i \in DOMAIN pipe'.ch : pipe'.ch[i] = Chunk(c + 1 + i)
    <3>. SUFFICES ASSUME NEW i \in DOMAIN pipe'.ch PROVE pipe'.ch[i] = Chunk(c + 1 + i)
      OBVIOUS
    <3>1. ch[i + 1] = Chunk(c + (i + 1))
      BY <2>1, <2>13 DEF ReadFrom
    <3>2. c + (i + 1) = c + 1 + i
      BY <1>1, <2>2, <2>13
    <3>3. QED
      BY <2>13, <3>1, <3>2
  <2>15. ReadFrom(c + 1)'
    BY <1>2, <2>10, <2>11, <2>12, <2>14, Zenon DEF ReadFrom
  <2>16. c + 1 + Len(pipe'.ch) = c + Len(ch)
    <3>. HIDE DEF ch
    <3>1. c + 1 + (Len(ch) - 1) = c + Len(ch)
      BY <1>1, <2>2
    <3>2. QED
      BY <2>13, <3>1
  <2>17. SentAfter(c + 1 + Len(pipe.ch))'
    BY <1>2, <1>3, <2>1, <2>16, Zenon DEF SentAfter
  <2>18. QED
    BY <2>5, <2>15, <2>17, Zenon
<1>6. QED
  BY <1>4, <1>5, StdinFrom

\* The read loop takes the next stdin chunk of the wire and writes it to the
\* pipe (routeStreamChunk, stdinPipeReader.Write).
LEMMA StdinWrite ==
  ASSUME TypeOK, StdinInv, AgentReads, Head(toAgent)[1] = "in", session = "active",
         PipeWrite(Head(toAgent)[2]), UNCHANGED session, SignalsSaid'
  PROVE  StdinInv'
<1>1. toAgent # <<>> /\ toAgent' = Tail(toAgent) /\ UNCHANGED <<client, link, process>>
  BY DEF AgentReads
<1>2. CASE pipe.closed
  <2>1. pipe' = pipe /\ seen' = seen
    BY <1>2 DEF PipeWrite
  <2>2. QED
    BY <1>1, <1>2, <2>1, StdinQuiet
<1>3. CASE ~pipe.closed /\ ~(Len(pipe.ch) < StdinCap)
  <2>1. seen' = [seen EXCEPT !.overflow = TRUE]
    BY <1>3 DEF PipeWrite
  <2>2. seen'.overflow
    BY <2>1 DEF TypeOK, Histories
  <2>3. QED
    BY <2>2, StdinFrom
<1>4. CASE ~pipe.closed /\ Len(pipe.ch) < StdinCap
  <2>. DEFINE v == Head(toAgent)[2]
              ch == pipe.ch
              k == Len(ch)
              w == Len(toAgent)
  <2>1. pipe' = [pipe EXCEPT !.ch = Append(ch, Chunk(v))] /\ seen' = seen
    BY <1>4 DEF PipeWrite
  <2>2. /\ pipe'.ch = Append(ch, Chunk(v)) /\ pipe'.buf = pipe.buf /\ pipe'.closed = pipe.closed
    BY <2>1 DEF TypeOK, Pipes
  <2>3. /\ Head(toAgent) = toAgent[1] /\ w \in Nat \ {0} /\ Len(toAgent') = w - 1
        /\ DOMAIN toAgent' = 1..(w - 1) /\ DOMAIN toAgent = 1..w
        /\ \A i \in DOMAIN toAgent' : i + 1 \in DOMAIN toAgent /\ toAgent'[i] = toAgent[i + 1]
    <3>1. DOMAIN toAgent = 1..w
      BY DEF TypeOK
    <3>2. QED
      BY <1>1, <3>1, WireTake
  <2>4. /\ k \in Nat /\ Len(pipe'.ch) = k + 1 /\ DOMAIN ch = 1..k /\ DOMAIN pipe'.ch = 1..(k + 1)
        /\ pipe'.ch[k + 1] = Chunk(v) /\ \A i \in 1..k : pipe'.ch[i] = ch[i]
    BY <2>2, PipeFields
  <2>5. ASSUME ~seen'.overflow
        PROVE  \E c \in 0..InChunks : ReadFrom(c)' /\ SentAfter(c + Len(pipe.ch))'
    <3>1. PICK c \in 0..InChunks : ReadFrom(c) /\ SentAfter(c + k)
      BY <2>1, <2>5 DEF StdinInv
    <3>2. /\ \A i \in DOMAIN toAgent : toAgent[i][1] = "in" => toAgent[i][2] = c + k + i
          /\ link.conn = 1 /\ link.state = "up" /\ (\A i \in DOMAIN toAgent : toAgent[i][1] = "in")
               => client.sent = c + k + w
      BY <1>1, <1>4, <3>1 DEF SentAfter
    <3>. HIDE DEF k, w
    <3>3. v = c + k + 1
      BY <2>3, <3>2
    <3>4. c + k + 1 = c + (k + 1) /\ c + k + w = c + (k + 1) + (w - 1)
      BY <2>3, <2>4
    <3>5. \A i \in DOMAIN pipe'.ch : pipe'.ch[i] = Chunk(c + i)
      <4>. SUFFICES ASSUME NEW i \in 1..(k + 1) PROVE pipe'.ch[i] = Chunk(c + i)
        BY <2>4
      <4>1. CASE i = k + 1
        BY <2>4, <3>3, <3>4, <4>1
      <4>2. CASE i \in 1..k
        BY <2>4, <3>1, <4>2, Zenon DEF ReadFrom
      <4>3. QED
        BY <2>4, <4>1, <4>2
    <3>6. ReadFrom(c)'
      BY <1>1, <2>2, <3>1, <3>5, Zenon DEF ReadFrom
    <3>7. \A i \in DOMAIN toAgent' : toAgent'[i][1] = "in" => toAgent'[i][2] = c + (k + 1) + i
      <4>. SUFFICES ASSUME NEW i \in 1..(w - 1), toAgent'[i][1] = "in"
                    PROVE  toAgent'[i][2] = c + (k + 1) + i
        BY <2>3
      <4>1. toAgent'[i][2] = c + k + (i + 1)
        BY <2>3, <3>2
      <4>2. c + k + (i + 1) = c + (k + 1) + i
        BY <2>3, <2>4
      <4>3. QED
        BY <4>1, <4>2
    <3>8. ASSUME link.conn = 1, link.state = "up", \A i \in DOMAIN toAgent' : toAgent'[i][1] = "in"
          PROVE  client'.sent = c + (k + 1) + Len(toAgent')
      <4>1. ASSUME NEW i \in 1..w PROVE toAgent[i][1] = "in"
        <5>1. CASE i = 1
          BY <2>3, <5>1
        <5>2. CASE i # 1
          <6>1. i - 1 \in 1..(w - 1) /\ (i - 1) + 1 = i
            BY <2>3, <5>2
          <6>2. i - 1 \in DOMAIN toAgent' /\ toAgent'[i - 1] = toAgent[i]
            BY <2>3, <6>1, Zenon
          <6>3. QED
            BY <3>8, <6>2, Zenon
        <5>3. QED
          BY <5>1, <5>2
      <4>2. client.sent = c + k + w
        BY <2>3, <3>2, <3>8, <4>1, Zenon
      <4>3. QED
        BY <1>1, <2>3, <3>4, <4>2
    <3>9. SentAfter(c + Len(pipe.ch))'
      BY <1>1, <2>4, <3>7, <3>8 DEF SentAfter
    <3>10. QED
      BY <3>6, <3>9
  <2>6. QED
    BY <2>5, StdinFrom
<1>5. QED
  BY <1>2, <1>3, <1>4

\* The reader goroutine puts the client's next message on the wire, behind all
\* stdin it sent before (RelayInput).
LEMMA StdinRelay ==
  ASSUME TypeOK, StartsOnce, StdinInv, NEW m \in ToAgent, GatewaySends(m),
         client.open, ~client.eof, session # "none",
         UNCHANGED <<agent, link, seen>>,
         \/ m = <<"in", client.sent + 1>> /\ client' = [client EXCEPT !.sent = @ + 1]
         \/ m = <<Eof, 0>> /\ client' = [client EXCEPT !.eof = TRUE]
  PROVE  StdinInv'
<1>. DEFINE w == Len(toAgent)
<1>1. UNCHANGED <<session, pipe, process, link, seen>>
  BY DEF agent
<1>2. /\ client'.open = client.open
      /\ \/ m[1] = "in" /\ m[2] = client.sent + 1 /\ client'.sent = client.sent + 1
            /\ client'.eof = client.eof
         \/ m[1] = Eof /\ client'.eof
  <2>1. CASE m = <<"in", client.sent + 1>> /\ client' = [client EXCEPT !.sent = @ + 1]
    BY <2>1, Zenon DEF TypeOK, Streams
  <2>2. CASE m = <<Eof, 0>> /\ client' = [client EXCEPT !.eof = TRUE]
    BY <2>2, Zenon DEF TypeOK, Streams
  <2>3. QED
    BY <2>1, <2>2, Zenon
<1>3. CASE ~(link.conn = 1 /\ link.state = "up")
  <2>1. toAgent' = toAgent
    BY <1>3, WireSend, Zenon
  <2>2. SignalsSaid'
    BY <1>2, <2>1 DEF StdinInv, SignalsSaid
  <2>3. ASSUME ~seen'.overflow
        PROVE  \E c \in 0..InChunks : ReadFrom(c)' /\ SentAfter(c + Len(pipe.ch))'
    <3>1. PICK c \in 0..InChunks : ReadFrom(c) /\ SentAfter(c + Len(pipe.ch))
      BY <1>1, <2>3 DEF StdinInv
    <3>2. ReadFrom(c)'
      BY <1>1, <3>1, Zenon DEF ReadFrom
    <3>3. SentAfter(c + Len(pipe.ch))'
      BY <1>1, <1>3, <2>1, <3>1, Zenon DEF SentAfter
    <3>4. QED
      BY <3>2, <3>3
  <2>4. QED
    BY <2>2, <2>3, StdinFrom
<1>4. CASE link.conn = 1 /\ link.state = "up"
  <2>1. /\ w \in Nat /\ Len(toAgent') = w + 1 /\ DOMAIN toAgent = 1..w /\ DOMAIN toAgent' = 1..(w + 1)
        /\ toAgent'[w + 1] = m /\ \A i \in 1..w : toAgent'[i] = toAgent[i]
    BY <1>4, WireSend, Zenon
  <2>. HIDE DEF w
  <2>2. \A i \in 1..w : toAgent[i][1] = "in"
    <3>1. \A i \in 1..w : toAgent[i] \in ToAgent
      BY <2>1 DEF TypeOK
    <3>2. \A i \in 1..w : toAgent[i][1] \notin {Init1, Eof, Close}
      BY <2>1 DEF StartsOnce, StdinInv, SignalsSaid
    <3>3. QED
      BY <3>1, <3>2 DEF ToAgent
  <2>3. SignalsSaid'
    <3>. SUFFICES ASSUME NEW i \in 1..(w + 1)
                  PROVE  /\ toAgent'[i][1] = Eof => client'.eof
                         /\ toAgent'[i][1] = Close => ~client'.open
      BY <2>1 DEF SignalsSaid
    <3>1. CASE i = w + 1
      BY <1>2, <2>1, <3>1 DEF Eof, Close
    <3>2. CASE i \in 1..w
      BY <2>1, <2>2, <3>2 DEF Eof, Close
    <3>3. QED
      BY <2>1, <3>1, <3>2
  <2>4. CASE session = "active" /\ ~pipe.closed
    <3>1. ASSUME ~seen'.overflow
          PROVE  \E c \in 0..InChunks : ReadFrom(c)' /\ SentAfter(c + Len(pipe.ch))'
      <4>1. PICK c \in 0..InChunks : ReadFrom(c) /\ SentAfter(c + Len(pipe.ch))
        BY <1>1, <3>1 DEF StdinInv
      <4>2. ReadFrom(c)'
        BY <1>1, <4>1, Zenon DEF ReadFrom
      <4>. DEFINE n == c + Len(pipe.ch)
      <4>3. n \in Nat /\ client.sent \in Nat
        BY PipeFields, Fields
      <4>4. /\ \A i \in 1..w : toAgent[i][2] = n + i
            /\ client.sent = n + w
        BY <1>4, <2>1, <2>2, <2>4, <4>1 DEF SentAfter, w
      <4>5. pipe' = pipe
        BY <1>1
      <4>. HIDE DEF n
      <4>6. \A i \in 1..(w + 1) : toAgent'[i][1] = "in" => toAgent'[i][2] = n + i
        <5>. SUFFICES ASSUME NEW i \in 1..(w + 1), toAgent'[i][1] = "in" PROVE toAgent'[i][2] = n + i
          OBVIOUS
        <5>1. CASE i = w + 1
          <6>1. m[1] = "in"
            BY <2>1, <5>1
          <6>2. m[2] = client.sent + 1
            BY <1>2, <6>1 DEF Eof
          <6>3. n + w + 1 = n + (w + 1)
            BY <2>1, <4>3
          <6>4. QED
            BY <2>1, <4>4, <5>1, <6>2, <6>3
        <5>2. CASE i \in 1..w
          BY <2>1, <4>4, <5>2
        <5>3. QED
          BY <2>1, <5>1, <5>2
      <4>7. ASSUME \A i \in 1..(w + 1) : toAgent'[i][1] = "in"
            PROVE  client'.sent = n + (w + 1)
        <5>1. w + 1 \in 1..(w + 1)
          BY <2>1
        <5>2. m[1] = "in"
          BY <2>1, <4>7, <5>1
        <5>3. client'.sent = client.sent + 1
          BY <1>2, <5>2 DEF Eof
        <5>4. n + w + 1 = n + (w + 1)
          BY <2>1, <4>3
        <5>5. QED
          BY <4>4, <5>3, <5>4
      <4>8. SentAfter(c + Len(pipe.ch))'
        <5>1. c + Len(pipe'.ch) = n
          BY <4>5 DEF n
        <5>2. QED
          BY <2>1, <4>6, <4>7, <5>1 DEF SentAfter
      <4>9. QED
        BY <4>2, <4>8
    <3>2. QED
      BY <2>3, <3>1, StdinFrom
  <2>5. CASE ~(session = "active" /\ ~pipe.closed)
    BY <1>1, <2>3, <2>5, StdinQuiet
  <2>6. QED
    BY <2>4, <2>5
<1>5. QED
  BY <1>3, <1>4

\* Every action keeps StdinInv.
LEMMA StdinStep == TypeOK /\ LinkFits /\ StartsOnce /\ StdinInv /\ [Next]_vars => StdinInv'
<1>. SUFFICES ASSUME TypeOK, LinkFits, StartsOnce, StdinInv, [Next]_vars PROVE StdinInv'
  OBVIOUS
<1>1. CASE SendInit
  <2>1. CASE handler' = "waiting" /\ GatewaySends(<<Init1, 0>>) /\ UNCHANGED client
    <3>1. session = "none" /\ toAgent' \in {<<>>, <<<<Init1, 0>>>>}
      <4>1. session = "none" /\ toAgent = <<>>
        BY <1>1 DEF SendInit, StartsOnce
      <4>2. QED
        BY <2>1, <4>1 DEF GatewaySends
    <3>2. SignalsSaid'
      BY <3>1 DEF SignalsSaid, Init1, Eof, Close
    <3>3. QED
      BY <1>1, <3>1, <3>2, StdinQuiet DEF SendInit, agent
  <2>2. CASE HandlerEnds("abrupt") /\ UNCHANGED toAgent
    BY <1>1, <2>2, EndsType, StdinSame, Zenon DEF SendInit, agent
  <2>3. QED
    BY <1>1, <2>1, <2>2 DEF SendInit
<1>2. CASE TakeChunk \/ WriteChunk
  <2>1. UNCHANGED <<wires, agent, seen>>
    BY <1>2, Zenon DEF TakeChunk, WriteChunk
  <2>2. client'.sent = client.sent /\ client'.eof = client.eof /\ (client'.open => client.open)
    <3>1. CASE \E how \in {"normal", "abrupt"} : HandlerEnds(how)
      BY <3>1, EndsType, Zenon
    <3>2. CASE writing # <<>> /\ Deliver(Head(writing))
      BY <3>2, WritingFacts, DeliverType, Zenon
    <3>3. CASE UNCHANGED client
      BY <3>3
    <3>4. QED
      BY <1>2, <3>1, <3>2, <3>3, Zenon DEF TakeChunk, WriteChunk
  <2>3. QED
    BY <2>1, <2>2, StdinSame, Zenon DEF wires, agent
<1>3. CASE StartTimeout \/ SeesDone
  <2>1. HandlerEnds("abrupt") /\ UNCHANGED <<wires, agent, seen>>
    BY <1>3 DEF StartTimeout, SeesDone
  <2>2. QED
    BY <2>1, EndsType, StdinSame, Zenon DEF wires, agent
<1>4. CASE ReaderEnds
  <2>1. ~client.open /\ GatewaySends(<<Close, 0>>) /\ UNCHANGED <<client, link, agent, seen>>
    BY <1>4 DEF ReaderEnds
  <2>2. CASE ~(link.conn = 1 /\ link.state = "up")
    <3>1. toAgent' = toAgent
      BY <2>1, <2>2, Signals, WireSend, Zenon
    <3>2. QED
      BY <2>1, <3>1, StdinSame, Zenon DEF agent
  <2>3. CASE link.conn = 1 /\ link.state = "up"
    <3>. DEFINE w == Len(toAgent)
    <3>1. /\ w \in Nat /\ Len(toAgent') = w + 1 /\ DOMAIN toAgent = 1..w /\ DOMAIN toAgent' = 1..(w + 1)
          /\ toAgent'[w + 1] = <<Close, 0>> /\ \A i \in 1..w : toAgent'[i] = toAgent[i]
      BY <2>1, <2>3, WireSend, Signals, Zenon
    <3>. HIDE DEF w
    <3>2. SignalsSaid'
      <4>. SUFFICES ASSUME NEW i \in 1..(w + 1)
                    PROVE  /\ toAgent'[i][1] = Eof => client'.eof
                           /\ toAgent'[i][1] = Close => ~client'.open
        BY <3>1 DEF SignalsSaid
      <4>1. CASE i = w + 1
        BY <2>1, <3>1, <4>1 DEF Eof, Close
      <4>2. CASE i \in 1..w
        BY <2>1, <3>1, <4>2 DEF StdinInv, SignalsSaid
      <4>3. QED
        BY <3>1, <4>1, <4>2
    <3>3. ASSUME ~seen'.overflow
          PROVE  \E c \in 0..InChunks : ReadFrom(c)' /\ SentAfter(c + Len(pipe.ch))'
      <4>1. PICK c \in 0..InChunks : ReadFrom(c) /\ SentAfter(c + Len(pipe.ch))
        BY <2>1, <3>3 DEF StdinInv
      <4>2. pipe' = pipe /\ process' = process /\ session' = session
        BY <2>1 DEF agent
      <4>3. ReadFrom(c)'
        BY <4>1, <4>2, Zenon DEF ReadFrom
      <4>4. w + 1 \in 1..(w + 1) /\ toAgent'[w + 1][1] # "in"
        BY <3>1 DEF Close
      <4>5. \A i \in 1..(w + 1) : toAgent'[i][1] = "in" => i \in 1..w
        BY <3>1, <4>4
      <4>6. SentAfter(c + Len(pipe.ch))'
        <5>1. session' = "active" /\ ~pipe'.closed =>
                \A i \in DOMAIN toAgent' : toAgent'[i][1] = "in" => toAgent'[i][2] = c + Len(pipe.ch) + i
          BY <2>1, <3>1, <4>1, <4>2, <4>5, Zenon DEF SentAfter
        <5>2. ~(\A i \in DOMAIN toAgent' : toAgent'[i][1] = "in")
          BY <3>1, <4>4
        <5>3. QED
          BY <4>2, <5>1, <5>2 DEF SentAfter
      <4>7. QED
        BY <4>3, <4>6
    <3>4. QED
      BY <3>2, <3>3, StdinFrom
  <2>4. QED
    BY <2>2, <2>3
<1>5. ASSUME NEW c \in Conns, handleStreamChunk(c) PROVE StdinInv'
  BY <1>5, StdinSame, Zenon DEF handleStreamChunk, agent
<1>6. ASSUME NEW c \in Conns, BackpressureTimeout(c) PROVE StdinInv'
  <2>1. seen'.overflow = seen.overflow
    BY <1>6, Zenon DEF BackpressureTimeout, TypeOK, Histories
  <2>2. QED
    BY <1>6, <2>1, StdinSame, Zenon DEF BackpressureTimeout, agent
<1>7. CASE AgentReads
  <2>. DEFINE m == Head(toAgent)
  <2>1. toAgent # <<>> /\ toAgent' = Tail(toAgent) /\ UNCHANGED <<client, link, process>>
    BY <1>7 DEF AgentReads
  <2>2. SignalsSaid'
    BY <2>1, WireTake DEF StdinInv, SignalsSaid
  <2>3. m[1] \in {Init1, "in", Eof, Close}
    <3>1. m \in ToAgent
      BY <2>1, WireTake
    <3>2. QED
      BY <3>1 DEF ToAgent
  <2>4. CASE session' # "active" /\ UNCHANGED <<pipe, seen>>
    BY <2>1, <2>2, <2>4, StdinQuiet
  <2>5. CASE m[1] = "in" /\ session = "active" /\ PipeWrite(m[2]) /\ UNCHANGED session
    BY <1>7, <2>2, <2>5, StdinWrite
  <2>6. CASE pipe' = ClosedPipe /\ UNCHANGED seen
    <3>1. pipe'.closed /\ pipe'.ch = pipe.ch /\ pipe'.buf = pipe.buf
      BY <2>6 DEF ClosedPipe, TypeOK, Pipes
    <3>2. QED
      BY <2>1, <2>2, <2>6, <3>1, StdinQuiet
  <2>7. QED
    BY <1>7, <2>3, <2>4, <2>5, <2>6, ReadsCases
<1>8. CASE StartSession
  <2>1. /\ toAgent = <<>> /\ process.got = <<>> /\ pipe.ch = <<>> /\ pipe.buf = <<>> /\ client.sent = 0
        /\ toAgent' = toAgent /\ process' = process /\ client' = client
    BY <1>8 DEF StartSession, StartsOnce
  <2>2. pipe'.ch = <<>> /\ pipe'.buf = <<>>
    BY <1>8, <2>1 DEF StartSession, ClosedPipe, TypeOK, Pipes
  <2>3. 0 \in 0..InChunks /\ 0 * ChunkSize = 0
    BY SizeAssumption
  <2>4. SignalsSaid'
    BY <2>1 DEF SignalsSaid
  <2>5. ReadFrom(0)'
    BY <2>1, <2>2, <2>3 DEF ReadFrom, WithoutHoles
  <2>6. SentAfter(0 + Len(pipe.ch))'
    BY <2>1, <2>2 DEF SentAfter
  <2>7. QED
    BY <2>3, <2>4, <2>5, <2>6, StdinFrom
<1>9. ASSUME NEW tell, EndSession(tell), UNCHANGED <<gateway, client, link, toAgent, process, seen>>
      PROVE  StdinInv'
  <2>1. session' = "ended" /\ pipe'.ch = pipe.ch /\ pipe'.buf = pipe.buf
    BY <1>9 DEF EndSession, ClosedPipe, TypeOK, Pipes
  <2>2. QED
    BY <1>9, <2>1, StdinSame
<1>10. CASE Cancelled \/ Exit
  BY <1>9, <1>10, Zenon DEF Cancelled, Exit
<1>11. CASE ReadBuffer
  <2>1. CASE pipe.buf # <<>>
    BY <1>11, <2>1, StdinBuffer
  <2>2. CASE pipe.buf = <<>>
    <3>1. /\ pipe'.buf = <<>> /\ pipe'.ch = pipe.ch /\ pipe'.closed = pipe.closed
          /\ process'.got = process.got
      BY <1>11, <2>2 DEF ReadBuffer, TypeOK, Pipes, Processes
    <3>2. UNCHANGED <<client, toAgent, link, session, seen>>
      BY <1>11 DEF ReadBuffer, wires
    <3>3. SignalsSaid'
      BY <3>2 DEF StdinInv, SignalsSaid
    <3>4. ASSUME ~seen'.overflow
          PROVE  \E c \in 0..InChunks : ReadFrom(c)' /\ SentAfter(c + Len(pipe.ch))'
      <4>1. PICK c \in 0..InChunks : ReadFrom(c) /\ SentAfter(c + Len(pipe.ch))
        BY <3>2, <3>4 DEF StdinInv
      <4>2. ReadFrom(c)'
        BY <2>2, <3>1, <4>1 DEF ReadFrom
      <4>3. SentAfter(c + Len(pipe.ch))'
        BY <3>1, <3>2, <4>1 DEF SentAfter
      <4>4. QED
        BY <4>2, <4>3
    <3>5. QED
      BY <3>3, <3>4, StdinFrom
  <2>3. QED
    BY <2>1, <2>2
<1>12. CASE Receive
  <2>1. CASE pipe.ch # <<>>
    BY <1>12, <2>1, StdinReceive
  <2>2. CASE pipe.ch = <<>>
    <3>1. /\ process'.got = process.got /\ process'.read = "eof" /\ pipe' = pipe
          /\ UNCHANGED <<client, toAgent, link, session, seen>>
      BY <1>12, <2>2 DEF Receive, TypeOK, Processes, wires
    <3>2. SignalsSaid'
      BY <3>1 DEF StdinInv, SignalsSaid
    <3>3. ASSUME ~seen'.overflow
          PROVE  \E c \in 0..InChunks : ReadFrom(c)' /\ SentAfter(c + Len(pipe.ch))'
      <4>1. PICK c \in 0..InChunks : ReadFrom(c) /\ SentAfter(c + Len(pipe.ch))
        BY <3>1, <3>3 DEF StdinInv
      <4>2. ReadFrom(c)'
        BY <3>1, <4>1, Zenon DEF ReadFrom
      <4>3. SentAfter(c + Len(pipe.ch))'
        BY <3>1, <4>1 DEF SentAfter
      <4>4. QED
        BY <4>2, <4>3
    <3>4. QED
      BY <3>2, <3>3, StdinFrom
  <2>3. QED
    BY <2>1, <2>2
<1>13. CASE RelayInput
  <2>1. CASE UNCHANGED <<client, toAgent>>
    BY <1>13, <2>1, StdinSame DEF RelayInput, agent
  <2>2. session # "none" /\ client.open /\ ~client.eof
    BY <1>13 DEF RelayInput, StartsOnce
  <2>3. CASE /\ client.sent < InChunks /\ client' = [client EXCEPT !.sent = @ + 1]
             /\ GatewaySends(<<"in", client.sent + 1>>)
    <3>1. <<"in", client.sent + 1>> \in ToAgent
      BY <2>3, NextInput, Signals
    <3>2. QED
      BY <1>13, <2>2, <2>3, <3>1, StdinRelay DEF RelayInput
  <2>4. CASE client' = [client EXCEPT !.eof = TRUE] /\ GatewaySends(<<Eof, 0>>)
    BY <1>13, <2>2, <2>4, Signals, StdinRelay DEF RelayInput
  <2>5. QED
    BY <1>13, <2>1, <2>3, <2>4 DEF RelayInput
<1>14. CASE Produce
  <2>1. UNCHANGED <<gateway, client, link, toAgent>>
    BY <1>14, Zenon DEF Produce
  <2>2. CASE /\ process' = [process EXCEPT !.out = @ + 1]
             /\ seen' = [seen EXCEPT !.via = Append(@, link.conn)] /\ UNCHANGED <<session, pipe>>
    <3>1. /\ process'.got = process.got /\ process'.read = process.read
          /\ seen'.overflow = seen.overflow
      BY <2>2, Zenon DEF TypeOK, Processes, Histories
    <3>2. QED
      BY <2>1, <2>2, <3>1, StdinSame, Zenon
  <2>3. CASE process' = [process EXCEPT !.mute = TRUE] /\ UNCHANGED <<session, pipe, toGateway, seen>>
    <3>1. process'.got = process.got /\ process'.read = process.read
      BY <2>3, Zenon DEF TypeOK, Processes
    <3>2. QED
      BY <2>1, <2>3, <3>1, StdinSame, Zenon
  <2>4. CASE EndSession(FALSE) /\ UNCHANGED <<process, seen>>
    BY <1>9, <2>1, <2>4, Zenon
  <2>5. QED
    BY <1>14, <2>2, <2>3, <2>4, Zenon DEF Produce
<1>15. CASE ClientLeaves
  <2>1. client'.sent = client.sent /\ client'.eof = client.eof /\ client'.open = FALSE
    BY <1>15 DEF ClientLeaves, TypeOK, Streams
  <2>2. QED
    BY <1>15, <2>1, StdinSame DEF ClientLeaves, wires, agent
<1>16. CASE LinkBreaks \/ CloseConnection
  <2>1. Cut /\ seen'.overflow = seen.overflow
    BY <1>16, Zenon DEF LinkBreaks, CloseConnection, TypeOK, Histories
  <2>2. UNCHANGED <<client, agent>> /\ link'.state = "broken"
    BY <2>1, CutType, Zenon DEF Cut
  <2>3. QED
    BY <2>1, <2>2, WireCut, StdinLost, Zenon
<1>17. CASE GoAway \/ Reconnect
  <2>1. seen'.overflow = seen.overflow
    BY <1>17, Zenon DEF GoAway, Reconnect, TypeOK, Histories
  <2>2. UNCHANGED <<client, agent>> /\ toAgent' = <<>>
    BY <1>17, Zenon DEF GoAway, Reconnect
  <2>3. DOMAIN toAgent' = {}
    BY <2>2
  <2>4. ~(link'.conn = 1 /\ link'.state = "up")
    <3>1. CASE GoAway
      <4>1. link'.state = "goaway"
        BY <3>1, Zenon DEF GoAway, TypeOK, Links
      <4>2. QED
        BY <4>1
    <3>2. CASE Reconnect
      <4>1. link'.conn = link.conn + 1
        BY <3>2 DEF Reconnect
      <4>2. link.conn \in Nat \ {0}
        BY LinkFields, ConnFacts, Zenon
      <4>3. QED
        BY <4>1, <4>2
    <3>3. QED
      BY <1>17, <3>1, <3>2
  <2>5. DOMAIN toAgent' \subseteq DOMAIN toAgent /\ \A i \in DOMAIN toAgent' : toAgent'[i] = toAgent[i]
    BY <2>3, Zenon
  <2>6. QED
    BY <2>1, <2>2, <2>4, <2>5, StdinLost, Zenon
<1>18. CASE UNCHANGED vars
  BY <1>18, StdinSame, Zenon DEF vars
<1>19. QED
  BY <1>1, <1>2, <1>3, <1>4, <1>5, <1>6, <1>7, <1>8, <1>10, <1>11, <1>12, <1>13,
     <1>14, <1>15, <1>16, <1>17, <1>18, Zenon DEF Next, Gateway, Agent, Wire, ReadLoop

-----------------------------------------------------------------------------

\* A streaming session never leaves StreamInv, whatever breaks and whoever leaves.
THEOREM StreamInvariant == Spec => []StreamInv
<1>1. Init => StreamInv
  BY TypeInit, LinkInit, StartsInit, OrderInit, WholeInit, StdinInit, Zenon DEF StreamInv
<1>2. StreamInv /\ [Next]_vars => StreamInv'
  BY TypeStep, LinkStep, StartsStep, OrderStep, WholeStep, StdinStep, Zenon DEF StreamInv
<1>3. QED
  BY <1>1, <1>2, PTL DEF Spec

\* Handlers, sessions and messages keep their types and channels their capacity
\* (streamSession.fromAgent, stdinPipeReader.ch).
THEOREM TypeCorrect == Spec => []TypeOK
<1>1. StreamInv => TypeOK
  BY DEF StreamInv
<1>2. QED
  BY <1>1, StreamInvariant, PTL

\* Output reaches the client in the order the process wrote it, connection by
\* connection and never twice, and without holes while the connection holds and
\* no chunk is dropped for back-pressure (handleStreamChunk, the output loops of
\* handleExec and handleWirelogs).
THEOREM OutputIsInOrder == Spec => []OutputInOrder
<1>1. StreamInv => OutputInOrder
  <2>. SUFFICES ASSUME StreamInv PROVE OutputInOrder
    OBVIOUS
  <2>1. TypeOK /\ OrderInv /\ WholeInv
    BY Zenon DEF StreamInv
  <2>. DEFINE got == client.got
              via == seen.via
  <2>2. got \in Seq(Outputs) /\ via \in Seq(Conns)
    BY <2>1, Zenon DEF TypeOK, Streams, Histories
  <2>3. ASSUME NEW i \in DOMAIN got PROVE got[i] \in Nat /\ via[got[i]] \in Conns
    <3>1. got[i] <= Len(via)
      BY <2>1, Zenon DEF OrderInv
    <3>. HIDE DEF got, via
    <3>2. got[i] \in Outputs
      BY <2>2
    <3>3. got[i] \in Nat \ {0}
      BY <3>2, SizeAssumption DEF Outputs
    <3>. DEFINE x == got[i]
    <3>4. x \in Nat \ {0} /\ x <= Len(via)
      BY <3>1, <3>3
    <3>. HIDE DEF x
    <3>5. via[x] \in Conns /\ x \in Nat
      BY <2>2, <3>4
    <3>6. QED
      BY <3>5 DEF x
  <2>4. ASSUME NEW i \in DOMAIN got, NEW j \in DOMAIN got, i < j
        PROVE  /\ got[i] # got[j]
               /\ Together(got[i], got[j]) => got[i] < got[j]
    <3>1. ASSUME via[got[i]] = via[got[j]] PROVE got[i] < got[j]
      <4>1. Chained(got, Line(via[got[i]]), via, via[got[i]])
        BY <2>1, <2>3, Zenon DEF OrderInv
      <4>2. QED
        BY <2>4, <3>1, <4>1, Zenon DEF Chained
    <3>2. got[i] # got[j]
      <4>1. ASSUME got[i] = got[j] PROVE FALSE
        <5>. DEFINE x == got[i]
        <5>1. x < x /\ x \in Nat
          BY <2>3, <3>1, <4>1, Zenon
        <5>. HIDE DEF x
        <5>2. QED
          BY <5>1
      <4>2. QED
        BY <4>1
    <3>3. QED
      BY <3>1, <3>2, Zenon DEF Together
  <2>5. seen.breaks = 0 /\ ~seen.pressure => WithoutHoles(got)
    BY <2>1, Zenon DEF WholeInv, Unbroken
  <2>6. QED
    BY <2>4, <2>5, Zenon DEF OutputInOrder
<1>2. QED
  BY <1>1, StreamInvariant, PTL

\* A normal closure follows the last byte of output (sendStreamClose, the output
\* loops of handleExec and handleWirelogs).
THEOREM NormalCloseIsLast == Spec => []NormalCloseIsComplete
<1>1. StreamInv => NormalCloseIsComplete
  BY Zenon DEF StreamInv, WholeInv, NormalCloseIsComplete, Unbroken
<1>2. QED
  BY <1>1, StreamInvariant, PTL

\* The process reads the client's bytes in the order they were sent while the
\* stdin channel does not overflow (stdinPipeReader.Write, Read).
THEOREM StdinIsInOrder == Spec => []StdinInOrder
<1>1. StreamInv => StdinInOrder
  BY Zenon DEF StreamInv, StdinInv, StdinInOrder, ReadFrom
<1>2. QED
  BY <1>1, StreamInvariant, PTL
=============================================================================
