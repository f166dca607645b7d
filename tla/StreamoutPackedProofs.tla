------------------------ MODULE StreamoutPackedProofs -------------------------
(***************************************************************************)
(* A draw whose streams capture into one buffer each needs no order: the   *)
(* ranges stay apart and the final offset is the end of the last one,      *)
(* whatever order the workgroups reserve in.                               *)
(***************************************************************************)
EXTENDS OrderedStreamoutProofs

-----------------------------------------------------------------------------
(* Less everywhere adds up to less.                                        *)
LEMMA TotalGrows ==
  ASSUME NEW f, NEW h, \A w \in Workgroups : f[w] \in Nat /\ h[w] \in Nat /\ f[w] <= h[w]
  PROVE  Total(f) \in Nat /\ Total(h) \in Nat /\ Total(f) <= Total(h)
<1>1. PICK g : /\ g[0] = 0 /\ \A w \in 1..N : g[w] = g[w - 1] + f[w]
               /\ Total(f) = g[N]
  BY TotalIs, Zenon
<1>2. PICK k : /\ k[0] = 0 /\ \A w \in 1..N : k[w] = k[w - 1] + h[w]
               /\ Total(h) = k[N]
  BY TotalIs, Zenon
<1>3. N \in Nat BY NAssumption, Zenon
<1> DEFINE S == {n \in Nat : g[n] \in Nat /\ k[n] \in Nat /\ g[n] <= k[n]}
<1>4. 0 \in S BY <1>1, <1>2
<1>5. ASSUME NEW n \in 0..N - 1, n \in S PROVE n + 1 \in S
  <2>1. n + 1 \in 1..N /\ (n + 1) - 1 = n /\ n \in Nat BY <1>3
  <2>2. g[n + 1] = g[n] + f[n + 1] /\ k[n + 1] = k[n] + h[n + 1] BY <1>1, <1>2, <2>1, Zenon
  <2>3. f[n + 1] \in Nat /\ h[n + 1] \in Nat /\ f[n + 1] <= h[n + 1]
    BY <2>1, Zenon DEF Workgroups
  <2>4. g[n] \in Nat /\ k[n] \in Nat /\ g[n] <= k[n] BY <1>5, Zenon
  <2>5. g[n + 1] \in Nat /\ k[n + 1] \in Nat /\ g[n + 1] <= k[n + 1] BY <2>2, <2>3, <2>4
  <2> QED BY <2>1, <2>5
<1>6. \A n \in 0..N : n \in S
  <2> HIDE DEF S
  <2> QED BY <1>3, <1>4, <1>5, OneByOne, Zenon
<1>7. N \in S BY <1>3, <1>6
<1> QED BY <1>1, <1>2, <1>7, Zenon

-----------------------------------------------------------------------------
(* A draw that captures every stream into one buffer.                      *)
OneBufferEach == \A b, c \in Buffers : BufferStream[b] = BufferStream[c] => b = c

(* Workgroups that reserved, and that returned what they do not write.     *)
Has(w, b)      == Reserved(w) \/ (pc[w] = "reserve" /\ b \notin todo[w])
Returned(w, b) ==
    pc[w] \in {"count", "release", "done"} \/ (pc[w] = "return" /\ b \notin todo[w])

(* Bytes of buffer b that workgroups keep, and that the counter holds.     *)
Kept(b)  == [w \in Workgroups |-> IF Has(w, b) THEN Written(w, b) ELSE 0]
Taken(b) == [w \in Workgroups |->
    IF ~Has(w, b) THEN 0
    ELSE IF Returned(w, b) THEN Written(w, b) ELSE workgroup_buffer_size(w, b)]

Full(b)        == Start[b] + Total(Kept(b))
Captures(w, b) == Has(w, b) /\ Written(w, b) > 0
Clipped(w, b)  == Has(w, b) /\ Written(w, b) # workgroup_buffer_size(w, b)

(* The captures are packed from the start of the draw on: none overlaps,   *)
(* the last one ends where the bytes kept end, and once a workgroup does   *)
(* not get all it wants no room for a primitive is left.                   *)
Apart(v, w, b) == End(v, b) <= offset[w][b] \/ End(w, b) <= offset[v][b]

Packed(b) ==
    /\ counter[b] = Start[b] + Total(Taken(b))
    /\ \A w \in Workgroups : Captures(w, b) => Start[b] <= offset[w][b] /\ End(w, b) <= Full(b)
    /\ \A v, w \in Workgroups : v # w /\ Captures(v, b) /\ Captures(w, b) => Apart(v, w, b)
    /\ (\E w \in Workgroups : Clipped(w, b)) => size[b] < Full(b) + Stride[b]
    /\ \/ \E w \in Workgroups : Captures(w, b) /\ End(w, b) = Full(b)
       \/ Full(b) = Start[b] /\ \A w \in Workgroups : ~Captures(w, b)

PackedInv == \A b \in Buffers : Packed(b)

-----------------------------------------------------------------------------
(* What a capture takes: whole primitives inside the buffer, no more than  *)
(* was reserved, and less only when the next primitive does not fit.       *)
CaptureFits(w, b) ==
    /\ Written(w, b) \in Nat /\ workgroup_buffer_size(w, b) \in Nat
    /\ Written(w, b) <= workgroup_buffer_size(w, b)
    /\ Written(w, b) > 0 => Stride[b] <= Written(w, b) /\ End(w, b) <= size[b]
    /\ Written(w, b) # workgroup_buffer_size(w, b) =>
           size[b] < offset[w][b] + Written(w, b) + Stride[b]

AllCapturesFit == \A w \in Workgroups, b \in Buffers : CaptureFits(w, b)

(* Another buffer does not limit the stream of this one.                   *)
LEMMA OwnLimit ==
  ASSUME OneBufferEach, NEW w, NEW b \in Buffers, NEW c, c # b
  PROVE  Limit(w, BufferStream[b], c) = gen[w][BufferStream[b]]
BY Zenon DEF OneBufferEach, Limit

(* CaptureFits holds of every capture when each stream has one buffer.     *)
LEMMA CaptureFitsBuffer ==
  ASSUME OneBufferEach, TypeOK, NEW w \in Workgroups, NEW b \in Buffers
  PROVE  CaptureFits(w, b)
<1> DEFINE s == BufferStream[b]
           e == emit_prim(w, s)
           g == gen[w][s]
           o == buffer_offset(w, b)
<1>1. s \in Streams /\ Stride[b] \in Nat \ {0} /\ b \in 0..3 BY BuffersAssumption, Zenon
<1>2. e \in Nat /\ e <= g /\ (e < g => \E c \in 0..3 : e = Limit(w, s, c))
  BY <1>1, LeastLimit, Zenon
<1>3. g \in Nat BY <1>1 DEF TypeOK
<1>4. Written(w, b) = e * Stride[b] BY Zenon DEF Written
<1>5. size[b] \in Nat /\ o \in Int /\ offset[w][b] \in Int BY DEF TypeOK, buffer_offset
<1>6. Written(w, b) \in Nat BY WrittenNat, Zenon
<1>7. Written(w, b) > 0 => size[b] # 0 /\ End(w, b) <= size[b] BY StaysInside, Zenon
<1>8. CASE size[b] = 0
  <2>1. workgroup_buffer_size(w, b) = 0 BY <1>8, Zenon DEF workgroup_buffer_size
  <2>2. Written(w, b) = 0 BY <1>6, <1>7, <1>8
  <2> QED BY <2>1, <2>2 DEF CaptureFits
<1>9. CASE size[b] # 0
  <2>1. workgroup_buffer_size(w, b) = g * Stride[b] /\ o = offset[w][b]
    BY <1>9, Zenon DEF workgroup_buffer_size, buffer_offset
  <2>2. g * Stride[b] \in Nat /\ e * Stride[b] <= g * Stride[b] BY <1>1, <1>2, <1>3, FewerBytes
  <2>3. e * Stride[b] > 0 => Stride[b] <= e * Stride[b]
    <3> HIDE DEF e
    <3>1. CASE e = 0
      <4>1. e * Stride[b] = 0 BY <1>1, <3>1
      <4> QED BY <4>1
    <3>2. CASE e # 0
      <4>1. 1 <= e /\ 1 \in Nat BY <1>2, <3>2
      <4>2. 1 * Stride[b] <= e * Stride[b] BY <1>1, <1>2, <4>1, FewerBytes, Zenon
      <4>3. 1 * Stride[b] = Stride[b] BY <1>1
      <4> QED BY <4>2, <4>3, Zenon
    <3> QED BY <3>1, <3>2, Zenon
  <2>4. ASSUME e * Stride[b] # g * Stride[b] PROVE size[b] < o + e * Stride[b] + Stride[b]
    <3>1. e < g
      <4> HIDE DEF e, g
      <4>1. e # g BY <2>4, Zenon
      <4> QED BY <1>2, <1>3, <4>1
    <3>2. PICK c \in 0..3 : e = Limit(w, s, c) BY <1>2, <3>1, Zenon
    <3>3. e # g
      <4> HIDE DEF e, g
      <4> QED BY <1>2, <3>1
    <3>4. c = b BY <3>2, <3>3, OwnLimit, Zenon
    <3>5. e = Limit(w, s, b) BY <3>2, <3>4, Zenon
    <3>6. e + 1 \in Nat /\ ~(e + 1 <= e)
      <4> HIDE DEF e
      <4> QED BY <1>2
    <3>7. ~(o + (e + 1) * Stride[b] <= size[b])
      <4>1. CASE size[b] >= o BY <3>5, <3>6, <4>1, RoomForLimit, Zenon
      <4>2. CASE size[b] < o
        <5>1. o + (e + 1) * Stride[b] > size[b] BY <3>6, <4>2, RoomForLimit, Zenon
        <5>2. (e + 1) * Stride[b] \in Nat
          <6> HIDE DEF e
          <6> QED BY <1>1, <3>6
        <5> HIDE DEF e, o
        <5> QED BY <1>5, <5>1, <5>2
      <4> QED BY <1>5, <4>1, <4>2
    <3>8. (e + 1) * Stride[b] = e * Stride[b] + Stride[b] /\ e * Stride[b] \in Nat
      <4> HIDE DEF e
      <4> QED BY <1>1, <1>2
    <3> DEFINE x == e * Stride[b]
               y == (e + 1) * Stride[b]
    <3>9. y = x + Stride[b] /\ x \in Nat /\ ~(o + y <= size[b]) BY <3>7, <3>8, Zenon
    <3> HIDE DEF e, o, x, y
    <3>10. size[b] < o + x + Stride[b] BY <1>1, <1>5, <3>9
    <3> QED BY <3>10, Zenon DEF x
  <2> HIDE DEF e, g, o
  <2>5. workgroup_buffer_size(w, b) \in Nat /\ Written(w, b) <= workgroup_buffer_size(w, b)
    BY <1>4, <2>1, <2>2, Zenon
  <2>6. Written(w, b) > 0 => Stride[b] <= Written(w, b) BY <1>4, <2>3, Zenon
  <2>7. Written(w, b) # workgroup_buffer_size(w, b) =>
            size[b] < offset[w][b] + Written(w, b) + Stride[b]
    BY <1>4, <2>1, <2>4, Zenon
  <2> QED BY <1>6, <1>7, <2>5, <2>6, <2>7, Zenon DEF CaptureFits
<1> QED BY <1>8, <1>9, Zenon

(* With one buffer to a stream the capture in a buffer depends on the      *)
(* offset in that buffer only.                                             *)
LEMMA SameCapture ==
  ASSUME OneBufferEach, UNCHANGED <<size, gen>>, NEW w, NEW b \in Buffers,
         offset'[w][b] = offset[w][b]
  PROVE  /\ Written(w, b)' = Written(w, b) /\ End(w, b)' = End(w, b)
         /\ workgroup_buffer_size(w, b)' = workgroup_buffer_size(w, b)
<1> DEFINE s == BufferStream[b]
<1>1. ASSUME NEW c PROVE Limit(w, s, c)' = Limit(w, s, c)
  <2>1. gen'[w][s] = gen[w][s] /\ size'[b] = size[b] BY Zenon
  <2>2. CASE c = b
    <3>1. buffer_offset(w, c)' = buffer_offset(w, c) BY <2>2, Zenon DEF buffer_offset
    <3> QED BY <2>1, <2>2, <3>1, Zenon DEF Limit
  <2>3. CASE c # b
    <3>1. Limit(w, s, c) = gen[w][s] BY <2>3, OwnLimit, Zenon
    <3>2. Limit(w, s, c)' = gen'[w][s] BY <2>3, Zenon DEF OneBufferEach, Limit
    <3> QED BY <2>1, <3>1, <3>2, Zenon
  <2> QED BY <2>2, <2>3, Zenon
<1>2. emit_prim(w, s)' = emit_prim(w, s) BY <1>1 DEF emit_prim
<1>3. Written(w, b)' = Written(w, b) BY <1>2, Zenon DEF Written
<1> QED BY <1>3, Zenon DEF End, workgroup_buffer_size

-----------------------------------------------------------------------------
(* A step that neither reserves of a buffer nor returns leaves it packed.  *)
LEMMA SamePacked ==
  ASSUME OneBufferEach, NEW b \in Buffers, Packed(b), UNCHANGED <<size, gen>>,
         counter'[b] = counter[b],
         \A v \in Workgroups : /\ Has(v, b)' <=> Has(v, b)
                               /\ Returned(v, b)' <=> Returned(v, b)
                               /\ offset'[v][b] = offset[v][b]
  PROVE  Packed(b)'
<1>1. \A v \in Workgroups : /\ Written(v, b)' = Written(v, b) /\ End(v, b)' = End(v, b)
                            /\ workgroup_buffer_size(v, b)' = workgroup_buffer_size(v, b)
  BY SameCapture, Zenon
<1>2. Kept(b)' = Kept(b) BY <1>1, Zenon DEF Kept
<1>3. Taken(b)' = Taken(b) BY <1>1, Zenon DEF Taken
<1>4. Full(b)' = Full(b) BY <1>2, Zenon DEF Full
<1>5. \A v \in Workgroups : /\ Captures(v, b)' <=> Captures(v, b)
                            /\ Clipped(v, b)' <=> Clipped(v, b)
  BY <1>1, Zenon DEF Captures, Clipped
<1>6. \A v, w \in Workgroups : Apart(v, w, b)' <=> Apart(v, w, b) BY <1>1, Zenon DEF Apart
<1> QED BY <1>1, <1>3, <1>4, <1>5, <1>6, Zenon DEF Packed

(* The shares are numbers, and the counter is not below the bytes kept.    *)
LEMMA KeptTaken ==
  ASSUME NEW b \in Buffers, Packed(b), \A v \in Workgroups : CaptureFits(v, b)
  PROVE  /\ \A v \in Workgroups : /\ Kept(b)[v] \in Nat /\ Taken(b)[v] \in Nat
                                  /\ Kept(b)[v] <= Taken(b)[v]
         /\ Full(b) \in Nat /\ counter[b] \in Nat /\ Full(b) <= counter[b]
         /\ counter[b] # Full(b) => size[b] < Full(b) + Stride[b]
<1> DEFINE f == Kept(b)
           h == Taken(b)
<1>1. ASSUME NEW v \in Workgroups PROVE f[v] \in Nat /\ h[v] \in Nat /\ f[v] <= h[v]
  BY DEF CaptureFits, Kept, Taken
<1>2. Start[b] \in Nat BY BuffersAssumption, Zenon
<1>3. Full(b) = Start[b] + Total(f) /\ counter[b] = Start[b] + Total(h)
  BY Zenon DEF Full, Packed
<1>4. ASSUME \A v \in Workgroups : ~Clipped(v, b) PROVE f = h
  <2>1. ASSUME NEW v \in Workgroups, Has(v, b)
        PROVE  Written(v, b) = workgroup_buffer_size(v, b)
    BY <1>4, <2>1, Zenon DEF Clipped
  <2> QED BY <2>1, Zenon DEF Kept, Taken
<1> HIDE DEF f, h
<1>5. Total(f) \in Nat /\ Total(h) \in Nat /\ Total(f) <= Total(h) BY <1>1, TotalGrows, Zenon
<1>6. Full(b) \in Nat /\ counter[b] \in Nat /\ Full(b) <= counter[b] BY <1>2, <1>3, <1>5
<1>7. counter[b] # Full(b) => size[b] < Full(b) + Stride[b] BY <1>3, <1>4, Zenon DEF Packed
<1> QED BY <1>1, <1>6, <1>7, Zenon DEF f, h

(* A reservation that gets room begins where the bytes kept end.           *)
LEMMA ReservePacked ==
  ASSUME OneBufferEach, TypeOK, NEW b \in Buffers, NEW w \in Workgroups,
         \A v \in Workgroups : CaptureFits(v, b),
         CaptureFits(w, b)', Packed(b), UNCHANGED <<size, gen>>,
         ~Has(w, b), Has(w, b)', ~Returned(w, b)',
         offset'[w][b] = counter[b], counter'[b] = counter[b] + workgroup_buffer_size(w, b),
         \A v \in Workgroups \ {w} : /\ Has(v, b)' <=> Has(v, b)
                                     /\ Returned(v, b)' <=> Returned(v, b)
                                     /\ offset'[v][b] = offset[v][b]
  PROVE  Packed(b)'
<1> DEFINE x == Written(w, b)'
           n == workgroup_buffer_size(w, b)
           p == Full(b)
<1>1. \A v \in Workgroups \ {w} :
        /\ Written(v, b)' = Written(v, b) /\ End(v, b)' = End(v, b)
        /\ workgroup_buffer_size(v, b)' = workgroup_buffer_size(v, b)
  BY SameCapture, Zenon
<1>2. workgroup_buffer_size(w, b)' = n BY Zenon DEF workgroup_buffer_size
<1>3. size[b] \in Nat /\ Stride[b] \in Nat \ {0} /\ Start[b] \in Nat
  BY BuffersAssumption, Zenon DEF TypeOK
<1>4. /\ x \in Nat /\ n \in Nat
      /\ x > 0 => Stride[b] <= x /\ End(w, b)' <= size[b]
      /\ x # n => size[b] < counter[b] + x + Stride[b]
      /\ End(w, b)' = counter[b] + x
  <2>1. End(w, b)' = counter[b] + x BY Zenon DEF End
  <2> QED BY <1>2, <2>1, Zenon DEF CaptureFits
<1>5. /\ p \in Nat /\ counter[b] \in Nat /\ p <= counter[b]
      /\ counter[b] # p => size[b] < p + Stride[b]
  BY KeptTaken, Zenon
<1>6. Full(b)' = p + x
  <2> DEFINE f == Kept(b)
             h == Kept(b)'
  <2>1. ASSUME NEW v \in Workgroups PROVE f[v] \in Nat /\ h[v] = f[v] + (IF v = w THEN x ELSE 0)
    <3>1. f[v] \in Nat BY KeptTaken, Zenon
    <3>2. CASE v = w
      <4>1. f[v] = 0 /\ h[v] = x BY <3>2, Zenon DEF Kept
      <4> HIDE DEF f, h, x
      <4> QED BY <1>4, <3>2, <4>1
    <3>3. CASE v # w
      <4>1. h[v] = f[v] BY <1>1, <3>3, Zenon DEF Kept
      <4> HIDE DEF f, h, x
      <4> QED BY <3>1, <3>3, <4>1
    <3> QED BY <3>1, <3>2, <3>3, Zenon
  <2>2. p = Start[b] + Total(f) /\ Full(b)' = Start[b] + Total(h) BY Zenon DEF Full
  <2>4. Total(f) \in Nat
    <3>1. \A v \in Workgroups : f[v] \in Nat /\ f[v] <= f[v]
      <4> HIDE DEF f, h
      <4> QED BY <2>1
    <3> HIDE DEF f
    <3> QED BY <3>1, TotalGrows, Zenon
  <2> HIDE DEF f, h, x, p
  <2>3. Total(h) = Total(f) + x BY <1>4, <2>1, TotalMoves, Zenon
  <2> QED BY <1>3, <1>4, <2>2, <2>3, <2>4
<1>7. counter'[b] = Start[b] + Total(Taken(b))'
  <2> DEFINE f == Taken(b)
             h == Taken(b)'
  <2>1. ASSUME NEW v \in Workgroups PROVE f[v] \in Nat /\ h[v] = f[v] + (IF v = w THEN n ELSE 0)
    <3>1. f[v] \in Nat BY KeptTaken, Zenon
    <3>2. CASE v = w
      <4>1. f[v] = 0 /\ h[v] = n BY <1>2, <3>2, Zenon DEF Taken
      <4> HIDE DEF f, h, n
      <4> QED BY <1>4, <3>2, <4>1
    <3>3. CASE v # w
      <4>1. h[v] = f[v] BY <1>1, <3>3, Zenon DEF Taken
      <4> HIDE DEF f, h, n
      <4> QED BY <3>1, <3>3, <4>1
    <3> QED BY <3>1, <3>2, <3>3, Zenon
  <2>2. counter[b] = Start[b] + Total(f) /\ counter'[b] = counter[b] + n BY Zenon DEF Packed
  <2>5. Total(h) = Total(Taken(b))' BY Zenon
  <2>4. Total(f) \in Nat
    <3>1. \A v \in Workgroups : f[v] \in Nat /\ f[v] <= f[v]
      <4> HIDE DEF f, h
      <4> QED BY <2>1
    <3> HIDE DEF f
    <3> QED BY <3>1, TotalGrows, Zenon
  <2> HIDE DEF f, h, n
  <2>3. Total(h) = Total(f) + n BY <1>4, <2>1, TotalMoves, Zenon
  <2> QED BY <1>3, <1>4, <2>2, <2>3, <2>4, <2>5
<1>8. \A v \in Workgroups \ {w} : /\ Captures(v, b)' <=> Captures(v, b)
                                  /\ Clipped(v, b)' <=> Clipped(v, b)
  BY <1>1, Zenon DEF Captures, Clipped
<1>9. (Captures(w, b)' <=> x > 0) /\ (Clipped(w, b)' <=> x # n)
  BY <1>2, Zenon DEF Captures, Clipped
<1>10. ~Captures(w, b) /\ ~Clipped(w, b) BY Zenon DEF Captures, Clipped
<1>11. x > 0 => counter[b] = p
  <2> HIDE DEF x, p
  <2> QED BY <1>3, <1>4, <1>5
<1>12. \A v \in Workgroups : Captures(v, b) => End(v, b) <= p /\ Start[b] <= offset[v][b] /\ End(v, b) \in Int
  BY BytesType, Zenon DEF Packed
<1>13. Start[b] <= p
  <2>1. ASSUME NEW v \in Workgroups PROVE Kept(b)[v] \in Nat /\ Kept(b)[v] <= Kept(b)[v]
    <3>1. Kept(b)[v] \in Nat BY KeptTaken, Zenon
    <3> QED BY <3>1
  <2>2. Total(Kept(b)) \in Nat BY <2>1, TotalGrows, Zenon
  <2> QED BY <1>3, <2>2 DEF Full
<1> HIDE DEF x, n, p
<1>14. ASSUME NEW v \in Workgroups, Captures(v, b)'
       PROVE  Start[b] <= offset'[v][b] /\ End(v, b)' <= Full(b)'
  <2>1. CASE v = w BY <1>3, <1>4, <1>5, <1>6, <1>9, <1>11, <1>13, <1>14, <2>1
  <2>2. CASE v # w
    <3>1. Captures(v, b) BY <1>8, <1>14, <2>2, Zenon
    <3>2. End(v, b) <= p /\ Start[b] <= offset[v][b] /\ End(v, b) \in Int BY <1>12, <3>1, Zenon
    <3>3. End(v, b) <= p + x BY <1>4, <1>5, <3>2
    <3> QED BY <1>1, <1>6, <2>2, <3>2, <3>3, Zenon
  <2> QED BY <2>1, <2>2, Zenon
<1>15. ASSUME NEW v \in Workgroups, v # w, Captures(v, b)' PROVE End(v, b)' <= offset'[w][b]
  <2>1. Captures(v, b) BY <1>8, <1>15, Zenon
  <2>2. End(v, b) <= p /\ End(v, b) \in Int BY <1>12, <2>1, Zenon
  <2>3. End(v, b) <= counter[b] BY <1>5, <2>2
  <2> QED BY <1>1, <1>15, <2>3, Zenon
<1>16. ASSUME NEW v \in Workgroups, NEW u \in Workgroups, v # u, Captures(v, b)', Captures(u, b)'
       PROVE  Apart(v, u, b)'
  <2>1. CASE u = w BY <1>15, <1>16, <2>1, Zenon DEF Apart
  <2>2. CASE v = w BY <1>15, <1>16, <2>2, Zenon DEF Apart
  <2>3. CASE u # w /\ v # w
    <3>1. Captures(v, b) /\ Captures(u, b) BY <1>8, <1>16, <2>3, Zenon
    <3>2. Apart(v, u, b) BY <1>16, <3>1, Zenon DEF Packed
    <3> QED BY <1>1, <2>3, <3>2, Zenon DEF Apart
  <2> QED BY <2>1, <2>2, <2>3, Zenon
<1>17. ASSUME NEW v \in Workgroups, Clipped(v, b)' PROVE size'[b] < Full(b)' + Stride[b]
  <2>1. CASE v # w
    <3>1. Clipped(v, b) BY <1>8, <1>17, <2>1, Zenon
    <3>2. size[b] < p + Stride[b] BY <3>1, Zenon DEF Packed, p
    <3>3. size[b] < p + x + Stride[b] BY <1>3, <1>4, <1>5, <3>2
    <3> QED BY <1>6, <3>3, Zenon
  <2>2. CASE v = w
    <3>1. size[b] < counter[b] + x + Stride[b] BY <1>4, <1>9, <1>17, <2>2, Zenon
    <3>2. size[b] < p + x + Stride[b]
      <4>1. CASE counter[b] = p BY <3>1, <4>1, Zenon
      <4>2. CASE counter[b] # p BY <1>3, <1>4, <1>5, <4>2
      <4> QED BY <4>1, <4>2, Zenon
    <3> QED BY <1>6, <3>2, Zenon
  <2> QED BY <2>1, <2>2, Zenon
<1>18. \/ \E v \in Workgroups : Captures(v, b)' /\ End(v, b)' = Full(b)'
       \/ Full(b)' = Start[b] /\ \A v \in Workgroups : ~Captures(v, b)'
  <2>1. CASE x > 0 BY <1>4, <1>6, <1>9, <1>11, <2>1, Zenon
  <2>2. CASE ~(x > 0)
    <3>1. x = 0 /\ Full(b)' = p /\ ~Captures(w, b)' BY <1>4, <1>5, <1>6, <1>9, <2>2
    <3>2. CASE \E v \in Workgroups : Captures(v, b) /\ End(v, b) = p
      <4>1. PICK v \in Workgroups : Captures(v, b) /\ End(v, b) = p BY <3>2, Zenon
      <4>2. v # w BY <1>10, <4>1, Zenon
      <4> QED BY <1>1, <1>8, <3>1, <4>1, <4>2, Zenon
    <3>3. CASE p = Start[b] /\ \A v \in Workgroups : ~Captures(v, b)
      <4>1. \A v \in Workgroups : ~Captures(v, b)' BY <1>8, <3>1, <3>3, Zenon
      <4> QED BY <3>1, <3>3, <4>1, Zenon
    <3> QED BY <3>2, <3>3, Zenon DEF Packed, p
  <2> QED BY <2>1, <2>2, Zenon
<1> QED BY <1>7, <1>14, <1>16, <1>17, <1>18, Zenon DEF Packed

(* What a workgroup returns is what it did not keep.                       *)
LEMMA ReturnPacked ==
  ASSUME OneBufferEach, TypeOK, NEW b \in Buffers, NEW w \in Workgroups,
         \A v \in Workgroups : CaptureFits(v, b),
         Packed(b), UNCHANGED <<size, gen, offset>>,
         Has(w, b), ~Returned(w, b), Has(w, b)', Returned(w, b)',
         counter'[b] = counter[b] - (workgroup_buffer_size(w, b) - Written(w, b)),
         \A v \in Workgroups \ {w} : /\ Has(v, b)' <=> Has(v, b)
                                     /\ Returned(v, b)' <=> Returned(v, b)
  PROVE  Packed(b)'
<1>1. \A v \in Workgroups : /\ Written(v, b)' = Written(v, b) /\ End(v, b)' = End(v, b)
                            /\ workgroup_buffer_size(v, b)' = workgroup_buffer_size(v, b)
  BY SameCapture, Zenon
<1>2. \A v \in Workgroups : Has(v, b)' <=> Has(v, b) BY Zenon
<1>3. Kept(b)' = Kept(b) BY <1>1, <1>2, Zenon DEF Kept
<1>4. Full(b)' = Full(b) BY <1>3, Zenon DEF Full
<1>5. \A v \in Workgroups : /\ Captures(v, b)' <=> Captures(v, b)
                            /\ Clipped(v, b)' <=> Clipped(v, b)
  BY <1>1, <1>2, Zenon DEF Captures, Clipped
<1>6. \A v, u \in Workgroups : Apart(v, u, b)' <=> Apart(v, u, b) BY <1>1, Zenon DEF Apart
<1>7. counter'[b] = Start[b] + Total(Taken(b))'
  <2> DEFINE f == Taken(b)
             h == Taken(b)'
             x == Written(w, b)
             n == workgroup_buffer_size(w, b)
             d == n - x
  <2>1. x \in Nat /\ n \in Nat /\ x <= n BY Zenon DEF CaptureFits
  <2>2. f[w] = n /\ h[w] = x BY <1>1, Zenon DEF Taken
  <2>3. ASSUME NEW v \in Workgroups, v # w PROVE f[v] = h[v] BY <1>1, <2>3, Zenon DEF Taken
  <2>4. \A v \in Workgroups : f[v] \in Nat BY KeptTaken, Zenon
  <2>5. counter[b] = Start[b] + Total(f) /\ counter'[b] = counter[b] - (n - x)
    BY Zenon DEF Packed
  <2>6. Total(h) = Total(Taken(b))' BY Zenon
  <2>7. Start[b] \in Nat BY BuffersAssumption, Zenon
  <2> HIDE DEF f, h, x, n
  <2>8. d \in Nat BY <2>1
  <2>9. ASSUME NEW v \in Workgroups PROVE h[v] \in Nat /\ f[v] = h[v] + (IF v = w THEN d ELSE 0)
    BY <2>1, <2>2, <2>3, <2>4
  <2>10. \A v \in Workgroups : h[v] \in Nat /\ h[v] <= h[v]
    <3>1. \A v \in Workgroups : h[v] \in Nat BY <2>9, Zenon
    <3> QED BY <3>1
  <2>11. Total(h) \in Nat BY <2>10, TotalGrows, Zenon
  <2> HIDE DEF d
  <2>12. Total(f) = Total(h) + d BY <2>8, <2>9, TotalMoves
  <2>13. counter'[b] = Start[b] + Total(h) BY <2>1, <2>5, <2>7, <2>8, <2>11, <2>12 DEF d
  <2> QED BY <2>6, <2>13, Zenon
<1> QED BY <1>1, <1>4, <1>5, <1>6, <1>7, Zenon DEF Packed

(* Packed buffers stay packed by a reservation,                            *)
LEMMA PackedReserve ==
  ASSUME OneBufferEach, TypeOK, TodoInv, AllCapturesFit, AllCapturesFit', PackedInv,
         NEW w \in Workgroups, Reserve(w)
  PROVE  PackedInv'
<1> DEFINE b == Lowest(todo[w])
<1>1. pc[w] = "reserve" BY Zenon DEF Reserve, Go
<1>2. b \in todo[w] /\ b \in Buffers BY <1>1, NextBuffer, Zenon
<1>3. /\ UNCHANGED <<size, gen>>
      /\ pc'[w] = (IF todo[w] = {b} THEN "return" ELSE "reserve")
      /\ todo'[w] = (IF todo[w] = {b} THEN Buffers ELSE todo[w] \ {b})
      /\ \A v \in Workgroups \ {w} : pc'[v] = pc[v] /\ todo'[v] = todo[v] /\ offset'[v] = offset[v]
      /\ offset'[w] = [offset[w] EXCEPT ![b] = counter[b]]
      /\ counter' = [counter EXCEPT ![b] = @ + workgroup_buffer_size(w, b)]
  BY Zenon DEF Reserve, Go, draw, TypeOK
<1> HIDE DEF b
<1>4. ASSUME NEW c \in Buffers PROVE Packed(c)'
  <2>1. Packed(c) /\ (\A v \in Workgroups : CaptureFits(v, c)) /\ CaptureFits(w, c)'
    BY Zenon DEF PackedInv, AllCapturesFit
  <2>2. \A v \in Workgroups \ {w} : /\ Has(v, c)' <=> Has(v, c)
                                    /\ Returned(v, c)' <=> Returned(v, c)
                                    /\ offset'[v][c] = offset[v][c]
    BY <1>3, Zenon DEF Has, Returned, Reserved
  <2>3. CASE c = b
    <3>1. ~Has(w, c) /\ Has(w, c)' /\ ~Returned(w, c)'
      BY <1>1, <1>2, <1>3, <2>3, Zenon DEF Has, Returned, Reserved
    <3>2. offset'[w][c] = counter[c] /\ counter'[c] = counter[c] + workgroup_buffer_size(w, c)
      BY <1>2, <1>3, <2>3 DEF TypeOK
    <3> QED BY <1>3, <2>1, <2>2, <3>1, <3>2, ReservePacked, Zenon
  <2>4. CASE c # b
    <3>1. /\ Has(w, c)' <=> Has(w, c)
          /\ Returned(w, c)' <=> Returned(w, c)
      BY <1>1, <1>2, <1>3, <2>4, Zenon DEF Has, Returned, Reserved
    <3>2. offset'[w][c] = offset[w][c] /\ counter'[c] = counter[c]
      BY <1>2, <1>3, <2>4 DEF TypeOK
    <3> QED BY <1>3, <2>1, <2>2, <3>1, <3>2, SamePacked, Zenon
  <2> QED BY <2>3, <2>4, Zenon
<1> QED BY <1>4, Zenon DEF PackedInv

(* by what is returned,                                                    *)
LEMMA PackedReturn ==
  ASSUME OneBufferEach, TypeOK, TodoInv, AllCapturesFit, PackedInv,
         NEW w \in Workgroups, ReturnUnused(w)
  PROVE  PackedInv'
<1> DEFINE b == Lowest(todo[w])
<1>1. pc[w] = "return" BY Zenon DEF ReturnUnused, Go
<1>2. b \in todo[w] /\ b \in Buffers BY <1>1, NextBuffer, Zenon
<1>3. /\ UNCHANGED <<size, gen, offset>>
      /\ pc'[w] = (IF todo[w] = {b} THEN "count" ELSE "return")
      /\ todo'[w] = (IF todo[w] = {b} THEN Streams ELSE todo[w] \ {b})
      /\ \A v \in Workgroups \ {w} : pc'[v] = pc[v] /\ todo'[v] = todo[v]
      /\ counter' = [counter EXCEPT ![b] = @ - (workgroup_buffer_size(w, b) - Written(w, b))]
  BY Zenon DEF ReturnUnused, Go, draw, TypeOK
<1> HIDE DEF b
<1>4. ASSUME NEW c \in Buffers PROVE Packed(c)'
  <2>1. Packed(c) /\ \A v \in Workgroups : CaptureFits(v, c)
    BY Zenon DEF PackedInv, AllCapturesFit
  <2>2. \A v \in Workgroups \ {w} : /\ Has(v, c)' <=> Has(v, c)
                                    /\ Returned(v, c)' <=> Returned(v, c)
    BY <1>3, Zenon DEF Has, Returned, Reserved
  <2>3. CASE c = b
    <3>1. Has(w, c) /\ Has(w, c)' /\ ~Returned(w, c) /\ Returned(w, c)'
      BY <1>1, <1>2, <1>3, <2>3, Zenon DEF Has, Returned, Reserved
    <3>2. counter'[c] = counter[c] - (workgroup_buffer_size(w, c) - Written(w, c))
      BY <1>2, <1>3, <2>3, Zenon DEF TypeOK
    <3> QED BY <1>3, <2>1, <2>2, <3>1, <3>2, ReturnPacked, Zenon
  <2>4. CASE c # b
    <3>1. /\ Has(w, c)' <=> Has(w, c)
          /\ Returned(w, c)' <=> Returned(w, c)
      BY <1>1, <1>2, <1>3, <2>4, Zenon DEF Has, Returned, Reserved
    <3>2. counter'[c] = counter[c] BY <1>2, <1>3, <2>4, Zenon DEF TypeOK
    <3> QED BY <1>3, <2>1, <2>2, <3>1, <3>2, SamePacked, Zenon
  <2> QED BY <2>3, <2>4, Zenon
<1> QED BY <1>4, Zenon DEF PackedInv

(* and by the other steps, which leave counters and ranges alone.          *)
LEMMA PackedOther ==
  ASSUME OneBufferEach, TypeOK, PackedInv, NEW w \in Workgroups,
         TakeTurn(w) \/ Spin(w) \/ GiveUp(w) \/ SkipWait(w) \/ Count(w) \/ Release(w)
  PROVE  PackedInv'
<1>1. /\ UNCHANGED <<size, gen, offset, counter>>
      /\ \A v \in Workgroups \ {w} : pc'[v] = pc[v] /\ todo'[v] = todo[v]
  BY Zenon DEF TypeOK, TakeTurn, Spin, GiveUp, SkipWait, Count, Release, Go, draw
<1>2. \/ pc[w] = "wait" /\ pc'[w] = "wait"
      \/ pc[w] = "wait" /\ pc'[w] = "reserve" /\ todo'[w] = Buffers
      \/ pc[w] \in {"count", "release"} /\ pc'[w] \in {"count", "release", "done"}
  BY Zenon DEF TypeOK, TakeTurn, Spin, GiveUp, SkipWait, Count, Release, Go
<1>3. ASSUME NEW c \in Buffers PROVE Packed(c)'
  <2>1. ASSUME NEW v \in Workgroups
        PROVE  /\ Has(v, c)' <=> Has(v, c)
               /\ Returned(v, c)' <=> Returned(v, c)
               /\ offset'[v][c] = offset[v][c]
    <3>1. CASE v # w BY <1>1, <3>1, Zenon DEF Has, Returned, Reserved
    <3>2. CASE v = w BY <1>1, <1>2, <3>2, Zenon DEF Has, Returned, Reserved
    <3> QED BY <3>1, <3>2, Zenon
  <2>2. Packed(c) BY Zenon DEF PackedInv
  <2> QED BY <1>1, <2>1, <2>2, SamePacked, Zenon
<1> QED BY <1>3, Zenon DEF PackedInv

(* A draw begins with nothing captured.                                    *)
LEMMA PackedInit == Init => PackedInv
<1> SUFFICES ASSUME Init, NEW b \in Buffers PROVE Packed(b)
  BY Zenon DEF PackedInv
<1>1. \A w \in Workgroups : ~Has(w, b) BY Zenon DEF Init, Has, Reserved
<1>2. \A w \in Workgroups : Kept(b)[w] = 0 /\ Taken(b)[w] = 0 BY <1>1, Zenon DEF Kept, Taken
<1>3. Total(Kept(b)) = 0 /\ Total(Taken(b)) = 0 BY <1>2, TotalZero, Zenon
<1>4. Start[b] \in Nat BY BuffersAssumption, Zenon
<1>5. Full(b) = Start[b] BY <1>3, <1>4 DEF Full
<1>6. counter[b] = Start[b] + Total(Taken(b)) BY <1>3, <1>4 DEF Init
<1>7. \A w \in Workgroups : ~Captures(w, b) /\ ~Clipped(w, b)
  BY <1>1, Zenon DEF Captures, Clipped
<1> QED BY <1>5, <1>6, <1>7, Zenon DEF Packed

(* With one buffer to a stream the captures are packed in whatever order   *)
(* the workgroups come, timeouts included.                                 *)
THEOREM PackedInvariant == ASSUME OneBufferEach PROVE Spec => []PackedInv
<1>1. SInv => AllCapturesFit BY CaptureFitsBuffer, Zenon DEF SInv, AllCapturesFit
<1>2. SInv /\ AllCapturesFit /\ AllCapturesFit' /\ PackedInv /\ [Next]_vars => PackedInv'
  <2> SUFFICES ASSUME SInv, AllCapturesFit, AllCapturesFit', PackedInv, [Next]_vars
               PROVE  PackedInv'
    BY Zenon
  <2>1. TypeOK /\ TodoInv BY Zenon DEF SInv
  <2>2. CASE UNCHANGED vars
    <3>1. UNCHANGED <<size, gen, pc, todo, offset, counter>> BY <2>2, Zenon DEF vars
    <3>2. ASSUME NEW c \in Buffers PROVE Packed(c)'
      <4>1. \A v \in Workgroups : /\ Has(v, c)' <=> Has(v, c)
                                  /\ Returned(v, c)' <=> Returned(v, c)
        BY <3>1, Zenon DEF Has, Returned, Reserved
      <4>2. Packed(c) BY Zenon DEF PackedInv
      <4> QED BY <3>1, <4>1, <4>2, SamePacked, Zenon
    <3> QED BY <3>2, Zenon DEF PackedInv
  <2>3. ASSUME NEW w \in Workgroups, Workgroup(w) PROVE PackedInv'
    <3>1. CASE Reserve(w) BY <2>1, <3>1, PackedReserve, Zenon
    <3>2. CASE ReturnUnused(w) BY <2>1, <3>2, PackedReturn, Zenon
    <3>3. CASE TakeTurn(w) \/ Spin(w) \/ GiveUp(w) \/ SkipWait(w) \/ Count(w) \/ Release(w)
      BY <2>1, <3>3, PackedOther, Zenon
    <3> QED BY <2>3, <3>1, <3>2, <3>3, Zenon DEF Workgroup
  <2> QED BY <2>2, <2>3, Zenon DEF Next, DrawEnds
<1> QED BY StreamoutInvariant, PackedInit, <1>1, <1>2, PTL DEF Spec

(* Two workgroups never capture into the same bytes of a buffer that is    *)
(* the only one of its stream, and none writes past its end.               *)
THEOREM OneBufferUniqueRanges == OneBufferEach => (Spec => []UniqueRanges)
<1> SUFFICES ASSUME OneBufferEach PROVE Spec => []UniqueRanges
  BY Zenon
<1>1. SInv /\ PackedInv => UniqueRanges
  <2> SUFFICES ASSUME TypeOK, PackedInv, NEW b \in Buffers,
                      NEW w \in Workgroups, Reserved(w), Written(w, b) > 0
               PROVE  /\ Start[b] <= offset[w][b] /\ End(w, b) <= size[b]
                      /\ \A v \in Workgroups \ {w} : Reserved(v) /\ Written(v, b) > 0 =>
                            End(w, b) <= offset[v][b] \/ End(v, b) <= offset[w][b]
    BY Zenon DEF SInv, UniqueRanges
  <2>1. \A v \in Workgroups : Reserved(v) /\ Written(v, b) > 0 => Captures(v, b)
    BY Zenon DEF Captures, Has
  <2>2. Packed(b) BY Zenon DEF PackedInv
  <2>3. End(w, b) <= size[b] BY StaysInside, Zenon
  <2> QED BY <2>1, <2>2, <2>3, Zenon DEF Packed, Apart
<1> QED BY StreamoutInvariant, PackedInvariant, <1>1, PTL

(* ... and the counter of such a buffer ends after the last capture.       *)
THEOREM OneBufferOffsetAfterLast == OneBufferEach => (Spec => []OffsetAfterLast)
<1> SUFFICES ASSUME OneBufferEach PROVE Spec => []OffsetAfterLast
  BY Zenon
<1>1. SInv /\ PackedInv => OffsetAfterLast
  <2> SUFFICES ASSUME TypeOK, PackedInv, Finished, NEW b \in Buffers
               PROVE  \/ \E w \in Workgroups :
                            /\ Written(w, b) > 0 /\ counter[b] = End(w, b)
                            /\ \A v \in Workgroups : Written(v, b) > 0 => End(v, b) <= End(w, b)
                      \/ counter[b] = Start[b] /\ \A w \in Workgroups : Written(w, b) = 0
    BY Zenon DEF SInv, OffsetAfterLast
  <2>1. \A w \in Workgroups : Has(w, b) /\ Returned(w, b)
    BY Zenon DEF Finished, Has, Returned, Reserved
  <2>2. Packed(b) BY Zenon DEF PackedInv
  <2>3. Kept(b) = Taken(b) BY <2>1, Zenon DEF Kept, Taken
  <2>4. counter[b] = Full(b) BY <2>2, <2>3, Zenon DEF Packed, Full
  <2>5. \A w \in Workgroups : Captures(w, b) <=> Written(w, b) > 0 BY <2>1, Zenon DEF Captures
  <2>6. \A w \in Workgroups : ~(Written(w, b) > 0) => Written(w, b) = 0
    <3> TAKE w \in Workgroups
    <3>1. Written(w, b) \in Nat BY WrittenNat, Zenon
    <3> QED BY <3>1
  <2>7. CASE \E w \in Workgroups : Captures(w, b) /\ End(w, b) = Full(b)
    BY <2>2, <2>4, <2>5, <2>7, Zenon DEF Packed
  <2>8. CASE Full(b) = Start[b] /\ \A w \in Workgroups : ~Captures(w, b)
    BY <2>4, <2>5, <2>6, <2>8, Zenon
  <2> QED BY <2>2, <2>7, <2>8, Zenon DEF Packed
<1> QED BY StreamoutInvariant, PackedInvariant, <1>1, PTL
=============================================================================
