------------------------ MODULE OrderedStreamoutProofs ------------------------
(***************************************************************************)
(* Captures are in primitive order for any number of workgroups, buffers   *)
(* and streams, as long as no wait timed out and the driver zeroed the     *)
(* ticket.  The ticket is a lock that is handed from each workgroup to the *)
(* next (Turn), and while workgroup k has it the offsets continue where    *)
(* the capture of k - 1 ended (Ranges).                                    *)
(***************************************************************************)
EXTENDS OrderedStreamout, WellFoundedInduction, TLAPS

(* The workgroup whose turn it is; N + 1 when all had theirs.              *)
Turn(k) ==
    /\ ticket = First[k]
    /\ \A w \in Workgroups : /\ w < k => pc[w] = "done"
                             /\ w > k => pc[w] = "wait"
                             /\ w = k => pc[w] # "done"

(* Where the capture before workgroup w ends.                              *)
Before(w, b) == IF w = 1 THEN Start[b] ELSE End(w - 1, b)

(* The counters during turn k, and the ranges that are final.              *)
Ranges(k) ==
    \A b \in Buffers :
        /\ k = N + 1 => counter[b] = Before(k, b)
        /\ k \in Workgroups =>
             /\ pc[k] = "wait" => counter[b] = Before(k, b)
             /\ pc[k] = "reserve" =>
                  IF b \in todo[k] THEN counter[b] = Before(k, b)
                  ELSE /\ offset[k][b] = Before(k, b)
                       /\ counter[b] = offset[k][b] + workgroup_buffer_size(k, b)
             /\ pc[k] = "return" =>
                  counter[b] = offset[k][b] + (IF b \in todo[k] THEN workgroup_buffer_size(k, b)
                                               ELSE Written(k, b))
             /\ pc[k] \in {"count", "release"} => counter[b] = End(k, b)
        /\ \A w \in Workgroups : Reserved(w) => offset[w][b] = Before(w, b)

(* The loops over buffers have a buffer left.                              *)
TodoInv ==
    \A w \in Workgroups : pc[w] \in {"reserve", "return"} =>
        todo[w] \subseteq Buffers /\ todo[w] # {}

Ordered == timeouts = 0 /\ Ticket0 = 0 /\ any_buffer_valid

OrderInv == Ordered => \E k \in 1..N + 1 : Turn(k) /\ Ranges(k)

SInv == TypeOK /\ TodoInv /\ OrderInv

-----------------------------------------------------------------------------
(* u_foreach_bit visits a buffer or a stream that is left.                 *)
LEMMA LowestOf ==
  ASSUME NEW S \in SUBSET (0..3), S # {}
  PROVE  Lowest(S) \in S
<1>2. \E x \in S : \A y \in S : x <= y
  <2>1. CASE 0 \in S BY <2>1
  <2>2. CASE 0 \notin S /\ 1 \in S BY <2>2
  <2>3. CASE 0 \notin S /\ 1 \notin S /\ 2 \in S BY <2>3
  <2>4. CASE 0 \notin S /\ 1 \notin S /\ 2 \notin S
    <3>1. PICK x \in S : TRUE BY Zenon
    <3>2. \A y \in S : y = 3 BY <2>4
    <3> QED BY <3>1, <3>2
  <2> QED BY <2>1, <2>2, <2>3, <2>4, Zenon
<1> QED BY <1>2, Zenon DEF Lowest

(* The loop over buffers takes one of them.                                *)
LEMMA LowestBuffer ==
  ASSUME NEW S \in SUBSET Buffers, S # {}
  PROVE  Lowest(S) \in S
BY LowestOf, BuffersAssumption, Zenon

(* What fits in a buffer is a number of primitives, never a negative one.  *)
LEMMA LimitType ==
  ASSUME TypeOK, NEW w \in Workgroups, NEW s \in Streams, NEW b \in 0..3
  PROVE  Limit(w, s, b) \in Nat
<1>1. gen[w][s] \in Nat BY Zenon DEF TypeOK
<1>2. CASE b \in Buffers
  <2>1. size[b] \in Nat /\ buffer_offset(w, b) \in Int /\ Stride[b] \in Nat \ {0}
    BY <1>2, BuffersAssumption DEF TypeOK, buffer_offset
  <2>2. ASSUME ~(size[b] < buffer_offset(w, b))
        PROVE  (size[b] - buffer_offset(w, b)) \div Stride[b] \in Nat
    <3> DEFINE d == size[b] - buffer_offset(w, b)
    <3>1. d \in Nat BY <2>1, <2>2
    <3> HIDE DEF d
    <3>2. d \div Stride[b] \in Nat BY <2>1, <3>1
    <3> QED BY <3>2, Zenon DEF d
  <2> QED BY <1>1, <2>2, Zenon DEF Limit
<1>3. CASE b \notin Buffers BY <1>1, <1>3, Zenon DEF Limit
<1> QED BY <1>2, <1>3, Zenon

(* A workgroup emits a number of primitives.                               *)
LEMMA EmitType ==
  ASSUME TypeOK, NEW w \in Workgroups, NEW s \in Streams
  PROVE  emit_prim(w, s) \in Nat
<1>1. gen[w][s] \in Nat BY Zenon DEF TypeOK
<1>2. Limit(w, s, 0) \in Nat /\ Limit(w, s, 1) \in Nat /\ Limit(w, s, 2) \in Nat
      /\ Limit(w, s, 3) \in Nat
  BY LimitType
<1> QED BY <1>1, <1>2, Zenon DEF emit_prim, imin

(* Sizes in bytes are integers.                                            *)
LEMMA BytesType ==
  ASSUME TypeOK, NEW w \in Workgroups, NEW b \in Buffers
  PROVE  Written(w, b) \in Int /\ workgroup_buffer_size(w, b) \in Int /\ End(w, b) \in Int
<1>1. BufferStream[b] \in Streams /\ Stride[b] \in Nat BY BuffersAssumption, Zenon
<1>2. emit_prim(w, BufferStream[b]) \in Nat BY <1>1, EmitType, Zenon
<1>3. Written(w, b) \in Int BY <1>1, <1>2 DEF Written
<1>4. gen[w][BufferStream[b]] \in Nat BY <1>1, Zenon DEF TypeOK
<1>5. workgroup_buffer_size(w, b) \in Int BY <1>1, <1>4 DEF workgroup_buffer_size
<1> QED BY <1>3, <1>5 DEF End, TypeOK

(* The loops over buffers visit a buffer that is left.                     *)
LEMMA NextBuffer ==
  ASSUME TodoInv, NEW w \in Workgroups, pc[w] \in {"reserve", "return"}
  PROVE  Lowest(todo[w]) \in todo[w] /\ Lowest(todo[w]) \in Buffers
BY LowestBuffer, Zenon DEF TodoInv

(* The steps keep the types: totals stay natural numbers.                  *)
LEMMA StreamoutType == TypeOK /\ TodoInv /\ [Next]_vars => TypeOK'
<1> SUFFICES ASSUME TypeOK, TodoInv, [Next]_vars PROVE TypeOK'
  BY Zenon
<1> USE DEF draw, Go, Steps
<1>1. ASSUME NEW w \in Workgroups, TakeTurn(w) PROVE TypeOK' BY <1>1, Zenon DEF TypeOK, TakeTurn
<1>2. ASSUME NEW w \in Workgroups, Spin(w) PROVE TypeOK'
  <2>1. spins[w] + 1 \in 0..SpinBound BY <1>2, BuffersAssumption DEF TypeOK, Spin
  <2> QED BY <1>2, <2>1, Zenon DEF TypeOK, Spin
<1>3. ASSUME NEW w \in Workgroups, GiveUp(w) PROVE TypeOK' BY <1>3 DEF TypeOK, GiveUp
<1>4. ASSUME NEW w \in Workgroups, SkipWait(w) PROVE TypeOK' BY <1>4, Zenon DEF TypeOK, SkipWait
<1>5. ASSUME NEW w \in Workgroups, Reserve(w) PROVE TypeOK'
  <2> DEFINE b == Lowest(todo[w])
             last == todo[w] = {b}
  <2>1. b \in Buffers BY <1>5, NextBuffer, Zenon DEF Reserve
  <2>2. workgroup_buffer_size(w, b) \in Int BY <2>1, BytesType, Zenon
  <2>3. /\ Go(w, "reserve", IF last THEN "return" ELSE "reserve",
              IF last THEN Buffers ELSE todo[w] \ {b})
        /\ offset' = [offset EXCEPT ![w][b] = counter[b]]
        /\ counter' = [counter EXCEPT ![b] = @ + workgroup_buffer_size(w, b)]
        /\ UNCHANGED <<size, gen, spins, generated, emitted, ticket, timeouts>>
    BY <1>5, Zenon DEF Reserve
  <2> HIDE DEF b
  <2>4. offset' \in [Workgroups -> [Buffers -> Int]] BY <2>1, <2>3, Zenon DEF TypeOK
  <2>5. counter' \in [Buffers -> Int] BY <2>1, <2>2, <2>3 DEF TypeOK
  <2>6. pc' \in [Workgroups -> Steps] /\ todo' \in [Workgroups -> SUBSET (Buffers \cup Streams)]
    BY <2>3, Zenon DEF TypeOK
  <2> QED BY <2>3, <2>4, <2>5, <2>6, Zenon DEF TypeOK
<1>6. ASSUME NEW w \in Workgroups, ReturnUnused(w) PROVE TypeOK'
  <2> DEFINE b == Lowest(todo[w])
             last == todo[w] = {b}
             unused == workgroup_buffer_size(w, b) - Written(w, b)
  <2>1. b \in Buffers BY <1>6, NextBuffer, Zenon DEF ReturnUnused
  <2>2. unused \in Int BY <2>1, BytesType
  <2>3. /\ Go(w, "return", IF last THEN "count" ELSE "return",
              IF last THEN Streams ELSE todo[w] \ {b})
        /\ counter' = [counter EXCEPT ![b] = @ - unused]
        /\ UNCHANGED <<size, gen, spins, offset, generated, emitted, ticket, timeouts>>
    BY <1>6, Zenon DEF ReturnUnused
  <2> HIDE DEF b, unused
  <2>4. counter' \in [Buffers -> Int] BY <2>1, <2>2, <2>3 DEF TypeOK
  <2>5. pc' \in [Workgroups -> Steps] /\ todo' \in [Workgroups -> SUBSET (Buffers \cup Streams)]
    BY <2>3, Zenon DEF TypeOK
  <2> QED BY <2>3, <2>4, <2>5, Zenon DEF TypeOK
<1>7. ASSUME NEW w \in Workgroups, Count(w) PROVE TypeOK'
  <2> DEFINE s == Lowest(todo[w])
  <2>1. /\ Go(w, "count", IF todo[w] = {s} THEN "release" ELSE "count", todo[w] \ {s})
        /\ generated' = [generated EXCEPT ![s] = @ + gen[w][s]]
        /\ emitted'   = [emitted EXCEPT ![s] = @ + emit_prim(w, s)]
        /\ UNCHANGED <<size, gen, spins, offset, counter, ticket, timeouts>>
    BY <1>7, Zenon DEF Count
  <2>2. s \in Streams => gen[w][s] \in Nat /\ emit_prim(w, s) \in Nat
    BY EmitType, Zenon DEF TypeOK
  <2> HIDE DEF s
  <2>3. generated' \in [Streams -> Nat] /\ emitted' \in [Streams -> Nat]
    <3>1. CASE s \in Streams BY <2>1, <2>2, <3>1 DEF TypeOK
    <3>2. CASE s \notin Streams
      <4>1. generated' = generated /\ emitted' = emitted BY <2>1, <3>2 DEF TypeOK
      <4> QED BY <4>1, Zenon DEF TypeOK
    <3> QED BY <3>1, <3>2, Zenon
  <2>5. pc' \in [Workgroups -> Steps] /\ todo' \in [Workgroups -> SUBSET (Buffers \cup Streams)]
    BY <2>1, Zenon DEF TypeOK
  <2> QED BY <2>1, <2>3, <2>5, Zenon DEF TypeOK
<1>8. ASSUME NEW w \in Workgroups, Release(w) PROVE TypeOK'
  <2>1. w + 1 \in 1..N + 1 BY NAssumption DEF Workgroups
  <2>2. ticket' \in Nat BY <1>8, <2>1, FirstAssumption, Zenon DEF TypeOK, Release
  <2> QED BY <1>8, <2>2, Zenon DEF TypeOK, Release
<1>9. CASE UNCHANGED vars BY <1>9, Zenon DEF TypeOK, vars
<1> QED
  BY <1>1, <1>2, <1>3, <1>4, <1>5, <1>6, <1>7, <1>8, <1>9, Zenon DEF Next, Workgroup, DrawEnds

(* Each loop is entered with every buffer and left with none.              *)
LEMMA StreamoutTodo == TypeOK /\ TodoInv /\ [Next]_vars => TodoInv'
<1> SUFFICES ASSUME TypeOK, TodoInv, [Next]_vars PROVE TodoInv'
  BY Zenon
<1> USE BuffersAssumption DEF TypeOK, TodoInv, draw, Go, Steps
<1>1. ASSUME NEW w \in Workgroups, TakeTurn(w) \/ Spin(w) \/ GiveUp(w) \/ SkipWait(w) PROVE TodoInv'
  BY <1>1, Zenon DEF TakeTurn, Spin, GiveUp, SkipWait
<1>2. ASSUME NEW w \in Workgroups, Reserve(w) PROVE TodoInv'
  <2>1. Lowest(todo[w]) \in todo[w] BY <1>2, LowestBuffer, Zenon DEF Reserve
  <2> QED BY <1>2, <2>1 DEF Reserve
<1>3. ASSUME NEW w \in Workgroups, ReturnUnused(w) PROVE TodoInv'
  <2>1. Lowest(todo[w]) \in todo[w] BY <1>3, LowestBuffer, Zenon DEF ReturnUnused
  <2> QED BY <1>3, <2>1 DEF ReturnUnused
<1>4. ASSUME NEW w \in Workgroups, Count(w) PROVE TodoInv'
  <2>1. pc'[w] \notin {"reserve", "return"} /\ todo' = [todo EXCEPT ![w] = todo'[w]]
        /\ \A v \in Workgroups \ {w} : pc'[v] = pc[v]
    BY <1>4, Zenon DEF Count
  <2> QED BY <2>1, Zenon
<1>5. ASSUME NEW w \in Workgroups, Release(w) PROVE TodoInv' BY <1>5, Zenon DEF Release
<1>6. CASE UNCHANGED vars BY <1>6, Zenon DEF vars
<1> HIDE DEF TypeOK, TodoInv, draw, Go, Steps
<1> QED BY <1>1, <1>2, <1>3, <1>4, <1>5, <1>6, Zenon DEF Next, Workgroup, DrawEnds

-----------------------------------------------------------------------------
(* What a workgroup captures depends on its own offsets only.              *)
LEMMA SameEmit ==
  ASSUME UNCHANGED <<size, gen>>, NEW w, NEW s, offset'[w] = offset[w]
  PROVE  emit_prim(w, s)' = emit_prim(w, s)
<1>1. \A c : buffer_offset(w, c)' = buffer_offset(w, c) BY Zenon DEF buffer_offset
<1>2. gen'[w][s] = gen[w][s] BY Zenon
<1>3. ASSUME NEW c PROVE Limit(w, s, c)' = Limit(w, s, c)
  <2>1. buffer_offset(w, c)' = buffer_offset(w, c) /\ size'[c] = size[c] BY <1>1, Zenon
  <2> QED BY <1>2, <2>1, Zenon DEF Limit
<1> QED BY <1>2, <1>3 DEF emit_prim

(* A capture is where the offset of its workgroup says.                    *)
LEMMA SameRange ==
  ASSUME UNCHANGED <<size, gen>>, NEW w, NEW b, offset'[w] = offset[w]
  PROVE  Written(w, b)' = Written(w, b) /\ End(w, b)' = End(w, b)
<1>1. emit_prim(w, BufferStream[b])' = emit_prim(w, BufferStream[b]) BY SameEmit, Zenon
<1> QED BY <1>1, Zenon DEF Written, End

(* ... so a range starts where it did unless the one before moved.         *)
LEMMA SameBefore ==
  ASSUME UNCHANGED <<size, gen>>, NEW w, NEW b, w = 1 \/ offset'[w - 1] = offset[w - 1]
  PROVE  Before(w, b)' = Before(w, b)
BY SameRange, Zenon DEF Before

(* A workgroup that is neither waiting nor done has the turn.              *)
LEMMA HasTurn ==
  ASSUME NEW k \in 1..N + 1, Turn(k), NEW w \in Workgroups, pc[w] \notin {"wait", "done"}
  PROVE  w = k
BY NAssumption DEF Turn, Workgroups

(* Two workgroups never wait for the same ticket.                          *)
LEMMA TicketsDiffer ==
  ASSUME NEW v \in 1..N + 1, NEW w \in 1..N + 1, First[v] = First[w]
  PROVE  v = w
<1>1. First[v] \in Nat /\ First[w] \in Nat BY FirstAssumption, Zenon
<1>2. ~(v < w) /\ ~(w < v) BY <1>1, FirstAssumption
<1> QED BY <1>2, NAssumption

(* Taking the turn: every buffer is still to be reserved.                  *)
LEMMA OrderTakeTurn ==
  ASSUME TypeOK, NEW k \in 1..N + 1, Turn(k), Ranges(k), NEW w \in Workgroups, TakeTurn(w)
  PROVE  Turn(k)' /\ Ranges(k)'
<1>1. w \in 1..N + 1 BY NAssumption DEF Workgroups
<1>2. w = k BY <1>1, TicketsDiffer, Zenon DEF TakeTurn, Turn
<1>3. /\ UNCHANGED <<size, gen, offset, counter, ticket>>
      /\ pc[k] = "wait" /\ pc' = [pc EXCEPT ![k] = "reserve"] /\ todo'[k] = Buffers
  BY <1>2, Zenon DEF TakeTurn, Go, draw, TypeOK
<1>4. \A v \in Workgroups : pc'[v] = IF v = k THEN "reserve" ELSE pc[v]
  BY <1>3, Zenon DEF TypeOK
<1>5. \A v, b : Before(v, b)' = Before(v, b) BY <1>3, SameBefore, Zenon
<1>6. Turn(k)' BY <1>2, <1>3, <1>4 DEF Turn
<1>7. \A v \in Workgroups : Reserved(v)' => Reserved(v) BY <1>4, Zenon DEF Reserved
<1>8. k # N + 1 BY <1>2, NAssumption DEF Workgroups
<1>9. Ranges(k)' BY <1>2, <1>3, <1>4, <1>5, <1>7, <1>8 DEF Ranges
<1> QED BY <1>6, <1>9, Zenon

(* Reserving a buffer: the range starts at the counter.                    *)
LEMMA OrderReserve ==
  ASSUME TypeOK, TodoInv, NEW k \in Workgroups, Turn(k), Ranges(k), Reserve(k)
  PROVE  Turn(k)' /\ Ranges(k)'
<1> DEFINE b == Lowest(todo[k])
           last == todo[k] = {b}
<1>1. /\ pc[k] = "reserve"
      /\ pc' = [pc EXCEPT ![k] = IF last THEN "return" ELSE "reserve"]
      /\ todo' = [todo EXCEPT ![k] = IF last THEN Buffers ELSE todo[k] \ {b}]
      /\ offset' = [offset EXCEPT ![k][b] = counter[b]]
      /\ counter' = [counter EXCEPT ![b] = @ + workgroup_buffer_size(k, b)]
      /\ UNCHANGED <<size, gen, ticket>>
  BY Zenon DEF Reserve, Go, draw
<1>2. b \in todo[k] /\ b \in Buffers BY <1>1, NextBuffer, Zenon
<1> HIDE DEF b
<1>3. \A v \in Workgroups : v # k => pc'[v] = pc[v] /\ offset'[v] = offset[v]
  BY <1>1, Zenon DEF TypeOK
<1>4. pc'[k] = (IF last THEN "return" ELSE "reserve")
      /\ todo'[k] = (IF last THEN Buffers ELSE todo[k] \ {b})
  BY <1>1, Zenon DEF TypeOK
<1>5. \A c \in Buffers : /\ offset'[k][c] = (IF c = b THEN counter[b] ELSE offset[k][c])
                        /\ counter'[c] = (IF c = b THEN counter[b] + workgroup_buffer_size(k, b)
                                           ELSE counter[c])
  BY <1>1, <1>2, Zenon DEF TypeOK
<1>6. \A c \in Buffers : workgroup_buffer_size(k, c)' = workgroup_buffer_size(k, c)
  BY <1>1, Zenon DEF workgroup_buffer_size
<1>7. k \in 1..N /\ N \in Nat BY NAssumption, Zenon DEF Workgroups
<1>8. ASSUME NEW v \in Workgroups, v <= k, NEW c PROVE Before(v, c)' = Before(v, c)
  <2>1. v = 1 \/ (v - 1 \in Workgroups /\ v - 1 # k) BY <1>7, <1>8 DEF Workgroups
  <2> QED BY <2>1, <1>1, <1>3, SameBefore, Zenon
<1>9. Turn(k)' BY <1>1, <1>3, <1>4 DEF Turn
<1>10. \A v \in Workgroups : v # k /\ Reserved(v) => v < k
  BY <1>7 DEF Turn, Reserved, Workgroups
<1>11. \A v \in Workgroups : v # k => (Reserved(v)' <=> Reserved(v)) BY <1>3, Zenon DEF Reserved
<1>12. ASSUME NEW c \in Buffers
       PROVE  /\ c \in todo[k] => counter[c] = Before(k, c)
              /\ c \notin todo[k] => /\ offset[k][c] = Before(k, c)
                                    /\ counter[c] = offset[k][c] + workgroup_buffer_size(k, c)
  BY <1>1, Zenon DEF Ranges
<1>13. ASSUME NEW c \in Buffers, c = b \/ c \notin todo[k]
       PROVE  /\ offset'[k][c] = Before(k, c)
              /\ counter'[c] = offset'[k][c] + workgroup_buffer_size(k, c)
  BY <1>2, <1>5, <1>12, <1>13, Zenon
<1>14. ASSUME NEW c \in Buffers, NEW v \in Workgroups, Reserved(v)'
       PROVE  offset'[v][c] = Before(v, c)'
  <2>1. CASE v = k
    <3>1. last BY <1>4, <1>14, <2>1, Zenon DEF Reserved
    <3>2. c = b \/ c \notin todo[k] BY <3>1, Zenon
    <3> QED BY <1>7, <1>8, <1>13, <2>1, <3>2
  <2>2. CASE v # k
    <3>1. Reserved(v) /\ v < k BY <1>10, <1>11, <1>14, <2>2, Zenon
    <3>2. offset[v][c] = Before(v, c) BY <3>1, Zenon DEF Ranges
    <3> QED BY <1>3, <1>7, <1>8, <2>2, <3>1, <3>2 DEF Workgroups
  <2> QED BY <2>1, <2>2, Zenon
<1>15. ASSUME NEW c \in Buffers, pc'[k] = "reserve"
       PROVE  IF c \in todo'[k] THEN counter'[c] = Before(k, c)'
              ELSE /\ offset'[k][c] = Before(k, c)'
                   /\ counter'[c] = offset'[k][c] + workgroup_buffer_size(k, c)'
  <2>1. todo'[k] = todo[k] \ {b} BY <1>4, <1>15, Zenon
  <2>2. Before(k, c)' = Before(k, c) BY <1>7, <1>8
  <2>3. CASE c \in todo'[k] BY <1>5, <1>12, <2>1, <2>2, <2>3, Zenon
  <2>4. CASE c \notin todo'[k] BY <1>6, <1>13, <2>1, <2>2, <2>4, Zenon
  <2> QED BY <2>3, <2>4, Zenon
<1>16. ASSUME NEW c \in Buffers, pc'[k] = "return"
       PROVE  c \in todo'[k] /\ counter'[c] = offset'[k][c] + workgroup_buffer_size(k, c)'
  <2>1. last /\ todo'[k] = Buffers BY <1>4, <1>16, Zenon
  <2>2. c = b \/ c \notin todo[k] BY <2>1, Zenon
  <2> QED BY <1>6, <1>13, <2>1, <2>2, Zenon
<1>17. k # N + 1 /\ pc'[k] \in {"reserve", "return"} BY <1>4, <1>7
<1>18. Ranges(k)' BY <1>14, <1>15, <1>16, <1>17, Zenon DEF Ranges
<1> QED BY <1>9, <1>18, Zenon

(* Returning the rest of a reservation leaves what is captured.            *)
LEMMA OrderReturn ==
  ASSUME TypeOK, TodoInv, NEW k \in Workgroups, Turn(k), Ranges(k), ReturnUnused(k)
  PROVE  Turn(k)' /\ Ranges(k)'
<1> DEFINE b == Lowest(todo[k])
           last == todo[k] = {b}
<1>1. /\ pc[k] = "return"
      /\ pc' = [pc EXCEPT ![k] = IF last THEN "count" ELSE "return"]
      /\ todo' = [todo EXCEPT ![k] = IF last THEN Streams ELSE todo[k] \ {b}]
      /\ counter' = [counter EXCEPT ![b] = @ - (workgroup_buffer_size(k, b) - Written(k, b))]
      /\ UNCHANGED <<size, gen, offset, ticket>>
  BY Zenon DEF ReturnUnused, Go, draw
<1>2. b \in todo[k] /\ b \in Buffers BY <1>1, NextBuffer, Zenon
<1> HIDE DEF b
<1>3. \A v \in Workgroups : v # k => pc'[v] = pc[v] BY <1>1, Zenon DEF TypeOK
<1>4. pc'[k] = (IF last THEN "count" ELSE "return")
      /\ todo'[k] = (IF last THEN Streams ELSE todo[k] \ {b})
  BY <1>1, Zenon DEF TypeOK
<1>5. ASSUME NEW c \in Buffers, c # b PROVE counter'[c] = counter[c]
  BY <1>1, <1>5, Zenon DEF TypeOK
<1>6. ASSUME NEW c \in Buffers
      PROVE  counter[c] = offset[k][c] + (IF c \in todo[k] THEN workgroup_buffer_size(k, c)
                                          ELSE Written(k, c))
  BY <1>1, Zenon DEF Ranges
<1>7. counter'[b] = offset[k][b] + Written(k, b)
  <2>1. counter'[b] = counter[b] - (workgroup_buffer_size(k, b) - Written(k, b))
    BY <1>1, <1>2, Zenon DEF TypeOK
  <2>2. counter[b] = offset[k][b] + workgroup_buffer_size(k, b) BY <1>2, <1>6, Zenon
  <2>3. workgroup_buffer_size(k, b) \in Int /\ Written(k, b) \in Int /\ offset[k][b] \in Int
    BY <1>2, BytesType, Zenon DEF TypeOK
  <2> QED BY <2>1, <2>2, <2>3
<1>8. ASSUME NEW c \in Buffers
      PROVE  /\ workgroup_buffer_size(k, c)' = workgroup_buffer_size(k, c)
             /\ Written(k, c)' = Written(k, c) /\ End(k, c)' = End(k, c)
             /\ \A v : Before(v, c)' = Before(v, c)
  BY <1>1, SameRange, SameBefore, Zenon DEF workgroup_buffer_size
<1>9. k \in 1..N /\ N \in Nat BY NAssumption, Zenon DEF Workgroups
<1>10. Turn(k)' BY <1>1, <1>3, <1>4 DEF Turn
<1>11. ASSUME NEW c \in Buffers, c = b \/ c \notin todo[k]
       PROVE  counter'[c] = offset[k][c] + Written(k, c)
  BY <1>5, <1>6, <1>7, <1>11, Zenon
<1>12. ASSUME NEW c \in Buffers, pc'[k] = "return"
       PROVE  counter'[c] = offset'[k][c] + (IF c \in todo'[k] THEN workgroup_buffer_size(k, c)'
                                             ELSE Written(k, c)')
  <2>1. todo'[k] = todo[k] \ {b} BY <1>4, <1>12, Zenon
  <2>2. CASE c \in todo'[k] BY <1>1, <1>5, <1>6, <1>8, <2>1, <2>2, Zenon
  <2>3. CASE c \notin todo'[k] BY <1>1, <1>8, <1>11, <2>1, <2>3, Zenon
  <2> QED BY <2>2, <2>3, Zenon
<1>13. ASSUME NEW c \in Buffers, pc'[k] = "count" PROVE counter'[c] = End(k, c)'
  <2>1. c = b \/ c \notin todo[k] BY <1>4, <1>13, Zenon
  <2> QED BY <1>8, <1>11, <2>1, Zenon DEF End
<1>14. \A v \in Workgroups : Reserved(v)' => Reserved(v) BY <1>1, <1>3, Zenon DEF Reserved
<1>15. ASSUME NEW c \in Buffers, NEW v \in Workgroups, Reserved(v)'
       PROVE  offset'[v][c] = Before(v, c)'
  BY <1>1, <1>8, <1>14, <1>15, Zenon DEF Ranges
<1>16. k # N + 1 /\ pc'[k] \in {"return", "count"} BY <1>4, <1>9
<1>17. Ranges(k)' BY <1>12, <1>13, <1>15, <1>16, Zenon DEF Ranges
<1> QED BY <1>10, <1>17, Zenon

(* Counting does not move a range.                                         *)
LEMMA OrderCount ==
  ASSUME TypeOK, NEW k \in Workgroups, Turn(k), Ranges(k), Count(k)
  PROVE  Turn(k)' /\ Ranges(k)'
<1>1. /\ pc[k] = "count" /\ pc'[k] \in {"count", "release"}
      /\ \A v \in Workgroups : v # k => pc'[v] = pc[v]
      /\ UNCHANGED <<size, gen, offset, counter, ticket>>
  BY Zenon DEF Count, Go, draw, TypeOK
<1>2. \A c : End(k, c)' = End(k, c) /\ \A v : Before(v, c)' = Before(v, c)
  BY <1>1, SameRange, SameBefore, Zenon
<1>3. Turn(k)' BY <1>1, Zenon DEF Turn
<1>4. \A v \in Workgroups : Reserved(v)' => Reserved(v) BY <1>1, Zenon DEF Reserved
<1>5. k # N + 1 BY NAssumption DEF Workgroups
<1>6. Ranges(k)' BY <1>1, <1>2, <1>4, <1>5, Zenon DEF Ranges
<1> QED BY <1>3, <1>6, Zenon

(* Passing the ticket on: the next range starts where this capture ends.   *)
LEMMA OrderRelease ==
  ASSUME TypeOK, NEW k \in Workgroups, Turn(k), Ranges(k), Release(k), any_buffer_valid
  PROVE  Turn(k + 1)' /\ Ranges(k + 1)'
<1>1. /\ pc[k] = "release" /\ pc'[k] = "done" /\ ticket' = First[k + 1]
      /\ \A v \in Workgroups : v # k => pc'[v] = pc[v]
      /\ UNCHANGED <<size, gen, offset, counter>>
  BY Zenon DEF Release, Go, draw, TypeOK
<1>2. \A c, v : Before(v, c)' = Before(v, c) BY <1>1, SameBefore, Zenon
<1>3. k \in 1..N /\ N \in Nat BY NAssumption, Zenon DEF Workgroups
<1>4. \A v \in Workgroups : (v < k + 1 <=> v < k \/ v = k) /\ (v > k + 1 => v > k /\ v # k)
  BY <1>3 DEF Workgroups
<1>5. k + 1 \in Workgroups => pc'[k + 1] = "wait" BY <1>1, <1>3 DEF Turn, Workgroups
<1>6. Turn(k + 1)' BY <1>1, <1>4, <1>5, Zenon DEF Turn
<1>7. \A v \in Workgroups : Reserved(v)' => Reserved(v) BY <1>1, Zenon DEF Reserved
<1>8. ASSUME NEW c \in Buffers PROVE counter'[c] = Before(k + 1, c)'
  <2>1. counter[c] = End(k, c) BY <1>1, Zenon DEF Ranges
  <2>2. Before(k + 1, c) = End(k, c) BY <1>3 DEF Before
  <2> QED BY <1>1, <1>2, <2>1, <2>2, Zenon
<1>9. Ranges(k + 1)' BY <1>1, <1>2, <1>5, <1>7, <1>8, Zenon DEF Ranges
<1> QED BY <1>6, <1>9, Zenon

(* Every step keeps the order.                                             *)
LEMMA StreamoutOrder ==
  TypeOK /\ TodoInv /\ OrderInv /\ [Next]_vars => OrderInv'
<1> SUFFICES ASSUME TypeOK, TodoInv, OrderInv, [Next]_vars, Ordered'
             PROVE  (\E k \in 1..N + 1 : Turn(k) /\ Ranges(k))'
  BY Zenon DEF OrderInv
<1>1. UNCHANGED <<size, gen>>
  BY Zenon DEF Next, Workgroup, DrawEnds, vars, draw, TakeTurn, Spin, GiveUp, SkipWait, Reserve,
         ReturnUnused, Count, Release
<1>2. any_buffer_valid BY <1>1, Zenon DEF Ordered, any_buffer_valid
<1>3. (\A w \in Workgroups : ~GiveUp(w)) /\ timeouts = 0
  <2>1. timeouts \in Nat /\ timeouts' = 0 BY Zenon DEF TypeOK, Ordered
  <2>2. ASSUME NEW w \in Workgroups, GiveUp(w) PROVE FALSE BY <2>1, <2>2 DEF GiveUp
  <2>3. timeouts' = timeouts
    BY <2>2, Zenon
       DEF Next, Workgroup, DrawEnds, vars, TakeTurn, Spin, SkipWait, Reserve, ReturnUnused,
                Count, Release
  <2> QED BY <2>1, <2>2, <2>3, Zenon
<1>4. PICK k \in 1..N + 1 : Turn(k) /\ Ranges(k) BY <1>2, <1>3, Zenon DEF OrderInv, Ordered
<1>5. ASSUME UNCHANGED <<size, gen, pc, todo, offset, counter, ticket>>
      PROVE  Turn(k)' /\ Ranges(k)'
  <2>1. Turn(k)' BY <1>4, <1>5, Zenon DEF Turn
  <2>2. \A v, b : /\ Written(v, b)' = Written(v, b) /\ End(v, b)' = End(v, b)
                 /\ Before(v, b)' = Before(v, b)
                 /\ workgroup_buffer_size(v, b)' = workgroup_buffer_size(v, b)
    BY <1>5, SameRange, SameBefore, Zenon DEF workgroup_buffer_size
  <2>3. \A v : Reserved(v)' <=> Reserved(v) BY <1>5, Zenon DEF Reserved
  <2>4. Ranges(k)' BY <1>4, <1>5, <2>2, <2>3, Zenon DEF Ranges
  <2> QED BY <2>1, <2>4, Zenon
<1>6. CASE UNCHANGED vars BY <1>5, <1>6, Zenon DEF vars
<1>7. ASSUME NEW w \in Workgroups, Workgroup(w)
      PROVE  (\E j \in 1..N + 1 : Turn(j) /\ Ranges(j))'
  <2>1. CASE TakeTurn(w)
    <3>1. Turn(k)' /\ Ranges(k)' BY <1>4, <2>1, OrderTakeTurn, Zenon
    <3> QED BY <3>1, Zenon
  <2>2. CASE Spin(w) BY <1>5, <2>2, Zenon DEF Spin, draw
  <2>3. CASE SkipWait(w) BY <1>2, <2>3, Zenon DEF SkipWait
  <2>4. CASE Reserve(w)
    <3>1. w = k BY <1>4, <2>4, HasTurn, Zenon DEF Reserve, Go
    <3>2. Turn(k)' /\ Ranges(k)' BY <1>4, <2>4, <3>1, OrderReserve, Zenon
    <3> QED BY <3>2, Zenon
  <2>5. CASE ReturnUnused(w)
    <3>1. w = k BY <1>4, <2>5, HasTurn, Zenon DEF ReturnUnused, Go
    <3>2. Turn(k)' /\ Ranges(k)' BY <1>4, <2>5, <3>1, OrderReturn, Zenon
    <3> QED BY <3>2, Zenon
  <2>6. CASE Count(w)
    <3>1. w = k BY <1>4, <2>6, HasTurn, Zenon DEF Count, Go
    <3>2. Turn(k)' /\ Ranges(k)' BY <1>4, <2>6, <3>1, OrderCount, Zenon
    <3> QED BY <3>2, Zenon
  <2>7. CASE Release(w)
    <3>1. w = k BY <1>4, <2>7, HasTurn, Zenon DEF Release, Go
    <3>2. Turn(k + 1)' /\ Ranges(k + 1)' BY <1>2, <1>4, <2>7, <3>1, OrderRelease, Zenon
    <3>3. k + 1 \in 1..N + 1 BY <3>1, NAssumption DEF Workgroups
    <3> QED BY <3>2, <3>3, Zenon
  <2> QED BY <1>3, <1>7, <2>1, <2>2, <2>3, <2>4, <2>5, <2>6, <2>7, Zenon DEF Workgroup
<1> QED BY <1>6, <1>7, Zenon DEF Next, DrawEnds

(* The first workgroup has the zeroed ticket.                              *)
LEMMA StreamoutInit == Init => SInv
<1> SUFFICES ASSUME Init PROVE SInv
  BY Zenon
<1>1. TypeOK
  <2>1. size \in [Buffers -> Nat] BY BuffersAssumption, Zenon DEF Init
  <2>2. gen \in [Workgroups -> [Streams -> Nat]] BY BuffersAssumption DEF Init
  <2>3. counter \in [Buffers -> Int] /\ ticket \in Nat /\ timeouts \in Nat
        /\ spins \in [Workgroups -> 0..SpinBound]
    BY BuffersAssumption DEF Init
  <2> QED BY <2>1, <2>2, <2>3 DEF Init, TypeOK, Steps
<1>2. TodoInv BY Zenon DEF Init, TodoInv
<1>3. ASSUME Ordered PROVE Turn(1) /\ Ranges(1)
  <2>1. 1 \in Workgroups /\ 1 # N + 1 /\ pc[1] = "wait" BY NAssumption DEF Init, Workgroups
  <2>2. Turn(1) BY <1>3, <2>1, FirstAssumption DEF Turn, Init, Ordered, Workgroups
  <2>3. \A v \in Workgroups : ~Reserved(v) BY Zenon DEF Init, Reserved
  <2>4. \A b \in Buffers : counter[b] = Before(1, b) BY Zenon DEF Init, Before
  <2>5. Ranges(1) BY <2>1, <2>3, <2>4, Zenon DEF Ranges
  <2> QED BY <2>2, <2>5, Zenon
<1>4. 1 \in 1..N + 1 BY NAssumption
<1> QED BY <1>1, <1>2, <1>3, <1>4, Zenon DEF SInv, OrderInv

-----------------------------------------------------------------------------
(* SInv is an inductive invariant of every draw.                           *)
THEOREM StreamoutInvariant == Spec => []SInv
<1>1. SInv /\ [Next]_vars => SInv'
  BY StreamoutType, StreamoutTodo, StreamoutOrder, Zenon DEF SInv
<1> QED BY StreamoutInit, <1>1, PTL DEF Spec

(* The counters, offsets and totals of a draw keep their types: a          *)
(* workgroup past the end of a buffer never adds a negative count.         *)
THEOREM StreamoutTypeCorrect == Spec => []TypeOK
<1>1. SInv => TypeOK BY Zenon DEF SInv
<1> QED BY StreamoutInvariant, <1>1, PTL

(* While no wait timed out, the ticket makes the captures of any number of *)
(* workgroups, buffers and streams contiguous and in primitive order.      *)
THEOREM CapturesInOrder == Spec => []OrderedCapture
<1>1. SInv => OrderedCapture
  <2> SUFFICES ASSUME SInv, Ordered, NEW w \in Workgroups, Reserved(w), w > 1
               PROVE  /\ pc[w - 1] = "done"
                      /\ \A b \in Buffers : offset[w][b] = End(w - 1, b)
    BY Zenon DEF OrderedCapture, Ordered
  <2>1. PICK k \in 1..N + 1 : Turn(k) /\ Ranges(k) BY Zenon DEF SInv, OrderInv
  <2>2. w \in 1..N /\ N \in Nat /\ w - 1 \in Workgroups BY NAssumption DEF Workgroups
  <2>3. w <= k BY <2>1, <2>2 DEF Turn, Reserved
  <2>4. pc[w - 1] = "done" BY <2>1, <2>2, <2>3 DEF Turn
  <2>5. ASSUME NEW b \in Buffers PROVE offset[w][b] = End(w - 1, b)
    <3>1. offset[w][b] = Before(w, b) BY <2>1, Zenon DEF Ranges
    <3> QED BY <2>2, <3>1 DEF Before
  <2> QED BY <2>4, <2>5, Zenon
<1> QED BY StreamoutInvariant, <1>1, PTL

-----------------------------------------------------------------------------
(* The division of the limit, and products of naturals.                    *)
LEMMA WholePrimitives ==
  ASSUME NEW room \in Nat, NEW stride \in Nat \ {0}
  PROVE  /\ room \div stride \in Nat
         /\ (room \div stride) * stride <= room
         /\ room < (room \div stride + 1) * stride
OBVIOUS

(* Fewer primitives are fewer bytes.                                       *)
LEMMA FewerBytes ==
  ASSUME NEW a \in Nat, NEW b \in Nat, NEW stride \in Nat, a <= b
  PROVE  a * stride <= b * stride
OBVIOUS

(* A buffer of the stream holds e primitives exactly if e is within its    *)
(* limit, unless the range starts past the end.                            *)
LEMMA RoomForLimit ==
  ASSUME TypeOK, NEW w \in Workgroups, NEW b \in Buffers, NEW e \in Nat
  PROVE  LET l == Limit(w, BufferStream[b], b)
             end == buffer_offset(w, b) + e * Stride[b]
         IN  /\ size[b] < buffer_offset(w, b) => l = 0 /\ end > size[b]
             /\ size[b] >= buffer_offset(w, b) => (end <= size[b] <=> e <= l)
<1> DEFINE o == buffer_offset(w, b)
           l == Limit(w, BufferStream[b], b)
           n == e * Stride[b]
<1>1. size[b] \in Nat /\ o \in Int /\ Stride[b] \in Nat \ {0}
  BY BuffersAssumption DEF TypeOK, buffer_offset
<1>2. n \in Nat BY <1>1
<1>3. l = IF size[b] < o THEN 0 ELSE (size[b] - o) \div Stride[b] BY Zenon DEF Limit
<1>4. CASE size[b] < o BY <1>1, <1>2, <1>3, <1>4
<1>5. CASE size[b] >= o
  <2>1. size[b] - o \in Nat BY <1>1, <1>5
  <2>2. /\ l \in Nat /\ l * Stride[b] <= size[b] - o
        /\ size[b] - o < (l + 1) * Stride[b]
    <3> DEFINE room == size[b] - o
    <3>1. l = room \div Stride[b]
      <4>1. ~(size[b] < o) BY <1>1, <1>5
      <4> QED BY <1>3, <4>1, Zenon
    <3> HIDE DEF room, l, o
    <3>2. room \in Nat BY <2>1, Zenon DEF room
    <3>3. /\ room \div Stride[b] \in Nat /\ (room \div Stride[b]) * Stride[b] <= room
          /\ room < (room \div Stride[b] + 1) * Stride[b]
      BY <1>1, <3>2, WholePrimitives, Zenon
    <3> QED BY <3>1, <3>3, Zenon DEF room
  <2>3. l * Stride[b] \in Nat /\ (l + 1) * Stride[b] \in Nat BY <1>1, <2>2
  <2> HIDE DEF l, o
  <2>4. CASE e <= l
    <3>1. n <= l * Stride[b] BY <1>1, <2>2, <2>4, FewerBytes, Zenon
    <3> HIDE DEF n
    <3>2. o + n <= size[b] BY <1>1, <1>2, <2>2, <2>3, <3>1
    <3> QED BY <1>1, <1>5, <2>4, <3>2 DEF n, l, o
  <2>5. CASE ~(e <= l)
    <3>1. l + 1 \in Nat /\ l + 1 <= e BY <2>2, <2>5
    <3>2. (l + 1) * Stride[b] <= n BY <1>1, <3>1, FewerBytes, Zenon
    <3> HIDE DEF n
    <3>3. ~(o + n <= size[b]) BY <1>1, <1>2, <2>2, <2>3, <3>2
    <3> QED BY <1>1, <1>5, <2>5, <3>3 DEF n, l, o
  <2> QED BY <2>4, <2>5, Zenon
<1> QED BY <1>1, <1>4, <1>5, Zenon

(* The minimum operation of the shader.                                    *)
LEMMA LeastOfTwo ==
  ASSUME NEW a \in Nat, NEW b \in Nat
  PROVE  /\ imin(a, b) \in Nat /\ imin(a, b) <= a /\ imin(a, b) <= b
         /\ imin(a, b) = a \/ imin(a, b) = b
BY DEF imin

(* The four minimum operations leave the least of five numbers.            *)
LEMMA LeastLimit ==
  ASSUME TypeOK, NEW w \in Workgroups, NEW s \in Streams
  PROVE  LET e == emit_prim(w, s)
         IN  /\ e \in Nat /\ e <= gen[w][s]
             /\ \A b \in 0..3 : e <= Limit(w, s, b)
             /\ e < gen[w][s] => \E b \in 0..3 : e = Limit(w, s, b)
<1>1. gen[w][s] \in Nat BY Zenon DEF TypeOK
<1>2. \A b \in 0..3 : Limit(w, s, b) \in Nat BY LimitType, Zenon
<1> DEFINE g == gen[w][s]  l0 == Limit(w, s, 0)  l1 == Limit(w, s, 1)
           l2 == Limit(w, s, 2)  l3 == Limit(w, s, 3)
<1>3. emit_prim(w, s) = imin(imin(imin(imin(g, l0), l1), l2), l3) BY Zenon DEF emit_prim
<1>4. g \in Nat /\ l0 \in Nat /\ l1 \in Nat /\ l2 \in Nat /\ l3 \in Nat BY <1>1, <1>2
<1> DEFINE m0 == imin(g, l0)  m1 == imin(m0, l1)  m2 == imin(m1, l2)  m3 == imin(m2, l3)
<1>5. emit_prim(w, s) = m3 BY <1>3, Zenon
<1> HIDE DEF g, l0, l1, l2, l3
<1>6. m0 \in Nat /\ m0 <= g /\ m0 <= l0 /\ (m0 = g \/ m0 = l0) BY <1>4, LeastOfTwo, Zenon
<1> HIDE DEF m0
<1>7. m1 \in Nat /\ m1 <= m0 /\ m1 <= l1 /\ (m1 = m0 \/ m1 = l1)
  BY <1>4, <1>6, LeastOfTwo, Zenon
<1> HIDE DEF m1
<1>8. m2 \in Nat /\ m2 <= m1 /\ m2 <= l2 /\ (m2 = m1 \/ m2 = l2)
  BY <1>4, <1>7, LeastOfTwo, Zenon
<1> HIDE DEF m2
<1>9. m3 \in Nat /\ m3 <= m2 /\ m3 <= l3 /\ (m3 = m2 \/ m3 = l3)
  BY <1>4, <1>8, LeastOfTwo, Zenon
<1> HIDE DEF m3
<1>10. m3 <= g /\ m3 <= l0 /\ m3 <= l1 /\ m3 <= l2 /\ m3 <= l3
  BY <1>4, <1>6, <1>7, <1>8, <1>9
<1>11. m3 = g \/ m3 = l0 \/ m3 = l1 \/ m3 = l2 \/ m3 = l3 BY <1>6, <1>7, <1>8, <1>9, Zenon
<1>12. m3 < g => m3 = l0 \/ m3 = l1 \/ m3 = l2 \/ m3 = l3 BY <1>4, <1>11
<1>13. \A b \in 0..3 : b = 0 \/ b = 1 \/ b = 2 \/ b = 3 OBVIOUS
<1>14. \A b \in 0..3 : m3 <= Limit(w, s, b) BY <1>10, <1>13, Zenon DEF l0, l1, l2, l3
<1>15. m3 < g => \E b \in 0..3 : m3 = Limit(w, s, b)
  <2>1. 0 \in 0..3 /\ 1 \in 0..3 /\ 2 \in 0..3 /\ 3 \in 0..3 OBVIOUS
  <2> QED BY <1>12, <2>1, Zenon DEF l0, l1, l2, l3
<1> QED BY <1>5, <1>9, <1>10, <1>14, <1>15, Zenon DEF g

(* For any buffers, strides, sizes and offsets, a workgroup emits the      *)
(* largest number of whole primitives that fit all buffers of the stream,  *)
(* and none when its range starts past the end of one of them.             *)
THEOREM EmitsExactly == Spec => []EmitsWhatFits
<1>1. TypeOK => EmitsWhatFits
  <2> SUFFICES ASSUME TypeOK, NEW w \in Workgroups, NEW s \in Streams
               PROVE  LET e == emit_prim(w, s)
                      IN  /\ e \in 0..gen[w][s]
                          /\ Fits(w, s, e) \/ (e = 0 /\ ~Fits(w, s, 0))
                          /\ e < gen[w][s] => ~Fits(w, s, e + 1)
    BY Zenon DEF EmitsWhatFits
  <2> DEFINE e == emit_prim(w, s)
  <2>1. /\ e \in Nat /\ e <= gen[w][s]
        /\ \A b \in 0..3 : e <= Limit(w, s, b)
        /\ e < gen[w][s] => \E b \in 0..3 : e = Limit(w, s, b)
    BY LeastLimit, Zenon
  <2>2. gen[w][s] \in Nat BY Zenon DEF TypeOK
  <2>3. Buffers \subseteq 0..3 BY BuffersAssumption, Zenon
  <2>4. \A b \in Buffers : size[b] \in Nat /\ buffer_offset(w, b) \in Int
    BY DEF TypeOK, buffer_offset
  <2> HIDE DEF e
  <2>5. Fits(w, s, e) \/ (e = 0 /\ ~Fits(w, s, 0))
    <3>1. CASE \E b \in Buffers : BufferStream[b] = s /\ size[b] < buffer_offset(w, b)
      <4>1. PICK b \in Buffers : BufferStream[b] = s /\ size[b] < buffer_offset(w, b)
        BY <3>1, Zenon
      <4>2. Limit(w, s, b) = 0 /\ buffer_offset(w, b) + 0 * Stride[b] > size[b]
        BY <4>1, RoomForLimit, Zenon
      <4>3. e = 0 BY <2>1, <2>3, <4>2
      <4>4. ~(buffer_offset(w, b) + 0 * Stride[b] <= size[b])
        <5>1. Stride[b] \in Nat BY BuffersAssumption, Zenon
        <5> QED BY <2>4, <4>1, <5>1
      <4> QED BY <4>1, <4>3, <4>4, Zenon DEF Fits
    <3>2. CASE \A b \in Buffers : BufferStream[b] = s => ~(size[b] < buffer_offset(w, b))
      <4>1. ASSUME NEW b \in Buffers, BufferStream[b] = s
            PROVE  buffer_offset(w, b) + e * Stride[b] <= size[b]
        <5>1. size[b] >= buffer_offset(w, b) BY <2>4, <3>2, <4>1
        <5>2. e <= Limit(w, s, b) BY <2>1, <2>3, Zenon
        <5> QED BY <2>1, <4>1, <5>1, <5>2, RoomForLimit, Zenon
      <4> QED BY <4>1, Zenon DEF Fits
    <3> QED BY <3>1, <3>2, Zenon
  <2>6. ASSUME e < gen[w][s] PROVE ~Fits(w, s, e + 1)
    <3>1. PICK b \in 0..3 : e = Limit(w, s, b) BY <2>1, <2>6, Zenon
    <3>2. b \in Buffers /\ BufferStream[b] = s
      <4>1. e # gen[w][s] BY <2>1, <2>2, <2>6
      <4>2. Limit(w, s, b) # gen[w][s] BY <3>1, <4>1, Zenon
      <4> QED BY <4>2, Zenon DEF Limit
    <3>3. e + 1 \in Nat /\ ~(e + 1 <= e) BY <2>1
    <3>4. ~(buffer_offset(w, b) + (e + 1) * Stride[b] <= size[b])
      <4>1. CASE size[b] >= buffer_offset(w, b)
        BY <3>1, <3>2, <3>3, <4>1, RoomForLimit, Zenon
      <4>2. CASE size[b] < buffer_offset(w, b)
        <5>1. buffer_offset(w, b) + (e + 1) * Stride[b] > size[b]
          BY <3>2, <3>3, <4>2, RoomForLimit, Zenon
        <5>2. (e + 1) * Stride[b] \in Nat BY <3>2, <3>3, BuffersAssumption
        <5> HIDE DEF e
        <5> QED BY <2>4, <3>2, <5>1, <5>2
      <4> QED BY <2>4, <3>2, <4>1, <4>2
    <3> QED BY <3>2, <3>4, Zenon DEF Fits
  <2>7. e \in 0..gen[w][s] BY <2>1, <2>2
  <2> QED BY <2>5, <2>6, <2>7, Zenon DEF e
<1> QED BY StreamoutTypeCorrect, <1>1, PTL

-----------------------------------------------------------------------------
(* Induction over the workgroups of a draw, for a set.                     *)
LEMMA OneByOne ==
  ASSUME NEW m \in Nat, NEW S, 0 \in S, \A n \in 0..m - 1 : n \in S => n + 1 \in S
  PROVE  \A n \in 0..m : n \in S
<1> DEFINE R == OpToRel(<, Nat)
           T == {n \in 0..m : n \notin S}
<1> SUFFICES ASSUME T # {} PROVE FALSE
  BY Zenon
<1>1. T \subseteq Nat OBVIOUS
<1>2. IsWellFoundedOn(R, Nat) BY NatLessThanWellFounded, Zenon
<1>3. \E x \in T : \A y \in T : ~(<<y, x>> \in R)
  <2> HIDE DEF R, T
  <2> QED BY <1>1, <1>2, WFMin, Zenon
<1>4. PICK x \in T : \A y \in T : ~(<<y, x>> \in R) BY <1>3, Zenon
<1>5. x \in 0..m /\ x \notin S /\ x # 0 BY Zenon
<1>6. x - 1 \in 0..m - 1 /\ x - 1 \in 0..m /\ x - 1 \in Nat /\ x \in Nat /\ x - 1 < x
      /\ (x - 1) + 1 = x
  BY <1>5
<1>7. x - 1 \notin S BY <1>5, <1>6, Zenon
<1>8. <<x - 1, x>> \in R BY <1>6, Zenon DEF OpToRel
<1> QED BY <1>4, <1>6, <1>7, <1>8, Zenon

(* The sums of the first workgroups, and of all of them.                   *)
Sums(f, g, n) == g = [w \in 0..n |-> IF w = 0 THEN 0 ELSE g[w - 1] + f[w]]

(* They exist, by induction, and so the recursive sum is one of them.      *)
LEMMA SumsExist == ASSUME NEW f PROVE \E g : Sums(f, g, N)
<1> DEFINE S == {n \in Nat : \E g : Sums(f, g, n)}
<1>1. 0 \in S
  <2> DEFINE g == [w \in 0..0 |-> 0]
  <2>1. g = [w \in 0..0 |-> IF w = 0 THEN 0 ELSE g[w - 1] + f[w]] OBVIOUS
  <2>2. Sums(f, g, 0) BY <2>1, Zenon DEF Sums
  <2> HIDE DEF g
  <2> QED BY <2>2, Zenon
<1>2. ASSUME NEW n \in 0..N - 1, n \in S PROVE n + 1 \in S
  <2>1. PICK g : Sums(f, g, n) BY <1>2, Zenon
  <2> DEFINE h == [w \in 0..n + 1 |-> IF w = n + 1 THEN g[n] + f[n + 1] ELSE g[w]]
             k == [w \in 0..n + 1 |-> IF w = 0 THEN 0 ELSE h[w - 1] + f[w]]
  <2>2. n \in Nat BY NAssumption
  <2>3. \A w \in 0..n : g[w] = IF w = 0 THEN 0 ELSE g[w - 1] + f[w] BY <2>1, Zenon DEF Sums
  <2>4. ASSUME NEW w \in 0..n + 1 PROVE h[w] = k[w]
    <3>1. CASE w = 0
      <4>1. h[0] = g[0] /\ g[0] = 0 BY <2>2, <2>3
      <4> QED BY <3>1, <4>1, Zenon
    <3>2. CASE w = n + 1
      <4>1. n + 1 # 0 /\ (n + 1) - 1 = n /\ n \in 0..n + 1 /\ n # n + 1 BY <2>2
      <4>2. h[n] = g[n] BY <4>1, Zenon
      <4>3. k[n + 1] = h[n] + f[n + 1] BY <4>1
      <4> QED BY <3>2, <4>2, <4>3, Zenon
    <3>3. CASE w # 0 /\ w # n + 1
      <4>1. w \in 0..n /\ w - 1 \in 0..n + 1 /\ w - 1 # n + 1 BY <2>2, <3>3
      <4>2. h[w] = g[w] /\ h[w - 1] = g[w - 1] BY <3>3, <4>1, Zenon
      <4>3. k[w] = h[w - 1] + f[w] BY <3>3, Zenon
      <4> QED BY <2>3, <3>3, <4>1, <4>2, <4>3, Zenon
    <3> QED BY <3>1, <3>2, <3>3, Zenon
  <2>5. h = k
    <3>1. DOMAIN h = DOMAIN k /\ h = [w \in DOMAIN h |-> h[w]] /\ k = [w \in DOMAIN k |-> k[w]] OBVIOUS
    <3>2. \A w \in DOMAIN h : h[w] = k[w] BY <2>4, Zenon
    <3> HIDE DEF h, k
    <3> QED BY <3>1, <3>2, Zenon
  <2>6. h = [w \in 0..n + 1 |-> IF w = 0 THEN 0 ELSE h[w - 1] + f[w]] BY <2>5, Zenon
  <2> HIDE DEF h
  <2>7. Sums(f, h, n + 1) BY <2>6, Zenon DEF Sums
  <2> QED BY <2>2, <2>7
<1>3. N \in Nat BY NAssumption, Zenon
<1> HIDE DEF S
<1>4. \A n \in 0..N : n \in S BY <1>1, <1>2, <1>3, OneByOne, Zenon
<1>5. N \in S BY <1>3, <1>4
<1> QED BY <1>5, Zenon DEF S

(* What the recursion of Total computes.                                   *)
LEMMA TotalIs ==
  ASSUME NEW f
  PROVE  \E g : /\ g[0] = 0 /\ \A w \in 1..N : g[w] = g[w - 1] + f[w]
                /\ Total(f) = g[N]
<1>1. \E g : g = [w \in 0..N |-> IF w = 0 THEN 0 ELSE g[w - 1] + f[w]]
  BY SumsExist, Zenon DEF Sums
<1>2. \E g : g = [w \in 0..N |-> IF w = 0 THEN 0 ELSE g[w - 1] + f[w]] /\ Total(f) = g[N]
  BY <1>1, Zenon DEF Total
<1>3. PICK g : g = [w \in 0..N |-> IF w = 0 THEN 0 ELSE g[w - 1] + f[w]] /\ Total(f) = g[N]
  BY <1>2, Zenon
<1>4. g[0] = 0 BY <1>3, NAssumption
<1>5. \A w \in 1..N : g[w] = g[w - 1] + f[w] BY <1>3, NAssumption
<1> QED BY <1>3, <1>4, <1>5, Zenon

(* Nothing adds up to nothing, and one more to one more.                   *)
LEMMA TotalZero ==
  ASSUME NEW f, \A w \in Workgroups : f[w] = 0
  PROVE  Total(f) = 0
<1>1. PICK g : /\ g[0] = 0 /\ \A w \in 1..N : g[w] = g[w - 1] + f[w]
               /\ Total(f) = g[N]
  BY TotalIs, Zenon
<1>2. N \in Nat BY NAssumption, Zenon
<1> DEFINE S == {n \in Nat : g[n] = 0}
<1>3. 0 \in S BY <1>1, Zenon
<1>4. ASSUME NEW n \in 0..N - 1, n \in S PROVE n + 1 \in S
  <2>1. n + 1 \in 1..N /\ (n + 1) - 1 = n BY <1>2
  <2>2. g[n + 1] = g[n] + f[n + 1] BY <1>1, <2>1, Zenon
  <2>3. f[n + 1] = 0 BY <2>1, Zenon DEF Workgroups
  <2> QED BY <1>4, <2>1, <2>2, <2>3
<1>5. \A n \in 0..N : n \in S
  <2> HIDE DEF S
  <2> QED BY <1>2, <1>3, <1>4, OneByOne, Zenon
<1> QED BY <1>1, <1>2, <1>5

(* A total grows by what one share grows.                                  *)
LEMMA TotalMoves ==
  ASSUME NEW f, NEW h, NEW v \in Workgroups, NEW d \in Nat,
         \A w \in Workgroups : f[w] \in Nat /\ h[w] = f[w] + (IF w = v THEN d ELSE 0)
  PROVE  Total(h) = Total(f) + d
<1>1. PICK g : /\ g[0] = 0 /\ \A w \in 1..N : g[w] = g[w - 1] + f[w]
               /\ Total(f) = g[N]
  BY TotalIs, Zenon
<1>2. PICK k : /\ k[0] = 0 /\ \A w \in 1..N : k[w] = k[w - 1] + h[w]
               /\ Total(h) = k[N]
  BY TotalIs, Zenon
<1>3. N \in Nat /\ v \in 1..N BY NAssumption, Zenon DEF Workgroups
<1> DEFINE S == {n \in Nat : g[n] \in Nat /\ k[n] = g[n] + (IF n >= v THEN d ELSE 0)}
<1>4. 0 \in S BY <1>1, <1>2, <1>3
<1>5. ASSUME NEW n \in 0..N - 1, n \in S PROVE n + 1 \in S
  <2>1. n + 1 \in 1..N /\ (n + 1) - 1 = n /\ n \in Nat BY <1>3
  <2>2. g[n + 1] = g[n] + f[n + 1] /\ k[n + 1] = k[n] + h[n + 1] BY <1>1, <1>2, <2>1, Zenon
  <2>3. f[n + 1] \in Nat /\ h[n + 1] = f[n + 1] + (IF n + 1 = v THEN d ELSE 0)
    BY <2>1, Zenon DEF Workgroups
  <2>4. g[n] \in Nat /\ k[n] = g[n] + (IF n >= v THEN d ELSE 0) BY <1>5, Zenon
  <2>5. g[n + 1] \in Nat BY <2>2, <2>3, <2>4
  <2>6. k[n + 1] = g[n + 1] + (IF n + 1 >= v THEN d ELSE 0)
    BY <1>3, <2>1, <2>2, <2>3, <2>4
  <2> QED BY <2>1, <2>5, <2>6
<1>6. \A n \in 0..N : n \in S
  <2> HIDE DEF S
  <2> QED BY <1>3, <1>4, <1>5, OneByOne, Zenon
<1>7. N \in S /\ N >= v BY <1>3, <1>6
<1> QED BY <1>1, <1>2, <1>7, Zenon

-----------------------------------------------------------------------------
(* The share of the query totals a workgroup has added so far.             *)
Counted(w, s) == pc[w] \in {"release", "done"} \/ (pc[w] = "count" /\ s \notin todo[w])

GeneratedShare(s) == [w \in Workgroups |-> IF Counted(w, s) THEN gen[w][s] ELSE 0]
EmittedShare(s)   == [w \in Workgroups |-> IF Counted(w, s) THEN emit_prim(w, s) ELSE 0]

(* The loop over streams has a stream left, and the totals are the sums of *)
(* the shares.                                                             *)
CountTodo ==
    \A w \in Workgroups : pc[w] = "count" => todo[w] \subseteq Streams /\ todo[w] # {}

TotalInv ==
    \A s \in Streams : generated[s] = Total(GeneratedShare(s)) /\ emitted[s] = Total(EmittedShare(s))

CInv == CountTodo /\ TotalInv

(* A total stays when no workgroup's share changes.                        *)
LEMMA SameShares ==
  ASSUME NEW s \in Streams, UNCHANGED <<gen, generated, emitted>>,
         generated[s] = Total(GeneratedShare(s)), emitted[s] = Total(EmittedShare(s)),
         \A v \in Workgroups : /\ Counted(v, s)' <=> Counted(v, s)
                               /\ Counted(v, s) => emit_prim(v, s)' = emit_prim(v, s)
  PROVE  generated'[s] = Total(GeneratedShare(s))' /\ emitted'[s] = Total(EmittedShare(s))'
<1>1. GeneratedShare(s)' = GeneratedShare(s) BY Zenon DEF GeneratedShare
<1>2. EmittedShare(s)' = EmittedShare(s) BY Zenon DEF EmittedShare
<1> QED BY <1>1, <1>2, Zenon

(* Only the step Count adds to a share, and what is counted stays as it is.*)
LEMMA CountedStays ==
  ASSUME TypeOK, TodoInv, CInv, NEW w \in Workgroups,
         TakeTurn(w) \/ Spin(w) \/ GiveUp(w) \/ SkipWait(w) \/ Reserve(w) \/ ReturnUnused(w) \/ Release(w)
  PROVE  CInv'
<1>1. /\ UNCHANGED <<size, gen, generated, emitted>>
      /\ \A v \in Workgroups : v # w => pc'[v] = pc[v] /\ todo'[v] = todo[v] /\ offset'[v] = offset[v]
  BY Zenon
     DEF TypeOK, TakeTurn, Spin, GiveUp, SkipWait, Reserve, ReturnUnused, Release, Go, draw
<1>2. \/ pc[w] \in {"wait", "reserve", "return"} /\ pc'[w] \in {"wait", "reserve", "return"}
      \/ pc[w] = "return" /\ pc'[w] = "count" /\ todo'[w] = Streams
      \/ pc[w] = "release" /\ pc'[w] = "done" /\ offset' = offset
  BY Zenon DEF TypeOK, TakeTurn, Spin, GiveUp, SkipWait, Reserve, ReturnUnused, Release, Go
<1>3. Streams # {} BY BuffersAssumption, Zenon
<1>4. CountTodo' BY <1>1, <1>2, <1>3, Zenon DEF CInv, CountTodo
<1>5. ASSUME NEW s \in Streams, NEW v \in Workgroups
      PROVE  /\ Counted(v, s)' <=> Counted(v, s)
             /\ Counted(v, s) => emit_prim(v, s)' = emit_prim(v, s)
  <2>1. CASE v # w
    <3>1. offset'[v] = offset[v] /\ pc'[v] = pc[v] /\ todo'[v] = todo[v] BY <1>1, <2>1, Zenon
    <3>2. emit_prim(v, s)' = emit_prim(v, s) BY <1>1, <3>1, SameEmit, Zenon
    <3> QED BY <3>1, <3>2, Zenon DEF Counted
  <2>2. CASE v = w /\ pc[w] # "release" BY <1>2, <2>2, Zenon DEF Counted
  <2>3. CASE v = w /\ pc[w] = "release"
    <3>1. pc'[w] = "done" /\ offset'[v] = offset[v] BY <1>2, <2>3, Zenon
    <3>2. emit_prim(v, s)' = emit_prim(v, s) BY <1>1, <3>1, SameEmit, Zenon
    <3> QED BY <2>3, <3>1, <3>2, Zenon DEF Counted
  <2> QED BY <2>1, <2>2, <2>3, Zenon
<1>6. ASSUME NEW s \in Streams
      PROVE  generated'[s] = Total(GeneratedShare(s))' /\ emitted'[s] = Total(EmittedShare(s))'
  BY <1>1, <1>5, SameShares, Zenon DEF CInv, TotalInv
<1>7. TotalInv' BY <1>6, Zenon DEF TotalInv
<1> QED BY <1>4, <1>7, Zenon DEF CInv

(* Count adds the share of one workgroup in one stream.                    *)
LEMMA CountAdds ==
  ASSUME TypeOK, CInv, NEW w \in Workgroups, Count(w)
  PROVE  CInv'
<1> DEFINE t == Lowest(todo[w])
<1>1. /\ pc[w] = "count" /\ todo[w] \subseteq Streams /\ todo[w] # {}
  BY Zenon DEF Count, Go, CInv, CountTodo
<1>2. t \in todo[w] /\ t \in Streams BY <1>1, LowestOf, BuffersAssumption, Zenon
<1>3. /\ pc'[w] = (IF todo[w] = {t} THEN "release" ELSE "count") /\ todo'[w] = todo[w] \ {t}
      /\ \A v \in Workgroups : v # w => pc'[v] = pc[v] /\ todo'[v] = todo[v]
      /\ generated' = [generated EXCEPT ![t] = @ + gen[w][t]]
      /\ emitted'   = [emitted EXCEPT ![t] = @ + emit_prim(w, t)]
      /\ UNCHANGED <<size, gen, offset>>
  BY Zenon DEF Count, Go, draw, TypeOK
<1> HIDE DEF t
<1>4. CountTodo' BY <1>1, <1>2, <1>3, Zenon DEF CInv, CountTodo
<1>5. ASSUME NEW s \in Streams, NEW v \in Workgroups
      PROVE  /\ Counted(v, s)' <=> Counted(v, s) \/ (v = w /\ s = t)
             /\ ~Counted(w, t)
  BY <1>1, <1>2, <1>3, Zenon DEF Counted
<1>6. ASSUME NEW s, NEW v PROVE emit_prim(v, s)' = emit_prim(v, s) BY <1>3, SameEmit, Zenon
<1>7. ASSUME NEW s \in Streams, s # t
      PROVE  generated'[s] = Total(GeneratedShare(s))' /\ emitted'[s] = Total(EmittedShare(s))'
  <2>1. generated'[s] = generated[s] /\ emitted'[s] = emitted[s] BY <1>3, <1>7, Zenon DEF TypeOK
  <2>2. GeneratedShare(s)' = GeneratedShare(s) BY <1>3, <1>5, <1>7, Zenon DEF GeneratedShare
  <2>3. EmittedShare(s)' = EmittedShare(s) BY <1>5, <1>6, <1>7, Zenon DEF EmittedShare
  <2> QED BY <2>1, <2>2, <2>3, Zenon DEF CInv, TotalInv
<1>8. ASSUME NEW s \in Streams, s = t PROVE generated'[s] = Total(GeneratedShare(s))'
  <2> DEFINE f == GeneratedShare(s)
             h == GeneratedShare(s)'
             d == gen[w][s]
  <2>1. d \in Nat BY <1>2, <1>8, Zenon DEF TypeOK
  <2>2. ASSUME NEW v \in Workgroups PROVE f[v] \in Nat /\ h[v] = f[v] + (IF v = w THEN d ELSE 0)
    <3>1. gen[v][s] \in Nat /\ gen'[v][s] = gen[v][s] BY <1>2, <1>8, <1>3 DEF TypeOK
    <3>2. f[v] = IF Counted(v, s) THEN gen[v][s] ELSE 0 BY Zenon DEF GeneratedShare
    <3>3. h[v] = IF Counted(v, s)' THEN gen'[v][s] ELSE 0 BY Zenon DEF GeneratedShare
    <3> HIDE DEF f, h
    <3> QED BY <1>2, <1>8, <1>5, <3>1, <3>2, <3>3
  <2> HIDE DEF f, h, d
  <2>3. Total(h) = Total(f) + d BY <2>1, <2>2, TotalMoves
  <2>4. generated'[s] = generated[s] + d BY <1>2, <1>8, <1>3, Zenon DEF TypeOK, d
  <2>5. generated[s] = Total(f) BY <1>2, <1>8, Zenon DEF CInv, TotalInv, f
  <2>6. Total(h) = Total(GeneratedShare(s))' BY Zenon DEF h
  <2> QED BY <2>3, <2>4, <2>5, <2>6, Zenon
<1>9. ASSUME NEW s \in Streams, s = t PROVE emitted'[s] = Total(EmittedShare(s))'
  <2> DEFINE f == EmittedShare(s)
             h == EmittedShare(s)'
             d == emit_prim(w, s)
  <2>1. d \in Nat BY <1>2, <1>9, EmitType, Zenon
  <2>2. ASSUME NEW v \in Workgroups PROVE f[v] \in Nat /\ h[v] = f[v] + (IF v = w THEN d ELSE 0)
    <3>1. emit_prim(v, s) \in Nat /\ emit_prim(v, s)' = emit_prim(v, s)
      BY <1>2, <1>9, <1>6, EmitType, Zenon
    <3>2. f[v] = IF Counted(v, s) THEN emit_prim(v, s) ELSE 0 BY Zenon DEF EmittedShare
    <3>3. h[v] = IF Counted(v, s)' THEN emit_prim(v, s)' ELSE 0 BY Zenon DEF EmittedShare
    <3> HIDE DEF f, h
    <3> QED BY <1>2, <1>9, <1>5, <3>1, <3>2, <3>3
  <2> HIDE DEF f, h, d
  <2>3. Total(h) = Total(f) + d BY <2>1, <2>2, TotalMoves
  <2>4. emitted'[s] = emitted[s] + d BY <1>2, <1>9, <1>3, Zenon DEF TypeOK, d
  <2>5. emitted[s] = Total(f) BY <1>2, <1>9, Zenon DEF CInv, TotalInv, f
  <2>6. Total(h) = Total(EmittedShare(s))' BY Zenon DEF h
  <2> QED BY <2>3, <2>4, <2>5, <2>6, Zenon
<1>10. TotalInv' BY <1>7, <1>8, <1>9, Zenon DEF TotalInv
<1> QED BY <1>4, <1>10, Zenon DEF CInv

(* Nothing is counted when the draw begins.                                *)
LEMMA CountInit == Init => CInv
<1> SUFFICES ASSUME Init PROVE CInv
  BY Zenon
<1>1. \A w \in Workgroups : pc[w] = "wait" BY Zenon DEF Init
<1>2. ASSUME NEW s \in Streams
      PROVE  generated[s] = Total(GeneratedShare(s)) /\ emitted[s] = Total(EmittedShare(s))
  <2>1. \A w \in Workgroups : GeneratedShare(s)[w] = 0 /\ EmittedShare(s)[w] = 0
    BY <1>1, Zenon DEF GeneratedShare, EmittedShare, Counted
  <2>2. Total(GeneratedShare(s)) = 0 /\ Total(EmittedShare(s)) = 0 BY <2>1, TotalZero, Zenon
  <2> QED BY <2>2, Zenon DEF Init
<1>3. CountTodo BY <1>1, Zenon DEF CountTodo
<1>4. TotalInv BY <1>2, Zenon DEF TotalInv
<1> QED BY <1>3, <1>4, Zenon DEF CInv

(* CInv is an invariant of every draw: the totals are the shares counted.  *)
THEOREM CountInvariant == Spec => []CInv
<1>1. SInv /\ CInv /\ [Next]_vars => CInv'
  <2> SUFFICES ASSUME SInv, CInv, [Next]_vars PROVE CInv'
    BY Zenon
  <2>1. CASE UNCHANGED vars
    <3>1. UNCHANGED <<size, gen, pc, todo, offset, generated, emitted>> BY <2>1, Zenon DEF vars
    <3>2. CountTodo' BY <3>1, Zenon DEF CInv, CountTodo
    <3>3. ASSUME NEW s, NEW v
          PROVE  (Counted(v, s)' <=> Counted(v, s)) /\ emit_prim(v, s)' = emit_prim(v, s)
      BY <3>1, SameEmit, Zenon DEF Counted
    <3>4. TotalInv' BY <3>1, <3>3, SameShares, Zenon DEF CInv, TotalInv
    <3> QED BY <3>2, <3>4, Zenon DEF CInv
  <2>2. ASSUME NEW w \in Workgroups, Workgroup(w) PROVE CInv'
    BY <2>2, CountedStays, CountAdds, Zenon DEF SInv, Workgroup
  <2> QED BY <2>1, <2>2, Zenon DEF Next, DrawEnds
<1> QED BY StreamoutInvariant, CountInit, <1>1, PTL DEF Spec

(* Whatever the order and however many waits time out, the query totals of *)
(* a draw that has ended are the sums over its workgroups.                 *)
THEOREM TotalsAddUp == Spec => []TotalsExact
<1>1. CInv => TotalsExact
  <2> SUFFICES ASSUME CInv, Finished, NEW s \in Streams
               PROVE  /\ generated[s] = Total([w \in Workgroups |-> gen[w][s]])
                      /\ emitted[s] = Total([w \in Workgroups |-> emit_prim(w, s)])
    BY Zenon DEF TotalsExact
  <2>1. \A w \in Workgroups : Counted(w, s) BY Zenon DEF Finished, Counted
  <2>2. GeneratedShare(s) = [w \in Workgroups |-> gen[w][s]] BY <2>1, Zenon DEF GeneratedShare
  <2>3. EmittedShare(s) = [w \in Workgroups |-> emit_prim(w, s)] BY <2>1, Zenon DEF EmittedShare
  <2> QED BY <2>2, <2>3, Zenon DEF CInv, TotalInv
<1> QED BY CountInvariant, <1>1, PTL

-----------------------------------------------------------------------------
(* A capture has a length, and the next one begins behind it.              *)
LEMMA WrittenNat ==
  ASSUME TypeOK, NEW w \in Workgroups, NEW b \in Buffers
  PROVE  Written(w, b) \in Nat
<1>1. BufferStream[b] \in Streams /\ Stride[b] \in Nat BY BuffersAssumption, Zenon
<1>2. emit_prim(w, BufferStream[b]) \in Nat BY <1>1, EmitType, Zenon
<1> QED BY <1>1, <1>2 DEF Written

(* In order, a range begins where the one before ends.                     *)
LEMMA NextBegins ==
  ASSUME TypeOK, NEW b \in Buffers, NEW n \in 0..N - 1, offset[n + 1][b] = Before(n + 1, b)
  PROVE  /\ Before(n + 2, b) = End(n + 1, b)
         /\ Before(n + 2, b) = Before(n + 1, b) + Written(n + 1, b)
         /\ Written(n + 1, b) \in Nat /\ Before(n + 1, b) \in Int
<1>1. n + 1 \in Workgroups /\ n + 2 # 1 /\ (n + 2) - 1 = n + 1 BY NAssumption DEF Workgroups
<1>2. Before(n + 2, b) = End(n + 1, b) BY <1>1, Zenon DEF Before
<1>3. Written(n + 1, b) \in Nat BY <1>1, WrittenNat, Zenon
<1>4. Before(n + 1, b) \in Int BY <1>1 DEF TypeOK
<1> QED BY <1>2, <1>3, <1>4, Zenon DEF End

(* Contiguous captures from the start of the draw, of the first m          *)
(* workgroups in buffer b.                                                 *)
Contiguous(m, b) == \A w \in 1..m : offset[w][b] = Before(w, b)

(* Contiguous captures lie behind the start of the buffer.                 *)
LEMMA AfterStart ==
  ASSUME TypeOK, NEW b \in Buffers, NEW m \in 0..N, Contiguous(m, b)
  PROVE  \A n \in 0..m : Before(n + 1, b) \in Int /\ Start[b] <= Before(n + 1, b)
<1> DEFINE S == {n \in 0..m : Before(n + 1, b) \in Int /\ Start[b] <= Before(n + 1, b)}
<1>1. 0 \in S
  <2>1. Start[b] \in Nat BY BuffersAssumption, Zenon
  <2>2. Before(0 + 1, b) = Start[b] BY DEF Before
  <2>3. 0 \in 0..m BY NAssumption
  <2> QED BY <2>1, <2>2, <2>3
<1>2. ASSUME NEW n \in 0..m - 1, n \in S PROVE n + 1 \in S
  <2>1. n \in 0..N - 1 /\ n + 1 \in 1..m /\ n + 1 \in 0..m /\ (n + 1) + 1 = n + 2 BY NAssumption
  <2>2. offset[n + 1][b] = Before(n + 1, b) BY <2>1, Zenon DEF Contiguous
  <2>3. /\ Before(n + 2, b) = Before(n + 1, b) + Written(n + 1, b)
        /\ Written(n + 1, b) \in Nat /\ Before(n + 1, b) \in Int
    BY <2>1, <2>2, NextBegins, Zenon
  <2>4. Start[b] \in Nat /\ Start[b] <= Before(n + 1, b) BY <1>2, BuffersAssumption, Zenon
  <2>5. Before(n + 2, b) \in Int /\ Start[b] <= Before(n + 2, b) BY <2>3, <2>4
  <2> QED BY <2>1, <2>5, Zenon
<1>3. m \in Nat BY NAssumption
<1> HIDE DEF S
<1>4. \A n \in 0..m : n \in S BY <1>1, <1>2, <1>3, OneByOne, Zenon
<1> QED BY <1>4, Zenon DEF S

(* No capture reaches into a later one.                                    *)
LEMMA EndsBefore ==
  ASSUME TypeOK, NEW b \in Buffers, NEW m \in 0..N, Contiguous(m, b), NEW v \in 1..m
  PROVE  \A n \in 0..m : v <= n => End(v, b) <= Before(n + 1, b)
<1> DEFINE S == {n \in 0..m : v <= n => End(v, b) <= Before(n + 1, b)}
<1>1. m \in Nat /\ v \in Workgroups BY NAssumption DEF Workgroups
<1>2. End(v, b) \in Int BY <1>1, BytesType, Zenon
<1>3. 0 \in S BY <1>1
<1>4. ASSUME NEW n \in 0..m - 1, n \in S PROVE n + 1 \in S
  <2>1. n \in 0..N - 1 /\ n + 1 \in 1..m /\ n + 1 \in 0..m /\ (n + 1) + 1 = n + 2 BY NAssumption
  <2>2. offset[n + 1][b] = Before(n + 1, b) BY <2>1, Zenon DEF Contiguous
  <2>3. /\ Before(n + 2, b) = End(n + 1, b)
        /\ Before(n + 2, b) = Before(n + 1, b) + Written(n + 1, b)
        /\ Written(n + 1, b) \in Nat /\ Before(n + 1, b) \in Int
    BY <2>1, <2>2, NextBegins, Zenon
  <2>4. CASE v <= n
    <3>1. End(v, b) <= Before(n + 1, b) BY <1>4, <2>4, Zenon
    <3>2. End(v, b) <= Before(n + 2, b) BY <1>2, <2>3, <3>1
    <3> QED BY <2>1, <3>2, Zenon
  <2>5. CASE v = n + 1
    <3>1. End(v, b) <= Before(n + 2, b) BY <1>2, <2>3, <2>5
    <3> QED BY <2>1, <3>1, Zenon
  <2>6. CASE n + 1 < v
    <3>1. ~(v <= n + 1) BY <2>6
    <3> QED BY <2>1, <3>1, Zenon
  <2> QED BY <2>4, <2>5, <2>6
<1> HIDE DEF S
<1>5. \A n \in 0..m : n \in S BY <1>1, <1>3, <1>4, OneByOne, Zenon
<1> QED BY <1>5, Zenon DEF S

(* The place behind n captures is the end of the last one that is not      *)
(* empty, or the start.                                                    *)
Behind(n, b) ==
    \/ \E w \in 1..n : Written(w, b) > 0 /\ Before(n + 1, b) = End(w, b)
    \/ Before(n + 1, b) = Start[b] /\ \A w \in 1..n : Written(w, b) = 0

(* Contiguous captures end there.                                          *)
LEMMA BehindLast ==
  ASSUME TypeOK, NEW b \in Buffers, NEW m \in 0..N, Contiguous(m, b)
  PROVE  \A n \in 0..m : Behind(n, b)
<1> DEFINE S == {n \in 0..m : Behind(n, b)}
<1>1. m \in Nat BY NAssumption
<1>2. 0 \in S
  <2>1. Before(0 + 1, b) = Start[b] BY DEF Before
  <2>2. 0 \in 0..m /\ \A w \in 1..0 : FALSE BY <1>1
  <2> QED BY <2>1, <2>2, Zenon DEF Behind
<1>3. ASSUME NEW n \in 0..m - 1, n \in S PROVE n + 1 \in S
  <2>1. n \in 0..N - 1 /\ n + 1 \in 1..m /\ n + 1 \in 0..m /\ (n + 1) + 1 = n + 2
        /\ n + 1 \in 1..n + 1 /\ n \in Nat
    BY NAssumption
  <2>2. offset[n + 1][b] = Before(n + 1, b) BY <2>1, Zenon DEF Contiguous
  <2>3. /\ Before(n + 2, b) = End(n + 1, b)
        /\ Before(n + 2, b) = Before(n + 1, b) + Written(n + 1, b)
        /\ Written(n + 1, b) \in Nat /\ Before(n + 1, b) \in Int
    BY <2>1, <2>2, NextBegins, Zenon
  <2>4. CASE Written(n + 1, b) > 0
    <3>1. Behind(n + 1, b) BY <2>1, <2>3, <2>4, Zenon DEF Behind
    <3> QED BY <2>1, <3>1, Zenon
  <2>5. CASE ~(Written(n + 1, b) > 0)
    <3>1. Written(n + 1, b) = 0 /\ Before(n + 2, b) = Before(n + 1, b) BY <2>3, <2>5
    <3>2. \A w \in 1..n + 1 : w \in 1..n \/ w = n + 1 BY <2>1
    <3>3. \A w \in 1..n : w \in 1..n + 1 BY <2>1
    <3>4. Behind(n, b) BY <1>3, Zenon
    <3>5. Behind(n + 1, b)
      <4>1. CASE \E w \in 1..n : Written(w, b) > 0 /\ Before(n + 1, b) = End(w, b)
        BY <2>1, <3>1, <3>3, <4>1, Zenon DEF Behind
      <4>2. CASE Before(n + 1, b) = Start[b] /\ \A w \in 1..n : Written(w, b) = 0
        BY <2>1, <3>1, <3>2, <4>2, Zenon DEF Behind
      <4> QED BY <3>4, <4>1, <4>2, Zenon DEF Behind
    <3> QED BY <2>1, <3>5, Zenon
  <2> QED BY <2>4, <2>5, Zenon
<1> HIDE DEF S
<1>4. \A n \in 0..m : n \in S BY <1>1, <1>2, <1>3, OneByOne, Zenon
<1> QED BY <1>4, Zenon DEF S

-----------------------------------------------------------------------------
(* "the offset (and the Vulkan counter copied from it) is the byte offset  *)
(* after the last primitive actually captured", for any number of          *)
(* workgroups of a draw in which no wait timed out.                        *)
THEOREM CounterAfterLast == Spec => []OrderedOffsetAfterLast
<1>1. SInv => OrderedOffsetAfterLast
  <2> SUFFICES ASSUME SInv, timeouts = 0, Ticket0 = 0, Finished, NEW b \in Buffers, size[b] # 0
               PROVE  \/ \E w \in Workgroups :
                            /\ Written(w, b) > 0 /\ counter[b] = End(w, b)
                            /\ \A v \in Workgroups : Written(v, b) > 0 => End(v, b) <= End(w, b)
                      \/ counter[b] = Start[b] /\ \A w \in Workgroups : Written(w, b) = 0
    BY Zenon DEF OrderedOffsetAfterLast, OffsetAfterLast
  <2>1. TypeOK BY Zenon DEF SInv
  <2>2. PICK k \in 1..N + 1 : Turn(k) /\ Ranges(k)
    BY Zenon DEF SInv, OrderInv, Ordered, any_buffer_valid
  <2>3. k = N + 1
    <3>1. k \notin Workgroups BY <2>2, Zenon DEF Turn, Finished
    <3> QED BY <3>1, NAssumption DEF Workgroups
  <2>4. counter[b] = Before(N + 1, b) BY <2>2, <2>3, Zenon DEF Ranges
  <2>5. Contiguous(N, b) BY <2>2, Zenon DEF Ranges, Reserved, Finished, Contiguous, Workgroups
  <2>6. N \in 0..N /\ Workgroups = 1..N BY NAssumption DEF Workgroups
  <2>7. Behind(N, b) BY <2>1, <2>5, <2>6, BehindLast, Zenon
  <2>8. \A v \in Workgroups : v <= N BY NAssumption DEF Workgroups
  <2>9. \A v \in Workgroups : End(v, b) <= Before(N + 1, b)
    BY <2>1, <2>5, <2>6, <2>8, EndsBefore, Zenon
  <2> QED BY <2>4, <2>6, <2>7, <2>9, Zenon DEF Behind
<1> QED BY StreamoutInvariant, <1>1, PTL

(* What a workgroup writes is inside the buffer, whatever the order of     *)
(* the reservations: also the one that gave up waiting stays inside.       *)
CapturesInside ==
    \A w \in Workgroups, b \in Buffers : Written(w, b) > 0 => End(w, b) <= size[b]

(* A workgroup that captures has room in a bound buffer.                   *)
LEMMA StaysInside ==
  ASSUME TypeOK, NEW w \in Workgroups, NEW b \in Buffers, Written(w, b) > 0
  PROVE  size[b] # 0 /\ End(w, b) <= size[b]
<1> DEFINE s == BufferStream[b]
           e == emit_prim(w, s)
           o == buffer_offset(w, b)
<1>1. s \in Streams /\ Stride[b] \in Nat \ {0} /\ b \in 0..3 BY BuffersAssumption, Zenon
<1>2. e \in Nat /\ e <= Limit(w, s, b) BY <1>1, LeastLimit, Zenon
<1>3. Limit(w, s, b) \in Nat BY <1>1, LimitType, Zenon
<1>4. Written(w, b) = e * Stride[b] BY Zenon DEF Written
<1>5. size[b] \in Nat /\ o \in Int /\ offset[w][b] \in Int BY DEF TypeOK, buffer_offset
<1>6. e > 0
  <2> HIDE DEF e
  <2>1. CASE e = 0
    <3>1. e * Stride[b] = 0 BY <1>1, <2>1
    <3> QED BY <1>4, <3>1
  <2> QED BY <1>2, <2>1
<1>7. size[b] >= o /\ o + e * Stride[b] <= size[b]
  <2>1. CASE size[b] < o
    <3>1. Limit(w, s, b) = 0 BY <1>2, <2>1, RoomForLimit, Zenon
    <3> HIDE DEF e
    <3> QED BY <1>2, <1>6, <3>1
  <2>2. CASE size[b] >= o
    <3>1. o + e * Stride[b] <= size[b] BY <1>2, <2>2, RoomForLimit, Zenon
    <3> QED BY <2>2, <3>1, Zenon
  <2> HIDE DEF e, o
  <2> QED BY <1>5, <2>1, <2>2
<1>8. e * Stride[b] \in Nat \ {0}
  <2> HIDE DEF e
  <2>1. e * Stride[b] \in Nat BY <1>1, <1>2
  <2>2. e * Stride[b] > 0 BY <1>4, Zenon DEF e
  <2> QED BY <2>1, <2>2
<1>9. size[b] # 0
  <2>1. ASSUME size[b] = 0 PROVE FALSE
    <3>1. o = 0 BY <2>1, Zenon DEF buffer_offset
    <3> DEFINE x == e * Stride[b]
    <3> HIDE DEF e, o, x
    <3>2. x \in Nat \ {0} /\ 0 + x <= 0 BY <1>7, <1>8, <2>1, <3>1, Zenon DEF x
    <3> QED BY <3>2
  <2> QED BY <2>1, Zenon
<1>10. o = offset[w][b] BY <1>9, Zenon DEF buffer_offset
<1> QED BY <1>4, <1>7, <1>9, <1>10, Zenon DEF End

(* No workgroup of any draw captures past the end of a buffer, timeouts    *)
(* and unequal buffers of a stream included.                               *)
THEOREM NoneWritesPastTheEnd == Spec => []CapturesInside
<1>1. TypeOK => CapturesInside BY StaysInside, Zenon DEF CapturesInside
<1> QED BY StreamoutTypeCorrect, <1>1, PTL

(* While no wait timed out, no two workgroups of a draw capture into the   *)
(* same bytes.  With timeouts this fails for three workgroups.             *)
OrderedUniqueRanges == timeouts = 0 /\ Ticket0 = 0 => UniqueRanges

(* Ranges are unique in any draw, of any number of workgroups and buffers, *)
(* in which no wait timed out.                                             *)
THEOREM RangesUniqueInOrder == Spec => []OrderedUniqueRanges
<1>1. SInv => OrderedUniqueRanges
  <2> SUFFICES ASSUME SInv, timeouts = 0, Ticket0 = 0, NEW b \in Buffers,
                      NEW w \in Workgroups, Reserved(w), Written(w, b) > 0
               PROVE  /\ Start[b] <= offset[w][b] /\ End(w, b) <= size[b]
                      /\ \A v \in Workgroups \ {w} : Reserved(v) /\ Written(v, b) > 0 =>
                            End(w, b) <= offset[v][b] \/ End(v, b) <= offset[w][b]
    BY Zenon DEF OrderedUniqueRanges, UniqueRanges
  <2>1. TypeOK BY Zenon DEF SInv
  <2>2. size[b] # 0 /\ End(w, b) <= size[b] BY <2>1, StaysInside, Zenon
  <2>3. PICK k \in 1..N + 1 : Turn(k) /\ Ranges(k)
    BY <2>2, Zenon DEF SInv, OrderInv, Ordered, any_buffer_valid
  <2>4. \A v \in Workgroups : Reserved(v) => v <= k BY <2>3, NAssumption DEF Turn, Reserved, Workgroups
  <2>5. \A v \in Workgroups : v < k => Reserved(v) BY <2>3, Zenon DEF Turn, Reserved
  <2>6. \A v \in Workgroups : Reserved(v) => offset[v][b] = Before(v, b)
    BY <2>3, Zenon DEF Ranges
  <2>7. ASSUME NEW v \in Workgroups, Reserved(v)
        PROVE  /\ v \in 1..N /\ v - 1 \in 0..N /\ Contiguous(v - 1, b)
               /\ offset[v][b] = Before((v - 1) + 1, b)
    <3>1. v \in 1..N /\ v - 1 \in 0..N /\ (v - 1) + 1 = v BY NAssumption DEF Workgroups
    <3>2. ASSUME NEW u \in 1..v - 1 PROVE offset[u][b] = Before(u, b)
      <4>1. u \in Workgroups /\ u < k BY <2>4, <2>7, <3>1, NAssumption DEF Workgroups
      <4> QED BY <2>5, <2>6, <4>1, Zenon
    <3> QED BY <2>6, <2>7, <3>1, <3>2, Zenon DEF Contiguous
  <2>8. ASSUME NEW v \in Workgroups, Reserved(v), NEW u \in Workgroups, u < v
        PROVE  End(u, b) <= offset[v][b]
    <3>1. u \in 1..v - 1 /\ u <= v - 1 /\ v - 1 \in 0..v - 1 BY <2>8, NAssumption DEF Workgroups
    <3>2. v - 1 \in 0..N /\ Contiguous(v - 1, b) /\ offset[v][b] = Before((v - 1) + 1, b)
      BY <2>7, <2>8, Zenon
    <3>3. End(u, b) <= Before((v - 1) + 1, b) BY <2>1, <3>1, <3>2, EndsBefore, Zenon
    <3> QED BY <3>2, <3>3, Zenon
  <2>9. Start[b] <= offset[w][b]
    <3>1. w - 1 \in 0..N /\ w - 1 \in 0..w - 1 /\ Contiguous(w - 1, b)
          /\ offset[w][b] = Before((w - 1) + 1, b)
      BY <2>7
    <3>2. Start[b] <= Before((w - 1) + 1, b) BY <2>1, <3>1, AfterStart, Zenon
    <3> QED BY <3>1, <3>2, Zenon
  <2>10. ASSUME NEW v \in Workgroups \ {w}, Reserved(v)
         PROVE  End(w, b) <= offset[v][b] \/ End(v, b) <= offset[w][b]
    <3>1. v < w \/ w < v BY <2>10, NAssumption DEF Workgroups
    <3> QED BY <2>8, <2>10, <3>1, Zenon
  <2> QED BY <2>2, <2>9, <2>10, Zenon
<1> QED BY StreamoutInvariant, <1>1, PTL
=============================================================================
