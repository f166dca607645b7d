--------------------------- MODULE OrderedStreamout ---------------------------
(***************************************************************************)
(* The transform-feedback protocol that ac_nir_ngg_build_streamout_buffer_ *)
(* info emits for use_ps5_global_streamout: invocation 0 of each workgroup *)
(* of a draw waits for a ticket in global memory, reserves a range of      *)
(* every buffer with an atomic add, returns what it will not write, adds   *)
(* to the query totals and passes the ticket on.  The wait is bounded.     *)
(*                                                                         *)
(* A step is one atomic operation on the shared state.  The two totals of  *)
(* a stream, which nothing reads before the draw ends, are added in one.   *)
(***************************************************************************)
EXTENDS Integers

CONSTANTS N,              \* workgroups of the draw, numbered in primitive order
          First,          \* id of the first input primitive of each, and the end
          Buffers,        \* info->buffers_written
          Streams,        \* info->streams_written
          BufferStream,   \* info->buffer_to_stream
          Stride,         \* prim_stride, in bytes
          Start,          \* buffer offsets the draw resumes from
          Sizes,          \* buffer sizes the driver may bind, 0 for unbound
          Ticket0,        \* the ticket the draw starts with
          MaxGen,         \* bound: primitives a workgroup generates in a stream
          SpinBound       \* reads of the ticket before a workgroup gives up

Workgroups == 1..N

ASSUME NAssumption == N \in Nat \ {0}
ASSUME FirstAssumption ==
    /\ First \in [1..N + 1 -> Nat]
    /\ First[1] = 0
    /\ \A v, w \in 1..N + 1 : v < w => First[v] < First[w]
ASSUME BuffersAssumption ==
    /\ Buffers \subseteq 0..3 /\ Buffers # {} /\ Streams \subseteq 0..3
    /\ BufferStream \in [Buffers -> Streams]
    /\ Stride \in [Buffers -> Nat \ {0}]
    /\ Start \in [Buffers -> Nat]
    /\ Sizes \subseteq Nat
    /\ Ticket0 \in Nat
    /\ MaxGen \in Nat
    /\ SpinBound \in Nat \ {0}

VARIABLES
    size,         \* bytes of each buffer, fixed for the draw
    gen,          \* primitives each workgroup generates in each stream, fixed
    pc,           \* where invocation 0 of each workgroup is
    todo,         \* buffers or streams its present loop has yet to visit
    spins,        \* reads of the ticket it made
    offset,       \* what its atomic add on each buffer returned
    counter,      \* state + 0: bytes reserved of each buffer
    generated,    \* state + 16: primitives generated, by stream
    emitted,      \* state + 32: primitives captured, by stream
    ticket,       \* state + 48: primitive id whose workgroup is next
    timeouts      \* state + 52: workgroups that went on without the ticket

draw == <<size, gen>>
vars == <<size, gen, pc, todo, spins, offset, counter, generated, emitted, ticket, timeouts>>

Steps == {"wait", "reserve", "return", "count", "release", "done"}

(* Every variable keeps its kind of value; no query total goes below zero, *)
(* and a wait reads the ticket a bounded number of times.                  *)
TypeOK ==
    /\ size      \in [Buffers -> Nat]
    /\ gen       \in [Workgroups -> [Streams -> Nat]]
    /\ pc        \in [Workgroups -> Steps]
    /\ todo      \in [Workgroups -> SUBSET (Buffers \cup Streams)]
    /\ spins     \in [Workgroups -> 0..SpinBound]
    /\ offset    \in [Workgroups -> [Buffers -> Int]]
    /\ counter   \in [Buffers -> Int]
    /\ generated \in [Streams -> Nat]
    /\ emitted   \in [Streams -> Nat]
    /\ ticket    \in Nat
    /\ timeouts  \in Nat

(* The driver zeroes the ticket before every draw; a ticket it did not     *)
(* zero is the stall the bounded wait is for.                              *)
Init ==
    /\ size      \in [Buffers -> Sizes]
    /\ gen       \in [Workgroups -> [Streams -> 0..MaxGen]]
    /\ pc        = [w \in Workgroups |-> "wait"]
    /\ todo      = [w \in Workgroups |-> {}]
    /\ spins     = [w \in Workgroups |-> 0]
    /\ offset    = [w \in Workgroups |-> [b \in Buffers |-> 0]]
    /\ counter   = Start
    /\ generated = [s \in Streams |-> 0]
    /\ emitted   = [s \in Streams |-> 0]
    /\ ticket    = Ticket0
    /\ timeouts  = 0

-----------------------------------------------------------------------------
any_buffer_valid == \E b \in Buffers : size[b] # 0

workgroup_buffer_size(w, b) ==
    IF size[b] # 0 THEN gen[w][BufferStream[b]] * Stride[b] ELSE 0

(* The offset of an unbound buffer is not looked at.                       *)
buffer_offset(w, b) == IF size[b] # 0 THEN offset[w][b] ELSE 0

imin(x, y) == IF x < y THEN x ELSE y

(* Mutants: the division rounds up; room already reserved is not counted.  *)
LimitRoundsUp(w, s, b) ==
    IF b \in Buffers /\ BufferStream[b] = s
    THEN IF size[b] < buffer_offset(w, b) THEN 0
         ELSE (size[b] - buffer_offset(w, b) + Stride[b] - 1) \div Stride[b]
    ELSE gen[w][s]
LimitOfWholeBuffer(w, s, b) ==
    IF b \in Buffers /\ BufferStream[b] = s THEN size[b] \div Stride[b] ELSE gen[w][s]

(* Whole primitives buffer b has room for; a workgroup whose range starts  *)
(* past the end of the buffer emits none.                                  *)
Limit(w, s, b) ==
    IF b \in Buffers /\ BufferStream[b] = s
    THEN IF size[b] < buffer_offset(w, b) THEN 0
         ELSE (size[b] - buffer_offset(w, b)) \div Stride[b]
    ELSE gen[w][s]

(* The smallest buffer of the stream decides.                              *)
emit_prim(w, s) ==
    imin(imin(imin(imin(gen[w][s], Limit(w, s, 0)), Limit(w, s, 1)), Limit(w, s, 2)),
         Limit(w, s, 3))

Written(w, b) == emit_prim(w, BufferStream[b]) * Stride[b]

-----------------------------------------------------------------------------
Go(w, from, to, work) ==
    /\ pc[w] = from
    /\ pc' = [pc EXCEPT ![w] = to]
    /\ todo' = [todo EXCEPT ![w] = work]

(* One read of the ticket: this workgroup's turn, another spin, or the     *)
(* bound.                                                                  *)
TakeTurn(w) ==
    /\ Go(w, "wait", "reserve", Buffers)
    /\ any_buffer_valid
    /\ ticket = First[w]
    /\ UNCHANGED <<draw, spins, offset, counter, generated, emitted, ticket, timeouts>>

(* Mutant: the wait has no bound.                                          *)
SpinUnbounded(w) ==
    /\ pc[w] = "wait"
    /\ any_buffer_valid
    /\ ticket # First[w]
    /\ spins' = [spins EXCEPT ![w] = @ + 1]
    /\ UNCHANGED <<draw, pc, todo, offset, counter, generated, emitted, ticket, timeouts>>

Spin(w) ==
    /\ pc[w] = "wait"
    /\ any_buffer_valid
    /\ ticket # First[w]
    /\ spins[w] + 1 < SpinBound
    /\ spins' = [spins EXCEPT ![w] = @ + 1]
    /\ UNCHANGED <<draw, pc, todo, offset, counter, generated, emitted, ticket, timeouts>>

(* Mutant: the count of reads starts over instead of ending the wait.      *)
SpinAgain(w) ==
    /\ pc[w] = "wait"
    /\ any_buffer_valid
    /\ ticket # First[w]
    /\ spins[w] + 1 >= SpinBound
    /\ spins' = [spins EXCEPT ![w] = 0]
    /\ UNCHANGED <<draw, pc, todo, offset, counter, generated, emitted, ticket, timeouts>>

GiveUp(w) ==
    /\ Go(w, "wait", "reserve", Buffers)
    /\ any_buffer_valid
    /\ ticket # First[w]
    /\ spins[w] + 1 >= SpinBound
    /\ timeouts' = timeouts + 1
    /\ UNCHANGED <<draw, spins, offset, counter, generated, emitted, ticket>>

(* With no buffer bound there is nothing to capture and no wait.           *)
SkipWait(w) ==
    /\ Go(w, "wait", "reserve", Buffers)
    /\ ~any_buffer_valid
    /\ UNCHANGED <<draw, spins, offset, counter, generated, emitted, ticket, timeouts>>

(* u_foreach_bit: the lowest buffer or stream that is left.                *)
Lowest(S) == CHOOSE x \in S : \A y \in S : x <= y

(* Mutant: the ticket is passed on without the range being final.          *)
ReserveAndPass(w) ==
    LET b    == Lowest(todo[w])
        last == todo[w] = {b}
    IN  /\ Go(w, "reserve", IF last THEN "return" ELSE "reserve",
              IF last THEN Buffers ELSE todo[w] \ {b})
        /\ offset' = [offset EXCEPT ![w][b] = counter[b]]
        /\ counter' = [counter EXCEPT ![b] = @ + workgroup_buffer_size(w, b)]
        /\ ticket' = IF any_buffer_valid THEN First[w + 1] ELSE ticket
        /\ UNCHANGED <<draw, spins, generated, emitted, timeouts>>

(* The loops end when nothing is left; the next step follows at once.      *)
Reserve(w) ==
    LET b    == Lowest(todo[w])
        last == todo[w] = {b}
    IN  /\ Go(w, "reserve", IF last THEN "return" ELSE "reserve",
              IF last THEN Buffers ELSE todo[w] \ {b})
        /\ offset' = [offset EXCEPT ![w][b] = counter[b]]
        /\ counter' = [counter EXCEPT ![b] = @ + workgroup_buffer_size(w, b)]
        /\ UNCHANGED <<draw, spins, generated, emitted, ticket, timeouts>>

(* Mutant: the rest of a reservation is returned only by a workgroup that  *)
(* starts past the end.                                                    *)
ReturnOnOverflow(w) ==
    LET b    == Lowest(todo[w])
        last == todo[w] = {b}
    IN  /\ Go(w, "return", IF last THEN "count" ELSE "return",
              IF last THEN Streams ELSE todo[w] \ {b})
        /\ counter' = [counter EXCEPT ![b] =
              IF size[b] < buffer_offset(w, b) THEN @ - workgroup_buffer_size(w, b) ELSE @]
        /\ UNCHANGED <<draw, spins, offset, generated, emitted, ticket, timeouts>>

ReturnUnused(w) ==
    LET b    == Lowest(todo[w])
        last == todo[w] = {b}
    IN  /\ Go(w, "return", IF last THEN "count" ELSE "return",
              IF last THEN Streams ELSE todo[w] \ {b})
        /\ counter' = [counter EXCEPT ![b] = @ - (workgroup_buffer_size(w, b) - Written(w, b))]
        /\ UNCHANGED <<draw, spins, offset, generated, emitted, ticket, timeouts>>

(* Mutant: the totals count what was generated twice.                      *)
CountGenerated(w) ==
    LET s    == Lowest(todo[w])
        last == todo[w] = {s}
    IN  /\ Go(w, "count", IF last THEN "release" ELSE "count", todo[w] \ {s})
        /\ generated' = [generated EXCEPT ![s] = @ + gen[w][s]]
        /\ emitted'   = [emitted EXCEPT ![s] = @ + gen[w][s]]
        /\ UNCHANGED <<draw, spins, offset, counter, ticket, timeouts>>

Count(w) ==
    LET s    == Lowest(todo[w])
        last == todo[w] = {s}
    IN  /\ Go(w, "count", IF last THEN "release" ELSE "count", todo[w] \ {s})
        /\ generated' = [generated EXCEPT ![s] = @ + gen[w][s]]
        /\ emitted'   = [emitted EXCEPT ![s] = @ + emit_prim(w, s)]
        /\ UNCHANGED <<draw, spins, offset, counter, ticket, timeouts>>

(* An exchange, so a late workgroup may move the ticket back.              *)
Release(w) ==
    /\ Go(w, "release", "done", {})
    /\ ticket' = IF any_buffer_valid THEN First[w + 1] ELSE ticket
    /\ UNCHANGED <<draw, spins, offset, counter, generated, emitted, timeouts>>
-----------------------------------------------------------------------------
Finished == \A w \in Workgroups : pc[w] = "done"

Workgroup(w) ==
    \/ TakeTurn(w) \/ Spin(w) \/ GiveUp(w) \/ SkipWait(w)
    \/ Reserve(w) \/ ReturnUnused(w) \/ Count(w) \/ Release(w)

DrawEnds == Finished /\ UNCHANGED vars

Next == (\E w \in Workgroups : Workgroup(w)) \/ DrawEnds

Spec == Init /\ [][Next]_vars

(* The hardware keeps running every workgroup it launched.                 *)
FairSpec == Spec /\ \A w \in Workgroups : WF_vars(Workgroup(w))

-----------------------------------------------------------------------------
(* Workgroups whose ranges are decided, and where such a range ends.       *)
Reserved(w) == pc[w] \in {"return", "count", "release", "done"}
End(w, b)   == offset[w][b] + Written(w, b)

(* Whatever the order, timeouts included, no two workgroups capture into   *)
(* the same bytes and none writes past the end of a buffer: the waves of a *)
(* workgroup store its vertices after the ticket has moved on.             *)
UniqueRanges ==
    \A b \in Buffers : \A w \in Workgroups : Reserved(w) /\ Written(w, b) > 0 =>
        /\ Start[b] <= offset[w][b] /\ End(w, b) <= size[b]
        /\ \A v \in Workgroups \ {w} : Reserved(v) /\ Written(v, b) > 0 =>
              End(w, b) <= offset[v][b] \/ End(v, b) <= offset[w][b]

(* While no wait timed out, the ticket orders the draw: a workgroup has a  *)
(* range only once every earlier one is done, and its range starts where   *)
(* the capture of the one before ends.                                     *)
OrderedCapture ==
    timeouts = 0 /\ Ticket0 = 0 /\ any_buffer_valid =>
        \A w \in Workgroups : Reserved(w) /\ w > 1 =>
            /\ pc[w - 1] = "done"
            /\ \A b \in Buffers : offset[w][b] = End(w - 1, b)

(* e primitives fit every buffer of the stream behind the reservation.     *)
Fits(w, s, e) ==
    \A b \in Buffers : BufferStream[b] = s => buffer_offset(w, b) + e * Stride[b] <= size[b]

(* A workgroup emits the largest number of whole primitives that fit every *)
(* buffer of the stream, and none when one of them starts past the end.    *)
EmitsWhatFits ==
    \A w \in Workgroups, s \in Streams : Reserved(w) =>
        /\ emit_prim(w, s) \in 0..gen[w][s]
        /\ Fits(w, s, emit_prim(w, s)) \/ (emit_prim(w, s) = 0 /\ ~Fits(w, s, 0))
        /\ emit_prim(w, s) < gen[w][s] => ~Fits(w, s, emit_prim(w, s) + 1)

Total(f) == LET sum[w \in 0..N] == IF w = 0 THEN 0 ELSE sum[w - 1] + f[w] IN sum[N]

(* The two query totals of a draw are the sums over its workgroups, also   *)
(* when waits timed out.                                                   *)
TotalsExact ==
    Finished => \A s \in Streams :
        /\ generated[s] = Total([w \in Workgroups |-> gen[w][s]])
        /\ emitted[s] = Total([w \in Workgroups |-> emit_prim(w, s)])

(* "the offset (and the Vulkan counter copied from it) is the byte offset  *)
(* after the last primitive actually captured" (ac_nir_prerast_utils.c).   *)
OffsetAfterLast ==
    Finished => \A b \in Buffers : size[b] # 0 =>
        \/ \E w \in Workgroups : /\ Written(w, b) > 0 /\ counter[b] = End(w, b)
                                /\ \A v \in Workgroups : Written(v, b) > 0 => End(v, b) <= End(w, b)
        \/ counter[b] = Start[b] /\ \A w \in Workgroups : Written(w, b) = 0

(* The same for a draw in which no wait timed out.                         *)
OrderedOffsetAfterLast == timeouts = 0 /\ Ticket0 = 0 => OffsetAfterLast

(* "a stalled ticket can never hang the GPU": every draw ends.             *)
DrawFinishes == <>Finished
=============================================================================
