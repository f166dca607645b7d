------------------------------ MODULE OrbisFutex ------------------------------
(***************************************************************************)
(* The futex of the Orbis build (util/futex.c under __ORBIS__) and the two *)
(* primitives built on it: simple_mtx (util/simple_mtx.h), which guards    *)
(* the GLSL type cache and the option table during compiles, and the job   *)
(* fence of util_queue.  One mutex and one condition variable stand behind *)
(* every futex word of the process.                                        *)
(*                                                                         *)
(* A step is one atomic access to a futex word or one section under        *)
(* orbis_futex_mutex; a wait's section is split at the point where         *)
(* pthread_cond_wait gives the mutex up, because the word is changed       *)
(* without it.                                                             *)
(***************************************************************************)
EXTENDS Integers

CONSTANTS Threads, Mutexes, Fences,
          Workers,    \* threads that run jobs: they signal fences and wait for none
          None    \* orbis_futex_mutex is free; a thread that is nowhere

ASSUME WordsAssumption ==
    /\ Workers \subseteq Threads
    /\ Mutexes \cap Fences = {}
    /\ None \notin Threads \cup Mutexes \cup Fences

Words == Mutexes \cup Fences

VARIABLES
    val,      \* the futex words: mtx->val and fence->val
    pc,       \* what each thread does next
    on,       \* the word it does it to
    timed,    \* its wait has a timeout
    fm,       \* holder of orbis_futex_mutex
    claim     \* what its last fence wait returned, and of which fence

vars == <<val, pc, on, timed, fm, claim>>

Steps == {"idle", "held",                          \* outside the primitives
          "mark", "retry", "read",                 \* about to look at the word
          "enter", "block", "asleep", "woken",     \* inside futex_wait
          "expired", "recheck",
          "clear", "wake", "broadcast"}            \* about to wake

(* Every variable keeps its kind of value; a word never leaves 0, 1 and 2. *)
TypeOK ==
    /\ val   \in [Words -> 0..2]
    /\ pc    \in [Threads -> Steps]
    /\ on    \in [Threads -> Words \cup {None}]
    /\ timed \in [Threads -> BOOLEAN]
    /\ fm    \in Threads \cup {None}
    /\ claim \in [Threads -> Fences \cup {None}]

(* Mutexes start free and fences signalled.                                *)
Init ==
    /\ val   = [w \in Words |-> 0]
    /\ pc    = [t \in Threads |-> "idle"]
    /\ on    = [t \in Threads |-> None]
    /\ timed = [t \in Threads |-> FALSE]
    /\ fm    = None
    /\ claim = [t \in Threads |-> None]

Goto(t, from, to) == pc[t] = from /\ pc' = [pc EXCEPT ![t] = to]
Store(w, v) == val' = [val EXCEPT ![w] = v]

-----------------------------------------------------------------------------
(* simple_mtx_lock: the compare-and-exchange; 0 is free, 1 locked, 2       *)
(* locked with waiters.                                                    *)
Lock(t, m) ==
    /\ Goto(t, "idle", CASE val[m] = 0 -> "held" [] val[m] = 1 -> "mark" [] OTHER -> "enter")
    /\ on' = [on EXCEPT ![t] = m]
    /\ Store(m, IF val[m] = 0 THEN 1 ELSE val[m])
    /\ UNCHANGED <<timed, fm, claim>>

(* Mutant: a woken thread takes the lock as if nobody else waited.         *)
ExchangeOne(t) ==
    /\ Goto(t, "mark", IF val[on[t]] = 0 THEN "held" ELSE "enter")
    /\ Store(on[t], IF val[on[t]] = 0 THEN 1 ELSE 2)
    /\ UNCHANGED <<on, timed, fm, claim>>

(* Mutants: an increment instead of the exchange; only a word that says    *)
(* that others wait is taken for locked.                                   *)
ExchangeIncrements(t) ==
    /\ Goto(t, "mark", IF val[on[t]] = 0 THEN "held" ELSE "enter")
    /\ Store(on[t], val[on[t]] + 1)
    /\ UNCHANGED <<on, timed, fm, claim>>
ExchangeUnlessTwo(t) ==
    /\ Goto(t, "mark", IF val[on[t]] # 2 THEN "held" ELSE "enter")
    /\ Store(on[t], 2)
    /\ UNCHANGED <<on, timed, fm, claim>>

(* p_atomic_xchg(&mtx->val, 2), before the first wait and after each.      *)
Exchange(t) ==
    /\ Goto(t, "mark", IF val[on[t]] = 0 THEN "held" ELSE "enter")
    /\ Store(on[t], 2)
    /\ UNCHANGED <<on, timed, fm, claim>>

Unlock(t) ==
    LET m == on[t]
    IN  /\ Goto(t, "held", IF val[m] = 1 THEN "idle" ELSE "clear")
        /\ Store(m, val[m] - 1)
        /\ on' = [on EXCEPT ![t] = IF val[m] = 1 THEN None ELSE m]
        /\ UNCHANGED <<timed, fm, claim>>

ClearAndWake(t) ==
    /\ Goto(t, "clear", "wake")
    /\ Store(on[t], 0)
    /\ UNCHANGED <<on, timed, fm, claim>>
-----------------------------------------------------------------------------
(* do_futex_fence_wait: the read at its head and after each futex_wait.    *)
FenceWait(t, f, timeout) ==
    /\ Goto(t, "idle", "read")
    /\ on' = [on EXCEPT ![t] = f]
    /\ timed' = [timed EXCEPT ![t] = timeout]
    /\ UNCHANGED <<val, fm, claim>>

Return(t, signalled) ==
    /\ on' = [on EXCEPT ![t] = None]
    /\ timed' = [timed EXCEPT ![t] = FALSE]
    /\ claim' = [claim EXCEPT ![t] = IF signalled THEN on[t] ELSE None]

FenceRead(t) ==
    LET v == val[on[t]]
    IN  /\ Goto(t, "read", CASE v = 0 -> "idle" [] v = 1 -> "retry" [] OTHER -> "enter")
        /\ IF v = 0 THEN Return(t, TRUE) ELSE UNCHANGED <<on, timed, claim>>
        /\ UNCHANGED <<val, fm>>

(* The compare-and-exchange of 1 by 2.                                     *)
FenceMark(t) ==
    LET f == on[t]
    IN  /\ Goto(t, "retry", IF val[f] = 0 THEN "idle" ELSE "enter")
        /\ Store(f, IF val[f] = 1 THEN 2 ELSE val[f])
        /\ IF val[f] = 0 THEN Return(t, TRUE) ELSE UNCHANGED <<on, timed, claim>>
        /\ UNCHANGED fm

(* util_queue_fence_signal, by the thread that finished the job.           *)
FenceSignal(t, f) ==
    /\ val[f] # 0
    /\ Goto(t, "idle", IF val[f] = 2 THEN "broadcast" ELSE "idle")
    /\ Store(f, 0)
    /\ on' = [on EXCEPT ![t] = IF val[f] = 2 THEN f ELSE None]
    /\ UNCHANGED <<timed, fm, claim>>

(* util_queue_fence_reset, by whichever thread adds a job; it ensures that *)
(* nobody waits or is about to, though the wake of the last job's signal   *)
(* may still be on its way.  What earlier waits returned is then history.  *)
FenceReset(t, f) ==
    /\ pc[t] = "idle"
    /\ val[f] = 0
    /\ \A u \in Threads : on[u] = f => pc[u] = "broadcast"
    /\ Store(f, 1)
    /\ claim' = [u \in Threads |-> IF claim[u] = f THEN None ELSE claim[u]]
    /\ UNCHANGED <<pc, on, timed, fm>>
-----------------------------------------------------------------------------
(* futex_wait returned 0: its caller looks at the word again.              *)
Again(t) == IF on[t] \in Mutexes THEN "mark" ELSE "read"

(* Mutant: the word is loaded before orbis_futex_mutex is taken.           *)
FutexTestUnlocked(t) ==
    /\ pc[t] \in {"enter", "woken"}
    /\ pc' = [pc EXCEPT ![t] = IF val[on[t]] = 2 THEN "block" ELSE Again(t)]
    /\ UNCHANGED <<val, on, timed, fm, claim>>

(* The test of the wait loop, under orbis_futex_mutex.                     *)
FutexTest(t) ==
    /\ fm = None
    /\ pc[t] \in {"enter", "woken"}
    /\ IF val[on[t]] = 2
       THEN pc' = [pc EXCEPT ![t] = "block"] /\ fm' = t
       ELSE pc' = [pc EXCEPT ![t] = Again(t)] /\ UNCHANGED fm
    /\ UNCHANGED <<val, on, timed, claim>>

(* pthread_cond_wait: registers and releases the mutex in one.             *)
Block(t) ==
    /\ Goto(t, "block", "asleep")
    /\ fm' = None
    /\ UNCHANGED <<val, on, timed, claim>>

(* A condition variable may wake a waiter for no reason.                   *)
Spurious(t) ==
    /\ Goto(t, "asleep", "woken")
    /\ UNCHANGED <<val, on, timed, fm, claim>>

(* pthread_cond_timedwait returns ETIMEDOUT once it has the mutex back.    *)
Expire(t) ==
    /\ timed[t]
    /\ Goto(t, "asleep", "expired")
    /\ UNCHANGED <<val, on, timed, fm, claim>>

Expired(t) ==
    /\ fm = None
    /\ Goto(t, "expired", "recheck")
    /\ UNCHANGED <<val, on, timed, fm, claim>>

(* Mutant: any end of a wait counts as the signal.                         *)
RecheckAlways(t) ==
    /\ Goto(t, "recheck", "idle")
    /\ Return(t, TRUE)
    /\ UNCHANGED <<val, fm>>

(* "If the value changed before we noticed the timeout, treat as success." *)
Recheck(t) ==
    LET changed == val[on[t]] # 2
    IN  /\ Goto(t, "recheck", IF changed THEN Again(t) ELSE "idle")
        /\ IF changed THEN UNCHANGED <<on, timed, claim>> ELSE Return(t, FALSE)
        /\ UNCHANGED <<val, fm>>

Asleep == {u \in Threads : pc[u] = "asleep"}

(* futex_wake(addr, 1): the address is not looked at.                      *)
Wake(t) ==
    /\ fm = None
    /\ pc[t] = "wake"
    /\ \/ Asleep = {} /\ pc' = [pc EXCEPT ![t] = "idle"]
       \/ \E u \in Asleep : pc' = [pc EXCEPT ![t] = "idle", ![u] = "woken"]
    /\ on' = [on EXCEPT ![t] = None]
    /\ UNCHANGED <<val, timed, fm, claim>>

(* futex_wake(addr, INT32_MAX).                                            *)
Broadcast(t) ==
    /\ fm = None
    /\ pc[t] = "broadcast"
    /\ pc' = [u \in Threads |->
          IF u = t THEN "idle" ELSE IF u \in Asleep THEN "woken" ELSE pc[u]]
    /\ on' = [on EXCEPT ![t] = None]
    /\ UNCHANGED <<val, timed, fm, claim>>

-----------------------------------------------------------------------------
Call(t) ==
    \/ \E m \in Mutexes : Lock(t, m)
    \/ t \notin Workers /\ \E f \in Fences, timeout \in BOOLEAN : FenceWait(t, f, timeout)
    \/ \E f \in Fences : FenceReset(t, f)

(* What a thread that is inside one of the primitives does next.           *)
Step(t) ==
    \/ Exchange(t) \/ ClearAndWake(t) \/ FenceRead(t) \/ FenceMark(t) \/ FutexTest(t)
    \/ Block(t) \/ Expired(t) \/ Recheck(t) \/ Wake(t) \/ Broadcast(t)

Job(t) == \E f \in Fences : FenceSignal(t, f)

Next ==
    \/ \E t \in Threads : Call(t) \/ Step(t) \/ Unlock(t) \/ Spurious(t) \/ Expire(t)
    \/ \E t \in Workers : Job(t)

Spec == Init /\ [][Next]_vars

(* Threads inside a primitive are scheduled and get orbis_futex_mutex when *)
(* they keep asking for it, a lock's owner leaves its section, and the     *)
(* queue gets to every job.  Nothing is assumed of calls, of spurious      *)
(* wakeups or of clocks.                                                   *)
FairSpec ==
    /\ Spec
    /\ \A t \in Threads : SF_vars(Step(t)) /\ WF_vars(Unlock(t))
    /\ \A f \in Fences : \A t \in Workers : SF_vars(FenceSignal(t, f))

-----------------------------------------------------------------------------
(* A thread has a mutex from the exchange that took it to the decrement or *)
(* the store that makes the word 0; the wake that follows is outside.      *)
Owns(t, m) == pc[t] \in {"held", "clear"} /\ on[t] = m
Owners == [m \in Mutexes |-> {t \in Threads : Owns(t, m)}]

Mtx == INSTANCE SimpleMtx WITH owners <- Owners

(* simple_mtx is a mutex: no thread gets it while another one, even one    *)
(* that is still clearing the word, has it.                                *)
SimpleMtxSpec == Mtx!Spec

(* In particular two threads are never inside at once.                     *)
MutualExclusion ==
    \A t, u \in Threads : pc[t] = "held" /\ pc[u] = "held" /\ on[t] = on[u] => t = u

(* "Waiters check the futex value while holding the mutex, so a wake       *)
(* cannot race with condition registration" (futex.c): a thread that       *)
(* sleeps, or is about to, on a word that no longer says so has a thread   *)
(* of the same word awake that will wake it or mark the word again.        *)
NoLostWake ==
    \A t \in Threads : pc[t] \in {"block", "asleep"} /\ val[on[t]] # 2 =>
        \E u \in Threads :
            /\ on[u] = on[t]
            /\ pc[u] \in {"clear", "wake", "broadcast", "woken", "enter", "mark"}

(* A fence wait that returned true saw its fence signalled, and it stays   *)
(* so until the fence is reset.                                            *)
WaitMeansSignalled == \A t \in Threads : claim[t] # None => val[claim[t]] = 0

(* Every wait for a fence returns once its job is done, with the timeout   *)
(* or without.                                                             *)
FenceWaitReturns ==
    \A t \in Threads : pc[t] = "read" ~> on[t] = None
=============================================================================
