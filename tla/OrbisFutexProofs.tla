--------------------------- MODULE OrbisFutexProofs ---------------------------
(***************************************************************************)
(* simple_mtx is a mutex on the Orbis futex, for any number of threads,    *)
(* mutexes and fences, whatever futex_wait and futex_wake do: the futex    *)
(* word alone excludes.  The invariant says who may find which value: a    *)
(* word that somebody owns is not 0, and has one owner.                    *)
(***************************************************************************)
EXTENDS OrbisFutex, TLAPS

(* Which kind of word a thread's next step is about.                       *)
KindInv ==
    \A t \in Threads :
        /\ pc[t] = "idle" => on[t] = None
        /\ pc[t] \in {"held", "mark", "clear", "wake"} => on[t] \in Mutexes
        /\ pc[t] \in {"read", "retry", "broadcast"} => on[t] \in Fences
        /\ pc[t] \in {"enter", "block", "asleep", "woken"} => on[t] \in Words
        /\ timed[t] \/ pc[t] \in {"expired", "recheck"} => on[t] \in Fences
        /\ timed[t] => pc[t] # "broadcast"

OwnerInv ==
    \A m \in Mutexes : \A t \in Threads : Owns(t, m) =>
        /\ val[m] # 0
        /\ \A u \in Threads : Owns(u, m) => u = t

MInv == TypeOK /\ KindInv /\ OwnerInv

(* Initially no word is owned.                                             *)
LEMMA MutexInit == Init => MInv
BY WordsAssumption DEF Init, MInv, TypeOK, KindInv, OwnerInv, Owns, Words, Steps

(* The steps of simple_mtx and of the fences keep the types.               *)
LEMMA MutexType == MInv /\ [Next]_vars => TypeOK'
<1> SUFFICES ASSUME MInv, [Next]_vars PROVE TypeOK'
  BY Zenon
<1> USE DEF MInv, TypeOK, Goto, Store, Words, Steps
<1>1. ASSUME NEW t \in Threads, NEW m \in Mutexes, Lock(t, m) PROVE TypeOK'
  <2>1. val' \in [Words -> 0..2] BY <1>1 DEF Lock
  <2>2. pc' \in [Threads -> Steps] 
    <3>1. (CASE val[m] = 0 -> "held" [] val[m] = 1 -> "mark" [] OTHER -> "enter") \in Steps
      <4>1. CASE val[m] = 0 BY <4>1, Zenon
      <4>2. CASE val[m] = 1 BY <4>2, Zenon
      <4>3. CASE val[m] # 0 /\ val[m] # 1 BY <4>3, Zenon
      <4> QED BY <4>1, <4>2, <4>3, Zenon
    <3> QED BY <1>1, <3>1, Zenon DEF Lock
  <2> QED BY <1>1, <2>1, <2>2, Zenon DEF Lock
<1>2. ASSUME NEW t \in Threads, Exchange(t) PROVE TypeOK'
  BY <1>2 DEF Exchange, KindInv
<1>3. ASSUME NEW t \in Threads, Unlock(t) PROVE TypeOK'
  BY <1>3 DEF Unlock, KindInv, OwnerInv, Owns
<1>4. ASSUME NEW t \in Threads, ClearAndWake(t) PROVE TypeOK'
  BY <1>4 DEF ClearAndWake, KindInv
<1>5. ASSUME NEW t \in Threads, NEW f \in Fences, NEW b \in BOOLEAN, FenceWait(t, f, b)
      PROVE TypeOK'
  BY <1>5, Zenon DEF FenceWait
<1>6. ASSUME NEW t \in Threads, FenceRead(t) PROVE TypeOK'
  <2>1. CASE val[on[t]] = 0 BY <1>6, <2>1, Zenon DEF FenceRead, Return, KindInv
  <2>2. CASE val[on[t]] = 1 BY <1>6, <2>2 DEF FenceRead, KindInv
  <2>3. CASE val[on[t]] # 0 /\ val[on[t]] # 1
    <3>1. pc' = [pc EXCEPT ![t] = "enter"] BY <1>6, <2>3, Zenon DEF FenceRead
    <3> QED BY <1>6, <2>3, <3>1, Zenon DEF FenceRead, KindInv
  <2> QED BY <2>1, <2>2, <2>3, Zenon
<1>7. ASSUME NEW t \in Threads, FenceMark(t) PROVE TypeOK'
  <2>1. on[t] \in Fences BY <1>7, Zenon DEF FenceMark, KindInv
  <2>2. CASE val[on[t]] = 0 BY <1>7, <2>1, <2>2, Zenon DEF FenceMark, Return
  <2>3. CASE val[on[t]] # 0 BY <1>7, <2>1, <2>3 DEF FenceMark
  <2> QED BY <2>2, <2>3, Zenon
<1>8. ASSUME NEW t \in Threads, NEW f \in Fences, FenceSignal(t, f) PROVE TypeOK'
  BY <1>8 DEF FenceSignal
<1>9. ASSUME NEW t \in Threads, NEW f \in Fences, FenceReset(t, f) PROVE TypeOK'
  BY <1>9 DEF FenceReset
<1>10. ASSUME NEW t \in Threads, FutexTest(t) PROVE TypeOK'
  BY <1>10, Zenon DEF FutexTest, Again
<1>11. ASSUME NEW t \in Threads, Block(t) \/ Spurious(t) \/ Expire(t) \/ Expired(t)
       PROVE TypeOK'
  BY <1>11, Zenon DEF Block, Spurious, Expire, Expired
<1>12. ASSUME NEW t \in Threads, Recheck(t) PROVE TypeOK'
  BY <1>12, Zenon DEF Recheck, Return, Again, KindInv
<1>13. ASSUME NEW t \in Threads, Wake(t) \/ Broadcast(t) PROVE TypeOK'
  BY <1>13, Zenon DEF Wake, Broadcast, Asleep
<1>14. CASE UNCHANGED vars BY <1>14, Zenon DEF vars
<1> HIDE DEF MInv, TypeOK, Goto, Store, Words, Steps
<1> QED
  BY <1>1, <1>2, <1>3, <1>4, <1>5, <1>6, <1>7, <1>8, <1>9, <1>10, <1>11, <1>12, <1>13, <1>14,
     WordsAssumption, Zenon DEF Next, Call, Step, Job

(* Each step of a primitive leads to a step about the same kind of word.   *)
LEMMA MutexKind == MInv /\ [Next]_vars => KindInv'
<1> SUFFICES ASSUME MInv, [Next]_vars PROVE KindInv'
  BY Zenon
<1> USE WordsAssumption DEF MInv, TypeOK, KindInv, Goto, Words, Steps
<1>1. ASSUME NEW t \in Threads, NEW m \in Mutexes, Lock(t, m) PROVE KindInv'
  <2>1. pc'[t] \in {"held", "mark", "enter"}
    <3>1. CASE val[m] = 0 BY <1>1, <3>1, Zenon DEF Lock
    <3>2. CASE val[m] = 1 BY <1>1, <3>2, Zenon DEF Lock
    <3>3. CASE val[m] # 0 /\ val[m] # 1 BY <1>1, <3>3, Zenon DEF Lock
    <3> QED BY <3>1, <3>2, <3>3, Zenon
  <2>2. /\ on'[t] = m
        /\ UNCHANGED timed
        /\ \A u \in Threads \ {t} : pc'[u] = pc[u] /\ on'[u] = on[u]
    BY <1>1, Zenon DEF Lock
  <2>3. ~timed[t] BY <1>1 DEF Lock
  <2> QED BY <2>1, <2>2, <2>3
<1>2. ASSUME NEW t \in Threads, Exchange(t) \/ Unlock(t) \/ ClearAndWake(t) PROVE KindInv'
  BY <1>2 DEF Exchange, Unlock, ClearAndWake
<1>3. ASSUME NEW t \in Threads, NEW f \in Fences, NEW b \in BOOLEAN, FenceWait(t, f, b)
      PROVE KindInv'
  BY <1>3 DEF FenceWait
<1>4. ASSUME NEW t \in Threads, FenceRead(t) PROVE KindInv'
  <2>1. CASE val[on[t]] = 0 BY <1>4, <2>1 DEF FenceRead, Return
  <2>2. CASE val[on[t]] = 1 BY <1>4, <2>2 DEF FenceRead
  <2>3. CASE val[on[t]] # 0 /\ val[on[t]] # 1
    <3>1. pc' = [pc EXCEPT ![t] = "enter"] BY <1>4, <2>3, Zenon DEF FenceRead
    <3> QED BY <1>4, <2>3, <3>1 DEF FenceRead
  <2> QED BY <2>1, <2>2, <2>3, Zenon
<1>5. ASSUME NEW t \in Threads, FenceMark(t) \/ Recheck(t) PROVE KindInv'
  BY <1>5 DEF FenceMark, Recheck, Return, Again
<1>6. ASSUME NEW t \in Threads, NEW f \in Fences, FenceSignal(t, f) \/ FenceReset(t, f)
      PROVE KindInv'
  BY <1>6 DEF FenceSignal, FenceReset
<1>7. ASSUME NEW t \in Threads, FutexTest(t) PROVE KindInv'
  BY <1>7 DEF FutexTest, Again
<1>8. ASSUME NEW t \in Threads, Block(t) \/ Spurious(t) \/ Expire(t) \/ Expired(t)
      PROVE KindInv'
  BY <1>8 DEF Block, Spurious, Expire, Expired
<1>9. ASSUME NEW t \in Threads, Wake(t) PROVE KindInv'
  BY <1>9 DEF Wake, Asleep
<1>10. ASSUME NEW t \in Threads, Broadcast(t) PROVE KindInv'
  <2>1. on'[t] = None /\ pc'[t] = "idle" BY <1>10, Zenon DEF Broadcast
  <2>2. ~timed[t] BY <1>10, Zenon DEF Broadcast
  <2>3. UNCHANGED timed BY <1>10, Zenon DEF Broadcast
  <2>4. ASSUME NEW u \in Threads \ {t}
        PROVE  on'[u] = on[u] /\ (pc'[u] = pc[u] \/ (pc[u] = "asleep" /\ pc'[u] = "woken"))
    BY <1>10, <2>4, Zenon DEF Broadcast, Asleep
  <2> QED BY <2>1, <2>2, <2>3, <2>4
<1>11. CASE UNCHANGED vars BY <1>11, Zenon DEF vars
<1> HIDE DEF MInv, TypeOK, KindInv, Goto, Words, Steps
<1> QED
  BY <1>1, <1>2, <1>3, <1>4, <1>5, <1>6, <1>7, <1>8, <1>9, <1>10, <1>11, Zenon
     DEF Next, Call, Step, Job

(* A lock is taken only on a word that says 0, which nobody owns; a word   *)
(* goes back to 0 only when its owner leaves it.                           *)
LEMMA MutexOwner == MInv /\ [Next]_vars => OwnerInv'
<1> SUFFICES ASSUME MInv, [Next]_vars PROVE OwnerInv'
  BY Zenon
<1> USE WordsAssumption DEF MInv, TypeOK, KindInv, OwnerInv, Owns, Goto, Store, Words, Steps
<1>1. ASSUME NEW t \in Threads, NEW m \in Mutexes, Lock(t, m) PROVE OwnerInv'
  <2>1. CASE val[m] = 0 BY <1>1, <2>1 DEF Lock
  <2>2. CASE val[m] # 0
    <3>1. pc'[t] \in {"mark", "enter"} BY <1>1, <2>2 DEF Lock
    <3>2. /\ val' = val
          /\ \A u \in Threads \ {t} : pc'[u] = pc[u] /\ on'[u] = on[u]
      BY <1>1, <2>2 DEF Lock
    <3> QED BY <3>1, <3>2
  <2> QED BY <2>1, <2>2, Zenon
<1>2. ASSUME NEW t \in Threads, Exchange(t) PROVE OwnerInv'
  BY <1>2 DEF Exchange
<1>3. ASSUME NEW t \in Threads, Unlock(t) PROVE OwnerInv'
  BY <1>3 DEF Unlock
<1>4. ASSUME NEW t \in Threads, ClearAndWake(t) PROVE OwnerInv'
  BY <1>4 DEF ClearAndWake
<1>5. ASSUME NEW t \in Threads, NEW f \in Fences, NEW b \in BOOLEAN, FenceWait(t, f, b)
      PROVE OwnerInv'
  BY <1>5 DEF FenceWait
<1>6. ASSUME NEW t \in Threads, FenceRead(t) PROVE OwnerInv'
  <2>1. CASE val[on[t]] = 0 BY <1>6, <2>1 DEF FenceRead, Return
  <2>2. CASE val[on[t]] = 1 BY <1>6, <2>2 DEF FenceRead
  <2>3. CASE val[on[t]] # 0 /\ val[on[t]] # 1
    <3>1. pc' = [pc EXCEPT ![t] = "enter"] BY <1>6, <2>3, Zenon DEF FenceRead
    <3> QED BY <1>6, <2>3, <3>1 DEF FenceRead
  <2> QED BY <2>1, <2>2, <2>3, Zenon
<1>7. ASSUME NEW t \in Threads, FenceMark(t) \/ Recheck(t) PROVE OwnerInv'
  BY <1>7 DEF FenceMark, Recheck, Return, Again
<1>8. ASSUME NEW t \in Threads, NEW f \in Fences, FenceSignal(t, f) \/ FenceReset(t, f)
      PROVE OwnerInv'
  BY <1>8 DEF FenceSignal, FenceReset
<1>9. ASSUME NEW t \in Threads, FutexTest(t) PROVE OwnerInv'
  BY <1>9 DEF FutexTest, Again
<1>10. ASSUME NEW t \in Threads, Block(t) \/ Spurious(t) \/ Expire(t) \/ Expired(t)
       PROVE OwnerInv'
  BY <1>10 DEF Block, Spurious, Expire, Expired
<1>11. ASSUME NEW t \in Threads, Wake(t) PROVE OwnerInv'
  BY <1>11 DEF Wake, Asleep
<1>12. ASSUME NEW t \in Threads, Broadcast(t) PROVE OwnerInv'
  BY <1>12 DEF Broadcast, Asleep
<1>13. CASE UNCHANGED vars BY <1>13 DEF vars
<1> HIDE DEF MInv, TypeOK, KindInv, OwnerInv, Owns, Goto, Store, Words, Steps
<1> QED
  BY <1>1, <1>2, <1>3, <1>4, <1>5, <1>6, <1>7, <1>8, <1>9, <1>10, <1>11, <1>12, <1>13, Zenon
  DEF Next, Call, Step, Job

(* The futex words have their three values, and every thread is at a step  *)
(* of the code, about a word of the right kind.                            *)
THEOREM FutexTypeCorrect == Spec => []TypeOK
<1>1. MInv /\ [Next]_vars => MInv' BY MutexType, MutexKind, MutexOwner, Zenon DEF MInv
<1>2. MInv => TypeOK BY Zenon DEF MInv
<1> QED BY MutexInit, <1>1, <1>2, PTL DEF Spec

(* For any threads, mutexes and fences, no two threads are between         *)
(* simple_mtx_lock and simple_mtx_unlock of one mutex, although the futex  *)
(* wakes threads of other words and wakes them spuriously.                 *)
THEOREM SimpleMtxExcludes == Spec => []MutualExclusion
<1>1. MInv /\ [Next]_vars => MInv' BY MutexType, MutexKind, MutexOwner, Zenon DEF MInv
<1>2. MInv => MutualExclusion BY Zenon DEF MInv, KindInv, OwnerInv, Owns, MutualExclusion
<1> QED BY MutexInit, <1>1, <1>2, PTL DEF Spec

(* What a step does to the owners: nothing, a thread takes a free mutex,   *)
(* or its owner gives it up.                                               *)
Took(t, m)  == /\ val[m] = 0 /\ \A u \in Threads : ~Owns(u, m)
               /\ \A u \in Threads, k \in Mutexes :
                      Owns(u, k)' <=> Owns(u, k) \/ (u = t /\ k = m)
Freed(t, m) == /\ Owns(t, m) /\ \A u \in Threads : Owns(u, m) => u = t
               /\ \A u \in Threads, k \in Mutexes :
                      Owns(u, k)' <=> Owns(u, k) /\ ~(u = t /\ k = m)
SameOwners  == \A u \in Threads, k \in Mutexes : Owns(u, k)' <=> Owns(u, k)

(* Those are the steps of SimpleMtx.                                       *)
LEMMA OwnersStep ==
  ASSUME NEW t \in Threads, NEW m \in Mutexes
  PROVE  /\ Took(t, m) => Mtx!simple_mtx_lock(t, m)
         /\ Freed(t, m) => Mtx!simple_mtx_unlock(t, m)
<1>1. \A k \in Mutexes : Owners[k] = {u \in Threads : Owns(u, k)} BY Zenon DEF Owners
<1>2. \A k \in Mutexes : Owners'[k] = {u \in Threads : Owns(u, k)'} BY Zenon DEF Owners
<1>3. Owners = [k \in Mutexes |-> Owners[k]] /\ Owners' = [k \in Mutexes |-> Owners'[k]]
  BY Zenon DEF Owners
<1>4. ASSUME Took(t, m) PROVE Mtx!simple_mtx_lock(t, m)
  <2>1. Owners[m] = {} BY <1>1, <1>4, Zenon DEF Took
  <2>2. Owners'[m] = {t} BY <1>2, <1>4 DEF Took
  <2>3. ASSUME NEW k \in Mutexes, k # m PROVE Owners'[k] = Owners[k]
    BY <1>1, <1>2, <1>4, <2>3, Zenon DEF Took
  <2>4. Owners' = [Owners EXCEPT ![m] = {t}] BY <1>3, <2>2, <2>3, Zenon
  <2> QED BY <2>1, <2>4, Zenon DEF Mtx!simple_mtx_lock
<1>5. ASSUME Freed(t, m) PROVE Mtx!simple_mtx_unlock(t, m)
  <2>1. Owners[m] = {t} BY <1>1, <1>5, Zenon DEF Freed
  <2>2. Owners'[m] = {} BY <1>2, <1>5, Zenon DEF Freed
  <2>3. ASSUME NEW k \in Mutexes, k # m PROVE Owners'[k] = Owners[k]
    BY <1>1, <1>2, <1>5, <2>3, Zenon DEF Freed
  <2>4. Owners' = [Owners EXCEPT ![m] = {}] BY <1>3, <2>2, <2>3, Zenon
  <2> QED BY <2>1, <2>4, Zenon DEF Mtx!simple_mtx_unlock
<1> QED BY <1>4, <1>5, Zenon

(* Which steps of the primitives are which.                                *)
LEMMA OwnersMove ==
  ASSUME MInv, [Next]_vars
  PROVE  SameOwners \/ \E t \in Threads, m \in Mutexes : Took(t, m) \/ Freed(t, m)
<1> USE WordsAssumption DEF MInv, TypeOK, KindInv, OwnerInv, Owns, Goto, Store, Words, Steps
<1>1. ASSUME NEW t \in Threads, NEW m \in Mutexes, Lock(t, m) PROVE SameOwners \/ Took(t, m)
  <2>1. CASE val[m] = 0 BY <1>1, <2>1 DEF Lock, Took
  <2>2. CASE val[m] # 0
    <3>1. pc'[t] \in {"mark", "enter"} /\ pc[t] = "idle" BY <1>1, <2>2 DEF Lock
    <3>2. \A u \in Threads \ {t} : pc'[u] = pc[u] /\ on'[u] = on[u] BY <1>1 DEF Lock
    <3> QED BY <3>1, <3>2, Zenon DEF SameOwners
  <2> QED BY <2>1, <2>2, Zenon
<1>2. ASSUME NEW t \in Threads, Exchange(t) PROVE SameOwners \/ Took(t, on[t])
  BY <1>2 DEF Exchange, SameOwners, Took
<1>3. ASSUME NEW t \in Threads, Unlock(t) PROVE SameOwners \/ Freed(t, on[t])
  BY <1>3 DEF Unlock, SameOwners, Freed
<1>4. ASSUME NEW t \in Threads, ClearAndWake(t) PROVE Freed(t, on[t])
  BY <1>4 DEF ClearAndWake, Freed
<1>5. ASSUME NEW t \in Threads, NEW f \in Fences, NEW b \in BOOLEAN, FenceWait(t, f, b)
      PROVE  SameOwners
  BY <1>5 DEF FenceWait, SameOwners
<1>6. ASSUME NEW t \in Threads, FenceRead(t) PROVE SameOwners
  <2>1. pc'[t] \in {"idle", "retry", "enter"} /\ pc[t] = "read"
    <3>1. CASE val[on[t]] = 0 BY <1>6, <3>1 DEF FenceRead
    <3>2. CASE val[on[t]] = 1 BY <1>6, <3>2 DEF FenceRead
    <3>3. CASE val[on[t]] # 0 /\ val[on[t]] # 1 BY <1>6, <3>3 DEF FenceRead
    <3> QED BY <3>1, <3>2, <3>3, Zenon
  <2>2. \A u \in Threads \ {t} : pc'[u] = pc[u] /\ on'[u] = on[u]
    BY <1>6 DEF FenceRead, Return
  <2> QED BY <2>1, <2>2, Zenon DEF SameOwners
<1>7. ASSUME NEW t \in Threads, FenceMark(t) \/ Recheck(t) PROVE SameOwners
  BY <1>7 DEF FenceMark, Recheck, Return, Again, SameOwners
<1>8. ASSUME NEW t \in Threads, NEW f \in Fences, FenceSignal(t, f) \/ FenceReset(t, f)
      PROVE  SameOwners
  BY <1>8 DEF FenceSignal, FenceReset, SameOwners
<1>9. ASSUME NEW t \in Threads, FutexTest(t) PROVE SameOwners
  BY <1>9 DEF FutexTest, Again, SameOwners
<1>10. ASSUME NEW t \in Threads, Block(t) \/ Spurious(t) \/ Expire(t) \/ Expired(t)
       PROVE  SameOwners
  BY <1>10 DEF Block, Spurious, Expire, Expired, SameOwners
<1>11. ASSUME NEW t \in Threads, Wake(t) PROVE SameOwners
  BY <1>11 DEF Wake, Asleep, SameOwners
<1>12. ASSUME NEW t \in Threads, Broadcast(t) PROVE SameOwners
  BY <1>12 DEF Broadcast, Asleep, SameOwners
<1>13. CASE UNCHANGED vars BY <1>13, Zenon DEF vars, SameOwners
<1>14. \A t \in Threads : pc[t] \in {"mark", "held", "clear"} => on[t] \in Mutexes
  BY Zenon DEF KindInv
<1>15. ASSUME NEW t \in Threads, Exchange(t) \/ Unlock(t) \/ ClearAndWake(t)
       PROVE  on[t] \in Mutexes
  BY <1>14, <1>15, Zenon DEF Exchange, Unlock, ClearAndWake
<1> HIDE DEF MInv, TypeOK, KindInv, OwnerInv, Owns, Goto, Store, Words, Steps
<1> QED
  BY <1>1, <1>2, <1>3, <1>4, <1>5, <1>6, <1>7, <1>8, <1>9, <1>10, <1>11, <1>12,
     <1>13, <1>15, Zenon
  DEF Next, Call, Step, Job

(* simple_mtx on the Orbis futex implements SimpleMtx for any threads,     *)
(* mutexes and fences: each step of the word takes a free mutex, gives up  *)
(* one's own, or does not show.                                            *)
THEOREM ImplementsSimpleMtx == Spec => SimpleMtxSpec
<1>1. MInv /\ [Next]_vars => MInv' BY MutexType, MutexKind, MutexOwner, Zenon DEF MInv
<1>2. Init => Mtx!Init
  BY Zenon DEF Init, Mtx!Init, Owners, Owns
<1>3. MInv /\ [Next]_vars => [Mtx!Next]_Owners
  <2> SUFFICES ASSUME MInv, [Next]_vars PROVE [Mtx!Next]_Owners
    BY Zenon
  <2>1. CASE SameOwners
    BY <2>1, Zenon DEF SameOwners, Owners
  <2>2. ASSUME NEW t \in Threads, NEW m \in Mutexes, Took(t, m) \/ Freed(t, m)
        PROVE  Mtx!Next
    BY <2>2, OwnersStep, Zenon DEF Mtx!Next
  <2> QED BY OwnersMove, <2>1, <2>2, Zenon
<1> QED BY MutexInit, <1>1, <1>2, <1>3, PTL DEF Spec, SimpleMtxSpec, Mtx!Spec

-----------------------------------------------------------------------------
(* Only a fence's own signal and reset, and the mark of a waiter that saw  *)
(* it unsignalled, store to its word; a mutex stores to another.           *)
LEMMA ClaimKept == MInv /\ WaitMeansSignalled /\ [Next]_vars => WaitMeansSignalled'
<1> SUFFICES ASSUME MInv, WaitMeansSignalled, [Next]_vars PROVE WaitMeansSignalled'
  BY Zenon
<1> USE WordsAssumption DEF MInv, TypeOK, KindInv, WaitMeansSignalled, Goto, Store, Words, Steps
<1>1. ASSUME NEW t \in Threads, NEW m \in Mutexes, Lock(t, m) PROVE WaitMeansSignalled'
  <2>1. UNCHANGED claim /\ \A f \in Fences : val'[f] = val[f] BY <1>1, Zenon DEF Lock
  <2> QED BY <2>1
<1>2. ASSUME NEW t \in Threads, Exchange(t) \/ Unlock(t) \/ ClearAndWake(t)
      PROVE WaitMeansSignalled'
  <2>1. on[t] \in Mutexes BY <1>2, Zenon DEF Exchange, Unlock, ClearAndWake
  <2>2. UNCHANGED claim /\ \A f \in Fences : val'[f] = val[f]
    BY <1>2, <2>1 DEF Exchange, Unlock, ClearAndWake
  <2> QED BY <2>2
<1>3. ASSUME NEW t \in Threads, NEW f \in Fences, NEW b \in BOOLEAN, FenceWait(t, f, b)
      PROVE  WaitMeansSignalled'
  BY <1>3, Zenon DEF FenceWait
<1>4. ASSUME NEW t \in Threads, FenceRead(t) PROVE WaitMeansSignalled'
  <2>1. CASE val[on[t]] = 0 BY <1>4, <2>1 DEF FenceRead, Return
  <2>2. CASE val[on[t]] # 0
    <3>1. UNCHANGED <<claim, val>> BY <1>4, <2>2, Zenon DEF FenceRead
    <3> QED BY <3>1, Zenon
  <2> QED BY <2>1, <2>2, Zenon
<1>5. ASSUME NEW t \in Threads, FenceMark(t) PROVE WaitMeansSignalled'
  <2>1. \A f \in Fences : val[f] = 0 => val'[f] = 0 BY <1>5, Zenon DEF FenceMark
  <2>2. CASE val[on[t]] = 0 BY <1>5, <2>1, <2>2 DEF FenceMark, Return
  <2>3. CASE val[on[t]] # 0
    <3>1. UNCHANGED claim BY <1>5, <2>3, Zenon DEF FenceMark
    <3> QED BY <2>1, <3>1, Zenon
  <2> QED BY <2>2, <2>3, Zenon
<1>6. ASSUME NEW t \in Threads, Recheck(t) PROVE WaitMeansSignalled'
  BY <1>6 DEF Recheck, Return
<1>7. ASSUME NEW t \in Threads, NEW f \in Fences, FenceSignal(t, f) PROVE WaitMeansSignalled'
  BY <1>7, Zenon DEF FenceSignal
<1>8. ASSUME NEW t \in Threads, NEW f \in Fences, FenceReset(t, f) PROVE WaitMeansSignalled'
  BY <1>8, Zenon DEF FenceReset
<1>9. ASSUME UNCHANGED <<claim, val>> PROVE WaitMeansSignalled'
  BY <1>9, Zenon
<1>10. ASSUME NEW t \in Threads,
              FutexTest(t) \/ Block(t) \/ Spurious(t) \/ Expire(t) \/ Expired(t)
              \/ Wake(t) \/ Broadcast(t)
       PROVE  UNCHANGED <<claim, val>>
  BY <1>10, Zenon DEF FutexTest, Block, Spurious, Expire, Expired, Wake, Broadcast
<1>11. CASE UNCHANGED vars BY <1>11, Zenon DEF vars
<1> HIDE DEF MInv, TypeOK, KindInv, WaitMeansSignalled, Goto, Store, Words, Steps
<1> QED
  BY <1>1, <1>2, <1>3, <1>4, <1>5, <1>6, <1>7, <1>8, <1>9, <1>10, <1>11, Zenon
     DEF Next, Call, Step, Job

(* For any threads, mutexes and fences, a fence wait that returned true    *)
(* has its fence signalled until the next reset: no spurious wake, late    *)
(* timeout or wake meant for another word makes util_queue_fence_wait      *)
(* return before its job is done.                                          *)
THEOREM FenceWaitsAreTrue == Spec => []WaitMeansSignalled
<1> DEFINE CInv == MInv /\ WaitMeansSignalled
<1>1. Init => CInv BY MutexInit, Zenon DEF Init, WaitMeansSignalled
<1>2. CInv /\ [Next]_vars => CInv'
  BY MutexType, MutexKind, MutexOwner, ClaimKept, Zenon DEF MInv
<1> QED BY <1>1, <1>2, PTL DEF Spec

-----------------------------------------------------------------------------
(* A wake is lost only when it reaches a thread of another word.  With one *)
(* mutex alone, or with any number of fences and no mutex, it cannot be.   *)

(* Between its test of the word and pthread_cond_wait a thread holds       *)
(* orbis_futex_mutex, so no futex_wake comes in between.                   *)
FmInv == \A t \in Threads : pc[t] = "block" => fm = t

Settled(t) == pc[t] \in {"block", "asleep"} /\ val[on[t]] # 2

(* Who looks after a thread that sleeps on a word that is no longer 2.     *)
Minder(u) == pc[u] \in {"clear", "wake", "woken", "enter", "mark"}

WakeInv ==
    \A t \in Threads : Settled(t) =>
        /\ on[t] \in Mutexes => \E u \in Threads : on[u] = on[t] /\ Minder(u)
        /\ on[t] \in Fences => \E u \in Threads : on[u] = on[t] /\ pc[u] = "broadcast"

SoleMutexOrFences == Mutexes = {} \/ (Fences = {} /\ \E m : Mutexes = {m})

WInv == MInv /\ FmInv /\ WakeInv

(* Only a thread that holds orbis_futex_mutex is about to sleep.           *)
LEMMA FutexMutex == MInv /\ FmInv /\ [Next]_vars => FmInv'
<1> SUFFICES ASSUME MInv, FmInv, [Next]_vars PROVE FmInv'
  BY Zenon
<1> USE WordsAssumption DEF MInv, TypeOK, FmInv, Goto, Steps
<1>1. ASSUME NEW t \in Threads, NEW m \in Mutexes, Lock(t, m) PROVE FmInv'
  <2>1. pc'[t] \in {"held", "mark", "enter"}
    <3>1. CASE val[m] = 0 BY <1>1, <3>1, Zenon DEF Lock
    <3>2. CASE val[m] = 1 BY <1>1, <3>2, Zenon DEF Lock
    <3>3. CASE val[m] # 0 /\ val[m] # 1 BY <1>1, <3>3, Zenon DEF Lock
    <3> QED BY <3>1, <3>2, <3>3, Zenon
  <2>2. UNCHANGED fm /\ \A u \in Threads \ {t} : pc'[u] = pc[u] BY <1>1, Zenon DEF Lock
  <2> QED BY <2>1, <2>2, Zenon
<1>2. ASSUME NEW t \in Threads, Exchange(t) \/ Unlock(t) \/ ClearAndWake(t) PROVE FmInv'
  BY <1>2 DEF Exchange, Unlock, ClearAndWake
<1>3. ASSUME NEW t \in Threads, NEW f \in Fences, NEW b \in BOOLEAN, FenceWait(t, f, b)
      PROVE FmInv'
  BY <1>3, Zenon DEF FenceWait
<1>4. ASSUME NEW t \in Threads, FenceRead(t) PROVE FmInv'
  <2>1. pc'[t] \in {"idle", "retry", "enter"}
    <3>1. CASE val[on[t]] = 0 BY <1>4, <3>1, Zenon DEF FenceRead
    <3>2. CASE val[on[t]] = 1 BY <1>4, <3>2, Zenon DEF FenceRead
    <3>3. CASE val[on[t]] # 0 /\ val[on[t]] # 1 BY <1>4, <3>3, Zenon DEF FenceRead
    <3> QED BY <3>1, <3>2, <3>3, Zenon
  <2>2. UNCHANGED fm /\ \A u \in Threads \ {t} : pc'[u] = pc[u] BY <1>4, Zenon DEF FenceRead
  <2> QED BY <2>1, <2>2, Zenon
<1>5. ASSUME NEW t \in Threads, FenceMark(t) \/ Recheck(t) PROVE FmInv'
  <2>1. CASE FenceMark(t) BY <2>1, Zenon DEF FenceMark
  <2>2. CASE Recheck(t)
    <3>1. pc'[t] # "block" /\ UNCHANGED fm BY <2>2, Zenon DEF Recheck, Again
    <3>2. \A u \in Threads \ {t} : pc'[u] = pc[u] BY <2>2, Zenon DEF Recheck
    <3> QED BY <3>1, <3>2, Zenon
  <2> QED BY <1>5, <2>1, <2>2, Zenon
<1>6. ASSUME NEW t \in Threads, NEW f \in Fences, FenceSignal(t, f) \/ FenceReset(t, f)
      PROVE FmInv'
  BY <1>6 DEF FenceSignal, FenceReset
<1>7. ASSUME NEW t \in Threads, FutexTest(t) PROVE FmInv'
  BY <1>7 DEF FutexTest, Again
<1>8. ASSUME NEW t \in Threads, Block(t) \/ Spurious(t) \/ Expire(t) \/ Expired(t) PROVE FmInv'
  BY <1>8, Zenon DEF Block, Spurious, Expire, Expired
<1>9. ASSUME NEW t \in Threads, Wake(t) \/ Broadcast(t) PROVE FmInv'
  BY <1>9 DEF Wake, Broadcast, Asleep
<1>10. CASE UNCHANGED vars BY <1>10, Zenon DEF vars
<1> HIDE DEF MInv, TypeOK, FmInv, Goto, Steps
<1> QED
  BY <1>1, <1>2, <1>3, <1>4, <1>5, <1>6, <1>7, <1>8, <1>9, <1>10, Zenon
     DEF Next, Call, Step, Job

(* A thread that joins the minders, or a word that becomes 2, disturbs     *)
(* nothing; a thread stops minding a word only by handing that on.         *)
LEMMA WakeKept == SoleMutexOrFences /\ WInv /\ [Next]_vars => WakeInv'
<1> SUFFICES ASSUME SoleMutexOrFences, WInv, [Next]_vars PROVE WakeInv'
  BY Zenon
<1> USE WordsAssumption DEF WInv, MInv, TypeOK, KindInv, WakeInv, Settled, Minder,
        Goto, Store, Words, Steps
<1>1. ASSUME NEW t \in Threads, NEW m \in Mutexes, Lock(t, m) PROVE WakeInv'
  <2>1. pc'[t] \in {"held", "mark", "enter"} /\ pc[t] = "idle"
    <3>1. CASE val[m] = 0 BY <1>1, <3>1 DEF Lock
    <3>2. CASE val[m] = 1 BY <1>1, <3>2 DEF Lock
    <3>3. CASE val[m] # 0 /\ val[m] # 1 BY <1>1, <3>3 DEF Lock
    <3> QED BY <3>1, <3>2, <3>3, Zenon
  <2>2. \A u \in Threads \ {t} : pc'[u] = pc[u] /\ on'[u] = on[u] BY <1>1 DEF Lock
  <2>3. \A w \in Words : val'[w] # 2 => val[w] # 2 BY <1>1 DEF Lock
  <2>4. ASSUME NEW u \in Threads, Settled(u)' PROVE WakeInv!(u)!2'
    <3>1. u # t /\ Settled(u) BY <2>1, <2>2, <2>3, <2>4
    <3> QED BY <2>1, <2>2, <3>1
  <2> QED BY <2>4, Zenon
<1>2. ASSUME NEW t \in Threads, Exchange(t) PROVE WakeInv'
  BY <1>2 DEF Exchange
<1>3. ASSUME NEW t \in Threads, Unlock(t) PROVE WakeInv'
  BY <1>3 DEF Unlock
<1>4. ASSUME NEW t \in Threads, ClearAndWake(t) PROVE WakeInv'
  BY <1>4 DEF ClearAndWake
<1>5. ASSUME NEW t \in Threads, NEW f \in Fences, NEW b \in BOOLEAN, FenceWait(t, f, b)
      PROVE WakeInv'
  BY <1>5 DEF FenceWait
<1>6. ASSUME NEW t \in Threads, FenceRead(t) PROVE WakeInv'
  <2>1. pc'[t] \in {"idle", "retry", "enter"} /\ pc[t] = "read"
    <3>1. CASE val[on[t]] = 0 BY <1>6, <3>1 DEF FenceRead
    <3>2. CASE val[on[t]] = 1 BY <1>6, <3>2 DEF FenceRead
    <3>3. CASE val[on[t]] # 0 /\ val[on[t]] # 1 BY <1>6, <3>3 DEF FenceRead
    <3> QED BY <3>1, <3>2, <3>3, Zenon
  <2>2. UNCHANGED val /\ \A u \in Threads \ {t} : pc'[u] = pc[u] /\ on'[u] = on[u]
    BY <1>6 DEF FenceRead, Return
  <2> QED BY <2>1, <2>2
<1>7. ASSUME NEW t \in Threads, FenceMark(t) PROVE WakeInv'
  BY <1>7 DEF FenceMark, Return
<1>8. ASSUME NEW t \in Threads, Recheck(t) PROVE WakeInv'
  BY <1>8 DEF Recheck, Return, Again
<1>9. ASSUME NEW t \in Threads, NEW f \in Fences, FenceSignal(t, f) PROVE WakeInv'
  BY <1>9 DEF FenceSignal
<1>10. ASSUME NEW t \in Threads, NEW f \in Fences, FenceReset(t, f) PROVE WakeInv'
  BY <1>10 DEF FenceReset
<1>11. ASSUME NEW t \in Threads, FutexTest(t) PROVE WakeInv'
  <2>1. CASE val[on[t]] = 2 BY <1>11, <2>1 DEF FutexTest
  <2>2. CASE val[on[t]] # 2 BY <1>11, <2>2 DEF FutexTest, Again
  <2> QED BY <2>1, <2>2, Zenon
<1>12. ASSUME NEW t \in Threads, Block(t) \/ Spurious(t) \/ Expire(t) \/ Expired(t)
       PROVE WakeInv'
  BY <1>12 DEF Block, Spurious, Expire, Expired
<1>13. ASSUME NEW t \in Threads, Wake(t) PROVE WakeInv'
  <2>1. PICK m : Mutexes = {m} /\ Fences = {} BY <1>13, Zenon DEF Wake, SoleMutexOrFences
  <2>2. \A u \in Threads : pc[u] # "block" BY <1>13, Zenon DEF Wake, FmInv
  <2>3. CASE Asleep = {} BY <1>13, <2>2, <2>3 DEF Wake, Asleep
  <2>4. CASE Asleep # {}
    <3>1. PICK s \in Asleep : pc' = [pc EXCEPT ![t] = "idle", ![s] = "woken"]
      BY <1>13, <2>4, Zenon DEF Wake
    <3>2. s \in Threads /\ s # t /\ on[s] = m /\ on'[s] = m /\ pc'[s] = "woken"
      BY <1>13, <2>1, <3>1 DEF Wake, Asleep
    <3>3. \A u \in Threads : Settled(u)' => on'[u] = m
      BY <1>13, <2>1, <2>2, <3>1 DEF Wake, Asleep
    <3> QED BY <2>1, <3>2, <3>3
  <2> QED BY <2>3, <2>4, Zenon
<1>14. ASSUME NEW t \in Threads, Broadcast(t) PROVE WakeInv'
  <2>1. \A u \in Threads : pc[u] # "block" BY <1>14, Zenon DEF Broadcast, FmInv
  <2>2. \A u \in Threads : pc'[u] \notin {"block", "asleep"}
    BY <1>14, <2>1, Zenon DEF Broadcast, Asleep
  <2> QED BY <2>2, Zenon
<1>15. CASE UNCHANGED vars BY <1>15 DEF vars
<1> HIDE DEF WInv, MInv, TypeOK, KindInv, WakeInv, Settled, Minder,
        Goto, Store, Words, Steps
<1> QED
  BY <1>1, <1>2, <1>3, <1>4, <1>5, <1>6, <1>7, <1>8, <1>9, <1>10, <1>11, <1>12,
     <1>13, <1>14, <1>15, Zenon
  DEF Next, Call, Step, Job

(* The comment of futex.c for what it covers: with one mutex and no fence, *)
(* or with fences alone, no wake is lost, for any number of threads.       *)
THEOREM SoleWakesReach == SoleMutexOrFences => (Spec => []NoLostWake)
<1> SUFFICES ASSUME SoleMutexOrFences PROVE Spec => []NoLostWake
  BY Zenon
<1>1. Init => WInv
  BY MutexInit, Zenon DEF Init, WInv, FmInv, WakeInv, Settled
<1>2. WInv /\ [Next]_vars => WInv'
  BY MutexType, MutexKind, MutexOwner, FutexMutex, WakeKept, Zenon DEF WInv, MInv
<1>3. WInv => NoLostWake
  BY DEF WInv, MInv, KindInv, Words, WakeInv, Settled, Minder, NoLostWake
<1> QED BY <1>1, <1>2, <1>3, PTL DEF Spec
=============================================================================
