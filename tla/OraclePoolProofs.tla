-------------------------- MODULE OraclePoolProofs --------------------------
(* Proofs about OraclePool: its type invariant, one pool per process, no     *)
(* connection of another process, and nothing kept by a call that is over,   *)
(* for any processes, threads, forks and faults.  CleanForks is not used:    *)
(* what an unclean fork costs is progress.                                   *)
EXTENDS OraclePool, FiniteSetTheorems, TLAPS

Locked == {"w_version", "before", "load", "after"}

\* The lock of a process is held by a thread of it from the second look to the
\* return, and by nobody of another process unless it was so inherited.
MutexInv ==
  /\ \A t \in Threads : pc[t] \in InLock <=> mutex[ProcOf[t]] = t
  /\ \A p \in Processes : mutex[p] # NoThread => ProcOf[mutex[p]] \in born

\* A process that does not run yet has no pool anywhere and no thread that runs; who
\* creates a pool has seen that there is none.
PoolsInv ==
  /\ \A p \in Processes, q \in Processes :
       pools[p][q] # NoPool => pools[p][q] = q /\ q \in born
  /\ \A t \in Threads : pc[t] = "create" => MyPool(t) = NoPool
  /\ \A t \in made : MyPool(t) # NoPool
  /\ \A t \in Threads : pc[t] # "idle" => ProcOf[t] \in born

\* A connection of a with block is out only in it; the key's lock is held from the
\* probe under it to its release.
KeptInv ==
  /\ \A t \in Threads : inner[t] # NoPool => pc[t] = "use" /\ stage[t] # "outer"
  /\ \A t \in Threads : pc[t] = "idle" => outer[t] = NoPool
  /\ \A t \in Threads : keylock = t => pc[t] = "unkey" \/ stage[t] \in Locked
  /\ \A t \in Threads : keylock = t => pc[t] \notin {"idle", "keylock", "end"}
  /\ \A t \in Threads :
       pc[t] = "unkey" \/ (pc[t] \notin {"idle", "keylock", "end"} /\ stage[t] \in Locked)
         => keylock = t

PoolInv == PoolTypeOK /\ MutexInv /\ PoolsInv /\ KeptInv /\ OnePoolPerProcess /\ OwnPoolsOnly

\* PoolInv holds at the start and is kept by every step of every thread.
LEMMA InvInit == PoolInit => PoolInv
  BY PoolAssumption, SMTT(30)
  DEF PoolInit, PoolInv, PoolTypeOK, MutexInv, PoolsInv, KeptInv, OnePoolPerProcess, OwnPoolsOnly,
      InLock, Stages, Locked, MyPool, Key

LEMMA InvStep ==
  ASSUME PoolInv, NEW t \in Threads, ThreadStep(t)
  PROVE  PoolInv'
<1> USE PoolAssumption
<1>0. ProcOf[t] \in Processes
  OBVIOUS
<1>a. UNCHANGED made => OnePoolPerProcess'
  BY DEF PoolInv, OnePoolPerProcess
<1>b. UNCHANGED <<outer, inner>> => OwnPoolsOnly'
  BY DEF PoolInv, OwnPoolsOnly
<1>1. CASE FastLook(t)
  <2>1. PoolTypeOK'
    BY <1>0, <1>1
       DEF PoolInv, FastLook, Goto, PoolTypeOK, InLock, Stages, MyPool, Key, poolVars
  <2>2. MutexInv'
    BY <1>0, <1>1
       DEF PoolInv, FastLook, Goto, PoolTypeOK, MutexInv, PoolsInv, InLock, poolVars
  <2>3. PoolsInv'
    BY <1>0, <1>1
       DEF PoolInv, FastLook, Goto, PoolTypeOK, PoolsInv, MutexInv, InLock, MyPool,
           Key, poolVars
  <2>4. KeptInv'
    BY <1>0, <1>1
       DEF PoolInv, FastLook, Goto, PoolTypeOK, KeptInv, OwnPoolsOnly, Locked,
           Stages, MyPool, Key, poolVars
  <2>5. OnePoolPerProcess'
    BY <1>a, <1>1 DEF FastLook, poolVars
  <2>6. OwnPoolsOnly'
    BY <1>b, <1>1 DEF FastLook, poolVars
  <2> QED BY <2>1, <2>2, <2>3, <2>4, <2>5, <2>6 DEF PoolInv
<1>2. CASE Lock(t)
  <2>1. PoolTypeOK'
    BY <1>0, <1>2 DEF PoolInv, Lock, Goto, PoolTypeOK, InLock, Stages, MyPool, Key, poolVars
  <2>2. MutexInv'
    BY <1>0, <1>2 DEF PoolInv, Lock, Goto, PoolTypeOK, MutexInv, PoolsInv, InLock, poolVars
  <2>3. PoolsInv'
    BY <1>0, <1>2
       DEF PoolInv, Lock, Goto, PoolTypeOK, PoolsInv, MutexInv, InLock, MyPool, Key,
           poolVars
  <2>4. KeptInv'
    BY <1>0, <1>2
       DEF PoolInv, Lock, Goto, PoolTypeOK, KeptInv, OwnPoolsOnly, Locked, Stages,
           MyPool, Key, poolVars
  <2>5. OnePoolPerProcess'
    BY <1>a, <1>2 DEF Lock, poolVars
  <2>6. OwnPoolsOnly'
    BY <1>b, <1>2 DEF Lock, poolVars
  <2> QED BY <2>1, <2>2, <2>3, <2>4, <2>5, <2>6 DEF PoolInv
<1>3. CASE SecondLook(t)
  <2>1. PoolTypeOK'
    BY <1>0, <1>3
       DEF PoolInv, SecondLook, Goto, PoolTypeOK, InLock, Stages, MyPool, Key,
           poolVars
  <2>2. MutexInv'
    BY <1>0, <1>3
       DEF PoolInv, SecondLook, Goto, PoolTypeOK, MutexInv, PoolsInv, InLock,
           poolVars
  <2>3. PoolsInv'
    BY <1>0, <1>3
       DEF PoolInv, SecondLook, Goto, PoolTypeOK, PoolsInv, MutexInv, InLock, MyPool,
           Key, poolVars
  <2>4. KeptInv'
    BY <1>0, <1>3
       DEF PoolInv, SecondLook, Goto, PoolTypeOK, KeptInv, OwnPoolsOnly, Locked,
           Stages, MyPool, Key, poolVars
  <2>5. OnePoolPerProcess'
    BY <1>a, <1>3 DEF SecondLook, poolVars
  <2>6. OwnPoolsOnly'
    BY <1>b, <1>3 DEF SecondLook, poolVars
  <2> QED BY <2>1, <2>2, <2>3, <2>4, <2>5, <2>6 DEF PoolInv
<1>4. CASE Create(t)
  <2>1. PoolTypeOK'
    BY <1>0, <1>4
       DEF PoolInv, Create, Goto, PoolTypeOK, InLock, Stages, MyPool, Key, poolVars
  <2>2. MutexInv'
    BY <1>0, <1>4
       DEF PoolInv, Create, Goto, PoolTypeOK, MutexInv, PoolsInv, InLock, poolVars
  <2>3. PoolsInv'
    BY <1>0, <1>4
       DEF PoolInv, Create, Goto, PoolTypeOK, PoolsInv, MutexInv, InLock, MyPool,
           Key, poolVars
  <2>4. KeptInv'
    BY <1>0, <1>4
       DEF PoolInv, Create, Goto, PoolTypeOK, KeptInv, OwnPoolsOnly, Locked, Stages,
           MyPool, Key, poolVars
  <2>5. OnePoolPerProcess'
    BY <1>0, <1>4
       DEF PoolInv, Create, Goto, PoolTypeOK, PoolsInv, OnePoolPerProcess, MyPool,
           Key, poolVars
  <2>6. OwnPoolsOnly'
    BY <1>b, <1>4 DEF Create, poolVars
  <2> QED BY <2>1, <2>2, <2>3, <2>4, <2>5, <2>6 DEF PoolInv
<1>5. CASE Unlock(t)
  <2>1. PoolTypeOK'
    BY <1>0, <1>5
       DEF PoolInv, Unlock, Goto, PoolTypeOK, InLock, Stages, MyPool, Key, poolVars
  <2>2. MutexInv'
    BY <1>0, <1>5
       DEF PoolInv, Unlock, Goto, PoolTypeOK, MutexInv, PoolsInv, InLock, poolVars
  <2>3. PoolsInv'
    BY <1>0, <1>5
       DEF PoolInv, Unlock, Goto, PoolTypeOK, PoolsInv, MutexInv, InLock, MyPool,
           Key, poolVars
  <2>4. KeptInv'
    BY <1>0, <1>5
       DEF PoolInv, Unlock, Goto, PoolTypeOK, KeptInv, OwnPoolsOnly, Locked, Stages,
           MyPool, Key, poolVars
  <2>5. OnePoolPerProcess'
    BY <1>a, <1>5 DEF Unlock, poolVars
  <2>6. OwnPoolsOnly'
    BY <1>b, <1>5 DEF Unlock, poolVars
  <2> QED BY <2>1, <2>2, <2>3, <2>4, <2>5, <2>6 DEF PoolInv
<1>6. CASE Acquire(t)
  <2>0. /\ MyPool(t) \in {NoPool, ProcOf[t]}
        /\ pc[t] = "acquire" /\ pc' = [pc EXCEPT ![t] = "use"]
        /\ \/ stage[t] = "outer" /\ outer' = [outer EXCEPT ![t] = MyPool(t)] /\ inner' = inner
           \/ stage[t] # "outer" /\ inner' = [inner EXCEPT ![t] = MyPool(t)] /\ outer' = outer
        /\ UNCHANGED <<born, pools, mutex, made, stage, keylock, faults>>
    BY <1>0, <1>6 DEF PoolInv, PoolsInv, PoolTypeOK, Acquire, Goto, MyPool, Key, poolVars
  <2>1. PoolTypeOK'
    BY <1>0, <2>0, ZenonT(40) DEF PoolInv, PoolTypeOK, InLock, Stages
  <2>2. MutexInv'
    BY <1>0, <2>0 DEF PoolInv, PoolTypeOK, MutexInv, PoolsInv, InLock, poolVars
  <2>3. PoolsInv'
    BY <1>0, <2>0 DEF PoolInv, PoolTypeOK, PoolsInv, MutexInv, InLock, MyPool, Key, poolVars
  <2>4. KeptInv'
    BY <1>0, <2>0 DEF PoolInv, PoolTypeOK, KeptInv
  <2>5. OnePoolPerProcess'
    BY <1>a, <1>6 DEF Acquire, poolVars
  <2>6. OwnPoolsOnly'
    BY <1>0, <2>0 DEF PoolInv, PoolTypeOK, OwnPoolsOnly
  <2> QED BY <2>1, <2>2, <2>3, <2>4, <2>5, <2>6 DEF PoolInv
<1>7. CASE Use(t)
  <2>0. /\ pc[t] = "use" /\ inner' = [inner EXCEPT ![t] = NoPool]
        /\ UNCHANGED <<outer, keylock>>
        /\ \/ pc' = [pc EXCEPT ![t] = "end"] /\ stage' = stage /\ stage[t] = "version"
           \/ pc' = [pc EXCEPT ![t] = "keylock"] /\ stage' = stage /\ stage[t] = "version"
           \/ pc' = [pc EXCEPT ![t] = "unkey"] /\ stage' = stage /\ stage[t] \in Locked
           \/ /\ pc' = [pc EXCEPT ![t] = "get"]
              /\ stage' = [stage EXCEPT ![t] = "version"] /\ stage[t] = "outer"
           \/ /\ pc' = [pc EXCEPT ![t] = "get"] /\ stage[t] \in Locked
              /\ \E g \in Locked : stage' = [stage EXCEPT ![t] = g]
    BY <1>0, <1>7 DEF Use, After, Get, Goto, Locked, poolVars
  <2>1. PoolTypeOK'
    BY <1>0, <1>7
       DEF PoolInv, Use, After, Get, Goto, PoolTypeOK, InLock, Stages, MyPool, Key,
           poolVars
  <2>2. MutexInv'
    BY <1>0, <1>7
       DEF PoolInv, Use, After, Get, Goto, PoolTypeOK, MutexInv, PoolsInv, InLock,
           poolVars
  <2>3. PoolsInv'
    BY <1>0, <1>7
       DEF PoolInv, Use, After, Get, Goto, PoolTypeOK, PoolsInv, MutexInv, InLock,
           MyPool, Key, poolVars
  <2>4. KeptInv'
    BY <1>0, <2>0, ZenonT(40) DEF PoolInv, PoolTypeOK, KeptInv, Locked
  <2>5. OnePoolPerProcess'
    BY <1>a, <1>7 DEF Use, poolVars
  <2>6. OwnPoolsOnly'
    BY <1>7 DEF PoolInv, PoolTypeOK, OwnPoolsOnly, Use, poolVars
  <2> QED BY <2>1, <2>2, <2>3, <2>4, <2>5, <2>6 DEF PoolInv
<1>8. CASE KeyLock(t)
  <2>1. PoolTypeOK'
    BY <1>0, <1>8
       DEF PoolInv, KeyLock, Get, Goto, PoolTypeOK, InLock, Stages, MyPool, Key,
           poolVars
  <2>2. MutexInv'
    BY <1>0, <1>8
       DEF PoolInv, KeyLock, Get, Goto, PoolTypeOK, MutexInv, PoolsInv, InLock,
           poolVars
  <2>3. PoolsInv'
    BY <1>0, <1>8
       DEF PoolInv, KeyLock, Get, Goto, PoolTypeOK, PoolsInv, MutexInv, InLock,
           MyPool, Key, poolVars
  <2>4. KeptInv'
    BY <1>0, <1>8
       DEF PoolInv, KeyLock, Get, Goto, PoolTypeOK, KeptInv, OwnPoolsOnly, Locked,
           Stages, MyPool, Key, poolVars
  <2>5. OnePoolPerProcess'
    BY <1>a, <1>8 DEF KeyLock, poolVars
  <2>6. OwnPoolsOnly'
    BY <1>b, <1>8 DEF KeyLock, poolVars
  <2> QED BY <2>1, <2>2, <2>3, <2>4, <2>5, <2>6 DEF PoolInv
<1>9. CASE KeyUnlock(t)
  <2>1. PoolTypeOK'
    BY <1>0, <1>9
       DEF PoolInv, KeyUnlock, Goto, PoolTypeOK, InLock, Stages, MyPool, Key,
           poolVars
  <2>2. MutexInv'
    BY <1>0, <1>9
       DEF PoolInv, KeyUnlock, Goto, PoolTypeOK, MutexInv, PoolsInv, InLock, poolVars
  <2>3. PoolsInv'
    BY <1>0, <1>9
       DEF PoolInv, KeyUnlock, Goto, PoolTypeOK, PoolsInv, MutexInv, InLock, MyPool,
           Key, poolVars
  <2>4. KeptInv'
    BY <1>0, <1>9
       DEF PoolInv, KeyUnlock, Goto, PoolTypeOK, KeptInv, OwnPoolsOnly, Locked,
           Stages, MyPool, Key, poolVars
  <2>5. OnePoolPerProcess'
    BY <1>a, <1>9 DEF KeyUnlock, poolVars
  <2>6. OwnPoolsOnly'
    BY <1>b, <1>9 DEF KeyUnlock, poolVars
  <2> QED BY <2>1, <2>2, <2>3, <2>4, <2>5, <2>6 DEF PoolInv
<1>10. CASE End(t)
  <2>1. PoolTypeOK'
    BY <1>0, <1>10 DEF PoolInv, End, Goto, PoolTypeOK, InLock, Stages, MyPool, Key, poolVars
  <2>2. MutexInv'
    BY <1>0, <1>10 DEF PoolInv, End, Goto, PoolTypeOK, MutexInv, PoolsInv, InLock, poolVars
  <2>3. PoolsInv'
    BY <1>0, <1>10
       DEF PoolInv, End, Goto, PoolTypeOK, PoolsInv, MutexInv, InLock, MyPool, Key,
           poolVars
  <2>4. KeptInv'
    BY <1>0, <1>10
       DEF PoolInv, End, Goto, PoolTypeOK, KeptInv, OwnPoolsOnly, Locked, Stages,
           MyPool, Key, poolVars
  <2>5. OnePoolPerProcess'
    BY <1>a, <1>10 DEF End, poolVars
  <2>6. OwnPoolsOnly'
    BY <1>10 DEF PoolInv, PoolTypeOK, OwnPoolsOnly, End, poolVars
  <2> QED BY <2>1, <2>2, <2>3, <2>4, <2>5, <2>6 DEF PoolInv
<1>11. CASE Begin(t)
  <2>1. PoolTypeOK'
    BY <1>0, <1>11
       DEF PoolInv, Begin, Get, Goto, PoolTypeOK, InLock, Stages, MyPool, Key,
           poolVars
  <2>2. MutexInv'
    BY <1>0, <1>11
       DEF PoolInv, Begin, Get, Goto, PoolTypeOK, MutexInv, PoolsInv, InLock,
           poolVars
  <2>3. PoolsInv'
    BY <1>0, <1>11
       DEF PoolInv, Begin, Get, Goto, PoolTypeOK, PoolsInv, MutexInv, InLock, MyPool,
           Key, poolVars
  <2>4. KeptInv'
    BY <1>0, <1>11
       DEF PoolInv, Begin, Get, Goto, PoolTypeOK, KeptInv, OwnPoolsOnly, Locked,
           Stages, MyPool, Key, poolVars
  <2>5. OnePoolPerProcess'
    BY <1>a, <1>11 DEF Begin, poolVars
  <2>6. OwnPoolsOnly'
    BY <1>b, <1>11 DEF Begin, poolVars
  <2> QED BY <2>1, <2>2, <2>3, <2>4, <2>5, <2>6 DEF PoolInv
<1>12. CASE LoadAgain(t)
  <2>1. PoolTypeOK'
    BY <1>0, <1>12
       DEF PoolInv, LoadAgain, Fault, Get, Goto, PoolTypeOK, InLock, Stages, MyPool,
           Key, poolVars
  <2>2. MutexInv'
    BY <1>0, <1>12
       DEF PoolInv, LoadAgain, Fault, Get, Goto, PoolTypeOK, MutexInv, PoolsInv,
           InLock, poolVars
  <2>3. PoolsInv'
    BY <1>0, <1>12
       DEF PoolInv, LoadAgain, Fault, Get, Goto, PoolTypeOK, PoolsInv, MutexInv,
           InLock, MyPool, Key, poolVars
  <2>4. KeptInv'
    BY <1>0, <1>12
       DEF PoolInv, LoadAgain, Fault, Get, Goto, PoolTypeOK, KeptInv, OwnPoolsOnly,
           Locked, Stages, MyPool, Key, poolVars
  <2>5. OnePoolPerProcess'
    BY <1>a, <1>12 DEF LoadAgain, poolVars
  <2>6. OwnPoolsOnly'
    BY <1>12 DEF PoolInv, PoolTypeOK, OwnPoolsOnly, LoadAgain, poolVars
  <2> QED BY <2>1, <2>2, <2>3, <2>4, <2>5, <2>6 DEF PoolInv
<1>13. CASE CreateFails(t)
  <2>1. PoolTypeOK'
    BY <1>0, <1>13
       DEF PoolInv, CreateFails, Fault, Unwind, Goto, PoolTypeOK, InLock, Stages,
           MyPool, Key, poolVars
  <2>2. MutexInv'
    BY <1>0, <1>13
       DEF PoolInv, CreateFails, Fault, Unwind, Goto, PoolTypeOK, MutexInv, PoolsInv,
           InLock, poolVars
  <2>3. PoolsInv'
    BY <1>0, <1>13
       DEF PoolInv, CreateFails, Fault, Unwind, Goto, PoolTypeOK, PoolsInv, MutexInv,
           InLock, MyPool, Key, poolVars
  <2>4. KeptInv'
    BY <1>0, <1>13
       DEF PoolInv, CreateFails, Fault, Unwind, Goto, PoolTypeOK, KeptInv,
           OwnPoolsOnly, Locked, Stages, MyPool, Key, poolVars
  <2>5. OnePoolPerProcess'
    BY <1>a, <1>13 DEF CreateFails, poolVars
  <2>6. OwnPoolsOnly'
    BY <1>b, <1>13 DEF CreateFails, poolVars
  <2> QED BY <2>1, <2>2, <2>3, <2>4, <2>5, <2>6 DEF PoolInv
<1>14. CASE StatementFails(t)
  <2>1. PoolTypeOK'
    BY <1>0, <1>14
       DEF PoolInv, StatementFails, Fault, Unwind, Goto, PoolTypeOK, InLock, Stages,
           MyPool, Key, poolVars
  <2>2. MutexInv'
    BY <1>0, <1>14
       DEF PoolInv, StatementFails, Fault, Unwind, Goto, PoolTypeOK, MutexInv,
           PoolsInv, InLock, poolVars
  <2>3. PoolsInv'
    BY <1>0, <1>14
       DEF PoolInv, StatementFails, Fault, Unwind, Goto, PoolTypeOK, PoolsInv,
           MutexInv, InLock, MyPool, Key, poolVars
  <2>4. KeptInv'
    BY <1>0, <1>14
       DEF PoolInv, StatementFails, Fault, Unwind, Goto, PoolTypeOK, KeptInv,
           OwnPoolsOnly, Locked, Stages, MyPool, Key, poolVars
  <2>5. OnePoolPerProcess'
    BY <1>a, <1>14 DEF StatementFails, poolVars
  <2>6. OwnPoolsOnly'
    BY <1>14 DEF PoolInv, PoolTypeOK, OwnPoolsOnly, StatementFails, poolVars
  <2> QED BY <2>1, <2>2, <2>3, <2>4, <2>5, <2>6 DEF PoolInv
<1>15. CASE \E q \in Processes : Fork(t, q)
  <2>0. PICK q \in Processes : Fork(t, q)
    BY <1>15
  <2>1. PoolTypeOK'
    BY <1>0, <2>0 DEF PoolInv, Fork, PoolTypeOK, InLock, Stages, MyPool, Key, poolVars
  <2>2. MutexInv'
    BY <1>0, <2>0 DEF PoolInv, Fork, PoolTypeOK, MutexInv, PoolsInv, InLock, poolVars
  <2>3. PoolsInv'
    BY <1>0, <2>0
       DEF PoolInv, Fork, PoolTypeOK, PoolsInv, MutexInv, InLock, MyPool, Key,
           poolVars
  <2>4. KeptInv'
    BY <1>0, <2>0
       DEF PoolInv, Fork, PoolTypeOK, KeptInv, OwnPoolsOnly, Locked, Stages, MyPool,
           Key, poolVars
  <2>5. OnePoolPerProcess'
    BY <1>a, <2>0 DEF Fork
  <2>6. OwnPoolsOnly'
    BY <1>b, <2>0 DEF Fork
  <2> QED BY <2>1, <2>2, <2>3, <2>4, <2>5, <2>6 DEF PoolInv
<1> QED BY <1>1, <1>2, <1>3, <1>4, <1>5, <1>6, <1>7, <1>8, <1>9, <1>10, <1>11, <1>12, <1>13, <1>14, <1>15 DEF ThreadStep, Proceed, PoolStep

LEMMA Inductive == PoolSpec => []PoolInv
<1>1. PoolInv /\ UNCHANGED vars => PoolInv'
  BY DEF PoolInv, PoolTypeOK, MutexInv, PoolsInv, KeptInv, OnePoolPerProcess, OwnPoolsOnly,
         MyPool, Key, vars, poolVars
<1>2. PoolInv /\ [PoolNext]_vars => PoolInv'
  BY <1>1, InvStep DEF PoolNext
<1> QED BY <1>2, InvInit, PTL DEF PoolSpec

\* Whatever threads find the pool missing at the same time, and whatever a process
\* inherits or fails at, a process makes at most one pool (oracle_pool.py:34).
THEOREM OnePool == PoolSpec => []OnePoolPerProcess
<1>1. PoolInv => OnePoolPerProcess
  BY DEF PoolInv
<1> QED BY <1>1, Inductive, PTL

\* Every connection in use belongs to the process that uses it (oracle_pool.py:11-12).
THEOREM OwnPools == PoolSpec => []OwnPoolsOnly
<1>1. PoolInv => OwnPoolsOnly
  BY DEF PoolInv
<1> QED BY <1>1, Inductive, PTL

\* A call that is over, failed or not, left no connection out and no lock held.
THEOREM EverythingIsGivenBack == PoolSpec => []NothingKept
<1>1. PoolInv => NothingKept
  BY PoolAssumption DEF PoolInv, PoolTypeOK, MutexInv, KeptInv, NothingKept, InLock
<1> QED BY <1>1, Inductive, PTL

-----------------------------------------------------------------------------
(* Nobody waits in a circle                                                  *)

\* Only callers that hold a connection around their calls need one for it; who waits for
\* a connection has a pool to wait at; a lock is inherited free.
NeedsInv ==
  /\ \A t \in Threads : stage[t] = "outer" \/ outer[t] # NoPool => t \in Outer
  /\ \A t \in Threads : pc[t] \in {"acquire", "unlock"} => MyPool(t) # NoPool
  /\ \A p \in Processes : mutex[p] # NoThread => ProcOf[mutex[p]] = p

LEMMA NeedsInit == PoolInit => NeedsInv
  BY PoolAssumption DEF PoolInit, NeedsInv

LEMMA NeedsStep ==
  ASSUME CleanForks PROVE PoolInv /\ NeedsInv /\ [PoolNext]_vars => NeedsInv'
<1> SUFFICES ASSUME PoolInv, NeedsInv, [PoolNext]_vars PROVE NeedsInv'
  OBVIOUS
<1> USE PoolAssumption DEF PoolInv, PoolTypeOK, MutexInv, PoolsInv, NeedsInv, InLock, MyPool, Key, Goto, Get,
                           Fault, Unwind, poolVars
<1>1. ASSUME NEW t \in Threads, Begin(t) PROVE NeedsInv'
  BY <1>1 DEF Begin
<1>2. ASSUME NEW t \in Threads, FastLook(t) PROVE NeedsInv'
  BY <1>2 DEF FastLook
<1>3. ASSUME NEW t \in Threads, Lock(t) PROVE NeedsInv'
  BY <1>3 DEF Lock
<1>4. ASSUME NEW t \in Threads, SecondLook(t) PROVE NeedsInv'
  BY <1>4 DEF SecondLook
<1>5. ASSUME NEW t \in Threads, Create(t) PROVE NeedsInv'
  BY <1>5 DEF Create
<1>6. ASSUME NEW t \in Threads, Unlock(t) PROVE NeedsInv'
  BY <1>6 DEF Unlock
<1>7. ASSUME NEW t \in Threads, Acquire(t) PROVE NeedsInv'
  BY <1>7 DEF Acquire
<1>8. ASSUME NEW t \in Threads, Use(t) PROVE NeedsInv'
  BY <1>8 DEF Use, After
<1>9. ASSUME NEW t \in Threads, KeyLock(t) PROVE NeedsInv'
  BY <1>9 DEF KeyLock
<1>10. ASSUME NEW t \in Threads, KeyUnlock(t) PROVE NeedsInv'
  BY <1>10 DEF KeyUnlock
<1>11. ASSUME NEW t \in Threads, End(t) PROVE NeedsInv'
  BY <1>11 DEF End
<1>12. ASSUME NEW t \in Threads, LoadAgain(t) PROVE NeedsInv'
  BY <1>12 DEF LoadAgain
<1>13. ASSUME NEW t \in Threads, CreateFails(t) PROVE NeedsInv'
  BY <1>13 DEF CreateFails
<1>14. ASSUME NEW t \in Threads, StatementFails(t) PROVE NeedsInv'
  BY <1>14 DEF StatementFails
<1>15. ASSUME NEW t \in Threads, NEW q \in Processes, Fork(t, q) PROVE NeedsInv'
  BY <1>15 DEF Fork
<1>16. CASE UNCHANGED vars
  BY <1>16 DEF vars
<1> QED
  BY <1>1, <1>2, <1>3, <1>4, <1>5, <1>6, <1>7, <1>8, <1>9, <1>10, <1>11, <1>12, <1>13, <1>14, <1>15, <1>16
  DEF PoolNext, ThreadStep, Proceed, PoolStep

\* While no with block runs, the connections out of a pool are those held around calls.
LEMMA OneIsFree ==
  ASSUME PoolInv, NeedsInv, NEW p \in Processes, \A t \in Threads : pc[t] # "use"
  PROVE  Out(p) \in Nat /\ Out(p) < MaxSize
<1>1. {t \in Threads : inner[t] = p} = {}
  BY PoolAssumption DEF PoolInv, KeptInv
<1>2. {t \in Threads : outer[t] = p} \subseteq Outer \intersect ThreadsOf(p)
  BY PoolAssumption DEF PoolInv, OwnPoolsOnly, NeedsInv, ThreadsOf
<1>3. IsFiniteSet(Outer \intersect ThreadsOf(p))
  BY PoolAssumption, FS_Subset DEF ThreadsOf
<1>4. /\ Cardinality({t \in Threads : outer[t] = p}) <= Cardinality(Outer \intersect ThreadsOf(p))
      /\ Cardinality({t \in Threads : outer[t] = p}) \in Nat
      /\ Cardinality(Outer \intersect ThreadsOf(p)) \in Nat
  BY <1>2, <1>3, FS_Subset, FS_CardinalityType
<1>5. Cardinality({t \in Threads : inner[t] = p}) = 0
  BY <1>1, FS_EmptySet
<1> QED
  BY <1>4, <1>5, OuterAssumption, PoolAssumption DEF Out

LEMMA NotAllWait == PoolInv /\ NeedsInv => SomeThreadGoesOn
<1> SUFFICES ASSUME PoolInv, NeedsInv, NEW t \in Threads, pc[t] # "idle",
                    \A u \in Threads : pc[u] # "idle" => Waits(u)
             PROVE  FALSE
  BY DEF SomeThreadGoesOn
<1> USE PoolAssumption DEF PoolInv, PoolTypeOK, Waits
<1>1. \A u \in Threads : pc[u] \in {"idle", "mutex", "acquire", "keylock"}
  OBVIOUS
<1>2. \A p \in Processes : mutex[p] = NoThread
  BY <1>1 DEF MutexInv, NeedsInv, InLock
<1>3. \A u \in Threads : pc[u] # "acquire"
  <2> SUFFICES ASSUME NEW u \in Threads, pc[u] = "acquire" PROVE FALSE
    OBVIOUS
  <2>1. MyPool(u) = ProcOf[u] /\ ProcOf[u] \in Processes
    BY DEF PoolsInv, NeedsInv, MyPool, Key
  <2>2. Out(ProcOf[u]) \in Nat /\ Out(ProcOf[u]) < MaxSize
    BY <1>1, <2>1, OneIsFree
  <2>3. Out(ProcOf[u]) >= MaxSize
    BY <2>1
  <2> QED
    BY <2>2, <2>3
<1>4. keylock = NoThread
  BY <1>1, <1>2, <1>3 DEF KeptInv, Locked
<1> QED
  BY <1>1, <1>2, <1>3, <1>4

\* However many threads and processes share a key and however small the pools are, if
\* callers leave each a connection and processes fork cleanly, someone goes on.
THEOREM ThreadsNeverAllWait ==
  ASSUME CleanForks PROVE PoolSpec => []SomeThreadGoesOn
<1>1. PoolInv /\ NeedsInv => SomeThreadGoesOn
  BY NotAllWait
<1>2. PoolInv /\ NeedsInv /\ [PoolNext]_vars => NeedsInv'
  BY NeedsStep
<1> QED
  BY <1>1, <1>2, NeedsInit, Inductive, PTL DEF PoolSpec
=============================================================================
