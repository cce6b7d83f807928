----------------------------- MODULE OraclePool -----------------------------
(* The process-local connection pool behind connect_factory                  *)
(* (nfscache/database/oracle_pool.py) and the cached SQL calls that borrow   *)
(* from it: a probe before the locks, then, with the write lock of the key,  *)
(* a probe, and the probes around the load (nfs_cache.py, _run_cached).      *)
(*                                                                           *)
(* A call made as in README.md:62-67 holds a connection of its own from      *)
(* before it starts until it has returned, and loads through it.             *)
(*                                                                           *)
(* The read lock is left out: a read section needs no connection.  The       *)
(* threads of all processes meet at the write lock of one key.  oracledb is  *)
(* external: acquire waits while all MaxSize connections are out.            *)
EXTENDS Naturals, FiniteSets

CONSTANTS
  Processes,
  Root,        \* the process that exists from the start
  Threads,
  ProcOf,      \* the process of each thread
  Outer,       \* the threads that hold a connection around their calls
  MaxSize,     \* max_size of a pool
  NoPool,
  NoThread,
  CleanForks,  \* TRUE: no process forks while one of its threads is in get_pool's lock
  MaxFaults    \* bound on the number of faults of a behaviour

ThreadsOf(p) == {t \in Threads : ProcOf[t] = p}

ASSUME PoolAssumption ==
  /\ Root \in Processes /\ IsFiniteSet(Threads) /\ ProcOf \in [Threads -> Processes] /\ Outer \subseteq Threads
  /\ NoPool \notin Processes /\ NoThread \notin Threads
  /\ MaxSize \in Nat /\ MaxFaults \in Nat /\ CleanForks \in BOOLEAN
\* Threads that each hold one of all the connections and want another wait for
\* ever: callers have to leave the pool a connection.
ASSUME OuterAssumption ==
  \A p \in Processes : Cardinality(Outer \intersect ThreadsOf(p)) < MaxSize

VARIABLES
  born,     \* the processes that run
  pools,    \* _pools of each process: from a pid to the process that made the pool
  mutex,    \* the thread that holds _lock in each process, as that process sees it
  made,     \* the threads that made a pool (for the properties)
  pc,       \* where each thread is
  stage,    \* what it needs a connection for
  outer,    \* the pool of the connection it holds around its call
  inner,    \* the pool of the connection it holds in a with block
  keylock,  \* the thread that holds the write lock of the cache key
  faults    \* faults so far

poolVars == <<born, pools, mutex, made>>
vars == <<poolVars, pc, stage, outer, inner, keylock, faults>>

InLock == {"check", "create", "unlock"}
Stages == {"outer", "version", "w_version", "before", "load", "after"}

PoolTypeOK ==
  /\ born \in SUBSET Processes
  /\ pools \in [Processes -> [Processes -> Processes \union {NoPool}]]
  /\ mutex \in [Processes -> Threads \union {NoThread}]
  /\ made \in SUBSET Threads
  /\ pc \in [Threads -> {"idle", "get", "mutex", "acquire", "use", "keylock", "unkey", "end"}
                          \union InLock]
  /\ stage \in [Threads -> Stages]
  /\ outer \in [Threads -> Processes \union {NoPool}]
  /\ inner \in [Threads -> Processes \union {NoPool}]
  /\ keylock \in Threads \union {NoThread}
  /\ faults \in 0 .. MaxFaults

PoolInit ==
  /\ born = {Root}
  /\ pools = [p \in Processes |-> [q \in Processes |-> NoPool]]
  /\ mutex = [p \in Processes |-> NoThread]
  /\ made = {}
  /\ pc = [t \in Threads |-> "idle"]
  /\ stage = [t \in Threads |-> "version"]
  /\ outer = [t \in Threads |-> NoPool]
  /\ inner = [t \in Threads |-> NoPool]
  /\ keylock = NoThread
  /\ faults = 0

Goto(t, l) == pc' = [pc EXCEPT ![t] = l]
Fault == faults < MaxFaults /\ faults' = faults + 1

\* Need a connection for g.
Get(t, g) == Goto(t, "get") /\ stage' = [stage EXCEPT ![t] = g]

\* Seeded fault: the pid is not in the key.
Key_NoPid(p) == Root

\* os.getpid() in the key; the DSN and the user are the same for all here.
Key(p) == p

MyPool(t) == pools[ProcOf[t]][Key(ProcOf[t])]

-----------------------------------------------------------------------------
(* get_pool and acquire                                                      *)

\* The first look, without the lock.
FastLook(t) ==
  /\ pc[t] = "get"
  /\ Goto(t, IF MyPool(t) # NoPool THEN "acquire" ELSE "mutex")
  /\ UNCHANGED <<poolVars, stage, outer, inner, keylock, faults>>

Lock(t) ==
  /\ pc[t] = "mutex" /\ mutex[ProcOf[t]] = NoThread
  /\ mutex' = [mutex EXCEPT ![ProcOf[t]] = t]
  /\ Goto(t, "check")
  /\ UNCHANGED <<born, pools, made, stage, outer, inner, keylock, faults>>

\* Seeded fault: no second look.
SecondLook_None(t) ==
  /\ pc[t] = "check"
  /\ Goto(t, "create")
  /\ UNCHANGED <<poolVars, stage, outer, inner, keylock, faults>>

SecondLook(t) ==
  /\ pc[t] = "check"
  /\ Goto(t, IF MyPool(t) # NoPool THEN "unlock" ELSE "create")
  /\ UNCHANGED <<poolVars, stage, outer, inner, keylock, faults>>

Create(t) ==
  /\ pc[t] = "create"
  /\ pools' = [pools EXCEPT ![ProcOf[t]][Key(ProcOf[t])] = ProcOf[t]]
  /\ made' = made \union {t}
  /\ Goto(t, "unlock")
  /\ UNCHANGED <<born, mutex, stage, outer, inner, keylock, faults>>

Unlock(t) ==
  /\ pc[t] = "unlock"
  /\ mutex' = [mutex EXCEPT ![ProcOf[t]] = NoThread]
  /\ Goto(t, "acquire")
  /\ UNCHANGED <<born, pools, made, stage, outer, inner, keylock, faults>>

\* The connections of the pool of p that are out.
Out(p) == Cardinality({t \in Threads : outer[t] = p}) + Cardinality({t \in Threads : inner[t] = p})

Acquire(t) ==
  /\ pc[t] = "acquire" /\ Out(MyPool(t)) < MaxSize
  /\ IF stage[t] = "outer"
     THEN outer' = [outer EXCEPT ![t] = MyPool(t)] /\ UNCHANGED inner
     ELSE inner' = [inner EXCEPT ![t] = MyPool(t)] /\ UNCHANGED outer
  /\ Goto(t, "use")
  /\ UNCHANGED <<poolVars, stage, keylock, faults>>

-----------------------------------------------------------------------------
(* A call                                                                    *)

Begin(t) ==
  /\ pc[t] = "idle" /\ ProcOf[t] \in born
  /\ Get(t, IF t \in Outer THEN "outer" ELSE "version")
  /\ UNCHANGED <<poolVars, outer, inner, keylock, faults>>

\* Where a call goes on when it is done with a connection.
After(t) ==
  \/ stage[t] = "outer" /\ Get(t, "version")
  \/ stage[t] = "version" /\ (Goto(t, "end") \/ Goto(t, "keylock")) /\ UNCHANGED stage
  \/ stage[t] = "w_version" /\ ((Goto(t, "unkey") /\ UNCHANGED stage) \/ Get(t, "before"))
  \/ stage[t] = "before" /\ Get(t, IF t \in Outer THEN "after" ELSE "load")
  \/ stage[t] = "load" /\ Get(t, "after")
  \/ stage[t] = "after" /\ Goto(t, "unkey") /\ UNCHANGED stage

\* Seeded fault: the connection of a probe is not given back.
Use_Leaks(t) ==
  /\ pc[t] = "use"
  /\ After(t)
  /\ UNCHANGED <<poolVars, outer, inner, keylock, faults>>

\* The statement was executed; leaving the with block gives the connection back.
Use(t) ==
  /\ pc[t] = "use"
  /\ After(t)
  /\ inner' = [inner EXCEPT ![t] = NoPool]
  /\ UNCHANGED <<poolVars, outer, keylock, faults>>

\* The source changed during the load: load again.
LoadAgain(t) ==
  /\ pc[t] = "use" /\ stage[t] = "after"
  /\ Fault
  /\ Get(t, "before")
  /\ inner' = [inner EXCEPT ![t] = NoPool]
  /\ UNCHANGED <<poolVars, outer, keylock>>

KeyLock(t) ==
  /\ pc[t] = "keylock" /\ keylock = NoThread
  /\ keylock' = t
  /\ Get(t, "w_version")
  /\ UNCHANGED <<poolVars, outer, inner, faults>>

KeyUnlock(t) ==
  /\ pc[t] = "unkey"
  /\ keylock' = NoThread
  /\ Goto(t, "end")
  /\ UNCHANGED <<poolVars, stage, outer, inner, faults>>

End(t) ==
  /\ pc[t] = "end"
  /\ outer' = [outer EXCEPT ![t] = NoPool]
  /\ Goto(t, "idle")
  /\ stage' = [stage EXCEPT ![t] = "version"]
  /\ UNCHANGED <<poolVars, inner, keylock, faults>>

Unwind(t) == Goto(t, IF keylock = t THEN "unkey" ELSE "end")

\* Seeded fault: a failed statement keeps its connection.
StatementFails_Leaks(t) ==
  /\ pc[t] \in {"acquire", "use"}
  /\ Fault
  /\ Unwind(t)
  /\ UNCHANGED <<poolVars, stage, outer, inner, keylock>>

\* Seeded fault: the lock is not released by an exception.
CreateFails_KeepsLock(t) ==
  /\ pc[t] = "create"
  /\ Fault
  /\ Unwind(t)
  /\ UNCHANGED <<poolVars, stage, outer, inner, keylock>>

\* create_pool raises with the lock held ...
CreateFails(t) ==
  /\ pc[t] = "create"
  /\ Fault
  /\ mutex' = [mutex EXCEPT ![ProcOf[t]] = NoThread]
  /\ Unwind(t)
  /\ UNCHANGED <<born, pools, made, stage, outer, inner, keylock>>

\* ... acquire or a statement without it.
StatementFails(t) ==
  /\ pc[t] \in {"acquire", "use"}
  /\ Fault
  /\ Unwind(t)
  /\ inner' = [inner EXCEPT ![t] = NoPool]
  /\ UNCHANGED <<poolVars, stage, outer, keylock>>

\* A worker process starts with a copy of _pools and of _lock as they are.
Fork(t, q) ==
  LET p == ProcOf[t] IN
  /\ pc[t] = "idle" /\ p \in born /\ q \in Processes \ born
  /\ CleanForks => mutex[p] = NoThread
  /\ born' = born \union {q}
  /\ pools' = [pools EXCEPT ![q] = pools[p]]
  /\ mutex' = [mutex EXCEPT ![q] = mutex[p]]
  /\ UNCHANGED <<made, pc, stage, outer, inner, keylock, faults>>

PoolStep(t) == FastLook(t) \/ Lock(t) \/ SecondLook(t) \/ Create(t) \/ Unlock(t) \/ Acquire(t)

Proceed(t) == PoolStep(t) \/ Use(t) \/ KeyLock(t) \/ KeyUnlock(t) \/ End(t)

ThreadStep(t) ==
  Begin(t) \/ Proceed(t) \/ LoadAgain(t) \/ CreateFails(t) \/ StatementFails(t)
  \/ \E q \in Processes : Fork(t, q)

PoolNext == \E t \in Threads : ThreadStep(t)

PoolSpec == PoolInit /\ [][PoolNext]_vars

-----------------------------------------------------------------------------
(* Properties                                                                *)

\* Threads that find no pool at the same time make one between them, "creating it
\* once per process" (oracle_pool.py:34).
OnePoolPerProcess == \A t, u \in made : ProcOf[t] = ProcOf[u] => t = u

\* No thread uses a connection of another process, whatever its process has
\* inherited: "a forked child must not reuse the parent's pool" (oracle_pool.py:11).
OwnPoolsOnly ==
  \A t \in Threads : outer[t] \in {NoPool, ProcOf[t]} /\ inner[t] \in {NoPool, ProcOf[t]}

\* A call that is over, also one that failed with the key's lock or the pool's lock
\* held, gave everything back.
NothingKept ==
  \A t \in Threads : pc[t] = "idle" =>
    /\ outer[t] = NoPool /\ inner[t] = NoPool /\ keylock # t
    /\ \A p \in Processes : mutex[p] # t \/ ProcOf[t] # p

\* The next step of t is another thread's to allow.
Waits(t) ==
  \/ pc[t] = "mutex" /\ mutex[ProcOf[t]] # NoThread
  \/ pc[t] = "acquire" /\ Out(MyPool(t)) >= MaxSize
  \/ pc[t] = "keylock" /\ keylock # NoThread

\* Threads that wait for a connection, for the pool's lock and for the key's lock never
\* wait in a circle, if callers leave the pool a connection (oracle_pool.py:40, 66-67;
\* nfs_cache.py:185-218).
SomeThreadGoesOn ==
  (\E t \in Threads : pc[t] # "idle") => \E t \in Threads : pc[t] # "idle" /\ ~Waits(t)

\* Every thread takes its next step; nobody has to begin a call.
PoolLiveSpec == PoolSpec /\ \A t \in Threads : WF_vars(Proceed(t))

\* Never does everyone wait for everyone: callers that hold connections of the pool,
\* a caller that holds the key's lock and wants a connection, callers that want the
\* key's lock (nfs_cache.py:185-218 against oracle_pool.py:66-67).
SomeoneReturns ==
  (\A t \in Threads : pc[t] # "idle") ~> (\E t \in Threads : pc[t] = "idle")
=============================================================================
