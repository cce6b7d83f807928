----------------------------- MODULE CachedSource -----------------------------
(* What a cache key promises to its callers: an answer is content that the   *)
(* source had between the call and the return, whoever loaded it, and what   *)
(* is kept for others is content that the source had during a call that has  *)
(* not ended yet.  So answers do not go back: a call that begins after       *)
(* another returned gets the same content or a later one.                    *)
(*                                                                           *)
(* Contents are numbered as the source gets them.  There are no locks and no *)
(* files here; CacheEntry is shown to implement this module.                 *)
EXTENDS Naturals

CONSTANTS
  Client,
  Exporters,  \* the clients whose answer is a file of their own
  Absent,     \* no answer
  Damaged     \* a file that was damaged on the share

VARIABLES
  source,  \* the content of the source
  stored,  \* the content of the entry, if it has a valid one
  phase,   \* "idle", "called", "returned", "failed" or "dead", of each client
  since,   \* the source when the call began
  answer   \* what the call returned

promiseVars == <<source, stored, phase, since, answer>>

PromiseInit ==
  /\ source = 0 /\ stored = {}
  /\ phase = [c \in Client |-> "idle"]
  /\ since = [c \in Client |-> 0]
  /\ answer = [c \in Client |-> Absent]

InTime(c) == since[c] .. source

Change ==
  /\ source' \in Nat /\ source' > source
  /\ UNCHANGED <<stored, phase, since, answer>>

Begin(c) ==
  /\ phase[c] \in {"idle", "returned", "failed"}
  /\ phase' = [phase EXCEPT ![c] = "called"]
  /\ since' = [since EXCEPT ![c] = source]
  /\ answer' = [answer EXCEPT ![c] = Absent]
  /\ UNCHANGED <<source, stored>>

\* Only for newer content is a valid entry given up.
Store(c) ==
  /\ phase[c] = "called"
  /\ \E v \in InTime(c) : stored' = {v} /\ \A w \in stored : w < v
  /\ UNCHANGED <<source, phase, since, answer>>

\* The entry is being replaced, or it is damaged.
Invalidate ==
  /\ stored # {} /\ stored' = {}
  /\ UNCHANGED <<source, phase, since, answer>>

Return(c) ==
  /\ phase[c] = "called"
  /\ phase' = [phase EXCEPT ![c] = "returned"]
  /\ \E v \in InTime(c) \union (IF c \in Exporters THEN {Damaged} ELSE {}) :
       answer' = [answer EXCEPT ![c] = v]
  /\ UNCHANGED <<source, stored, since>>

\* The call raises, or its process dies; nobody else gets to know.
End(c) ==
  /\ phase[c] = "called"
  /\ \E p \in {"failed", "dead"} : phase' = [phase EXCEPT ![c] = p]
  /\ UNCHANGED <<source, stored, since, answer>>

PromiseNext ==
  \/ Change \/ Invalidate
  \/ \E c \in Client : Begin(c) \/ Store(c) \/ Return(c) \/ End(c)

PromiseSpec == PromiseInit /\ [][PromiseNext]_promiseVars
=============================================================================
