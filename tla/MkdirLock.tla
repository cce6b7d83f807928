----------------------------- MODULE MkdirLock -----------------------------
(* The mkdir-based read/write lock of one cache key, at the granularity of   *)
(* its file-system calls (nfscache/nfs_cache.py, _acquire_read_lock to       *)
(* _remove_lock_dir).                                                        *)
(*                                                                           *)
(* A lock directory holds readers/<token>/lock.json, one token per reading   *)
(* client, and writer/lock.json, the writer intent.  mkdir and rmdir are     *)
(* atomic.  Every other step of the protocol is a sequence of calls, and any *)
(* client may run between two of them.                                       *)
(*                                                                           *)
(* Abstractions.  A token's last_seen, which the code takes from the mtime   *)
(* of lock.json or of the directory, is an age that Tick increments and a    *)
(* write resets.  A reader's token carries the client's identity: the name   *)
(* is unique per acquisition and an acquisition removes its own token.  The  *)
(* shared readers/ directory is never removed (_cleanup_lock_dirs), so       *)
(* _ensure_lock_dirs always finds it.  Writing lock.json through its .tmp    *)
(* file is one step, as is listing and unlinking a token's files.            *)
EXTENDS Naturals, FiniteSets

CONSTANTS
  Readers,     \* clients that read entries
  Writers,     \* clients that write entries; a client may be both
  WriterDir,   \* the token that is the directory writer/
  NoOne,       \* no client, no token
  StaleAge,    \* stale_lock_seconds, in ticks
  GivenAge,    \* heartbeat_seconds, in ticks, or NoOne to take the default
  PollAge,     \* poll_seconds, in ticks, rounded up
  CapAge,      \* the 5 seconds that cap the default, in ticks
  StepAge,     \* longest time of a client's step between mkdir, heartbeat and rmdir
  Ahead, Skew, \* the clients whose clock runs ahead of the file server's, and by how much
  Retries,     \* removals _remove_lock_dir_resilient adds to the first (5 in the code)
  Faults,      \* what may happen: "crash", "interrupt", "io", "beat", "late"
  MaxFaults    \* bound on the number of faults of a behaviour

Client == Readers \union Writers
Token  == Readers \union {WriterDir}

ASSUME NamesAssumption == WriterDir \notin Client /\ NoOne \notin Client \union {WriterDir}
ASSUME StaleAssumption == StaleAge \in Nat \ {0}
ASSUME TimeAssumption ==
  /\ NoOne \notin Nat /\ GivenAge \in (Nat \ {0}) \union {NoOne}
  /\ PollAge \in Nat /\ CapAge \in Nat \ {0} /\ StepAge \in Nat \ {0}
  /\ Ahead \subseteq Client /\ Skew \in Nat
ASSUME RetriesAssumption == Retries \in Nat
\* A release whose every rmdir fails leaves a token that no later acquisition
\* would find under its own, fresh name: the bound keeps that out of the model.
ASSUME FaultsAssumption == /\ Faults \subseteq {"crash", "interrupt", "io", "beat", "late"}
                           /\ MaxFaults \in Nat
                           /\ Faults \intersect {"io", "late"} # {} => MaxFaults <= Retries

\* max(poll_seconds, min(5.0, stale_lock_seconds / 3)), in ticks, rounded up
DefaultHeartbeat ==
  LET third  == (StaleAge + 2) \div 3
      capped == IF CapAge < third THEN CapAge ELSE third
  IN  IF PollAge > capped THEN PollAge ELSE capped
HeartbeatAge == IF GivenAge = NoOne THEN DefaultHeartbeat ELSE GivenAge

VARIABLES
  pc,       \* where each client is in the protocol
  hb,       \* the token each client's heartbeat thread touches, or NoOne
  tgt,      \* the token a client is removing
  cont,     \* where the client goes after the removal
  tries,    \* removals left to _remove_lock_dir_resilient
  todo,     \* reader tokens _has_readers listed and has not looked at yet
  found,    \* clients whose _has_readers has seen a live reader
  owner,    \* the client whose mkdir created each existing token, or NoOne
  meta,     \* the tokens that contain lock.json
  age,      \* ticks since the token was last touched
  faults    \* faults so far

rmVars   == <<tgt, cont, tries>>
scanVars == <<todo, found>>
fsVars   == <<owner, meta, age>>
vars     == <<pc, hb, tgt, cont, tries, todo, found, owner, meta, age, faults>>

ReaderPc == {"r_check", "r_mkdir", "r_meta", "r_recheck", "reading"}
WriterPc == {"w_mkdir", "w_meta", "w_scan", "w_each", "writing"}
Removing == {"unlink", "rmdir", "gone"}
Down     == {"dead", "failed", "left"}
Pc       == ReaderPc \union WriterPc \union Removing \union Down \union {"idle"}

Exists(t) == owner[t] # NoOne
AgeSeenBy(c, t) == age[t] + (IF c \in Ahead THEN Skew ELSE 0)
\* Seeded fault: a token is stale one tick early.
Stale_Early(c, t) == AgeSeenBy(c, t) >= StaleAge
\* The looking client's clock is compared with the token's mtime.
Stale(c, t) == AgeSeenBy(c, t) > StaleAge

\* c runs no heartbeat loop: a thread it still has was told to stop while it wrote.
Stopped(c) ==
  /\ pc[c] \notin {"r_recheck", "reading", "w_scan", "w_each", "writing", "left"}
  /\ ~(pc[c] \in Removing /\ cont[c] = "w_each")

\* A heartbeat thread touches the token every HeartbeatAge ticks.
Beaten(t) == Exists(t) /\ hb[owner[t]] = t

\* The short windows before the heartbeat starts and after it was stopped.
InHand(t) ==
  /\ Exists(t)
  /\ LET c == owner[t] IN
     pc[c] \in {"r_meta", "w_meta"} \/ (pc[c] \in Removing /\ tgt[c] = t)

TypeOK ==
  /\ pc \in [Client -> Pc]
  /\ hb \in [Client -> Token \union {NoOne}]
  /\ tgt \in [Client -> Token \union {NoOne}]
  /\ cont \in [Client -> {"idle", "r_check", "w_mkdir", "w_each", "failed"}]
  /\ tries \in [Client -> 0 .. Retries]
  /\ todo \in [Client -> SUBSET Readers]
  /\ found \in SUBSET Client
  /\ owner \in [Token -> Client \union {NoOne}]
  /\ meta \in SUBSET Token
  /\ age \in [Token -> 0 .. StaleAge + 1]
  /\ faults \in 0 .. MaxFaults
  /\ \A r \in Readers : owner[r] \in {r, NoOne}
  /\ \A c \in Client : pc[c] \in ReaderPc => c \in Readers
  /\ \A c \in Client : pc[c] \in Removing =>
       tgt[c] \in Token /\ (cont[c] = "r_check" => c \in Readers)

Init ==
  /\ pc = [c \in Client |-> "idle"]
  /\ hb = [c \in Client |-> NoOne]
  /\ tgt = [c \in Client |-> NoOne]
  /\ cont = [c \in Client |-> "idle"]
  /\ tries = [c \in Client |-> 0]
  /\ todo = [c \in Client |-> {}]
  /\ found = {}
  /\ owner = [t \in Token |-> NoOne]
  /\ meta = {}
  /\ age = [t \in Token |-> 0]
  /\ faults = 0

-----------------------------------------------------------------------------
(* Building blocks                                                           *)

Goto(c, l) == pc' = [pc EXCEPT ![c] = l]

Fault(kind) == kind \in Faults /\ faults < MaxFaults /\ faults' = faults + 1

\* Call _remove_lock_dir on t, n more times if t is still there, then go to l.
Remove(c, t, l, n) ==
  /\ Goto(c, "unlink")
  /\ tgt' = [tgt EXCEPT ![c] = t]
  /\ cont' = [cont EXCEPT ![c] = l]
  /\ tries' = [tries EXCEPT ![c] = n]

Mkdir(c, t) ==
  /\ ~Exists(t)
  /\ owner' = [owner EXCEPT ![t] = c]
  /\ meta' = meta \ {t}
  /\ age' = [age EXCEPT ![t] = 0]

\* The heartbeat thread is told to stop and joined; one that is late, blocked in
\* its write for longer than the join waits, still has that write to do.
StopHeartbeat(c) ==
  \/ hb' = [hb EXCEPT ![c] = NoOne] /\ UNCHANGED faults
  \/ Fault("late") /\ UNCHANGED hb

\* lock.json is replaced: the token is as fresh as can be.
Touch(t) ==
  /\ meta' = meta \union {t}
  /\ age' = [age EXCEPT ![t] = 0]

\* The client's thread is somewhere else for good.
Abandon(c, l) ==
  /\ Goto(c, l)
  /\ tgt' = [tgt EXCEPT ![c] = NoOne]
  /\ cont' = [cont EXCEPT ![c] = "idle"]
  /\ tries' = [tries EXCEPT ![c] = 0]
  /\ todo' = [todo EXCEPT ![c] = {}]
  /\ found' = found \ {c}
  /\ UNCHANGED fsVars

-----------------------------------------------------------------------------
(* Removing a token: _remove_lock_dir and the loop around it                 *)

\* The files in the directory go first.  Unlinking lock.json leaves the
\* directory's own mtime, now, as the token's age.
Unlink(c) ==
  /\ pc[c] = "unlink"
  /\ LET t == tgt[c] IN
     \/ /\ ~Exists(t)
        /\ Goto(c, "gone")
        /\ UNCHANGED fsVars
     \/ /\ Exists(t)
        /\ Goto(c, "rmdir")
        /\ meta' = meta \ {t}
        /\ age' = [age EXCEPT ![t] = IF t \in meta THEN 0 ELSE @]
        /\ UNCHANGED owner
  /\ UNCHANGED <<hb, rmVars, scanVars, faults>>

\* A file that cannot be unlinked stays, and the error is ignored; a directory that
\* cannot be listed raises out of the acquisition or release (of _has_readers, see
\* W_ScanFails), and what it had stays.
UnlinkFails(c) ==
  /\ pc[c] = "unlink"
  /\ Fault("io")
  /\ \/ Goto(c, "rmdir") /\ UNCHANGED <<rmVars, scanVars, fsVars>>
     \/ cont[c] # "w_each" /\ Abandon(c, "failed")
  /\ UNCHANGED hb

\* rmdir takes whatever directory has that name now, if it is empty.
Rmdir(c) ==
  /\ pc[c] = "rmdir"
  /\ Goto(c, "gone")
  /\ LET t == tgt[c] IN
     IF Exists(t) /\ t \notin meta
     THEN owner' = [owner EXCEPT ![t] = NoOne] /\ age' = [age EXCEPT ![t] = 0]
     ELSE UNCHANGED <<owner, age>>
  /\ UNCHANGED <<hb, rmVars, scanVars, meta, faults>>

\* rmdir fails and the error is ignored.
RmdirFails(c) ==
  /\ pc[c] = "rmdir"
  /\ Fault("io")
  /\ Goto(c, "gone")
  /\ UNCHANGED <<hb, rmVars, scanVars, fsVars>>

\* Seeded fault: one removal only, no loop.
Gone_NoLoop(c) ==
  /\ pc[c] = "gone"
  /\ Goto(c, cont[c])
  /\ tgt' = [tgt EXCEPT ![c] = NoOne]
  /\ cont' = [cont EXCEPT ![c] = "idle"]
  /\ tries' = [tries EXCEPT ![c] = 0]
  /\ IF cont[c] = "w_each"
     THEN /\ todo' = [todo EXCEPT ![c] = @ \ {tgt[c]}]
          /\ found' = IF Exists(tgt[c]) THEN found \union {c} ELSE found
     ELSE UNCHANGED scanVars
  /\ UNCHANGED <<hb, fsVars, faults>>

\* lock_path.exists() after the removal: the resilient loop tries again while
\* the name exists, _has_readers counts a token that is still there.
Gone(c) ==
  /\ pc[c] = "gone"
  /\ LET t == tgt[c] IN
     \/ /\ Exists(t) /\ tries[c] > 0
        /\ Goto(c, "unlink")
        /\ tries' = [tries EXCEPT ![c] = @ - 1]
        /\ UNCHANGED <<tgt, cont, scanVars>>
     \/ /\ ~(Exists(t) /\ tries[c] > 0)
        /\ Goto(c, cont[c])
        /\ tgt' = [tgt EXCEPT ![c] = NoOne]
        /\ cont' = [cont EXCEPT ![c] = "idle"]
        /\ tries' = [tries EXCEPT ![c] = 0]
        /\ IF cont[c] = "w_each"
           THEN /\ todo' = [todo EXCEPT ![c] = @ \ {t}]
                /\ found' = IF Exists(t) THEN found \union {c} ELSE found
           ELSE UNCHANGED scanVars
  /\ UNCHANGED <<hb, fsVars, faults>>

-----------------------------------------------------------------------------
(* _acquire_read_lock, _release_read_lock                                    *)

\* The token's name is new: a late write to the last one's goes nowhere.
R_Start(c) ==
  /\ pc[c] = "idle" /\ c \in Readers
  /\ Goto(c, "r_check")
  /\ hb' = [hb EXCEPT ![c] = IF @ = c THEN NoOne ELSE @]
  /\ UNCHANGED <<rmVars, scanVars, fsVars, faults>>

\* Seeded fault: a reader never breaks a stale intent.
R_Check_NoBreak(c) ==
  /\ pc[c] = "r_check"
  /\ ~Exists(WriterDir)
  /\ Goto(c, "r_mkdir")
  /\ UNCHANGED <<hb, rmVars, scanVars, fsVars, faults>>

\* An intent that is not stale keeps the reader sleeping here.
R_Check(c) ==
  /\ pc[c] = "r_check"
  /\ \/ /\ ~Exists(WriterDir)
        /\ Goto(c, "r_mkdir")
        /\ UNCHANGED rmVars
     \/ /\ Exists(WriterDir) /\ Stale(c, WriterDir)
        /\ Remove(c, WriterDir, "r_check", 0)
  /\ UNCHANGED <<hb, scanVars, fsVars, faults>>

R_Mkdir(c) ==
  /\ pc[c] = "r_mkdir"
  /\ \/ /\ Mkdir(c, c)
        /\ Goto(c, "r_meta")
        /\ UNCHANGED rmVars
     \/ /\ Exists(c)
        /\ Remove(c, c, "r_check", 0)
        /\ UNCHANGED fsVars
  /\ UNCHANGED <<hb, scanVars, faults>>

\* Transient errors are retried, the others leave with nothing held.
R_MkdirFails(c) ==
  /\ pc[c] = "r_mkdir"
  /\ Fault("io")
  /\ \E l \in {"r_check", "failed"} : Goto(c, l)
  /\ UNCHANGED <<hb, rmVars, scanVars, fsVars>>

\* Seeded fault: no heartbeat thread is started.
R_Meta_NoHeartbeat(c) ==
  /\ pc[c] = "r_meta"
  /\ owner' = [owner EXCEPT ![c] = c]
  /\ Touch(c)
  /\ Goto(c, "r_recheck")
  /\ UNCHANGED <<hb, rmVars, scanVars, faults>>

\* create_missing: a token that vanished is made again before lock.json.
R_Meta(c) ==
  /\ pc[c] = "r_meta"
  /\ owner' = [owner EXCEPT ![c] = c]
  /\ Touch(c)
  /\ hb' = [hb EXCEPT ![c] = c]
  /\ Goto(c, "r_recheck")
  /\ UNCHANGED <<rmVars, scanVars, faults>>

R_MetaFails(c) ==
  /\ pc[c] = "r_meta"
  /\ Fault("io")
  /\ \E l \in {"r_check", "failed"} : Remove(c, c, l, 0)
  /\ UNCHANGED <<hb, scanVars, fsVars>>

\* Seeded fault: the reader does not look for the intent again.
R_Recheck_Blind(c) ==
  /\ pc[c] = "r_recheck"
  /\ Goto(c, "reading")
  /\ UNCHANGED <<hb, rmVars, scanVars, fsVars, faults>>

\* The intent is looked for again, now that the token can be seen.
R_Recheck(c) ==
  /\ pc[c] = "r_recheck"
  /\ \/ /\ ~Exists(WriterDir)
        /\ Goto(c, "reading")
        /\ UNCHANGED <<hb, rmVars, faults>>
     \/ /\ Exists(WriterDir)
        /\ StopHeartbeat(c)
        /\ Remove(c, c, "r_check", Retries)
  /\ UNCHANGED <<scanVars, fsVars>>

\* writer_path.exists() raises: the call ends, nothing removes its token, and the
\* heartbeat thread lives on.
R_RecheckFails(c) ==
  /\ pc[c] = "r_recheck"
  /\ Fault("io")
  /\ Abandon(c, "left")
  /\ UNCHANGED hb

\* Seeded fault: the removal loop runs once too often.
R_Release_OnceMore(c) ==
  /\ pc[c] = "reading"
  /\ hb' = [hb EXCEPT ![c] = NoOne]
  /\ Remove(c, c, "idle", Retries + 1)
  /\ UNCHANGED <<scanVars, fsVars, faults>>

R_Release(c) ==
  /\ pc[c] = "reading"
  /\ StopHeartbeat(c)
  /\ Remove(c, c, "idle", Retries)
  /\ UNCHANGED <<scanVars, fsVars>>

-----------------------------------------------------------------------------
(* _acquire_write_lock, _has_readers, _release_write_lock                    *)

W_Start(c) ==
  /\ pc[c] = "idle" /\ c \in Writers
  /\ Goto(c, "w_mkdir")
  /\ UNCHANGED <<hb, rmVars, scanVars, fsVars, faults>>

W_Mkdir(c) ==
  /\ pc[c] = "w_mkdir"
  /\ \/ /\ Mkdir(c, WriterDir)
        /\ Goto(c, "w_meta")
        /\ UNCHANGED rmVars
     \/ /\ Exists(WriterDir) /\ Stale(c, WriterDir)
        /\ Remove(c, WriterDir, "w_mkdir", 0)
        /\ UNCHANGED fsVars
  /\ UNCHANGED <<hb, scanVars, faults>>

\* No create_missing here: a vanished directory sends the writer back to
\* mkdir, and a directory that someone else made since is taken for its own.
W_Meta(c) ==
  /\ pc[c] = "w_meta"
  /\ \/ /\ Exists(WriterDir)
        /\ Touch(WriterDir)
        /\ hb' = [hb EXCEPT ![c] = WriterDir]
        /\ Goto(c, "w_scan")
        /\ UNCHANGED owner
     \/ /\ ~Exists(WriterDir)
        /\ Goto(c, "w_mkdir")
        /\ UNCHANGED <<hb, fsVars>>
  /\ UNCHANGED <<rmVars, scanVars, faults>>

\* mkdir, or writing lock.json, raises: nothing removes a directory already made.
W_IoFails(c) ==
  /\ pc[c] \in {"w_mkdir", "w_meta"}
  /\ Fault("io")
  /\ \E l \in {"w_mkdir", "failed"} : Goto(c, l)
  /\ UNCHANGED <<hb, rmVars, scanVars, fsVars>>

\* Seeded fault: tokens without lock.json are not listed.
W_Scan_DescribedOnly(c) ==
  /\ pc[c] = "w_scan"
  /\ Goto(c, "w_each")
  /\ todo' = [todo EXCEPT ![c] = {r \in Readers : r \in meta}]
  /\ found' = found \ {c}
  /\ UNCHANGED <<hb, rmVars, fsVars, faults>>

\* list(readers_path.iterdir())
W_Scan(c) ==
  /\ pc[c] = "w_scan"
  /\ Goto(c, "w_each")
  /\ todo' = [todo EXCEPT ![c] = {r \in Readers : Exists(r)}]
  /\ found' = found \ {c}
  /\ UNCHANGED <<hb, rmVars, fsVars, faults>>

\* Listing the tokens, looking at one, or listing the files of a stale one raises: the
\* exception handler releases the intent.
W_ScanFails(c) ==
  /\ pc[c] \in {"w_scan", "w_each"} \/ (pc[c] = "unlink" /\ cont[c] = "w_each")
  /\ Fault("io")
  /\ hb' = [hb EXCEPT ![c] = NoOne]
  /\ Remove(c, WriterDir, "failed", Retries)
  /\ UNCHANGED <<scanVars, fsVars>>

\* Seeded fault: a writer never breaks a stale reader token.
W_Look_NoBreak(c) ==
  /\ pc[c] = "w_each"
  /\ \E r \in todo[c] :
       /\ todo' = [todo EXCEPT ![c] = @ \ {r}]
       /\ found' = IF Exists(r) THEN found \union {c} ELSE found
  /\ UNCHANGED <<pc, hb, rmVars, fsVars, faults>>

\* One listed token: vanished, live, or stale and broken.
W_Look(c) ==
  /\ pc[c] = "w_each"
  /\ \E r \in todo[c] :
     \/ /\ ~Stale(c, r)
        /\ todo' = [todo EXCEPT ![c] = @ \ {r}]
        /\ found' = IF Exists(r) THEN found \union {c} ELSE found
        /\ UNCHANGED <<pc, rmVars>>
     \/ /\ Exists(r) /\ Stale(c, r)
        /\ Remove(c, r, "w_each", 0)
        /\ UNCHANGED scanVars
  /\ UNCHANGED <<hb, fsVars, faults>>

\* Seeded fault: the writer enters whatever it found.
W_Looked_Anyway(c) ==
  /\ pc[c] = "w_each" /\ todo[c] = {}
  /\ Goto(c, "writing")
  /\ found' = found \ {c}
  /\ UNCHANGED <<hb, rmVars, todo, fsVars, faults>>

\* _has_readers returns: enter, or sleep and list again.
W_Looked(c) ==
  /\ pc[c] = "w_each" /\ todo[c] = {}
  /\ Goto(c, IF c \in found THEN "w_scan" ELSE "writing")
  /\ found' = found \ {c}
  /\ UNCHANGED <<hb, rmVars, todo, fsVars, faults>>

\* The path is removed, whoever made the directory that has the name by now.
W_Release(c) ==
  /\ pc[c] = "writing"
  /\ StopHeartbeat(c)
  /\ Remove(c, WriterDir, "idle", Retries)
  /\ UNCHANGED <<scanVars, fsVars>>

-----------------------------------------------------------------------------
(* Heartbeat threads, time and crashes                                       *)

\* A heartbeat knows its path only: it stops when the path is gone, or after this
\* write if it has been told to.
Beat(c) ==
  /\ hb[c] # NoOne
  /\ \/ /\ Exists(hb[c])
        /\ Touch(hb[c])
        /\ hb' = [hb EXCEPT ![c] = IF Stopped(c) THEN NoOne ELSE @]
     \/ /\ ~Exists(hb[c])
        /\ hb' = [hb EXCEPT ![c] = NoOne]
        /\ UNCHANGED <<meta, age>>
  /\ UNCHANGED <<pc, rmVars, scanVars, owner, faults>>

\* The first OSError ends the thread; the lease is still held.
BeatFails(c) ==
  /\ hb[c] # NoOne
  /\ Fault("beat")
  /\ hb' = [hb EXCEPT ![c] = NoOne]
  /\ UNCHANGED <<pc, rmVars, scanVars, fsVars>>

Crash(c) ==
  /\ pc[c] \notin Down \union {"idle"}
  /\ Fault("crash")
  /\ Abandon(c, "dead")
  /\ hb' = [hb EXCEPT ![c] = NoOne]

\* A KeyboardInterrupt or SystemExit passes "except Exception" and no finally is
\* around an acquisition or a release: the call ends, its process and its
\* heartbeat thread live on.  (In a section, the finally releases as ever.)
Interrupted(c) ==
  /\ pc[c] \notin Down \union {"idle", "reading", "writing"}
  /\ Fault("interrupt")
  /\ Abandon(c, "left")
  /\ hb' = [hb EXCEPT ![c] = IF Stopped(c) THEN NoOne ELSE @]

\* Time passes, though not so far that a heartbeat or a client is late.
Tick ==
  /\ \A t \in Token : (Beaten(t) => age[t] < HeartbeatAge) /\ (InHand(t) => age[t] < StepAge)
  /\ age' = [t \in Token |-> IF Exists(t) /\ age[t] <= StaleAge THEN age[t] + 1 ELSE age[t]]
  /\ UNCHANGED <<pc, hb, rmVars, scanVars, owner, meta, faults>>

ReaderStep(c) ==
  R_Start(c) \/ R_Check(c) \/ R_Mkdir(c) \/ R_MkdirFails(c) \/ R_Meta(c)
  \/ R_MetaFails(c) \/ R_Recheck(c) \/ R_RecheckFails(c) \/ R_Release(c)

WriterStep(c) ==
  W_Start(c) \/ W_Mkdir(c) \/ W_Meta(c) \/ W_IoFails(c) \/ W_Scan(c) \/ W_ScanFails(c)
  \/ W_Look(c) \/ W_Looked(c) \/ W_Release(c)

RemoveStep(c) == Unlink(c) \/ UnlinkFails(c) \/ Rmdir(c) \/ RmdirFails(c) \/ Gone(c)

ClientStep(c) ==
  ReaderStep(c) \/ WriterStep(c) \/ RemoveStep(c) \/ Beat(c) \/ BeatFails(c)
  \/ Crash(c) \/ Interrupted(c)

Next == Tick \/ \E c \in Client : ClientStep(c)

Spec == Init /\ [][Next]_vars

-----------------------------------------------------------------------------
(* Properties                                                                *)

HoldsRead(c)  == pc[c] = "reading"
HoldsWrite(c) == pc[c] = "writing"

\* Listing the readers, looking at them and breaking the stale ones among them.
Looking(w) == pc[w] = "w_each" \/ (pc[w] \in Removing /\ cont[w] = "w_each")

\* A writer excludes everyone else: "writers and invalidations block new readers
\* and wait for active readers to finish" (README.md:92).
WriterExcludesOthers ==
  \A w, c \in Client : HoldsWrite(w) /\ c # w => ~HoldsRead(c) /\ ~HoldsWrite(c)

\* Whatever crashes, fails or stalls, a writer whose intent is still the directory
\* it made never overlaps a reader whose token is still there: exclusion can only
\* be lost by losing a token first (R_Recheck against W_Mkdir and W_Scan).
IntactExclusion ==
  \A w, r \in Client :
    HoldsWrite(w) /\ owner[WriterDir] = w /\ HoldsRead(r) => owner[r] # r

\* Why: until the writer has its answer, every reader that got in before the
\* intent is still to be looked at, or was seen (_has_readers, lines 433-449).
ScanCovers ==
  \A w \in Client : Looking(w) /\ owner[WriterDir] = w =>
    \A r \in Readers : HoldsRead(r) /\ owner[r] = r => r \in todo[w] \/ w \in found

\* A reader keeps its token for as long as it reads, if nothing but crashes
\* happens and heartbeats are on time (_heartbeat_lock against _break_stale_lock).
ReadersKeepTokens ==
  \A r \in Client : HoldsRead(r) => owner[r] = r

\* A client that has released its read lock left no token behind for a writer to
\* wait on, even when a removal failed (_remove_lock_dir_resilient, lines 393-396).
ReleasedLeavesNoToken ==
  \A r \in Readers : pc[r] = "idle" => ~Exists(r)

\* c is removing t because it found it stale, not because it releases its own.
Breaking(c, t) ==
  pc[c] \in Removing /\ tgt[c] = t /\ t # c
  /\ (t = WriterDir => cont[c] \in {"r_check", "w_mkdir"})

\* Breaking a stale lock never removes the lock of a client that is running:
\* "stale reader/writer tokens are broken after stale_lock_seconds" (README.md:96).
BreaksSpareTheLiving ==
  [][\A c \in Client, t \in Token :
       Breaking(c, t) /\ Rmdir(c) /\ Exists(t) /\ owner'[t] = NoOne
         => pc[owner[t]] \in Down]_vars

\* The lock one writer and any number of readers see is the promised one.
RW == INSTANCE RWLock WITH
        reading <- {c \in Client : HoldsRead(c)},
        writing <- {c \in Client : HoldsWrite(c)},
        intent  <- owner[WriterDir],
        dead    <- {c \in Client : pc[c] = "dead"}
ImplementsRWLock == RW!AbsSpec

\* What the scheduling of the code justifies: every client takes its next step,
\* a section ends, heartbeat threads run and time passes.  Nobody has to start
\* an acquisition, and no fault has to happen.
Proceed(c) ==
  R_Check(c) \/ R_Mkdir(c) \/ R_Meta(c) \/ R_Recheck(c) \/ R_Release(c)
  \/ W_Mkdir(c) \/ W_Meta(c) \/ W_Scan(c) \/ W_Look(c) \/ W_Looked(c) \/ W_Release(c)
  \/ Unlink(c) \/ Rmdir(c) \/ Gone(c)

Fairness ==
  /\ WF_vars(Tick)
  /\ \A c \in Client : WF_vars(Proceed(c)) /\ WF_vars(Beat(c))

LiveSpec == Spec /\ Fairness

\* Writer preference: once its intent stands, a writer gets in, although readers
\* keep coming and some crash inside (_has_readers breaks their stale tokens).
WriterGetsIn ==
  \A w \in Writers :
    (pc[w] = "w_scan" /\ owner[WriterDir] = w) ~> (HoldsWrite(w) \/ pc[w] \in Down)

\* A waiting reader gets in once no writer comes any more, even if the last one
\* crashed and left its intent (_break_stale_lock from _acquire_read_lock).
ReaderGetsIn ==
  \A r \in Readers :
    [](pc[r] = "r_check" /\ [](\A w \in Writers : pc[w] \in Down \union {"idle"})
         => <>(HoldsRead(r) \/ pc[r] \in Down))

\* No reader waits for one intent for ever, whatever became of the client that
\* made it: it is released, or it becomes stale and is broken (lines 305-308),
\* unless the heartbeat of an interrupted call keeps it.
OrphanIntentGoes ==
  \A c \in Readers :
    []([](pc[c] \in {"r_check"} \union Removing)
         => <>(\/ ~Exists(WriterDir)
               \/ \E d \in Client : pc[d] = "left" /\ hb[d] = WriterDir))
=============================================================================
