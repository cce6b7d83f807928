----------------------------- MODULE CacheEntry -----------------------------
(* One cache key and the calls that use it: _run_cached, its streaming twin  *)
(* _run_cached_parquet with the export that follows it, the validation of an *)
(* entry, the cold load and the commit protocol (nfscache/nfs_cache.py).     *)
(*                                                                           *)
(* The module composes with RWLock: every lock operation of a call is a step *)
(* of the promised lock, so what is checked here rests on that promise, and  *)
(* the "lock" fault takes the promise back from a client that still runs.    *)
(*                                                                           *)
(* The source is a counter: a change gives it a value it never had (an SCN,  *)
(* a new content), or, with Revert, one it had before.  A value stands for   *)
(* the source's content, for its version token and for the bytes and the     *)
(* SHA-256 of the parquet file made from it.                                 *)
EXTENDS RWLock, Naturals

CONSTANTS
  Streamers,    \* the clients that call through sql_parquet
  Absent,       \* no file, no value
  Damaged,      \* parquet bytes that no source value gives
  MaxSource,    \* bound on the source's values
  Revert,       \* TRUE: the source may return to an earlier value
  MaxCalls,     \* bound on the calls of a client
  EntryFaults,  \* out of "crash", "interrupt", "source", "disk", "parquet", "json", "bytes",
                \* "lock"
  MaxFaults     \* bound on the number of faults of a behaviour

Value == 0 .. MaxSource

ASSUME EntryAssumption ==
  /\ Readers = Writers /\ Streamers \subseteq Client /\ NoOne \notin Client
  /\ MaxSource \in Nat /\ MaxCalls \in Nat /\ MaxFaults \in Nat
  /\ Absent \notin Nat /\ Damaged \notin Nat /\ Absent # Damaged
  /\ Revert \in BOOLEAN

VARIABLES
  source,    \* the source's value
  parquet,   \* the entry's parquet file
  meta,      \* the entry's metadata sidecar
  part,      \* the parquet *.part file of each client's call
  metaPart,  \* each client's metadata *.part file
  output,    \* each streamer's exported file
  pc,        \* where each call is
  side,      \* the lock a call holds: "read" or "write"
  version,   \* the local source_version
  expected,  \* the checksum in the metadata a call has read
  data,      \* what a call has loaded or read
  outcome,   \* "miss", "hit", "stored", or how the call raises: "failed", or "left" where its
             \* part files may stay
  calls,     \* calls made by each client
  started,   \* the source's value when a client's call began (for the properties)
  lost,      \* TRUE once a running client has lost its lock (for the properties)
  faults     \* faults so far

files == <<parquet, meta, part, metaPart, output>>
locals == <<side, version, expected, data, outcome>>
vars == <<absVars, source, files, pc, locals, calls, started, lost, faults>>

NoMeta == [kind |-> "absent", version |-> Absent, sha |-> Absent]

Under == {"v_meta", "v_hash", "v_read", "unlock"}   \* with either lock
Alone == {"w_version", "before", "load", "after", "write", "describe", "replace", "commit",
          "cleanup"}                                 \* with the write lock
Outside == {"idle", "version", "r_lock", "announce", "w_lock", "retract", "copy", "export",
            "returned", "failed", "dead"}

MetaType == [kind : {"absent", "ok", "json", "bytes"},
             version : Value \union {Absent}, sha : Value \union {Absent}]

EntryTypeOK ==
  /\ reading \subseteq Client /\ writing \subseteq Client /\ dead \subseteq Client
  /\ intent \in Client \union {NoOne}
  /\ source \in Value
  /\ parquet \in Value \union {Absent, Damaged}
  /\ meta \in MetaType
  /\ part \in [Client -> Value \union {Absent, Damaged}]
  /\ metaPart \in [Client -> MetaType]
  /\ output \in [Client -> Value \union {Absent, Damaged}]
  /\ pc \in [Client -> Under \union Alone \union Outside]
  /\ side \in [Client -> {"read", "write"}]
  /\ version \in [Client -> Value \union {Absent}]
  /\ expected \in [Client -> Value \union {Absent}]
  /\ data \in [Client -> Value \union {Absent}]
  /\ outcome \in [Client -> {"miss", "hit", "stored", "failed", "left"}]
  /\ calls \in [Client -> 0 .. MaxCalls]
  /\ started \in [Client -> Value]
  /\ lost \in BOOLEAN
  /\ faults \in 0 .. MaxFaults

EntryInit ==
  /\ AbsInit
  /\ source = 0
  /\ parquet = Absent /\ meta = NoMeta
  /\ part = [c \in Client |-> Absent]
  /\ metaPart = [c \in Client |-> NoMeta]
  /\ output = [c \in Client |-> Absent]
  /\ pc = [c \in Client |-> "idle"]
  /\ side = [c \in Client |-> "read"]
  /\ version = [c \in Client |-> Absent]
  /\ expected = [c \in Client |-> Absent]
  /\ data = [c \in Client |-> Absent]
  /\ outcome = [c \in Client |-> "miss"]
  /\ calls = [c \in Client |-> 0]
  /\ started = [c \in Client |-> 0]
  /\ lost = FALSE
  /\ faults = 0

-----------------------------------------------------------------------------
(* Building blocks                                                           *)

Goto(c, l) == pc' = [pc EXCEPT ![c] = l]
Set(f, c, v) == [f EXCEPT ![c] = v]

Fault(kind) == kind \in EntryFaults /\ faults < MaxFaults /\ faults' = faults + 1

\* Leave the locked section with this outcome.
Leave(c, o) == Goto(c, "unlock") /\ outcome' = Set(outcome, c, o)

Raised(c) == outcome[c] \in {"failed", "left"}

\* There are no part files under the names that c uses.
NoParts(c) ==
  /\ part' = Set(part, c, Absent)
  /\ metaPart' = Set(metaPart, c, NoMeta)

\* What c was writing, if it was, is there by half.
CutShort(c) ==
  /\ part' = IF pc[c] \in {"write", "copy"} \/ (pc[c] = "load" /\ c \in Streamers)
             THEN Set(part, c, Damaged) ELSE part
  /\ metaPart' = IF pc[c] = "describe"
                 THEN Set(metaPart, c, [NoMeta EXCEPT !.kind = "json"]) ELSE metaPart

-----------------------------------------------------------------------------
(* A call, up to the write lock                                              *)

\* Part files have new names in each call: what an earlier one left is nobody's.
Call(c) ==
  /\ pc[c] \in {"idle", "returned", "failed"} /\ calls[c] < MaxCalls
  /\ calls' = Set(calls, c, calls[c] + 1)
  /\ started' = Set(started, c, source)
  /\ Goto(c, "version")
  /\ side' = Set(side, c, "read")
  /\ data' = Set(data, c, Absent)
  /\ outcome' = Set(outcome, c, "miss")
  /\ NoParts(c)
  /\ UNCHANGED <<absVars, source, parquet, meta, output, version, expected, lost, faults>>

\* version_fn, before any lock and again under the write lock
ReadVersion(c) ==
  /\ \/ pc[c] = "version" /\ Goto(c, "r_lock")
     \/ pc[c] = "w_version" /\ Goto(c, "v_meta")
  /\ version' = Set(version, c, source)
  /\ UNCHANGED <<absVars, source, files, side, expected, data, outcome, calls, started, lost, faults>>

ReadVersionFails(c) ==
  /\ pc[c] \in {"version", "w_version"}
  /\ Fault("source")
  /\ outcome' = Set(outcome, c, "failed")
  /\ Goto(c, IF pc[c] = "version" THEN "failed" ELSE "unlock")
  /\ UNCHANGED <<absVars, source, files, side, version, expected, data, calls, started, lost>>

LockRead(c) ==
  /\ pc[c] = "r_lock"
  /\ AbsBeginRead(c)
  /\ Goto(c, "v_meta")
  /\ UNCHANGED <<source, files, locals, calls, started, lost, faults>>

Announce(c) ==
  /\ pc[c] = "announce"
  /\ AbsAnnounce(c)
  /\ Goto(c, "w_lock")
  /\ UNCHANGED <<source, files, locals, calls, started, lost, faults>>

\* Seeded fault: the entry is not looked at again under the write lock.
LockWrite_NoRecheck(c) ==
  /\ pc[c] = "w_lock"
  /\ IF intent = c THEN AbsBeginWrite(c) ELSE reading = {} /\ UNCHANGED absVars
  /\ Goto(c, "before")
  /\ side' = Set(side, c, "write")
  /\ UNCHANGED <<source, files, version, expected, data, outcome, calls, started, lost, faults>>

\* A client whose intent was broken meanwhile waits for the readers all the same.
LockWrite(c) ==
  /\ pc[c] = "w_lock"
  /\ IF intent = c THEN AbsBeginWrite(c) ELSE reading = {} /\ UNCHANGED absVars
  /\ Goto(c, "w_version")
  /\ side' = Set(side, c, "write")
  /\ UNCHANGED <<source, files, version, expected, data, outcome, calls, started, lost, faults>>

\* Seeded fault: a call that misses takes the write lock under its read lock.
Unlock_Upgrade(c) ==
  /\ pc[c] = "unlock"
  /\ IF side[c] = "read"
     THEN IF c \in reading /\ outcome[c] # "miss" THEN AbsEndRead(c) ELSE UNCHANGED absVars
     ELSE IF c \in writing THEN AbsEndWrite(c) ELSE UNCHANGED absVars
  /\ \/ side[c] = "write" /\ Goto(c, "retract")
     \/ side[c] = "read" /\ outcome[c] = "miss" /\ Goto(c, "announce")
     \/ side[c] = "read" /\ Raised(c) /\ Goto(c, "failed")
     \/ side[c] = "read" /\ outcome[c] = "hit"
        /\ Goto(c, IF c \in Streamers THEN "copy" ELSE "returned")
  /\ UNCHANGED <<source, files, locals, calls, started, lost, faults>>

\* Seeded fault: the read lock is given back at the end of the try block, not finally.
Unlock_NotFinally(c) ==
  /\ pc[c] = "unlock"
  /\ IF side[c] = "read"
     THEN IF c \in reading /\ ~Raised(c) THEN AbsEndRead(c) ELSE UNCHANGED absVars
     ELSE IF c \in writing THEN AbsEndWrite(c) ELSE UNCHANGED absVars
  /\ \/ side[c] = "write" /\ Goto(c, "retract")
     \/ side[c] = "read" /\ outcome[c] = "miss" /\ Goto(c, "announce")
     \/ side[c] = "read" /\ Raised(c) /\ Goto(c, "failed")
     \/ side[c] = "read" /\ outcome[c] = "hit"
        /\ Goto(c, IF c \in Streamers THEN "copy" ELSE "returned")
  /\ UNCHANGED <<source, files, locals, calls, started, lost, faults>>

\* The finally blocks: a read lock goes at once, a write lock leaves its intent.
Unlock(c) ==
  /\ pc[c] = "unlock"
  /\ IF side[c] = "read"
     THEN IF c \in reading THEN AbsEndRead(c) ELSE UNCHANGED absVars
     ELSE IF c \in writing THEN AbsEndWrite(c) ELSE UNCHANGED absVars
  /\ \/ side[c] = "write" /\ Goto(c, "retract")
     \/ side[c] = "read" /\ outcome[c] = "miss" /\ Goto(c, "announce")
     \/ side[c] = "read" /\ Raised(c) /\ Goto(c, "failed")
     \/ side[c] = "read" /\ outcome[c] = "hit"
        /\ Goto(c, IF c \in Streamers THEN "copy" ELSE "returned")
  /\ UNCHANGED <<source, files, locals, calls, started, lost, faults>>

\* The intent goes by its name: if c has lost its own, another client's.
Retract(c) ==
  /\ pc[c] = "retract"
  /\ IF intent = c THEN AbsRetract(c)
     ELSE intent' = NoOne /\ writing' = writing \ {intent} /\ UNCHANGED <<reading, dead>>
  /\ Goto(c, IF Raised(c) THEN "failed"
             ELSE IF c \in Streamers THEN "copy" ELSE "returned")
  /\ UNCHANGED <<source, files, locals, calls, started, lost, faults>>

-----------------------------------------------------------------------------
(* _read_valid_metadata, _metadata_reject_reason, _read_data_container       *)

Reject(c) ==
  IF side[c] = "read" THEN Leave(c, "miss") ELSE Goto(c, "before") /\ UNCHANGED outcome

\* Seeded fault: the entry's source version is not compared.
CheckMeta_AnyVersion(c) ==
  /\ pc[c] = "v_meta"
  /\ \/ (parquet = Absent \/ meta.kind # "ok") /\ Reject(c) /\ UNCHANGED expected
     \/ /\ parquet # Absent /\ meta.kind = "ok"
        /\ expected' = Set(expected, c, meta.sha)
        /\ Goto(c, "v_hash")
        /\ UNCHANGED outcome
  /\ UNCHANGED <<absVars, source, files, side, version, data, calls, started, lost, faults>>

\* The sidecar is read and compared with the version the call has seen.  Bytes
\* that are not UTF-8 raise out of the call.
CheckMeta(c) ==
  /\ pc[c] = "v_meta"
  /\ \/ /\ parquet = Absent \/ meta.kind \in {"absent", "json"}
           \/ (meta.kind = "ok" /\ meta.version # version[c])
        /\ Reject(c)
        /\ UNCHANGED expected
     \/ /\ parquet # Absent /\ meta.kind = "bytes"
        /\ Leave(c, "failed")
        /\ UNCHANGED expected
     \/ /\ parquet # Absent /\ meta.kind = "ok" /\ meta.version = version[c]
        /\ expected' = Set(expected, c, meta.sha)
        /\ Goto(c, "v_hash")
        /\ UNCHANGED outcome
  /\ UNCHANGED <<absVars, source, files, side, version, data, calls, started, lost, faults>>

\* The parquet file is opened again to hash it ...
CheckHash(c) ==
  /\ pc[c] = "v_hash"
  /\ \/ parquet # expected[c] /\ Reject(c)
     \/ /\ parquet = expected[c]
        /\ IF c \in Streamers THEN Leave(c, "hit") ELSE Goto(c, "v_read") /\ UNCHANGED outcome
  /\ UNCHANGED <<absVars, source, files, side, version, expected, data, calls, started, lost, faults>>

\* ... and once more to read it.  A streamer's hit is the path alone.
ReadParquet(c) ==
  /\ pc[c] = "v_read"
  /\ \/ /\ parquet \in {Absent, Damaged}
        /\ Reject(c)
        /\ UNCHANGED data
     \/ /\ parquet \in Value
        /\ data' = Set(data, c, parquet)
        /\ Leave(c, "hit")
  /\ UNCHANGED <<absVars, source, files, side, version, expected, calls, started, lost, faults>>

-----------------------------------------------------------------------------
(* The cold load: _load_stable and the loop of _run_cached_parquet           *)

VersionBefore(c) ==
  /\ pc[c] = "before"
  /\ version' = Set(version, c, source)
  /\ Goto(c, "load")
  /\ UNCHANGED <<absVars, source, files, side, expected, data, outcome, calls, started, lost, faults>>

\* load_fn returns the data; write_fn streams it into the part file.
Load(c) ==
  /\ pc[c] = "load"
  /\ data' = Set(data, c, source)
  /\ part' = IF c \in Streamers THEN Set(part, c, source) ELSE part
  /\ Goto(c, "after")
  /\ UNCHANGED <<absVars, source, parquet, meta, metaPart, output, side, version, expected,
                 outcome, calls, started, lost, faults>>

\* Seeded fault: the two version reads are not compared.
VersionAfter_Trusting(c) ==
  /\ pc[c] = "after"
  /\ Goto(c, IF c \in Streamers THEN "describe" ELSE "write")
  /\ UNCHANGED <<absVars, source, files, locals, calls, started, lost, faults>>

\* Seeded fault: readers are let in before each new load.
VersionAfter_LetsGo(c) ==
  /\ pc[c] = "after"
  /\ \/ /\ source = version[c]
        /\ Goto(c, IF c \in Streamers THEN "describe" ELSE "write")
        /\ UNCHANGED <<absVars, part, metaPart>>
     \/ /\ source # version[c]
        /\ Goto(c, "before")
        /\ NoParts(c)
        /\ intent' = (IF intent = c THEN NoOne ELSE intent) /\ UNCHANGED <<reading, writing, dead>>
  /\ UNCHANGED <<source, parquet, meta, output, locals, calls, started, lost, faults>>

VersionAfter(c) ==
  /\ pc[c] = "after"
  /\ \/ /\ source = version[c]
        /\ Goto(c, IF c \in Streamers THEN "describe" ELSE "write")
        /\ UNCHANGED <<part, metaPart>>
     \/ /\ source # version[c]
        /\ Goto(c, "before")
        /\ NoParts(c)
  /\ UNCHANGED <<absVars, source, parquet, meta, output, locals, calls, started, lost, faults>>

\* The source cannot be read; a stream may have written part of its file.
LoadFails(c) ==
  /\ pc[c] \in {"before", "load", "after"}
  /\ Fault("source")
  /\ CutShort(c)
  /\ Goto(c, "cleanup")
  /\ UNCHANGED <<absVars, source, parquet, meta, output, locals, calls, started, lost>>

\* The stream is to be loaded again, and its file cannot be removed.
RetryFails(c) ==
  /\ pc[c] = "after" /\ c \in Streamers /\ source # version[c]
  /\ Fault("disk")
  /\ Goto(c, "cleanup")
  /\ UNCHANGED <<absVars, source, files, locals, calls, started, lost>>

-----------------------------------------------------------------------------
(* The commit: _write_data_container, _write_parquet_file_entry              *)

WritePart(c) ==
  /\ pc[c] = "write"
  /\ part' = Set(part, c, data[c])
  /\ Goto(c, "describe")
  /\ UNCHANGED <<absVars, source, parquet, meta, metaPart, output, locals, calls, started, lost, faults>>

WriteMetadata(c) ==
  /\ pc[c] = "describe"
  /\ metaPart' = Set(metaPart, c, [kind |-> "ok", version |-> version[c], sha |-> part[c]])
  /\ Goto(c, "replace")
  /\ UNCHANGED <<absVars, source, parquet, meta, part, output, locals, calls, started, lost, faults>>

ReplaceParquet(c) ==
  /\ pc[c] = "replace"
  /\ parquet' = part[c]
  /\ part' = Set(part, c, Absent)
  /\ Goto(c, "commit")
  /\ UNCHANGED <<absVars, source, meta, metaPart, output, locals, calls, started, lost, faults>>

\* The metadata is authoritative: its replacement makes the entry.
ReplaceMeta(c) ==
  /\ pc[c] = "commit"
  /\ meta' = metaPart[c]
  /\ metaPart' = Set(metaPart, c, NoMeta)
  /\ Leave(c, "stored")
  /\ UNCHANGED <<absVars, source, parquet, part, output, side, version, expected, data, calls,
                 started, lost, faults>>

\* Seeded fault: a failed write is swallowed and the file is described as it is.
StoreFails_Swallowed(c) ==
  /\ pc[c] = "write"
  /\ Fault("disk")
  /\ part' = Set(part, c, Damaged)
  /\ Goto(c, "describe")
  /\ UNCHANGED <<absVars, source, parquet, meta, metaPart, output, locals, calls, started, lost>>

\* A write or a replace fails; what was written half stays until the cleanup.
StoreFails(c) ==
  /\ pc[c] \in {"write", "describe", "replace", "commit"}
  /\ Fault("disk")
  /\ CutShort(c)
  /\ Goto(c, "cleanup")
  /\ UNCHANGED <<absVars, source, parquet, meta, output, locals, calls, started, lost>>

\* Seeded fault: the metadata's part file is forgotten.
Cleanup_ParquetOnly(c) ==
  /\ pc[c] = "cleanup"
  /\ part' = Set(part, c, Absent)
  /\ Leave(c, "failed")
  /\ UNCHANGED <<absVars, source, parquet, meta, metaPart, output, side, version, expected, data,
                 calls, started, lost, faults>>

\* Seeded fault: the exception leaves the write lock behind.
Cleanup_KeepsLock(c) ==
  /\ pc[c] = "cleanup"
  /\ NoParts(c)
  /\ Goto(c, "failed")
  /\ outcome' = Set(outcome, c, "failed")
  /\ UNCHANGED <<absVars, source, parquet, meta, output, side, version, expected, data, calls,
                 started, lost, faults>>

\* except Exception: both part files go, the call raises.
Cleanup(c) ==
  /\ pc[c] = "cleanup"
  /\ NoParts(c)
  /\ Leave(c, "failed")
  /\ UNCHANGED <<absVars, source, parquet, meta, output, side, version, expected, data, calls,
                 started, lost, faults>>

\* A removal raises, and the second file is not tried: only FileNotFoundError is
\* ignored.  Where one file operation of a call has failed others may, so this
\* counts as no fault of its own.
CleanupFails(c) ==
  /\ pc[c] = "cleanup" /\ "disk" \in EntryFaults
  /\ part' \in {part, Set(part, c, Absent)}
  /\ Leave(c, "left")
  /\ UNCHANGED <<absVars, source, parquet, meta, metaPart, output, side, version, expected, data,
                 calls, started, lost, faults>>

-----------------------------------------------------------------------------
(* _copy_cached_parquet: after the lock was released                         *)

CopyParquet(c) ==
  /\ pc[c] = "copy"
  /\ part' = Set(part, c, parquet)
  /\ Goto(c, "export")
  /\ UNCHANGED <<absVars, source, parquet, meta, metaPart, output, locals, calls, started, lost, faults>>

Export(c) ==
  /\ pc[c] = "export"
  /\ output' = Set(output, c, part[c])
  /\ part' = Set(part, c, Absent)
  /\ Goto(c, "returned")
  /\ UNCHANGED <<absVars, source, parquet, meta, metaPart, locals, calls, started, lost, faults>>

\* The copy or the replace fails; the removal of the part file may, too.
ExportFails(c) ==
  /\ pc[c] \in {"copy", "export"}
  /\ Fault("disk")
  /\ Goto(c, "failed")
  /\ \/ NoParts(c) /\ outcome' = Set(outcome, c, "failed")
     \/ CutShort(c) /\ outcome' = Set(outcome, c, "left")
  /\ UNCHANGED <<absVars, source, parquet, meta, output, side, version, expected, data, calls,
                 started, lost>>

-----------------------------------------------------------------------------
(* The environment                                                           *)

SourceChanges ==
  /\ \E v \in Value : (v > source \/ (Revert /\ v # source)) /\ source' = v
  /\ UNCHANGED <<absVars, files, pc, locals, calls, started, lost, faults>>

\* A file on the share is damaged, in a way its reader detects; a copy does not
\* read what it copies.
Damage ==
  /\ \/ Fault("parquet") /\ parquet # Absent /\ parquet' = Damaged /\ UNCHANGED meta
     \/ /\ \E k \in {"json", "bytes"} : Fault(k) /\ meta' = [NoMeta EXCEPT !.kind = k]
        /\ meta.kind # "absent" /\ UNCHANGED parquet
  /\ UNCHANGED <<absVars, source, part, metaPart, output, pc, locals, calls, started, lost>>

EntryCrash(c) ==
  /\ pc[c] \notin {"idle", "returned", "failed", "dead"}
  /\ Fault("crash")
  /\ AbsDie(c)
  /\ Goto(c, "dead")
  /\ UNCHANGED <<source, files, locals, calls, started, lost>>

\* A KeyboardInterrupt or SystemExit passes every "except Exception": the lock goes,
\* the part files stay under names that nobody will use again.  (For one that comes
\* while the call waits for a lock, see MkdirLock.)
EntryInterrupted(c) ==
  /\ pc[c] \in (Under \ {"unlock"}) \union Alone \union {"copy", "export"}
  /\ Fault("interrupt")
  /\ CutShort(c)
  /\ Goto(c, IF pc[c] \in {"copy", "export"} THEN "failed" ELSE "unlock")
  /\ outcome' = Set(outcome, c, "left")
  /\ UNCHANGED <<absVars, source, parquet, meta, output, side, version, expected, data, calls,
                 started, lost>>

BreakIntent ==
  /\ AbsBreak
  /\ UNCHANGED <<source, files, pc, locals, calls, started, lost, faults>>

\* The lock directory of a running client is removed by someone else.
LoseLock(c) ==
  /\ c \notin dead /\ (c \in reading \/ intent = c)
  /\ Fault("lock")
  /\ reading' = reading \ {c} /\ writing' = writing \ {c}
  /\ intent' = IF intent = c THEN NoOne ELSE intent
  /\ lost' = TRUE
  /\ UNCHANGED <<dead, source, files, pc, locals, calls, started>>

CallStep(c) ==
  ReadVersion(c) \/ LockRead(c) \/ Announce(c) \/ LockWrite(c) \/ Unlock(c) \/ Retract(c)
  \/ CheckMeta(c) \/ CheckHash(c) \/ ReadParquet(c) \/ VersionBefore(c) \/ Load(c)
  \/ VersionAfter(c) \/ WritePart(c) \/ WriteMetadata(c) \/ ReplaceParquet(c)
  \/ ReplaceMeta(c) \/ Cleanup(c) \/ CopyParquet(c) \/ Export(c)

FaultStep(c) ==
  ReadVersionFails(c) \/ LoadFails(c) \/ RetryFails(c) \/ StoreFails(c) \/ CleanupFails(c)
  \/ ExportFails(c) \/ EntryCrash(c) \/ EntryInterrupted(c) \/ LoseLock(c)

EntryNext ==
  \/ SourceChanges \/ Damage \/ BreakIntent
  \/ \E c \in Client : Call(c) \/ CallStep(c) \/ FaultStep(c)

EntrySpec == EntryInit /\ [][EntryNext]_vars

-----------------------------------------------------------------------------
(* Properties                                                                *)

\* An entry that a call on version v would accept.
Valid(v) ==
  parquet # Absent /\ meta.kind = "ok" /\ meta.version = v /\ meta.sha = parquet

\* The entry never lies: bytes that pass the checks against the metadata are the
\* source's content at the version the metadata states.  No crash, failed step,
\* damage or lost lock between the two replaces may change that (lines 695-700),
\* nor may a source that changes during the load: "Cold loads re-read the source
\* version before and after loading and retry if the source changes during the
\* read" (README.md:116).
EntryHonest == \A v \in Value : Valid(v) => parquet = v

Result(c) == IF c \in Streamers THEN output[c] ELSE data[c]

Running(c) == pc[c] \notin {"idle", "returned", "failed", "dead"}

\* What a call returns was the source's content at some moment of the call: the
\* two version reads, the validation in three file accesses and the export after
\* the release never let an older entry through, as long as locks are kept.  (An
\* export may copy a file that was damaged after it passed the checks.)
ReturnedIsFresh ==
  \A c \in Client : pc[c] = "returned" /\ ~lost =>
    \/ Result(c) \in started[c] .. source
    \/ Result(c) = Damaged /\ c \in Streamers

\* A call that returns, or raises because something failed, leaves no part file behind,
\* and none is there when a load begins, the first or a later one, or an export: "Cleans
\* up partial cache files on write failure" (README.md:91).  Excepted are calls that are
\* killed, that are interrupted, since no "except Exception" sees that, and those whose
\* removals fail as well (_remove_file, lines 1116-1121); they never return.
NoLitter ==
  \A c \in Client : pc[c] \in {"before", "copy", "returned", "failed"} =>
    \/ part[c] = Absent /\ metaPart[c] = NoMeta
    \/ pc[c] = "failed" /\ outcome[c] = "left"

\* Clients that missed together load once: whoever gets the write lock later
\* finds the entry valid and leaves it alone (lines 187-196, 250-259).
ValidEntriesAreKept ==
  [][\A c \in Client : ReplaceParquet(c) /\ ~lost => ~Valid(version[c])]_vars

\* Where a call takes itself for a holder of the lock.
UnderRead(c)  == pc[c] \in Under /\ side[c] = "read"
UnderWrite(c) == pc[c] \in Alone \/ (pc[c] \in Under /\ side[c] = "write")
Intending(c)  == UnderWrite(c) \/ pc[c] \in {"w_lock", "retract"}

\* No call keeps the lock behind its section, on any path out of it: who is taken for a
\* reader, a writer or a coming writer is at such a place, or is dead (the finally blocks at
\* lines 182, 217, 245 and 290).  And none is in a section without the lock, or goes to the
\* write lock without its intent, and no reader and writer meet, as long as no running
\* client has lost its lock: the two sides, failures, retries and interrupts never get
\* out of step with it.
CallsKeepToTheLock ==
  /\ \A c \in reading : UnderRead(c)
  /\ \A c \in writing : UnderWrite(c)
  /\ intent = NoOne \/ intent \in dead \/ Intending(intent)
  /\ ~lost =>
       /\ \A c \in Client : UnderRead(c) => c \in reading
       /\ \A c \in Client : UnderWrite(c) => c \in writing
       /\ \A c \in Client : Intending(c) => intent = c
       /\ reading = {} \/ writing = {}

\* What its callers see of the entry.
Stored == IF \E v \in Value : Valid(v) THEN {parquet} ELSE {}
Phase  == [c \in Client |-> IF Running(c) THEN "called" ELSE pc[c]]
Answer == [c \in Client |-> IF pc[c] = "returned" THEN Result(c) ELSE Absent]

Promised == INSTANCE CachedSource WITH
  Exporters <- Streamers, stored <- Stored, phase <- Phase, since <- started, answer <- Answer

\* Behind the locks, files and versions is a source that is called: whatever fails, crashes
\* or changes meanwhile, a call ends with content of its own time or by raising, a returned
\* answer stays what it is, and the entry goes from one whole content to a newer one, by a
\* running call that has seen it (_run_cached and _run_cached_parquet, lines 159-292); as
\* long as no running client has lost its lock.
CallsSeeTheSource == [][lost' \/ Promised!PromiseNext]_(Promised!promiseVars)

\* The next step of c has to wait for another client.
Waits(c) ==
  \/ pc[c] \in {"r_lock", "announce"} /\ (intent # NoOne \/ c \in dead \union reading \union writing)
  \/ pc[c] = "w_lock" /\ (reading # {} \/ (intent = c /\ c \in dead \union writing))
  \/ pc[c] = "retract" /\ intent = c /\ c \in dead \union writing
  \/ pc[c] = "unlock" /\ side[c] = "read" /\ outcome[c] = "stored"

\* Calls never all wait for one another, or for a lock that nobody will give back: one of
\* them goes on, or a dead client's intent is there to break (lines 170-187, 233-250: the
\* read lock is given back before the write lock is asked for).
SomeCallGoesOn ==
  (\E c \in Client : Running(c)) =>
    intent \in dead \/ \E c \in Client : Running(c) /\ ~Waits(c)

\* Calls go on, and the intent of a crashed client is broken in the end.
EntryFairness ==
  WF_vars(BreakIntent) /\ \A c \in Client : WF_vars(CallStep(c))

EntryLiveSpec == EntrySpec /\ EntryFairness

\* Every call ends, whatever fails or crashes around it: no path keeps a lock, and
\* load retries end when the source rests (the finally blocks at
\* lines 182, 217, 245 and 290; _load_stable).
CallsEnd ==
  \A c \in Client : pc[c] = "version" ~> pc[c] \in {"returned", "failed", "dead"}
=============================================================================
