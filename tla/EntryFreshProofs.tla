-------------------------- MODULE EntryFreshProofs --------------------------
(* Theorems about what the calls of CacheEntry return and what they replace, *)
(* for any number of clients and any faults, of a source that never returns  *)
(* to an earlier value.                                                      *)
EXTENDS EntryLockProofs

USE DEF Value, Goto, Set

-----------------------------------------------------------------------------
(* What a call knows                                                         *)

\* A call's version is the source's of some moment of the call, and so is what it
\* loads; it describes and commits that.  Nothing on the share is of the future.
KnowsInv ==
  /\ meta.kind = "ok" => meta.version \in 0 .. source
  /\ \A c \in Client :
       /\ started[c] \in 0 .. source
       /\ metaPart[c].kind = "ok" => metaPart[c].version \in 0 .. source
       /\ pc[c] \in {"r_lock", "v_meta", "v_hash", "v_read"} \union (Alone \ {"w_version", "cleanup"})
            => version[c] \in started[c] .. source
       /\ pc[c] \in {"v_hash", "v_read"} => expected[c] = version[c]
       /\ pc[c] \in {"describe", "replace", "commit"} /\ c \notin Streamers => data[c] = version[c]
       /\ pc[c] = "replace" => part[c] = version[c]
       /\ pc[c] \in {"copy", "export"} => c \in Streamers

\* Between two looks at the entry under one lock nobody else replaces its files.
StaysInv ==
  ~lost => \A c \in Client :
    /\ pc[c] = "v_read" => parquet \in {expected[c], Damaged}
    /\ pc[c] = "commit" => parquet \in {version[c], Damaged}

-----------------------------------------------------------------------------
(* What a call returns                                                       *)

Got(c) == pc[c] \in {"unlock", "retract"} /\ outcome[c] \in {"hit", "stored"}

InTime(c) == started[c] .. source
Bytes(c)  == InTime(c) \union {Damaged}

Loaded == {"load", "after", "write", "describe", "replace"}

\* After the release the entry may be replaced by whoever loads; but who loads then has
\* read its version since.
ReturnInv ==
  ~lost => \A c \in Client :
    /\ c \notin Streamers /\ (Got(c) \/ pc[c] = "returned") => data[c] \in InTime(c)
    /\ c \in Streamers /\ (Got(c) \/ pc[c] = "copy") =>
         parquet \in Bytes(c) /\ \A d \in Client : pc[d] \in Loaded => version[d] >= started[c]
    /\ c \in Streamers /\ pc[c] = "export" => part[c] \in Bytes(c)
    /\ c \in Streamers /\ pc[c] = "returned" => output[c] \in Bytes(c)

-----------------------------------------------------------------------------
(* What a call replaces                                                      *)

\* Whoever loads has found, under the write lock, that the entry is not of the
\* source's version then, and so of no later one.
RejectedInv ==
  ~lost => \A c \in Client :
    /\ pc[c] \in {"v_meta", "v_hash", "v_read"} /\ side[c] = "write" /\ meta.kind = "ok" =>
         meta.version <= version[c] /\ (pc[c] # "v_meta" => meta.version = version[c])
    /\ pc[c] \in Loaded \union {"before"} => \A v \in Value : Valid(v) => v < version[c]

FreshInv == KnowsInv /\ StaysInv /\ ReturnInv /\ RejectedInv

LEMMA FreshInit == EntryInit => FreshInv
  BY EntryAssumption DEF EntryInit, FreshInv, KnowsInv, StaysInv, ReturnInv, RejectedInv, NoMeta, Under, Alone,
                         Got, Loaded, Valid

LEMMA KnowsStep ==
  ASSUME ~Revert PROVE EntryInv /\ HonestInv /\ KnowsInv /\ [EntryNext]_vars => KnowsInv'
<1> SUFFICES ASSUME EntryInv, HonestInv, KnowsInv, [EntryNext]_vars PROVE KnowsInv'
  OBVIOUS
<1> USE EntryAssumption
<1> USE DEF EntryInv, EntryTypeOK, FlowInv, MetaType, Under, Alone, Outside, absVars, files, locals, HonestInv, KnowsInv
<1>1. CASE SourceChanges
  BY <1>1 DEF SourceChanges
<1>2. CASE Damage
  BY <1>2 DEF Damage, Fault, NoMeta
<1>3. CASE BreakIntent
  BY <1>3 DEF BreakIntent, AbsBreak
<1>4. ASSUME NEW c \in Client, Call(c) PROVE KnowsInv'
  BY <1>4, NoMetaType DEF Call, NoParts
<1>5. ASSUME NEW c \in Client, ReadVersion(c) PROVE KnowsInv'
  BY <1>5 DEF ReadVersion
<1>6. ASSUME NEW c \in Client, ReadVersionFails(c) PROVE KnowsInv'
  BY <1>6 DEF ReadVersionFails, Fault
<1>7. ASSUME NEW c \in Client, LockRead(c) PROVE KnowsInv'
  BY <1>7 DEF LockRead, AbsBeginRead
<1>8. ASSUME NEW c \in Client, Announce(c) PROVE KnowsInv'
  BY <1>8 DEF Announce, AbsAnnounce
<1>9. ASSUME NEW c \in Client, LockWrite(c) PROVE KnowsInv'
  BY <1>9 DEF LockWrite, AbsBeginWrite
<1>10. ASSUME NEW c \in Client, Unlock(c) PROVE KnowsInv'
  BY <1>10 DEF Unlock, AbsEndRead, AbsEndWrite
<1>11. ASSUME NEW c \in Client, Retract(c) PROVE KnowsInv'
  BY <1>11 DEF Retract, AbsRetract
<1>12. ASSUME NEW c \in Client, CheckMeta(c) PROVE KnowsInv'
  BY <1>12 DEF CheckMeta, Reject, Leave
<1>13. ASSUME NEW c \in Client, CheckHash(c) PROVE KnowsInv'
  BY <1>13 DEF CheckHash, Reject, Leave
<1>14. ASSUME NEW c \in Client, ReadParquet(c) PROVE KnowsInv'
  BY <1>14 DEF ReadParquet, Reject, Leave
<1>15. ASSUME NEW c \in Client, VersionBefore(c) PROVE KnowsInv'
  BY <1>15 DEF VersionBefore
<1>16. ASSUME NEW c \in Client, Load(c) PROVE KnowsInv'
  BY <1>16 DEF Load
<1>17. ASSUME NEW c \in Client, VersionAfter(c) PROVE KnowsInv'
  <2>1. CASE source = version[c]
    <3>1. pc' = [pc EXCEPT ![c] = IF c \in Streamers THEN "describe" ELSE "write"]
      BY <1>17, <2>1 DEF VersionAfter
    <3>2. UNCHANGED <<source, meta, metaPart, part, version, data, expected, started>>
      BY <1>17, <2>1 DEF VersionAfter
    <3> QED
      BY <1>17, <3>1, <3>2 DEF VersionAfter
  <2>2. CASE source # version[c]
    <3>1. metaPart' = [metaPart EXCEPT ![c] = NoMeta] /\ pc' = [pc EXCEPT ![c] = "before"]
      BY <1>17, <2>2 DEF VersionAfter, NoParts
    <3>2. UNCHANGED <<source, meta, version, data, expected, started>>
      BY <1>17 DEF VersionAfter
    <3>3. \A d \in Client : metaPart'[d].kind = "ok" => metaPart'[d].version \in 0 .. source
      BY <3>1, NoMetaType
    <3>4. \A d \in Client : pc'[d] # "before" => pc'[d] = pc[d] /\ (part'[d] = part[d] \/ d = c)
      BY <1>17, <2>2, <3>1 DEF VersionAfter, NoParts
    <3>5. version[c] \in started[c] .. source
      BY <1>17 DEF VersionAfter
    <3> QED
      BY <3>1, <3>2, <3>3, <3>4, <3>5
  <2> QED
    BY <2>1, <2>2
<1>18. ASSUME NEW c \in Client, LoadFails(c) PROVE KnowsInv'
  BY <1>18 DEF LoadFails, CutShort, Fault
<1>19. ASSUME NEW c \in Client, WritePart(c) PROVE KnowsInv'
  BY <1>19 DEF WritePart
<1>20. ASSUME NEW c \in Client, WriteMetadata(c) PROVE KnowsInv'
  BY <1>20 DEF WriteMetadata
<1>21. ASSUME NEW c \in Client, ReplaceParquet(c) PROVE KnowsInv'
  BY <1>21 DEF ReplaceParquet
<1>22. ASSUME NEW c \in Client, ReplaceMeta(c) PROVE KnowsInv'
  BY <1>22, NoMetaType DEF ReplaceMeta, Leave
<1>23. ASSUME NEW c \in Client, StoreFails(c) PROVE KnowsInv'
  BY <1>23 DEF StoreFails, CutShort, Fault
<1>24. ASSUME NEW c \in Client, Cleanup(c) PROVE KnowsInv'
  BY <1>24, NoMetaType DEF Cleanup, NoParts, Leave
<1>25. ASSUME NEW c \in Client, CopyParquet(c) PROVE KnowsInv'
  BY <1>25 DEF CopyParquet
<1>26. ASSUME NEW c \in Client, Export(c) PROVE KnowsInv'
  BY <1>26 DEF Export
<1>27. ASSUME NEW c \in Client, ExportFails(c) PROVE KnowsInv'
  BY <1>27, NoMetaType DEF ExportFails, NoParts, CutShort, Fault
<1>28. ASSUME NEW c \in Client, EntryCrash(c) PROVE KnowsInv'
  BY <1>28 DEF EntryCrash, Fault, AbsDie
<1>29. ASSUME NEW c \in Client, EntryInterrupted(c) PROVE KnowsInv'
  BY <1>29, NoMetaType DEF EntryInterrupted, CutShort, Fault
<1>30. ASSUME NEW c \in Client, LoseLock(c) PROVE KnowsInv'
  BY <1>30 DEF LoseLock, Fault
<1>32. ASSUME NEW c \in Client, RetryFails(c) PROVE KnowsInv'
  BY <1>32 DEF RetryFails, Fault
<1>33. ASSUME NEW c \in Client, CleanupFails(c) PROVE KnowsInv'
  BY <1>33 DEF CleanupFails, Leave
<1>31. CASE UNCHANGED vars
  BY <1>31 DEF vars
<1> QED
  BY <1>1, <1>2, <1>3, <1>4, <1>5, <1>6, <1>7, <1>8, <1>9, <1>10, <1>11, <1>12, <1>13,
     <1>14, <1>15, <1>16, <1>17, <1>18, <1>19, <1>20, <1>21, <1>22, <1>23, <1>24, <1>25,
     <1>26, <1>27, <1>28, <1>29, <1>30, <1>31, <1>32, <1>33
  DEF EntryNext, CallStep, FaultStep

LEMMA StaysStep ==
  ASSUME ~Revert PROVE EntryInv /\ LockUseInv /\ HonestInv /\ KnowsInv /\ StaysInv /\ [EntryNext]_vars => StaysInv'
<1> SUFFICES ASSUME EntryInv, LockUseInv, HonestInv, KnowsInv, StaysInv, [EntryNext]_vars PROVE StaysInv'
  OBVIOUS
<1> USE EntryAssumption
<1> USE DEF EntryInv, EntryTypeOK, FlowInv, MetaType, Under, Alone, Outside, absVars, files, locals, LockUseInv, PathInv, DeadInv, CallsKeepToTheLock, UnderRead, UnderWrite, Intending, HonestInv, KnowsInv, StaysInv
<1>1. CASE SourceChanges
  BY <1>1 DEF SourceChanges
<1>2. CASE Damage
  BY <1>2 DEF Damage, Fault, NoMeta
<1>3. CASE BreakIntent
  BY <1>3 DEF BreakIntent, AbsBreak
<1>4. ASSUME NEW c \in Client, Call(c) PROVE StaysInv'
  BY <1>4 DEF Call, NoParts
<1>5. ASSUME NEW c \in Client, ReadVersion(c) PROVE StaysInv'
  BY <1>5 DEF ReadVersion
<1>6. ASSUME NEW c \in Client, ReadVersionFails(c) PROVE StaysInv'
  BY <1>6 DEF ReadVersionFails, Fault
<1>7. ASSUME NEW c \in Client, LockRead(c) PROVE StaysInv'
  BY <1>7 DEF LockRead, AbsBeginRead
<1>8. ASSUME NEW c \in Client, Announce(c) PROVE StaysInv'
  BY <1>8 DEF Announce, AbsAnnounce
<1>9. ASSUME NEW c \in Client, LockWrite(c) PROVE StaysInv'
  BY <1>9 DEF LockWrite, AbsBeginWrite
<1>10. ASSUME NEW c \in Client, Unlock(c) PROVE StaysInv'
  BY <1>10 DEF Unlock, AbsEndRead, AbsEndWrite
<1>11. ASSUME NEW c \in Client, Retract(c) PROVE StaysInv'
  BY <1>11 DEF Retract, AbsRetract
<1>12. ASSUME NEW c \in Client, CheckMeta(c) PROVE StaysInv'
  BY <1>12 DEF CheckMeta, Reject, Leave
<1>13. ASSUME NEW c \in Client, CheckHash(c) PROVE StaysInv'
  BY <1>13 DEF CheckHash, Reject, Leave
<1>14. ASSUME NEW c \in Client, ReadParquet(c) PROVE StaysInv'
  BY <1>14 DEF ReadParquet, Reject, Leave
<1>15. ASSUME NEW c \in Client, VersionBefore(c) PROVE StaysInv'
  BY <1>15 DEF VersionBefore
<1>16. ASSUME NEW c \in Client, Load(c) PROVE StaysInv'
  BY <1>16 DEF Load
<1>17. ASSUME NEW c \in Client, VersionAfter(c) PROVE StaysInv'
  BY <1>17 DEF VersionAfter, NoParts
<1>18. ASSUME NEW c \in Client, LoadFails(c) PROVE StaysInv'
  BY <1>18 DEF LoadFails, CutShort, Fault
<1>19. ASSUME NEW c \in Client, WritePart(c) PROVE StaysInv'
  BY <1>19 DEF WritePart
<1>20. ASSUME NEW c \in Client, WriteMetadata(c) PROVE StaysInv'
  BY <1>20 DEF WriteMetadata
<1>21. ASSUME NEW c \in Client, ReplaceParquet(c) PROVE StaysInv'
  BY <1>21 DEF ReplaceParquet
<1>22. ASSUME NEW c \in Client, ReplaceMeta(c) PROVE StaysInv'
  BY <1>22 DEF ReplaceMeta, Leave
<1>23. ASSUME NEW c \in Client, StoreFails(c) PROVE StaysInv'
  BY <1>23 DEF StoreFails, CutShort, Fault
<1>24. ASSUME NEW c \in Client, Cleanup(c) PROVE StaysInv'
  BY <1>24 DEF Cleanup, NoParts, Leave
<1>25. ASSUME NEW c \in Client, CopyParquet(c) PROVE StaysInv'
  BY <1>25 DEF CopyParquet
<1>26. ASSUME NEW c \in Client, Export(c) PROVE StaysInv'
  BY <1>26 DEF Export
<1>27. ASSUME NEW c \in Client, ExportFails(c) PROVE StaysInv'
  BY <1>27 DEF ExportFails, NoParts, CutShort, Fault
<1>28. ASSUME NEW c \in Client, EntryCrash(c) PROVE StaysInv'
  BY <1>28 DEF EntryCrash, Fault, AbsDie
<1>29. ASSUME NEW c \in Client, EntryInterrupted(c) PROVE StaysInv'
  BY <1>29 DEF EntryInterrupted, CutShort, Fault
<1>30. ASSUME NEW c \in Client, LoseLock(c) PROVE StaysInv'
  BY <1>30 DEF LoseLock, Fault
<1>32. ASSUME NEW c \in Client, RetryFails(c) PROVE StaysInv'
  BY <1>32 DEF RetryFails, Fault
<1>33. ASSUME NEW c \in Client, CleanupFails(c) PROVE StaysInv'
  BY <1>33 DEF CleanupFails, Leave
<1>31. CASE UNCHANGED vars
  BY <1>31 DEF vars
<1> QED
  BY <1>1, <1>2, <1>3, <1>4, <1>5, <1>6, <1>7, <1>8, <1>9, <1>10, <1>11, <1>12, <1>13,
     <1>14, <1>15, <1>16, <1>17, <1>18, <1>19, <1>20, <1>21, <1>22, <1>23, <1>24, <1>25,
     <1>26, <1>27, <1>28, <1>29, <1>30, <1>31, <1>32, <1>33
  DEF EntryNext, CallStep, FaultStep

LEMMA ReturnStep ==
  ASSUME ~Revert PROVE EntryInv /\ LockUseInv /\ HonestInv /\ FreshInv /\ [EntryNext]_vars => ReturnInv'
<1> SUFFICES ASSUME EntryInv, LockUseInv, HonestInv, FreshInv, [EntryNext]_vars PROVE ReturnInv'
  OBVIOUS
<1> USE EntryAssumption
<1> USE DEF EntryInv, EntryTypeOK, FlowInv, MetaType, Under, Alone, Outside, absVars, files, locals, LockUseInv, PathInv, DeadInv, CallsKeepToTheLock, UnderRead, UnderWrite, Intending, HonestInv, FreshInv, KnowsInv, StaysInv, ReturnInv, Got, InTime, Bytes, Loaded
<1>1. CASE SourceChanges
  BY <1>1 DEF SourceChanges
<1>2. CASE Damage
  BY <1>2 DEF Damage, Fault, NoMeta
<1>3. CASE BreakIntent
  BY <1>3 DEF BreakIntent, AbsBreak
<1>4. ASSUME NEW c \in Client, Call(c) PROVE ReturnInv'
  BY <1>4 DEF Call, NoParts
<1>5. ASSUME NEW c \in Client, ReadVersion(c) PROVE ReturnInv'
  BY <1>5 DEF ReadVersion
<1>6. ASSUME NEW c \in Client, ReadVersionFails(c) PROVE ReturnInv'
  BY <1>6 DEF ReadVersionFails, Fault
<1>7. ASSUME NEW c \in Client, LockRead(c) PROVE ReturnInv'
  BY <1>7 DEF LockRead, AbsBeginRead
<1>8. ASSUME NEW c \in Client, Announce(c) PROVE ReturnInv'
  BY <1>8 DEF Announce, AbsAnnounce
<1>9. ASSUME NEW c \in Client, LockWrite(c) PROVE ReturnInv'
  BY <1>9 DEF LockWrite, AbsBeginWrite
<1>10. ASSUME NEW c \in Client, Unlock(c) PROVE ReturnInv'
  BY <1>10 DEF Unlock, AbsEndRead, AbsEndWrite
<1>11. ASSUME NEW c \in Client, Retract(c) PROVE ReturnInv'
  BY <1>11 DEF Retract, Raised, AbsRetract
<1>12. ASSUME NEW c \in Client, CheckMeta(c) PROVE ReturnInv'
  BY <1>12 DEF CheckMeta, Reject, Leave
<1>13. ASSUME NEW c \in Client, CheckHash(c) PROVE ReturnInv'
  BY <1>13 DEF CheckHash, Reject, Leave
<1>14. ASSUME NEW c \in Client, ReadParquet(c) PROVE ReturnInv'
  BY <1>14 DEF ReadParquet, Reject, Leave
<1>15. ASSUME NEW c \in Client, VersionBefore(c) PROVE ReturnInv'
  BY <1>15 DEF VersionBefore
<1>16. ASSUME NEW c \in Client, Load(c) PROVE ReturnInv'
  BY <1>16 DEF Load
<1>17. ASSUME NEW c \in Client, VersionAfter(c) PROVE ReturnInv'
  BY <1>17 DEF VersionAfter, NoParts
<1>18. ASSUME NEW c \in Client, LoadFails(c) PROVE ReturnInv'
  BY <1>18 DEF LoadFails, CutShort, Fault
<1>19. ASSUME NEW c \in Client, WritePart(c) PROVE ReturnInv'
  BY <1>19 DEF WritePart
<1>20. ASSUME NEW c \in Client, WriteMetadata(c) PROVE ReturnInv'
  BY <1>20 DEF WriteMetadata
<1>21. ASSUME NEW c \in Client, ReplaceParquet(c) PROVE ReturnInv'
  BY <1>21 DEF ReplaceParquet
<1>22. ASSUME NEW c \in Client, ReplaceMeta(c) PROVE ReturnInv'
  BY <1>22 DEF ReplaceMeta, Leave
<1>23. ASSUME NEW c \in Client, StoreFails(c) PROVE ReturnInv'
  BY <1>23 DEF StoreFails, CutShort, Fault
<1>24. ASSUME NEW c \in Client, Cleanup(c) PROVE ReturnInv'
  BY <1>24 DEF Cleanup, NoParts, Leave
<1>25. ASSUME NEW c \in Client, CopyParquet(c) PROVE ReturnInv'
  BY <1>25 DEF CopyParquet
<1>26. ASSUME NEW c \in Client, Export(c) PROVE ReturnInv'
  <2>1. /\ pc[c] = "export" /\ pc' = [pc EXCEPT ![c] = "returned"]
        /\ output' = [output EXCEPT ![c] = part[c]] /\ part' = [part EXCEPT ![c] = Absent]
        /\ UNCHANGED <<lost, outcome, data, parquet, started, source, version>>
    BY <1>26 DEF Export
  <2>2. c \in Streamers
    BY <2>1
  <2> QED
    BY <2>1, <2>2
<1>27. ASSUME NEW c \in Client, ExportFails(c) PROVE ReturnInv'
  BY <1>27 DEF ExportFails, NoParts, CutShort, Fault
<1>28. ASSUME NEW c \in Client, EntryCrash(c) PROVE ReturnInv'
  BY <1>28 DEF EntryCrash, Fault, AbsDie
<1>29. ASSUME NEW c \in Client, EntryInterrupted(c) PROVE ReturnInv'
  BY <1>29 DEF EntryInterrupted, CutShort, Fault
<1>30. ASSUME NEW c \in Client, LoseLock(c) PROVE ReturnInv'
  BY <1>30 DEF LoseLock, Fault
<1>32. ASSUME NEW c \in Client, RetryFails(c) PROVE ReturnInv'
  BY <1>32 DEF RetryFails, Fault
<1>33. ASSUME NEW c \in Client, CleanupFails(c) PROVE ReturnInv'
  BY <1>33 DEF CleanupFails, Leave
<1>31. CASE UNCHANGED vars
  BY <1>31 DEF vars
<1> QED
  BY <1>1, <1>2, <1>3, <1>4, <1>5, <1>6, <1>7, <1>8, <1>9, <1>10, <1>11, <1>12, <1>13,
     <1>14, <1>15, <1>16, <1>17, <1>18, <1>19, <1>20, <1>21, <1>22, <1>23, <1>24, <1>25,
     <1>26, <1>27, <1>28, <1>29, <1>30, <1>31, <1>32, <1>33
  DEF EntryNext, CallStep, FaultStep

LEMMA RejectedStep ==
  ASSUME ~Revert PROVE EntryInv /\ LockUseInv /\ HonestInv /\ FreshInv /\ [EntryNext]_vars => RejectedInv'
<1> SUFFICES ASSUME EntryInv, LockUseInv, HonestInv, FreshInv, [EntryNext]_vars PROVE RejectedInv'
  OBVIOUS
<1> USE EntryAssumption
<1> USE DEF EntryInv, EntryTypeOK, FlowInv, MetaType, Under, Alone, Outside, absVars, files, locals, LockUseInv, PathInv, DeadInv, CallsKeepToTheLock, UnderRead, UnderWrite, Intending, HonestInv, FreshInv, KnowsInv, StaysInv, RejectedInv, Loaded, Valid
<1>1. CASE SourceChanges
  BY <1>1 DEF SourceChanges
<1>2. CASE Damage
  BY <1>2 DEF Damage, Fault, NoMeta
<1>3. CASE BreakIntent
  BY <1>3 DEF BreakIntent, AbsBreak
<1>4. ASSUME NEW c \in Client, Call(c) PROVE RejectedInv'
  BY <1>4 DEF Call, NoParts
<1>5. ASSUME NEW c \in Client, ReadVersion(c) PROVE RejectedInv'
  BY <1>5 DEF ReadVersion
<1>6. ASSUME NEW c \in Client, ReadVersionFails(c) PROVE RejectedInv'
  BY <1>6 DEF ReadVersionFails, Fault
<1>7. ASSUME NEW c \in Client, LockRead(c) PROVE RejectedInv'
  BY <1>7 DEF LockRead, AbsBeginRead
<1>8. ASSUME NEW c \in Client, Announce(c) PROVE RejectedInv'
  BY <1>8 DEF Announce, AbsAnnounce
<1>9. ASSUME NEW c \in Client, LockWrite(c) PROVE RejectedInv'
  BY <1>9 DEF LockWrite, AbsBeginWrite
<1>10. ASSUME NEW c \in Client, Unlock(c) PROVE RejectedInv'
  BY <1>10 DEF Unlock, AbsEndRead, AbsEndWrite
<1>11. ASSUME NEW c \in Client, Retract(c) PROVE RejectedInv'
  BY <1>11 DEF Retract, AbsRetract
<1>12. ASSUME NEW c \in Client, CheckMeta(c) PROVE RejectedInv'
  <2>1. pc[c] = "v_meta" /\ UNCHANGED <<parquet, meta, side, version, lost>>
    BY <1>12 DEF CheckMeta
  <2>2. \/ pc' = [pc EXCEPT ![c] = "unlock"]
        \/ pc' = [pc EXCEPT ![c] = "v_hash"] /\ meta.version = version[c]
        \/ pc' = [pc EXCEPT ![c] = "before"] /\ side[c] = "write"
             /\ (parquet = Absent \/ meta.kind # "ok" \/ meta.version # version[c])
    BY <1>12 DEF CheckMeta, Reject, Leave
  <2>3. CASE pc' = [pc EXCEPT ![c] = "unlock"]
    BY <2>1, <2>3
  <2>4. CASE pc' = [pc EXCEPT ![c] = "v_hash"] /\ meta.version = version[c]
    BY <2>1, <2>4
  <2>5. CASE /\ pc' = [pc EXCEPT ![c] = "before"] /\ side[c] = "write"
             /\ parquet = Absent \/ meta.kind # "ok" \/ meta.version # version[c]
    BY <2>1, <2>5
  <2> QED
    BY <2>2, <2>3, <2>4, <2>5
<1>13. ASSUME NEW c \in Client, CheckHash(c) PROVE RejectedInv'
  BY <1>13 DEF CheckHash, Reject, Leave
<1>14. ASSUME NEW c \in Client, ReadParquet(c) PROVE RejectedInv'
  BY <1>14 DEF ReadParquet, Reject, Leave
<1>15. ASSUME NEW c \in Client, VersionBefore(c) PROVE RejectedInv'
  BY <1>15 DEF VersionBefore
<1>16. ASSUME NEW c \in Client, Load(c) PROVE RejectedInv'
  BY <1>16 DEF Load
<1>17. ASSUME NEW c \in Client, VersionAfter(c) PROVE RejectedInv'
  BY <1>17 DEF VersionAfter, NoParts
<1>18. ASSUME NEW c \in Client, LoadFails(c) PROVE RejectedInv'
  BY <1>18 DEF LoadFails, CutShort, Fault
<1>19. ASSUME NEW c \in Client, WritePart(c) PROVE RejectedInv'
  BY <1>19 DEF WritePart
<1>20. ASSUME NEW c \in Client, WriteMetadata(c) PROVE RejectedInv'
  BY <1>20 DEF WriteMetadata
<1>21. ASSUME NEW c \in Client, ReplaceParquet(c) PROVE RejectedInv'
  BY <1>21 DEF ReplaceParquet
<1>22. ASSUME NEW c \in Client, ReplaceMeta(c) PROVE RejectedInv'
  BY <1>22 DEF ReplaceMeta, Leave
<1>23. ASSUME NEW c \in Client, StoreFails(c) PROVE RejectedInv'
  BY <1>23 DEF StoreFails, CutShort, Fault
<1>24. ASSUME NEW c \in Client, Cleanup(c) PROVE RejectedInv'
  BY <1>24 DEF Cleanup, NoParts, Leave
<1>25. ASSUME NEW c \in Client, CopyParquet(c) PROVE RejectedInv'
  BY <1>25 DEF CopyParquet
<1>26. ASSUME NEW c \in Client, Export(c) PROVE RejectedInv'
  BY <1>26 DEF Export
<1>27. ASSUME NEW c \in Client, ExportFails(c) PROVE RejectedInv'
  BY <1>27 DEF ExportFails, NoParts, CutShort, Fault
<1>28. ASSUME NEW c \in Client, EntryCrash(c) PROVE RejectedInv'
  BY <1>28 DEF EntryCrash, Fault, AbsDie
<1>29. ASSUME NEW c \in Client, EntryInterrupted(c) PROVE RejectedInv'
  BY <1>29 DEF EntryInterrupted, CutShort, Fault
<1>30. ASSUME NEW c \in Client, LoseLock(c) PROVE RejectedInv'
  BY <1>30 DEF LoseLock, Fault
<1>32. ASSUME NEW c \in Client, RetryFails(c) PROVE RejectedInv'
  BY <1>32 DEF RetryFails, Fault
<1>33. ASSUME NEW c \in Client, CleanupFails(c) PROVE RejectedInv'
  BY <1>33 DEF CleanupFails, Leave
<1>31. CASE UNCHANGED vars
  BY <1>31 DEF vars
<1> QED
  BY <1>1, <1>2, <1>3, <1>4, <1>5, <1>6, <1>7, <1>8, <1>9, <1>10, <1>11, <1>12, <1>13,
     <1>14, <1>15, <1>16, <1>17, <1>18, <1>19, <1>20, <1>21, <1>22, <1>23, <1>24, <1>25,
     <1>26, <1>27, <1>28, <1>29, <1>30, <1>31, <1>32, <1>33
  DEF EntryNext, CallStep, FaultStep

LEMMA FreshStep ==
  ASSUME ~Revert
  PROVE  EntryInv /\ LockUseInv /\ HonestInv /\ FreshInv /\ [EntryNext]_vars => FreshInv'
  BY KnowsStep, StaysStep, ReturnStep, RejectedStep DEF FreshInv

LEMMA FreshAlways ==
  ASSUME ~Revert PROVE EntrySpec => [](EntryInv /\ HonestInv /\ FreshInv)
<1>1. EntryInit => EntryInv /\ LockUseInv /\ HonestInv /\ FreshInv
  BY LockUseInit, HonestInit, FreshInit
<1>2. EntryInv /\ LockUseInv /\ HonestInv /\ FreshInv /\ [EntryNext]_vars
        => EntryInv' /\ LockUseInv' /\ HonestInv' /\ FreshInv'
  BY LockUseStep, HonestStep, FreshStep
<1> QED
  BY <1>1, <1>2, PTL DEF EntrySpec

-----------------------------------------------------------------------------
(* The theorems                                                              *)

\* No call returns content that is older than the call, whoever loads, fails, crashes or
\* changes the source meanwhile, until a lock is lost.
THEOREM AnswersAreFresh ==
  ASSUME ~Revert PROVE EntrySpec => []ReturnedIsFresh
<1>1. EntryInv /\ FreshInv => ReturnedIsFresh
  BY DEF FreshInv, ReturnInv, ReturnedIsFresh, Result, InTime, Bytes
<1> QED
  BY <1>1, FreshAlways, PTL

\* No call replaces an entry that is valid for the version it has loaded: of those that
\* miss together one loads.
THEOREM NobodyLoadsTwice ==
  ASSUME ~Revert PROVE EntrySpec => ValidEntriesAreKept
<1>1. EntryInv /\ FreshInv => \A c \in Client : ReplaceParquet(c) /\ ~lost => ~Valid(version[c])
  <2> SUFFICES ASSUME EntryInv, FreshInv, NEW c \in Client, pc[c] = "replace", ~lost, Valid(version[c])
               PROVE  FALSE
    BY DEF ReplaceParquet
  <2>1. version[c] \in Value
    BY EntryAssumption DEF EntryInv, EntryTypeOK, FreshInv, KnowsInv, Alone
  <2>2. version[c] < version[c]
    BY <2>1 DEF FreshInv, RejectedInv, Loaded
  <2> QED
    BY <2>1, <2>2, EntryAssumption
<1> QED
  BY <1>1, FreshAlways, PTL DEF ValidEntriesAreKept

-----------------------------------------------------------------------------
(* Calls as CachedSource has them                                            *)

\* A step of a call is its own affair: it takes nobody's answer away.
Moves(c) ==
  /\ Running(c) /\ pc' = [pc EXCEPT ![c] = pc'[c]] /\ pc'[c] # "idle"
  /\ \A d \in Client \ {c} : data'[d] = data[d] /\ output'[d] = output[d]
  /\ UNCHANGED <<source, started>>

LEMMA StepsMove ==
  ASSUME EntryInv, ~lost', NEW c \in Client, CallStep(c) \/ FaultStep(c)
  PROVE  Moves(c)
<1> USE DEF EntryInv, EntryTypeOK, Moves, Running, Under, Alone, files, locals, Leave, Reject, NoParts, CutShort
<1>1. CASE ReadVersion(c) \/ LockRead(c) \/ Announce(c) \/ LockWrite(c) \/ Unlock(c) \/ Retract(c)
  BY <1>1 DEF ReadVersion, LockRead, Announce, LockWrite, Unlock, Retract
<1>2. CASE CheckMeta(c) \/ CheckHash(c) \/ ReadParquet(c)
  BY <1>2 DEF CheckMeta, CheckHash, ReadParquet
<1>3. CASE VersionBefore(c) \/ Load(c) \/ VersionAfter(c) \/ WritePart(c) \/ WriteMetadata(c)
  BY <1>3 DEF VersionBefore, Load, VersionAfter, WritePart, WriteMetadata
<1>4. CASE ReplaceParquet(c) \/ ReplaceMeta(c) \/ Cleanup(c) \/ CopyParquet(c) \/ Export(c)
  BY <1>4 DEF ReplaceParquet, ReplaceMeta, Cleanup, CopyParquet, Export
<1>5. CASE ReadVersionFails(c) \/ LoadFails(c) \/ RetryFails(c) \/ StoreFails(c) \/ CleanupFails(c) \/ ExportFails(c)
  BY <1>5 DEF ReadVersionFails, LoadFails, RetryFails, StoreFails, CleanupFails, ExportFails
<1>6. CASE EntryCrash(c) \/ EntryInterrupted(c)
  BY <1>6 DEF EntryCrash, EntryInterrupted
<1> QED
  BY <1>1, <1>2, <1>3, <1>4, <1>5, <1>6 DEF CallStep, FaultStep, LoseLock

\* Such a step goes on, returns content of the call's time, or ends the call.
LEMMA MovesAreSeen ==
  ASSUME EntryInv, EntryInv', ReturnedIsFresh', ~lost', Stored' = Stored, NEW c \in Client, Moves(c)
  PROVE  Promised!PromiseNext \/ UNCHANGED Promised!promiseVars
<1> DEFINE l == pc'[c]
<1>1. pc \in [Client -> Under \union Alone \union Outside] /\ l \in Under \union Alone \union Outside
  BY DEF EntryInv, EntryTypeOK
<1>2. pc[c] \notin {"idle", "returned", "failed", "dead"} /\ Phase[c] = "called"
      /\ (\A d \in Client \ {c} : pc'[d] = pc[d] /\ Result(d)' = Result(d)) /\ l # "idle"
      /\ UNCHANGED <<source, started, Stored>>
  BY <1>1 DEF Moves, Running, Phase, Result
<1>3. CASE l = "returned"
  <2>1. Phase' = [Phase EXCEPT ![c] = "returned"] /\ Answer' = [Answer EXCEPT ![c] = Result(c)']
    BY <1>1, <1>2, <1>3 DEF Phase, Answer, Running
  <2>2. Result(c)' \in (started[c] .. source) \union (IF c \in Streamers THEN {Damaged} ELSE {})
    BY <1>2, <1>3 DEF ReturnedIsFresh
  <2>3. Promised!Return(c)
    BY <1>2, <2>1, <2>2 DEF Promised!Return, Promised!InTime
  <2> QED
    BY <2>3 DEF Promised!PromiseNext
<1>4. CASE l \in {"failed", "dead"}
  <2>1. Phase' = [Phase EXCEPT ![c] = l] /\ Answer' = Answer
    BY <1>1, <1>2, <1>4 DEF Phase, Answer, Running
  <2>2. Promised!End(c)
    BY <1>2, <1>4, <2>1 DEF Promised!End
  <2> QED
    BY <2>2 DEF Promised!PromiseNext
<1>5. CASE l \notin {"returned", "failed", "dead"}
  <2>1. Phase' = Phase /\ Answer' = Answer
    BY <1>1, <1>2, <1>5 DEF Phase, Answer, Running
  <2> QED
    BY <1>2, <2>1 DEF Promised!promiseVars
<1> QED
  BY <1>3, <1>4, <1>5

\* The steps that replace a file of the entry let the others' view of calls be.
LEMMA StoresAreSeen ==
  ASSUME EntryInv, NEW c \in Client, Moves(c), Running(c)',
         \/ Stored' = Stored
         \/ Stored' = {}
         \/ \E v \in started[c] .. source : Stored' = {v} /\ \A w \in Stored : w < v
  PROVE  Promised!PromiseNext \/ UNCHANGED Promised!promiseVars
<1>1. pc \in [Client -> Under \union Alone \union Outside]
  BY DEF EntryInv, EntryTypeOK
<1>2. Phase' = Phase /\ Answer' = Answer /\ Phase[c] = "called" /\ UNCHANGED <<source, started>>
  BY <1>1 DEF Moves, Running, Phase, Answer, Result
<1>3. CASE Stored' = Stored
  BY <1>2, <1>3 DEF Promised!promiseVars
<1>4. CASE Stored' = {} /\ Stored # {}
  BY <1>2, <1>4 DEF Promised!Invalidate, Promised!PromiseNext
<1>5. CASE \E v \in started[c] .. source : Stored' = {v} /\ \A w \in Stored : w < v
  <2>1. Promised!Store(c)
    BY <1>2, <1>5 DEF Promised!Store, Promised!InTime
  <2> QED
    BY <2>1 DEF Promised!PromiseNext
<1> QED
  BY <1>3, <1>4, <1>5

\* What is stored is what a call on its version would accept.
LEMMA StoredIs ==
  ASSUME EntryInv, HonestInv
  PROVE  Stored = {v \in Value : Valid(v)} /\ \A v \in Value : Valid(v) => v = parquet
  BY DEF HonestInv, Stored, Valid

LEMMA ReplacedParquet ==
  ASSUME EntryInv, HonestInv, FreshInv, EntryInv', HonestInv', ~lost, NEW c \in Client, ReplaceParquet(c)
  PROVE  \/ Stored' = {}
         \/ \E v \in started[c] .. source : Stored' = {v} /\ \A w \in Stored : w < v
<1>1. pc[c] = "replace" /\ parquet' = part[c]
  BY DEF ReplaceParquet
<1>2. part[c] = version[c] /\ version[c] \in started[c] .. source
  BY <1>1 DEF FreshInv, KnowsInv, Alone
<1>3. \A w \in Stored : w < version[c]
  BY <1>1, StoredIs DEF FreshInv, RejectedInv, Loaded
<1>4. Stored' \in {{}, {parquet'}}
  BY DEF Stored
<1> QED
  BY <1>1, <1>2, <1>3, <1>4

LEMMA ReplacedMeta ==
  ASSUME EntryInv, HonestInv, FreshInv, EntryInv', HonestInv', ~lost, NEW c \in Client, ReplaceMeta(c)
  PROVE  \/ Stored' = Stored
         \/ Stored' = {}
         \/ \E v \in started[c] .. source : Stored' = {v} /\ \A w \in Stored : w < v
<1>1. pc[c] = "commit" /\ parquet' = parquet
  BY DEF ReplaceMeta
<1>2. version[c] \in started[c] .. source /\ parquet \in {version[c], Damaged}
  BY <1>1 DEF FreshInv, KnowsInv, StaysInv, Alone
<1>3. Stored \in {{}, {parquet}} /\ Stored' \in {{}, {parquet}}
  BY <1>1 DEF Stored
<1>4. Damaged \notin Stored'
  BY <1>3, EntryAssumption DEF Stored, Valid, HonestInv
<1>5. CASE Stored' = {parquet}
  <2>1. Stored' = {version[c]}
    BY <1>2, <1>4, <1>5
  <2> QED
    BY <1>2, <1>3, <1>5, <2>1
<1> QED
  BY <1>3, <1>5

LEMMA DamageInvalidates ==
  ASSUME EntryInv', HonestInv', Damage
  PROVE  Stored' = {}
<1> SUFFICES ASSUME NEW v \in Value, Valid(v)' PROVE FALSE
  BY DEF Stored
<1>1. parquet' = v /\ meta'.kind = "ok"
  BY DEF Valid, HonestInv
<1> QED
  BY <1>1, EntryAssumption DEF Damage, NoMeta

LEMMA StepsAreSeen ==
  ASSUME ~Revert, EntryInv, HonestInv, FreshInv, EntryInv', HonestInv', FreshInv', [EntryNext]_vars, ~lost'
  PROVE  Promised!PromiseNext \/ UNCHANGED Promised!promiseVars
<1>0. ASSUME UNCHANGED <<parquet, meta>> PROVE Stored' = Stored
  BY <1>0 DEF Stored, Valid
<1>1. ReturnedIsFresh'
  BY DEF FreshInv, ReturnInv, ReturnedIsFresh, Result, InTime, Bytes
<1>2. ASSUME NEW c \in Client, CallStep(c) \/ FaultStep(c)
      PROVE  Promised!PromiseNext \/ UNCHANGED Promised!promiseVars
  <2>1. Moves(c)
    BY <1>2, StepsMove
  <2>2. ~lost
    BY <1>2 DEF CallStep, FaultStep, ReadVersion, LockRead, Announce, LockWrite, Unlock, Retract, CheckMeta,
                CheckHash, ReadParquet, VersionBefore, Load, VersionAfter, WritePart, WriteMetadata,
                ReplaceParquet, ReplaceMeta, Cleanup, CopyParquet, Export, ReadVersionFails, LoadFails,
                RetryFails, StoreFails, CleanupFails, ExportFails, EntryCrash, EntryInterrupted, LoseLock
  <2>3. CASE ReplaceParquet(c)
    <3>1. Running(c)'
      BY <2>3 DEF ReplaceParquet, Running, EntryInv, EntryTypeOK
    <3> QED
      BY <2>1, <2>2, <2>3, <3>1, ReplacedParquet, StoresAreSeen
  <2>4. CASE ReplaceMeta(c)
    <3>1. Running(c)'
      BY <2>4 DEF ReplaceMeta, Leave, Running, EntryInv, EntryTypeOK
    <3> QED
      BY <2>1, <2>2, <2>4, <3>1, ReplacedMeta, StoresAreSeen
  <2>5. CASE ~ReplaceParquet(c) /\ ~ReplaceMeta(c)
    <3>1. UNCHANGED <<parquet, meta>>
      BY <1>2, <2>5
      DEF CallStep, FaultStep, ReadVersion, LockRead, Announce, LockWrite, Unlock, Retract, CheckMeta,
          CheckHash, ReadParquet, VersionBefore, Load, VersionAfter, WritePart, WriteMetadata, Cleanup,
          CopyParquet, Export, ReadVersionFails, LoadFails, RetryFails, StoreFails, CleanupFails, ExportFails, EntryCrash,
          EntryInterrupted, LoseLock, files
    <3> QED
      BY <1>0, <1>1, <2>1, <3>1, MovesAreSeen
  <2> QED
    BY <2>3, <2>4, <2>5
<1>3. ASSUME NEW c \in Client, Call(c) PROVE Promised!Begin(c)
  <2>1. Stored' = Stored
    BY <1>0, <1>3 DEF Call, files
  <2>2. Phase[c] \in {"idle", "returned", "failed"}
    BY <1>3 DEF Call, Phase, Running
  <2>3. Phase' = [Phase EXCEPT ![c] = "called"] /\ Answer' = [Answer EXCEPT ![c] = Absent]
    BY <1>3 DEF Call, Phase, Answer, Running, Result, EntryInv, EntryTypeOK, files
  <2> QED
    BY <1>3, <2>1, <2>2, <2>3 DEF Call, Promised!Begin
<1>4. CASE SourceChanges
  <2>1. source' \in Nat /\ source' > source
    BY <1>4, EntryAssumption DEF SourceChanges, EntryInv, EntryTypeOK
  <2>2. UNCHANGED <<Stored, Phase, started, Answer>>
    BY <1>0, <1>4 DEF SourceChanges, Phase, Answer, Running, Result, files, locals
  <2> QED
    BY <2>1, <2>2 DEF Promised!Change, Promised!PromiseNext
<1>5. CASE Damage
  <2>1. Stored' = {} /\ UNCHANGED <<source, Phase, started, Answer>>
    BY <1>5, DamageInvalidates DEF Damage, Phase, Answer, Running, Result, locals
  <2> QED
    BY <2>1 DEF Promised!Invalidate, Promised!PromiseNext, Promised!promiseVars
<1>6. CASE BreakIntent \/ UNCHANGED vars
  <2>1. UNCHANGED <<source, Stored, Phase, started, Answer>>
    BY <1>0, <1>6 DEF BreakIntent, Phase, Answer, Running, Result, vars, files, locals
  <2> QED
    BY <2>1 DEF Promised!promiseVars
<1> QED
  BY <1>2, <1>3, <1>4, <1>5, <1>6 DEF EntryNext, Promised!PromiseNext

\* Every step of the locks, files and versions is a step of a source that is called, or none
\* at all, until a running client loses its lock: with any number of clients, whatever
\* fails, crashes, is damaged or changes meanwhile.
THEOREM CallsAreAnsweredFromTheSource ==
  ASSUME ~Revert PROVE EntrySpec => CallsSeeTheSource
<1>1. EntryInv /\ HonestInv /\ FreshInv /\ (EntryInv /\ HonestInv /\ FreshInv)' /\ [EntryNext]_vars
        => (lost' \/ Promised!PromiseNext) \/ UNCHANGED Promised!promiseVars
  BY StepsAreSeen
<1> QED
  BY <1>1, FreshAlways, PTL DEF EntrySpec, CallsSeeTheSource

\* Where no lock is lost the entry implements CachedSource, from its first state on.
THEOREM EntryImplementsCachedSource ==
  ASSUME ~Revert, "lock" \notin EntryFaults PROVE EntrySpec => Promised!PromiseSpec
<1>1. EntryInit => Promised!PromiseInit
  BY DEF EntryInit, Promised!PromiseInit, Stored, Phase, Answer, Running, Valid, NoMeta
<1>2. EntryInv /\ HonestInv /\ FreshInv /\ (EntryInv /\ HonestInv /\ FreshInv)' /\ ~lost' /\ [EntryNext]_vars
        => [Promised!PromiseNext]_(Promised!promiseVars)
  BY StepsAreSeen
<1> QED
  BY <1>1, <1>2, FreshAlways, NothingIsLost, PTL DEF EntrySpec, Promised!PromiseSpec
=============================================================================
