------------------------- MODULE CacheEntryProofs -------------------------
(* Theorems about CacheEntry, for any number of clients and any faults.      *)
EXTENDS CacheEntry, TLAPS

USE DEF Value, Goto, Set

-----------------------------------------------------------------------------
(* Types                                                                     *)

\* Once loaded there is content to write, and once written a file to describe.
FlowInv ==
  \A c \in Client :
    /\ pc[c] = "after" => data[c] \in Value /\ (c \in Streamers => part[c] = data[c])
    /\ pc[c] = "write" => data[c] \in Value
    /\ pc[c] = "describe" => part[c] \in Value

EntryInv == EntryTypeOK /\ FlowInv

LEMMA NoMetaType == NoMeta \in MetaType /\ NoMeta.kind = "absent"
  BY DEF NoMeta, MetaType

LEMMA EntryInvInit == EntryInit => EntryInv
<1> SUFFICES ASSUME EntryInit PROVE EntryInv
  OBVIOUS
<1>1. EntryTypeOK
  <2>1. /\ reading \subseteq Client /\ writing \subseteq Client /\ dead \subseteq Client
        /\ intent \in Client \union {NoOne} /\ lost \in BOOLEAN
    BY DEF EntryInit, AbsInit
  <2>2. /\ source \in Value /\ parquet \in Value \union {Absent, Damaged}
        /\ meta \in MetaType /\ metaPart \in [Client -> MetaType]
        /\ part \in [Client -> Value \union {Absent, Damaged}]
        /\ output \in [Client -> Value \union {Absent, Damaged}]
    BY EntryAssumption, NoMetaType DEF EntryInit
  <2> QED
    BY <2>1, <2>2, EntryAssumption DEF EntryInit, EntryTypeOK, Under, Alone, Outside
<1>2. FlowInv
  BY DEF EntryInit, FlowInv
<1> QED
  BY <1>1, <1>2 DEF EntryInv

\* The step of the induction, one case per action.
LEMMA EntryInvStep == EntryInv /\ [EntryNext]_vars => EntryInv'
<1> SUFFICES ASSUME EntryInv, [EntryNext]_vars PROVE EntryInv'
  OBVIOUS
<1> USE EntryAssumption
<1> USE DEF EntryInv, EntryTypeOK, FlowInv, MetaType, Under, Alone, Outside, absVars, files, locals
<1>1. CASE SourceChanges
  BY <1>1 DEF SourceChanges
<1>2. CASE Damage
  BY <1>2 DEF Damage, Fault, NoMeta
<1>3. CASE BreakIntent
  BY <1>3 DEF BreakIntent, AbsBreak
<1>4. ASSUME NEW c \in Client, Call(c) PROVE EntryInv'
  <2>1. EntryTypeOK'
    <3>1. metaPart' \in [Client -> MetaType]
      BY <1>4, NoMetaType DEF Call, NoParts
    <3>2. part' \in [Client -> Value \union {Absent, Damaged}]
      BY <1>4 DEF Call, NoParts
    <3>3. /\ pc' \in [Client -> Under \union Alone \union Outside]
          /\ side' \in [Client -> {"read", "write"}]
          /\ outcome' \in [Client -> {"miss", "hit", "stored", "failed", "left"}]
      BY <1>4 DEF Call
    <3>4. /\ data' \in [Client -> Value \union {Absent}]
          /\ calls' \in [Client -> 0 .. MaxCalls] /\ started' \in [Client -> Value]
      BY <1>4 DEF Call
    <3>5. UNCHANGED <<absVars, source, parquet, meta, output, version, expected, lost, faults>>
      BY <1>4 DEF Call
    <3> QED
      BY <3>1, <3>2, <3>3, <3>4, <3>5
  <2>2. FlowInv'
    <3>1. /\ pc' = [pc EXCEPT ![c] = "version"] /\ part' = [part EXCEPT ![c] = Absent]
          /\ data' = [data EXCEPT ![c] = Absent]
      BY <1>4 DEF Call, NoParts, Goto, Set
    <3> QED
      BY <3>1
  <2> QED
    BY <2>1, <2>2
<1>5. ASSUME NEW c \in Client, ReadVersion(c) PROVE EntryInv'
  BY <1>5, SMTT(30) DEF ReadVersion
<1>6. ASSUME NEW c \in Client, ReadVersionFails(c) PROVE EntryInv'
  <2>1. /\ \E l \in {"failed", "unlock"} : pc' = [pc EXCEPT ![c] = l]
        /\ outcome' = [outcome EXCEPT ![c] = "failed"]
        /\ faults < MaxFaults /\ faults' = faults + 1
        /\ UNCHANGED <<absVars, source, files, side, version, expected, data, calls, started, lost>>
    BY <1>6 DEF ReadVersionFails, Fault, Goto, Set
  <2>2. EntryTypeOK'
    BY <2>1
  <2>3. FlowInv'
    BY <2>1
  <2> QED
    BY <2>2, <2>3
<1>7. ASSUME NEW c \in Client, LockRead(c) PROVE EntryInv'
  BY <1>7 DEF LockRead, AbsBeginRead
<1>8. ASSUME NEW c \in Client, Announce(c) PROVE EntryInv'
  BY <1>8 DEF Announce, AbsAnnounce
<1>9. ASSUME NEW c \in Client, LockWrite(c) PROVE EntryInv'
  BY <1>9 DEF LockWrite, AbsBeginWrite
<1>10. ASSUME NEW c \in Client, Unlock(c) PROVE EntryInv'
  <2>1. /\ \E l \in {"retract", "announce", "failed", "copy", "returned"} :
             pc' = [pc EXCEPT ![c] = l]
        /\ UNCHANGED <<source, files, locals, calls, started, lost, faults>>
    BY <1>10 DEF Unlock, Goto
  <2>2. /\ reading' \in {reading, reading \ {c}} /\ writing' \in {writing, writing \ {c}}
        /\ UNCHANGED <<intent, dead>>
    BY <1>10 DEF Unlock, AbsEndRead, AbsEndWrite
  <2>3. EntryTypeOK'
    BY <2>1, <2>2
  <2>4. FlowInv'
    BY <2>1
  <2> QED
    BY <2>3, <2>4
<1>11. ASSUME NEW c \in Client, Retract(c) PROVE EntryInv'
  BY <1>11 DEF Retract, AbsRetract
<1>12. ASSUME NEW c \in Client, CheckMeta(c) PROVE EntryInv'
  <2>1. /\ \E l \in {"unlock", "before", "v_hash"} : pc' = [pc EXCEPT ![c] = l]
        /\ outcome' = outcome \/ \E o \in {"miss", "failed"} : outcome' = [outcome EXCEPT ![c] = o]
    BY <1>12 DEF CheckMeta, Reject, Leave, Goto, Set
  <2>2. expected' = expected \/ expected' = [expected EXCEPT ![c] = meta.sha]
    BY <1>12 DEF CheckMeta, Set
  <2>3. UNCHANGED <<absVars, source, files, side, version, data, calls, started, lost, faults>>
    BY <1>12 DEF CheckMeta
  <2>4. EntryTypeOK'
    <3>1. pc' \in [Client -> Under \union Alone \union Outside]
      BY <2>1
    <3>2. outcome' \in [Client -> {"miss", "hit", "stored", "failed", "left"}]
      BY <2>1
    <3>3. expected' \in [Client -> Value \union {Absent}]
      BY <2>2
    <3> QED
      BY <2>3, <3>1, <3>2, <3>3
  <2>5. FlowInv'
    BY <2>1, <2>3
  <2> QED
    BY <2>4, <2>5
<1>13. ASSUME NEW c \in Client, CheckHash(c) PROVE EntryInv'
  <2>1. /\ \E l \in {"unlock", "before", "v_read"} : pc' = [pc EXCEPT ![c] = l]
        /\ outcome' = outcome \/ \E o \in {"miss", "hit"} : outcome' = [outcome EXCEPT ![c] = o]
    BY <1>13 DEF CheckHash, Reject, Leave, Goto, Set
  <2>2. UNCHANGED <<absVars, source, files, side, version, expected, data, calls, started, lost,
                    faults>>
    BY <1>13 DEF CheckHash
  <2>3. EntryTypeOK'
    <3>1. pc' \in [Client -> Under \union Alone \union Outside]
      BY <2>1
    <3>2. outcome' \in [Client -> {"miss", "hit", "stored", "failed", "left"}]
      BY <2>1
    <3> QED
      BY <2>2, <3>1, <3>2
  <2>4. FlowInv'
    BY <2>1, <2>2
  <2> QED
    BY <2>3, <2>4
<1>14. ASSUME NEW c \in Client, ReadParquet(c) PROVE EntryInv'
  <2>1. /\ pc' = [pc EXCEPT ![c] = "unlock"] \/ pc' = [pc EXCEPT ![c] = "before"]
        /\ outcome' = outcome \/ \E o \in {"miss", "hit"} : outcome' = [outcome EXCEPT ![c] = o]
    BY <1>14 DEF ReadParquet, Reject, Leave
  <2>2. data' = data \/ (parquet \in Value /\ data' = [data EXCEPT ![c] = parquet])
    BY <1>14 DEF ReadParquet
  <2>3. UNCHANGED <<absVars, source, files, side, version, expected, calls, started, lost, faults>>
    BY <1>14 DEF ReadParquet
  <2>4. EntryTypeOK'
    <3>1. pc' \in [Client -> Under \union Alone \union Outside]
      BY <2>1
    <3>2. outcome' \in [Client -> {"miss", "hit", "stored", "failed", "left"}]
      BY <2>1
    <3>3. data' \in [Client -> Value \union {Absent}]
      BY <2>2
    <3> QED
      BY <2>3, <3>1, <3>2, <3>3
  <2>5. FlowInv'
    BY <2>1, <2>2, <2>3
  <2> QED
    BY <2>4, <2>5
<1>15. ASSUME NEW c \in Client, VersionBefore(c) PROVE EntryInv'
  BY <1>15 DEF VersionBefore
<1>16. ASSUME NEW c \in Client, Load(c) PROVE EntryInv'
  BY <1>16 DEF Load
<1>17. ASSUME NEW c \in Client, VersionAfter(c) PROVE EntryInv'
  <2>1. CASE source = version[c]
    BY <1>17, <2>1 DEF VersionAfter
  <2>2. CASE source # version[c]
    <3>1. EntryTypeOK'
      <4>1. metaPart' \in [Client -> MetaType]
        BY <1>17, <2>2, NoMetaType DEF VersionAfter, NoParts
      <4>2. part' \in [Client -> Value \union {Absent, Damaged}]
        BY <1>17, <2>2 DEF VersionAfter, NoParts
      <4> QED
        BY <1>17, <2>2, <4>1, <4>2 DEF VersionAfter
    <3>2. FlowInv'
      <4>1. /\ pc' = [pc EXCEPT ![c] = "before"] /\ part' = [part EXCEPT ![c] = Absent]
            /\ UNCHANGED data
        BY <1>17, <2>2 DEF VersionAfter, NoParts, Goto, Set
      <4> QED
        BY <4>1
    <3> QED
      BY <3>1, <3>2
  <2> QED
    BY <2>1, <2>2
<1>18. ASSUME NEW c \in Client, LoadFails(c) PROVE EntryInv'
  BY <1>18 DEF LoadFails, CutShort, Fault
<1>19. ASSUME NEW c \in Client, WritePart(c) PROVE EntryInv'
  BY <1>19 DEF WritePart
<1>20. ASSUME NEW c \in Client, WriteMetadata(c) PROVE EntryInv'
  BY <1>20 DEF WriteMetadata
<1>21. ASSUME NEW c \in Client, ReplaceParquet(c) PROVE EntryInv'
  BY <1>21 DEF ReplaceParquet
<1>22. ASSUME NEW c \in Client, ReplaceMeta(c) PROVE EntryInv'
  BY <1>22 DEF ReplaceMeta, Leave, NoMeta
<1>23. ASSUME NEW c \in Client, StoreFails(c) PROVE EntryInv'
  BY <1>23 DEF StoreFails, CutShort, Fault, NoMeta
<1>24. ASSUME NEW c \in Client, Cleanup(c) PROVE EntryInv'
  BY <1>24 DEF Cleanup, NoParts, NoMeta, Leave
<1>25. ASSUME NEW c \in Client, CopyParquet(c) PROVE EntryInv'
  BY <1>25 DEF CopyParquet
<1>26. ASSUME NEW c \in Client, Export(c) PROVE EntryInv'
  BY <1>26 DEF Export
<1>27. ASSUME NEW c \in Client, ExportFails(c) PROVE EntryInv'
  <2>1. /\ pc' = [pc EXCEPT ![c] = "failed"]
        /\ \E o \in {"failed", "left"} : outcome' = [outcome EXCEPT ![c] = o]
        /\ faults < MaxFaults /\ faults' = faults + 1
        /\ UNCHANGED <<absVars, source, parquet, meta, output, side, version, expected, data,
                       calls, started, lost>>
    BY <1>27 DEF ExportFails, Fault, Goto, Set
  <2>2. EntryTypeOK'
    <3>1. part' \in [Client -> Value \union {Absent, Damaged}]
      BY <1>27 DEF ExportFails, NoParts, CutShort, Set
    <3>2. metaPart' \in [Client -> MetaType]
      BY <1>27, NoMetaType DEF ExportFails, NoParts, CutShort, Set
    <3>3. /\ pc' \in [Client -> Under \union Alone \union Outside]
          /\ outcome' \in [Client -> {"miss", "hit", "stored", "failed", "left"}]
      BY <2>1
    <3> QED
      BY <2>1, <3>1, <3>2, <3>3
  <2>3. FlowInv'
    <3>1. \A d \in Client \ {c} : part'[d] = part[d]
      BY <1>27 DEF ExportFails, NoParts, CutShort, Set
    <3> QED
      BY <2>1, <3>1
  <2> QED
    BY <2>2, <2>3
<1>28. ASSUME NEW c \in Client, EntryCrash(c) PROVE EntryInv'
  BY <1>28 DEF EntryCrash, Fault, AbsDie
<1>29. ASSUME NEW c \in Client, LoseLock(c) PROVE EntryInv'
  BY <1>29 DEF LoseLock, Fault
<1>31. ASSUME NEW c \in Client, EntryInterrupted(c) PROVE EntryInv'
  <2>1. /\ \E l \in {"failed", "unlock"} : pc' = [pc EXCEPT ![c] = l]
        /\ outcome' = [outcome EXCEPT ![c] = "left"]
        /\ faults < MaxFaults /\ faults' = faults + 1
        /\ UNCHANGED <<absVars, source, parquet, meta, output, side, version, expected, data,
                       calls, started, lost>>
    BY <1>31 DEF EntryInterrupted, Fault
  <2>2. EntryTypeOK'
    <3>1. part' \in [Client -> Value \union {Absent, Damaged}] /\ metaPart' \in [Client -> MetaType]
      BY <1>31, NoMetaType DEF EntryInterrupted, CutShort, NoMeta
    <3>2. /\ pc' \in [Client -> Under \union Alone \union Outside]
          /\ outcome' \in [Client -> {"miss", "hit", "stored", "failed", "left"}]
      BY <2>1
    <3> QED
      BY <2>1, <3>1, <3>2
  <2>3. FlowInv'
    <3>1. \A d \in Client \ {c} : part'[d] = part[d]
      BY <1>31 DEF EntryInterrupted, CutShort
    <3> QED
      BY <2>1, <3>1
  <2> QED
    BY <2>2, <2>3
<1>32. ASSUME NEW c \in Client, RetryFails(c) PROVE EntryInv'
  BY <1>32 DEF RetryFails, Fault
<1>33. ASSUME NEW c \in Client, CleanupFails(c) PROVE EntryInv'
  BY <1>33 DEF CleanupFails, Leave
<1>30. CASE UNCHANGED vars
  BY <1>30 DEF vars
<1> QED
  BY <1>1, <1>2, <1>3, <1>4, <1>5, <1>6, <1>7, <1>8, <1>9, <1>10, <1>11, <1>12, <1>13, <1>14, <1>15,
     <1>16, <1>17, <1>18, <1>19, <1>20, <1>21, <1>22, <1>23, <1>24, <1>25, <1>26, <1>27, <1>28, <1>29, <1>30, <1>31, <1>32, <1>33
  DEF EntryNext, CallStep, FaultStep

\* Every variable stays in its type: no call describes or commits a damaged file.
THEOREM EntryTypeCorrect == EntrySpec => []EntryTypeOK
  BY EntryInvInit, EntryInvStep, PTL DEF EntrySpec, EntryInv

-----------------------------------------------------------------------------
(* The commit protocol                                                       *)

\* What a call has loaded lies between its two version reads; what it writes,
\* describes and commits is content of the version it states.
HonestInv ==
  /\ meta.kind = "ok" => meta.sha = meta.version
  /\ \A c \in Client :
       /\ metaPart[c].kind = "ok" => metaPart[c].sha = metaPart[c].version
       /\ pc[c] = "load" => version[c] \in 0 .. source
       /\ pc[c] = "after" => version[c] \in 0 .. data[c] /\ data[c] \in 0 .. source
       /\ pc[c] = "write" => data[c] = version[c]
       /\ pc[c] = "describe" => part[c] = version[c]

LEMMA HonestInit == EntryInit => HonestInv
  BY DEF EntryInit, HonestInv, NoMeta

LEMMA HonestStep ==
  ASSUME ~Revert PROVE EntryInv /\ HonestInv /\ [EntryNext]_vars => HonestInv'
<1> SUFFICES ASSUME EntryInv, HonestInv, [EntryNext]_vars PROVE HonestInv'
  OBVIOUS
<1> USE EntryAssumption
<1> USE DEF EntryInv, EntryTypeOK, FlowInv, HonestInv, MetaType, Under, Alone, Outside,
            absVars, files, locals
<1>1. CASE SourceChanges
  BY <1>1 DEF SourceChanges
<1>2. CASE Damage
  BY <1>2 DEF Damage, Fault, NoMeta
<1>3. CASE BreakIntent
  BY <1>3 DEF BreakIntent, AbsBreak
<1>4. ASSUME NEW c \in Client, Call(c) PROVE HonestInv'
  BY <1>4, NoMetaType DEF Call, NoParts
<1>5. ASSUME NEW c \in Client, ReadVersion(c) PROVE HonestInv'
  BY <1>5 DEF ReadVersion
<1>6. ASSUME NEW c \in Client, ReadVersionFails(c) PROVE HonestInv'
  BY <1>6 DEF ReadVersionFails, Fault
<1>7. ASSUME NEW c \in Client, LockRead(c) PROVE HonestInv'
  BY <1>7 DEF LockRead, AbsBeginRead
<1>8. ASSUME NEW c \in Client, Announce(c) PROVE HonestInv'
  BY <1>8 DEF Announce, AbsAnnounce
<1>9. ASSUME NEW c \in Client, LockWrite(c) PROVE HonestInv'
  BY <1>9 DEF LockWrite, AbsBeginWrite
<1>10. ASSUME NEW c \in Client, Unlock(c) PROVE HonestInv'
  BY <1>10 DEF Unlock, AbsEndRead, AbsEndWrite
<1>11. ASSUME NEW c \in Client, Retract(c) PROVE HonestInv'
  BY <1>11 DEF Retract, AbsRetract
<1>12. ASSUME NEW c \in Client, CheckMeta(c) PROVE HonestInv'
  BY <1>12 DEF CheckMeta, Reject, Leave
<1>13. ASSUME NEW c \in Client, CheckHash(c) PROVE HonestInv'
  BY <1>13 DEF CheckHash, Reject, Leave
<1>14. ASSUME NEW c \in Client, ReadParquet(c) PROVE HonestInv'
  BY <1>14 DEF ReadParquet, Reject, Leave
<1>15. ASSUME NEW c \in Client, VersionBefore(c) PROVE HonestInv'
  BY <1>15 DEF VersionBefore
<1>16. ASSUME NEW c \in Client, Load(c) PROVE HonestInv'
  BY <1>16 DEF Load
<1>17. ASSUME NEW c \in Client, VersionAfter(c) PROVE HonestInv'
  <2>1. CASE source = version[c]
    <3>1. pc' = [pc EXCEPT ![c] = IF c \in Streamers THEN "describe" ELSE "write"]
      BY <1>17, <2>1 DEF VersionAfter
    <3>2. UNCHANGED <<source, meta, metaPart, part, version, data>>
      BY <1>17, <2>1 DEF VersionAfter
    <3>3. data[c] = version[c]
      <4>1. pc[c] = "after" /\ data[c] \in Nat /\ source \in Nat
        BY <1>17 DEF VersionAfter
      <4>2. version[c] \in 0 .. data[c] /\ data[c] \in 0 .. source
        BY <4>1
      <4>3. source <= data[c] /\ data[c] <= source
        BY ONLY <2>1, <4>1, <4>2
      <4> QED
        BY ONLY <4>1, <4>3, <2>1
    <3>4. c \in Streamers => part[c] = version[c]
      BY <1>17, <3>3 DEF VersionAfter
    <3> QED
      BY <3>1, <3>2, <3>3, <3>4
  <2>2. CASE source # version[c]
    <3>1. metaPart' = [metaPart EXCEPT ![c] = NoMeta] /\ pc' = [pc EXCEPT ![c] = "before"]
      BY <1>17, <2>2 DEF VersionAfter, NoParts
    <3>2. part' = [part EXCEPT ![c] = Absent]
      BY <1>17, <2>2 DEF VersionAfter, NoParts
    <3>3. UNCHANGED <<source, meta, version, data>>
      BY <1>17 DEF VersionAfter
    <3> QED
      BY <3>1, <3>2, <3>3, NoMetaType
  <2> QED
    BY <2>1, <2>2
<1>18. ASSUME NEW c \in Client, LoadFails(c) PROVE HonestInv'
  BY <1>18 DEF LoadFails, CutShort, Fault
<1>19. ASSUME NEW c \in Client, WritePart(c) PROVE HonestInv'
  BY <1>19 DEF WritePart
<1>20. ASSUME NEW c \in Client, WriteMetadata(c) PROVE HonestInv'
  BY <1>20 DEF WriteMetadata
<1>21. ASSUME NEW c \in Client, ReplaceParquet(c) PROVE HonestInv'
  BY <1>21 DEF ReplaceParquet
<1>22. ASSUME NEW c \in Client, ReplaceMeta(c) PROVE HonestInv'
  BY <1>22 DEF ReplaceMeta, Leave, NoMeta
<1>23. ASSUME NEW c \in Client, StoreFails(c) PROVE HonestInv'
  BY <1>23 DEF StoreFails, CutShort, Fault, NoMeta
<1>24. ASSUME NEW c \in Client, Cleanup(c) PROVE HonestInv'
  BY <1>24 DEF Cleanup, NoParts, NoMeta, Leave
<1>25. ASSUME NEW c \in Client, CopyParquet(c) PROVE HonestInv'
  BY <1>25 DEF CopyParquet
<1>26. ASSUME NEW c \in Client, Export(c) PROVE HonestInv'
  BY <1>26 DEF Export
<1>27. ASSUME NEW c \in Client, ExportFails(c) PROVE HonestInv'
  BY <1>27, NoMetaType DEF ExportFails, NoParts, CutShort, Fault
<1>28. ASSUME NEW c \in Client, EntryCrash(c) PROVE HonestInv'
  BY <1>28 DEF EntryCrash, Fault, AbsDie
<1>29. ASSUME NEW c \in Client, LoseLock(c) PROVE HonestInv'
  BY <1>29 DEF LoseLock, Fault
<1>31. ASSUME NEW c \in Client, EntryInterrupted(c) PROVE HonestInv'
  BY <1>31, NoMetaType DEF EntryInterrupted, CutShort, Fault
<1>32. ASSUME NEW c \in Client, RetryFails(c) PROVE HonestInv'
  BY <1>32 DEF RetryFails, Fault
<1>33. ASSUME NEW c \in Client, CleanupFails(c) PROVE HonestInv'
  BY <1>33 DEF CleanupFails, Leave
<1>30. CASE UNCHANGED vars
  BY <1>30 DEF vars
<1> QED
  BY <1>1, <1>2, <1>3, <1>4, <1>5, <1>6, <1>7, <1>8, <1>9, <1>10, <1>11, <1>12, <1>13, <1>14, <1>15,
     <1>16, <1>17, <1>18, <1>19, <1>20, <1>21, <1>22, <1>23, <1>24, <1>25, <1>26, <1>27, <1>28, <1>29, <1>30, <1>31, <1>32, <1>33
  DEF EntryNext, CallStep, FaultStep

\* An entry that validates holds the content its metadata states, although clients
\* crash, steps fail, files are damaged and locks are lost at any moment.
THEOREM EntriesAreHonest ==
  ASSUME ~Revert PROVE EntrySpec => []EntryHonest
<1>1. EntryInv /\ HonestInv => EntryHonest
  BY DEF HonestInv, EntryHonest, Valid
<1> QED
  BY <1>1, EntryInvInit, EntryInvStep, HonestInit, HonestStep, PTL DEF EntrySpec

-----------------------------------------------------------------------------
(* Part files                                                                *)

\* A call on its way out that may leave part files behind.
Leaving(c) == outcome[c] = "left" /\ pc[c] \in {"unlock", "retract", "failed"}

\* A part file exists only between the step that makes it and the step that moves or
\* removes it, unless the call dies there or leaves it.
PartsInv ==
  \A c \in Client :
    /\ part[c] # Absent =>
         pc[c] \in {"after", "describe", "replace", "cleanup", "export", "dead"} \/ Leaving(c)
    /\ pc[c] = "after" /\ part[c] # Absent => c \in Streamers
    /\ metaPart[c] # NoMeta => pc[c] \in {"replace", "commit", "cleanup", "dead"} \/ Leaving(c)

LEMMA PartsInit == EntryInit => PartsInv
  BY DEF EntryInit, PartsInv

\* Every way out of those steps moves or removes the files.
LEMMA PartsStep == EntryInv /\ PartsInv /\ [EntryNext]_vars => PartsInv'
<1> SUFFICES ASSUME EntryInv, PartsInv, [EntryNext]_vars PROVE PartsInv'
  OBVIOUS
<1> USE DEF EntryInv, EntryTypeOK, PartsInv, Leaving, Under, Alone, files, locals
<1>1. CASE SourceChanges
  BY <1>1 DEF SourceChanges
<1>2. CASE Damage
  BY <1>2 DEF Damage, Fault
<1>3. CASE BreakIntent
  BY <1>3 DEF BreakIntent
<1>4. ASSUME NEW c \in Client, Call(c) PROVE PartsInv'
  BY <1>4 DEF Call, NoParts
<1>5. ASSUME NEW c \in Client, ReadVersion(c) PROVE PartsInv'
  BY <1>5 DEF ReadVersion
<1>6. ASSUME NEW c \in Client, ReadVersionFails(c) PROVE PartsInv'
  BY <1>6 DEF ReadVersionFails, Fault
<1>7. ASSUME NEW c \in Client, LockRead(c) PROVE PartsInv'
  BY <1>7 DEF LockRead
<1>8. ASSUME NEW c \in Client, Announce(c) PROVE PartsInv'
  BY <1>8 DEF Announce
<1>9. ASSUME NEW c \in Client, LockWrite(c) PROVE PartsInv'
  BY <1>9 DEF LockWrite
<1>10. ASSUME NEW c \in Client, Unlock(c) PROVE PartsInv'
  BY <1>10 DEF Unlock, Raised
<1>11. ASSUME NEW c \in Client, Retract(c) PROVE PartsInv'
  BY <1>11 DEF Retract, Raised
<1>12. ASSUME NEW c \in Client, CheckMeta(c) PROVE PartsInv'
  BY <1>12 DEF CheckMeta, Reject, Leave
<1>13. ASSUME NEW c \in Client, CheckHash(c) PROVE PartsInv'
  BY <1>13 DEF CheckHash, Reject, Leave
<1>14. ASSUME NEW c \in Client, ReadParquet(c) PROVE PartsInv'
  BY <1>14 DEF ReadParquet, Reject, Leave
<1>15. ASSUME NEW c \in Client, VersionBefore(c) PROVE PartsInv'
  BY <1>15 DEF VersionBefore
<1>16. ASSUME NEW c \in Client, Load(c) PROVE PartsInv'
  BY <1>16 DEF Load
<1>17. ASSUME NEW c \in Client, VersionAfter(c) PROVE PartsInv'
  <2>1. CASE source = version[c]
    <3>1. /\ UNCHANGED <<part, metaPart>>
          /\ \E l \in {"describe", "write"} : pc' = [pc EXCEPT ![c] = l] /\ (c \in Streamers <=> l = "describe")
      BY <1>17, <2>1 DEF VersionAfter
    <3>2. c \notin Streamers => part[c] = Absent
      BY <1>17 DEF VersionAfter
    <3> QED
      BY <3>1, <3>2, <1>17 DEF VersionAfter
  <2>2. CASE source # version[c]
    <3>1. /\ pc' = [pc EXCEPT ![c] = "before"] /\ part' = [part EXCEPT ![c] = Absent]
          /\ metaPart' = [metaPart EXCEPT ![c] = NoMeta]
          /\ UNCHANGED outcome
      BY <1>17, <2>2 DEF VersionAfter, NoParts
    <3> QED
      BY <3>1
  <2> QED
    BY <2>1, <2>2
<1>18. ASSUME NEW c \in Client, LoadFails(c) PROVE PartsInv'
  BY <1>18 DEF LoadFails, CutShort, Fault
<1>19. ASSUME NEW c \in Client, WritePart(c) PROVE PartsInv'
  BY <1>19 DEF WritePart
<1>20. ASSUME NEW c \in Client, WriteMetadata(c) PROVE PartsInv'
  BY <1>20 DEF WriteMetadata
<1>21. ASSUME NEW c \in Client, ReplaceParquet(c) PROVE PartsInv'
  BY <1>21 DEF ReplaceParquet
<1>22. ASSUME NEW c \in Client, ReplaceMeta(c) PROVE PartsInv'
  BY <1>22 DEF ReplaceMeta, Leave
<1>23. ASSUME NEW c \in Client, StoreFails(c) PROVE PartsInv'
  BY <1>23 DEF StoreFails, CutShort, Fault
<1>24. ASSUME NEW c \in Client, Cleanup(c) PROVE PartsInv'
  BY <1>24 DEF Cleanup, NoParts, Leave
<1>25. ASSUME NEW c \in Client, CopyParquet(c) PROVE PartsInv'
  BY <1>25 DEF CopyParquet
<1>26. ASSUME NEW c \in Client, Export(c) PROVE PartsInv'
  BY <1>26 DEF Export
<1>27. ASSUME NEW c \in Client, ExportFails(c) PROVE PartsInv'
  BY <1>27 DEF ExportFails, NoParts, CutShort, Fault
<1>28. ASSUME NEW c \in Client, EntryCrash(c) PROVE PartsInv'
  BY <1>28 DEF EntryCrash, Fault
<1>29. ASSUME NEW c \in Client, EntryInterrupted(c) PROVE PartsInv'
  BY <1>29 DEF EntryInterrupted, CutShort, Fault
<1>30. ASSUME NEW c \in Client, LoseLock(c) PROVE PartsInv'
  BY <1>30 DEF LoseLock, Fault
<1>32. ASSUME NEW c \in Client, RetryFails(c) PROVE PartsInv'
  BY <1>32 DEF RetryFails, Fault
<1>33. ASSUME NEW c \in Client, CleanupFails(c) PROVE PartsInv'
  BY <1>33 DEF CleanupFails, Leave
<1>31. CASE UNCHANGED vars
  BY <1>31 DEF vars
<1> QED
  BY <1>1, <1>2, <1>3, <1>4, <1>5, <1>6, <1>7, <1>8, <1>9, <1>10, <1>11, <1>12, <1>13, <1>14, <1>15, <1>16, <1>17, <1>18, <1>19, <1>20, <1>21, <1>22, <1>23, <1>24, <1>25, <1>26, <1>27, <1>28, <1>29, <1>30, <1>31, <1>32, <1>33
  DEF EntryNext, CallStep, FaultStep

\* With any number of clients and faults, a call has no part file when it returns, whatever
\* failed on its way and however often it loaded again, and none when it raises, unless it
\* was interrupted or a removal failed; nor when it begins a load or an export.
THEOREM CallsLeaveNoLitter == EntrySpec => []NoLitter
<1>1. PartsInv => NoLitter
  BY DEF PartsInv, Leaving, NoLitter
<1> QED
  BY <1>1, EntryInvInit, EntryInvStep, PartsInit, PartsStep, PTL DEF EntrySpec
=============================================================================
