--------------------------- MODULE EntryLockProofs ---------------------------
(* Theorems about how the calls of CacheEntry use the lock, for any number   *)
(* of clients and any faults.                                                *)
EXTENDS CacheEntryProofs

USE DEF Value, Goto, Set

-----------------------------------------------------------------------------
(* Where a call holds what                                                   *)

\* The side of the lock and the outcome follow a call's way.
PathInv ==
  \A c \in Client :
    /\ pc[c] \in Alone \union {"retract"} => side[c] = "write"
    /\ pc[c] \in {"version", "r_lock", "announce", "w_lock"} => side[c] = "read"
    /\ pc[c] \in (Under \ {"unlock"}) \union Alone \union {"version", "r_lock", "announce", "w_lock"}
         => outcome[c] = "miss"
    /\ pc[c] = "unlock" => outcome[c] # (IF side[c] = "read" THEN "stored" ELSE "miss")
    /\ pc[c] = "retract" => outcome[c] # "miss"

\* CallsKeepToTheLock is the rest of the invariant; it needs to be known who is dead.
DeadInv == dead = {c \in Client : pc[c] = "dead"}

LockUseInv == PathInv /\ DeadInv /\ CallsKeepToTheLock

LEMMA PathInit == EntryInit => PathInv
  BY DEF EntryInit, PathInv, Under, Alone

LEMMA PathStep == EntryInv /\ PathInv /\ [EntryNext]_vars => PathInv'
<1> SUFFICES ASSUME EntryInv, PathInv, [EntryNext]_vars PROVE PathInv'
  OBVIOUS
<1> USE DEF EntryInv, EntryTypeOK, PathInv, Under, Alone, Outside, files, locals
<1>1. CASE SourceChanges
  BY <1>1 DEF SourceChanges
<1>2. CASE Damage
  BY <1>2 DEF Damage, Fault, NoMeta
<1>3. CASE BreakIntent
  BY <1>3 DEF BreakIntent, AbsBreak
<1>4. ASSUME NEW c \in Client, Call(c) PROVE PathInv'
  BY <1>4 DEF Call, NoParts
<1>5. ASSUME NEW c \in Client, ReadVersion(c) PROVE PathInv'
  BY <1>5 DEF ReadVersion
<1>6. ASSUME NEW c \in Client, ReadVersionFails(c) PROVE PathInv'
  BY <1>6 DEF ReadVersionFails, Fault
<1>7. ASSUME NEW c \in Client, LockRead(c) PROVE PathInv'
  BY <1>7 DEF LockRead, AbsBeginRead
<1>8. ASSUME NEW c \in Client, Announce(c) PROVE PathInv'
  BY <1>8 DEF Announce, AbsAnnounce
<1>9. ASSUME NEW c \in Client, LockWrite(c) PROVE PathInv'
  BY <1>9 DEF LockWrite, AbsBeginWrite
<1>10. ASSUME NEW c \in Client, Unlock(c) PROVE PathInv'
  BY <1>10 DEF Unlock, AbsEndRead, AbsEndWrite
<1>11. ASSUME NEW c \in Client, Retract(c) PROVE PathInv'
  BY <1>11 DEF Retract, AbsRetract
<1>12. ASSUME NEW c \in Client, CheckMeta(c) PROVE PathInv'
  BY <1>12 DEF CheckMeta, Reject, Leave
<1>13. ASSUME NEW c \in Client, CheckHash(c) PROVE PathInv'
  BY <1>13 DEF CheckHash, Reject, Leave
<1>14. ASSUME NEW c \in Client, ReadParquet(c) PROVE PathInv'
  BY <1>14 DEF ReadParquet, Reject, Leave
<1>15. ASSUME NEW c \in Client, VersionBefore(c) PROVE PathInv'
  BY <1>15 DEF VersionBefore
<1>16. ASSUME NEW c \in Client, Load(c) PROVE PathInv'
  BY <1>16 DEF Load
<1>17. ASSUME NEW c \in Client, VersionAfter(c) PROVE PathInv'
  BY <1>17 DEF VersionAfter, NoParts
<1>18. ASSUME NEW c \in Client, LoadFails(c) PROVE PathInv'
  BY <1>18 DEF LoadFails, CutShort, Fault
<1>19. ASSUME NEW c \in Client, WritePart(c) PROVE PathInv'
  BY <1>19 DEF WritePart
<1>20. ASSUME NEW c \in Client, WriteMetadata(c) PROVE PathInv'
  BY <1>20 DEF WriteMetadata
<1>21. ASSUME NEW c \in Client, ReplaceParquet(c) PROVE PathInv'
  BY <1>21 DEF ReplaceParquet
<1>22. ASSUME NEW c \in Client, ReplaceMeta(c) PROVE PathInv'
  BY <1>22 DEF ReplaceMeta, Leave
<1>23. ASSUME NEW c \in Client, StoreFails(c) PROVE PathInv'
  BY <1>23 DEF StoreFails, CutShort, Fault
<1>24. ASSUME NEW c \in Client, Cleanup(c) PROVE PathInv'
  BY <1>24 DEF Cleanup, NoParts, Leave
<1>25. ASSUME NEW c \in Client, CopyParquet(c) PROVE PathInv'
  BY <1>25 DEF CopyParquet
<1>26. ASSUME NEW c \in Client, Export(c) PROVE PathInv'
  BY <1>26 DEF Export
<1>27. ASSUME NEW c \in Client, ExportFails(c) PROVE PathInv'
  BY <1>27 DEF ExportFails, NoParts, CutShort, Fault
<1>28. ASSUME NEW c \in Client, EntryCrash(c) PROVE PathInv'
  BY <1>28 DEF EntryCrash, Fault, AbsDie
<1>29. ASSUME NEW c \in Client, EntryInterrupted(c) PROVE PathInv'
  BY <1>29 DEF EntryInterrupted, CutShort, Fault
<1>30. ASSUME NEW c \in Client, LoseLock(c) PROVE PathInv'
  BY <1>30 DEF LoseLock, Fault
<1>32. ASSUME NEW c \in Client, RetryFails(c) PROVE PathInv'
  BY <1>32 DEF RetryFails, Fault
<1>33. ASSUME NEW c \in Client, CleanupFails(c) PROVE PathInv'
  BY <1>33 DEF CleanupFails, Leave
<1>31. CASE UNCHANGED vars
  BY <1>31 DEF vars
<1> QED
  BY <1>1, <1>2, <1>3, <1>4, <1>5, <1>6, <1>7, <1>8, <1>9, <1>10, <1>11, <1>12, <1>13,
     <1>14, <1>15, <1>16, <1>17, <1>18, <1>19, <1>20, <1>21, <1>22, <1>23, <1>24, <1>25,
     <1>26, <1>27, <1>28, <1>29, <1>30, <1>31, <1>32, <1>33
  DEF EntryNext, CallStep, FaultStep

LEMMA HoldsInit == EntryInit => DeadInv /\ CallsKeepToTheLock
  BY EntryAssumption DEF EntryInit, AbsInit, DeadInv, CallsKeepToTheLock, UnderRead, UnderWrite, Intending, Under, Alone

LEMMA HoldsStep == EntryInv /\ PathInv /\ DeadInv /\ CallsKeepToTheLock /\ [EntryNext]_vars => (DeadInv /\ CallsKeepToTheLock)'
<1> SUFFICES ASSUME EntryInv, PathInv, DeadInv, CallsKeepToTheLock, [EntryNext]_vars PROVE (DeadInv /\ CallsKeepToTheLock)'
  OBVIOUS
<1> USE EntryAssumption DEF EntryInv, EntryTypeOK, PathInv, DeadInv, CallsKeepToTheLock, UnderRead, UnderWrite, Intending,
            Under, Alone, Outside, absVars, files, locals
<1>1. CASE SourceChanges
  BY <1>1 DEF SourceChanges
<1>2. CASE Damage
  BY <1>2 DEF Damage, Fault, NoMeta
<1>3. CASE BreakIntent
  BY <1>3 DEF BreakIntent, AbsBreak
<1>4. ASSUME NEW c \in Client, Call(c) PROVE (DeadInv /\ CallsKeepToTheLock)'
  BY <1>4 DEF Call, NoParts
<1>5. ASSUME NEW c \in Client, ReadVersion(c) PROVE (DeadInv /\ CallsKeepToTheLock)'
  BY <1>5 DEF ReadVersion
<1>6. ASSUME NEW c \in Client, ReadVersionFails(c) PROVE (DeadInv /\ CallsKeepToTheLock)'
  BY <1>6 DEF ReadVersionFails, Fault
<1>7. ASSUME NEW c \in Client, LockRead(c) PROVE (DeadInv /\ CallsKeepToTheLock)'
  BY <1>7 DEF LockRead, AbsBeginRead
<1>8. ASSUME NEW c \in Client, Announce(c) PROVE (DeadInv /\ CallsKeepToTheLock)'
  BY <1>8 DEF Announce, AbsAnnounce
<1>9. ASSUME NEW c \in Client, LockWrite(c) PROVE (DeadInv /\ CallsKeepToTheLock)'
  BY <1>9 DEF LockWrite, AbsBeginWrite
<1>10. ASSUME NEW c \in Client, Unlock(c) PROVE (DeadInv /\ CallsKeepToTheLock)'
  BY <1>10 DEF Unlock, AbsEndRead, AbsEndWrite
<1>11. ASSUME NEW c \in Client, Retract(c) PROVE (DeadInv /\ CallsKeepToTheLock)'
  BY <1>11 DEF Retract, AbsRetract
<1>12. ASSUME NEW c \in Client, CheckMeta(c) PROVE (DeadInv /\ CallsKeepToTheLock)'
  BY <1>12 DEF CheckMeta, Reject, Leave
<1>13. ASSUME NEW c \in Client, CheckHash(c) PROVE (DeadInv /\ CallsKeepToTheLock)'
  BY <1>13 DEF CheckHash, Reject, Leave
<1>14. ASSUME NEW c \in Client, ReadParquet(c) PROVE (DeadInv /\ CallsKeepToTheLock)'
  BY <1>14 DEF ReadParquet, Reject, Leave
<1>15. ASSUME NEW c \in Client, VersionBefore(c) PROVE (DeadInv /\ CallsKeepToTheLock)'
  BY <1>15 DEF VersionBefore
<1>16. ASSUME NEW c \in Client, Load(c) PROVE (DeadInv /\ CallsKeepToTheLock)'
  BY <1>16 DEF Load
<1>17. ASSUME NEW c \in Client, VersionAfter(c) PROVE (DeadInv /\ CallsKeepToTheLock)'
  BY <1>17 DEF VersionAfter, NoParts
<1>18. ASSUME NEW c \in Client, LoadFails(c) PROVE (DeadInv /\ CallsKeepToTheLock)'
  BY <1>18 DEF LoadFails, CutShort, Fault
<1>19. ASSUME NEW c \in Client, WritePart(c) PROVE (DeadInv /\ CallsKeepToTheLock)'
  BY <1>19 DEF WritePart
<1>20. ASSUME NEW c \in Client, WriteMetadata(c) PROVE (DeadInv /\ CallsKeepToTheLock)'
  BY <1>20 DEF WriteMetadata
<1>21. ASSUME NEW c \in Client, ReplaceParquet(c) PROVE (DeadInv /\ CallsKeepToTheLock)'
  BY <1>21 DEF ReplaceParquet
<1>22. ASSUME NEW c \in Client, ReplaceMeta(c) PROVE (DeadInv /\ CallsKeepToTheLock)'
  BY <1>22 DEF ReplaceMeta, Leave
<1>23. ASSUME NEW c \in Client, StoreFails(c) PROVE (DeadInv /\ CallsKeepToTheLock)'
  BY <1>23 DEF StoreFails, CutShort, Fault
<1>24. ASSUME NEW c \in Client, Cleanup(c) PROVE (DeadInv /\ CallsKeepToTheLock)'
  BY <1>24 DEF Cleanup, NoParts, Leave
<1>25. ASSUME NEW c \in Client, CopyParquet(c) PROVE (DeadInv /\ CallsKeepToTheLock)'
  BY <1>25 DEF CopyParquet
<1>26. ASSUME NEW c \in Client, Export(c) PROVE (DeadInv /\ CallsKeepToTheLock)'
  BY <1>26 DEF Export
<1>27. ASSUME NEW c \in Client, ExportFails(c) PROVE (DeadInv /\ CallsKeepToTheLock)'
  BY <1>27 DEF ExportFails, NoParts, CutShort, Fault
<1>28. ASSUME NEW c \in Client, EntryCrash(c) PROVE (DeadInv /\ CallsKeepToTheLock)'
  BY <1>28 DEF EntryCrash, Fault, AbsDie
<1>29. ASSUME NEW c \in Client, EntryInterrupted(c) PROVE (DeadInv /\ CallsKeepToTheLock)'
  BY <1>29 DEF EntryInterrupted, CutShort, Fault
<1>30. ASSUME NEW c \in Client, LoseLock(c) PROVE (DeadInv /\ CallsKeepToTheLock)'
  BY <1>30 DEF LoseLock, Fault
<1>32. ASSUME NEW c \in Client, RetryFails(c) PROVE (DeadInv /\ CallsKeepToTheLock)'
  BY <1>32 DEF RetryFails, Fault
<1>33. ASSUME NEW c \in Client, CleanupFails(c) PROVE (DeadInv /\ CallsKeepToTheLock)'
  BY <1>33 DEF CleanupFails, Leave
<1>31. CASE UNCHANGED vars
  BY <1>31 DEF vars
<1> QED
  BY <1>1, <1>2, <1>3, <1>4, <1>5, <1>6, <1>7, <1>8, <1>9, <1>10, <1>11, <1>12, <1>13,
     <1>14, <1>15, <1>16, <1>17, <1>18, <1>19, <1>20, <1>21, <1>22, <1>23, <1>24, <1>25,
     <1>26, <1>27, <1>28, <1>29, <1>30, <1>31, <1>32, <1>33
  DEF EntryNext, CallStep, FaultStep

LEMMA LockUseInit == EntryInit => EntryInv /\ LockUseInv
  BY EntryInvInit, PathInit, HoldsInit DEF LockUseInv

LEMMA LockUseStep == EntryInv /\ LockUseInv /\ [EntryNext]_vars => EntryInv' /\ LockUseInv'
  BY EntryInvStep, PathStep, HoldsStep DEF LockUseInv

LEMMA LockUseAlways == EntrySpec => [](EntryInv /\ LockUseInv)
  BY LockUseInit, LockUseStep, PTL DEF EntrySpec

-----------------------------------------------------------------------------
(* The lock is used as it is promised                                        *)

\* A step of the entry is one of the lock, or leaves the lock alone.
LEMMA StepsOfTheLock ==
  EntryInv /\ LockUseInv /\ [EntryNext]_vars => [lost' \/ AbsNext]_absVars
<1> SUFFICES ASSUME EntryInv, LockUseInv, [EntryNext]_vars, ~lost', ~(UNCHANGED absVars)
             PROVE  AbsNext
  OBVIOUS
<1> USE EntryAssumption DEF LockUseInv, PathInv, DeadInv, CallsKeepToTheLock, UnderRead, UnderWrite, Intending,
                            Under, Alone, Client
<1>1. CASE BreakIntent
  BY <1>1 DEF BreakIntent, AbsNext
<1>2. ASSUME NEW c \in Client, LockRead(c) PROVE AbsNext
  BY <1>2 DEF LockRead, AbsNext
<1>3. ASSUME NEW c \in Client, Announce(c) PROVE AbsNext
  BY <1>3 DEF Announce, AbsNext
<1>4. ASSUME NEW c \in Client, LockWrite(c) PROVE AbsNext
  BY <1>4 DEF LockWrite, AbsNext
<1>5. ASSUME NEW c \in Client, Unlock(c) PROVE AbsNext
  BY <1>5 DEF Unlock, AbsNext
<1>6. ASSUME NEW c \in Client, Retract(c) PROVE AbsNext
  <2>1. intent = c
    BY <1>6 DEF Retract
  <2> QED
    BY <1>6, <2>1 DEF Retract, AbsNext
<1>7. ASSUME NEW c \in Client, EntryCrash(c) PROVE AbsNext
  BY <1>7 DEF EntryCrash, AbsNext
<1>8. ASSUME NEW c \in Client, LoseLock(c) PROVE FALSE
  BY <1>8 DEF LoseLock
<1>9. ASSUME SourceChanges \/ Damage \/ UNCHANGED vars PROVE FALSE
  BY <1>9 DEF SourceChanges, Damage, vars
<1>10. ASSUME NEW c \in Client, Call(c) \/ ReadVersion(c) \/ CheckMeta(c) \/ CheckHash(c) \/ ReadParquet(c)
       PROVE  FALSE
  BY <1>10 DEF Call, ReadVersion, CheckMeta, CheckHash, ReadParquet
<1>11. ASSUME NEW c \in Client, VersionBefore(c) \/ Load(c) \/ VersionAfter(c) \/ WritePart(c)
                                \/ WriteMetadata(c) \/ ReplaceParquet(c) \/ ReplaceMeta(c) \/ Cleanup(c)
       PROVE  FALSE
  BY <1>11 DEF VersionBefore, Load, VersionAfter, WritePart, WriteMetadata, ReplaceParquet, ReplaceMeta,
               Cleanup
<1>12. ASSUME NEW c \in Client, CopyParquet(c) \/ Export(c) \/ ReadVersionFails(c) \/ LoadFails(c) \/ RetryFails(c)
                                \/ StoreFails(c) \/ CleanupFails(c) \/ ExportFails(c) \/ EntryInterrupted(c)
       PROVE  FALSE
  BY <1>12 DEF CopyParquet, Export, ReadVersionFails, LoadFails, RetryFails, StoreFails, CleanupFails, ExportFails, EntryInterrupted
<1> QED
  BY <1>1, <1>2, <1>3, <1>4, <1>5, <1>6, <1>7, <1>8, <1>9, <1>10, <1>11, <1>12
  DEF EntryNext, CallStep, FaultStep

\* With any number of clients, whatever fails, crashes or is interrupted: outside of its
\* sections a call holds nothing of the lock, and in them it holds what it should, until
\* someone loses a lock.
THEOREM CallsUseTheLock == EntrySpec => []CallsKeepToTheLock
<1>1. LockUseInv => CallsKeepToTheLock
  BY DEF LockUseInv
<1> QED
  BY <1>1, LockUseAlways, PTL

LEMMA NothingIsLost ==
  ASSUME "lock" \notin EntryFaults PROVE EntrySpec => []~lost
<1>1. EntryInit => ~lost
  BY DEF EntryInit
<1>2. ~lost /\ [EntryNext]_vars => ~lost'
  <2> SUFFICES ASSUME ~lost, [EntryNext]_vars PROVE UNCHANGED lost
    OBVIOUS
  <2>1. CASE SourceChanges \/ Damage \/ BreakIntent \/ UNCHANGED vars
    BY <2>1 DEF SourceChanges, Damage, BreakIntent, vars
  <2>2. ASSUME NEW c \in Client, Call(c) PROVE UNCHANGED lost
    BY <2>2 DEF Call, NoParts
  <2>3. ASSUME NEW c \in Client, CallStep(c) PROVE UNCHANGED lost
    BY <2>3 DEF CallStep, ReadVersion, LockRead, Announce, LockWrite, Unlock, Retract, CheckMeta, CheckHash,
                ReadParquet, VersionBefore, Load, VersionAfter, WritePart, WriteMetadata, ReplaceParquet,
                ReplaceMeta, Cleanup, CopyParquet, Export
  <2>4. ASSUME NEW c \in Client, FaultStep(c) PROVE UNCHANGED lost
    BY <2>4 DEF FaultStep, ReadVersionFails, LoadFails, RetryFails, StoreFails, CleanupFails, ExportFails, EntryCrash,
                EntryInterrupted, LoseLock, Fault
  <2> QED
    BY <2>1, <2>2, <2>3, <2>4 DEF EntryNext
<1> QED
  BY <1>1, <1>2, PTL DEF EntrySpec

\* Where no lock is lost the calls and the lock together are an RWLock: what is proved of
\* MkdirLock and of CacheEntry fits together at that module.
THEOREM EntryImplementsRWLock ==
  ASSUME "lock" \notin EntryFaults PROVE EntrySpec => AbsSpec
<1>1. EntryInit => AbsInit
  BY DEF EntryInit
<1>2. EntryInv /\ LockUseInv /\ ~lost' /\ [EntryNext]_vars => [AbsNext]_absVars
  BY StepsOfTheLock
<1> QED
  BY <1>1, <1>2, LockUseAlways, NothingIsLost, PTL DEF EntrySpec, AbsSpec

-----------------------------------------------------------------------------
(* Nobody waits for ever on others that wait                                 *)

LEMMA NotAllWait == EntryInv /\ LockUseInv => SomeCallGoesOn
<1> SUFFICES ASSUME EntryInv, LockUseInv, intent \notin dead, NEW c \in Client, Running(c),
                    \A d \in Client : Running(d) => Waits(d)
             PROVE  FALSE
  BY DEF SomeCallGoesOn
<1> USE EntryAssumption DEF EntryInv, EntryTypeOK, LockUseInv, PathInv, DeadInv, CallsKeepToTheLock, UnderRead, UnderWrite,
                            Intending, Under, Alone, Running, Waits
<1>1. reading = {}
  <2> SUFFICES ASSUME NEW r \in reading PROVE FALSE
    OBVIOUS
  <2>1. r \in Client /\ UnderRead(r) /\ Running(r)
    OBVIOUS
  <2> QED
    BY <2>1
<1>2. intent = NoOne
  <2> SUFFICES ASSUME intent # NoOne PROVE FALSE
    OBVIOUS
  <2>1. intent \in Client /\ Intending(intent) /\ Running(intent)
    OBVIOUS
  <2>2. intent \notin writing \/ UnderWrite(intent)
    OBVIOUS
  <2> QED
    BY <1>1, <2>1, <2>2
<1>3. c \notin dead \union reading \/ pc[c] = "dead"
  BY <1>1
<1>4. Waits(c)
  OBVIOUS
<1> QED
  BY <1>1, <1>2, <1>3, <1>4

\* With any number of clients, whatever fails or is lost, calls never all wait for one
\* another: whoever keeps others waiting can go on itself, or is dead.
THEOREM CallsNeverAllWait == EntrySpec => []SomeCallGoesOn
  BY NotAllWait, LockUseAlways, PTL
=============================================================================
