-------------------------- MODULE MkdirLockProofs --------------------------
(* Theorems about MkdirLock, for any number of clients and any faults.       *)
EXTENDS MkdirLock, TLAPS

USE DEF Client, Token

\* A heartbeat period is a number of ticks.
LEMMA HeartbeatAgeNat == HeartbeatAge \in Nat \ {0} /\ DefaultHeartbeat \in Nat \ {0}
  BY TimeAssumption, StaleAssumption DEF HeartbeatAge, DefaultHeartbeat

\* The default heartbeat (lines 64-65) is in time whatever stale_lock_seconds is,
\* but for a poll_seconds that is longer than it.
THEOREM DefaultHeartbeatInTime == DefaultHeartbeat <= StaleAge <=> PollAge <= StaleAge
  BY TimeAssumption, StaleAssumption DEF DefaultHeartbeat

\* The initial state is well typed.
LEMMA TypeOKInit == Init => TypeOK
  BY NamesAssumption, StaleAssumption, RetriesAssumption, FaultsAssumption
  DEF Init, TypeOK, Pc, ReaderPc, WriterPc, Removing, Down

\* The step of the induction, one case per action.
LEMMA TypeOKStep == TypeOK /\ [Next]_vars => TypeOK'
<1> SUFFICES ASSUME TypeOK, [Next]_vars PROVE TypeOK'
  OBVIOUS
<1> USE NamesAssumption, StaleAssumption, RetriesAssumption, FaultsAssumption
<1> USE DEF TypeOK, Pc, ReaderPc, WriterPc, Removing, Down, Goto, Exists, fsVars, rmVars, scanVars
<1>1. CASE Tick
  BY <1>1 DEF Tick
<1>2. ASSUME NEW c \in Client, R_Start(c) PROVE TypeOK'
  BY <1>2 DEF R_Start
<1>3. ASSUME NEW c \in Client, R_Check(c) PROVE TypeOK'
  BY <1>3 DEF R_Check, Remove
<1>4. ASSUME NEW c \in Client, R_Mkdir(c) PROVE TypeOK'
  BY <1>4 DEF R_Mkdir, Remove, Mkdir
<1>5. ASSUME NEW c \in Client, R_MkdirFails(c) PROVE TypeOK'
  BY <1>5 DEF R_MkdirFails, Fault
<1>6. ASSUME NEW c \in Client, R_Meta(c) PROVE TypeOK'
  BY <1>6 DEF R_Meta, Touch
<1>7. ASSUME NEW c \in Client, R_MetaFails(c) PROVE TypeOK'
  BY <1>7 DEF R_MetaFails, Remove, Fault
<1>8. ASSUME NEW c \in Client, R_Recheck(c) PROVE TypeOK'
  BY <1>8 DEF R_Recheck, StopHeartbeat, Fault, Remove
<1>9. ASSUME NEW c \in Client, R_Release(c) PROVE TypeOK'
  BY <1>9 DEF R_Release, StopHeartbeat, Fault, Remove
<1>10. ASSUME NEW c \in Client, W_Start(c) PROVE TypeOK'
  BY <1>10 DEF W_Start
<1>11. ASSUME NEW c \in Client, W_Mkdir(c) PROVE TypeOK'
  BY <1>11 DEF W_Mkdir, Remove, Mkdir
<1>12. ASSUME NEW c \in Client, W_Meta(c) PROVE TypeOK'
  BY <1>12 DEF W_Meta, Touch
<1>13. ASSUME NEW c \in Client, W_IoFails(c) PROVE TypeOK'
  BY <1>13 DEF W_IoFails, Fault
<1>14. ASSUME NEW c \in Client, W_Scan(c) PROVE TypeOK'
  BY <1>14 DEF W_Scan
<1>15. ASSUME NEW c \in Client, W_ScanFails(c) PROVE TypeOK'
  BY <1>15 DEF W_ScanFails, Remove, Fault
<1>16. ASSUME NEW c \in Client, W_Look(c) PROVE TypeOK'
  BY <1>16 DEF W_Look, Remove
<1>17. ASSUME NEW c \in Client, W_Looked(c) PROVE TypeOK'
  BY <1>17 DEF W_Looked
<1>18. ASSUME NEW c \in Client, W_Release(c) PROVE TypeOK'
  BY <1>18 DEF W_Release, StopHeartbeat, Fault, Remove
<1>19. ASSUME NEW c \in Client, Unlink(c) PROVE TypeOK'
  BY <1>19 DEF Unlink
<1>20. ASSUME NEW c \in Client, Rmdir(c) PROVE TypeOK'
  BY <1>20 DEF Rmdir
<1>21. ASSUME NEW c \in Client, RmdirFails(c) PROVE TypeOK'
  BY <1>21 DEF RmdirFails, Fault
<1>22. ASSUME NEW c \in Client, Gone(c) PROVE TypeOK'
  BY <1>22 DEF Gone
<1>23. ASSUME NEW c \in Client, Beat(c) PROVE TypeOK'
  BY <1>23 DEF Beat, Touch, Stopped
<1>24. ASSUME NEW c \in Client, BeatFails(c) PROVE TypeOK'
  BY <1>24 DEF BeatFails, Fault
<1>25. ASSUME NEW c \in Client, Crash(c) PROVE TypeOK'
  BY <1>25 DEF Crash, Abandon, Fault
<1>27. ASSUME NEW c \in Client, Interrupted(c) PROVE TypeOK'
  BY <1>27 DEF Interrupted, Abandon, Fault, Stopped
<1>28. ASSUME NEW c \in Client, UnlinkFails(c) PROVE TypeOK'
  BY <1>28 DEF UnlinkFails, Abandon, Fault
<1>29. ASSUME NEW c \in Client, R_RecheckFails(c) PROVE TypeOK'
  BY <1>29 DEF R_RecheckFails, Abandon, Fault
<1>26. CASE UNCHANGED vars
  BY <1>26 DEF vars
<1> QED
  BY <1>1, <1>2, <1>3, <1>4, <1>5, <1>6, <1>7, <1>8, <1>9, <1>10, <1>11, <1>12, <1>13, <1>14, <1>15, <1>16, <1>17, <1>18, <1>19, <1>20, <1>21, <1>22, <1>23, <1>24, <1>25, <1>26, <1>27, <1>28, <1>29
  DEF Next, ClientStep, ReaderStep, WriterStep, RemoveStep

\* Every variable stays in its type.
THEOREM TypeCorrect == Spec => []TypeOK
  BY TypeOKInit, TypeOKStep, PTL DEF Spec

-----------------------------------------------------------------------------
(* Exclusion as long as tokens are intact, with any faults and any timing.   *)

IInv == TypeOK /\ ScanCovers /\ IntactExclusion

LEMMA ExclusionInit == Init => IInv
  BY TypeOKInit DEF Init, IInv, ScanCovers, IntactExclusion, Looking, HoldsRead, HoldsWrite, Removing

\* A reader that gets in found no intent; a writer that gets in has looked at every
\* token it listed after making its intent.
LEMMA ExclusionStep == IInv /\ [Next]_vars => IInv'
<1> SUFFICES ASSUME IInv, [Next]_vars PROVE (ScanCovers /\ IntactExclusion)'
  BY TypeOKStep DEF IInv
<1> USE NamesAssumption
<1> USE DEF IInv, TypeOK, ScanCovers, IntactExclusion, Looking, HoldsRead, HoldsWrite,
            Pc, ReaderPc, WriterPc, Removing, Down, Goto, Exists, fsVars, rmVars, scanVars
<1>1. CASE Tick
  BY <1>1 DEF Tick
<1>2. ASSUME NEW c \in Client, R_Start(c) PROVE (ScanCovers /\ IntactExclusion)'
  BY <1>2 DEF R_Start
<1>3. ASSUME NEW c \in Client, R_Check(c) PROVE (ScanCovers /\ IntactExclusion)'
  BY <1>3 DEF R_Check, Remove
<1>4. ASSUME NEW c \in Client, R_Mkdir(c) PROVE (ScanCovers /\ IntactExclusion)'
  BY <1>4 DEF R_Mkdir, Remove, Mkdir
<1>5. ASSUME NEW c \in Client, R_MkdirFails(c) PROVE (ScanCovers /\ IntactExclusion)'
  BY <1>5 DEF R_MkdirFails, Fault
<1>6. ASSUME NEW c \in Client, R_Meta(c) PROVE (ScanCovers /\ IntactExclusion)'
  BY <1>6 DEF R_Meta, Touch
<1>7. ASSUME NEW c \in Client, R_MetaFails(c) PROVE (ScanCovers /\ IntactExclusion)'
  BY <1>7 DEF R_MetaFails, Remove, Fault
<1>8. ASSUME NEW c \in Client, R_Recheck(c) PROVE (ScanCovers /\ IntactExclusion)'
  BY <1>8 DEF R_Recheck, StopHeartbeat, Fault, Remove
<1>9. ASSUME NEW c \in Client, R_Release(c) PROVE (ScanCovers /\ IntactExclusion)'
  BY <1>9 DEF R_Release, StopHeartbeat, Fault, Remove
<1>10. ASSUME NEW c \in Client, W_Start(c) PROVE (ScanCovers /\ IntactExclusion)'
  BY <1>10 DEF W_Start
<1>11. ASSUME NEW c \in Client, W_Mkdir(c) PROVE (ScanCovers /\ IntactExclusion)'
  BY <1>11 DEF W_Mkdir, Remove, Mkdir
<1>12. ASSUME NEW c \in Client, W_Meta(c) PROVE (ScanCovers /\ IntactExclusion)'
  BY <1>12 DEF W_Meta, Touch
<1>13. ASSUME NEW c \in Client, W_IoFails(c) PROVE (ScanCovers /\ IntactExclusion)'
  BY <1>13 DEF W_IoFails, Fault
<1>14. ASSUME NEW c \in Client, W_Scan(c) PROVE (ScanCovers /\ IntactExclusion)'
  BY <1>14 DEF W_Scan
<1>15. ASSUME NEW c \in Client, W_ScanFails(c) PROVE (ScanCovers /\ IntactExclusion)'
  BY <1>15 DEF W_ScanFails, Remove, Fault
<1>16. ASSUME NEW c \in Client, W_Look(c) PROVE (ScanCovers /\ IntactExclusion)'
  BY <1>16 DEF W_Look, Remove
<1>17. ASSUME NEW c \in Client, W_Looked(c) PROVE (ScanCovers /\ IntactExclusion)'
  BY <1>17 DEF W_Looked
<1>18. ASSUME NEW c \in Client, W_Release(c) PROVE (ScanCovers /\ IntactExclusion)'
  BY <1>18 DEF W_Release, StopHeartbeat, Fault, Remove
<1>19. ASSUME NEW c \in Client, Unlink(c) PROVE (ScanCovers /\ IntactExclusion)'
  BY <1>19 DEF Unlink
<1>20. ASSUME NEW c \in Client, Rmdir(c) PROVE (ScanCovers /\ IntactExclusion)'
  BY <1>20 DEF Rmdir
<1>21. ASSUME NEW c \in Client, RmdirFails(c) PROVE (ScanCovers /\ IntactExclusion)'
  BY <1>21 DEF RmdirFails, Fault
<1>22. ASSUME NEW c \in Client, Gone(c) PROVE (ScanCovers /\ IntactExclusion)'
  BY <1>22 DEF Gone
<1>23. ASSUME NEW c \in Client, Beat(c) PROVE (ScanCovers /\ IntactExclusion)'
  BY <1>23 DEF Beat, Touch, Stopped
<1>24. ASSUME NEW c \in Client, BeatFails(c) PROVE (ScanCovers /\ IntactExclusion)'
  BY <1>24 DEF BeatFails, Fault
<1>25. ASSUME NEW c \in Client, Crash(c) PROVE (ScanCovers /\ IntactExclusion)'
  BY <1>25 DEF Crash, Abandon, Fault
<1>27. ASSUME NEW c \in Client, Interrupted(c) PROVE (ScanCovers /\ IntactExclusion)'
  BY <1>27 DEF Interrupted, Abandon, Fault, Stopped
<1>28. ASSUME NEW c \in Client, UnlinkFails(c) PROVE (ScanCovers /\ IntactExclusion)'
  BY <1>28 DEF UnlinkFails, Abandon, Fault
<1>29. ASSUME NEW c \in Client, R_RecheckFails(c) PROVE (ScanCovers /\ IntactExclusion)'
  BY <1>29 DEF R_RecheckFails, Abandon, Fault
<1>26. CASE UNCHANGED vars
  BY <1>26 DEF vars
<1> QED
  BY <1>1, <1>2, <1>3, <1>4, <1>5, <1>6, <1>7, <1>8, <1>9, <1>10, <1>11, <1>12, <1>13,
     <1>14, <1>15, <1>16, <1>17, <1>18, <1>19, <1>20, <1>21, <1>22, <1>23, <1>24, <1>25, <1>26, <1>27, <1>28, <1>29
  DEF Next, ClientStep, ReaderStep, WriterStep, RemoveStep

\* A writer whose intent is still its own never writes beside a reader whose token
\* is still there: the recheck after the reader's mkdir against the scan after the
\* writer's, whatever else happens.
THEOREM ExclusionWhileIntact == Spec => []IntactExclusion
  BY ExclusionInit, ExclusionStep, PTL DEF Spec, IInv

\* While a writer looks at the readers it listed, none that got in before its intent
\* is missed: every one is still to be looked at, or was seen.
THEOREM ScansCover == Spec => []ScanCovers
  BY ExclusionInit, ExclusionStep, PTL DEF Spec, IInv

-----------------------------------------------------------------------------
(* Reader tokens under timely heartbeats and crashes: any number of readers  *)
(* and writers.                                                              *)

\* The phases of a reader that has made its token and not begun to remove it.
HasToken(r) == pc[r] \in {"r_meta", "r_recheck", "reading"}

\* A token exists from its creator's mkdir to its creator's rmdir; it is fresh while
\* its creator lives; whoever removes another's token removes a dead client's.
TokenInv ==
  /\ \A c \in Client : pc[c] # "failed" /\ cont[c] # "failed"
  /\ \A c \in Client : hb[c] \in {c, WriterDir, NoOne}
  /\ \A r \in Readers :
       /\ hb[r] = r => pc[r] \in {"r_recheck", "reading"}
       /\ pc[r] \in {"r_recheck", "reading"} => owner[r] = r /\ hb[r] = r
       /\ Exists(r) /\ pc[r] # "dead" =>
            /\ HasToken(r) \/ (pc[r] \in Removing /\ tgt[r] = r)
            /\ age[r] + Skew <= StaleAge
       /\ pc[r] = "rmdir" /\ tgt[r] = r => r \notin meta
       /\ pc[r] = "gone" /\ tgt[r] = r => ~Exists(r)
       /\ \A c \in Client : pc[c] \in Removing /\ tgt[c] = r /\ c # r => pc[r] = "dead"

\* Crashes happen and nothing else; neither a heartbeat nor a client is late, however
\* far a client's clock runs ahead.
OnlyCrashes ==
  /\ HeartbeatAge + Skew <= StaleAge /\ StepAge + Skew <= StaleAge
  /\ Faults \subseteq {"crash"}

LEMMA TokenInvInit == Init => TokenInv
  BY NamesAssumption DEF Init, TokenInv, HasToken, Removing, Exists

\* Only a fresh token survives a tick, only a stale one is broken.
LEMMA TokenInvStep ==
  ASSUME OnlyCrashes PROVE TypeOK /\ TokenInv /\ [Next]_vars => TokenInv'
<1> SUFFICES ASSUME TypeOK, TokenInv, [Next]_vars PROVE TokenInv'
  OBVIOUS
<1> USE NamesAssumption, StaleAssumption, TimeAssumption DEF OnlyCrashes
<1> USE DEF TypeOK, TokenInv, HasToken, Pc, ReaderPc, WriterPc, Removing, Down, Goto, Exists,
            fsVars, rmVars, scanVars
<1>1. CASE Tick
  BY <1>1, HeartbeatAgeNat DEF Tick, Beaten, InHand
<1>2. ASSUME NEW c \in Client, R_Start(c) PROVE TokenInv'
  BY <1>2 DEF R_Start
<1>3. ASSUME NEW c \in Client, R_Check(c) PROVE TokenInv'
  BY <1>3 DEF R_Check, Remove, Stale, AgeSeenBy
<1>4. ASSUME NEW c \in Client, R_Mkdir(c) PROVE TokenInv'
  BY <1>4 DEF R_Mkdir, Remove, Mkdir
<1>5. ASSUME NEW c \in Client, R_MkdirFails(c) PROVE TokenInv'
  BY <1>5 DEF R_MkdirFails, Fault
<1>6. ASSUME NEW c \in Client, R_Meta(c) PROVE TokenInv'
  BY <1>6 DEF R_Meta, Touch
<1>7. ASSUME NEW c \in Client, R_MetaFails(c) PROVE TokenInv'
  BY <1>7 DEF R_MetaFails, Remove, Fault
<1>8. ASSUME NEW c \in Client, R_Recheck(c) PROVE TokenInv'
  BY <1>8 DEF R_Recheck, StopHeartbeat, Fault, Remove
<1>9. ASSUME NEW c \in Client, R_Release(c) PROVE TokenInv'
  BY <1>9 DEF R_Release, StopHeartbeat, Fault, Remove
<1>10. ASSUME NEW c \in Client, W_Start(c) PROVE TokenInv'
  BY <1>10 DEF W_Start
<1>11. ASSUME NEW c \in Client, W_Mkdir(c) PROVE TokenInv'
  BY <1>11 DEF W_Mkdir, Remove, Mkdir, Stale, AgeSeenBy
<1>12. ASSUME NEW c \in Client, W_Meta(c) PROVE TokenInv'
  BY <1>12 DEF W_Meta, Touch
<1>13. ASSUME NEW c \in Client, W_IoFails(c) PROVE TokenInv'
  BY <1>13 DEF W_IoFails, Fault
<1>14. ASSUME NEW c \in Client, W_Scan(c) PROVE TokenInv'
  BY <1>14 DEF W_Scan
<1>15. ASSUME NEW c \in Client, W_ScanFails(c) PROVE TokenInv'
  BY <1>15 DEF W_ScanFails, Remove, Fault
<1>16. ASSUME NEW c \in Client, W_Look(c) PROVE TokenInv'
  BY <1>16 DEF W_Look, Remove, Stale, AgeSeenBy
<1>17. ASSUME NEW c \in Client, W_Looked(c) PROVE TokenInv'
  BY <1>17 DEF W_Looked
<1>18. ASSUME NEW c \in Client, W_Release(c) PROVE TokenInv'
  BY <1>18 DEF W_Release, StopHeartbeat, Fault, Remove
<1>19. ASSUME NEW c \in Client, Unlink(c) PROVE TokenInv'
  BY <1>19 DEF Unlink
<1>20. ASSUME NEW c \in Client, Rmdir(c) PROVE TokenInv'
  BY <1>20 DEF Rmdir
<1>21. ASSUME NEW c \in Client, RmdirFails(c) PROVE TokenInv'
  BY <1>21 DEF RmdirFails, Fault
<1>22. ASSUME NEW c \in Client, Gone(c) PROVE TokenInv'
  BY <1>22 DEF Gone
<1>23. ASSUME NEW c \in Client, Beat(c) PROVE TokenInv'
  BY <1>23 DEF Beat, Touch, Stopped
<1>24. ASSUME NEW c \in Client, BeatFails(c) PROVE TokenInv'
  BY <1>24 DEF BeatFails, Fault
<1>25. ASSUME NEW c \in Client, Crash(c) PROVE TokenInv'
  BY <1>25 DEF Crash, Abandon, Fault
<1>27. ASSUME NEW c \in Client, Interrupted(c) PROVE TokenInv'
  BY <1>27 DEF Interrupted, Abandon, Fault, Stopped
<1>28. ASSUME NEW c \in Client, UnlinkFails(c) PROVE TokenInv'
  BY <1>28 DEF UnlinkFails, Abandon, Fault
<1>29. ASSUME NEW c \in Client, R_RecheckFails(c) PROVE TokenInv'
  BY <1>29 DEF R_RecheckFails, Abandon, Fault
<1>26. CASE UNCHANGED vars
  BY <1>26 DEF vars
<1> QED
  BY <1>1, <1>2, <1>3, <1>4, <1>5, <1>6, <1>7, <1>8, <1>9, <1>10, <1>11, <1>12, <1>13,
     <1>14, <1>15, <1>16, <1>17, <1>18, <1>19, <1>20, <1>21, <1>22, <1>23, <1>24, <1>25, <1>26, <1>27, <1>28, <1>29
  DEF Next, ClientStep, ReaderStep, WriterStep, RemoveStep

\* A reader keeps its token for as long as it reads, although other clients crash
\* and break what the crashed ones left.
THEOREM TokensAreKept ==
  ASSUME OnlyCrashes PROVE Spec => []ReadersKeepTokens
<1>1. TypeOK /\ TokenInv => ReadersKeepTokens
  BY DEF TypeOK, TokenInv, ReadersKeepTokens, HoldsRead, ReaderPc
<1> QED
  BY <1>1, TypeOKInit, TypeOKStep, TokenInvInit, TokenInvStep, PTL DEF Spec

-----------------------------------------------------------------------------
(* A release, with any faults: every removal that fails has its own fault,   *)
(* and there are more removals than faults.                                  *)

Unreliable == "io" \in Faults \/ "late" \in Faults

\* n failures of this release are accounted for by faults that make a removal fail.
Accounted(n) == n <= faults /\ (n > 0 => Unreliable)

\* The removals of r that have failed and, when its heartbeat is still to write, the
\* one that will.
Failed(r) == Retries - tries[r] + (IF hb[r] = r THEN 1 ELSE 0)

\* A reader's token is there while it comes in, reads and leaves; while it leaves, the
\* removals that fail never outnumber the faults.
ReleaseInv ==
  /\ \A c \in Client : hb[c] \in {c, WriterDir, NoOne}
  /\ \A r \in Readers :
       /\ Exists(r) =>
            \/ HasToken(r)
            \/ pc[r] \in {"r_check", "r_mkdir"} \union Down
            \/ pc[r] \in Removing /\ (cont[r] = "r_check" \/ (tgt[r] = r /\ cont[r] \in {"idle", "failed"}))
       /\ tgt[r] = r /\ cont[r] = "idle" =>
            /\ (pc[r] \in {"unlink", "rmdir"}) => Accounted(Failed(r))
            /\ (pc[r] = "rmdir" /\ r \in meta) => Accounted(Failed(r) + 1)
            /\ (pc[r] = "gone" /\ Exists(r)) => Accounted(Failed(r) + 1)

LEMMA ReleaseInvInit == Init => ReleaseInv
  BY NamesAssumption, FaultsAssumption
  DEF Init, ReleaseInv, HasToken, Removing, Exists, Accounted, Failed, Unreliable

\* One removal fails for each fault, none without.
LEMMA ReleaseInvStep == TypeOK /\ ReleaseInv /\ [Next]_vars => ReleaseInv'
<1> SUFFICES ASSUME TypeOK, ReleaseInv, [Next]_vars PROVE ReleaseInv'
  OBVIOUS
<1> USE NamesAssumption, RetriesAssumption, FaultsAssumption
<1> USE DEF TypeOK, ReleaseInv, HasToken, Accounted, Failed, Unreliable, Pc, ReaderPc, WriterPc, Removing,
            Down, Goto, Exists, fsVars, rmVars, scanVars
<1>1. CASE Tick
  BY <1>1 DEF Tick
<1>2. ASSUME NEW c \in Client, R_Start(c) PROVE ReleaseInv'
  BY <1>2 DEF R_Start
<1>3. ASSUME NEW c \in Client, R_Check(c) PROVE ReleaseInv'
  BY <1>3 DEF R_Check, Remove
<1>4. ASSUME NEW c \in Client, R_Mkdir(c) PROVE ReleaseInv'
  BY <1>4 DEF R_Mkdir, Remove, Mkdir
<1>5. ASSUME NEW c \in Client, R_MkdirFails(c) PROVE ReleaseInv'
  BY <1>5 DEF R_MkdirFails, Fault
<1>6. ASSUME NEW c \in Client, R_Meta(c) PROVE ReleaseInv'
  BY <1>6 DEF R_Meta, Touch
<1>7. ASSUME NEW c \in Client, R_MetaFails(c) PROVE ReleaseInv'
  BY <1>7 DEF R_MetaFails, Remove, Fault
<1>8. ASSUME NEW c \in Client, R_Recheck(c) PROVE ReleaseInv'
  BY <1>8 DEF R_Recheck, StopHeartbeat, Fault, Remove
<1>9. ASSUME NEW c \in Client, R_Release(c) PROVE ReleaseInv'
  BY <1>9 DEF R_Release, StopHeartbeat, Fault, Remove
<1>10. ASSUME NEW c \in Client, W_Start(c) PROVE ReleaseInv'
  BY <1>10 DEF W_Start
<1>11. ASSUME NEW c \in Client, W_Mkdir(c) PROVE ReleaseInv'
  BY <1>11 DEF W_Mkdir, Remove, Mkdir
<1>12. ASSUME NEW c \in Client, W_Meta(c) PROVE ReleaseInv'
  BY <1>12 DEF W_Meta, Touch
<1>13. ASSUME NEW c \in Client, W_IoFails(c) PROVE ReleaseInv'
  BY <1>13 DEF W_IoFails, Fault
<1>14. ASSUME NEW c \in Client, W_Scan(c) PROVE ReleaseInv'
  BY <1>14 DEF W_Scan
<1>15. ASSUME NEW c \in Client, W_ScanFails(c) PROVE ReleaseInv'
  BY <1>15 DEF W_ScanFails, Remove, Fault
<1>16. ASSUME NEW c \in Client, W_Look(c) PROVE ReleaseInv'
  BY <1>16 DEF W_Look, Remove
<1>17. ASSUME NEW c \in Client, W_Looked(c) PROVE ReleaseInv'
  BY <1>17 DEF W_Looked
<1>18. ASSUME NEW c \in Client, W_Release(c) PROVE ReleaseInv'
  BY <1>18 DEF W_Release, StopHeartbeat, Fault, Remove
<1>19. ASSUME NEW c \in Client, Unlink(c) PROVE ReleaseInv'
  BY <1>19 DEF Unlink
<1>20. ASSUME NEW c \in Client, Rmdir(c) PROVE ReleaseInv'
  BY <1>20 DEF Rmdir
<1>21. ASSUME NEW c \in Client, RmdirFails(c) PROVE ReleaseInv'
  BY <1>21 DEF RmdirFails, Fault
<1>22. ASSUME NEW c \in Client, Gone(c) PROVE ReleaseInv'
  BY <1>22 DEF Gone
<1>23. ASSUME NEW c \in Client, Beat(c) PROVE ReleaseInv'
  BY <1>23 DEF Beat, Touch, Stopped
<1>24. ASSUME NEW c \in Client, BeatFails(c) PROVE ReleaseInv'
  BY <1>24 DEF BeatFails, Fault
<1>25. ASSUME NEW c \in Client, Crash(c) PROVE ReleaseInv'
  BY <1>25 DEF Crash, Abandon, Fault
<1>26. ASSUME NEW c \in Client, Interrupted(c) PROVE ReleaseInv'
  BY <1>26 DEF Interrupted, Abandon, Fault, Stopped
<1>28. ASSUME NEW c \in Client, UnlinkFails(c) PROVE ReleaseInv'
  BY <1>28 DEF UnlinkFails, Abandon, Fault
<1>29. ASSUME NEW c \in Client, R_RecheckFails(c) PROVE ReleaseInv'
  BY <1>29 DEF R_RecheckFails, Abandon, Fault
<1>27. CASE UNCHANGED vars
  BY <1>27 DEF vars
<1> QED
  BY <1>1, <1>2, <1>3, <1>4, <1>5, <1>6, <1>7, <1>8, <1>9, <1>10, <1>11, <1>12, <1>13, <1>14, <1>15, <1>16, <1>17, <1>18, <1>19, <1>20, <1>21, <1>22, <1>23, <1>24, <1>25, <1>26, <1>27, <1>28, <1>29
  DEF Next, ClientStep, ReaderStep, WriterStep, RemoveStep

\* Removals that fail are repeated until one succeeds, whatever else goes wrong.
THEOREM ReleasesLeaveNothing == Spec => []ReleasedLeavesNoToken
<1>1. TypeOK /\ ReleaseInv => ReleasedLeavesNoToken
  BY DEF TypeOK, ReleaseInv, ReleasedLeavesNoToken, HasToken, Removing, Down, Exists
<1> QED
  BY <1>1, TypeOKInit, TypeOKStep, ReleaseInvInit, ReleaseInvStep, PTL DEF Spec

-----------------------------------------------------------------------------
(* One writer, any number of readers: exclusion outright.                    *)

OneWriter == \A v, w \in Writers : v = w

\* From a writer's mkdir to the release of its intent.
Intends(w) == pc[w] \in {"w_meta", "w_scan", "w_each", "writing"}
              \/ (pc[w] \in Removing /\ cont[w] = "w_each")

\* The intent is the writer's own until it releases it, fresh while it lives, and
\* broken only after it died.
IntentInv ==
  /\ owner[WriterDir] \in Writers \union {NoOne}
  /\ \A c \in Client :
       /\ pc[c] \in WriterPc => c \in Writers
       /\ Intends(c) => c \in Writers /\ owner[WriterDir] = c
       /\ hb[c] = WriterDir <=> Intends(c) /\ pc[c] # "w_meta"
       /\ pc[c] \in Removing /\ cont[c] = "w_mkdir" => c \in Writers
       /\ pc[c] \in Removing /\ cont[c] = "w_each" => tgt[c] \in Readers
       /\ pc[c] \in Removing /\ tgt[c] = WriterDir =>
            \/ cont[c] = "idle" /\ c \in Writers
            \/ cont[c] \in {"r_check", "w_mkdir"} /\ \A w \in Writers : pc[w] = "dead"
       /\ pc[c] = "rmdir" /\ tgt[c] = WriterDir /\ cont[c] = "idle" => WriterDir \notin meta
       /\ pc[c] = "gone" /\ tgt[c] = WriterDir /\ cont[c] = "idle" => ~Exists(WriterDir)
  /\ \A w \in Writers : owner[WriterDir] = w /\ pc[w] # "dead" =>
       /\ Intends(w) \/ (pc[w] \in Removing /\ tgt[w] = WriterDir)
       /\ age[WriterDir] + Skew <= StaleAge

LEMMA IntentInvInit == Init => IntentInv
  BY NamesAssumption DEF Init, IntentInv, Intends, Removing, WriterPc, Exists

\* Nobody but the one writer makes the directory, and nobody but it removes it
\* while it lives.
LEMMA IntentInvStep ==
  ASSUME OnlyCrashes, OneWriter
  PROVE  TypeOK /\ TokenInv /\ IntentInv /\ [Next]_vars => IntentInv'
<1> SUFFICES ASSUME TypeOK, TokenInv, IntentInv, [Next]_vars PROVE IntentInv'
  OBVIOUS
<1> USE NamesAssumption, StaleAssumption, TimeAssumption DEF OnlyCrashes, OneWriter
<1> USE DEF TypeOK, TokenInv, IntentInv, Intends, HasToken, Pc, ReaderPc, WriterPc, Removing, Down,
            Goto, Exists, fsVars, rmVars, scanVars
<1>1. CASE Tick
  BY <1>1, HeartbeatAgeNat DEF Tick, Beaten, InHand
<1>2. ASSUME NEW c \in Client, R_Start(c) PROVE IntentInv'
  BY <1>2 DEF R_Start
<1>3. ASSUME NEW c \in Client, R_Check(c) PROVE IntentInv'
  BY <1>3 DEF R_Check, Remove, Stale, AgeSeenBy
<1>4. ASSUME NEW c \in Client, R_Mkdir(c) PROVE IntentInv'
  BY <1>4 DEF R_Mkdir, Remove, Mkdir
<1>5. ASSUME NEW c \in Client, R_MkdirFails(c) PROVE IntentInv'
  BY <1>5 DEF R_MkdirFails, Fault
<1>6. ASSUME NEW c \in Client, R_Meta(c) PROVE IntentInv'
  BY <1>6 DEF R_Meta, Touch
<1>7. ASSUME NEW c \in Client, R_MetaFails(c) PROVE IntentInv'
  BY <1>7 DEF R_MetaFails, Remove, Fault
<1>8. ASSUME NEW c \in Client, R_Recheck(c) PROVE IntentInv'
  BY <1>8 DEF R_Recheck, StopHeartbeat, Fault, Remove
<1>9. ASSUME NEW c \in Client, R_Release(c) PROVE IntentInv'
  BY <1>9 DEF R_Release, StopHeartbeat, Fault, Remove
<1>10. ASSUME NEW c \in Client, W_Start(c) PROVE IntentInv'
  BY <1>10 DEF W_Start
<1>11. ASSUME NEW c \in Client, W_Mkdir(c) PROVE IntentInv'
  BY <1>11 DEF W_Mkdir, Remove, Mkdir, Stale, AgeSeenBy
<1>12. ASSUME NEW c \in Client, W_Meta(c) PROVE IntentInv'
  BY <1>12 DEF W_Meta, Touch
<1>13. ASSUME NEW c \in Client, W_IoFails(c) PROVE IntentInv'
  BY <1>13 DEF W_IoFails, Fault
<1>14. ASSUME NEW c \in Client, W_Scan(c) PROVE IntentInv'
  BY <1>14 DEF W_Scan
<1>15. ASSUME NEW c \in Client, W_ScanFails(c) PROVE IntentInv'
  BY <1>15 DEF W_ScanFails, Remove, Fault
<1>16. ASSUME NEW c \in Client, W_Look(c) PROVE IntentInv'
  BY <1>16 DEF W_Look, Remove, Stale, AgeSeenBy
<1>17. ASSUME NEW c \in Client, W_Looked(c) PROVE IntentInv'
  BY <1>17 DEF W_Looked
<1>18. ASSUME NEW c \in Client, W_Release(c) PROVE IntentInv'
  BY <1>18 DEF W_Release, StopHeartbeat, Fault, Remove
<1>19. ASSUME NEW c \in Client, Unlink(c) PROVE IntentInv'
  BY <1>19 DEF Unlink
<1>20. ASSUME NEW c \in Client, Rmdir(c) PROVE IntentInv'
  BY <1>20 DEF Rmdir
<1>21. ASSUME NEW c \in Client, RmdirFails(c) PROVE IntentInv'
  BY <1>21 DEF RmdirFails, Fault
<1>22. ASSUME NEW c \in Client, Gone(c) PROVE IntentInv'
  BY <1>22 DEF Gone
<1>23. ASSUME NEW c \in Client, Beat(c) PROVE IntentInv'
  BY <1>23 DEF Beat, Touch, Stopped
<1>24. ASSUME NEW c \in Client, BeatFails(c) PROVE IntentInv'
  BY <1>24 DEF BeatFails, Fault
<1>25. ASSUME NEW c \in Client, Crash(c) PROVE IntentInv'
  BY <1>25 DEF Crash, Abandon, Fault
<1>27. ASSUME NEW c \in Client, Interrupted(c) PROVE IntentInv'
  BY <1>27 DEF Interrupted, Abandon, Fault, Stopped
<1>28. ASSUME NEW c \in Client, UnlinkFails(c) PROVE IntentInv'
  BY <1>28 DEF UnlinkFails, Abandon, Fault
<1>29. ASSUME NEW c \in Client, R_RecheckFails(c) PROVE IntentInv'
  BY <1>29 DEF R_RecheckFails, Abandon, Fault
<1>26. CASE UNCHANGED vars
  BY <1>26 DEF vars
<1> QED
  BY <1>1, <1>2, <1>3, <1>4, <1>5, <1>6, <1>7, <1>8, <1>9, <1>10, <1>11, <1>12, <1>13,
     <1>14, <1>15, <1>16, <1>17, <1>18, <1>19, <1>20, <1>21, <1>22, <1>23, <1>24, <1>25, <1>26, <1>27, <1>28, <1>29
  DEF Next, ClientStep, ReaderStep, WriterStep, RemoveStep

LockInv == TypeOK /\ ScanCovers /\ IntactExclusion /\ TokenInv /\ IntentInv

\* With one writer no one reads or writes beside it.
THEOREM OneWriterExcludes ==
  ASSUME OnlyCrashes, OneWriter PROVE Spec => []WriterExcludesOthers
<1>1. LockInv => WriterExcludesOthers
  BY OneWriter DEF LockInv, TypeOK, TokenInv, IntentInv, WriterExcludesOthers, IntactExclusion,
     OneWriter, Intends, HoldsRead, HoldsWrite, ReaderPc, WriterPc
<1> QED
  BY <1>1, TypeOKInit, TypeOKStep, TokenInvInit, TokenInvStep, IntentInvInit, IntentInvStep,
     ExclusionInit, ExclusionStep, PTL DEF Spec, LockInv, IInv

\* Nothing alive is ever broken.
THEOREM OnlyTheDeadAreBroken ==
  ASSUME OnlyCrashes, OneWriter PROVE Spec => BreaksSpareTheLiving
<1>1. LockInv /\ [Next]_vars =>
        [\A c \in Client, t \in Token :
           Breaking(c, t) /\ Rmdir(c) /\ Exists(t) /\ owner'[t] = NoOne
             => pc[owner[t]] \in Down]_vars
  BY NamesAssumption DEF LockInv, TypeOK, TokenInv, IntentInv, Breaking, Rmdir, Exists, Down, Removing
<1> QED
  BY <1>1, TypeOKInit, TypeOKStep, TokenInvInit, TokenInvStep, IntentInvInit, IntentInvStep,
     ExclusionInit, ExclusionStep, PTL DEF Spec, LockInv, IInv, BreaksSpareTheLiving

-----------------------------------------------------------------------------
(* One writer: the mkdir protocol implements RWLock.                         *)

Reading == {c \in Client : HoldsRead(c)}
Writing == {c \in Client : HoldsWrite(c)}
Dead    == {c \in Client : pc[c] = "dead"}

\* Every step of the protocol is a step of the promised lock, or changes nothing it
\* shows.
LEMMA RefinementStep ==
  ASSUME OnlyCrashes, OneWriter
  PROVE  LockInv /\ LockInv' /\ [Next]_vars => [RW!AbsNext]_(RW!absVars)
<1> SUFFICES ASSUME LockInv, LockInv', [Next]_vars PROVE [RW!AbsNext]_(RW!absVars)
  OBVIOUS
<1> USE NamesAssumption DEF OnlyCrashes, OneWriter
<1> USE DEF HoldsRead, HoldsWrite, LockInv, TypeOK, TokenInv, IntentInv, WriterExcludesOthers,
            Intends, HasToken, Pc, ReaderPc, WriterPc, Removing, Down, Goto, Exists, fsVars,
            rmVars, scanVars, RW!absVars
<1>1. CASE Tick
  BY <1>1 DEF Tick
<1>2. ASSUME NEW c \in Client, R_Start(c) PROVE [RW!AbsNext]_(RW!absVars)
  BY <1>2 DEF R_Start
<1>3. ASSUME NEW c \in Client, R_Check(c) PROVE [RW!AbsNext]_(RW!absVars)
  BY <1>3 DEF R_Check, Remove
<1>4. ASSUME NEW c \in Client, R_Mkdir(c) PROVE [RW!AbsNext]_(RW!absVars)
  BY <1>4 DEF R_Mkdir, Remove, Mkdir
<1>5. ASSUME NEW c \in Client, R_MkdirFails(c) PROVE [RW!AbsNext]_(RW!absVars)
  BY <1>5 DEF R_MkdirFails, Fault
<1>6. ASSUME NEW c \in Client, R_Meta(c) PROVE [RW!AbsNext]_(RW!absVars)
  BY <1>6 DEF R_Meta, Touch
<1>7. ASSUME NEW c \in Client, R_MetaFails(c) PROVE [RW!AbsNext]_(RW!absVars)
  BY <1>7 DEF R_MetaFails, Remove, Fault
<1>8. ASSUME NEW c \in Client, R_Recheck(c) PROVE [RW!AbsNext]_(RW!absVars)
  <2>1. CASE ~Exists(WriterDir)
    <3>1. Reading' = Reading \union {c} /\ Writing' = Writing /\ Dead' = Dead /\ owner' = owner
      BY <1>8, <2>1 DEF R_Recheck, StopHeartbeat, Fault, Reading, Writing, Dead
    <3>2. c \in Readers \ (Dead \union Reading \union Writing)
      BY <1>8 DEF R_Recheck, StopHeartbeat, Fault, Reading, Writing, Dead
    <3> QED
      BY <2>1, <3>1, <3>2 DEF RW!AbsNext, RW!AbsBeginRead, RW!Client, Reading, Writing, Dead
  <2>2. CASE Exists(WriterDir)
    BY <1>8, <2>2 DEF R_Recheck, StopHeartbeat, Fault, Remove
  <2> QED
    BY <2>1, <2>2
<1>9. ASSUME NEW c \in Client, R_Release(c) PROVE [RW!AbsNext]_(RW!absVars)
  <2>1. Reading' = Reading \ {c} /\ Writing' = Writing /\ Dead' = Dead /\ owner' = owner
    BY <1>9 DEF R_Release, StopHeartbeat, Fault, Remove, Reading, Writing, Dead
  <2>2. c \in Reading
    BY <1>9 DEF R_Release, StopHeartbeat, Fault, Reading
  <2> QED
    BY <2>1, <2>2 DEF RW!AbsNext, RW!AbsEndRead, RW!Client, Reading, Writing, Dead
<1>10. ASSUME NEW c \in Client, W_Start(c) PROVE [RW!AbsNext]_(RW!absVars)
  BY <1>10 DEF W_Start
<1>11. ASSUME NEW c \in Client, W_Mkdir(c) PROVE [RW!AbsNext]_(RW!absVars)
  <2>1. Reading' = Reading /\ Writing' = Writing /\ Dead' = Dead
    BY <1>11 DEF W_Mkdir, Remove, Mkdir, Reading, Writing, Dead
  <2>2. CASE owner' = owner
    BY <2>1, <2>2 DEF Reading, Writing, Dead
  <2>3. CASE owner' # owner
    <3>1. owner[WriterDir] = NoOne /\ owner'[WriterDir] = c /\ c \in Writers
      BY <1>11, <2>3 DEF W_Mkdir, Remove, Mkdir
    <3>2. c \notin Dead \union Reading \union Writing
      BY <1>11 DEF W_Mkdir, Reading, Writing, Dead
    <3> QED
      BY <2>1, <3>1, <3>2 DEF RW!AbsNext, RW!AbsAnnounce, RW!Client, Reading, Writing, Dead
  <2> QED
    BY <2>2, <2>3
<1>12. ASSUME NEW c \in Client, W_Meta(c) PROVE [RW!AbsNext]_(RW!absVars)
  BY <1>12 DEF W_Meta, Touch
<1>13. ASSUME NEW c \in Client, W_IoFails(c) PROVE [RW!AbsNext]_(RW!absVars)
  BY <1>13 DEF W_IoFails, Fault
<1>14. ASSUME NEW c \in Client, W_Scan(c) PROVE [RW!AbsNext]_(RW!absVars)
  BY <1>14 DEF W_Scan
<1>15. ASSUME NEW c \in Client, W_ScanFails(c) PROVE [RW!AbsNext]_(RW!absVars)
  BY <1>15 DEF W_ScanFails, Remove, Fault
<1>16. ASSUME NEW c \in Client, W_Look(c) PROVE [RW!AbsNext]_(RW!absVars)
  BY <1>16 DEF W_Look, Remove
<1>17. ASSUME NEW c \in Client, W_Looked(c) PROVE [RW!AbsNext]_(RW!absVars)
  <2>1. CASE c \in found
    BY <1>17, <2>1 DEF W_Looked
  <2>2. CASE c \notin found
    <3>1. Reading' = Reading /\ Writing' = Writing \union {c} /\ Dead' = Dead /\ owner' = owner
      BY <1>17, <2>2 DEF W_Looked, Reading, Writing, Dead
    <3>2. owner[WriterDir] = c /\ c \notin Dead \union Writing
      BY <1>17 DEF W_Looked, Writing, Dead
    <3>3. Writing = {}
      BY <1>17, <3>2 DEF W_Looked, Writing
    <3>4. Reading = {}
      BY <1>17, <2>2, <3>2 DEF W_Looked, Reading, ScanCovers, Looking
    <3> QED
      BY <3>1, <3>2, <3>3, <3>4 DEF RW!AbsNext, RW!AbsBeginWrite, RW!Client, Reading, Writing, Dead
  <2> QED
    BY <2>1, <2>2
<1>18. ASSUME NEW c \in Client, W_Release(c) PROVE [RW!AbsNext]_(RW!absVars)
  <2>1. Reading' = Reading /\ Writing' = Writing \ {c} /\ Dead' = Dead /\ owner' = owner
    BY <1>18 DEF W_Release, StopHeartbeat, Fault, Remove, Reading, Writing, Dead
  <2>2. c \in Writing
    BY <1>18 DEF W_Release, StopHeartbeat, Fault, Writing
  <2> QED
    BY <2>1, <2>2 DEF RW!AbsNext, RW!AbsEndWrite, RW!Client, Reading, Writing, Dead
<1>19. ASSUME NEW c \in Client, Unlink(c) PROVE [RW!AbsNext]_(RW!absVars)
  BY <1>19 DEF Unlink
<1>20. ASSUME NEW c \in Client, Rmdir(c) PROVE [RW!AbsNext]_(RW!absVars)
  <2>1. Reading' = Reading /\ Writing' = Writing /\ Dead' = Dead
    BY <1>20 DEF Rmdir, Reading, Writing, Dead
  <2>2. CASE owner'[WriterDir] = owner[WriterDir]
    BY <2>1, <2>2 DEF Reading, Writing, Dead
  <2>3. CASE owner'[WriterDir] # owner[WriterDir]
    <3>1. tgt[c] = WriterDir /\ owner[WriterDir] \in Writers /\ owner'[WriterDir] = NoOne
      BY <1>20, <2>3 DEF Rmdir
    <3>2. CASE owner[WriterDir] \in Dead
      BY <2>1, <3>1, <3>2 DEF RW!AbsNext, RW!AbsBreak, Reading, Writing, Dead
    <3>3. CASE owner[WriterDir] \notin Dead
      <4>1. owner[WriterDir] = c /\ c \notin Dead \union Writing
        BY <1>20, <3>1, <3>3 DEF Rmdir, Writing, Dead
      <4> QED
        BY <2>1, <3>1, <4>1 DEF RW!AbsNext, RW!AbsRetract, RW!Client, Reading, Writing, Dead
    <3> QED
      BY <3>2, <3>3
  <2> QED
    BY <2>2, <2>3
<1>21. ASSUME NEW c \in Client, RmdirFails(c) PROVE [RW!AbsNext]_(RW!absVars)
  BY <1>21 DEF RmdirFails, Fault
<1>22. ASSUME NEW c \in Client, Gone(c) PROVE [RW!AbsNext]_(RW!absVars)
  BY <1>22 DEF Gone
<1>23. ASSUME NEW c \in Client, Beat(c) PROVE [RW!AbsNext]_(RW!absVars)
  BY <1>23 DEF Beat, Touch, Stopped
<1>24. ASSUME NEW c \in Client, BeatFails(c) PROVE [RW!AbsNext]_(RW!absVars)
  BY <1>24 DEF BeatFails, Fault
<1>25. ASSUME NEW c \in Client, Crash(c) PROVE [RW!AbsNext]_(RW!absVars)
  <2>1. /\ Reading' = Reading \ {c} /\ Writing' = Writing \ {c}
        /\ Dead' = Dead \union {c} /\ owner' = owner
    BY <1>25 DEF Crash, Abandon, Fault, Reading, Writing, Dead
  <2>2. c \notin Dead
    BY <1>25 DEF Crash, Dead
  <2> QED
    BY <2>1, <2>2 DEF RW!AbsNext, RW!AbsDie, RW!Client, Reading, Writing, Dead
<1>27. ASSUME NEW c \in Client, Interrupted(c) PROVE [RW!AbsNext]_(RW!absVars)
  BY <1>27 DEF Interrupted, Abandon, Fault, Stopped
<1>28. ASSUME NEW c \in Client, UnlinkFails(c) PROVE [RW!AbsNext]_(RW!absVars)
  BY <1>28 DEF UnlinkFails, Abandon, Fault
<1>29. ASSUME NEW c \in Client, R_RecheckFails(c) PROVE [RW!AbsNext]_(RW!absVars)
  BY <1>29 DEF R_RecheckFails, Abandon, Fault
<1>26. CASE UNCHANGED vars
  BY <1>26 DEF vars
<1> QED
  BY <1>1, <1>2, <1>3, <1>4, <1>5, <1>6, <1>7, <1>8, <1>9, <1>10, <1>11, <1>12, <1>13,
     <1>14, <1>15, <1>16, <1>17, <1>18, <1>19, <1>20, <1>21, <1>22, <1>23, <1>24, <1>25, <1>26, <1>27, <1>28, <1>29
  DEF Next, ClientStep, ReaderStep, WriterStep, RemoveStep

\* What readers and one writer see of the mkdir lock is the promised lock: the
\* writer waits for every reader, and only a dead client's intent is broken.
THEOREM OneWriterImplementsRWLock ==
  ASSUME OnlyCrashes, OneWriter PROVE Spec => ImplementsRWLock
<1>1. Init => RW!AbsInit
  BY NamesAssumption DEF Init, RW!AbsInit, HoldsRead, HoldsWrite
<1> QED
  BY <1>1, RefinementStep, TypeOKInit, TypeOKStep, TokenInvInit, TokenInvStep, IntentInvInit,
     IntentInvStep, ExclusionInit, ExclusionStep, PTL
  DEF Spec, LockInv, IInv, ImplementsRWLock, RW!AbsSpec
=============================================================================
