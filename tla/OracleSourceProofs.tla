------------------------- MODULE OracleSourceProofs -------------------------
(* What a version token of a table names, for any number of sessions, rows,  *)
(* rewriters and commits.                                                    *)
EXTENDS OracleSource, FiniteSetTheorems, TLAPS

LEMMA ColumnsExist == AnyColumns \in Columns
  BY BoundsAssumption DEF AnyColumns

\* A place without a row is NoRow, and no row is newer than the clock.
RowsOK(t, n) ==
  /\ t \in [Keys -> Row]
  /\ \A k \in Keys : t[k].scn <= n /\ (t[k].scn = 0 => t[k] = NoRow)

\* With what the types leave out.
TypeInv ==
  /\ SourceTypeOK
  /\ RowsOK(rows, clock)
  /\ ~exists => rows = NoRows
  /\ \A s \in Sessions : RowsOK(seen[s].rows, clock) /\ tok[s].scn <= clock
  /\ \A e \in entry : RowsOK(e.at.rows, clock) /\ e.token.scn <= clock

LEMMA CountIsNat == ASSUME NEW t PROVE Count(t) \in Nat /\ IsFiniteSet(Present(t))
<1>1. Present(t) \in SUBSET Keys
  BY DEF Present
<1>2. QED
  BY <1>1, KeysAssumption, FS_Subset, FS_CardinalityType DEF Count

LEMMA ValuesType ==
  ASSUME NEW t \in [Keys -> Row]
  PROVE  Values(t) \in [Keys -> Scn]
  BY DEF Values, Row

LEMMA CommitKeepsOK ==
  ASSUME NEW to, NEW hit, NEW removed, TypeInv, CommitRows(to, hit, removed)
  PROVE  RowsOK(rows', clock') /\ clock' \in Scn /\ clock' = clock + 1
<1> USE BoundsAssumption DEF TypeInv, SourceTypeOK, RowsOK, CommitRows, Row, NoRow, Scn
<1>1. clock' \in Scn /\ clock' = clock + 1 /\ clock \in Nat
  OBVIOUS
<1>2. ASSUME NEW k \in Keys
      PROVE  rows'[k] \in Row /\ rows'[k].scn <= clock' /\ (rows'[k].scn = 0 => rows'[k] = NoRow)
  <2>1. rows[k] \in Row /\ rows[k].scn <= clock /\ (rows[k].scn = 0 => rows[k] = NoRow)
    OBVIOUS
  <2>2. rows'[k] = IF k \in to THEN [born |-> clock', scn |-> clock']
                   ELSE IF k \in removed THEN NoRow
                   ELSE IF k \in hit THEN [rows[k] EXCEPT !.scn = clock'] ELSE rows[k]
    OBVIOUS
  <2>3. QED
    BY <1>1, <2>1, <2>2
<1>3. rows' \in [Keys -> Row]
  BY <1>2
<1>4. QED
  BY <1>1, <1>2, <1>3

\* The initial values of a call's locals, and those they have again at its end.
LEMMA BlankTypes ==
  /\ (\A n \in Nat : RowsOK(NoRows, n)) /\ NoRows \in [Keys -> Row]
  /\ NoToken \in Token /\ NoToken.scn = 0
  /\ NoResult \in Result
  /\ [rows |-> NoRows, cols |-> AnyColumns] \in Snapshot
<1> USE BoundsAssumption, ColumnsExist DEF Row, NoRow, Scn
<1>1. NoRows \in [Keys -> Row] /\ \A n \in Nat : RowsOK(NoRows, n)
  BY DEF NoRows, RowsOK
<1>2. NoToken \in Token /\ NoToken.scn = 0
  BY DEF NoToken, Token
<1>3. NoResult \in Result
  BY <1>1, ValuesType DEF NoResult, Result
<1>4. QED
  BY <1>1, <1>2, <1>3 DEF Snapshot

LEMMA TypeInvInit == SourceInit => TypeInv
<1> SUFFICES ASSUME SourceInit PROVE TypeInv
  OBVIOUS
<1> USE BlankTypes, ColumnsExist, BoundsAssumption DEF SourceInit
<1>1. SourceTypeOK
  <2>1. clock \in Scn
    BY DEF Scn
  <2>2. pc \in [Sessions -> Probes \union Looks \union {"execute", "after", "answered"}]
    BY DEF Probes, Looks
  <2>3. QED
    BY <2>1, <2>2 DEF SourceTypeOK
<1>2. RowsOK(rows, clock)
  OBVIOUS
<1>3. ASSUME NEW s \in Sessions PROVE RowsOK(seen[s].rows, clock) /\ tok[s].scn <= clock
  OBVIOUS
<1>4. QED
  BY <1>1, <1>2, <1>3 DEF TypeInv

LEMMA EndKeepsTypes ==
  ASSUME TypeInv, NEW s \in Sessions, EndCall(s), UNCHANGED <<table, wpc, entry>>
  PROVE  TypeInv'
<1> USE DEF TypeInv, SourceTypeOK, EndCall
<1>1. pc' \in [Sessions -> Probes \union Looks \union {"execute", "after", "answered"}]
  BY DEF Goto, Probes
<1>2. /\ tok' \in [Sessions -> Token] /\ seen' \in [Sessions -> Snapshot]
      /\ data' \in [Sessions -> Result]
  BY BlankTypes
<1>3. ASSUME NEW r \in Sessions PROVE RowsOK(seen'[r].rows, clock') /\ tok'[r].scn <= clock'
  BY BlankTypes, BoundsAssumption DEF table, Scn
<1>4. QED
  BY <1>1, <1>2, <1>3 DEF table, RowsOK

LEMMA TypeInvStep == TypeInv /\ [SourceNext]_vars => TypeInv'
<1> SUFFICES ASSUME TypeInv, [SourceNext]_vars PROVE TypeInv'
  OBVIOUS
<1> USE ColumnsExist, BoundsAssumption DEF TypeInv, SourceTypeOK
<1>1. CASE Transaction
  <2>1. PICK to \in SUBSET Keys, hit, removed \in SUBSET Present(rows) :
          CommitRows(to, hit, removed) /\ shrunk' \in BOOLEAN
    BY <1>1 DEF Transaction
  <2>2. RowsOK(rows', clock') /\ clock' \in Scn /\ clock' = clock + 1
    BY <2>1, CommitKeepsOK
  <2>3. QED
    BY <1>1, <2>1, <2>2 DEF Transaction, callVars, RowsOK, Scn, Row, Token, Snapshot
<1>2. ASSUME NEW w \in Rewriters, DropTable(w) PROVE TypeInv'
  <2>1. RowsOK(NoRows, clock) /\ NoRows \in [Keys -> Row]
    BY BlankTypes, BoundsAssumption DEF Scn
  <2>2. wpc' \in [Rewriters -> {"idle", "dropped", "created"}]
    BY <1>2 DEF DropTable
  <2>3. QED
    BY <1>2, <2>1, <2>2, ZenonT(40) DEF DropTable, callVars, RowsOK
<1>3. ASSUME NEW w \in Rewriters, CreateTable(w) PROVE TypeInv'
  BY <1>3 DEF CreateTable, callVars, RowsOK
<1>4. ASSUME NEW w \in Rewriters, InsertRows(w) PROVE TypeInv'
  <2>1. PICK to \in SUBSET (Keys \ Present(rows)), hit \in SUBSET Present(rows) :
          CommitRows(to, hit, {})
    BY <1>4 DEF InsertRows
  <2>2. RowsOK(rows', clock') /\ clock' \in Scn /\ clock' = clock + 1
    BY <2>1, CommitKeepsOK
  <2>3. QED
    BY <1>4, <2>1, <2>2 DEF InsertRows, callVars, RowsOK, Scn, Row, Token, Snapshot
<1>5. ASSUME NEW w \in Rewriters, InsertFails(w) PROVE TypeInv'
  BY <1>5 DEF InsertFails, table, callVars, RowsOK
<1>6. ASSUME NEW s \in Sessions, Probe(s) PROVE TypeInv'
  <2>1. PICK n \in Scn : IsToken(rows, [count |-> Count(rows), scn |-> n])
                         /\ tok' = [tok EXCEPT ![s] = [count |-> Count(rows), scn |-> n]]
    BY <1>6 DEF Probe
  <2>2. n <= clock
    BY <2>1 DEF IsToken, IsMaxScn, Present, RowsOK, Scn
  <2>3. [count |-> Count(rows), scn |-> n] \in Token
    BY CountIsNat DEF Token
  <2>4. Now \in Snapshot /\ Now.rows = rows
    BY DEF Now, Snapshot
  <2>5. pc' \in [Sessions -> Probes \union Looks \union {"execute", "after", "answered"}]
    BY <1>6 DEF Probe, Goto, Probes, Looks
  <2>6. QED
    BY <1>6, <2>1, <2>2, <2>3, <2>4, <2>5, ZenonT(40) DEF Probe, table, RowsOK
<1>7. ASSUME NEW s \in Sessions, Lookup(s) PROVE TypeInv'
  BY <1>7, ZenonT(40) DEF Lookup, Goto, table, Probes, Looks, RowsOK
<1>8. ASSUME NEW s \in Sessions, Execute(s) PROVE TypeInv'
  BY <1>8, ValuesType DEF Execute, Goto, table, Probes, Looks, RowsOK, Result
<1>9. ASSUME NEW s \in Sessions, VersionAfter(s) PROVE TypeInv'
  <2> DEFINE e == [token |-> tok[s], result |-> data[s], at |-> seen[s]]
  <2>1. e \in [token : Token, result : Result, at : Snapshot]
        /\ RowsOK(e.at.rows, clock) /\ e.token.scn <= clock
    OBVIOUS
  <2>2. entry' = {e} \/ entry' = entry
    BY <1>9 DEF VersionAfter
  <2>3. data' \in [Sessions -> Result]
    BY <1>9, BlankTypes DEF VersionAfter
  <2>4. pc' \in [Sessions -> Probes \union Looks \union {"execute", "after", "answered"}]
    BY <1>9 DEF VersionAfter, Goto, Probes
  <2>5. UNCHANGED <<table, wpc, tok, seen>>
    BY <1>9 DEF VersionAfter
  <2> HIDE DEF e
  <2>6. QED
    BY <2>1, <2>2, <2>3, <2>4, <2>5 DEF table, RowsOK
<1>10. ASSUME NEW s \in Sessions, StatementFails(s) PROVE TypeInv'
  BY <1>10, EndKeepsTypes DEF StatementFails
<1>11. ASSUME NEW s \in Sessions, Return(s) PROVE TypeInv'
  BY <1>11, EndKeepsTypes DEF Return
<1>12. CASE UNCHANGED vars
  BY <1>12 DEF vars, table, callVars, RowsOK
<1>13. QED
  BY <1>1, <1>2, <1>3, <1>4, <1>5, <1>6, <1>7, <1>8, <1>9, <1>10, <1>11, <1>12
  DEF SourceNext, RewriteStep, CallStep

\* Every state is well typed, and there is at most one entry.
THEOREM SourceTypeCorrect == SourceSpec => []SourceTypeOK
<1>1. TypeInv => SourceTypeOK
  BY DEF TypeInv
<1>2. QED
  BY <1>1, TypeInvInit, TypeInvStep, PTL DEF SourceSpec

-----------------------------------------------------------------------------
(* A token names the rows it was computed from.  The rows of a table that    *)
(* are not newer than a token read earlier were in the table then, unchanged:*)
(* so a table with that token has some of those rows, and as many as those.  *)

\* The rows of b that are not newer than the token v were in a.
Since(v, a, b) ==
  \A k \in Keys : b.rows[k].scn > 0 /\ b.rows[k].scn <= v.scn =>
    b.rows[k] = a.rows[k] /\ b.cols = a.cols

\* The tokens someone still relies on, each with the table it was read from.
Known ==
  {[v |-> tok[s], at |-> seen[s]] : s \in {x \in Sessions : Probed(x)}}
    \union {[v |-> e.token, at |-> e.at] : e \in entry}

KnownInv ==
  /\ \A p \in Known : IsToken(p.at.rows, p.v) /\ Since(p.v, p.at, Now)
  /\ \A p, q \in Known : Since(p.v, p.at, q.at) \/ Since(q.v, q.at, p.at)

LEMMA SameTokenOneWay ==
  ASSUME NEW a \in Snapshot, NEW b \in Snapshot, NEW v \in Token, NEW n \in Nat,
         RowsOK(a.rows, n), RowsOK(b.rows, n), IsToken(a.rows, v), IsToken(b.rows, v),
         Since(v, a, b)
  PROVE  /\ Values(a.rows) = Values(b.rows)
         /\ v.count > 0 => a.cols = b.cols
<1> DEFINE A == Present(a.rows)
           B == Present(b.rows)
<1>1. ASSUME NEW k \in B PROVE k \in A /\ b.rows[k] = a.rows[k] /\ b.cols = a.cols
  <2>1. b.rows[k].scn > 0 /\ b.rows[k].scn <= v.scn
    BY DEF Present, IsToken, IsMaxScn
  <2>2. b.rows[k] = a.rows[k] /\ b.cols = a.cols
    BY <2>1 DEF Since, Present
  <2>3. QED
    BY <2>1, <2>2 DEF Present
<1>2. IsFiniteSet(A) /\ B \in SUBSET A /\ Cardinality(A) = Cardinality(B)
  BY <1>1, CountIsNat DEF IsToken, Count
<1>3. A = B
  BY <1>2, FS_Subset
<1>4. ASSUME NEW k \in Keys PROVE a.rows[k].born = b.rows[k].born
  <2>1. CASE k \in B
    BY <1>1, <2>1
  <2>2. CASE k \notin B
    <3>1. a.rows[k].scn = 0 /\ b.rows[k].scn = 0
      BY <1>3, <2>2 DEF Present, RowsOK, Row, Scn
    <3>2. QED
      BY <3>1 DEF RowsOK
  <2>3. QED
    BY <2>1, <2>2
<1>5. v.count > 0 => B # {}
  BY CountIsNat, FS_EmptySet DEF IsToken, Count
<1>6. QED
  BY <1>1, <1>4, <1>5 DEF Values

LEMMA SameToken ==
  ASSUME TypeInv, KnownInv, NEW p \in Known, NEW q \in Known, p.v = q.v
  PROVE  /\ Values(p.at.rows) = Values(q.at.rows)
         /\ p.v.count > 0 => p.at.cols = q.at.cols
<1>1. ASSUME NEW x \in Known
      PROVE  x.at \in Snapshot /\ x.v \in Token /\ RowsOK(x.at.rows, clock)
  BY DEF Known, TypeInv, SourceTypeOK
<1>2. clock \in Nat
  BY BoundsAssumption DEF TypeInv, SourceTypeOK, Scn
<1>3. CASE Since(p.v, p.at, q.at)
  BY <1>1, <1>2, <1>3, SameTokenOneWay DEF KnownInv
<1>4. CASE Since(q.v, q.at, p.at)
  BY <1>1, <1>2, <1>4, SameTokenOneWay DEF KnownInv
<1>5. QED
  BY <1>3, <1>4 DEF KnownInv

\* The table stays as it is, and nobody learns a token but that of the table now.
LEMMA KnownGrows ==
  ASSUME TypeInv, KnownInv, UNCHANGED <<rows, cols>>,
         NEW v, IsToken(rows, v), Known' \subseteq Known \union {[v |-> v, at |-> Now]}
  PROVE  KnownInv'
<1>1. Now' = Now /\ Since(v, Now, Now)
  BY DEF Now, Since
<1>2. ASSUME NEW p \in Known' PROVE IsToken(p.at.rows, p.v) /\ Since(p.v, p.at, Now)
  BY <1>1 DEF KnownInv, Now
<1>3. ASSUME NEW p \in Known', NEW q \in Known'
      PROVE  Since(p.v, p.at, q.at) \/ Since(q.v, q.at, p.at)
  BY <1>1, <1>2 DEF KnownInv
<1>4. QED
  BY <1>1, <1>2, <1>3 DEF KnownInv

\* The table changes, and the rows it keeps are among those it had.
LEMMA KnownAges ==
  ASSUME TypeInv, KnownInv, UNCHANGED callVars,
         \A k \in Keys : \/ rows'[k].scn = 0
                         \/ rows'[k].scn = clock + 1 /\ cols' = cols
                         \/ rows'[k] = rows[k] /\ cols' = cols
  PROVE  KnownInv'
<1>1. Known' = Known
  BY DEF Known, Probed, callVars
<1>2. ASSUME NEW p \in Known PROVE Since(p.v, p.at, Now')
  <2>1. p.v.scn <= clock /\ p.v.scn \in Nat /\ clock \in Nat
    BY BoundsAssumption DEF Known, TypeInv, SourceTypeOK, Token, Scn
  <2>2. Since(p.v, p.at, Now)
    BY DEF KnownInv
  <2>3. QED
    BY <2>1, <2>2 DEF Since, Now
<1>3. QED
  BY <1>1, <1>2 DEF KnownInv

LEMMA KnownInit == SourceInit => KnownInv
<1>1. SourceInit => Known = {}
  BY DEF SourceInit, Known, Probed
<1>2. QED
  BY <1>1 DEF KnownInv

LEMMA KnownStep == TypeInv /\ KnownInv /\ [SourceNext]_vars => KnownInv'
<1> SUFFICES ASSUME TypeInv, KnownInv, [SourceNext]_vars PROVE KnownInv'
  OBVIOUS
<1>0. ASSUME UNCHANGED table, Known' \subseteq Known PROVE KnownInv'
  BY <1>0 DEF KnownInv, Now, table
<1>1. CASE Transaction
  <2>1. PICK to \in SUBSET Keys, hit, removed \in SUBSET Present(rows) :
          CommitRows(to, hit, removed)
    BY <1>1 DEF Transaction
  <2>2. \A k \in Keys : rows'[k].scn = 0 \/ rows'[k].scn = clock + 1 \/ rows'[k] = rows[k]
    BY <2>1 DEF CommitRows, NoRow, TypeInv, RowsOK, Row
  <2>3. QED
    BY <1>1, <2>2, KnownAges DEF Transaction
<1>2. ASSUME NEW w \in Rewriters, DropTable(w) PROVE KnownInv'
  BY <1>2, KnownAges DEF DropTable, NoRows, NoRow
<1>3. ASSUME NEW w \in Rewriters, CreateTable(w) PROVE KnownInv'
  BY <1>3, KnownAges DEF CreateTable, NoRows, NoRow, TypeInv
<1>4. ASSUME NEW w \in Rewriters, InsertRows(w) PROVE KnownInv'
  <2>1. PICK to \in SUBSET (Keys \ Present(rows)), hit \in SUBSET Present(rows) :
          CommitRows(to, hit, {})
    BY <1>4 DEF InsertRows
  <2>2. \A k \in Keys : rows'[k].scn = clock + 1 \/ rows'[k] = rows[k]
    BY <2>1 DEF CommitRows, TypeInv, RowsOK, Row
  <2>3. QED
    BY <1>4, <2>2, KnownAges DEF InsertRows
<1>5. ASSUME NEW w \in Rewriters, InsertFails(w) PROVE KnownInv'
  BY <1>5, <1>0 DEF InsertFails, callVars, Known, Probed
<1>6. ASSUME NEW s \in Sessions, Probe(s) PROVE KnownInv'
  <2>1. PICK v : IsToken(rows, v) /\ tok' = [tok EXCEPT ![s] = v]
    BY <1>6 DEF Probe
  <2>2. Known' \subseteq Known \union {[v |-> v, at |-> Now]}
    BY <1>6, <2>1 DEF Probe, Known, Probed, Goto, TypeInv, SourceTypeOK
  <2>3. QED
    BY <1>6, <2>1, <2>2, KnownGrows DEF Probe, table
<1>7. ASSUME NEW s \in Sessions, Lookup(s) PROVE KnownInv'
  BY <1>7, <1>0 DEF Lookup, Goto, Looks, Known, Probed, TypeInv, SourceTypeOK
<1>8. ASSUME NEW s \in Sessions, Execute(s) PROVE KnownInv'
  BY <1>8, <1>0 DEF Execute, Goto, Known, Probed, TypeInv, SourceTypeOK
<1>9. ASSUME NEW s \in Sessions, VersionAfter(s) PROVE KnownInv'
  <2>1. [v |-> tok[s], at |-> seen[s]] \in Known
    BY <1>9 DEF VersionAfter, Known, Probed
  <2>2. Known' \subseteq Known
    BY <1>9, <2>1 DEF VersionAfter, Goto, Known, Probed, TypeInv, SourceTypeOK
  <2>3. QED
    BY <1>9, <1>0, <2>2 DEF VersionAfter
<1>10. ASSUME NEW s \in Sessions, StatementFails(s) \/ Return(s) PROVE KnownInv'
  BY <1>10, <1>0 DEF StatementFails, Return, EndCall, Goto, Known, Probed, TypeInv, SourceTypeOK
<1>11. CASE UNCHANGED vars
  BY <1>11, <1>0 DEF vars, callVars, Known, Probed
<1>12. QED
  BY <1>1, <1>2, <1>3, <1>4, <1>5, <1>6, <1>7, <1>8, <1>9, <1>10, <1>11
  DEF SourceNext, RewriteStep, CallStep

LEMMA KnownAlways == SourceSpec => [](TypeInv /\ KnownInv)
  BY TypeInvInit, TypeInvStep, KnownInit, KnownStep, PTL DEF SourceSpec

\* COUNT and MAX(ORA_ROWSCN) together name the rows of a table: nothing that was
\* written, moved, deleted or rewritten between two equal tokens is missed.
THEOREM TokensNameRows == SourceSpec => []SameTokenSameRows
<1>1. TypeInv /\ KnownInv => SameTokenSameRows
  <2> SUFFICES ASSUME TypeInv, KnownInv, NEW s \in Sessions, NEW t \in Sessions,
                      Probed(s), Probed(t), tok[s] = tok[t]
               PROVE  Values(seen[s].rows) = Values(seen[t].rows)
    BY DEF SameTokenSameRows
  <2>1. /\ [v |-> tok[s], at |-> seen[s]] \in Known
        /\ [v |-> tok[t], at |-> seen[t]] \in Known
    BY DEF Known
  <2>2. QED
    BY <2>1, SameToken
<1>2. QED
  BY <1>1, KnownAlways, PTL

-----------------------------------------------------------------------------
(* A token of a table with rows does not come back, as long as every commit  *)
(* writes a row: what follows a change has a newer row, or, after a drop,    *)
(* none of the old ones.                                                     *)

Moved(s) ==
  \/ \E k \in Keys : rows[k].scn > tok[s].scn
  \/ \A k \in Keys : rows[k].scn = 0 \/ rows[k].scn > tok[s].scn

Faithful(e) == e.result = [rows |-> Values(e.at.rows), cols |-> e.at.cols]

LoadInv ==
  ~shrunk =>
    /\ \A s \in Sessions : Probed(s) => seen[s] = Now \/ Moved(s)
    /\ \A s \in Sessions : pc[s] = "after" => Answered(s) \/ Moved(s)
    /\ \A s \in Sessions : pc[s] = "answered" /\ tok[s].count > 0 => Answered(s)
    /\ \A e \in entry : e.token.count > 0 => Faithful(e)

LEMMA LoadInit == SourceInit => LoadInv
  BY DEF SourceInit, LoadInv, Probed

\* The table changes: all that was read before has moved.
LEMMA LoadAges ==
  ASSUME TypeInv, TypeInv', LoadInv, UNCHANGED callVars, shrunk' = FALSE => shrunk = FALSE,
         ~shrunk' => \/ rows' = NoRows
                     \/ \E k \in Keys : rows'[k].scn > clock
  PROVE  LoadInv'
<1>1. ASSUME NEW s \in Sessions, ~shrunk' PROVE Moved(s)'
  <2>1. tok'[s].scn <= clock /\ tok'[s].scn \in Nat /\ clock \in Nat
    BY BoundsAssumption DEF callVars, TypeInv, SourceTypeOK, Token, Scn
  <2>2. CASE rows' = NoRows
    BY <2>2 DEF Moved, NoRows, NoRow
  <2>3. CASE \E k \in Keys : rows'[k].scn > clock
    <3>1. PICK k \in Keys : rows'[k].scn > clock
      BY <2>3
    <3>2. rows'[k].scn \in Nat
      BY BoundsAssumption DEF TypeInv, SourceTypeOK, Row, Scn
    <3>3. QED
      BY <2>1, <3>1, <3>2 DEF Moved
  <2>4. QED
    BY <1>1, <2>2, <2>3
<1>2. shrunk \in BOOLEAN /\ (~shrunk' => ~shrunk)
  BY DEF TypeInv, SourceTypeOK
<1>3. QED
  BY <1>1, <1>2 DEF LoadInv, callVars, Probed, Answered, Faithful

LEMMA LoadStep == TypeInv /\ TypeInv' /\ KnownInv /\ LoadInv /\ [SourceNext]_vars => LoadInv'
<1> SUFFICES ASSUME TypeInv, TypeInv', KnownInv, LoadInv, [SourceNext]_vars PROVE LoadInv'
  OBVIOUS
<1>0. ASSUME NEW to \in SUBSET Keys, NEW hit, NEW removed, CommitRows(to, hit, removed), to # {}
      PROVE  \E k \in Keys : rows'[k].scn > clock
  <2>1. PICK k \in to : TRUE
    BY <1>0
  <2>2. rows'[k].scn = clock + 1 /\ clock \in Nat
    BY <1>0, BoundsAssumption DEF CommitRows, TypeInv, SourceTypeOK, Scn
  <2>3. QED
    BY <2>2
<1>1. CASE Transaction
  <2>1. PICK to \in SUBSET Keys, hit, removed \in SUBSET Present(rows) :
          CommitRows(to, hit, removed) /\ ((to # {} /\ UNCHANGED shrunk) \/ shrunk' = TRUE)
    BY <1>1 DEF Transaction
  <2>2. UNCHANGED callVars
    BY <1>1 DEF Transaction
  <2>3. CASE to # {} /\ UNCHANGED shrunk
    BY <1>0, <2>1, <2>2, <2>3, LoadAges
  <2>4. CASE shrunk' = TRUE
    BY <2>4 DEF LoadInv
  <2>5. QED
    BY <2>1, <2>3, <2>4
<1>2. ASSUME NEW w \in Rewriters, DropTable(w) PROVE LoadInv'
  BY <1>2, LoadAges DEF DropTable
<1>3. ASSUME NEW w \in Rewriters, CreateTable(w) PROVE LoadInv'
  <2>1. CASE ~exists
    BY <1>3, <2>1, LoadAges DEF CreateTable, TypeInv
  <2>2. CASE exists
    BY <1>3, <2>2 DEF CreateTable, callVars, LoadInv, Moved, Now, Probed, Answered, Faithful
  <2>3. QED
    BY <2>1, <2>2
<1>4. ASSUME NEW w \in Rewriters, InsertRows(w) PROVE LoadInv'
  <2>1. PICK to \in SUBSET (Keys \ Present(rows)), hit \in SUBSET Present(rows) :
          to # {} /\ CommitRows(to, hit, {})
    BY <1>4 DEF InsertRows
  <2>2. QED
    BY <1>0, <1>4, <2>1, LoadAges DEF InsertRows
<1>5. ASSUME NEW w \in Rewriters, InsertFails(w) PROVE LoadInv'
  BY <1>5 DEF InsertFails, table, callVars, LoadInv, Moved, Now, Probed, Answered, Faithful
<1>6. ASSUME NEW s \in Sessions, Probe(s) PROVE LoadInv'
  <2>1. /\ pc'[s] \in {"lookup", "w_lookup", "execute"}
        /\ \A r \in Sessions \ {s} : pc'[r] = pc[r] /\ tok'[r] = tok[r] /\ seen'[r] = seen[r]
        /\ seen'[s] = Now
    BY <1>6 DEF Probe, Goto, TypeInv, SourceTypeOK, Probes, Looks
  <2>2. UNCHANGED <<table, data, entry>>
    BY <1>6 DEF Probe
  <2>3. QED
    BY <2>1, <2>2 DEF table, LoadInv, Moved, Now, Probed, Answered, Faithful
<1>7. ASSUME NEW s \in Sessions, Lookup(s) PROVE LoadInv'
  <2>1. /\ pc' = [pc EXCEPT ![s] = pc'[s]] /\ pc'[s] \in {"answered", "w_version", "before"}
        /\ \A r \in Sessions \ {s} : data'[r] = data[r]
        /\ UNCHANGED <<table, tok, seen, entry>> /\ Probed(s)
    BY <1>7 DEF Lookup, Goto, TypeInv, SourceTypeOK, Looks, Probed
  <2>2. ASSUME pc'[s] = "answered", tok[s].count > 0, ~shrunk PROVE Answered(s)'
    <3>1. PICK e \in entry : e.token = tok[s] /\ data' = [data EXCEPT ![s] = e.result]
      BY <1>7, <2>2 DEF Lookup, Goto, TypeInv, SourceTypeOK
    <3>2. data'[s] = [rows |-> Values(e.at.rows), cols |-> e.at.cols]
      BY <2>2, <3>1 DEF LoadInv, Faithful, TypeInv, SourceTypeOK
    <3>3. /\ [v |-> tok[s], at |-> seen[s]] \in Known
          /\ [v |-> e.token, at |-> e.at] \in Known
      BY <2>1, <3>1 DEF Known
    <3>4. Values(e.at.rows) = Values(seen[s].rows) /\ e.at.cols = seen[s].cols
      BY <2>2, <3>1, <3>3, SameToken
    <3>5. QED
      BY <2>1, <3>2, <3>4 DEF Answered
  <2>3. QED
    BY <2>1, <2>2 DEF table, LoadInv, Moved, Now, Probed, Answered, Faithful, TypeInv, SourceTypeOK
<1>8. ASSUME NEW s \in Sessions, Execute(s) PROVE LoadInv'
  <2>1. /\ pc' = [pc EXCEPT ![s] = "after"]
        /\ data' = [data EXCEPT ![s] = [rows |-> Values(rows), cols |-> cols]]
        /\ UNCHANGED <<table, tok, seen, entry>> /\ Probed(s)
    BY <1>8 DEF Execute, Goto, Probed
  <2>2. ASSUME ~shrunk PROVE Answered(s)' \/ Moved(s)'
    BY <2>1, <2>2 DEF table, LoadInv, Answered, Moved, Now, TypeInv, SourceTypeOK
  <2>3. QED
    BY <2>1, <2>2 DEF table, LoadInv, Moved, Now, Probed, Answered, Faithful, TypeInv, SourceTypeOK
<1>9. ASSUME NEW s \in Sessions, VersionAfter(s) PROVE LoadInv'
  <2>0. pc[s] = "after" /\ Probed(s) /\ UNCHANGED <<table, tok, seen>>
    BY <1>9 DEF VersionAfter, Probed
  <2>1. CASE IsToken(rows, tok[s])
    <3>1. /\ pc' = [pc EXCEPT ![s] = "answered"] /\ UNCHANGED data
          /\ entry' = {[token |-> tok[s], result |-> data[s], at |-> seen[s]]}
      BY <1>9, <2>1 DEF VersionAfter, Goto
    <3>2. ASSUME tok[s].count > 0, ~shrunk PROVE Answered(s)
      <4>1. Present(rows) # {}
        BY <2>1, <3>2, CountIsNat, FS_EmptySet DEF IsToken, Count
      <4>2. PICK k \in Present(rows) :
              rows[k].scn = tok[s].scn /\ \A j \in Present(rows) : rows[j].scn <= tok[s].scn
        BY <2>1, <4>1 DEF IsToken, IsMaxScn
      <4>3. /\ \A j \in Keys : rows[j].scn \in Nat
            /\ tok[s].scn \in Nat
        BY BoundsAssumption DEF TypeInv, SourceTypeOK, Row, Token, Scn
      <4>4. ~Moved(s)
        BY <4>2, <4>3 DEF Moved, Present
      <4>5. QED
        BY <2>0, <3>2, <4>4 DEF LoadInv
    <3>3. QED
      BY <2>0, <3>1, <3>2 DEF table, LoadInv, Moved, Now, Probed, Answered, Faithful, TypeInv, SourceTypeOK
  <2>2. CASE ~IsToken(rows, tok[s])
    <3>1. /\ pc' = [pc EXCEPT ![s] = "before"] /\ UNCHANGED entry
          /\ data' = [data EXCEPT ![s] = NoResult]
      BY <1>9, <2>2 DEF VersionAfter, Goto
    <3>2. QED
      BY <2>0, <3>1 DEF table, LoadInv, Moved, Now, Probed, Answered, Faithful, TypeInv, SourceTypeOK
  <2>3. QED
    BY <2>1, <2>2
<1>10. ASSUME NEW s \in Sessions, StatementFails(s) \/ Return(s) PROVE LoadInv'
  <2>1. /\ pc' = [pc EXCEPT ![s] = "version"]
        /\ \A r \in Sessions \ {s} : tok'[r] = tok[r] /\ seen'[r] = seen[r] /\ data'[r] = data[r]
        /\ UNCHANGED <<table, entry>>
    BY <1>10 DEF StatementFails, Return, EndCall, Goto, TypeInv, SourceTypeOK
  <2>2. QED
    BY <2>1 DEF table, LoadInv, Moved, Now, Probed, Answered, Faithful, TypeInv, SourceTypeOK
<1>11. CASE UNCHANGED vars
  BY <1>11 DEF vars, table, callVars, LoadInv, Moved, Now, Probed, Answered, Faithful
<1>12. QED
  BY <1>1, <1>2, <1>3, <1>4, <1>5, <1>6, <1>7, <1>8, <1>9, <1>10, <1>11
  DEF SourceNext, RewriteStep, CallStep

\* What a call returns is what the table held when the call read its version, cold
\* or warm, unless the table had no rows then or a commit only removed rows.
THEOREM AnswersAreOfTheirVersion == SourceSpec => []AnswersMatchVersion
<1>1. TypeInv /\ LoadInv => AnswersMatchVersion
  BY DEF LoadInv, AnswersMatchVersion, TypeInv, SourceTypeOK
<1>2. QED
  BY <1>1, TypeInvInit, TypeInvStep, KnownInit, KnownStep, LoadInit, LoadStep, PTL DEF SourceSpec

-----------------------------------------------------------------------------
(* A token of rows does not come back.                                       *)

\* A commit that writes a row makes the maximum larger than every SCN before.
LEMMA CommitIsNew ==
  ASSUME TypeInv, NEW to \in SUBSET Keys, NEW hit, NEW removed, CommitRows(to, hit, removed), to # {},
         NEW v, v.scn \in 0 .. clock
  PROVE  ~IsToken(rows', v)
<1>1. PICK k \in to : TRUE
  OBVIOUS
<1>2. rows'[k].scn = clock + 1 /\ clock \in Nat
  BY BoundsAssumption DEF CommitRows, TypeInv, SourceTypeOK, Scn
<1>3. k \in Present(rows')
  BY <1>2 DEF Present
<1>4. ~ rows'[k].scn <= v.scn
  BY <1>2
<1>5. QED
  BY <1>3, <1>4 DEF IsToken, IsMaxScn

\* Counting the rows and taking their newest SCN makes a source that does not return to an
\* earlier version: whatever is written, moved or rewritten, a token of rows that the table
\* has left behind is never again its own, until a commit only removes rows
\* (nfs_cache.py:41-46).
THEOREM TokensAreNeverReused == SourceSpec => TokensDoNotReturn
<1> DEFINE New(n, m) ==
      ~IsToken(rows, [count |-> n, scn |-> m]) => ~IsToken(rows', [count |-> n, scn |-> m])
<1>1. TypeInv /\ [SourceNext]_vars =>
        (~shrunk' => \A n \in 1 .. Cardinality(Keys), m \in 0 .. clock : New(n, m))
  <2> SUFFICES ASSUME TypeInv, [SourceNext]_vars, ~shrunk',
                      NEW n \in 1 .. Cardinality(Keys), NEW m \in 0 .. clock
               PROVE  New(n, m)
    OBVIOUS
  <2>1. CASE Transaction
    <3>1. PICK to \in SUBSET Keys, hit, removed \in SUBSET Present(rows) :
            CommitRows(to, hit, removed) /\ to # {}
      BY <2>1 DEF Transaction
    <3>2. QED
      BY <3>1, CommitIsNew
  <2>2. ASSUME NEW w \in Rewriters, DropTable(w) PROVE New(n, m)
    <3>1. Present(rows') = {}
      BY <2>2 DEF DropTable, Present, NoRows, NoRow
    <3>2. Count(rows') = 0
      BY <3>1, FS_EmptySet DEF Count
    <3>3. n # 0
      OBVIOUS
    <3>4. QED
      BY <3>2, <3>3 DEF IsToken
  <2>3. ASSUME NEW w \in Rewriters, InsertRows(w) PROVE New(n, m)
    <3>1. PICK to \in SUBSET (Keys \ Present(rows)), hit \in SUBSET Present(rows) :
            to # {} /\ CommitRows(to, hit, {})
      BY <2>3 DEF InsertRows
    <3>2. QED
      BY <3>1, CommitIsNew
  <2>4. CASE UNCHANGED rows
    BY <2>4
  <2>5. QED
    BY <2>1, <2>2, <2>3, <2>4
    DEF SourceNext, RewriteStep, CallStep, CreateTable, InsertFails, Probe, Lookup, Execute, VersionAfter,
        StatementFails, Return, EndCall, table, vars
<1>2. QED
  BY <1>1, TypeInvInit, TypeInvStep, PTL DEF SourceSpec, TokensDoNotReturn
=============================================================================
