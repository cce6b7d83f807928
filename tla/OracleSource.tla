---------------------------- MODULE OracleSource ----------------------------
(* The version token of a SQL source and what it is good for: the probe of   *)
(* _sql_source_version, COUNT of the rows and MAX(ORA_ROWSCN) of one table,  *)
(* the calls of @nfscache.sql that compare tokens around a load, and the     *)
(* transactions that change the table meanwhile, among them the rewrite of   *)
(* oracle_write.py: drop, create, insert, commit.                            *)
(*                                                                           *)
(* CacheEntry takes a source that never returns to an earlier version; this  *)
(* module says when a table is such a source.                                *)
(*                                                                           *)
(* Oracle is external: a statement sees the rows committed when it started,  *)
(* all the batches of a fetch included, and a commit gives every row it      *)
(* wrote a new, larger SCN.  ORA_ROWSCN is kept per block, so rows that share *)
(* a block with a written one may get the new SCN too.  A row is told apart  *)
(* by born, the SCN at which its values were written, which no query returns. *)
(* Sessions do not exclude one another here: the lock is another module's.   *)
EXTENDS Naturals, FiniteSets

CONSTANTS
  Sessions,   \* clients that call the cached query
  Rewriters,  \* clients that run oracle_write
  Keys,       \* the places rows can be in
  Columns,    \* the column lists the table can have
  Kinds,      \* transactions of others: "write" and "shrink", which only removes rows
  MaxScn      \* bound on the commits

ASSUME KeysAssumption == IsFiniteSet(Keys)
ASSUME BoundsAssumption == MaxScn \in Nat /\ Columns # {} /\ Kinds \subseteq {"write", "shrink"}

VARIABLES
  exists,  \* whether the table exists
  cols,    \* its columns, when it exists
  rows,    \* its committed rows; SCN 0 is a place without a row
  clock,   \* the last SCN given
  shrunk,  \* TRUE once a commit wrote no row (for the properties)
  wpc,     \* where each rewriter is
  pc,      \* where each session's call is
  tok,     \* the local source_version or version_before
  seen,    \* the table when tok was read (for the properties)
  data,    \* what a call has loaded or read
  entry    \* the cache entry, as a set of at most one; at is seen (for the properties)

table   == <<exists, cols, rows, clock, shrunk>>
callVars == <<pc, tok, seen, data, entry>>
vars == <<table, wpc, callVars>>

Scn    == 0 .. MaxScn
Row    == [born : Scn, scn : Scn]
NoRow  == [born |-> 0, scn |-> 0]
Token  == [count : Nat, scn : Scn]
Result == [rows : [Keys -> Scn], cols : Columns]
Snapshot == [rows : [Keys -> Row], cols : Columns]
Probes == {"version", "w_version", "before"}
Looks  == {"lookup", "w_lookup"}

SourceTypeOK ==
  /\ exists \in BOOLEAN /\ cols \in Columns
  /\ rows \in [Keys -> Row]
  /\ clock \in Scn
  /\ shrunk \in BOOLEAN
  /\ wpc \in [Rewriters -> {"idle", "dropped", "created"}]
  /\ pc \in [Sessions -> Probes \union Looks \union {"execute", "after", "answered"}]
  /\ tok \in [Sessions -> Token]
  /\ seen \in [Sessions -> Snapshot]
  /\ data \in [Sessions -> Result]
  /\ entry \in SUBSET [token : Token, result : Result, at : Snapshot]
  /\ \A e, f \in entry : e = f

Present(t) == {k \in Keys : t[k].scn > 0}

\* Seeded fault: the version is the count alone.
IsMaxScn_Not(t, n) == n = 0

\* SELECT COUNT(*), MAX(ORA_ROWSCN); of no rows the maximum is null, taken for 0.
IsMaxScn(t, n) ==
  \/ n = 0 /\ Present(t) = {}
  \/ /\ \E k \in Present(t) : t[k].scn = n
     /\ \A k \in Present(t) : t[k].scn <= n

\* Seeded fault: the rows are not counted.
Count_Not(t) == IF Present(t) = {} THEN 0 ELSE 1

Count(t) == Cardinality(Present(t))

IsToken(t, v) == v.count = Count(t) /\ IsMaxScn(t, v.scn)

\* What a query returns of the rows t.
Values(t) == [k \in Keys |-> t[k].born]

NoRows == [k \in Keys |-> NoRow]
AnyColumns == CHOOSE c \in Columns : TRUE
NoToken == [count |-> 0, scn |-> 0]
NoResult == [rows |-> Values(NoRows), cols |-> AnyColumns]

\* The table as it is.
Now == [rows |-> rows, cols |-> cols]

SourceInit ==
  /\ exists = FALSE /\ cols = AnyColumns
  /\ rows = NoRows
  /\ clock = 0 /\ shrunk = FALSE
  /\ wpc = [w \in Rewriters |-> "idle"]
  /\ pc = [s \in Sessions |-> "version"]
  /\ tok = [s \in Sessions |-> NoToken]
  /\ seen = [s \in Sessions |-> [rows |-> NoRows, cols |-> AnyColumns]]
  /\ data = [s \in Sessions |-> NoResult]
  /\ entry = {}

Goto(s, l) == pc' = [pc EXCEPT ![s] = l]

\* The call is over, and its locals with it.
EndCall(s) ==
  /\ Goto(s, "version")
  /\ tok' = [tok EXCEPT ![s] = NoToken]
  /\ seen' = [seen EXCEPT ![s] = [rows |-> NoRows, cols |-> AnyColumns]]
  /\ data' = [data EXCEPT ![s] = NoResult]

-----------------------------------------------------------------------------
(* Those who change the table                                                *)

\* Commit, with a new SCN, the new rows `to`, `hit` among the others being in a
\* block with one of them, or with a removed row.
CommitRows(to, hit, removed) ==
  /\ clock < MaxScn
  /\ clock' = clock + 1
  /\ rows' = [k \in Keys |->
       IF k \in to THEN [born |-> clock', scn |-> clock']
       ELSE IF k \in removed THEN NoRow
       ELSE IF k \in hit THEN [rows[k] EXCEPT !.scn = clock']
       ELSE rows[k]]

\* Any transaction of someone else, e.g. one that deletes and inserts all rows.
Transaction ==
  /\ exists
  /\ \E to \in SUBSET Keys, hit, removed \in SUBSET Present(rows) :
       /\ to \intersect removed = {} /\ hit \intersect (to \union removed) = {}
       /\ CommitRows(to, hit, removed)
       /\ \/ to # {} /\ "write" \in Kinds /\ UNCHANGED shrunk
          \/ to = {} /\ removed # {} /\ "shrink" \in Kinds /\ shrunk' = TRUE
  /\ UNCHANGED <<exists, cols, wpc, callVars>>

\* drop_table_if_exists commits at once, and so does create_table.
DropTable(w) ==
  /\ wpc[w] = "idle"
  /\ wpc' = [wpc EXCEPT ![w] = "dropped"]
  /\ exists' = FALSE
  /\ cols' = AnyColumns
  /\ rows' = NoRows
  /\ UNCHANGED <<clock, shrunk, callVars>>

CreateTable(w) ==
  /\ wpc[w] = "dropped"
  /\ \/ /\ ~exists
        /\ exists' = TRUE
        /\ cols' \in Columns
        /\ wpc' = [wpc EXCEPT ![w] = "created"]
     \/ /\ exists
        /\ wpc' = [wpc EXCEPT ![w] = "idle"]
        /\ UNCHANGED <<exists, cols>>
  /\ UNCHANGED <<rows, clock, shrunk, callVars>>

\* insert_data_container: no batch is seen before the one commit.
InsertRows(w) ==
  /\ wpc[w] = "created" /\ exists
  /\ wpc' = [wpc EXCEPT ![w] = "idle"]
  /\ \E to \in SUBSET (Keys \ Present(rows)) :
       \E hit \in SUBSET Present(rows) : to # {} /\ CommitRows(to, hit, {})
  /\ UNCHANGED <<exists, cols, shrunk, callVars>>

\* There is nothing to insert, or it fails: an empty table is left behind.
InsertFails(w) ==
  /\ wpc[w] = "created"
  /\ wpc' = [wpc EXCEPT ![w] = "idle"]
  /\ UNCHANGED <<table, callVars>>

-----------------------------------------------------------------------------
(* The calls                                                                 *)

\* version_fn: before the read lock, under the write lock, before the load.
Probe(s) ==
  /\ exists
  /\ \/ pc[s] = "version" /\ Goto(s, "lookup")
     \/ pc[s] = "w_version" /\ Goto(s, "w_lookup")
     \/ pc[s] = "before" /\ Goto(s, "execute")
  /\ \E n \in Scn :
       LET v == [count |-> Count(rows), scn |-> n] IN
       IsToken(rows, v) /\ tok' = [tok EXCEPT ![s] = v]
  /\ seen' = [seen EXCEPT ![s] = Now]
  /\ UNCHANGED <<table, wpc, data, entry>>

\* A warm hit is an entry whose source version is the one just read.
Lookup(s) ==
  /\ pc[s] \in Looks
  /\ \/ \E e \in entry :
          /\ e.token = tok[s]
          /\ data' = [data EXCEPT ![s] = e.result]
          /\ Goto(s, "answered")
     \/ /\ \A e \in entry : e.token # tok[s]
        /\ Goto(s, IF pc[s] = "lookup" THEN "w_version" ELSE "before")
        /\ UNCHANGED data
  /\ UNCHANGED <<table, wpc, tok, seen, entry>>

\* The query; its fetches all read what was committed now.
Execute(s) ==
  /\ pc[s] = "execute" /\ exists
  /\ Goto(s, "after")
  /\ data' = [data EXCEPT ![s] = [rows |-> Values(rows), cols |-> cols]]
  /\ UNCHANGED <<table, wpc, tok, seen, entry>>

\* Seeded fault: the token is not read again after the load.
VersionAfter_Trusting(s) ==
  /\ pc[s] = "after" /\ exists
  /\ Goto(s, "answered")
  /\ entry' = {[token |-> tok[s], result |-> data[s], at |-> seen[s]]}
  /\ UNCHANGED <<table, wpc, tok, seen, data>>

\* Seeded fault: an entry per version is kept.
VersionAfter_KeepsOld(s) ==
  /\ pc[s] = "after" /\ exists
  /\ \/ /\ IsToken(rows, tok[s])
        /\ Goto(s, "answered")
        /\ entry' = entry \union {[token |-> tok[s], result |-> data[s], at |-> seen[s]]}
        /\ UNCHANGED data
     \/ /\ ~IsToken(rows, tok[s])
        /\ Goto(s, "before")
        /\ data' = [data EXCEPT ![s] = NoResult]
        /\ UNCHANGED entry
  /\ UNCHANGED <<table, wpc, tok, seen>>

\* The token is read again: store what was loaded, or load once more.
VersionAfter(s) ==
  /\ pc[s] = "after" /\ exists
  /\ \/ /\ IsToken(rows, tok[s])
        /\ Goto(s, "answered")
        /\ entry' = {[token |-> tok[s], result |-> data[s], at |-> seen[s]]}
        /\ UNCHANGED data
     \/ /\ ~IsToken(rows, tok[s])
        /\ Goto(s, "before")
        /\ data' = [data EXCEPT ![s] = NoResult]
        /\ UNCHANGED entry
  /\ UNCHANGED <<table, wpc, tok, seen>>

\* Between the drop and the create every statement raises ORA-00942.
StatementFails(s) ==
  /\ pc[s] \in Probes \union {"execute", "after"} /\ ~exists
  /\ EndCall(s)
  /\ UNCHANGED <<table, wpc, entry>>

Return(s) ==
  /\ pc[s] = "answered"
  /\ EndCall(s)
  /\ UNCHANGED <<table, wpc, entry>>

CallStep(s) ==
  Probe(s) \/ Lookup(s) \/ Execute(s) \/ VersionAfter(s) \/ StatementFails(s) \/ Return(s)

RewriteStep(w) == DropTable(w) \/ CreateTable(w) \/ InsertRows(w) \/ InsertFails(w)

SourceNext ==
  \/ Transaction
  \/ \E w \in Rewriters : RewriteStep(w)
  \/ \E s \in Sessions : CallStep(s)

SourceSpec == SourceInit /\ [][SourceNext]_vars

-----------------------------------------------------------------------------
(* Properties                                                                *)

Probed(s) == pc[s] # "version"

\* Two probes that return the same token saw the same rows, whatever was written,
\* moved or deleted between them: the maximum alone misses deletions, the count
\* alone misses updates (VERSION_SQL, lines 41-46).
SameTokenSameRows ==
  \A s, t \in Sessions : Probed(s) /\ Probed(t) /\ tok[s] = tok[t] =>
    Values(seen[s].rows) = Values(seen[t].rows)

\* A token of rows that is not the table's does not become it again: whoever compares a
\* token with an older one (lines 268, 658 and 982) learns whether the table has changed at
\* all between the two, and not only whether it differs.  It holds until a commit only
\* removes rows; it is what CacheEntry asks of its source without Revert.
TokensDoNotReturn ==
  [][~shrunk' =>
       \A n \in 1 .. Cardinality(Keys), m \in 0 .. clock :
         LET v == [count |-> n, scn |-> m] IN ~IsToken(rows, v) => ~IsToken(rows', v)]_vars

\* What a call returns is what the table held when the call read its version, cold
\* or warm, whichever session stored the entry: if the version is of a table with
\* rows, and no transaction only removed rows.
Answered(s) == data[s] = [rows |-> Values(seen[s].rows), cols |-> seen[s].cols]
AnswersMatchVersion ==
  \A s \in Sessions : pc[s] = "answered" /\ tok[s].count > 0 /\ ~shrunk => Answered(s)

\* The same without the two conditions: "Cold loads re-read the source version
\* before and after loading and retry if the source changes during the read"
\* (README.md:116).
LoadsAreStable == \A s \in Sessions : pc[s] = "answered" => Answered(s)
=============================================================================
