------------------------------- MODULE SqlCalls -------------------------------
(* Which entry a cached SQL call finds, and which version it compares: the   *)
(* wrappers of @nfscache.sql and sql_parquet (nfs_cache.py:96-155) with      *)
(* their lookup of arguments, the key and the table of a statement.          *)
(*                                                                           *)
(* Calls come one after the other and are one step each; what happens inside *)
(* and between concurrent ones is in CacheEntry.  A statement's text is a    *)
(* sequence of atoms: words, blanks, quotes and semicolons.  A call is the   *)
(* parameters of the decorated function, the arguments, and what it does     *)
(* with them: runs and writes name the parameters it uses, its columns are   *)
(* those of a parameter return_cols.                                         *)
EXTENDS Integers, Sequences, SequencesExt, FiniteSetsExt

CONSTANTS
  Calls,       \* the calls that may be made
  Tables,      \* Oracle's tables
  Names,       \* what may follow FROM, with the name that is without its quotes
  Reads,       \* the tables a statement reads, by its words (Oracle)
  Resolves,    \* the table a name without quotes means, or None (Oracle)
  None,
  MaxChanges,  \* bound on the changes of a table
  MaxEntries   \* bound on the entries

ASSUME CallsAssumption == MaxChanges \in Nat /\ MaxEntries \in Nat

Blanks == {" ", "nl"}

VARIABLES
  connected,   \* the cache has a connect_factory
  collide,     \* fingerprints of different statements are the same
  rows,        \* the content of each table, as a generation
  entries,     \* the cache, by key
  last         \* the last call, and what became of it

vars == <<connected, collide, rows, entries, last>>

-----------------------------------------------------------------------------
(* Text                                                                      *)

Solid(text) == {i \in DOMAIN text : text[i] \notin Blanks}

\* The n-th of the places to keep, and a text's atoms at them.
Rank(i, keep)  == Cardinality(keep \intersect 1 .. i)
Place(n, keep) == CHOOSE i \in keep : Rank(i, keep) = n
At(text, keep) == [n \in 1 .. Cardinality(keep) |-> text[Place(n, keep)]]

Bare(text) == At(text, Solid(text))

\* " ".join(sql.split()): one blank for each run of them, none at the ends.
Collapse(text) ==
  LET keep == Solid(text) \union {i \in DOMAIN text \ Solid(text) :
                i - 1 \in Solid(text) /\ \E j \in Solid(text) : i < j}
      kept == At(text, keep)
  IN  [n \in DOMAIN kept |-> IF kept[n] \in Blanks THEN " " ELSE kept[n]]

RStrip(text) == SubSeq(text, 1, Max({0} \union {i \in DOMAIN text : text[i] # ";"}))

\* Seeded fault: a semicolon at the end is part of the statement.
Normalize_Semicolon(text) == Collapse(text)
Normalize(text) == RStrip(Collapse(text))

\* The name after the first FROM, wherever that is, or None.
TableFrom(text) ==
  LET froms == {i \in DOMAIN text :
                  text[i] = "from" /\ i + 2 \in DOMAIN text /\ text[i + 2] \in DOMAIN Names}
  IN  IF froms = {} THEN None ELSE Names[text[Min(froms) + 2]]

\* What the text means to Oracle: its words, and the blanks in its literals.
InLiteral(text, i) == Quantify(1 .. i, LAMBDA j : text[j] = "'") % 2 = 1
Words(text) == RStrip(At(text, Solid(text) \union {i \in DOMAIN text : InLiteral(text, i)}))

-----------------------------------------------------------------------------
(* Arguments                                                                 *)

SqlNames  == <<"sql", "sql_query">>
PathNames == <<"parquet_path", "output_path">>

\* signature.bind_partial
Bound(c) ==
  LET given == {c.params[i] : i \in DOMAIN c.args}
  IN  [n \in given \union DOMAIN c.kwargs |->
         IF n \in DOMAIN c.kwargs THEN c.kwargs[n]
         ELSE c.args[CHOOSE i \in DOMAIN c.args : c.params[i] = n]]

Among(names, f) == ToSet(names) \intersect DOMAIN f # {}
First(names, f) == names[Min({i \in DOMAIN names : names[i] \in DOMAIN f})]

SqlArg(c) ==
  IF Among(SqlNames, c.kwargs) THEN c.kwargs[First(SqlNames, c.kwargs)]
  ELSE IF Among(SqlNames, Bound(c)) THEN Bound(c)[First(SqlNames, Bound(c))]
  ELSE c.args[1]

HasPath(c) == Among(PathNames, Bound(c))

\* Where the function writes when its path argument is replaced by the part file.
ReplacePath(c) == [Bound(c) EXCEPT ![First(PathNames, Bound(c))] = "part"]
WritesPart(c) == c.streams => ReplacePath(c)[c.writes] = "part"

\* Seeded fault: the columns are not looked up.
ReturnCols_None(c) == {}
ReturnCols(c) == IF "return_cols" \in DOMAIN c.kwargs THEN c.kwargs["return_cols"] ELSE {}

\* The columns and the words of the statement that the function itself gets.
Columns(c) == IF "return_cols" \in DOMAIN Bound(c) THEN Bound(c)["return_cols"] ELSE {}
Statement  == [c \in Calls |-> Words(Bound(c)[c.runs])]

-----------------------------------------------------------------------------
(* Keys, versions and entries                                                *)

SourceSql == [c \in Calls |-> Normalize(SqlArg(c))]

\* Normalized once more.
KeySql == [c \in Calls |-> Normalize(SourceSql[c])]
Table  == [c \in Calls |-> TableFrom(KeySql[c])]

\* The table, and a hash of the text and the columns.
Key(c) == <<Table[c], IF collide THEN <<>> ELSE <<KeySql[c], ReturnCols(c)>>>>

\* Seeded fault: the version is that of a table that never changes.
SourceVersion_Same(c) == IF connected /\ Table[c] # None THEN <<Table[c], 0>> ELSE <<>>
\* _sql_source_version, with a token that names the table's content (OracleSource).
SourceVersion(c) ==
  IF connected /\ Table[c] # None THEN <<Table[c], rows[Resolves[Table[c]]]>> ELSE <<>>

\* What the function's statement returns now.
Execute(c) ==
  [words |-> Statement[c], columns |-> Columns(c),
   rows |-> [t \in Reads[Statement[c]] |-> rows[t]]]

\* Seeded fault: the statement is not compared.
Hit_AnySql(c) == Key(c) \in DOMAIN entries /\ entries[Key(c)].version = SourceVersion(c)
\* _metadata_reject_reason has none.
Hit(c) ==
  /\ Key(c) \in DOMAIN entries
  /\ entries[Key(c)].sql = SourceSql[c] /\ entries[Key(c)].version = SourceVersion(c)

\* No path argument, or a version query that names no table.
Raises(c) ==
  \/ c.streams /\ ~HasPath(c)
  \/ connected /\ Table[c] # None /\ Resolves[Table[c]] = None

Nothing == [outcome |-> "none"]
Returned(c, content) == [outcome |-> "returned", call |-> c, content |-> content]

CallsInit ==
  /\ connected \in BOOLEAN /\ collide \in BOOLEAN
  /\ rows = [t \in Tables |-> 0]
  /\ entries = <<>>
  /\ last = Nothing

\* Before the entry is looked up, or behind a load that left no part file to describe.
CallRaises(c) ==
  /\ Raises(c) \/ (~Raises(c) /\ ~Hit(c) /\ ~WritesPart(c))
  /\ last' = [outcome |-> "raised", call |-> c]
  /\ UNCHANGED <<connected, collide, rows, entries>>

CallHits(c) ==
  /\ ~Raises(c) /\ Hit(c)
  /\ last' = Returned(c, entries[Key(c)].content)
  /\ UNCHANGED <<connected, collide, rows, entries>>

CallLoads(c) ==
  /\ ~Raises(c) /\ ~Hit(c) /\ WritesPart(c)
  /\ Cardinality(DOMAIN entries \union {Key(c)}) <= MaxEntries
  /\ LET entry == [sql |-> SourceSql[c], version |-> SourceVersion(c), content |-> Execute(c)]
     IN  entries' = [k \in DOMAIN entries \union {Key(c)} |-> IF k = Key(c) THEN entry ELSE entries[k]]
  /\ last' = Returned(c, Execute(c))
  /\ UNCHANGED <<connected, collide, rows>>

TableChanges(t) ==
  /\ rows[t] < MaxChanges
  /\ rows' = [rows EXCEPT ![t] = @ + 1]
  /\ last' = Nothing
  /\ UNCHANGED <<connected, collide, entries>>

CallsNext ==
  \/ \E c \in Calls : CallRaises(c) \/ CallHits(c) \/ CallLoads(c)
  \/ \E t \in Tables : TableChanges(t)

CallsSpec == CallsInit /\ [][CallsNext]_vars

-----------------------------------------------------------------------------
(* Properties                                                                *)

\* A quote stands behind each place that is in a literal.
Closed(text) ==
  \A i \in DOMAIN text : InLiteral(text, i) => \E j \in DOMAIN text : i < j /\ text[j] = "'"

\* The function runs the text the cache looks up, and that closes its literals.
Plain(c) == Bound(c)[c.runs] = SqlArg(c) /\ Closed(SqlArg(c))

\* No semicolon stands behind a blank.
Tidy(text) == \A i \in DOMAIN text : text[i] = ";" => text[i - 1] \notin Blanks

\* The words, without semicolons at the end, that blanks stand behind.
Stem(text) == RStrip(Bare(text))
Gaps(text) == {k \in 1 .. Len(Stem(text)) - 1 : Place(k, Solid(text)) + 1 \notin Solid(text)}

\* Without columns by position, which the cache does not see.
ByName(c) == Columns(c) = {} \/ "return_cols" \in DOMAIN c.kwargs

\* No call with the same text means something else, or gets columns the key does not hold apart.
Unmistakable(c) ==
  \A d \in Calls : SourceSql[c] = SourceSql[d] =>
    /\ Statement[c] = Statement[d]
    /\ Columns(c) = Columns(d) \/ (ByName(c) /\ ByName(d) /\ ~collide)

\* Whose version says enough: the one table it reads is the one that is asked.
Versioned(c) == connected /\ Table[c] # None /\ {Resolves[Table[c]]} = Reads[Statement[c]]

\* A call returns what its statement returns now, with its columns, provided it reads one
\* table, which the version is taken of, and no call that asks for something else looks
\* the same: one whose columns are passed by position, whose literals differ in blanks, or
\* whose columns have the same fingerprint (nfs_cache.py:103-115, 811-812, 881-913).
AnswersAreRight ==
  last.outcome = "returned" =>
    LET c == last.call IN Versioned(c) /\ Unmistakable(c) => last.content = Execute(c)

\* Joins too are as new as their first table is (nfs_cache.py:46, 874-879).
FirstTableIsFresh ==
  (last.outcome = "returned" /\ connected /\ Table[last.call] # None) =>
    LET t == Resolves[Table[last.call]]
    IN  t \in DOMAIN last.content.rows => last.content.rows[t] = rows[t]

\* No call is answered with another statement, even if fingerprints collide: at most with
\* one that differs by blanks in its literals (nfs_cache.py:892-895, the check of
\* source_sql at 956-1005).
StatementsStayApart ==
  last.outcome = "returned" => Bare(last.content.words) = Bare(Statement[last.call])

\* A statement that is called again in another spelling is not loaded again: blanks and a
\* semicolon right behind it make no difference (nfs_cache.py:811-812).
SpellingsShare ==
  last.outcome = "returned" =>
    \A d \in Calls :
      LET c == last.call
      IN  (/\ Statement[c] = Statement[d] /\ Tidy(SqlArg(c)) /\ Tidy(SqlArg(d))
           /\ Columns(c) = Columns(d) /\ ByName(c) /\ ByName(d)) => Hit(d)

\* The README's own example, a function of sql, filename and connection (README.md:56-57;
\* also tests/test_nfs_cache_sql.py:213-214), is answered.
ExampleIsAnswered == last.outcome # "raised"
=============================================================================
