---------------------------- MODULE MCSqlCalls ----------------------------
(* Statements that are spelled, joined, quoted and asked for in many ways.   *)
EXTENDS SqlCalls

From(t)      == <<"select", " ", "*", " ", "from", " ", t>>
Untidy(t)    == <<"nl", "select", " ", " ", "*", "nl", "from", " ", t, ";", " ">>
Spaced(t)    == From(t) \o <<" ", ";">>
Join(t, u)   == From(t) \o <<" ", "join", " ", u>>
Literal(bs)  == <<"select", " ", "'", "x">> \o bs \o <<"x", "'", " ", "from", " ", "T">>
Extract      == <<"select", " ", "extract(year", " ", "from", " ", "created">> \o Tail(From("T"))
NoTable      == <<"select", " ", "1">>

\* def read(sql, return_cols), def query(text, return_cols) and def stream(sql_query, output_path)
Read(args, kwargs)   == [params |-> <<"sql", "return_cols">>, args |-> args, kwargs |-> kwargs,
                         runs |-> "sql", streams |-> FALSE, writes |-> "none"]
Query(text)          == [Read(<<text>>, <<>>) EXCEPT !.params = <<"text", "return_cols">>, !.runs = "text"]
Stream(path, args, kwargs) ==
  [params |-> <<"sql_query", path, "connection">>, args |-> args, kwargs |-> kwargs,
   runs |-> "sql_query", streams |-> TRUE, writes |-> path]

\* def stream(sql_query, output_path, copy_path), of which copy_path is what it writes to
Elsewhere ==
  [Stream("output_path", <<From("T"), "out", "copy">>, <<>>) EXCEPT
     !.params = <<"sql_query", "output_path", "copy_path">>, !.writes = "copy_path"]

With(f)  == [return_cols |-> f]

MCCalls ==
  {Read(<<From("T")>>, <<>>), Read(<<Untidy("T")>>, <<>>), Read(<<Spaced("T")>>, <<>>),
   Read(<<From("U")>>, <<>>), Read(<<Join("T", "U")>>, <<>>),
   Read(<<From("U")>>, With({"A"})), Read(<<Join("T", "U"), {"A"}>>, <<>>),
   Read(<<Literal(<<" ">>)>>, <<>>), Read(<<Literal(<<" ", " ">>)>>, <<>>),
   Read(<<From("qt")>>, <<>>), Read(<<Extract>>, <<>>), Query(NoTable),
   Stream("output_path", <<>>, [sql_query |-> From("T"), output_path |-> "out"]), Elsewhere}

\* def stream(sql, filename, connection)
MCExample == {[Stream("filename", <<From("T"), "out", "conn">>, <<>>) EXCEPT
                 !.params = <<"sql", "filename", "connection">>, !.runs = "sql"]}
             \union {Read(<<From(t)>>, <<>>) : t \in {"T", "U"}}

\* "qt" stands for a quoted name, of another table than the same name without its quotes.
MCTables   == {"T", "U", "q"}
MCNames    == [n \in {"T", "U", "qt", "created"} |-> IF n = "qt" THEN "T" ELSE n]
MCResolves == [n \in {"T", "U", "created"} |-> IF n = "created" THEN None ELSE n]
MCReads    ==
  [w \in {Words(SqlArg(c)) : c \in MCCalls \union MCExample} |->
     {t \in MCTables : t \in ToSet(w) \/ (t = "q" /\ "qt" \in ToSet(w))}]

\* What the theorems about texts assume of the calls.
ASSUME CallsArePlain == \A c \in Calls : Plain(c)
ASSUME WordsDecideGaps ==
  \A c, d \in Calls : Statement[c] = Statement[d] => Gaps(SqlArg(c)) = Gaps(SqlArg(d))
=============================================================================
