------------------------ MODULE ParquetStreamProofs ------------------------
(* Theorems about ArrowTypes and ParquetStream, for any results, batch size, *)
(* number of clients and faults.                                             *)
EXTENDS ParquetStream, SequenceTheorems, TLAPS

-----------------------------------------------------------------------------
(* Conversions                                                               *)

\* What the schema says of a declared column.
LEMMA DeclaredType ==
  ASSUME NEW col \in OracleColumn, NEW d \in BOOLEAN, Declared(col, d)
  PROVE  /\ col.precision \in 1 .. 38 /\ col.scale \in 0 .. col.precision
         /\ col.scale = 0 /\ col.precision <= 18 => ArrowType(col, d) = Simple("int64")
         /\ col.scale # 0 \/ col.precision > 18 => ArrowType(col, d) = Decimal128(col.precision, col.scale)
<1>1. col.precision \in 1 .. 38 /\ col.scale \in 0 .. col.precision
  BY DEF Declared
<1>2. ArrowType(col, d) = NumberType(col, d)
  <2>1. /\ col.db \in NumberTypes /\ col.db \notin TextTypes /\ col.db \notin BinaryTypes
        /\ col.db \notin DoubleTypes /\ col.db \notin TimestampTypes
        /\ col.db # "boolean" /\ col.db # "interval_ds"
    BY DEF Declared, TextTypes, BinaryTypes, DoubleTypes, NumberTypes, TimestampTypes
  <2> QED
    BY <2>1, Zenon DEF ArrowType
<1>3. col.precision # Unset /\ col.scale # Unset
  BY <1>1, UnsetAssumption
<1>4. CASE col.scale = 0
  BY <1>1, <1>2, <1>3, <1>4 DEF NumberType, NumberTypeFrom, Decimal128, Simple
<1>5. CASE col.scale # 0
  <2>1. d /\ Fixed(col, d)
    BY <1>1, <1>3, <1>5 DEF Declared, Fixed
  <2> QED
    BY <1>1, <1>2, <1>3, <1>5, <2>1 DEF NumberType, NumberTypeFrom, Decimal128, Simple
<1> QED
  BY <1>1, <1>4, <1>5

\* Every value of every column of declared integers, and of declared decimals where the
\* driver is told to fetch them as such, is exact in the file (oracle_streaming.py:94-112,
\* 182-190): the borders of int64 and decimal128 leave no value out.
THEOREM DeclaredIsExact ==
  ASSUME NEW col \in OracleColumn, NEW d \in BOOLEAN, Declared(col, d),
         NEW v \in OracleValue, Holds(col, v)
  PROVE  Convert(col, v, d) = "exact"
<1>1. CASE v.kind = "none"
  BY <1>1 DEF Convert
<1>2. CASE v.kind # "none"
  <2>1. col.db = "number" /\ col.db \in NumberTypes /\ v.digits \in Nat /\ v.frac \in Nat
    BY DEF Declared, NumberTypes, OracleValue
  <2>2. HoldsNumber(col, v)
    BY <1>2, <2>1 DEF Holds
  <2>3. col.precision \notin {Unset, 0} /\ col.scale \notin {Unset, -127}
    BY DeclaredType, UnsetAssumption
  <2>4. v.digits <= col.precision - col.scale /\ v.frac <= col.scale
    BY <2>1, <2>2, <2>3, DeclaredType DEF HoldsNumber
  <2>5. CASE col.scale = 0 /\ col.precision <= 18
    <3>1. ArrowType(col, d) = Simple("int64") /\ Simple("int64").kind = "int64"
      BY <2>5, DeclaredType DEF Simple
    <3>2. NumberKind(col, v, d) \in {"decimal", "int"}
      BY <2>1, <2>4, <2>5 DEF NumberKind
    <3>3. Coerce(NumberKind(col, v, d), Simple("int64")) = "int"
      BY <3>2, <3>1 DEF Coerce
    <3>4. NumberOutcome(v, NumberKind(col, v, d), Simple("int64")) = "exact"
      BY <2>1, <2>4, <2>5, <3>1, DeclaredType DEF NumberOutcome
    <3> QED
      BY <2>1, <3>1, <3>3, <3>4, <1>2 DEF Convert, Takes
  <2>6. CASE col.scale # 0 \/ col.precision > 18
    <3> DEFINE type == Decimal128(col.precision, col.scale)
    <3>1. ArrowType(col, d) = type
      BY <2>6, DeclaredType
    <3>2. type.kind = "decimal128" /\ type.precision = col.precision /\ type.scale = col.scale
      BY DEF Decimal128
    <3>3. Coerce(NumberKind(col, v, d), type) = "decimal"
      BY <3>2 DEF Coerce, NumberKind
    <3>4. NumberOutcome(v, NumberKind(col, v, d), type) = "exact"
      BY <2>4, <3>2 DEF NumberOutcome
    <3> QED
      BY <2>1, <3>1, <3>2, <3>3, <3>4 DEF Convert, Takes
  <2> QED
    BY <2>5, <2>6, DeclaredType
<1> QED
  BY <1>1, <1>2

-----------------------------------------------------------------------------
(* Types, and what is in the part file at each place of a call               *)

USE DEF Goto, Part, SetPart, PartName, source, locals

LEMMA FunctionIsSeq ==
  ASSUME NEW S, NEW n \in Nat, NEW f \in [1 .. n -> S]
  PROVE  f \in Seq(S) /\ Len(f) = n
<1>1. f \in Seq(S)
  BY SeqDef
<1>2. Len(f) \in Nat /\ DOMAIN f = 1 .. Len(f)
  BY <1>1, LenProperties
<1> QED
  BY <1>1, <1>2

LEMMA RowIsValue == ASSUME NEW c, NEW v \in Samples PROVE Row(c, v) \in Value
  BY DEF Row, Value

\* The first n rows of a result make a sequence of n rows.
LEMMA WrittenIsSeq ==
  ASSUME NEW c \in Client, result[c] \in Seq(Samples), NEW n \in 0 .. Len(result[c])
  PROVE  Written(c, n) \in Seq(Value) /\ Len(Written(c, n)) = n
<1>1. \A i \in 1 .. n : result[c][i] \in Samples
  BY ElementOfSeq, LenProperties
<1>2. Written(c, n) \in [1 .. n -> Value]
  BY <1>1, RowIsValue DEF Written
<1> QED
  BY <1>2, FunctionIsSeq, LenProperties

\* A batch appended to the first rows gives the first rows and the batch.
LEMMA BatchAppends ==
  ASSUME NEW c \in Client, result[c] \in Seq(Samples), got[c] \in 0 .. Len(result[c])
  PROVE  /\ Fetched(c) \in 0 .. Len(result[c]) /\ got[c] <= Fetched(c)
         /\ Written(c, got[c]) \o NextBatch(c) = Written(c, Fetched(c))
<1> DEFINE n == got[c]
           m == Fetched(c)
<1>1. Len(result[c]) \in Nat /\ n \in Nat
  BY LenProperties
<1>2. m \in 0 .. Len(result[c]) /\ n <= m /\ m \in Nat
  BY <1>1, StreamAssumption DEF Fetched
<1> HIDE DEF m
<1>3. /\ Written(c, n) \in Seq(Value) /\ Len(Written(c, n)) = n
      /\ Written(c, m) \in Seq(Value) /\ Len(Written(c, m)) = m
  BY <1>2, WrittenIsSeq
<1>4. NextBatch(c) = [i \in 1 .. m - n |-> Row(c, result[c][n + i])]
  BY DEF NextBatch, m
<1>5. NextBatch(c) \in [1 .. m - n -> Value]
  <2>1. \A i \in 1 .. m - n : result[c][n + i] \in Samples
    BY <1>1, <1>2, ElementOfSeq
  <2> QED
    BY <1>4, <2>1, RowIsValue
<1>6. NextBatch(c) \in Seq(Value) /\ Len(NextBatch(c)) = m - n
  BY <1>1, <1>2, <1>5, FunctionIsSeq
<1> DEFINE t == Written(c, n) \o NextBatch(c)
<1>7. /\ t \in Seq(Value) /\ Len(t) = m
      /\ \A i \in 1 .. m : t[i] = IF i <= n THEN Written(c, n)[i] ELSE NextBatch(c)[i - n]
  BY <1>1, <1>2, <1>3, <1>6, ConcatProperties
<1>8. ASSUME NEW i \in 1 .. m PROVE t[i] = Written(c, m)[i]
  <2>1. Written(c, m)[i] = Row(c, result[c][i])
    BY DEF Written
  <2>2. CASE i <= n
    BY <1>1, <1>2, <1>7, <2>1, <2>2 DEF Written
  <2>3. CASE ~(i <= n)
    <3>1. i - n \in 1 .. m - n /\ n + (i - n) = i
      BY <1>1, <1>2, <2>3
    <3>2. NextBatch(c)[i - n] = Row(c, result[c][i])
      BY <1>4, <3>1
    <3> QED
      BY <1>7, <2>1, <2>3, <3>2
  <2> QED
    BY <2>2, <2>3
<1> HIDE DEF t
<1>9. t = Written(c, m)
  BY <1>3, <1>7, <1>8, SeqEqual
<1> QED
  BY <1>2, <1>9 DEF m, t

FlowOf(c) ==
  /\ c \in Streams => pc[c] \notin {"write", "finally"}
  /\ c \in Generators =>
       c \notin writer /\ pc[c] \notin {"execute", "open", "fetch", "close", "failing", "unlink"}
  /\ pc[c] \in {"idle", "done", "failed", "execute", "open", "write"} => parts[c] = NoFile
  /\ pc[c] \in {"idle", "done", "failed", "execute", "open", "write", "replace", "unlink"} =>
       c \notin writer
  /\ c \in writer => parts[c] \in File
  /\ pc[c] \in {"fetch", "close"} =>
       /\ got[c] \in 0 .. Len(result[c])
       /\ parts[c] = [rows |-> Written(c, got[c]), closed |-> FALSE]
  /\ pc[c] = "open" => got[c] = 0
  /\ pc[c] = "close" => got[c] = Len(result[c])
  /\ pc[c] = "replace" => parts[c] = Whole(c)

FlowInv == \A c \in Client : FlowOf(c)
StreamInv == StreamTypeOK /\ FlowInv

LEMMA FileTypes ==
  /\ EmptyFile \in File /\ EmptyFile # NoFile
  /\ \A f \in File : f # NoFile
<1>1. EmptyFile \in File
  BY EmptySeq DEF EmptyFile, File
<1>2. ASSUME NEW f \in File PROVE f # NoFile
  BY StreamAssumption
<1> QED
  BY <1>1, <1>2

LEMMA WholeIsFile ==
  ASSUME NEW c \in Client, result[c] \in Seq(Samples)
  PROVE  Whole(c) \in [rows : Seq(Value), closed : {TRUE}] /\ Whole(c) \in File
<1>1. Len(result[c]) \in 0 .. Len(result[c])
  BY LenProperties
<1> QED
  BY <1>1, WrittenIsSeq DEF Whole, File

\* What a call has to write depends on its result, which no other call touches.
LEMMA WrittenKept ==
  ASSUME column' = column, decimals' = decimals, NEW c \in Client, result'[c] = result[c]
  PROVE  (\A n : Written(c, n)' = Written(c, n)) /\ Whole(c)' = Whole(c)
  BY DEF Written, Whole, Row, Outcome

LEMMA ResultIsSeq == \A col : ResultOf(col) \subseteq Seq(Samples)
<1> SUFFICES ASSUME NEW col, NEW n \in 0 .. MaxRows, NEW r \in [1 .. n -> SampleOf(col)]
             PROVE  r \in Seq(Samples)
  BY DEF ResultOf
<1>1. n \in Nat /\ r \in [1 .. n -> Samples]
  BY StreamAssumption DEF SampleOf
<1> QED
  BY <1>1, FunctionIsSeq

LEMMA StreamInvInit == StreamInit => StreamInv
  BY ResultIsSeq, EmptySeq, StreamAssumption
  DEF StreamInit, StreamInv, StreamTypeOK, FlowInv, FlowOf, StreamPc, Client

\* What FlowOf says of a client depends on nothing of the others.
LEMMA FlowKept ==
  ASSUME NEW d \in Client, FlowOf(d), column' = column, decimals' = decimals,
         pc'[d] = pc[d], parts'[d] = parts[d], result'[d] = result[d], got'[d] = got[d],
         d \in writer' <=> d \in writer
  PROVE  FlowOf(d)'
<1>1. (\A n : Written(d, n)' = Written(d, n)) /\ Whole(d)' = Whole(d)
  BY WrittenKept
<1> QED
  BY <1>1 DEF FlowOf

\* The step of the induction: c moves, the others stay as they are.
LEMMA MoveKeepsInv ==
  ASSUME StreamInv, NEW c \in Client, column' = column, decimals' = decimals,
         StreamTypeOK', FlowOf(c)',
         \A d \in Client \ {c} :
           /\ pc'[d] = pc[d] /\ parts'[d] = parts[d] /\ result'[d] = result[d] /\ got'[d] = got[d]
           /\ d \in writer' <=> d \in writer
  PROVE  StreamInv'
<1>1. ASSUME NEW d \in Client PROVE FlowOf(d)'
  <2>1. CASE d = c
    BY <2>1
  <2>2. CASE d # c
    BY <2>2, FlowKept DEF StreamInv, FlowInv
  <2> QED
    BY <2>1, <2>2
<1> QED
  BY <1>1 DEF StreamInv, FlowInv

LEMMA StreamInvStep == StreamInv /\ [StreamNext]_vars => StreamInv'
<1> SUFFICES ASSUME StreamInv, [StreamNext]_vars PROVE StreamInv'
  OBVIOUS
<1> USE StreamAssumption
<1> USE DEF StreamTypeOK, StreamPc
<1>t. StreamTypeOK /\ \A c \in Client : FlowOf(c)
  BY DEF StreamInv, FlowInv
<1>c. Streams \subseteq Client /\ Generators \subseteq Client /\ \A c \in Client : Path(c) \in Client
  BY DEF Client, Path
<1>1. ASSUME NEW c \in Streams, BeginStream(c) PROVE StreamInv'
  <2>1. StreamTypeOK'
    BY <1>1, <1>t, <1>c, FileTypes DEF BeginStream, FlowOf
  <2>2. FlowOf(c)'
    BY <1>1, <1>t, <1>c, FileTypes DEF BeginStream, FlowOf, Client
  <2> QED
    BY <1>1, <1>t, <1>c, <2>1, <2>2, MoveKeepsInv DEF BeginStream
<1>2. ASSUME NEW c \in Generators, BeginFrame(c) PROVE StreamInv'
  <2>1. StreamTypeOK'
    BY <1>2, <1>t, <1>c, FileTypes DEF BeginFrame, FlowOf
  <2>2. FlowOf(c)'
    BY <1>2, <1>t, <1>c, FileTypes DEF BeginFrame, FlowOf, Client
  <2> QED
    BY <1>2, <1>t, <1>c, <2>1, <2>2, MoveKeepsInv DEF BeginFrame
<1>3. ASSUME NEW c \in Client, Execute(c) PROVE StreamInv'
  <2>1. StreamTypeOK'
    BY <1>3, <1>t, <1>c, FileTypes DEF Execute, FlowOf
  <2>2. FlowOf(c)'
    BY <1>3, <1>t, <1>c, FileTypes DEF Execute, FlowOf, Client
  <2> QED
    BY <1>3, <1>t, <1>c, <2>1, <2>2, MoveKeepsInv DEF Execute
<1>4. ASSUME NEW c \in Client, Open(c) PROVE StreamInv'
  <2>w. (\A n : Written(c, n)' = Written(c, n)) /\ Whole(c)' = Whole(c)
    BY <1>4, WrittenKept DEF Open
  <2>1. StreamTypeOK'
    BY <1>4, <1>t, FileTypes DEF Open, FlowOf
  <2>v. Written(c, 0)' = Written(c, 0)
    BY <2>w
  <2>2. FlowOf(c)'
    <3>1. Written(c, 0) = <<>>
      <4>1. Len(result[c]) \in Nat
        BY <1>t, LenProperties
      <4>2. 0 \in 0 .. Len(result[c])
        BY <4>1
      <4> QED
        BY <1>t, <4>2, WrittenIsSeq, EmptySeq
    <3>2. /\ parts'[c] = [rows |-> Written(c, 0)', closed |-> FALSE]
          /\ got'[c] = 0 /\ 0 \in 0 .. Len(result[c]) /\ result'[c] = result[c]
      <4>1. Len(result[c]) \in Nat
        BY <1>t, LenProperties
      <4> QED
        <5>1. got[c] = 0
          BY <1>4, <1>t DEF Open, FlowOf
        <5>2. parts' = [parts EXCEPT ![c] = EmptyFile] /\ got' = got /\ result' = result
          BY <1>4 DEF Open
        <5>3. parts'[c] = [rows |-> Written(c, 0), closed |-> FALSE] /\ got'[c] = 0
          BY <1>t, <3>1, <5>1, <5>2 DEF EmptyFile
        <5>4. parts'[c] = [rows |-> Written(c, 0)', closed |-> FALSE]
          BY <2>v, <5>3
        <5>5. 0 \in 0 .. Len(result[c])
          BY <4>1
        <5> QED
          BY <5>2, <5>3, <5>4, <5>5
    <3>3. pc'[c] = "fetch" /\ c \notin Generators /\ parts'[c] \in File
      BY <1>4, <1>t, FileTypes DEF Open, FlowOf
    <3> QED
      BY <3>2, <3>3 DEF FlowOf
  <2> QED
    BY <1>4, <1>t, <1>c, <2>1, <2>2, MoveKeepsInv DEF Open
<1>5. ASSUME NEW c \in Client, Fetch(c) PROVE StreamInv'
  <2>w. (\A n : Written(c, n)' = Written(c, n)) /\ Whole(c)' = Whole(c)
    BY <1>5, WrittenKept DEF Fetch
  <2>f. /\ got[c] \in 0 .. Len(result[c]) /\ result[c] \in Seq(Samples)
        /\ parts[c] = [rows |-> Written(c, got[c]), closed |-> FALSE]
    BY <1>5, <1>t DEF Fetch, FlowOf
  <2>b. /\ Fetched(c) \in 0 .. Len(result[c]) /\ Fetched(c) \in Nat
        /\ Written(c, got[c]) \o NextBatch(c) = Written(c, Fetched(c))
    <3>1. /\ Fetched(c) \in 0 .. Len(result[c])
          /\ Written(c, got[c]) \o NextBatch(c) = Written(c, Fetched(c))
      BY <2>f, BatchAppends
    <3>2. Len(result[c]) \in Nat
      BY <2>f, LenProperties
    <3> QED
      BY <3>1, <3>2
  <2>p. /\ Fetched(c) \in 0 .. Len(result[c]) /\ Fetched(c) \in Nat
        /\ parts' = [parts EXCEPT ![c] = [rows |-> Written(c, Fetched(c)), closed |-> FALSE]]
        /\ [rows |-> Written(c, Fetched(c)), closed |-> FALSE] \in File
    <3>1. Written(c, Fetched(c)) \in Seq(Value)
      BY <2>b, <2>f, WrittenIsSeq
    <3>2. [rows |-> parts[c].rows \o NextBatch(c), closed |-> FALSE]
          = [rows |-> Written(c, Fetched(c)), closed |-> FALSE]
      <4>1. parts[c].rows = Written(c, got[c])
        BY <2>f
      <4> QED
        BY <2>b, <4>1, Zenon
    <3> QED
      BY <1>5, <2>b, <3>1, <3>2 DEF Fetch, File
  <2>1. StreamTypeOK'
    BY <1>5, <1>t, <2>p DEF Fetch
  <2>2. FlowOf(c)'
    <3>1. pc'[c] = "fetch" /\ c \notin Generators
      BY <1>5, <1>t DEF Fetch, FlowOf
    <3>2. got'[c] = Fetched(c) /\ parts'[c] = [rows |-> Written(c, Fetched(c)), closed |-> FALSE]
      BY <1>5, <1>t, <2>p, <2>w DEF Fetch
    <3> QED
      BY <1>5, <1>t, <2>p, <2>w, <3>1, <3>2 DEF Fetch, FlowOf
  <2> QED
    BY <1>5, <1>t, <1>c, <2>1, <2>2, MoveKeepsInv DEF Fetch
<1>6. ASSUME NEW c \in Client, FetchRaises(c) PROVE StreamInv'
  <2>1. StreamTypeOK'
    BY <1>6, <1>t, <1>c, FileTypes DEF FetchRaises, FlowOf
  <2>2. FlowOf(c)'
    BY <1>6, <1>t, <1>c, FileTypes DEF FetchRaises, FlowOf, Client
  <2> QED
    BY <1>6, <1>t, <1>c, <2>1, <2>2, MoveKeepsInv DEF FetchRaises
<1>7. ASSUME NEW c \in Client, FetchedAll(c) PROVE StreamInv'
  <2>w. (\A n : Written(c, n)' = Written(c, n)) /\ Whole(c)' = Whole(c)
    BY <1>7, WrittenKept DEF FetchedAll
  <2>1. StreamTypeOK'
    BY <1>7, <1>t DEF FetchedAll
  <2>2. FlowOf(c)'
    BY <1>7, <1>t, <2>w DEF FetchedAll, FlowOf
  <2> QED
    BY <1>7, <1>t, <1>c, <2>1, <2>2, MoveKeepsInv DEF FetchedAll
<1>8. ASSUME NEW c \in Client, CloseWriter(c) PROVE StreamInv'
  <2>w. (\A n : Written(c, n)' = Written(c, n)) /\ Whole(c)' = Whole(c)
    BY <1>8, WrittenKept DEF CloseWriter
  <2>p. parts' = [parts EXCEPT ![c] = Whole(c)] /\ Whole(c) \in File
    <3>1. [rows |-> parts[c].rows, closed |-> TRUE] = Whole(c)
      <4>1. parts[c] = [rows |-> Written(c, got[c]), closed |-> FALSE] /\ got[c] = Len(result[c])
        BY <1>8, <1>t DEF CloseWriter, FlowOf
      <4>2. parts[c].rows = Written(c, Len(result[c]))
        BY <4>1
      <4> QED
        BY <4>2, Zenon DEF Whole
    <3> QED
      BY <1>8, <1>t, <3>1, WholeIsFile DEF CloseWriter
  <2>1. StreamTypeOK'
    BY <1>8, <1>t, <2>p DEF CloseWriter
  <2>2. FlowOf(c)'
    BY <1>8, <1>t, <2>p, <2>w DEF CloseWriter, FlowOf
  <2> QED
    BY <1>8, <1>t, <1>c, <2>1, <2>2, MoveKeepsInv DEF CloseWriter
<1>9. ASSUME NEW c \in Client, Replace(c) PROVE StreamInv'
  <2>1. StreamTypeOK'
    BY <1>9, <1>t, <1>c, FileTypes DEF Replace, FlowOf
  <2>2. FlowOf(c)'
    BY <1>9, <1>t, <1>c, FileTypes DEF Replace, FlowOf, Client
  <2> QED
    BY <1>9, <1>t, <1>c, <2>1, <2>2, MoveKeepsInv DEF Replace
<1>10. ASSUME NEW c \in Client, FailClose(c) PROVE StreamInv'
  <2>p. \E f \in File \union {NoFile} : parts' = [parts EXCEPT ![c] = f]
    <3>1. CASE c \in writer
      <4>1. parts[c] \in File
        BY <1>t, <3>1 DEF FlowOf
      <4>2. PICK footer \in BOOLEAN :
              parts' = [parts EXCEPT ![c] = [rows |-> parts[c].rows, closed |-> parts[c].closed \/ footer]]
        BY <1>10, <3>1 DEF FailClose
      <4>3. [rows |-> parts[c].rows, closed |-> parts[c].closed \/ footer] \in File
        BY <4>1 DEF File
      <4> QED
        BY <4>2, <4>3
    <3>2. CASE c \notin writer
      <4>1. parts' = [parts EXCEPT ![c] = parts[c]]
        BY <1>10, <1>t, <3>2 DEF FailClose
      <4> QED
        BY <1>t, <4>1
    <3> QED
      BY <3>1, <3>2
  <2>1. StreamTypeOK'
    BY <1>10, <1>t, <2>p DEF FailClose
  <2>2. FlowOf(c)'
    BY <1>10, <1>t DEF FailClose, FlowOf
  <2>3. \A d \in Client \ {c} : parts'[d] = parts[d]
    BY <2>p, <1>t
  <2> QED
    BY <1>10, <1>t, <2>1, <2>2, <2>3, MoveKeepsInv DEF FailClose
<1>11. ASSUME NEW c \in Client, FailUnlink(c) PROVE StreamInv'
  <2>1. StreamTypeOK'
    BY <1>11, <1>t, <1>c, FileTypes DEF FailUnlink, FlowOf
  <2>2. FlowOf(c)'
    BY <1>11, <1>t, <1>c, FileTypes DEF FailUnlink, FlowOf, Client
  <2> QED
    BY <1>11, <1>t, <1>c, <2>1, <2>2, MoveKeepsInv DEF FailUnlink
<1>12. ASSUME NEW c \in Client, WriteFrame(c) PROVE StreamInv'
  <2>w. (\A n : Written(c, n)' = Written(c, n)) /\ Whole(c)' = Whole(c)
    BY <1>12, WrittenKept DEF WriteFrame
  <2>1. StreamTypeOK'
    <3>1. Whole(c) \in File
      BY <1>t, WholeIsFile
    <3> QED
      BY <1>12, <1>t, <3>1 DEF WriteFrame
  <2>2. FlowOf(c)'
    BY <1>12, <1>t, <1>c, <2>w, WholeIsFile DEF WriteFrame, FlowOf
  <2> QED
    BY <1>12, <1>t, <1>c, <2>1, <2>2, MoveKeepsInv DEF WriteFrame
<1>13. ASSUME NEW c \in Client, Finally(c) PROVE StreamInv'
  <2>1. StreamTypeOK'
    BY <1>13, <1>t, <1>c, FileTypes DEF Finally, FlowOf
  <2>2. FlowOf(c)'
    BY <1>13, <1>t, <1>c, FileTypes DEF Finally, FlowOf, Client
  <2> QED
    BY <1>13, <1>t, <1>c, <2>1, <2>2, MoveKeepsInv DEF Finally
<1>14. ASSUME NEW c \in Client, OracleFails(c) PROVE StreamInv'
  <2>1. StreamTypeOK'
    BY <1>14, <1>t, <1>c, FileTypes DEF OracleFails, Fault, FlowOf
  <2>2. FlowOf(c)'
    BY <1>14, <1>t, <1>c, FileTypes DEF OracleFails, Fault, FlowOf, Client
  <2> QED
    BY <1>14, <1>t, <1>c, <2>1, <2>2, MoveKeepsInv DEF OracleFails, Fault
<1>15. ASSUME NEW c \in Client, DiskFails(c) PROVE StreamInv'
  <2>p. parts' = parts \/ parts' = [parts EXCEPT ![c] = EmptyFile]
    BY <1>15 DEF DiskFails
  <2>1. StreamTypeOK'
    <3>1. parts' \in [Client -> File \union {NoFile}]
      BY <1>t, <2>p, FileTypes
    <3> QED
      BY <1>15, <1>t, <3>1 DEF DiskFails, Fault
  <2>2. FlowOf(c)'
    BY <1>15, <1>t, <1>c, FileTypes DEF DiskFails, Fault, FlowOf, Client
  <2> QED
    BY <1>15, <1>t, <1>c, <2>1, <2>2, MoveKeepsInv DEF DiskFails, Fault
<1>16. ASSUME NEW c \in Client, FrameFails(c) PROVE StreamInv'
  <2>p. parts' = parts \/ parts' = [parts EXCEPT ![c] = EmptyFile]
    BY <1>16 DEF FrameFails
  <2>1. StreamTypeOK'
    <3>1. parts' \in [Client -> File \union {NoFile}]
      BY <1>t, <2>p, FileTypes
    <3>2. faults' \in 0 .. MaxFaults /\ pc' \in [Client -> StreamPc]
      BY <1>16, <1>t DEF FrameFails, Fault
    <3> QED
      BY <1>16, <1>t, <3>1, <3>2 DEF FrameFails
  <2>2. FlowOf(c)'
    BY <1>16, <1>t, <1>c, FileTypes DEF FrameFails, Fault, FlowOf, Client
  <2> QED
    BY <1>16, <1>t, <1>c, <2>1, <2>2, MoveKeepsInv DEF FrameFails, Fault
<1>17. ASSUME NEW c \in Client, UnlinkFails(c) PROVE StreamInv'
  <2>1. StreamTypeOK'
    BY <1>17, <1>t, <1>c, FileTypes DEF UnlinkFails, Fault, FlowOf
  <2>2. FlowOf(c)'
    BY <1>17, <1>t, <1>c, FileTypes DEF UnlinkFails, Fault, FlowOf, Client
  <2> QED
    BY <1>17, <1>t, <1>c, <2>1, <2>2, MoveKeepsInv DEF UnlinkFails, Fault
<1>18. ASSUME NEW c \in Client, StreamInterrupted(c) PROVE StreamInv'
  <2>1. StreamTypeOK'
    BY <1>18, <1>t, <1>c, FileTypes DEF StreamInterrupted, Fault, FlowOf
  <2>2. FlowOf(c)'
    BY <1>18, <1>t, <1>c, FileTypes DEF StreamInterrupted, Fault, FlowOf, Client
  <2> QED
    BY <1>18, <1>t, <1>c, <2>1, <2>2, MoveKeepsInv DEF StreamInterrupted, Fault
<1>19. ASSUME NEW c \in Client, StreamCrash(c) PROVE StreamInv'
  <2>1. StreamTypeOK'
    BY <1>19, <1>t, <1>c, FileTypes DEF StreamCrash, Fault, FlowOf
  <2>2. FlowOf(c)'
    BY <1>19, <1>t, <1>c, FileTypes DEF StreamCrash, Fault, FlowOf, Client
  <2> QED
    BY <1>19, <1>t, <1>c, <2>1, <2>2, MoveKeepsInv DEF StreamCrash, Fault
<1>20. CASE TableChanges
  <2>1. StreamTypeOK'
    BY <1>20, <1>t, ResultIsSeq DEF TableChanges
  <2>2. ASSUME NEW d \in Client PROVE FlowOf(d)'
    BY <1>20, <1>t, FlowKept DEF TableChanges
  <2> QED
    BY <2>1, <2>2 DEF StreamInv, FlowInv
<1>21. CASE UNCHANGED vars
  <2>1. StreamTypeOK'
    BY <1>21, <1>t DEF vars
  <2>2. ASSUME NEW d \in Client PROVE FlowOf(d)'
    BY <1>21, <1>t, FlowKept DEF vars
  <2> QED
    BY <2>1, <2>2 DEF StreamInv, FlowInv
<1> QED
  BY <1>1, <1>2, <1>3, <1>4, <1>5, <1>6, <1>7, <1>8, <1>9, <1>10, <1>11, <1>12, <1>13, <1>14, <1>15, <1>16, <1>17, <1>18, <1>19, <1>20, <1>21 DEF StreamNext, StreamStep, StreamFails

LEMMA StreamInvAlways == StreamSpec => []StreamInv
  BY StreamInvInit, StreamInvStep, PTL DEF StreamSpec

\* Types of the streams and their files, for any clients, results and faults.
THEOREM StreamTypeCorrect == StreamSpec => []StreamTypeOK
<1>1. StreamInv => StreamTypeOK
  BY DEF StreamInv
<1> QED
  BY <1>1, StreamInvAlways, PTL

\* No call that ended leaves a part file or an open writer, whatever failed in it
\* (oracle_streaming.py:260-270, generate_parquets.py:105-109).
THEOREM PartsGoAlways == StreamSpec => []PartsGone
<1>1. StreamInv => PartsGone
  BY DEF StreamInv, FlowInv, FlowOf, PartsGone
<1> QED
  BY <1>1, StreamInvAlways, PTL

-----------------------------------------------------------------------------
(* Outputs are whole                                                         *)

\* Where a call has promised what to write.
Promising == {"open", "fetch", "close", "write", "replace"}

LEMMA AbstractInit == StreamInit => AF!AbsInit
  BY DEF StreamInit, AF!AbsInit, Promised

WholeTyped ==
  result \in [Client -> Seq(Samples)] =>
    \A c \in Client : Whole(c) \in [rows : Seq(Value), closed : {TRUE}]

LEMMA WholeIsTyped == WholeTyped
  BY WholeIsFile DEF WholeTyped

\* Every step is one of AtomicFile, or leaves the output and the promises as they are.
LEMMA AbstractStep == StreamInv /\ [StreamNext]_vars => [AF!AbsNext]_(AF!absVars)
<1> SUFFICES ASSUME StreamInv, [StreamNext]_vars PROVE AF!AbsNext \/ UNCHANGED AF!absVars
  OBVIOUS
<1> USE StreamAssumption
<1>t. StreamTypeOK /\ \A c \in Client : FlowOf(c)
  BY DEF StreamInv, FlowInv
<1>c. Streams \subseteq Client /\ Generators \subseteq Client
  BY DEF Client
<1>w. \A c \in Client : Whole(c) \in [rows : Seq(Value), closed : {TRUE}] /\ Whole(c) # NoFile
  BY <1>t, WholeIsFile, FileTypes DEF StreamTypeOK
<1>p. Promised = [c \in Client |-> IF pc[c] \in Promising THEN Whole(c) ELSE NoFile]
  BY DEF Promised, Promising
<1>q. Promised' = [c \in Client |-> IF pc'[c] \in Promising THEN Whole(c)' ELSE NoFile]
  BY DEF Promised, Promising
\* A call that keeps its place among the promising, and its result, keeps its promise.
<1>k. ASSUME NEW d \in Client, column' = column, decimals' = decimals,
             result'[d] = result[d] \/ pc[d] \notin Promising,
             pc'[d] \in Promising <=> pc[d] \in Promising
      PROVE  Promised'[d] = Promised[d]
  BY <1>k, <1>p, <1>q, WrittenKept
\* If everyone does and no output changes, nothing happens.
<1>s. ASSUME column' = column, decimals' = decimals, output' = output,
             \A d \in Client : /\ result'[d] = result[d] \/ pc[d] \notin Promising
                               /\ pc'[d] \in Promising <=> pc[d] \in Promising
      PROVE  UNCHANGED AF!absVars
  <2>1. \A d \in Client : Promised'[d] = Promised[d]
    BY <1>s, <1>k
  <2>2. Promised' = Promised
    BY <2>1, <1>p, <1>q
  <2> QED
    BY <1>s, <2>2 DEF AF!absVars
\* One that gives its promise up, and nobody else moves.
<1>g. ASSUME NEW c \in Client, column' = column, decimals' = decimals, output' = output,
             pc[c] \in Promising, pc'[c] \notin Promising, result' = result,
             \A d \in Client \ {c} : pc'[d] = pc[d]
      PROVE  AF!AbsNext
  <2>1. Promised[c] # NoFile /\ Promised'[c] = NoFile
    BY <1>g, <1>p, <1>q, <1>w
  <2>2. \A d \in Client \ {c} : Promised'[d] = Promised[d]
    BY <1>g, <1>k
  <2>3. Promised' = [Promised EXCEPT ![c] = NoFile]
    BY <2>1, <2>2, <1>p, <1>q
  <2>4. AF!GiveUp(c)
    BY <1>g, <2>1, <2>3 DEF AF!GiveUp
  <2> QED
    BY <2>4 DEF AF!AbsNext
\* One that makes its promise, and nobody else moves.
<1>m. ASSUME NEW c \in Client, column' = column, decimals' = decimals, output' = output,
             pc[c] \notin Promising, pc'[c] \in Promising, result'[c] \in Seq(Samples),
             \A d \in Client \ {c} : pc'[d] = pc[d] /\ result'[d] = result[d]
      PROVE  AF!AbsNext
  <2>1. Promised[c] = NoFile /\ Promised'[c] = Whole(c)'
    BY <1>m, <1>p, <1>q
  <2>2. Whole(c)' \in [rows : Seq(Value), closed : {TRUE}]
    <3>1. WholeTyped'
      BY WholeIsTyped, PTL
    <3>2. result' \in [Client -> Seq(Samples)]
      BY StreamInvStep DEF StreamInv, StreamTypeOK
    <3> QED
      BY <1>m, <3>1, <3>2 DEF WholeTyped
  <2>3. \A d \in Client \ {c} : Promised'[d] = Promised[d]
    BY <1>m, <1>k
  <2>4. Promised' = [Promised EXCEPT ![c] = Promised'[c]]
    BY <2>3, <1>p, <1>q
  <2>5. AF!Promise(c)
    BY <1>m, <2>1, <2>2, <2>4 DEF AF!Promise
  <2> QED
    BY <2>5 DEF AF!AbsNext
<1>1. ASSUME NEW c \in Streams, BeginStream(c) PROVE AF!AbsNext \/ UNCHANGED AF!absVars
  <2>1. Promised[c] = NoFile
    BY <1>1, <1>p, <1>c DEF BeginStream, Promising
  <2>2. \A d \in Client : Promised'[d] = Promised[d]
    BY <1>1, <1>k, <1>t, <1>c DEF BeginStream, StreamTypeOK, Promising
  <2>3. Promised' = Promised
    BY <2>2, <1>p, <1>q
  <2>4. AF!Take(c)
    BY <1>1, <2>1, <2>3 DEF BeginStream, AF!Take
  <2> QED
    BY <2>4, <1>c DEF AF!AbsNext
<1>2. ASSUME NEW c \in Generators, BeginFrame(c) PROVE AF!AbsNext \/ UNCHANGED AF!absVars
  <2>1. result'[c] \in Seq(Samples)
    BY <1>2, <1>t, <1>c DEF BeginFrame, StreamTypeOK
  <2>2. pc[c] \notin Promising /\ pc'[c] \in Promising
    BY <1>2, <1>t, <1>c DEF BeginFrame, StreamTypeOK, Promising
  <2>3. \A d \in Client \ {c} : pc'[d] = pc[d] /\ result'[d] = result[d]
    BY <1>2, <1>t DEF BeginFrame, StreamTypeOK
  <2> QED
    BY <1>2, <2>1, <2>2, <2>3, <1>m, <1>c DEF BeginFrame
<1>3. ASSUME NEW c \in Client, Execute(c) PROVE AF!AbsNext \/ UNCHANGED AF!absVars
  <2>1. CASE column = NoColumns
    BY <1>3, <2>1, <1>s, <1>t DEF Execute, StreamTypeOK, Promising
  <2>2. CASE column # NoColumns
    <3>1. result'[c] \in Seq(Samples) /\ pc[c] \notin Promising /\ pc'[c] \in Promising
      BY <1>3, <2>2, <1>t DEF Execute, StreamTypeOK, Promising
    <3>2. \A d \in Client \ {c} : pc'[d] = pc[d] /\ result'[d] = result[d]
      BY <1>3, <1>t DEF Execute, StreamTypeOK
    <3> QED
      BY <1>3, <3>1, <3>2, <1>m DEF Execute
  <2> QED
    BY <2>1, <2>2
<1>4. ASSUME NEW c \in Client, Open(c) PROVE AF!AbsNext \/ UNCHANGED AF!absVars
  BY <1>4, <1>s, <1>t, <1>c DEF Open, FlowOf, StreamTypeOK, Promising
<1>5. ASSUME NEW c \in Client, Fetch(c) PROVE AF!AbsNext \/ UNCHANGED AF!absVars
  BY <1>5, <1>s, <1>t, <1>c DEF Fetch, FlowOf, StreamTypeOK, Promising
<1>6. ASSUME NEW c \in Client, FetchedAll(c) PROVE AF!AbsNext \/ UNCHANGED AF!absVars
  BY <1>6, <1>s, <1>t, <1>c DEF FetchedAll, FlowOf, StreamTypeOK, Promising
<1>7. ASSUME NEW c \in Client, CloseWriter(c) PROVE AF!AbsNext \/ UNCHANGED AF!absVars
  BY <1>7, <1>s, <1>t, <1>c DEF CloseWriter, FlowOf, StreamTypeOK, Promising
<1>8. ASSUME NEW c \in Client, FetchRaises(c) PROVE AF!AbsNext \/ UNCHANGED AF!absVars
  <2>1. CASE pc[c] \in Promising
    BY <1>8, <2>1, <1>g, <1>t, <1>c DEF FetchRaises, Fault, StreamTypeOK, Promising
  <2>2. CASE pc[c] \notin Promising
    BY <1>8, <2>2, <1>s, <1>t, <1>c DEF FetchRaises, Fault, StreamTypeOK, Promising
  <2> QED
    BY <2>1, <2>2
<1>9. ASSUME NEW c \in Client, Replace(c) PROVE AF!AbsNext \/ UNCHANGED AF!absVars
  <2>1. Promised[c] = Whole(c) /\ Promised[c] # NoFile /\ Promised'[c] = NoFile
    BY <1>9, <1>p, <1>q, <1>w, <1>t DEF Replace, StreamTypeOK, Promising
  <2>2. \A d \in Client \ {c} : Promised'[d] = Promised[d]
    BY <1>9, <1>k, <1>t DEF Replace, StreamTypeOK
  <2>3. Promised' = [Promised EXCEPT ![c] = NoFile]
    BY <2>1, <2>2, <1>p, <1>q
  <2>4. output' = [output EXCEPT ![Path(c)] = Promised[c]]
    BY <1>9, <2>1, <1>t DEF Replace, FlowOf
  <2>5. AF!Install(c)
    BY <2>1, <2>3, <2>4 DEF AF!Install
  <2> QED
    BY <2>5 DEF AF!AbsNext
<1>10. ASSUME NEW c \in Client, FailClose(c) PROVE AF!AbsNext \/ UNCHANGED AF!absVars
  BY <1>10, <1>s, <1>t, <1>c DEF FailClose, FlowOf, StreamTypeOK, Promising
<1>11. ASSUME NEW c \in Client, FailUnlink(c) PROVE AF!AbsNext \/ UNCHANGED AF!absVars
  BY <1>11, <1>s, <1>t, <1>c DEF FailUnlink, FlowOf, StreamTypeOK, Promising
<1>12. ASSUME NEW c \in Client, WriteFrame(c) PROVE AF!AbsNext \/ UNCHANGED AF!absVars
  BY <1>12, <1>s, <1>t, <1>c DEF WriteFrame, FlowOf, StreamTypeOK, Promising
<1>13. ASSUME NEW c \in Client, Finally(c) PROVE AF!AbsNext \/ UNCHANGED AF!absVars
  BY <1>13, <1>s, <1>t, <1>c DEF Finally, FlowOf, StreamTypeOK, Promising
<1>14. ASSUME NEW c \in Client, OracleFails(c) PROVE AF!AbsNext \/ UNCHANGED AF!absVars
  <2>1. CASE pc[c] \in Promising
    BY <1>14, <2>1, <1>g, <1>t, <1>c DEF OracleFails, Fault, StreamTypeOK, Promising
  <2>2. CASE pc[c] \notin Promising
    BY <1>14, <2>2, <1>s, <1>t, <1>c DEF OracleFails, Fault, StreamTypeOK, Promising
  <2> QED
    BY <2>1, <2>2
<1>15. ASSUME NEW c \in Client, DiskFails(c) PROVE AF!AbsNext \/ UNCHANGED AF!absVars
  <2>1. CASE pc[c] \in Promising
    BY <1>15, <2>1, <1>g, <1>t, <1>c DEF DiskFails, Fault, StreamTypeOK, Promising
  <2>2. CASE pc[c] \notin Promising
    BY <1>15, <2>2, <1>s, <1>t, <1>c DEF DiskFails, Fault, StreamTypeOK, Promising
  <2> QED
    BY <2>1, <2>2
<1>16. ASSUME NEW c \in Client, FrameFails(c) PROVE AF!AbsNext \/ UNCHANGED AF!absVars
  <2>1. CASE pc[c] \in Promising
    BY <1>16, <2>1, <1>g, <1>t, <1>c DEF FrameFails, Fault, StreamTypeOK, Promising
  <2>2. CASE pc[c] \notin Promising
    BY <1>16, <2>2, <1>s, <1>t, <1>c DEF FrameFails, Fault, StreamTypeOK, Promising
  <2> QED
    BY <2>1, <2>2
<1>17. ASSUME NEW c \in Client, UnlinkFails(c) PROVE AF!AbsNext \/ UNCHANGED AF!absVars
  <2>1. CASE pc[c] \in Promising
    BY <1>17, <2>1, <1>g, <1>t, <1>c DEF UnlinkFails, Fault, StreamTypeOK, Promising
  <2>2. CASE pc[c] \notin Promising
    BY <1>17, <2>2, <1>s, <1>t, <1>c DEF UnlinkFails, Fault, StreamTypeOK, Promising
  <2> QED
    BY <2>1, <2>2
<1>18. ASSUME NEW c \in Client, StreamInterrupted(c) PROVE AF!AbsNext \/ UNCHANGED AF!absVars
  <2>1. CASE pc[c] \in Promising
    BY <1>18, <2>1, <1>g, <1>t, <1>c DEF StreamInterrupted, Fault, StreamTypeOK, Promising
  <2>2. CASE pc[c] \notin Promising
    BY <1>18, <2>2, <1>s, <1>t, <1>c DEF StreamInterrupted, Fault, StreamTypeOK, Promising
  <2> QED
    BY <2>1, <2>2
<1>19. ASSUME NEW c \in Client, StreamCrash(c) PROVE AF!AbsNext \/ UNCHANGED AF!absVars
  <2>1. CASE pc[c] \in Promising
    BY <1>19, <2>1, <1>g, <1>t, <1>c DEF StreamCrash, Fault, StreamTypeOK, Promising
  <2>2. CASE pc[c] \notin Promising
    BY <1>19, <2>2, <1>s, <1>t, <1>c DEF StreamCrash, Fault, StreamTypeOK, Promising
  <2> QED
    BY <2>1, <2>2
<1>20. CASE TableChanges
  BY <1>20, <1>s DEF TableChanges
<1>21. CASE UNCHANGED vars
  BY <1>21, <1>s DEF vars
<1> QED
  BY <1>1, <1>2, <1>3, <1>4, <1>5, <1>6, <1>7, <1>8, <1>9, <1>10, <1>11, <1>12, <1>13, <1>14, <1>15, <1>16, <1>17, <1>18, <1>19, <1>20, <1>21 DEF StreamNext, StreamStep, StreamFails

\* An output changes only from one whole file to the next, the one a call set out to write:
\* for any results, batches, clients on a path, failures, crashes and interruptions.
THEOREM FilesAreAtomic == StreamSpec => ImplementsAtomicFile
<1> QED
  BY AbstractInit, AbstractStep, StreamInvAlways, PTL DEF StreamSpec, ImplementsAtomicFile, AF!AbsSpec

-----------------------------------------------------------------------------
(* Declared numbers arrive                                                   *)

Lossless == column # NoColumns /\ Declared(column, decimals)
Trouble  == {"failing", "unlink", "failed"}

ExactOf(c) ==
  /\ result[c] \in Seq(SampleOf(column))
  /\ faults = 0 => pc[c] \notin Trouble
  /\ parts[c] # NoFile => \A i \in DOMAIN parts[c].rows : parts[c].rows[i] # Rounded

ExactInv == Lossless => table \in Seq(SampleOf(column)) /\ \A c \in Streams : ExactOf(c)

\* A row of a stream's result is written as it is.
LEMMA RowsExact ==
  ASSUME Lossless, column \in Columns, decimals \in BOOLEAN,
         NEW c, result[c] \in Seq(SampleOf(column)), NEW i \in 1 .. Len(result[c])
  PROVE  /\ Outcome(result[c][i]) = "exact"
         /\ Row(c, result[c][i]) # Rounded
<1>1. result[c][i] \in SampleOf(column)
  BY ElementOfSeq
<1>2. column \in OracleColumn /\ result[c][i] \in OracleValue /\ Holds(column, result[c][i])
  BY <1>1, StreamAssumption DEF Lossless, SampleOf
<1>3. Outcome(result[c][i]) = "exact"
  BY <1>2, DeclaredIsExact DEF Lossless, Outcome
<1> QED
  BY <1>1, <1>3, StreamAssumption DEF Row, SampleOf

LEMMA ResultOfColumn == \A col : ResultOf(col) \subseteq Seq(SampleOf(col))
<1> SUFFICES ASSUME NEW col, NEW n \in 0 .. MaxRows, NEW r \in [1 .. n -> SampleOf(col)]
             PROVE  r \in Seq(SampleOf(col))
  BY DEF ResultOf
<1> QED
  BY StreamAssumption, FunctionIsSeq

LEMMA ExactInvInit == StreamInit => ExactInv
  BY ResultOfColumn, EmptySeq DEF StreamInit, ExactInv, ExactOf, Trouble, Client

LEMMA ExactInvStep == StreamInv /\ StreamInv' /\ ExactInv /\ [StreamNext]_vars => ExactInv'
<1> SUFFICES ASSUME StreamInv, StreamInv', ExactInv, [StreamNext]_vars, Lossless'
             PROVE  ExactInv'
  BY DEF ExactInv
<1> USE StreamAssumption
<1>t. StreamTypeOK /\ \A c \in Client : FlowOf(c)
  BY DEF StreamInv, FlowInv
<1>u. \A c \in Client : FlowOf(c)'
  BY DEF StreamInv, FlowInv
<1>c. Streams \subseteq Client /\ \A c \in Streams : c \notin Generators
  BY DEF Client
<1>l. column' = column /\ decimals' = decimals /\ SampleOf(column)' = SampleOf(column) /\ Lossless
  <2>1. column' = column /\ decimals' = decimals
    BY DEF StreamNext, StreamStep, StreamFails, BeginStream, BeginFrame, Execute, Open, Fetch,
           FetchRaises, FetchedAll, CloseWriter, Replace, FailClose, FailUnlink, WriteFrame, Finally,
           OracleFails, DiskFails, FrameFails, UnlinkFails, StreamInterrupted, StreamCrash,
           TableChanges, vars
  <2> QED
    BY <2>1 DEF SampleOf, Lossless
<1>e. table \in Seq(SampleOf(column)) /\ \A c \in Streams : ExactOf(c)
  BY <1>l DEF ExactInv
\* The rows in the file of a call that is fetching are exact.
<1>f. ASSUME NEW c \in Streams, pc'[c] = "fetch", result'[c] = result[c]
      PROVE  \A i \in DOMAIN parts'[c].rows : parts'[c].rows[i] # Rounded
  <2>1. /\ got'[c] \in 0 .. Len(result[c]) /\ Len(result[c]) \in Nat
        /\ parts'[c] = [rows |-> Written(c, got[c])', closed |-> FALSE]
    BY <1>f, <1>u, <1>c, <1>e, LenProperties DEF FlowOf, ExactOf
  <2>2. parts'[c].rows = [i \in 1 .. got'[c] |-> Row(c, result[c][i])']
    BY <1>f, <2>1 DEF Written
  <2>3. \A i \in 1 .. Len(result[c]) : Row(c, result[c][i])' = Row(c, result[c][i])
    BY <1>f, <1>l DEF Row, Outcome
  <2>4. \A i \in 1 .. Len(result[c]) : Row(c, result[c][i]) # Rounded
    BY <1>l, <1>t, <1>e, RowsExact DEF StreamTypeOK, ExactOf
  <2> QED
    BY <2>1, <2>2, <2>3, <2>4
\* c moves, the other streams stay as they are.
<1>m. ASSUME table' = table \/ table' \in Seq(SampleOf(column)),
             \A d \in Streams :
               \/ ExactOf(d)'
               \/ result'[d] = result[d] /\ pc'[d] = pc[d] /\ parts'[d] = parts[d]
                  /\ (faults' = 0 => faults = 0)
      PROVE  ExactInv'
  <2>1. ASSUME NEW d \in Streams PROVE ExactOf(d)'
    BY <1>m, <1>l, <1>e DEF ExactOf
  <2> QED
    BY <1>m, <1>l, <1>e, <2>1 DEF ExactInv
<1>1. ASSUME NEW c \in Streams, BeginStream(c) PROVE ExactInv'
  <2>1. c \in Streams => ExactOf(c)'
    BY <1>1, <1>e, <1>l, <1>t, <1>c DEF BeginStream, StreamTypeOK, FlowOf, ExactOf, Trouble
  <2> QED
    BY <1>1, <1>m, <1>t, <1>c, <2>1 DEF BeginStream, StreamTypeOK
<1>2. ASSUME NEW c \in Generators, BeginFrame(c) PROVE ExactInv'
  <2>1. c \in Streams => ExactOf(c)'
    BY <1>2, <1>e, <1>l, <1>t, <1>c DEF BeginFrame, StreamTypeOK, FlowOf, ExactOf, Trouble
  <2> QED
    BY <1>2, <1>m, <1>t, <1>c, <2>1 DEF BeginFrame, StreamTypeOK
<1>3. ASSUME NEW c \in Client, Execute(c) PROVE ExactInv'
  <2>1. c \in Streams => ExactOf(c)'
    BY <1>3, <1>e, <1>l, <1>t, <1>c DEF Execute, StreamTypeOK, FlowOf, ExactOf, Trouble, Lossless
  <2> QED
    BY <1>3, <1>m, <1>t, <1>c, <2>1 DEF Execute, StreamTypeOK
<1>4. ASSUME NEW c \in Client, Open(c) PROVE ExactInv'
  <2>1. c \in Streams => ExactOf(c)'
    BY <1>4, <1>e, <1>l, <1>t, <1>c, <1>f DEF Open, StreamTypeOK, ExactOf, Trouble
  <2> QED
    BY <1>4, <1>m, <1>t, <1>c, <2>1 DEF Open, StreamTypeOK
<1>5. ASSUME NEW c \in Client, Fetch(c) PROVE ExactInv'
  <2>1. c \in Streams => ExactOf(c)'
    BY <1>5, <1>e, <1>l, <1>t, <1>c, <1>f DEF Fetch, StreamTypeOK, ExactOf, Trouble
  <2> QED
    BY <1>5, <1>m, <1>t, <1>c, <2>1 DEF Fetch, StreamTypeOK
<1>6. ASSUME NEW c \in Client, FetchRaises(c) PROVE ExactInv'
  <2>1. c \in Streams => ExactOf(c)'
    <3> SUFFICES ASSUME c \in Streams PROVE FALSE
      OBVIOUS
    <3>1. result[c] \in Seq(SampleOf(column)) /\ got[c] \in 0 .. Len(result[c])
      BY <1>6, <1>e, <1>t DEF FetchRaises, FlowOf, ExactOf
    <3>2. Fetched(c) \in 0 .. Len(result[c]) /\ Len(result[c]) \in Nat
      BY <3>1, <1>t, BatchAppends, LenProperties DEF StreamTypeOK
    <3>3. PICK i \in got[c] + 1 .. Fetched(c) : Outcome(result[c][i]) = "raises"
      BY <1>6 DEF FetchRaises
    <3>4. i \in 1 .. Len(result[c])
      BY <3>1, <3>2
    <3> QED
      BY <1>l, <1>t, <3>1, <3>3, <3>4, RowsExact DEF StreamTypeOK
  <2> QED
    BY <1>6, <1>m, <1>t, <1>c, <2>1 DEF FetchRaises, StreamTypeOK
<1>7. ASSUME NEW c \in Client, FetchedAll(c) PROVE ExactInv'
  <2>1. c \in Streams => ExactOf(c)'
    BY <1>7, <1>e, <1>l, <1>t, <1>c DEF FetchedAll, StreamTypeOK, FlowOf, ExactOf, Trouble
  <2> QED
    BY <1>7, <1>m, <1>t, <1>c, <2>1 DEF FetchedAll, StreamTypeOK
<1>8. ASSUME NEW c \in Client, CloseWriter(c) PROVE ExactInv'
  <2>1. c \in Streams => ExactOf(c)'
    <3>1. got[c] \in 0 .. Len(result[c]) /\ parts[c] = [rows |-> Written(c, got[c]), closed |-> FALSE]
      BY <1>8, <1>t DEF CloseWriter, FlowOf
    <3>2. parts[c] \in File
      BY <3>1, <1>t, WrittenIsSeq DEF StreamTypeOK, File
    <3>3. parts'[c].rows = parts[c].rows
      BY <1>8, <1>t DEF CloseWriter, StreamTypeOK
    <3> QED
      BY <1>8, <1>e, <1>l, <1>t, <1>c, <3>2, <3>3, FileTypes DEF CloseWriter, StreamTypeOK, ExactOf, Trouble
  <2> QED
    BY <1>8, <1>m, <1>t, <1>c, <2>1 DEF CloseWriter, StreamTypeOK
<1>9. ASSUME NEW c \in Client, Replace(c) PROVE ExactInv'
  <2>1. c \in Streams => ExactOf(c)'
    BY <1>9, <1>e, <1>l, <1>t, <1>c DEF Replace, StreamTypeOK, FlowOf, ExactOf, Trouble
  <2> QED
    BY <1>9, <1>m, <1>t, <1>c, <2>1 DEF Replace, StreamTypeOK
<1>10. ASSUME NEW c \in Client, FailClose(c) PROVE ExactInv'
  <2>1. c \in Streams => ExactOf(c)'
    <3>1. c \in writer => parts[c] # NoFile
      BY <1>t, FileTypes DEF FlowOf
    <3>2. parts' = parts \/ (c \in writer /\ parts'[c].rows = parts[c].rows)
      BY <1>10, <1>t DEF FailClose, StreamTypeOK
    <3> QED
      BY <1>10, <1>e, <1>l, <1>t, <1>c, <3>1, <3>2 DEF FailClose, StreamTypeOK, ExactOf, Trouble
  <2> QED
    BY <1>10, <1>m, <1>t, <1>c, <2>1 DEF FailClose, StreamTypeOK
<1>11. ASSUME NEW c \in Client, FailUnlink(c) PROVE ExactInv'
  <2>1. c \in Streams => ExactOf(c)'
    BY <1>11, <1>e, <1>l, <1>t, <1>c DEF FailUnlink, StreamTypeOK, FlowOf, ExactOf, Trouble
  <2> QED
    BY <1>11, <1>m, <1>t, <1>c, <2>1 DEF FailUnlink, StreamTypeOK
<1>12. ASSUME NEW c \in Client, WriteFrame(c) PROVE ExactInv'
  <2>1. c \in Streams => ExactOf(c)'
    BY <1>12, <1>e, <1>l, <1>t, <1>c DEF WriteFrame, StreamTypeOK, FlowOf, ExactOf, Trouble
  <2> QED
    BY <1>12, <1>m, <1>t, <1>c, <2>1 DEF WriteFrame, StreamTypeOK
<1>13. ASSUME NEW c \in Client, Finally(c) PROVE ExactInv'
  <2>1. c \in Streams => ExactOf(c)'
    BY <1>13, <1>e, <1>l, <1>t, <1>c DEF Finally, StreamTypeOK, FlowOf, ExactOf, Trouble
  <2> QED
    BY <1>13, <1>m, <1>t, <1>c, <2>1 DEF Finally, StreamTypeOK
<1>14. ASSUME NEW c \in Client, OracleFails(c) PROVE ExactInv'
  <2>1. c \in Streams => ExactOf(c)'
    BY <1>14, <1>e, <1>l, <1>t, <1>c DEF OracleFails, Fault, StreamTypeOK, FlowOf, ExactOf, Trouble
  <2> QED
    BY <1>14, <1>m, <1>t, <1>c, <2>1 DEF OracleFails, Fault, StreamTypeOK
<1>15. ASSUME NEW c \in Client, DiskFails(c) PROVE ExactInv'
  <2>1. c \in Streams => ExactOf(c)'
    <3>1. parts'[c] = parts[c] \/ parts'[c] = EmptyFile
      BY <1>15, <1>t DEF DiskFails, StreamTypeOK
    <3>2. \A i \in DOMAIN EmptyFile.rows : FALSE
      BY DEF EmptyFile
    <3>3. result' = result /\ faults' # 0
      BY <1>15, <1>t DEF DiskFails, Fault, StreamTypeOK
    <3> QED
      BY <1>e, <1>l, <3>1, <3>2, <3>3 DEF ExactOf
  <2> QED
    BY <1>15, <1>m, <1>t, <1>c, <2>1 DEF DiskFails, Fault, StreamTypeOK
<1>16. ASSUME NEW c \in Client, FrameFails(c) PROVE ExactInv'
  <2>1. c \in Streams => ExactOf(c)'
    BY <1>16, <1>e, <1>l, <1>t, <1>c DEF FrameFails, Fault, StreamTypeOK, FlowOf, ExactOf, Trouble
  <2> QED
    BY <1>16, <1>m, <1>t, <1>c, <2>1 DEF FrameFails, Fault, StreamTypeOK
<1>17. ASSUME NEW c \in Client, UnlinkFails(c) PROVE ExactInv'
  <2>1. c \in Streams => ExactOf(c)'
    BY <1>17, <1>e, <1>l, <1>t, <1>c DEF UnlinkFails, Fault, StreamTypeOK, FlowOf, ExactOf, Trouble
  <2> QED
    BY <1>17, <1>m, <1>t, <1>c, <2>1 DEF UnlinkFails, Fault, StreamTypeOK
<1>18. ASSUME NEW c \in Client, StreamInterrupted(c) PROVE ExactInv'
  <2>1. c \in Streams => ExactOf(c)'
    BY <1>18, <1>e, <1>l, <1>t, <1>c DEF StreamInterrupted, Fault, StreamTypeOK, FlowOf, ExactOf, Trouble
  <2> QED
    BY <1>18, <1>m, <1>t, <1>c, <2>1 DEF StreamInterrupted, Fault, StreamTypeOK
<1>19. ASSUME NEW c \in Client, StreamCrash(c) PROVE ExactInv'
  <2>1. c \in Streams => ExactOf(c)'
    BY <1>19, <1>e, <1>l, <1>t, <1>c DEF StreamCrash, Fault, StreamTypeOK, FlowOf, ExactOf, Trouble
  <2> QED
    BY <1>19, <1>m, <1>t, <1>c, <2>1 DEF StreamCrash, Fault, StreamTypeOK
<1>20. CASE TableChanges
  BY <1>20, <1>m, ResultOfColumn DEF TableChanges
<1>21. CASE UNCHANGED vars
  BY <1>21, <1>m DEF vars
<1> QED
  BY <1>1, <1>2, <1>3, <1>4, <1>5, <1>6, <1>7, <1>8, <1>9, <1>10, <1>11, <1>12, <1>13, <1>14, <1>15, <1>16, <1>17, <1>18, <1>19, <1>20, <1>21 DEF StreamNext, StreamStep, StreamFails

\* A declared column streams without loss and is no reason for a call to fail, whatever the
\* result and the size of the batches (oracle_streaming.py:94-112, 155-208).
THEOREM NumbersAlwaysArrive == StreamSpec => []NumbersArrive
<1>1. ExactInv => NumbersArrive
  BY DEF ExactInv, ExactOf, NumbersArrive, Lossless, Trouble
<1>2. StreamSpec => []ExactInv
  BY StreamInvAlways, ExactInvInit, ExactInvStep, PTL DEF StreamSpec
<1> QED
  BY <1>1, <1>2, PTL

-----------------------------------------------------------------------------
(* What a stream leaves at its path                                          *)

DeliverOf(c) ==
  /\ pc[c] = "done" => output[c] = Whole(c)
  /\ pc[c] \notin {"done", "dead"} => output[c] = NoFile
  /\ pc[c] \in {"open", "fetch", "close", "replace", "done"} => column # NoColumns

DeliverInv == \A c \in Streams : DeliverOf(c)

LEMMA DeliverInvStep == StreamInv /\ DeliverInv /\ [StreamNext]_vars => DeliverInv'
<1> SUFFICES ASSUME StreamInv, DeliverInv, [StreamNext]_vars PROVE DeliverInv'
  OBVIOUS
<1> USE StreamAssumption
<1>t. StreamTypeOK /\ \A c \in Client : FlowOf(c)
  BY DEF StreamInv, FlowInv
<1>c. Streams \subseteq Client /\ \A c \in Streams : c \notin Generators /\ Path(c) = c
  BY DEF Client, Path
<1>g. \A c \in Client \ Streams : c \in Generators /\ Path(c) \in Generators
  BY DEF Client, Path
\* A stream that ends no call and whose path nobody touches.
<1>k. ASSUME NEW d \in Streams, column' = column, decimals' = decimals, output'[d] = output[d],
             \/ pc'[d] = pc[d] /\ result'[d] = result[d]
             \/ pc'[d] = "dead"
             \/ /\ pc[d] \notin {"done", "dead"} /\ pc'[d] # "done"
                /\ pc'[d] \in {"open", "fetch", "close", "replace"} => column # NoColumns
      PROVE  DeliverOf(d)'
  <2>1. CASE pc'[d] = pc[d] /\ result'[d] = result[d]
    <3>1. Whole(d)' = Whole(d)
      BY <1>k, <1>c, <2>1, WrittenKept
    <3> QED
      BY <1>k, <2>1, <3>1 DEF DeliverInv, DeliverOf
  <2> QED
    BY <1>k, <2>1 DEF DeliverInv, DeliverOf
<1>1. ASSUME NEW c \in Streams, BeginStream(c) PROVE DeliverInv'
  <2>1. DeliverOf(c)'
    BY <1>1, <1>t, <1>c DEF BeginStream, StreamTypeOK, DeliverOf
  <2>2. ASSUME NEW d \in Streams \ {c} PROVE DeliverOf(d)'
    BY <1>1, <1>t, <1>c, <1>k DEF BeginStream, StreamTypeOK
  <2> QED
    BY <2>1, <2>2 DEF DeliverInv
<1>2. ASSUME NEW c \in Generators, BeginFrame(c) PROVE DeliverInv'
  <2>1. ASSUME NEW d \in Streams PROVE DeliverOf(d)'
    BY <1>2, <1>t, <1>c, <1>k DEF BeginFrame, StreamTypeOK
  <2> QED
    BY <2>1 DEF DeliverInv
<1>3. ASSUME NEW c \in Client, Execute(c) PROVE DeliverInv'
  <2>1. ASSUME NEW d \in Streams PROVE DeliverOf(d)'
    BY <1>3, <1>t, <1>c, <1>k DEF Execute, StreamTypeOK
  <2> QED
    BY <2>1 DEF DeliverInv
<1>4. ASSUME NEW c \in Client,
             Open(c) \/ Fetch(c) \/ FetchRaises(c) \/ FetchedAll(c) \/ CloseWriter(c)
             \/ FailClose(c) \/ FailUnlink(c)
      PROVE  DeliverInv'
  <2>1. ASSUME NEW d \in Streams PROVE DeliverOf(d)'
    <3>1. output'[d] = output[d] /\ result'[d] = result[d] /\ column' = column /\ decimals' = decimals
      BY <1>4 DEF Open, Fetch, FetchRaises, FetchedAll, CloseWriter, FailClose, FailUnlink
    <3>2. \/ pc'[d] = pc[d]
          \/ /\ pc[d] \notin {"done", "dead"} /\ pc'[d] # "done"
             /\ pc'[d] \in {"open", "fetch", "close", "replace"} => pc[d] \in {"open", "fetch", "close"}
      BY <1>4, <1>t, <1>c DEF Open, Fetch, FetchRaises, FetchedAll, CloseWriter, FailClose, FailUnlink,
                              StreamTypeOK
    <3>3. pc[d] \in {"open", "fetch", "close"} => column # NoColumns
      BY DEF DeliverInv, DeliverOf
    <3> QED
      BY <3>1, <3>2, <3>3, <1>k
  <2> QED
    BY <2>1 DEF DeliverInv
<1>5. ASSUME NEW c \in Client, Replace(c) PROVE DeliverInv'
  <2>1. CASE c \in Streams
    <3>1. output'[c] = parts[c] /\ parts[c] = Whole(c) /\ pc[c] = "replace" /\ pc'[c] = "done"
      BY <1>5, <1>t, <1>c, <2>1 DEF Replace, StreamTypeOK, FlowOf
    <3>2. Whole(c)' = Whole(c)
      BY <1>5, WrittenKept DEF Replace
    <3>3. DeliverOf(c)'
      BY <1>5, <2>1, <3>1, <3>2 DEF Replace, DeliverInv, DeliverOf
    <3>4. ASSUME NEW d \in Streams \ {c} PROVE DeliverOf(d)'
      BY <1>5, <1>t, <1>c, <1>k, <2>1 DEF Replace, StreamTypeOK
    <3> QED
      BY <3>3, <3>4 DEF DeliverInv
  <2>2. CASE c \notin Streams
    <3>1. ASSUME NEW d \in Streams PROVE DeliverOf(d)'
      <4>1. Path(c) # d /\ c # d
        BY <1>c, <1>g, <2>2
      <4> QED
        BY <1>5, <1>t, <1>c, <1>k, <4>1 DEF Replace, StreamTypeOK
    <3> QED
      BY <3>1 DEF DeliverInv
  <2> QED
    BY <2>1, <2>2
<1>6. ASSUME NEW c \in Client, WriteFrame(c) \/ Finally(c) \/ FrameFails(c) PROVE DeliverInv'
  <2>1. c \notin Streams
    BY <1>6, <1>t, <1>c DEF WriteFrame, Finally, FrameFails, FlowOf
  <2>2. ASSUME NEW d \in Streams PROVE DeliverOf(d)'
    <3>1. output'[d] = output[d] /\ result'[d] = result[d] /\ column' = column /\ decimals' = decimals
      BY <1>6 DEF WriteFrame, Finally, FrameFails
    <3>2. pc'[d] = pc[d]
      BY <1>6, <1>t, <1>c, <2>1 DEF WriteFrame, Finally, FrameFails, StreamTypeOK
    <3> QED
      BY <3>1, <3>2, <1>k
  <2> QED
    BY <2>2 DEF DeliverInv
<1>7. ASSUME NEW c \in Client,
             OracleFails(c) \/ DiskFails(c) \/ UnlinkFails(c) \/ StreamInterrupted(c) \/ StreamCrash(c)
      PROVE  DeliverInv'
  <2>1. ASSUME NEW d \in Streams PROVE DeliverOf(d)'
    <3>1. output'[d] = output[d] /\ result'[d] = result[d] /\ column' = column /\ decimals' = decimals
      BY <1>7 DEF OracleFails, DiskFails, UnlinkFails, StreamInterrupted, StreamCrash
    <3>2. \/ pc'[d] = pc[d]
          \/ pc'[d] = "dead"
          \/ pc[d] \notin {"done", "dead"} /\ pc'[d] \in {"failing", "left"}
      BY <1>7, <1>t, <1>c DEF OracleFails, DiskFails, UnlinkFails, StreamInterrupted, StreamCrash,
                              StreamTypeOK
    <3> QED
      BY <3>1, <3>2, <1>k
  <2> QED
    BY <2>1 DEF DeliverInv
<1>8. CASE TableChanges
  <2>1. ASSUME NEW d \in Streams PROVE DeliverOf(d)'
    BY <1>8, <1>k DEF TableChanges
  <2> QED
    BY <2>1 DEF DeliverInv
<1>9. CASE UNCHANGED vars
  <2>1. ASSUME NEW d \in Streams PROVE DeliverOf(d)'
    BY <1>9, <1>k DEF vars
  <2> QED
    BY <2>1 DEF DeliverInv
<1> QED
  BY <1>1, <1>2, <1>3, <1>4, <1>5, <1>6, <1>7, <1>8, <1>9 DEF StreamNext, StreamStep, StreamFails

\* A whole file of a declared column holds the rows of the result.
LEMMA WholeIsExact ==
  ASSUME StreamTypeOK, Lossless, NEW c, result[c] \in Seq(SampleOf(column))
  PROVE  Whole(c).rows = result[c]
<1>1. ASSUME NEW i \in 1 .. Len(result[c]) PROVE Row(c, result[c][i]) = result[c][i]
  <2>1. Outcome(result[c][i]) = "exact"
    BY RowsExact DEF StreamTypeOK
  <2> QED
    BY <2>1 DEF Row
<1>2. result[c] = [i \in 1 .. Len(result[c]) |-> result[c][i]]
  BY LenProperties
<1> QED
  BY <1>1, <1>2 DEF Whole, Written

\* The cache may take a stream for a load: if it returns, its file is there with all the rows
\* the cursor was opened on, and they are exact if the column is declared; if it raises, or
\* is interrupted, or crashes before its last step, there is none, whatever the result, the
\* batches and the failures (oracle_streaming.py:256-270, nfs_cache.py:266).
THEOREM StreamsAreLoads == StreamSpec => []StreamsDeliver
<1>1. StreamInit => DeliverInv
  BY DEF StreamInit, DeliverInv, DeliverOf, Client
<1>2. StreamInv /\ ExactInv /\ DeliverInv => StreamsDeliver
  <2> SUFFICES ASSUME StreamInv, ExactInv, DeliverInv, NEW c \in Streams
               PROVE  /\ pc[c] = "done" =>
                           /\ output[c] = Whole(c)
                           /\ Declared(column, decimals) => output[c].rows = result[c]
                      /\ pc[c] \notin {"done", "dead"} => output[c] = NoFile
    BY DEF StreamsDeliver
  <2>1. DeliverOf(c)
    BY DEF DeliverInv
  <2>2. ASSUME pc[c] = "done", Declared(column, decimals) PROVE Whole(c).rows = result[c]
    <3>1. Lossless
      BY <2>1, <2>2 DEF DeliverOf, Lossless
    <3>2. result[c] \in Seq(SampleOf(column))
      BY <3>1 DEF ExactInv, ExactOf
    <3> QED
      BY <3>1, <3>2, WholeIsExact DEF StreamInv
  <2> QED
    BY <2>1, <2>2 DEF DeliverOf
<1>3. StreamSpec => []ExactInv
  BY StreamInvAlways, ExactInvInit, ExactInvStep, PTL DEF StreamSpec
<1> QED
  BY <1>1, <1>2, <1>3, StreamInvAlways, DeliverInvStep, PTL DEF StreamSpec
=============================================================================
