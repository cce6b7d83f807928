---------------------------- MODULE ParquetStream ----------------------------
(* Files that appear whole or not at all: stream_data_to_parquet and its     *)
(* copy in swarm_stream.py, which write an Oracle result batch by batch to   *)
(* the path the cache hands them, and ensure_one_parquet, which writes a     *)
(* generated frame at once to a path several processes may share.            *)
(*                                                                           *)
(* A result is the sequence of its rows, a row one value of the one column.  *)
(* A file is the rows written to it and whether its footer is (closed), as a *)
(* Parquet file is unreadable without one.                                   *)
EXTENDS ArrowTypes, Sequences

CONSTANTS
  Streams,       \* clients that stream a query
  Generators,    \* clients that write a generated frame
  NoFile,        \* no file
  Rounded,       \* a value that is not the source's any more
  NoColumns,     \* the description of a statement that returns no rows
  Columns,       \* the columns the query may have, or NoColumns
  Samples,       \* the values tried in them
  Frames,        \* the frames the generators write
  BatchSize,     \* rows a fetchmany returns at most
  MaxRows,       \* bound on the rows of a result
  MaxChanges,    \* bound on the changes of the table
  MaxCalls,      \* bound on the calls of a client
  StreamFaults,  \* out of "oracle", "disk", "crash", "interrupt"
  MaxFaults      \* bound on the number of faults of a behaviour

Client == Streams \union Generators
Value  == Samples \union {Rounded}
File   == [rows : Seq(Value), closed : BOOLEAN]

ASSUME StreamAssumption ==
  /\ Streams \intersect Generators = {}
  /\ NoFile \notin File /\ Rounded \notin Samples
  /\ Samples \subseteq OracleValue /\ Columns \ {NoColumns} \subseteq OracleColumn
  /\ Frames \subseteq Seq(Samples)
  /\ BatchSize \in Nat \ {0} /\ MaxRows \in Nat /\ MaxChanges \in Nat
  /\ MaxCalls \in Nat /\ MaxFaults \in Nat

VARIABLES
  column,    \* the query's column
  decimals,  \* oracledb.defaults.fetch_decimals
  table,     \* what the query returns now
  changes,   \* changes of the table so far
  output,    \* the file at each output path, by one of its users
  parts,     \* the *.part files, by name
  pc,        \* where each call is
  result,    \* the rows a call has to write: its cursor's snapshot, or its frame
  got,       \* how many of them are in its file
  writer,    \* clients whose ParquetWriter is open
  calls,     \* calls made by each client
  faults     \* faults so far

source  == <<column, decimals, table, changes>>
locals  == <<pc, result, got, writer, calls>>
vars    == <<source, output, parts, locals, faults>>

SampleOf(col) == {v \in Samples : col # NoColumns /\ Holds(col, v)}
ResultOf(col) == UNION {[1 .. n -> SampleOf(col)] : n \in 0 .. MaxRows}
EmptyFile == [rows |-> <<>>, closed |-> FALSE]

\* The cache gives every stream a path of its own, the generators write to one.
Path(c) == IF c \in Streams THEN c ELSE CHOOSE g \in Generators : TRUE

\* Seeded fault: the part file is named after the output alone.
PartName_Shared(c) == Path(c)
\* The output's name, the process and a UUID of the call.
PartName(c) == c

StreamPc == {"idle", "execute", "open", "fetch", "close", "replace", "failing", "unlink",
             "write", "finally", "done", "failed", "dead", "left"}

StreamTypeOK ==
  /\ column \in Columns /\ decimals \in BOOLEAN
  /\ table \in Seq(Samples) /\ changes \in 0 .. MaxChanges
  /\ output \in [Client -> File \union {NoFile}]
  /\ parts \in [Client -> File \union {NoFile}]
  /\ pc \in [Client -> StreamPc]
  /\ result \in [Client -> Seq(Samples)]
  /\ got \in [Client -> Nat]
  /\ writer \subseteq Client
  /\ calls \in [Client -> 0 .. MaxCalls]
  /\ faults \in 0 .. MaxFaults

StreamInit ==
  /\ column \in Columns /\ decimals \in BOOLEAN
  /\ table \in ResultOf(column) /\ changes = 0
  /\ output = [c \in Client |-> NoFile]
  /\ parts = [c \in Client |-> NoFile]
  /\ pc = [c \in Client |-> "idle"]
  /\ result = [c \in Client |-> <<>>]
  /\ got = [c \in Client |-> 0]
  /\ writer = {}
  /\ calls = [c \in Client |-> 0]
  /\ faults = 0

-----------------------------------------------------------------------------
(* Building blocks                                                           *)

Goto(c, l) == pc' = [pc EXCEPT ![c] = l]
Part(c) == parts[PartName(c)]
SetPart(c, f) == parts' = [parts EXCEPT ![PartName(c)] = f]

Fault(kind) == kind \in StreamFaults /\ faults < MaxFaults /\ faults' = faults + 1

Outcome(v) == Convert(column, v, decimals)

\* A value as the file holds it.  Polars writes a generated frame as it is.
Row(c, v) == IF c \in Generators \/ Outcome(v) = "exact" THEN v ELSE Rounded

\* The first n rows of what c has to write, as the file holds them.
Written(c, n) == [i \in 1 .. n |-> Row(c, result[c][i])]
Whole(c) == [rows |-> Written(c, Len(result[c])), closed |-> TRUE]

\* Rows in the file after one more fetchmany.
Fetched(c) ==
  IF got[c] + BatchSize < Len(result[c]) THEN got[c] + BatchSize ELSE Len(result[c])

NextBatch(c) == [i \in 1 .. Fetched(c) - got[c] |-> Row(c, result[c][got[c] + i])]

-----------------------------------------------------------------------------
(* stream_data_to_parquet and _stream_to_parquet                             *)

\* The cache moved the file of an earlier call away (or removed it) and hands out a new
\* path; its part file's name was that call's too.
BeginStream(c) ==
  /\ pc[c] \in {"idle", "done", "failed"} /\ calls[c] < MaxCalls
  /\ calls' = [calls EXCEPT ![c] = @ + 1]
  /\ output' = [output EXCEPT ![c] = NoFile]
  /\ Goto(c, "execute")
  /\ UNCHANGED <<source, parts, result, got, writer, faults>>

\* What the cursor will fetch is the table as it is now.
Execute(c) ==
  /\ pc[c] = "execute"
  /\ result' = [result EXCEPT ![c] = table]
  /\ got' = [got EXCEPT ![c] = 0]
  /\ Goto(c, IF column = NoColumns THEN "failing" ELSE "open")
  /\ UNCHANGED <<source, output, parts, writer, calls, faults>>

Open(c) ==
  /\ pc[c] = "open"
  /\ SetPart(c, EmptyFile)
  /\ writer' = writer \union {c}
  /\ Goto(c, "fetch")
  /\ UNCHANGED <<source, output, result, got, calls, faults>>

\* One turn of the loop: a batch is converted, all of it, and then written.
Fetch(c) ==
  /\ pc[c] = "fetch" /\ got[c] < Len(result[c])
  /\ \A i \in got[c] + 1 .. Fetched(c) : Outcome(result[c][i]) # "raises"
  /\ got' = [got EXCEPT ![c] = Fetched(c)]
  /\ SetPart(c, [rows |-> Part(c).rows \o NextBatch(c), closed |-> FALSE])
  /\ UNCHANGED <<source, output, pc, result, writer, calls, faults>>

\* Seeded fault: the exception is caught in the loop, which goes on where it was.
FetchRaises_Again(c) ==
  /\ pc[c] = "fetch"
  /\ \E i \in got[c] + 1 .. Fetched(c) : Outcome(result[c][i]) = "raises"
  /\ UNCHANGED <<source, output, parts, locals, faults>>

\* A value of the batch does not fit its Arrow type.
FetchRaises(c) ==
  /\ pc[c] = "fetch"
  /\ \E i \in got[c] + 1 .. Fetched(c) : Outcome(result[c][i]) = "raises"
  /\ Goto(c, "failing")
  /\ UNCHANGED <<source, output, parts, result, got, writer, calls, faults>>

\* Seeded fault: a batch that is not full is taken for the last one and dropped.
FetchedAll_Short(c) ==
  /\ pc[c] = "fetch" /\ got[c] + BatchSize >= Len(result[c])
  /\ Goto(c, "close")
  /\ UNCHANGED <<source, output, parts, result, got, writer, calls, faults>>

\* No more rows.  (An empty result is written as a table of no rows.)
FetchedAll(c) ==
  /\ pc[c] = "fetch" /\ got[c] = Len(result[c])
  /\ Goto(c, "close")
  /\ UNCHANGED <<source, output, parts, result, got, writer, calls, faults>>

CloseWriter(c) ==
  /\ pc[c] = "close"
  /\ SetPart(c, [rows |-> Part(c).rows, closed |-> TRUE])
  /\ writer' = writer \ {c}
  /\ Goto(c, "replace")
  /\ UNCHANGED <<source, output, result, got, calls, faults>>

\* os.replace: the file leaves one name and has the other.
Replace(c) ==
  /\ pc[c] = "replace"
  /\ output' = [output EXCEPT ![Path(c)] = Part(c)]
  /\ SetPart(c, NoFile)
  /\ Goto(c, IF c \in Streams THEN "done" ELSE "finally")
  /\ UNCHANGED <<source, result, got, writer, calls, faults>>

\* The statement, a fetch, the read of a LOB or the close of the cursor raises.
OracleFails(c) ==
  /\ pc[c] \in {"execute", "fetch"}
  /\ Fault("oracle")
  /\ Goto(c, "failing")
  /\ UNCHANGED <<source, output, parts, result, got, writer, calls>>

\* Opening, writing, closing or replacing raises; an open may have made the file.
DiskFails(c) ==
  /\ c \in Streams /\ pc[c] \in {"open", "fetch", "close", "replace"}
  /\ Fault("disk")
  /\ IF pc[c] = "open" THEN parts' \in {parts, [parts EXCEPT ![PartName(c)] = EmptyFile]}
     ELSE UNCHANGED parts
  /\ Goto(c, "failing")
  /\ UNCHANGED <<source, output, result, got, writer, calls>>

\* except Exception: an open writer is closed, which gives the half-written file its
\* footer or fails ...
FailClose(c) ==
  /\ pc[c] = "failing"
  /\ IF c \in writer
     THEN \E footer \in BOOLEAN : SetPart(c, [rows |-> Part(c).rows, closed |-> Part(c).closed \/ footer])
     ELSE UNCHANGED parts
  /\ writer' = writer \ {c}
  /\ Goto(c, "unlink")
  /\ UNCHANGED <<source, output, result, got, calls, faults>>

\* Seeded fault: the part file is removed only if nothing was written yet.
FailUnlink_Kept(c) ==
  /\ pc[c] = "unlink"
  /\ IF got[c] = 0 THEN SetPart(c, NoFile) ELSE UNCHANGED parts
  /\ Goto(c, "failed")
  /\ UNCHANGED <<source, output, result, got, writer, calls, faults>>

\* Seeded fault: the exception is not raised again.
FailUnlink_Swallowed(c) ==
  /\ pc[c] = "unlink"
  /\ SetPart(c, NoFile)
  /\ Goto(c, "done")
  /\ UNCHANGED <<source, output, result, got, writer, calls, faults>>

\* ... and the part file is removed, if there is one.
FailUnlink(c) ==
  /\ pc[c] = "unlink"
  /\ SetPart(c, NoFile)
  /\ Goto(c, "failed")
  /\ UNCHANGED <<source, output, result, got, writer, calls, faults>>

-----------------------------------------------------------------------------
(* ensure_one_parquet                                                        *)

\* The frame is generated.
BeginFrame(c) ==
  /\ pc[c] \in {"idle", "done", "failed"} /\ calls[c] < MaxCalls
  /\ calls' = [calls EXCEPT ![c] = @ + 1]
  /\ \E frame \in Frames : result' = [result EXCEPT ![c] = frame]
  /\ Goto(c, "write")
  /\ UNCHANGED <<source, output, parts, got, writer, faults>>

\* df.write_parquet writes and closes the part file.
WriteFrame(c) ==
  /\ pc[c] = "write"
  /\ SetPart(c, Whole(c))
  /\ Goto(c, "replace")
  /\ UNCHANGED <<source, output, result, got, writer, calls, faults>>

\* Writing fails half way, replacing fails, or either is interrupted.
FrameFails(c) ==
  /\ c \in Generators /\ pc[c] \in {"write", "replace"}
  /\ Fault("disk") \/ Fault("interrupt")
  /\ IF pc[c] = "write" THEN SetPart(c, EmptyFile) ELSE UNCHANGED parts
  /\ Goto(c, "finally")
  /\ UNCHANGED <<source, output, result, got, writer, calls>>

\* finally: the part file is removed, if it is still there.
Finally(c) ==
  /\ pc[c] = "finally"
  /\ SetPart(c, NoFile)
  /\ Goto(c, IF Part(c) = NoFile THEN "done" ELSE "failed")
  /\ UNCHANGED <<source, output, result, got, writer, calls, faults>>

-----------------------------------------------------------------------------
(* Ends without a cleanup, and the environment                               *)

\* The part file cannot be removed, and the exception leaves the handler.
UnlinkFails(c) ==
  /\ pc[c] \in {"unlink", "finally"}
  /\ Fault("disk")
  /\ Goto(c, "left")
  /\ UNCHANGED <<source, output, parts, result, got, writer, calls>>

\* A KeyboardInterrupt is no Exception: a stream's handler does not run.
StreamInterrupted(c) ==
  /\ c \in Streams /\ pc[c] \notin {"idle", "done", "failed", "dead", "left"}
  /\ Fault("interrupt")
  /\ Goto(c, "left")
  /\ UNCHANGED <<source, output, parts, result, got, writer, calls>>

StreamCrash(c) ==
  /\ pc[c] \notin {"idle", "dead", "left"}
  /\ Fault("crash")
  /\ Goto(c, "dead")
  /\ UNCHANGED <<source, output, parts, result, got, writer, calls>>

TableChanges ==
  /\ changes < MaxChanges
  /\ changes' = changes + 1
  /\ \E rows \in ResultOf(column) : rows # table /\ table' = rows
  /\ UNCHANGED <<column, decimals, output, parts, locals, faults>>

StreamStep(c) ==
  \/ Execute(c) \/ Open(c) \/ Fetch(c) \/ FetchRaises(c) \/ FetchedAll(c)
  \/ CloseWriter(c) \/ Replace(c) \/ FailClose(c) \/ FailUnlink(c)
  \/ WriteFrame(c) \/ Finally(c)

StreamFails(c) ==
  OracleFails(c) \/ DiskFails(c) \/ FrameFails(c) \/ UnlinkFails(c)
  \/ StreamInterrupted(c) \/ StreamCrash(c)

StreamNext ==
  \/ \E c \in Streams : BeginStream(c)
  \/ \E c \in Generators : BeginFrame(c)
  \/ \E c \in Client : StreamStep(c) \/ StreamFails(c)
  \/ TableChanges

StreamSpec == StreamInit /\ [][StreamNext]_vars

\* A call that is running takes its next step; nobody has to call, nothing has to fail.
FairStreamSpec == StreamSpec /\ \A c \in Client : WF_vars(StreamStep(c))

-----------------------------------------------------------------------------
(* Properties                                                                *)

\* What a call has promised to put at its output: the rows its cursor was opened on,
\* or its frame, all of them, in a closed file.
Promised ==
  [c \in Client |->
     IF pc[c] \in {"open", "fetch", "close", "write", "replace"} THEN Whole(c) ELSE NoFile]

AF == INSTANCE AtomicFile WITH
        Own <- Streams, Contents <- [rows : Seq(Value), closed : {TRUE}], Nothing <- NoFile,
        file <- output, promised <- Promised

\* An output only ever changes from one whole file to another: never a part of a result,
\* a mixture of two, rows of another moment than the cursor's, or a file without footer
\* (oracle_streaming.py:256-259, generate_parquets.py:102-104).
ImplementsAtomicFile == AF!AbsSpec

\* A call that ended leaves no part file and no open writer, whatever failed in it, unless
\* the removal itself failed or never ran (oracle_streaming.py:260-270).
PartsGone ==
  \A c \in Client : pc[c] \in {"idle", "done", "failed"} => parts[c] = NoFile /\ c \notin writer

\* A column of declared integers, or of decimals fetched as such, streams without loss
\* and never makes a call fail by itself (oracle_streaming.py:94-112, 187-190).
NumbersArrive ==
  (column # NoColumns /\ Declared(column, decimals)) =>
    \A c \in Streams :
      /\ faults = 0 => pc[c] \notin {"failing", "unlink", "failed"}
      /\ parts[c] # NoFile => \A i \in DOMAIN parts[c].rows : parts[c].rows[i] # Rounded

\* What the cache takes a load for that writes its own file (nfs_cache.py:266): where the
\* stream has returned there is all its cursor was opened on, row by row as it was in a
\* declared column; where it has raised or is not through there is nothing.
StreamsDeliver ==
  \A c \in Streams :
    /\ pc[c] = "done" =>
         /\ output[c] = Whole(c)
         /\ Declared(column, decimals) => output[c].rows = result[c]
    /\ pc[c] \notin {"done", "dead"} => output[c] = NoFile

\* Every call ends (oracle_streaming.py:243-246: the loop ends with the cursor's rows,
\* however the table grows).
StreamsEnd ==
  \A c \in Client : pc[c] # "idle" ~> pc[c] \in {"done", "failed", "dead", "left"}
=============================================================================
