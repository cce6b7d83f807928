----------------------------- MODULE ArrowTypes -----------------------------
(* The Arrow type of an Oracle column and what becomes of a value in it      *)
(* (nfscache/database/oracle_streaming.py, _number_type to _rows_to_table).  *)
(*                                                                           *)
(* A column is its database type, precision and scale.  A value is the kind  *)
(* of Python object the driver returns and, for a number, how many digits it *)
(* has before and after the point: that is all a conversion tells apart.     *)
EXTENDS Integers

CONSTANT Unset   \* None: the driver states no precision, or no scale

ASSUME UnsetAssumption == Unset \notin Int

OracleColumn == [db : STRING, precision : Int \union {Unset}, scale : Int \union {Unset}]
OracleValue  == [kind : STRING, digits : Nat, frac : Nat]

TextTypes      == {"varchar", "clob", "json", "rowid"}
BinaryTypes    == {"raw", "blob"}
DoubleTypes    == {"binary_double", "binary_float"}
TimestampTypes == {"date", "timestamp"}
NumberTypes    == {"number", "binary_integer"}

Simple(kind) == [kind |-> kind, precision |-> 0, scale |-> 0]
Decimal128(p, s) == [kind |-> "decimal128", precision |-> p, scale |-> s]

\* A fraction is exact only as a Decimal, and only where the digits are stated.
Fixed(col, decimals) ==
  decimals /\ col.precision # Unset /\ col.precision \in 0 .. 38 /\ col.scale # Unset /\ col.scale >= 0

NumberTypeFrom(widest, col, decimals) ==
  CASE col.scale = 0 -> IF col.precision # Unset /\ col.precision \in widest + 1 .. 38
                        THEN Decimal128(col.precision, 0) ELSE Simple("int64")
    [] col.scale # 0 /\ Fixed(col, decimals) ->
         Decimal128(IF col.precision > 1 THEN col.precision ELSE 1, col.scale)
    [] OTHER -> Simple("double")

\* Seeded fault: integers of 19 digits are taken for 64-bit ones.
NumberType_Wide(col, decimals) == NumberTypeFrom(19, col, decimals)
\* decimals is oracledb.defaults.fetch_decimals.
NumberType(col, decimals) == NumberTypeFrom(18, col, decimals)

ArrowType(col, decimals) ==
  CASE col.db \in TextTypes      -> Simple("string")
    [] col.db \in BinaryTypes    -> Simple("binary")
    [] col.db = "boolean"        -> Simple("bool")
    [] col.db \in DoubleTypes    -> Simple("double")
    [] col.db \in NumberTypes    -> NumberType(col, decimals)
    [] col.db \in TimestampTypes -> Simple("timestamp")
    [] col.db = "interval_ds"    -> Simple("duration")
    [] OTHER                     -> Simple("string")

-----------------------------------------------------------------------------
(* What Oracle and its driver promise of a column's values                   *)

\* NUMBER without precision or scale, and what is computed from one.
Unconstrained(col) == col.db = "number" /\ col.precision = 0 /\ col.scale = -127

\* NUMBER(p, s) holds p - s digits before the point and s after it; where they are not
\* both stated, or it is a FLOAT, up to 38 in all.
HoldsNumber(col, v) ==
  CASE col.db = "binary_integer" -> v.digits <= 10 /\ v.frac = 0
    [] col.db # "binary_integer" /\ (col.precision \in {Unset, 0} \/ col.scale \in {Unset, -127}) ->
         v.digits + v.frac <= 38
    [] OTHER -> /\ v.digits <= col.precision - col.scale
                /\ v.frac <= (IF col.scale > 0 THEN col.scale ELSE 0)

PythonKinds == [varchar |-> {"str"}, clob |-> {"lob"}, json |-> {"dict", "list"}, rowid |-> {"str"},
                raw |-> {"bytes"}, blob |-> {"lob"}, boolean |-> {"bool"},
                binary_double |-> {"float"}, binary_float |-> {"float"}, date |-> {"datetime"},
                timestamp |-> {"datetime"}, interval_ds |-> {"timedelta"}, interval_ym |-> {"object"}]

Holds(col, v) ==
  \/ v.kind = "none"
  \/ IF col.db \in NumberTypes THEN v.kind = "number" /\ HoldsNumber(col, v)
     ELSE v.kind \in PythonKinds[col.db]

\* The Python number the driver makes of it: fetch_decimals gives decimal.Decimal,
\* else whole numbers are int where the column's scale lets it expect them.
NumberKind(col, v, decimals) ==
  IF decimals THEN "decimal"
  ELSE IF (col.scale = 0 \/ Unconstrained(col)) /\ v.frac = 0 THEN "int" ELSE "float"

-----------------------------------------------------------------------------
(* _coerce_value, and pa.array over what it returns                          *)

\* The Python object pa.array gets.  A LOB is read first; text takes anything.
Coerce(kind, type) ==
  LET read == IF kind = "lob" THEN (IF type.kind = "binary" THEN "bytes" ELSE "str") ELSE kind
  IN  CASE type.kind = "string"                                 -> "str"
        [] type.kind = "binary" /\ read \in {"memoryview", "bytearray"} -> "bytes"
        [] type.kind = "double" /\ read = "decimal"             -> "float"
        [] type.kind = "int64" /\ read = "decimal"              -> "int"
        [] type.kind = "decimal128"                             -> "decimal"
        [] type.kind = "timestamp" /\ read = "date"             -> "datetime"
        [] OTHER                                                -> read

Takes == [string |-> {"str"}, binary |-> {"bytes"}, bool |-> {"bool"}, int64 |-> {"int"},
          double |-> {"int", "float"}, decimal128 |-> {"decimal"}, timestamp |-> {"datetime"},
          duration |-> {"timedelta"}]

\* A double holds every whole number of 15 digits, int64 every one of 18.  An int
\* that a double cannot hold raises, a Decimal or a float is rounded.
NumberOutcome(v, kind, type) ==
  CASE type.kind = "int64" ->
         IF v.digits > 18 THEN "raises" ELSE IF v.frac > 0 THEN "rounded" ELSE "exact"
    [] type.kind = "decimal128" ->
         IF v.digits <= type.precision - type.scale /\ v.frac <= type.scale
         THEN "exact" ELSE "raises"
    [] OTHER ->
         IF v.digits + v.frac <= 15 THEN "exact" ELSE IF kind = "int" THEN "raises" ELSE "rounded"

\* One value of one column on its way into the file: "exact", "rounded" or "raises".
Convert(col, v, decimals) ==
  LET type == ArrowType(col, decimals)
      kind == IF col.db \in NumberTypes THEN NumberKind(col, v, decimals) ELSE v.kind
  IN  IF v.kind = "none" THEN "exact"
      ELSE IF Coerce(kind, type) \notin Takes[type.kind] THEN "raises"
      ELSE IF col.db \in NumberTypes THEN NumberOutcome(v, kind, type) ELSE "exact"

-----------------------------------------------------------------------------

\* A column of which the type states enough: every value it holds must arrive as it
\* is.  An unconstrained NUMBER, or one with a fraction, is a double by design.
Declared(col, decimals) ==
  /\ col.db = "number" /\ col.precision \in 1 .. 38
  /\ col.scale = 0 \/ (decimals /\ col.scale \in 0 .. col.precision)
=============================================================================
