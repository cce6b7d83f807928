-------------------------- MODULE MCParquetStream --------------------------
(* Columns and values at the borders of the conversions, for TLC.            *)
EXTENDS ParquetStream

Col(db, p, s) == [db |-> db, precision |-> p, scale |-> s]
Number(digits, frac) == [kind |-> "number", digits |-> digits, frac |-> frac]

MCColumns == {Col("number", 19, 0), Col("number", 20, 2), Col("number", 0, -127), NoColumns}
MCSamples == {Number(19, 0), Number(18, 2)}
MCFrames  == {<<Number(19, 0)>>}
=============================================================================
