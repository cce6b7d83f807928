------------------------------ MODULE AtomicFile ------------------------------
(* What writing a *.part file and moving it over the output promises: the    *)
(* output changes from one whole file to another, which is the one its       *)
(* writer set out to write, and a writer that fails changes nothing.         *)
CONSTANTS
  Client,    \* the calls that write
  Own,       \* those of them whose output path nobody else has
  Path(_),   \* the output path of a call, named after one of its users
  Contents,  \* what may be written
  Nothing    \* no file, and no promise

VARIABLES file, promised

absVars == <<file, promised>>

AbsInit ==
  /\ file = [p \in Client |-> Nothing]
  /\ promised = [c \in Client |-> Nothing]

Promise(c) ==
  /\ promised[c] = Nothing
  /\ promised'[c] \in Contents
  /\ promised' = [promised EXCEPT ![c] = promised'[c]]
  /\ UNCHANGED file

Install(c) ==
  /\ promised[c] # Nothing
  /\ file' = [file EXCEPT ![Path(c)] = promised[c]]
  /\ promised' = [promised EXCEPT ![c] = Nothing]

GiveUp(c) ==
  /\ promised[c] # Nothing
  /\ promised' = [promised EXCEPT ![c] = Nothing]
  /\ UNCHANGED file

\* The cache takes the file from a path it had handed out, and hands out a new one.
Take(c) ==
  /\ c \in Own /\ promised[c] = Nothing
  /\ file' = [file EXCEPT ![c] = Nothing]
  /\ UNCHANGED promised

AbsNext ==
  \E c \in Client : Promise(c) \/ Install(c) \/ GiveUp(c) \/ Take(c)

AbsSpec == AbsInit /\ [][AbsNext]_absVars
=============================================================================
