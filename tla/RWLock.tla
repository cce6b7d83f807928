------------------------------- MODULE RWLock -------------------------------
(* What the lock of a cache key promises (README.md, "Current                *)
(* Functionality"): readers overlap, a writer announces its intent, the      *)
(* intent keeps new readers out, the writer waits for the readers that are   *)
(* in, and only the intent of a client that is gone is ever broken.          *)
(* MkdirLock is shown to implement it for one writer.                        *)
EXTENDS FiniteSets

CONSTANTS Readers, Writers, NoOne

Client == Readers \union Writers

VARIABLES
  reading,  \* clients in a read section
  writing,  \* clients in a write section
  intent,   \* the client whose intent is announced, or NoOne
  dead      \* clients that crashed

absVars == <<reading, writing, intent, dead>>

AbsInit == reading = {} /\ writing = {} /\ intent = NoOne /\ dead = {}

AbsBeginRead(c) ==
  /\ c \in Readers \ (dead \union reading \union writing)
  /\ intent = NoOne
  /\ reading' = reading \union {c}
  /\ UNCHANGED <<writing, intent, dead>>

AbsEndRead(c) ==
  /\ c \in reading
  /\ reading' = reading \ {c}
  /\ UNCHANGED <<writing, intent, dead>>

AbsAnnounce(c) ==
  /\ c \in Writers \ (dead \union reading \union writing)
  /\ intent = NoOne
  /\ intent' = c
  /\ UNCHANGED <<reading, writing, dead>>

AbsBeginWrite(c) ==
  /\ intent = c /\ c \notin dead \union writing
  /\ reading = {}
  /\ writing' = {c}
  /\ UNCHANGED <<reading, intent, dead>>

AbsEndWrite(c) ==
  /\ c \in writing
  /\ writing' = writing \ {c}
  /\ UNCHANGED <<reading, intent, dead>>

\* The intent goes after the write, by the hand of the client that announced it ...
AbsRetract(c) ==
  /\ intent = c /\ c \notin dead \union writing
  /\ intent' = NoOne
  /\ UNCHANGED <<reading, writing, dead>>

\* ... or because that client is gone.
AbsBreak ==
  /\ intent \in dead
  /\ intent' = NoOne
  /\ UNCHANGED <<reading, writing, dead>>

AbsDie(c) ==
  /\ c \notin dead
  /\ dead' = dead \union {c}
  /\ reading' = reading \ {c}
  /\ writing' = writing \ {c}
  /\ UNCHANGED intent

AbsNext ==
  \/ AbsBreak
  \/ \E c \in Client :
       AbsBeginRead(c) \/ AbsEndRead(c) \/ AbsAnnounce(c) \/ AbsBeginWrite(c)
       \/ AbsEndWrite(c) \/ AbsRetract(c) \/ AbsDie(c)

AbsSpec == AbsInit /\ [][AbsNext]_absVars
=============================================================================
