---------------------------- MODULE SqlCallsProofs ----------------------------
(* Every entry is what some call loaded at some time, and that is enough for *)
(* what a hit returns: its statement, its columns, its table's rows.  For    *)
(* the rows it does not matter what a text is normalized to, only that equal *)
(* texts have equal keys and tables.  For the words it does: the second half *)
(* is about what is left of a text when blanks and semicolons are taken.     *)
EXTENDS SqlCalls, FiniteSetTheorems, TLAPS

\* What call d stores when the tables hold r.
Made(d, r) ==
  [sql     |-> SourceSql[d],
   version |-> IF connected /\ Table[d] # None THEN <<Table[d], r[Resolves[Table[d]]]>> ELSE <<>>,
   content |-> [words |-> Statement[d], columns |-> Columns(d),
                rows |-> [t \in Reads[Statement[d]] |-> r[t]]]]

EntriesInv ==
  \A k \in DOMAIN entries : \E d \in Calls, r \in [Tables -> 0 .. MaxChanges] :
    k = Key(d) /\ entries[k] = Made(d, r)

RowsOK == rows \in [Tables -> 0 .. MaxChanges]

CallsInv == RowsOK /\ EntriesInv /\ AnswersAreRight /\ FirstTableIsFresh

\* What a call loads now is what it makes of the tables as they are.
LEMMA LoadIsMade ==
  ASSUME NEW c \in Calls
  PROVE  [sql |-> SourceSql[c], version |-> SourceVersion(c), content |-> Execute(c)] = Made(c, rows)
  BY DEF Made, SourceVersion, Execute

\* Equal texts have equal tables.
LEMMA SqlDecidesTable ==
  ASSUME NEW c \in Calls, NEW d \in Calls, SourceSql[c] = SourceSql[d]
  PROVE  KeySql[c] = KeySql[d] /\ Table[c] = Table[d]
  <1>1. KeySql[c] = KeySql[d]  BY DEF KeySql
  <1>2. QED  BY <1>1 DEF Table

\* Columns that are passed by name are those of the key.
LEMMA NamedColumns ==
  ASSUME NEW c \in Calls, ByName(c)
  PROVE  ReturnCols(c) = Columns(c)
  <1>1. CASE "return_cols" \in DOMAIN c.kwargs
    BY <1>1 DEF ReturnCols, Columns, Bound
  <1>2. CASE "return_cols" \notin DOMAIN c.kwargs
    BY <1>2 DEF ReturnCols, ByName
  <1>3. QED  BY <1>1, <1>2

\* An entry that is hit holds the rows its table has now.
LEMMA HitIsFresh ==
  ASSUME NEW c \in Calls, Hit(c), EntriesInv
  PROVE  \E d \in Calls, r \in [Tables -> 0 .. MaxChanges] :
           /\ SourceSql[d] = SourceSql[c] /\ Key(d) = Key(c)
           /\ entries[Key(c)] = Made(d, r)
           /\ connected /\ Table[c] # None => r[Resolves[Table[c]]] = rows[Resolves[Table[c]]]
  <1>1. PICK d \in Calls, r \in [Tables -> 0 .. MaxChanges] :
          Key(c) = Key(d) /\ entries[Key(c)] = Made(d, r)
    BY DEF Hit, EntriesInv
  <1>2. SourceSql[d] = SourceSql[c]  BY <1>1 DEF Hit, Made
  <1>3. Table[d] = Table[c]  BY <1>2, SqlDecidesTable
  <1>4. connected /\ Table[c] # None => r[Resolves[Table[c]]] = rows[Resolves[Table[c]]]
    BY <1>1, <1>3 DEF Hit, Made, SourceVersion
  <1>5. QED  BY <1>1, <1>2, <1>4

\* Calls that get the key of an unmistakable one get its columns.
LEMMA KeyDecidesColumns ==
  ASSUME NEW c \in Calls, NEW d \in Calls,
         SourceSql[d] = SourceSql[c], Key(d) = Key(c), Unmistakable(c)
  PROVE  Statement[d] = Statement[c] /\ Columns(d) = Columns(c)
  <1>1. Statement[d] = Statement[c]  BY DEF Unmistakable
  <1>2. CASE ByName(c) /\ ByName(d) /\ ~collide
    <2>1. ReturnCols(c) = ReturnCols(d)  BY <1>2 DEF Key
    <2>2. QED  BY <1>1, <1>2, <2>1, NamedColumns
  <1>3. CASE Columns(c) = Columns(d)  BY <1>1, <1>3
  <1>4. QED  BY <1>2, <1>3 DEF Unmistakable

\* The invariant holds at the start.
LEMMA CallsInvInit == CallsInit => CallsInv
  BY CallsAssumption
  DEF CallsInit, CallsInv, RowsOK, EntriesInv, AnswersAreRight, FirstTableIsFresh, Nothing

\* What a call returns on a hit.
LEMMA HitKeeps ==
  ASSUME CallsInv, NEW c \in Calls, CallHits(c)
  PROVE  CallsInv'
  <1>1. PICK d \in Calls, r \in [Tables -> 0 .. MaxChanges] :
          /\ SourceSql[d] = SourceSql[c] /\ Key(d) = Key(c)
          /\ entries[Key(c)] = Made(d, r)
          /\ connected /\ Table[c] # None => r[Resolves[Table[c]]] = rows[Resolves[Table[c]]]
    BY HitIsFresh DEF CallHits, CallsInv
  <1>2. RowsOK'  BY DEF CallHits, CallsInv, RowsOK
  <1>3. EntriesInv'  BY DEF CallHits, CallsInv, EntriesInv, Made, Key
  <1>4. FirstTableIsFresh'
    BY <1>1 DEF CallHits, FirstTableIsFresh, Returned, Made
  <1>5. AnswersAreRight'
    <2>1. SUFFICES ASSUME Versioned(c), Unmistakable(c)
                   PROVE  entries[Key(c)].content = Execute(c)
      BY DEF CallHits, AnswersAreRight, Returned, Versioned, Unmistakable, Execute
    <2>2. Statement[d] = Statement[c] /\ Columns(d) = Columns(c)
      BY <1>1, <2>1, KeyDecidesColumns
    <2>3. \A t \in Reads[Statement[c]] : r[t] = rows[t]
      BY <1>1, <2>1 DEF Versioned
    <2>4. QED  BY <1>1, <2>2, <2>3 DEF Made, Execute
  <1>6. QED  BY <1>2, <1>3, <1>4, <1>5 DEF CallsInv

\* What a call returns and stores on a miss.
LEMMA LoadKeeps ==
  ASSUME CallsInv, NEW c \in Calls, CallLoads(c)
  PROVE  CallsInv'
  <1>1. RowsOK'  BY DEF CallLoads, CallsInv, RowsOK
  <1>2. EntriesInv'
    <2>1. \A d \in Calls : Key(d)' = Key(d)  BY DEF CallLoads, Key
    <2>2. \A d \in Calls, r \in [Tables -> 0 .. MaxChanges] : Made(d, r)' = Made(d, r)
      BY DEF CallLoads, Made
    <2>3. entries' = [k \in DOMAIN entries \union {Key(c)} |->
                        IF k = Key(c) THEN Made(c, rows) ELSE entries[k]]
      BY LoadIsMade DEF CallLoads
    <2>4. ASSUME NEW k \in DOMAIN entries'
          PROVE  \E d \in Calls, r \in [Tables -> 0 .. MaxChanges] :
                   k = Key(d) /\ entries'[k] = Made(d, r)
      <3>1. CASE k = Key(c)  BY <2>3, <3>1 DEF CallsInv, RowsOK
      <3>2. CASE k # Key(c)  BY <2>3, <2>4, <3>2 DEF CallsInv, EntriesInv
      <3>3. QED  BY <3>1, <3>2
    <2>5. QED  BY <2>1, <2>2, <2>4 DEF EntriesInv
  <1>3. FirstTableIsFresh'
    BY DEF CallLoads, FirstTableIsFresh, Returned, Execute
  <1>4. AnswersAreRight'
    BY DEF CallLoads, AnswersAreRight, Returned, Execute
  <1>5. QED  BY <1>1, <1>2, <1>3, <1>4 DEF CallsInv

\* Every step keeps the invariant.
LEMMA CallsInvNext == CallsInv /\ [CallsNext]_vars => CallsInv'
  <1> SUFFICES ASSUME CallsInv, [CallsNext]_vars PROVE CallsInv'
    OBVIOUS
  <1>1. ASSUME NEW c \in Calls, CallRaises(c) PROVE CallsInv'
    <2>1. last'.outcome = "raised" /\ UNCHANGED <<connected, collide, rows, entries>>
      BY <1>1 DEF CallRaises
    <2>2. RowsOK' /\ EntriesInv'
      BY <2>1 DEF CallsInv, RowsOK, EntriesInv, Made, Key
    <2>3. AnswersAreRight' /\ FirstTableIsFresh'
      BY <2>1 DEF AnswersAreRight, FirstTableIsFresh
    <2>4. QED  BY <2>2, <2>3 DEF CallsInv
  <1>2. ASSUME NEW t \in Tables, TableChanges(t) PROVE CallsInv'
    <2>1. RowsOK'  BY <1>2, CallsAssumption DEF TableChanges, CallsInv, RowsOK
    <2>2. EntriesInv'  BY <1>2 DEF TableChanges, CallsInv, EntriesInv, Made, Key
    <2>3. AnswersAreRight' /\ FirstTableIsFresh'
      BY <1>2 DEF TableChanges, AnswersAreRight, FirstTableIsFresh, Nothing
    <2>4. QED  BY <2>1, <2>2, <2>3 DEF CallsInv
  <1>3. CASE UNCHANGED vars
    <2>1. UNCHANGED <<connected, collide, rows, entries, last>>
      BY <1>3 DEF vars
    <2>2. RowsOK' /\ EntriesInv'
      BY <2>1 DEF CallsInv, RowsOK, EntriesInv, Made, Key
    <2>3. AnswersAreRight'
      BY <2>1 DEF CallsInv, AnswersAreRight, Versioned, Unmistakable, Execute
    <2>4. FirstTableIsFresh'
      BY <2>1 DEF CallsInv, FirstTableIsFresh
    <2>5. QED  BY <2>2, <2>3, <2>4 DEF CallsInv
  <1>4. QED  BY <1>1, <1>2, <1>3, HitKeeps, LoadKeeps DEF CallsNext

\* The invariant of every behaviour.
LEMMA CallsInvAlways == CallsSpec => []CallsInv
  BY CallsInvInit, CallsInvNext, PTL DEF CallsSpec

\* For any statements, arguments and tables, collisions of fingerprints included, an answer
\* is what its statement returns now, where the version can say so and no other call looks
\* the same (nfs_cache.py:96-155, 881-913).
THEOREM AnswersAreAlwaysRight == CallsSpec => []AnswersAreRight
  <1>1. CallsInv => AnswersAreRight  BY DEF CallsInv
  <1>2. QED  BY <1>1, CallsInvAlways, PTL

\* The rows of an answer's first table, of a join too, are those it has now
\* (nfs_cache.py:46, 874-879, 897-913).
THEOREM FirstTablesAreFresh == CallsSpec => []FirstTableIsFresh
  <1>1. CallsInv => FirstTableIsFresh  BY DEF CallsInv
  <1>2. QED  BY <1>1, CallsInvAlways, PTL

-----------------------------------------------------------------------------
(* Places of a text.  Place(n, K) enumerates K in order, and is the only     *)
(* function that does.                                                       *)

LEMMA RankIs ==
  ASSUME NEW n \in Nat, NEW K, K \subseteq 1 .. n
  PROVE  /\ IsFiniteSet(K) /\ Cardinality(K) \in Nat
         /\ \A i \in Nat : IsFiniteSet(K \intersect 1 .. i) /\ Rank(i, K) \in 0 .. Cardinality(K)
         /\ \A i \in K : Rank(i, K) \in 1 .. Cardinality(K)
         /\ \A i, j \in Nat : i <= j => Rank(i, K) <= Rank(j, K)
         /\ \A i \in Nat, j \in K : i < j => Rank(i, K) < Rank(j, K)
  <1>1. IsFiniteSet(1 .. n)
    BY FS_Interval
  <1>2. IsFiniteSet(K) /\ Cardinality(K) \in Nat
    BY <1>1, FS_Subset, FS_CardinalityType
  <1>3. ASSUME NEW i
        PROVE  IsFiniteSet(K \intersect 1 .. i) /\ Rank(i, K) \in 0 .. Cardinality(K)
    <2>1. K \intersect 1 .. i \in SUBSET K  OBVIOUS
    <2>2. IsFiniteSet(K \intersect 1 .. i) /\ Cardinality(K \intersect 1 .. i) <= Cardinality(K)
      BY <1>2, <2>1, FS_Subset
    <2>3. Cardinality(K \intersect 1 .. i) \in Nat
      BY <2>2, FS_CardinalityType
    <2>4. QED  BY <1>2, <2>2, <2>3 DEF Rank
  <1>4. ASSUME NEW i \in K PROVE Rank(i, K) \in 1 .. Cardinality(K)
    <2>1. i \in K \intersect 1 .. i  OBVIOUS
    <2>2. Rank(i, K) # 0  BY <1>3, <2>1, FS_EmptySet DEF Rank
    <2>3. Rank(i, K) \in 0 .. Cardinality(K)  BY <1>3
    <2>4. QED  BY <2>2, <2>3
  <1>5. ASSUME NEW i \in Nat, NEW j \in Nat, i <= j
        PROVE  Rank(i, K) <= Rank(j, K) /\ (i < j /\ j \in K => Rank(i, K) < Rank(j, K))
    <2> DEFINE A == K \intersect 1 .. i
               B == K \intersect 1 .. j
    <2>1. A \in SUBSET B /\ (i < j /\ j \in K => j \in B /\ j \notin A)
      BY <1>5
    <2>2. IsFiniteSet(B) /\ Rank(i, K) = Cardinality(A) /\ Rank(j, K) = Cardinality(B)
      BY <1>3 DEF Rank
    <2>3. Cardinality(A) <= Cardinality(B) /\ (i < j /\ j \in K => Cardinality(B) # Cardinality(A))
      <3> HIDE DEF A, B
      <3> QED  BY <2>1, <2>2, FS_Subset
    <2>4. Rank(i, K) \in 0 .. Cardinality(K) /\ Rank(j, K) \in 0 .. Cardinality(K)
      BY <1>3
    <2>5. QED  BY <1>2, <2>2, <2>3, <2>4
  <1>6. \A j \in K : j \in Nat  OBVIOUS
  <1>7. QED  BY <1>2, <1>3, <1>4, <1>5, <1>6

\* Every rank is that of one place.
LEMMA PlaceIs ==
  ASSUME NEW n \in Nat, NEW K, K \subseteq 1 .. n
  PROVE  /\ \A m \in 1 .. Cardinality(K) : Place(m, K) \in K /\ Rank(Place(m, K), K) = m
         /\ \A i \in K : Place(Rank(i, K), K) = i
         /\ \A k, m \in 1 .. Cardinality(K) : k < m => Place(k, K) < Place(m, K)
  <1> DEFINE C == Cardinality(K)
             f == [i \in K |-> Rank(i, K)]
  <1>0. C \in Nat /\ IsFiniteSet(K) /\ \A i \in K : Rank(i, K) \in 1 .. C
    BY RankIs
  <1>1. C \in Nat /\ IsFiniteSet(K) /\ \A i \in K : i \in Nat /\ Rank(i, K) \in 1 .. C
    BY <1>0
  <1>2. \A i, j \in K : i < j => Rank(i, K) < Rank(j, K)
    BY <1>1, RankIs
  <1>3. \A i, j \in K : Rank(i, K) = Rank(j, K) => i = j
    BY <1>1, <1>2
  <1>4. f \in Injection(K, 1 .. C)
    BY <1>1, <1>3 DEF Injection, IsInjective
  <1>5. IsFiniteSet(1 .. C) /\ Cardinality(1 .. C) = C
    BY <1>1, FS_Interval
  <1>6. f \in Surjection(K, 1 .. C)
    <2> HIDE DEF f
    <2> QED  BY <1>4, <1>5, FS_Injection
  <1>7. \A m \in 1 .. C : \E i \in K : Rank(i, K) = m
    BY <1>6 DEF Surjection
  <1>8. \A m \in 1 .. C : Place(m, K) \in K /\ Rank(Place(m, K), K) = m
    BY <1>7 DEF Place
  <1>9. \A i \in K : Place(Rank(i, K), K) = i
    BY <1>1, <1>3, <1>8
  <1>10. ASSUME NEW k \in 1 .. C, NEW m \in 1 .. C, k < m PROVE Place(k, K) < Place(m, K)
    <2> DEFINE x == Place(k, K)
               y == Place(m, K)
    <2>1. x \in K /\ Rank(x, K) = k /\ y \in K /\ Rank(y, K) = m
      BY <1>8
    <2> HIDE DEF x, y
    <2>2. ~ y < x /\ x # y
      BY <1>2, <1>10, <2>1
    <2>3. x \in Nat /\ y \in Nat
      BY <1>1, <2>1
    <2>4. x < y
      BY <2>2, <2>3
    <2>5. QED  BY <2>4 DEF x, y
  <1>11. QED  BY <1>8, <1>9, <1>10

\* What enumerates the places in order is Place.
LEMMA PlaceIsUnique ==
  ASSUME NEW n \in Nat, NEW K, K \subseteq 1 .. n, NEW m \in Nat, NEW f \in [1 .. m -> K],
         \A i, j \in 1 .. m : i < j => f[i] < f[j],
         \A i \in K : \E k \in 1 .. m : f[k] = i
  PROVE  Cardinality(K) = m /\ \A k \in 1 .. m : f[k] = Place(k, K)
  <1>1. \A i \in 1 .. m : f[i] \in K /\ f[i] \in 1 .. n
    OBVIOUS
  <1>2. \A i, j \in 1 .. m : f[i] = f[j] => i = j
    BY <1>1
  <1>3. Cardinality(K) = m
    <2>1. f \in Bijection(1 .. m, K)
      BY <1>2 DEF Bijection, Injection, Surjection, IsInjective
    <2>2. QED  BY <2>1, FS_CountingElements DEF ExistsBijection
  <1>4. ASSUME NEW k \in 1 .. m PROVE Rank(f[k], K) = k
    <2> DEFINE g == [i \in 1 .. k |-> f[i]]
    <2>1. \A i \in 1 .. k : f[i] \in K \intersect 1 .. f[k]
      BY <1>1
    <2>2. ASSUME NEW i \in K \intersect 1 .. f[k] PROVE \E j \in 1 .. k : f[j] = i
      <3>1. PICK j \in 1 .. m : f[j] = i  OBVIOUS
      <3>2. ~ k < j  BY <1>1, <3>1
      <3>3. QED  BY <3>1, <3>2
    <2>3. g \in [1 .. k -> K \intersect 1 .. f[k]]  BY <2>1
    <2>4. \A i, j \in 1 .. k : g[i] = g[j] => i = j  BY <1>2
    <2>5. \A i \in K \intersect 1 .. f[k] : \E j \in 1 .. k : g[j] = i  BY <2>2
    <2>6. g \in Bijection(1 .. k, K \intersect 1 .. f[k])
      <3> HIDE DEF g
      <3> QED  BY <2>3, <2>4, <2>5 DEF Bijection, Injection, Surjection, IsInjective
    <2>7. QED  BY <2>6, FS_CountingElements DEF ExistsBijection, Rank
  <1>5. QED  BY <1>1, <1>3, <1>4, PlaceIs

-----------------------------------------------------------------------------
(* Texts.                                                                    *)

LEMMA AtIs ==
  ASSUME NEW Atoms, NEW t \in Seq(Atoms), NEW K, K \subseteq DOMAIN t
  PROVE  /\ At(t, K) \in Seq(Atoms) /\ Len(At(t, K)) = Cardinality(K)
         /\ DOMAIN At(t, K) = 1 .. Cardinality(K)
         /\ \A k \in 1 .. Cardinality(K) : At(t, K)[k] = t[Place(k, K)]
  <1>1. K \subseteq 1 .. Len(t)  OBVIOUS
  <1>2. Cardinality(K) \in Nat  BY <1>1, RankIs
  <1>3. \A k \in 1 .. Cardinality(K) : t[Place(k, K)] \in Atoms  BY <1>1, PlaceIs
  <1>4. QED  BY <1>2, <1>3 DEF At

LEMMA BeginningIs ==
  ASSUME NEW Atoms, NEW t \in Seq(Atoms), NEW m \in 0 .. Len(t)
  PROVE  /\ SubSeq(t, 1, m) \in Seq(Atoms) /\ Len(SubSeq(t, 1, m)) = m
         /\ DOMAIN SubSeq(t, 1, m) = 1 .. m
         /\ \A i \in 1 .. m : SubSeq(t, 1, m)[i] = t[i]
  OBVIOUS

LEMMA SameText ==
  ASSUME NEW Atoms, NEW t \in Seq(Atoms), NEW u \in Seq(Atoms), Len(t) = Len(u),
         \A i \in 1 .. Len(t) : t[i] = u[i]
  PROVE  t = u
  OBVIOUS

\* The bare text of what is kept of a text with all its words is that of the text.
LEMMA BareOfKept ==
  ASSUME NEW Atoms, NEW t \in Seq(Atoms), NEW K, K \subseteq DOMAIN t, Solid(t) \subseteq K,
         NEW s \in Seq(Atoms), Len(s) = Cardinality(K),
         \A k \in 1 .. Cardinality(K) :
           s[k] = t[Place(k, K)] \/ (s[k] \in Blanks /\ t[Place(k, K)] \in Blanks)
  PROVE  Bare(s) = Bare(t)
  <1> DEFINE J == Solid(s)
             L == Solid(t)
             f == [k \in 1 .. Cardinality(J) |-> Place(Place(k, J), K)]
  <1>1. K \subseteq 1 .. Len(t) /\ J \subseteq 1 .. Len(s) /\ L \subseteq 1 .. Len(t)
        /\ Len(s) \in Nat /\ Len(t) \in Nat
    BY DEF Solid
  <1>2. Cardinality(J) \in Nat /\ Cardinality(K) \in Nat
    BY <1>1, RankIs
  <1>3. \A k \in 1 .. Cardinality(J) : Place(k, J) \in J /\ Place(k, J) \in 1 .. Cardinality(K)
    BY <1>1, PlaceIs
  <1>4. \A k \in 1 .. Cardinality(K) :
          Place(k, K) \in K /\ Rank(Place(k, K), K) = k /\ (k \in J <=> Place(k, K) \in L)
          /\ (k \in J => s[k] = t[Place(k, K)])
    BY <1>1, PlaceIs DEF Solid
  <1>5. \A k \in 1 .. Cardinality(J) : f[k] \in L /\ s[Place(k, J)] = t[f[k]]
    BY <1>3, <1>4
  <1>6. ASSUME NEW i \in 1 .. Cardinality(J), NEW j \in 1 .. Cardinality(J), i < j
        PROVE  f[i] < f[j]
    <2>1. Place(i, J) < Place(j, J)
      BY <1>1, <1>6, PlaceIs
    <2>2. QED  BY <1>1, <1>3, <2>1, PlaceIs
  <1>7. ASSUME NEW i \in L PROVE \E k \in 1 .. Cardinality(J) : f[k] = i
    <2>1. Rank(i, K) \in 1 .. Cardinality(K) /\ Place(Rank(i, K), K) = i
      BY <1>1, RankIs, PlaceIs
    <2>2. Rank(i, K) \in J
      BY <1>4, <2>1
    <2>3. Rank(Rank(i, K), J) \in 1 .. Cardinality(J) /\ Place(Rank(Rank(i, K), J), J) = Rank(i, K)
      BY <1>1, <2>2, RankIs, PlaceIs
    <2>4. QED  BY <2>1, <2>3
  <1>8. Cardinality(L) = Cardinality(J) /\ \A k \in 1 .. Cardinality(J) : f[k] = Place(k, L)
    <2>1. f \in [1 .. Cardinality(J) -> L]  BY <1>5
    <2> HIDE DEF f, J, L
    <2>2. QED  BY <1>1, <1>2, <1>6, <1>7, <2>1, PlaceIsUnique
  <1>9. \A k \in 1 .. Cardinality(J) : s[Place(k, J)] = t[Place(k, L)]
    BY <1>5, <1>8
  <1>10. QED  BY <1>8, <1>9 DEF Bare, At

\* The bare text of a text's beginning is a beginning of its bare text.
LEMMA BareOfBeginning ==
  ASSUME NEW Atoms, NEW t \in Seq(Atoms), NEW m \in 0 .. Len(t)
  PROVE  /\ Rank(m, Solid(t)) \in 0 .. Len(Bare(t))
         /\ Bare(SubSeq(t, 1, m)) = SubSeq(Bare(t), 1, Rank(m, Solid(t)))
         /\ \A k \in Rank(m, Solid(t)) + 1 .. Len(Bare(t)) :
              Place(k, Solid(t)) \in m + 1 .. Len(t) /\ Bare(t)[k] = t[Place(k, Solid(t))]
  <1> DEFINE J == Solid(t)
             p == Rank(m, J)
             s == SubSeq(t, 1, m)
             f == [k \in 1 .. p |-> Place(k, J)]
  <1>1. J \subseteq 1 .. Len(t) /\ Len(t) \in Nat /\ m \in Nat
    BY DEF Solid
  <1>2. Cardinality(J) \in Nat /\ p \in 0 .. Cardinality(J)
    BY <1>1, RankIs
  <1>3. Bare(t) \in Seq(Atoms) /\ Len(Bare(t)) = Cardinality(J)
        /\ \A k \in 1 .. Cardinality(J) : Bare(t)[k] = t[Place(k, J)]
    BY <1>1, AtIs DEF Bare
  <1>4. \A k \in 1 .. Cardinality(J) : Place(k, J) \in J /\ Rank(Place(k, J), J) = k
    BY <1>1, PlaceIs
  <1>5. ASSUME NEW i \in J PROVE i <= m <=> Rank(i, J) <= p
    <2>1. i \in Nat /\ Rank(i, J) \in 0 .. Cardinality(J)
      BY <1>1, RankIs
    <2>2. (i <= m => Rank(i, J) <= p) /\ (m < i => p < Rank(i, J))
      BY <1>1, <2>1, RankIs
    <2>3. QED  BY <1>1, <1>2, <2>1, <2>2
  <1>6. \A k \in 1 .. Cardinality(J) : Place(k, J) <= m <=> k <= p
    BY <1>4, <1>5
  <1>7. s \in Seq(Atoms) /\ Len(s) = m /\ \A i \in 1 .. m : s[i] = t[i]
    BY BeginningIs
  <1>8. Solid(s) = J \intersect 1 .. m
    BY <1>1, <1>7 DEF Solid
  <1>9. Cardinality(Solid(s)) = p /\ \A k \in 1 .. p : Place(k, J) = Place(k, Solid(s))
    <2>1. f \in [1 .. p -> Solid(s)]
      BY <1>1, <1>2, <1>4, <1>6, <1>8
    <2>2. \A i, j \in 1 .. p : i < j => f[i] < f[j]
      BY <1>1, <1>2, PlaceIs
    <2>3. \A i \in Solid(s) : \E k \in 1 .. p : f[k] = i
      BY <1>1, <1>2, <1>5, <1>8, RankIs, PlaceIs
    <2>4. Solid(s) \subseteq 1 .. m
      BY <1>8
    <2>5. QED
      <3> HIDE DEF s
      <3>1. f \in [1 .. p -> Solid(s)] /\ p \in Nat  BY <1>2, <2>1
      <3>2. Cardinality(Solid(s)) = p /\ \A k \in 1 .. p : f[k] = Place(k, Solid(s))
        <4> HIDE DEF f, p
        <4> QED  BY <1>1, <2>2, <2>3, <2>4, <3>1, PlaceIsUnique
      <3>3. QED  BY <3>2
  <1>10. Bare(s) = SubSeq(Bare(t), 1, p)
    <2>1. \A k \in 1 .. p : s[Place(k, Solid(s))] = t[Place(k, J)]
      BY <1>1, <1>2, <1>4, <1>6, <1>7, <1>9
    <2>2. Bare(s) \in Seq(Atoms) /\ Len(Bare(s)) = p /\ \A k \in 1 .. p : Bare(s)[k] = t[Place(k, J)]
      <3>1. Solid(s) \subseteq DOMAIN s  BY DEF Solid
      <3>2. Bare(s) \in Seq(Atoms) /\ Len(Bare(s)) = p
            /\ \A k \in 1 .. p : Bare(s)[k] = s[Place(k, Solid(s))]
        <4> HIDE DEF s, p
        <4> QED  BY <1>7, <1>9, <3>1, AtIs DEF Bare
      <3>3. QED  BY <2>1, <3>2
    <2>3. QED
      <3> HIDE DEF s, p, J
      <3>1. p \in 0 .. Len(Bare(t))  BY <1>2, <1>3
      <3>2. \A k \in 1 .. p : Bare(s)[k] = Bare(t)[k]  BY <1>2, <1>3, <2>2
      <3>3. QED  BY <1>3, <2>2, <3>1, <3>2, BeginningIs, SameText
  <1>11. \A k \in p + 1 .. Cardinality(J) : Place(k, J) \in m + 1 .. Len(t)
    BY <1>1, <1>2, <1>4, <1>6
  <1>12. QED  BY <1>2, <1>3, <1>10, <1>11

\* Strings and numbers in one obligation are hard on the provers.
Semicolon(a) == a = ";"

\* RStrip takes the semicolons at the end, and those only.
LEMMA RStripIs ==
  ASSUME NEW Atoms, NEW t \in Seq(Atoms), NEW m \in 0 .. Len(t),
         m # 0 => ~Semicolon(t[m]), \A i \in m + 1 .. Len(t) : Semicolon(t[i])
  PROVE  RStrip(t) = SubSeq(t, 1, m)
  <1> DEFINE S == {0} \union {i \in DOMAIN t : ~Semicolon(t[i])}
  <1>0. DOMAIN t = 1 .. Len(t) /\ Len(t) \in Nat /\ m \in Nat /\ m <= Len(t)
    OBVIOUS
  <1>1. m \in S /\ \A i \in S : i \in Nat /\ m >= i
    <2>1. \A i \in 1 .. Len(t) : ~Semicolon(t[i]) => ~ i \in m + 1 .. Len(t)
      OBVIOUS
    <2>2. \A i \in 1 .. Len(t) : ~Semicolon(t[i]) => i <= m
      BY <1>0, <2>1
    <2>3. QED  BY <1>0, <2>2
  <1>2. Max(S) = m
    <2> HIDE DEF S
    <2>1. Max(S) \in S /\ \A i \in S : Max(S) >= i  BY <1>1 DEF Max
    <2>2. Max(S) >= m /\ m >= Max(S) /\ Max(S) \in Nat  BY <1>1, <2>1
    <2>3. QED  BY <1>0, <2>2
  <1>3. QED  BY <1>2 DEF RStrip, Semicolon

LEMMA RStripStops ==
  ASSUME NEW Atoms, NEW t \in Seq(Atoms)
  PROVE  \E m \in 0 .. Len(t) : /\ m # 0 => ~Semicolon(t[m])
                                /\ \A i \in m + 1 .. Len(t) : Semicolon(t[i])
  <1> DEFINE K == {i \in 1 .. Len(t) : ~Semicolon(t[i])}
  <1>0. K \subseteq 1 .. Len(t) /\ Len(t) \in Nat
    OBVIOUS
  <1>1. IsFiniteSet(K) /\ Cardinality(K) \in Nat
    <2> HIDE DEF K
    <2> QED  BY <1>0, RankIs
  <1>2. CASE Cardinality(K) = 0
    <2>1. K = {}
      <3> HIDE DEF K
      <3> QED  BY <1>1, <1>2, FS_EmptySet
    <2>2. \A i \in 1 .. Len(t) : Semicolon(t[i])  BY <2>1
    <2>3. 0 \in 0 .. Len(t) /\ \A i \in 0 + 1 .. Len(t) : Semicolon(t[i])  BY <1>0, <2>2
    <2>4. QED  BY <2>3
  <1>3. CASE Cardinality(K) # 0
    <2> DEFINE m == Place(Cardinality(K), K)
    <2>1. m \in K /\ Rank(m, K) = Cardinality(K)
      <3> HIDE DEF K
      <3>1. Cardinality(K) \in 1 .. Cardinality(K)  BY <1>1, <1>3
      <3>2. QED  BY <1>0, <3>1, PlaceIs
    <2>2. m \in 1 .. Len(t) /\ ~Semicolon(t[m])
      <3> HIDE DEF m
      <3> QED  BY <2>1
    <2> HIDE DEF m
    <2>3. ASSUME NEW i \in K, m < i PROVE FALSE
      <3> HIDE DEF K
      <3>0. m \in Nat  BY <2>2
      <3>1. \A k \in Nat, j \in K : k < j => Rank(k, K) < Rank(j, K)
        BY <1>0, RankIs
      <3>2. Rank(i, K) \in 1 .. Cardinality(K)
        BY <1>0, RankIs
      <3>3. QED  BY <1>1, <2>1, <2>3, <3>0, <3>1, <3>2
    <2>4. ASSUME NEW i \in m + 1 .. Len(t) PROVE Semicolon(t[i])
      <3>1. i \in 1 .. Len(t) /\ m < i  BY <1>0, <2>2
      <3>2. i \notin K  BY <2>3, <3>1
      <3>3. QED  BY <3>1, <3>2
    <2>5. m \in 0 .. Len(t)  BY <1>0, <2>2
    <2>6. QED  BY <2>2, <2>4, <2>5
  <1>4. QED  BY <1>2, <1>3

\* It takes no more from what is left when some of them are gone.
LEMMA RStripOfBeginning ==
  ASSUME NEW Atoms, NEW t \in Seq(Atoms), NEW p \in 0 .. Len(t),
         \A i \in p + 1 .. Len(t) : Semicolon(t[i])
  PROVE  RStrip(SubSeq(t, 1, p)) = RStrip(t)
  <1> DEFINE s == SubSeq(t, 1, p)
  <1>1. PICK m \in 0 .. Len(t) : (m # 0 => ~Semicolon(t[m])) /\ \A i \in m + 1 .. Len(t) : Semicolon(t[i])
    BY RStripStops
  <1>2. m <= p /\ m \in Nat /\ p \in Nat /\ p <= Len(t) /\ Len(t) \in Nat
    <2>1. Len(t) \in Nat /\ p \in Nat /\ p <= Len(t) /\ m \in Nat /\ m <= Len(t)  OBVIOUS
    <2>2. ASSUME p < m PROVE FALSE
      <3>1. m \in p + 1 .. Len(t) /\ m # 0  BY <2>1, <2>2
      <3>2. QED  BY <1>1, <3>1
    <2>3. QED  BY <2>1, <2>2
  <1>3. s \in Seq(Atoms) /\ Len(s) = p /\ \A i \in 1 .. p : s[i] = t[i]
    BY BeginningIs
  <1>4. RStrip(t) = SubSeq(t, 1, m)
    BY <1>1, RStripIs
  <1>5. RStrip(s) = SubSeq(s, 1, m)
    <2> HIDE DEF s
    <2>0. m \in 0 .. Len(s) /\ (m # 0 => m \in 1 .. p)
          /\ \A i \in m + 1 .. Len(s) : i \in 1 .. p /\ i \in m + 1 .. Len(t)
      BY <1>2, <1>3
    <2>1. (m # 0 => ~Semicolon(s[m])) /\ \A i \in m + 1 .. Len(s) : Semicolon(s[i])
      BY <1>1, <1>3, <2>0
    <2>2. m \in 0 .. Len(s)  BY <2>0
    <2>3. QED  BY <1>3, <2>1, <2>2, RStripIs
  <1>6. SubSeq(s, 1, m) = SubSeq(t, 1, m)
    <2> HIDE DEF s
    <2>1. m \in 0 .. Len(s)  BY <1>2, <1>3
    <2>2. m \in 0 .. Len(t) /\ \A i \in 1 .. m : i \in 1 .. p  BY <1>2
    <2>3. SubSeq(s, 1, m) \in Seq(Atoms) /\ Len(SubSeq(s, 1, m)) = m
          /\ \A i \in 1 .. m : SubSeq(s, 1, m)[i] = s[i]
      BY <1>3, <2>1, BeginningIs
    <2>4. SubSeq(t, 1, m) \in Seq(Atoms) /\ Len(SubSeq(t, 1, m)) = m
          /\ \A i \in 1 .. m : SubSeq(t, 1, m)[i] = t[i]
      BY <2>2, BeginningIs
    <2>5. \A i \in 1 .. m : SubSeq(s, 1, m)[i] = SubSeq(t, 1, m)[i]
      BY <1>3, <2>2, <2>3, <2>4
    <2>6. QED  BY <2>3, <2>4, <2>5, SameText
  <1>7. QED  BY <1>4, <1>5, <1>6

\* What RStrip takes of a text is nothing but semicolons of the bare text.
LEMMA BareOfStripped ==
  ASSUME NEW Atoms, NEW t \in Seq(Atoms), NEW m \in 0 .. Len(t),
         \A i \in m + 1 .. Len(t) : Semicolon(t[i])
  PROVE  RStrip(Bare(SubSeq(t, 1, m))) = RStrip(Bare(t))
  <1> DEFINE p == Rank(m, Solid(t))
  <1>1. Bare(t) \in Seq(Atoms)  BY AtIs DEF Bare, Solid
  <1>2. p \in 0 .. Len(Bare(t)) /\ Bare(SubSeq(t, 1, m)) = SubSeq(Bare(t), 1, p)
        /\ \A k \in p + 1 .. Len(Bare(t)) :
             Place(k, Solid(t)) \in m + 1 .. Len(t) /\ Bare(t)[k] = t[Place(k, Solid(t))]
    BY BareOfBeginning
  <1>3. \A k \in p + 1 .. Len(Bare(t)) : Semicolon(Bare(t)[k])
    BY <1>2
  <1>4. QED
    <2> HIDE DEF p
    <2> QED  BY <1>1, <1>2, <1>3, RStripOfBeginning

\* A normalized text has the words of the text, but for semicolons at the end.
LEMMA BareOfNormalized ==
  ASSUME NEW Atoms, Blanks \subseteq Atoms, NEW t \in Seq(Atoms)
  PROVE  RStrip(Bare(Normalize(t))) = RStrip(Bare(t))
  <1> DEFINE K == Solid(t) \union {i \in DOMAIN t \ Solid(t) :
                    i - 1 \in Solid(t) /\ \E j \in Solid(t) : i < j}
             c == Collapse(t)
  <1>1. K \subseteq DOMAIN t /\ Solid(t) \subseteq K
    BY DEF Solid
  <1>2. At(t, K) \in Seq(Atoms) /\ Len(At(t, K)) = Cardinality(K) /\ DOMAIN At(t, K) = 1 .. Cardinality(K)
        /\ \A k \in 1 .. Cardinality(K) : At(t, K)[k] = t[Place(k, K)]
    <2> HIDE DEF K
    <2> QED  BY <1>1, AtIs
  <1>3. c = [k \in DOMAIN At(t, K) |-> IF At(t, K)[k] \in Blanks THEN " " ELSE At(t, K)[k]]
    BY DEF Collapse
  <1>4. c \in Seq(Atoms) /\ Len(c) = Cardinality(K)
    <2> DEFINE blank == " "
    <2>1. blank \in Atoms  BY DEF Blanks
    <2>2. Cardinality(K) \in Nat
      <3>1. K \subseteq 1 .. Len(t) /\ Len(t) \in Nat  BY <1>1
      <3> HIDE DEF K
      <3>2. QED  BY <3>1, RankIs
    <2>3. c = [k \in 1 .. Cardinality(K) |-> IF At(t, K)[k] \in Blanks THEN blank ELSE At(t, K)[k]]
      BY <1>2, <1>3
    <2> HIDE DEF K, c, blank
    <2>4. \A k \in 1 .. Cardinality(K) : At(t, K)[k] \in Atoms
      BY <1>2
    <2>5. QED  BY <2>1, <2>2, <2>3, <2>4
  <1>5. \A k \in 1 .. Cardinality(K) :
          c[k] = t[Place(k, K)] \/ (c[k] \in Blanks /\ t[Place(k, K)] \in Blanks)
    <2> HIDE DEF K, c
    <2> QED  BY <1>2, <1>3 DEF Blanks
  <1>6. Bare(c) = Bare(t)
    <2> HIDE DEF K, c
    <2> QED  BY <1>1, <1>4, <1>5, BareOfKept
  <1>7. RStrip(Bare(RStrip(c))) = RStrip(Bare(c))
    <2> HIDE DEF c
    <2>1. PICK m \in 0 .. Len(c) : (m # 0 => ~Semicolon(c[m])) /\ \A i \in m + 1 .. Len(c) : Semicolon(c[i])
      BY <1>4, RStripStops
    <2>2. RStrip(c) = SubSeq(c, 1, m)  BY <1>4, <2>1, RStripIs
    <2>3. QED  BY <1>4, <2>1, <2>2, BareOfStripped
  <1>8. QED  BY <1>6, <1>7 DEF Normalize

\* So are the words of a text whose literals are closed: none ends in blanks that count.
LEMMA BareOfWords ==
  ASSUME NEW Atoms, NEW t \in Seq(Atoms), Closed(t)
  PROVE  Bare(Words(t)) = RStrip(Bare(t))
  <1> DEFINE K == Solid(t) \union {i \in DOMAIN t : InLiteral(t, i)}
             w == At(t, K)
  <1>1. K \subseteq DOMAIN t /\ K \subseteq 1 .. Len(t) /\ Solid(t) \subseteq K /\ Len(t) \in Nat
    BY DEF Solid
  <1>2. w \in Seq(Atoms) /\ Len(w) = Cardinality(K) /\ DOMAIN w = 1 .. Cardinality(K)
        /\ \A k \in 1 .. Cardinality(K) : w[k] = t[Place(k, K)]
    <2> HIDE DEF K
    <2> QED  BY <1>1, AtIs
  <1>3. Bare(w) = Bare(t)
    <2> HIDE DEF K, w
    <2> QED  BY <1>1, <1>2, BareOfKept
  <1>4. \A k \in 1 .. Cardinality(K) : Place(k, K) \in K /\ Rank(Place(k, K), K) = k
    <2> HIDE DEF K
    <2> QED  BY <1>1, PlaceIs
  <1>5. \A i \in K : Rank(i, K) \in 1 .. Cardinality(K) /\ Place(Rank(i, K), K) = i
    <2> HIDE DEF K
    <2> QED  BY <1>1, RankIs, PlaceIs
  <1>6. PICK m \in 0 .. Len(w) : (m # 0 => ~Semicolon(w[m])) /\ \A i \in m + 1 .. Len(w) : Semicolon(w[i])
    <2> HIDE DEF w
    <2> QED  BY <1>2, RStripStops
  <1>7. Words(t) = SubSeq(w, 1, m)
    <2>1. RStrip(w) = SubSeq(w, 1, m)
      <3> HIDE DEF w
      <3> QED  BY <1>2, <1>6, RStripIs
    <2>2. QED  BY <2>1 DEF Words
  <1>8. ASSUME m # 0 PROVE m \in Solid(w)
    <2> DEFINE i == Place(m, K)
    <2>1. m \in 1 .. Cardinality(K) /\ m \in DOMAIN w /\ w[m] = t[i] /\ i \in K /\ Rank(i, K) = m
      <3>1. m \in 1 .. Cardinality(K)
        <4> HIDE DEF w, K
        <4> QED  BY <1>2, <1>8
      <3>2. QED
        <4> HIDE DEF w, K
        <4> QED  BY <1>2, <1>4, <3>1
    <2> HIDE DEF i
    <2>2. SUFFICES ASSUME i \notin Solid(t) PROVE FALSE
      BY <1>1, <2>1 DEF Solid
    <2>3. PICK j \in DOMAIN t : i < j /\ t[j] = "'"
      BY <2>1, <2>2 DEF Closed
    <2>4. j \in Solid(t) /\ ~Semicolon(t[j])
      BY <2>3 DEF Solid, Blanks, Semicolon
    <2>5. j \in K /\ i \in Nat /\ i < j
      BY <1>1, <2>1, <2>3, <2>4
    <2>6. Rank(i, K) < Rank(j, K)
      <3> HIDE DEF K
      <3>1. \A k \in Nat, h \in K : k < h => Rank(k, K) < Rank(h, K)  BY <1>1, RankIs
      <3>2. QED  BY <2>5, <3>1
    <2>7. Rank(j, K) \in m + 1 .. Len(w) /\ w[Rank(j, K)] = t[j]
      <3> HIDE DEF w, K
      <3>1. Rank(j, K) \in 1 .. Cardinality(K) /\ Place(Rank(j, K), K) = j  BY <1>5, <2>5
      <3>2. QED  BY <1>2, <2>1, <2>6, <3>1
    <2>8. QED  BY <1>6, <2>4, <2>7
  <1> DEFINE p == Rank(m, Solid(w))
             b == SubSeq(Bare(w), 1, p)
  <1>9. p \in 0 .. Len(Bare(w)) /\ Bare(SubSeq(w, 1, m)) = b
        /\ \A k \in p + 1 .. Len(Bare(w)) :
             Place(k, Solid(w)) \in m + 1 .. Len(w) /\ Bare(w)[k] = w[Place(k, Solid(w))]
    <2> HIDE DEF w
    <2> QED  BY <1>2, BareOfBeginning
  <1>10. \A k \in p + 1 .. Len(Bare(w)) : Semicolon(Bare(w)[k])
    <2> HIDE DEF w, p
    <2> QED  BY <1>6, <1>9
  <1>11. Bare(w) \in Seq(Atoms) /\ Len(Bare(w)) = Cardinality(Solid(w))
         /\ \A k \in 1 .. Cardinality(Solid(w)) : Bare(w)[k] = w[Place(k, Solid(w))]
    <2> HIDE DEF w
    <2> QED  BY <1>2, AtIs DEF Bare, Solid
  <1>12. p # 0 => ~Semicolon(Bare(w)[p])
    <2> SUFFICES ASSUME p # 0 PROVE ~Semicolon(Bare(w)[p])
      OBVIOUS
    <2>1. Solid(w) \subseteq 1 .. Len(w) /\ Len(w) \in Nat
      <3> HIDE DEF w
      <3> QED  BY <1>2 DEF Solid
    <2>2. CASE m = 0
      <3>1. Solid(w) \intersect 1 .. m = {}  BY <2>2
      <3>2. p = 0  BY <3>1, FS_EmptySet DEF Rank
      <3>3. QED  BY <3>2
    <2>3. CASE m # 0
      <3>1. m \in Solid(w)  BY <1>8, <2>3
      <3>2. Place(p, Solid(w)) = m /\ p \in 1 .. Cardinality(Solid(w))
        <4> HIDE DEF w
        <4> QED  BY <2>1, <3>1, RankIs, PlaceIs
      <3>3. Bare(w)[p] = w[m]
        <4> HIDE DEF w, p
        <4> QED  BY <1>11, <3>2
      <3>4. QED  BY <1>6, <2>3, <3>3
    <2>4. QED  BY <2>2, <2>3
  <1>13. RStrip(Bare(w)) = b
    <2> HIDE DEF w, p
    <2> QED  BY <1>9, <1>10, <1>11, <1>12, RStripIs
  <1>14. QED  BY <1>3, <1>7, <1>9, <1>13

-----------------------------------------------------------------------------
(* Statements.                                                               *)

\* Texts that are normalized to the same have the same words.
LEMMA SqlDecidesWords ==
  ASSUME NEW Atoms, NEW c \in Calls, NEW d \in Calls, Plain(c), Plain(d),
         SqlArg(c) \in Seq(Atoms), SqlArg(d) \in Seq(Atoms), SourceSql[c] = SourceSql[d]
  PROVE  Bare(Statement[c]) = Bare(Statement[d])
  <1> DEFINE A == Atoms \union Blanks
             t == SqlArg(c)
             u == SqlArg(d)
  <1>1. t \in Seq(A) /\ u \in Seq(A) /\ Blanks \subseteq A /\ Closed(t) /\ Closed(u)
    BY DEF Plain
  <1>2. Normalize(t) = Normalize(u)
    BY DEF SourceSql
  <1>3. Statement[c] = Words(t) /\ Statement[d] = Words(u)
    BY DEF Statement, Plain
  <1>4. RStrip(Bare(Normalize(t))) = RStrip(Bare(t)) /\ Bare(Words(t)) = RStrip(Bare(t))
    <2> HIDE DEF A, t
    <2> QED  BY <1>1, BareOfNormalized, BareOfWords
  <1>5. RStrip(Bare(Normalize(u))) = RStrip(Bare(u)) /\ Bare(Words(u)) = RStrip(Bare(u))
    <2> HIDE DEF A, u
    <2> QED  BY <1>1, BareOfNormalized, BareOfWords
  <1>6. QED
    <2> HIDE DEF t, u
    <2> QED  BY <1>2, <1>3, <1>4, <1>5

\* Whatever is stored under a key and whoever stored it, no call is answered with other
\* words than its own: not the fingerprint but the text decides, and normalizing it moves
\* blanks and takes semicolons only (nfs_cache.py:810-812, 881-895, 956-1005).  The function
\* has to run the text that the cache looks up, and the text to close its literals.
THEOREM NoOtherStatement ==
  ASSUME NEW Atoms, \A c \in Calls : Plain(c) /\ SqlArg(c) \in Seq(Atoms)
  PROVE  CallsSpec => []StatementsStayApart
  <1>1. CallsInit => StatementsStayApart
    BY DEF CallsInit, StatementsStayApart, Nothing
  <1>2. CallsInv /\ StatementsStayApart /\ [CallsNext]_vars => StatementsStayApart'
    <2> SUFFICES ASSUME CallsInv, StatementsStayApart, [CallsNext]_vars PROVE StatementsStayApart'
      OBVIOUS
    <2>1. ASSUME NEW c \in Calls, CallHits(c) PROVE StatementsStayApart'
      <3>1. PICK d \in Calls, r \in [Tables -> 0 .. MaxChanges] :
              SourceSql[d] = SourceSql[c] /\ entries[Key(c)] = Made(d, r)
        BY <2>1, HitIsFresh DEF CallHits, CallsInv
      <3>2. Bare(Statement[d]) = Bare(Statement[c])
        BY <3>1, SqlDecidesWords
      <3>3. last' = Returned(c, entries[Key(c)].content) /\ entries[Key(c)].content.words = Statement[d]
        BY <2>1, <3>1 DEF CallHits, Made
      <3>4. QED  BY <3>2, <3>3 DEF StatementsStayApart, Returned
    <2>2. ASSUME NEW c \in Calls, CallLoads(c) PROVE StatementsStayApart'
      BY <2>2 DEF CallLoads, StatementsStayApart, Returned, Execute
    <2>3. ASSUME NEW c \in Calls, CallRaises(c) PROVE StatementsStayApart'
      BY <2>3 DEF CallRaises, StatementsStayApart
    <2>4. ASSUME NEW t \in Tables, TableChanges(t) PROVE StatementsStayApart'
      BY <2>4 DEF TableChanges, StatementsStayApart, Nothing
    <2>5. CASE UNCHANGED vars
      BY <2>5 DEF vars, StatementsStayApart
    <2>6. QED  BY <2>1, <2>2, <2>3, <2>4, <2>5 DEF CallsNext
  <1>3. QED  BY <1>1, <1>2, CallsInvAlways, PTL DEF CallsSpec

-----------------------------------------------------------------------------
(* Spellings.  What a text is normalized to depends on its words and on the  *)
(* places between them where there are blanks, and on nothing else.          *)

\* What Collapse keeps, and how it writes what it has kept.
Keep(text) ==
  Solid(text) \union {i \in DOMAIN text \ Solid(text) :
                        i - 1 \in Solid(text) /\ \E j \in Solid(text) : i < j}

Blank == " "
Blanked(text) == [n \in DOMAIN text |-> IF text[n] \in Blanks THEN Blank ELSE text[n]]

\* The words b one after the other, with a blank behind those in G: word k is numbered
\* 2 * k, the blank behind it 2 * k + 1.
Numbers(b, G) == {2 * k : k \in 1 .. Len(b)} \union {2 * k + 1 : k \in G}
Numbered(b, x) ==
  IF \E k \in 1 .. Len(b) : x = 2 * k THEN b[CHOOSE k \in 1 .. Len(b) : x = 2 * k] ELSE Blank
Spelled(b, G) == [n \in 1 .. Cardinality(Numbers(b, G)) |-> Numbered(b, Place(n, Numbers(b, G)))]

\* The first places of a set are those of its beginning.
LEMMA PlacesOfBeginning ==
  ASSUME NEW n \in Nat, NEW K, K \subseteq 1 .. n, NEW m \in Nat
  PROVE  /\ K \intersect 1 .. m \subseteq 1 .. n /\ Cardinality(K \intersect 1 .. m) = Rank(m, K)
         /\ Rank(m, K) \in 0 .. Cardinality(K)
         /\ \A k \in 1 .. Rank(m, K) : Place(k, K \intersect 1 .. m) = Place(k, K)
         /\ \A k \in Rank(m, K) + 1 .. Cardinality(K) : Place(k, K) > m
  <1> DEFINE J == K \intersect 1 .. m
             r == Rank(m, K)
  <1>1. J \subseteq 1 .. n /\ Cardinality(J) = r
    BY DEF Rank
  <1>2. Cardinality(K) \in Nat /\ r \in 0 .. Cardinality(K)
    BY RankIs
  <1>3. ASSUME NEW k \in 1 .. r PROVE Place(k, J) = Place(k, K)
    <2> DEFINE x == Place(k, J)
    <2>1. x \in J /\ Rank(x, J) = k
      <3> HIDE DEF J, r
      <3> QED  BY <1>1, PlaceIs
    <2> HIDE DEF x
    <2>2. J \intersect 1 .. x = K \intersect 1 .. x
      BY <2>1
    <2>3. Rank(x, K) = k /\ x \in K
      BY <2>1, <2>2 DEF Rank
    <2>4. Place(k, K) = x
      <3> HIDE DEF J, r
      <3> QED  BY <2>3, PlaceIs
    <2>5. QED  BY <2>4 DEF x
  <1>4. ASSUME NEW k \in r + 1 .. Cardinality(K) PROVE Place(k, K) > m
    <2> DEFINE x == Place(k, K)
    <2>1. k \in 1 .. Cardinality(K) /\ k > r
      BY <1>2
    <2>2. x \in K /\ Rank(x, K) = k
      <3> HIDE DEF r
      <3> QED  BY <2>1, PlaceIs
    <2> HIDE DEF x
    <2>3. x \in Nat
      BY <2>2
    <2>4. x <= m => Rank(x, K) <= r
      BY <2>3, RankIs
    <2>5. QED
      <3>1. ~ x <= m  BY <1>2, <2>1, <2>2, <2>4
      <3>2. x > m  BY <2>3, <3>1
      <3>3. QED  BY <3>2 DEF x
  <1>5. QED  BY <1>1, <1>2, <1>3, <1>4

\* The place where the first p words end.
Cut(text, p) == IF p = 0 THEN 0 ELSE Place(p, Solid(text))

LEMMA CutIs ==
  ASSUME NEW Atoms, NEW t \in Seq(Atoms), NEW p \in 0 .. Cardinality(Solid(t))
  PROVE  /\ Cut(t, p) \in 0 .. Len(t) /\ Rank(Cut(t, p), Solid(t)) = p
         /\ p # 0 => Cut(t, p) \in Solid(t)
         /\ \A i \in Solid(t) : i <= Cut(t, p) <=> Rank(i, Solid(t)) <= p
  <1> DEFINE S == Solid(t)
             m == Cut(t, p)
  <1>1. S \subseteq 1 .. Len(t) /\ Len(t) \in Nat
    BY DEF Solid
  <1> HIDE DEF S
  <1>2. Cardinality(S) \in Nat
    BY <1>1, RankIs
  <1>3. m \in 0 .. Len(t) /\ Rank(m, S) = p /\ (p # 0 => m \in S)
    <2>1. CASE p = 0
      <3>1. m = 0  BY <2>1 DEF Cut
      <3>2. S \intersect 1 .. 0 = {}  OBVIOUS
      <3>3. Rank(0, S) = 0  BY <3>2, FS_EmptySet DEF Rank
      <3>4. QED
        <4> HIDE DEF m
        <4> QED  BY <1>1, <2>1, <3>1, <3>3
    <2>2. CASE p # 0
      <3>1. p \in 1 .. Cardinality(S)  BY <1>2, <2>2 DEF S
      <3>2. m = Place(p, S)  BY <2>2 DEF Cut, S
      <3> HIDE DEF m
      <3>3. m \in S /\ Rank(m, S) = p  BY <1>1, <3>1, <3>2, PlaceIs
      <3>4. QED  BY <1>1, <3>3
    <2>3. QED  BY <2>1, <2>2
  <1> HIDE DEF m
  <1>4. ASSUME NEW i \in S PROVE i <= m <=> Rank(i, S) <= p
    <2>0. i \in Nat /\ m \in Nat
      BY <1>1, <1>3
    <2>1. i \in Nat /\ m \in Nat /\ Rank(i, S) \in 0 .. Cardinality(S)
      BY <1>1, <2>0, RankIs
    <2>2. (i <= m => Rank(i, S) <= Rank(m, S)) /\ (m < i => Rank(m, S) < Rank(i, S))
      BY <1>1, <2>1, RankIs
    <2>3. QED  BY <1>2, <1>3, <2>1, <2>2
  <1>5. QED  BY <1>3, <1>4 DEF S, m

\* Behind a blank, and before each word further on, is a word that follows a blank.
LEMMA NextWord ==
  ASSUME NEW Atoms, NEW t \in Seq(Atoms), NEW i \in DOMAIN t, i \notin Solid(t), i - 1 \in Solid(t),
         NEW j \in Solid(t), i < j
  PROVE  \E h \in Solid(t) : i < h /\ h - 1 \in DOMAIN t /\ h - 1 \notin Solid(t)
  <1> DEFINE S == Solid(t)
             q == Rank(i - 1, S)
             h == Place(q + 1, S)
  <1>1. S \subseteq 1 .. Len(t) /\ Len(t) \in Nat /\ DOMAIN t = 1 .. Len(t) /\ i \in 1 .. Len(t)
        /\ i \notin S /\ i - 1 \in S /\ j \in S /\ i - 1 \in Nat /\ j \in Nat
    BY DEF Solid
  <1> HIDE DEF S
  <1>2. \A x \in Nat, y \in S : x < y => Rank(x, S) < Rank(y, S)
    BY <1>1, RankIs
  <1>3. Cardinality(S) \in Nat /\ q \in 1 .. Cardinality(S) /\ Rank(j, S) \in 1 .. Cardinality(S)
        /\ q < Rank(j, S)
    <2>1. \A x \in S : Rank(x, S) \in 1 .. Cardinality(S)  BY <1>1, RankIs
    <2>2. Cardinality(S) \in Nat  BY <1>1, RankIs
    <2>3. QED  BY <1>1, <1>2, <2>1, <2>2
  <1>4. q + 1 \in 1 .. Cardinality(S)
    <2> HIDE DEF q
    <2> QED  BY <1>3
  <1>5. h \in S /\ Rank(h, S) = q + 1
    <2> HIDE DEF q
    <2> QED  BY <1>1, <1>4, PlaceIs
  <1> HIDE DEF h
  <1>6. h \in Nat /\ Rank(i - 1, S) = q /\ q \in Nat
    BY <1>1, <1>3, <1>5
  <1> HIDE DEF q
  <1>7. i - 1 < h
    <2>1. h < i - 1 => Rank(h, S) < q
      BY <1>1, <1>2, <1>6
    <2>2. h # i - 1
      BY <1>5, <1>6
    <2>3. QED  BY <1>1, <1>5, <1>6, <2>1, <2>2
  <1>8. i < h /\ h - 1 \in 1 .. Len(t)
    BY <1>1, <1>5, <1>6, <1>7
  <1>9. ASSUME h - 1 \in S PROVE FALSE
    <2>1. i - 1 < h - 1 /\ h - 1 < h /\ h - 1 \in Nat
      BY <1>1, <1>6, <1>8
    <2>2. q < Rank(h - 1, S) /\ Rank(h - 1, S) < Rank(h, S)
      BY <1>1, <1>2, <1>5, <1>6, <1>9, <2>1
    <2>3. Rank(h - 1, S) \in Nat
      <3>1. \A x \in Nat : Rank(x, S) \in 0 .. Cardinality(S)  BY <1>1, RankIs
      <3>2. Rank(h - 1, S) \in 0 .. Cardinality(S)  BY <2>1, <3>1
      <3>3. QED  BY <3>2
    <2>4. QED  BY <1>5, <1>6, <2>2, <2>3
  <1>10. QED  BY <1>1, <1>5, <1>8, <1>9 DEF S

LEMMA CollapseIs ==
  ASSUME NEW Atoms, Blanks \subseteq Atoms, NEW t \in Seq(Atoms)
  PROVE  /\ Keep(t) \subseteq 1 .. Len(t) /\ Solid(t) \subseteq Keep(t)
         /\ Collapse(t) = Blanked(At(t, Keep(t)))
         /\ Collapse(t) \in Seq(Atoms) /\ Len(Collapse(t)) = Cardinality(Keep(t))
         /\ \A k \in 1 .. Cardinality(Keep(t)) :
              Collapse(t)[k] = IF t[Place(k, Keep(t))] \in Blanks THEN Blank ELSE t[Place(k, Keep(t))]
  <1>1. Keep(t) \subseteq 1 .. Len(t) /\ Solid(t) \subseteq Keep(t)
    BY DEF Keep, Solid
  <1>2. At(t, Keep(t)) \in Seq(Atoms) /\ DOMAIN At(t, Keep(t)) = 1 .. Cardinality(Keep(t))
        /\ \A k \in 1 .. Cardinality(Keep(t)) : At(t, Keep(t))[k] = t[Place(k, Keep(t))]
    BY <1>1, AtIs
  <1>3. Collapse(t) = Blanked(At(t, Keep(t)))
    BY DEF Collapse, Blanked, Blank, Keep
  <1>4. Cardinality(Keep(t)) \in Nat
    BY <1>1, RankIs
  <1>5. Blank \in Atoms
    BY DEF Blanks, Blank
  <1>6. QED  BY <1>1, <1>2, <1>3, <1>4, <1>5 DEF Blanked

\* Of a tidy text the words up to p are left, if those that follow are semicolons.
LEMMA NormalizeIs ==
  ASSUME NEW Atoms, Blanks \subseteq Atoms, NEW t \in Seq(Atoms), Tidy(t),
         NEW p \in 0 .. Len(Bare(t)), p # 0 => ~Semicolon(Bare(t)[p]),
         \A k \in p + 1 .. Len(Bare(t)) : Semicolon(Bare(t)[k])
  PROVE  /\ Rank(Cut(t, p), Keep(t)) \in 0 .. Len(Collapse(t))
         /\ Normalize(t) = SubSeq(Collapse(t), 1, Rank(Cut(t, p), Keep(t)))
  <1> DEFINE S == Solid(t)
             K == Keep(t)
             c == Collapse(t)
             m == Cut(t, p)
             r == Rank(m, K)
  <1>1. K \subseteq 1 .. Len(t) /\ S \subseteq K /\ c \in Seq(Atoms) /\ Len(c) = Cardinality(K)
        /\ \A k \in 1 .. Cardinality(K) :
             c[k] = IF t[Place(k, K)] \in Blanks THEN Blank ELSE t[Place(k, K)]
    BY CollapseIs
  <1>2. Len(Bare(t)) = Cardinality(S) /\ \A k \in 1 .. Cardinality(S) : Bare(t)[k] = t[Place(k, S)]
    BY AtIs DEF Bare, Solid
  <1>3. m \in 0 .. Len(t) /\ Rank(m, S) = p /\ (p # 0 => m \in S) /\ (p = 0 => m = 0)
        /\ \A i \in S : i <= m <=> Rank(i, S) <= p
    BY <1>2, CutIs DEF Cut
  <1>4. S \subseteq 1 .. Len(t) /\ Len(t) \in Nat /\ Cardinality(K) \in Nat /\ Cardinality(S) \in Nat
    <2>1. S \subseteq 1 .. Len(t) /\ Len(t) \in Nat  BY DEF Solid
    <2> HIDE DEF S, K
    <2>2. QED  BY <1>1, <2>1, RankIs
  <1>5. \A i \in DOMAIN t : (i \in S <=> t[i] \notin Blanks) /\ i \in 1 .. Len(t)
    BY DEF Solid
  <1> HIDE DEF S, K, c, m
  <1>6. \A i \in S : Rank(i, S) \in 1 .. Cardinality(S) /\ Place(Rank(i, S), S) = i
    BY <1>4, RankIs, PlaceIs
  <1>7. \A i \in S : m < i => Semicolon(t[i])
    <2> SUFFICES ASSUME NEW i \in S, m < i PROVE Semicolon(t[i])
      OBVIOUS
    <2>1. Rank(i, S) \in p + 1 .. Len(Bare(t)) /\ Bare(t)[Rank(i, S)] = t[i]
      BY <1>2, <1>3, <1>4, <1>6
    <2>2. QED  BY <2>1
  <1>8. \A i \in K : m < i => i \in S
    <2> SUFFICES ASSUME NEW i \in K, m < i, i \notin S PROVE FALSE
      OBVIOUS
    <2>1. i \in DOMAIN t /\ i - 1 \in S /\ \E j \in S : i < j
      BY DEF K, Keep, S
    <2>2. PICK h \in S : i < h /\ h - 1 \in DOMAIN t /\ h - 1 \notin S
      BY <2>1, NextWord DEF S
    <2>3. Semicolon(t[h]) /\ t[h - 1] \in Blanks /\ h \in DOMAIN t
      <3>1. m < h  BY <1>3, <1>4, <2>1, <2>2
      <3>2. QED  BY <1>4, <1>5, <1>7, <2>2, <3>1
    <2>4. QED  BY <2>3 DEF Tidy, Semicolon
  <1>9. r \in 0 .. Len(c) /\ \A x \in r + 1 .. Cardinality(K) : Place(x, K) > m
    <2>1. m \in Nat  BY <1>3, <1>4
    <2>2. QED  BY <1>1, <1>4, <2>1, PlacesOfBeginning
  <1>10. r # 0 => ~Semicolon(c[r])
    <2> SUFFICES ASSUME r # 0 PROVE ~Semicolon(c[r])
      OBVIOUS
    <2>1. p # 0
      <3> SUFFICES ASSUME p = 0 PROVE r = 0  BY <2>1
      <3>1. K \intersect 1 .. m = {}  BY <1>3
      <3>2. QED  BY <3>1, FS_EmptySet DEF Rank
    <2>2. m \in S /\ m \in K /\ Bare(t)[p] = t[m] /\ t[m] \notin Blanks
      <3>1. m \in S /\ m \in K  BY <1>1, <1>3, <2>1
      <3>2. Place(p, S) = m /\ p \in 1 .. Cardinality(S)  BY <1>3, <1>6, <3>1
      <3>3. QED  BY <1>2, <1>4, <1>5, <3>1, <3>2
    <2>3. Place(r, K) = m /\ r \in 1 .. Cardinality(K)
      BY <1>1, <1>4, <2>2, RankIs, PlaceIs
    <2>4. c[r] = t[m]
      <3> HIDE DEF r
      <3> QED  BY <1>1, <2>2, <2>3
    <2>5. QED  BY <2>1, <2>2, <2>4
  <1>11. ASSUME NEW k \in r + 1 .. Len(c) PROVE Semicolon(c[k])
    <2> DEFINE i == Place(k, K)
    <2>1. k \in 1 .. Cardinality(K) /\ m < i
      <3>1. \A x \in r + 1 .. Cardinality(K) : Place(x, K) > m
        BY <1>9
      <3>2. k \in r + 1 .. Cardinality(K) /\ k \in 1 .. Cardinality(K)
        <4> HIDE DEF r
        <4> QED  BY <1>1, <1>9, <1>11
      <3>3. i \in K /\ i > m
        BY <1>1, <1>4, <3>1, <3>2, PlaceIs
      <3>4. QED  BY <1>1, <1>3, <1>4, <3>2, <3>3
    <2>2. i \in K
      BY <1>1, <1>4, <2>1, PlaceIs
    <2>3. c[k] = IF t[i] \in Blanks THEN Blank ELSE t[i]
      BY <1>1, <2>1
    <2> HIDE DEF i
    <2>4. i \in S /\ Semicolon(t[i]) /\ t[i] \notin Blanks
      <3>1. i \in S  BY <1>8, <2>1, <2>2
      <3>2. i \in DOMAIN t  BY <1>4, <3>1
      <3>3. QED  BY <1>5, <1>7, <2>1, <3>1, <3>2
    <2>5. QED  BY <2>3, <2>4
  <1>12. RStrip(c) = SubSeq(c, 1, r)
    <2> HIDE DEF r
    <2> QED  BY <1>1, <1>9, <1>10, <1>11, RStripIs
  <1>13. QED  BY <1>9, <1>12 DEF Normalize, c, K, m

\* The places that are kept of the first p words, and the number of each.
Opening(text, p) == Keep(text) \intersect 1 .. Cut(text, p)
Number(text, i)  == 2 * Rank(i, Solid(text)) + (IF i \in Solid(text) THEN 0 ELSE 1)
GapsOf(text, p)  == {k \in 1 .. p - 1 : Place(k, Solid(text)) + 1 \notin Solid(text)}

LEMMA OpeningIs ==
  ASSUME NEW Atoms, NEW t \in Seq(Atoms), NEW p \in 0 .. Cardinality(Solid(t))
  PROVE  /\ \A i \in Opening(t, p) : i \in Solid(t) => Rank(i, Solid(t)) \in 1 .. p
         /\ \A i \in Opening(t, p) : i \notin Solid(t) =>
              /\ i - 1 \in Solid(t) /\ Rank(i - 1, Solid(t)) = Rank(i, Solid(t))
              /\ Rank(i, Solid(t)) \in GapsOf(t, p)
         /\ \A k \in 1 .. p : Place(k, Solid(t)) \in Opening(t, p)
         /\ \A k \in GapsOf(t, p) :
              /\ Place(k, Solid(t)) + 1 \in Opening(t, p) \ Solid(t)
              /\ Rank(Place(k, Solid(t)) + 1, Solid(t)) = k
  <1> DEFINE S == Solid(t)
             m == Cut(t, p)
             C == Cardinality(S)
  <1>1. S \subseteq 1 .. Len(t) /\ Len(t) \in Nat /\ DOMAIN t = 1 .. Len(t) /\ S \subseteq Keep(t)
    BY DEF Solid, Keep
  <1>2. m \in 0 .. Len(t) /\ Rank(m, S) = p /\ (p # 0 => m \in S)
        /\ \A i \in S : i <= m <=> Rank(i, S) <= p
    BY CutIs
  <1>3. p \in 0 .. C
    OBVIOUS
  <1>4. \A i \in Keep(t) : i \in 1 .. Len(t)
          /\ (i \notin S => i - 1 \in S)
    BY DEF Keep, Solid
  <1>4a. \A i \in DOMAIN t : i \notin S /\ i - 1 \in S /\ (\E j \in S : i < j) => i \in Keep(t)
    BY DEF Keep
  <1>5. Opening(t, p) = Keep(t) \intersect 1 .. m
    BY DEF Opening
  <1>6. GapsOf(t, p) = {k \in 1 .. p - 1 : Place(k, S) + 1 \notin S}
    BY DEF GapsOf
  <1> HIDE DEF S, m
  <1>7. C \in Nat /\ p \in Nat /\ m \in Nat
    <2>1. C \in Nat  BY <1>1, RankIs
    <2>2. QED  BY <1>1, <1>2, <1>3, <2>1
  <1>8. /\ \A i \in S : Rank(i, S) \in 1 .. C /\ Place(Rank(i, S), S) = i
        /\ \A k \in 1 .. C : Place(k, S) \in S /\ Rank(Place(k, S), S) = k
    BY <1>1, RankIs, PlaceIs
  <1>9. \A i \in Nat : i \notin S => Rank(i, S) = Rank(i - 1, S)
    <2> SUFFICES ASSUME NEW i \in Nat, i \notin S PROVE Rank(i, S) = Rank(i - 1, S)
      OBVIOUS
    <2>1. S \intersect 1 .. i = S \intersect 1 .. i - 1  BY <1>1
    <2>2. QED  BY <2>1 DEF Rank
  <1>10. ASSUME NEW i \in Opening(t, p), i \in S PROVE Rank(i, S) \in 1 .. p
    <2>1. i <= m  BY <1>5, <1>7
    <2>2. Rank(i, S) <= p /\ Rank(i, S) \in 1 .. C  BY <1>2, <1>8, <1>10, <2>1
    <2>3. QED  BY <1>3, <1>7, <2>2
  <1>11. ASSUME NEW i \in Opening(t, p), i \notin S
         PROVE  i - 1 \in S /\ Rank(i - 1, S) = Rank(i, S) /\ Rank(i, S) \in GapsOf(t, p)
    <2>1. i \in Keep(t) /\ i \in 1 .. m /\ i \in Nat /\ i <= m /\ i - 1 \in S
      BY <1>4, <1>5, <1>7, <1>11
    <2>2. Rank(i - 1, S) = Rank(i, S) /\ Place(Rank(i - 1, S), S) = i - 1 /\ Rank(i - 1, S) \in 1 .. C
      BY <1>8, <1>9, <1>11, <2>1
    <2>3. Rank(i, S) < p
      <3>1. p # 0 /\ m \in S  BY <1>2, <1>7, <2>1 DEF m, Cut
      <3>2. i - 1 < m /\ i - 1 \in Nat  BY <1>1, <1>7, <2>1
      <3>3. \A x \in Nat, y \in S : x < y => Rank(x, S) < Rank(y, S)  BY <1>1, RankIs
      <3>4. Rank(i - 1, S) < p  BY <1>2, <3>1, <3>2, <3>3
      <3>5. QED  BY <2>2, <3>4
    <2>4. Rank(i, S) \in 1 .. p - 1 /\ Place(Rank(i, S), S) + 1 = i
      <3>1. Rank(i, S) \in 1 .. C /\ Place(Rank(i, S), S) = i - 1  BY <2>2
      <3>2. QED  BY <1>7, <2>1, <2>3, <3>1
    <2>5. QED  BY <1>6, <1>11, <2>1, <2>2, <2>4
  <1>12. ASSUME NEW k \in 1 .. p PROVE Place(k, S) \in Opening(t, p)
    <2>1. k \in 1 .. C /\ k <= p  BY <1>3, <1>7
    <2>2. Place(k, S) \in S /\ Rank(Place(k, S), S) = k  BY <1>8, <2>1
    <2>3. Place(k, S) <= m /\ Place(k, S) \in Keep(t) /\ Place(k, S) \in 1 .. Len(t)
      BY <1>1, <1>2, <2>1, <2>2
    <2>4. QED  BY <1>5, <1>7, <2>3
  <1>13. ASSUME NEW k \in GapsOf(t, p)
         PROVE  Place(k, S) + 1 \in Opening(t, p) \ S /\ Rank(Place(k, S) + 1, S) = k
    <2> DEFINE x == Place(k, S)
    <2>1. k \in 1 .. C /\ k < p /\ p # 0 /\ x + 1 \notin S
      BY <1>3, <1>6, <1>7
    <2>2. x \in S /\ Rank(x, S) = k
      BY <1>8, <2>1
    <2> HIDE DEF x
    <2>3. x <= m /\ x \in 1 .. Len(t) /\ m \in S /\ Rank(m, S) = p
      BY <1>1, <1>2, <2>1, <2>2
    <2>4. x # m  BY <2>1, <2>2, <2>3
    <2>5. x + 1 < m
      <3>1. x + 1 # m  BY <2>1, <2>3
      <3>2. QED  BY <1>7, <2>3, <2>4, <3>1
    <2>6. x + 1 \in DOMAIN t /\ x + 1 \in 1 .. m /\ (x + 1) - 1 = x /\ x + 1 \in Nat
      BY <1>1, <1>2, <1>7, <2>3, <2>5
    <2>7. x + 1 \in Keep(t)
      <3>1. (x + 1) - 1 \in S  BY <2>2, <2>6
      <3>2. QED  BY <1>4a, <2>1, <2>3, <2>5, <2>6, <3>1
    <2>8. Rank(x + 1, S) = k
      <3>1. Rank(x + 1, S) = Rank((x + 1) - 1, S)  BY <1>9, <2>1, <2>6
      <3>2. QED  BY <2>2, <2>6, <3>1
    <2>9. QED  BY <1>5, <2>1, <2>6, <2>7, <2>8 DEF x
  <1>14. QED  BY <1>10, <1>11, <1>12, <1>13 DEF S

\* The numbers of the places are in their order, and are those of the words and the blanks.
LEMMA NumberIs ==
  ASSUME NEW Atoms, NEW t \in Seq(Atoms), NEW p \in 0 .. Cardinality(Solid(t)), NEW b, Len(b) = p
  PROVE  /\ \A i \in Opening(t, p) : Number(t, i) \in Numbers(b, GapsOf(t, p))
         /\ \A i, j \in Opening(t, p) : i < j => Number(t, i) < Number(t, j)
         /\ \A x \in Numbers(b, GapsOf(t, p)) : \E i \in Opening(t, p) : Number(t, i) = x
         /\ Numbers(b, GapsOf(t, p)) \subseteq 1 .. 2 * p + 1
  <1> DEFINE S == Solid(t)
             F == Opening(t, p)
             G == GapsOf(t, p)
             N == Numbers(b, G)
  <1>1. /\ \A i \in F : i \in S => Rank(i, S) \in 1 .. p
        /\ \A i \in F : i \notin S => i - 1 \in S /\ Rank(i - 1, S) = Rank(i, S) /\ Rank(i, S) \in G
        /\ \A k \in 1 .. p : Place(k, S) \in F
        /\ \A k \in G : Place(k, S) + 1 \in F \ S /\ Rank(Place(k, S) + 1, S) = k
    BY OpeningIs
  <1>2. S \subseteq 1 .. Len(t) /\ F \subseteq 1 .. Len(t) /\ Len(t) \in Nat /\ G \subseteq 1 .. p - 1
    BY DEF Solid, Opening, Keep, GapsOf
  <1>3. N = {2 * k : k \in 1 .. p} \union {2 * k + 1 : k \in G}
    BY DEF Numbers
  <1>4. \A i : Number(t, i) = 2 * Rank(i, S) + (IF i \in S THEN 0 ELSE 1)
    BY DEF Number
  <1>5. p \in 0 .. Cardinality(S)
    OBVIOUS
  <1> HIDE DEF S, F, G, N
  <1>6. Cardinality(S) \in Nat /\ p \in Nat
    <2>1. Cardinality(S) \in Nat  BY <1>2, RankIs
    <2>2. QED  BY <1>5, <2>1
  <1>7. /\ \A i \in Nat : Rank(i, S) \in 0 .. Cardinality(S)
        /\ \A i, j \in Nat : i <= j => Rank(i, S) <= Rank(j, S)
        /\ \A i \in Nat, j \in S : i < j => Rank(i, S) < Rank(j, S)
        /\ \A k \in 1 .. p : Place(k, S) \in S /\ Rank(Place(k, S), S) = k
    <2>1. p <= Cardinality(S)  BY <1>5, <1>6
    <2>2. \A k \in 1 .. p : k \in 1 .. Cardinality(S)  BY <1>6, <2>1
    <2>3. \A k \in 1 .. Cardinality(S) : Place(k, S) \in S /\ Rank(Place(k, S), S) = k
      BY <1>2, PlaceIs
    <2>4. /\ \A i \in Nat : Rank(i, S) \in 0 .. Cardinality(S)
          /\ \A i, j \in Nat : i <= j => Rank(i, S) <= Rank(j, S)
          /\ \A i \in Nat, j \in S : i < j => Rank(i, S) < Rank(j, S)
      BY <1>2, RankIs
    <2>5. QED  BY <2>2, <2>3, <2>4
  <1>8. ASSUME NEW i \in F PROVE Number(t, i) \in N
    <2>1. CASE i \in S
      <3>1. Rank(i, S) \in 1 .. p /\ Number(t, i) = 2 * Rank(i, S)  BY <1>1, <1>4, <1>6, <1>8, <2>1
      <3>2. QED  BY <1>3, <3>1
    <2>2. CASE i \notin S
      <3>1. Rank(i, S) \in G /\ Number(t, i) = 2 * Rank(i, S) + 1  BY <1>1, <1>4, <1>8, <2>2
      <3>2. QED  BY <1>3, <3>1
    <2>3. QED  BY <2>1, <2>2
  <1>9. ASSUME NEW i \in F, NEW j \in F, i < j PROVE Number(t, i) < Number(t, j)
    <2>1. i \in Nat /\ j \in Nat /\ j - 1 \in Nat
      BY <1>2
    <2>2. Rank(i, S) \in Nat /\ Rank(j, S) \in Nat
      <3>1. Rank(i, S) \in 0 .. Cardinality(S) /\ Rank(j, S) \in 0 .. Cardinality(S)
        BY <1>7, <2>1
      <3>2. QED  BY <3>1
    <2>3. CASE j \in S
      <3>1. Rank(i, S) < Rank(j, S)  BY <1>7, <1>9, <2>1, <2>3
      <3>2. QED  BY <1>4, <2>2, <2>3, <3>1
    <2>4. CASE j \notin S
      <3>1. j - 1 \in S /\ Rank(j - 1, S) = Rank(j, S)  BY <1>1, <1>9, <2>4
      <3>2. CASE i \in S
        <4>1. i <= j - 1  BY <1>9, <2>1
        <4>2. Rank(i, S) <= Rank(j, S)  BY <1>7, <2>1, <3>1, <4>1
        <4>3. QED  BY <1>4, <2>2, <2>4, <3>2, <4>2
      <3>3. CASE i \notin S
        <4>1. i < j - 1
          <5>1. i # j - 1  BY <3>1, <3>3
          <5>2. QED  BY <1>9, <2>1, <5>1
        <4>2. Rank(i, S) < Rank(j, S)  BY <1>7, <2>1, <3>1, <4>1
        <4>3. QED  BY <1>4, <2>2, <2>4, <3>3, <4>2
      <3>4. QED  BY <3>2, <3>3
    <2>5. QED  BY <2>3, <2>4
  <1>10. ASSUME NEW x \in N PROVE \E i \in F : Number(t, i) = x
    <2>1. CASE \E k \in 1 .. p : x = 2 * k
      <3>1. PICK k \in 1 .. p : x = 2 * k  BY <2>1
      <3>2. Place(k, S) \in F /\ Place(k, S) \in S /\ Rank(Place(k, S), S) = k  BY <1>1, <1>7
      <3>3. Number(t, Place(k, S)) = x  BY <1>4, <3>1, <3>2
      <3>4. QED  BY <3>2, <3>3
    <2>2. CASE \E k \in G : x = 2 * k + 1
      <3>1. PICK k \in G : x = 2 * k + 1  BY <2>2
      <3>2. Place(k, S) + 1 \in F /\ Place(k, S) + 1 \notin S /\ Rank(Place(k, S) + 1, S) = k
        BY <1>1
      <3>3. Number(t, Place(k, S) + 1) = x  BY <1>4, <3>1, <3>2
      <3>4. QED  BY <3>2, <3>3
    <2>3. QED  BY <1>3, <2>1, <2>2
  <1>11. ASSUME NEW x \in N PROVE x \in 1 .. 2 * p + 1
    <2>1. CASE \E k \in 1 .. p : x = 2 * k  BY <1>6, <2>1
    <2>2. CASE \E k \in G : x = 2 * k + 1
      <3>1. PICK k \in G : x = 2 * k + 1  BY <2>2
      <3>2. k \in 1 .. p - 1  BY <1>2
      <3>3. QED  BY <1>6, <3>1, <3>2
    <2>3. QED  BY <1>3, <2>1, <2>2
  <1>12. QED  BY <1>8, <1>9, <1>10, <1>11 DEF F, G, N

\* The word of a number, and the blank behind it.
LEMMA NumberedIs ==
  ASSUME NEW b, Len(b) \in Nat
  PROVE  /\ \A k \in 1 .. Len(b) : Numbered(b, 2 * k) = b[k]
         /\ \A k \in Nat : Numbered(b, 2 * k + 1) = Blank
  <1>1. ASSUME NEW k \in 1 .. Len(b) PROVE Numbered(b, 2 * k) = b[k]
    <2>1. \A j \in 1 .. Len(b) : 2 * k = 2 * j => j = k  OBVIOUS
    <2>2. (CHOOSE j \in 1 .. Len(b) : 2 * k = 2 * j) = k  BY <2>1
    <2>3. QED  BY <2>2 DEF Numbered
  <1>2. ASSUME NEW k \in Nat PROVE Numbered(b, 2 * k + 1) = Blank
    <2>1. \A j \in 1 .. Len(b) : 2 * k + 1 # 2 * j  OBVIOUS
    <2>2. QED  BY <2>1 DEF Numbered
  <1>3. QED  BY <1>1, <1>2

\* What a tidy text is normalized to is its words, with one blank where it has some.
LEMMA SpelledIs ==
  ASSUME NEW Atoms, Blanks \subseteq Atoms, NEW t \in Seq(Atoms), Tidy(t)
  PROVE  Normalize(t) = Spelled(Stem(t), Gaps(t))
  <1>1. Bare(t) \in Seq(Atoms) /\ Len(Bare(t)) = Cardinality(Solid(t))
        /\ \A k \in 1 .. Cardinality(Solid(t)) : Bare(t)[k] = t[Place(k, Solid(t))]
    BY AtIs DEF Bare, Solid
  <1>2. PICK p \in 0 .. Len(Bare(t)) :
          (p # 0 => ~Semicolon(Bare(t)[p])) /\ \A i \in p + 1 .. Len(Bare(t)) : Semicolon(Bare(t)[i])
    BY <1>1, RStripStops
  <1>3. Len(Stem(t)) = p /\ \A k \in 1 .. p : Stem(t)[k] = Bare(t)[k]
    <2>1. Stem(t) = SubSeq(Bare(t), 1, p)  BY <1>1, <1>2, RStripIs DEF Stem
    <2>2. QED  BY <1>1, <2>1, BeginningIs
  <1>4. Gaps(t) = GapsOf(t, p)
    BY <1>3 DEF Gaps, GapsOf
  <1> DEFINE S == Solid(t)
             K == Keep(t)
             F == Opening(t, p)
             c == Collapse(t)
             b == Stem(t)
             N == Numbers(b, Gaps(t))
             r == Rank(Cut(t, p), K)
             f == [n \in 1 .. r |-> Number(t, Place(n, F))]
  <1>5. r \in 0 .. Len(c) /\ Normalize(t) = SubSeq(c, 1, r)
    BY <1>2, NormalizeIs
  <1>6. K \subseteq 1 .. Len(t) /\ S \subseteq 1 .. Len(t) /\ Len(t) \in Nat
        /\ c \in Seq(Atoms) /\ Len(c) = Cardinality(K)
        /\ \A k \in 1 .. Cardinality(K) :
             c[k] = IF t[Place(k, K)] \in Blanks THEN Blank ELSE t[Place(k, K)]
    <2>1. S \subseteq 1 .. Len(t) /\ Len(t) \in Nat  BY DEF Solid
    <2>2. QED  BY <2>1, CollapseIs
  <1>7. F = K \intersect 1 .. Cut(t, p) /\ Cut(t, p) \in Nat
    <2>1. Cut(t, p) \in 0 .. Len(t)  BY <1>1, <1>2, CutIs
    <2>2. QED  BY <2>1 DEF Opening
  <1>8. /\ \A i \in F : Number(t, i) \in N
        /\ \A i, j \in F : i < j => Number(t, i) < Number(t, j)
        /\ \A x \in N : \E i \in F : Number(t, i) = x
        /\ N \subseteq 1 .. 2 * p + 1
    BY <1>1, <1>2, <1>3, <1>4, NumberIs
  <1>9. \A i \in F : (i \in S => Rank(i, S) \in 1 .. p) /\ (i \notin S => Rank(i, S) \in Nat)
    <2>1. \A i \in F : i \in S => Rank(i, S) \in 1 .. p  BY <1>1, <1>2, OpeningIs
    <2>2. \A i \in F : i \notin S => Rank(i, S) \in GapsOf(t, p)  BY <1>1, <1>2, OpeningIs
    <2>3. \A k \in GapsOf(t, p) : k \in Nat  BY DEF GapsOf
    <2>4. QED  BY <2>1, <2>2, <2>3
  <1>10. \A i : Number(t, i) = 2 * Rank(i, S) + (IF i \in S THEN 0 ELSE 1)
    BY DEF Number
  <1>11. \A i \in 1 .. Len(t) : i \in S <=> t[i] \notin Blanks
    BY DEF Solid
  <1> HIDE DEF S, K, F, c, b, N
  <1>12. p \in Nat /\ Cardinality(S) \in Nat /\ Len(b) = p /\ \A k \in 1 .. p : k \in 1 .. Cardinality(S)
    <2>1. Cardinality(S) \in Nat  BY <1>6, RankIs
    <2>2. Len(b) = p /\ p \in 0 .. Cardinality(S)  BY <1>1, <1>2, <1>3 DEF b, S
    <2>3. QED  BY <2>1, <2>2
  <1>13. F \subseteq 1 .. Len(t) /\ Cardinality(F) = r /\ r \in 0 .. Cardinality(K)
         /\ Cardinality(K) \in Nat /\ \A n \in 1 .. r : Place(n, F) = Place(n, K)
    <2>1. Cardinality(K) \in Nat  BY <1>6, RankIs
    <2>2. QED  BY <1>6, <1>7, <2>1, PlacesOfBeginning
  <1> HIDE DEF r
  <1>14. \A n \in 1 .. r : Place(n, F) \in F /\ Rank(Place(n, F), F) = n
    BY <1>6, <1>13, PlaceIs
  <1>15. \A i \in F : Rank(i, F) \in 1 .. r /\ Place(Rank(i, F), F) = i
    BY <1>6, <1>13, RankIs, PlaceIs
  <1>16. Cardinality(N) = r /\ \A n \in 1 .. r : Number(t, Place(n, F)) = Place(n, N)
    <2>1. f \in [1 .. r -> N]  BY <1>8, <1>14
    <2>2. ASSUME NEW i \in 1 .. r, NEW j \in 1 .. r, i < j PROVE f[i] < f[j]
      <3>1. Place(i, F) < Place(j, F)
        <4>1. \A k, m \in 1 .. Cardinality(F) : k < m => Place(k, F) < Place(m, F)
          BY <1>6, <1>13, PlaceIs
        <4>2. QED  BY <1>13, <2>2, <4>1
      <3>2. QED  BY <1>8, <1>14, <3>1
    <2>3. ASSUME NEW x \in N PROVE \E k \in 1 .. r : f[k] = x
      <3>1. PICK i \in F : Number(t, i) = x  BY <1>8
      <3>2. f[Rank(i, F)] = x /\ Rank(i, F) \in 1 .. r  BY <1>15, <3>1
      <3>3. QED  BY <3>2
    <2>4. 2 * p + 1 \in Nat /\ r \in Nat  BY <1>12, <1>13
    <2>5. Cardinality(N) = r /\ \A k \in 1 .. r : f[k] = Place(k, N)
      <3> HIDE DEF f
      <3> QED  BY <1>8, <2>1, <2>2, <2>3, <2>4, PlaceIsUnique
    <2>6. QED  BY <2>5
  <1>17. ASSUME NEW n \in 1 .. r PROVE c[n] = Numbered(b, Place(n, N))
    <2> DEFINE i == Place(n, F)
    <2>1. i \in F /\ i = Place(n, K) /\ i \in 1 .. Len(t) /\ n \in 1 .. Cardinality(K)
          /\ Number(t, i) = Place(n, N)
      <3>1. n \in 1 .. Cardinality(K)  BY <1>13
      <3>2. i \in F /\ i = Place(n, K) /\ i \in 1 .. Len(t)
        <4>1. i \in F /\ i = Place(n, K)  BY <1>13, <1>14
        <4>2. QED  BY <1>13, <4>1
      <3>3. QED  BY <1>16, <3>1, <3>2
    <2>2. c[n] = IF t[i] \in Blanks THEN Blank ELSE t[i]
      BY <1>6, <2>1
    <2> HIDE DEF i
    <2>3. CASE i \in S
      <3>1. Rank(i, S) \in 1 .. p /\ Place(n, N) = 2 * Rank(i, S)
        <4>1. Rank(i, S) \in 1 .. p  BY <1>9, <2>1, <2>3
        <4>2. Place(n, N) = 2 * Rank(i, S) + 0  BY <1>10, <2>1, <2>3
        <4>3. QED  BY <1>12, <4>1, <4>2
      <3>2. Numbered(b, Place(n, N)) = b[Rank(i, S)]
        <4>1. \A k \in 1 .. Len(b) : Numbered(b, 2 * k) = b[k]  BY <1>12, NumberedIs
        <4>2. QED  BY <1>12, <3>1, <4>1
      <3>3. b[Rank(i, S)] = t[i]
        <4>1. Place(Rank(i, S), S) = i  BY <1>6, <2>3, PlaceIs
        <4>2. Rank(i, S) \in 1 .. Cardinality(S)  BY <1>12, <3>1
        <4>3. Bare(t)[Rank(i, S)] = t[i]  BY <1>1, <4>1, <4>2 DEF S
        <4>4. QED  BY <1>3, <3>1, <4>3 DEF b
      <3>4. QED  BY <1>11, <2>1, <2>2, <2>3, <3>2, <3>3
    <2>4. CASE i \notin S
      <3>1. Rank(i, S) \in Nat /\ Place(n, N) = 2 * Rank(i, S) + 1  BY <1>9, <1>10, <2>1, <2>4
      <3>2. Numbered(b, Place(n, N)) = Blank
        <4>1. \A k \in Nat : Numbered(b, 2 * k + 1) = Blank  BY <1>12, NumberedIs
        <4>2. QED  BY <3>1, <4>1
      <3>3. QED  BY <1>11, <2>1, <2>2, <2>4, <3>2
    <2>5. QED  BY <2>3, <2>4
  <1>18. Normalize(t) = [n \in 1 .. r |-> c[n]]
    <2>1. SubSeq(c, 1, r) \in Seq(Atoms) /\ Len(SubSeq(c, 1, r)) = r
          /\ \A i \in 1 .. r : SubSeq(c, 1, r)[i] = c[i]
      BY <1>5, <1>6, BeginningIs
    <2>2. SubSeq(c, 1, r) = [n \in 1 .. r |-> SubSeq(c, 1, r)[n]]  BY <2>1
    <2>3. QED  BY <1>5, <2>1, <2>2
  <1>19. Spelled(b, Gaps(t)) = [n \in 1 .. r |-> Numbered(b, Place(n, N))]
    BY <1>16 DEF Spelled, N
  <1>20. QED  BY <1>17, <1>18, <1>19 DEF b

\* Tidy texts with the same words, and blanks between the same of them, are normalized to
\* the same.
LEMMA WordsDecideSql ==
  ASSUME NEW Atoms, NEW c \in Calls, NEW d \in Calls, Plain(c), Plain(d),
         SqlArg(c) \in Seq(Atoms), SqlArg(d) \in Seq(Atoms), Tidy(SqlArg(c)), Tidy(SqlArg(d)),
         Statement[c] = Statement[d], Gaps(SqlArg(c)) = Gaps(SqlArg(d))
  PROVE  SourceSql[c] = SourceSql[d]
  <1> DEFINE A == Atoms \union Blanks
             t == SqlArg(c)
             u == SqlArg(d)
  <1>1. t \in Seq(A) /\ u \in Seq(A) /\ Blanks \subseteq A /\ Closed(t) /\ Closed(u)
        /\ Tidy(t) /\ Tidy(u) /\ Gaps(t) = Gaps(u)
    BY DEF Plain
  <1>2. Words(t) = Words(u)
    BY DEF Statement, Plain
  <1>3. SourceSql[c] = Normalize(t) /\ SourceSql[d] = Normalize(u)
    BY DEF SourceSql
  <1> HIDE DEF A, t, u
  <1>4. Stem(t) = Bare(Words(t)) /\ Stem(u) = Bare(Words(u))
    BY <1>1, BareOfWords DEF Stem
  <1>5. Normalize(t) = Spelled(Stem(t), Gaps(t)) /\ Normalize(u) = Spelled(Stem(u), Gaps(u))
    BY <1>1, SpelledIs
  <1>6. QED  BY <1>1, <1>2, <1>3, <1>4, <1>5

\* Who got an answer would hit now.
HitInv == last.outcome = "returned" => last.call \in Calls /\ Hit(last.call)

LEMMA HitAlways == CallsSpec => []HitInv
  <1>1. CallsInit => HitInv
    BY DEF CallsInit, HitInv, Nothing
  <1>2. HitInv /\ [CallsNext]_vars => HitInv'
    <2> SUFFICES ASSUME HitInv, [CallsNext]_vars PROVE HitInv'
      OBVIOUS
    <2>1. ASSUME NEW c \in Calls, CallHits(c) PROVE HitInv'
      BY <2>1 DEF CallHits, HitInv, Returned, Hit, Key, SourceVersion
    <2>2. ASSUME NEW c \in Calls, CallLoads(c) PROVE HitInv'
      <3>1. Key(c)' = Key(c) /\ SourceVersion(c)' = SourceVersion(c)
        BY <2>2 DEF CallLoads, Key, SourceVersion
      <3>2. Key(c) \in DOMAIN entries' /\ entries'[Key(c)].sql = SourceSql[c]
            /\ entries'[Key(c)].version = SourceVersion(c)
        BY <2>2 DEF CallLoads
      <3>3. Hit(c)'  BY <3>1, <3>2 DEF Hit
      <3>4. last'.call = c  BY <2>2 DEF CallLoads, Returned
      <3>5. QED  BY <3>3, <3>4 DEF HitInv, Hit, Key, SourceVersion
    <2>3. ASSUME NEW c \in Calls, CallRaises(c) PROVE HitInv'
      BY <2>3 DEF CallRaises, HitInv
    <2>4. ASSUME NEW t \in Tables, TableChanges(t) PROVE HitInv'
      BY <2>4 DEF TableChanges, HitInv, Nothing
    <2>5. CASE UNCHANGED vars
      BY <2>5 DEF vars, HitInv, Hit, Key, SourceVersion
    <2>6. QED  BY <2>1, <2>2, <2>3, <2>4, <2>5 DEF CallsNext
  <1>3. QED  BY <1>1, <1>2, PTL DEF CallsSpec

\* Who asks with the text and the columns of an entry's call hits it too.
LEMMA SameSqlHits ==
  ASSUME NEW c \in Calls, NEW d \in Calls, SourceSql[c] = SourceSql[d],
         Columns(c) = Columns(d), ByName(c), ByName(d), Hit(c)
  PROVE  Hit(d)
  <1>1. KeySql[c] = KeySql[d] /\ Table[c] = Table[d]  BY SqlDecidesTable
  <1>2. ReturnCols(c) = ReturnCols(d)  BY NamedColumns
  <1>3. Key(c) = Key(d)  BY <1>1, <1>2 DEF Key
  <1>4. SourceVersion(c) = SourceVersion(d)  BY <1>1 DEF SourceVersion
  <1>5. QED  BY <1>3, <1>4 DEF Hit

\* A statement that was answered is not loaded again in another spelling, for texts of any
\* length: line breaks, runs of blanks, blanks around it and a semicolon right behind it make
\* no difference (nfs_cache.py:811-812, 956-1005).  Blanks have to stand between the same
\* words: with one between others it is another text, and is loaded again.
THEOREM SpellingsAreShared ==
  ASSUME NEW Atoms, \A c \in Calls : Plain(c) /\ SqlArg(c) \in Seq(Atoms),
         \A c, d \in Calls : Statement[c] = Statement[d] => Gaps(SqlArg(c)) = Gaps(SqlArg(d))
  PROVE  CallsSpec => []SpellingsShare
  <1>1. HitInv => SpellingsShare
    <2> SUFFICES ASSUME HitInv, last.outcome = "returned", NEW d \in Calls,
                        Statement[last.call] = Statement[d],
                        Tidy(SqlArg(last.call)), Tidy(SqlArg(d)),
                        Columns(last.call) = Columns(d), ByName(last.call), ByName(d)
                 PROVE  Hit(d)
      BY DEF SpellingsShare
    <2>1. last.call \in Calls /\ Hit(last.call)
      BY DEF HitInv
    <2>2. SourceSql[last.call] = SourceSql[d]
      BY <2>1, WordsDecideSql
    <2>3. QED  BY <2>1, <2>2, SameSqlHits
  <1>2. QED  BY <1>1, HitAlways, PTL

-----------------------------------------------------------------------------
(* Calls that cannot be mistaken.                                            *)

\* No literal has blanks.
Unbroken(text) == \A i \in DOMAIN text : InLiteral(text, i) => text[i] \notin Blanks

\* Texts without blanks in literals that are normalized to the same are the same to Oracle.
LEMMA SqlDecidesStatement ==
  ASSUME NEW Atoms, NEW c \in Calls, NEW d \in Calls, Plain(c), Plain(d),
         SqlArg(c) \in Seq(Atoms), SqlArg(d) \in Seq(Atoms),
         Unbroken(SqlArg(c)), Unbroken(SqlArg(d)), SourceSql[c] = SourceSql[d]
  PROVE  Statement[c] = Statement[d]
  <1> DEFINE A == Atoms \union Blanks
  <1>1. ASSUME NEW e \in Calls, Plain(e), SqlArg(e) \in Seq(Atoms), Unbroken(SqlArg(e))
        PROVE  Statement[e] = RStrip(Bare(SourceSql[e]))
    <2> DEFINE t == SqlArg(e)
    <2>1. t \in Seq(A) /\ Blanks \subseteq A /\ SourceSql[e] = Normalize(t) /\ Statement[e] = Words(t)
      BY <1>1 DEF SourceSql, Statement, Plain
    <2>2. Solid(t) \union {i \in DOMAIN t : InLiteral(t, i)} = Solid(t)
      BY <1>1 DEF Unbroken, Solid
    <2> HIDE DEF t, A
    <2>3. Words(t) = RStrip(Bare(t))
      BY <2>2 DEF Words, Bare
    <2>4. QED  BY <2>1, <2>3, BareOfNormalized
  <1>2. QED  BY <1>1

EveryAnswerIsRight ==
  last.outcome = "returned" /\ ~collide /\ Versioned(last.call) => last.content = Execute(last.call)

\* What AnswersAreRight asks of a call's text is met by every call that names its columns
\* and has no blanks in literals: the texts of different statements are normalized to
\* different ones, so each gets what its own returns now, whatever else is called and cached
\* (nfs_cache.py:103-115, 810-812, 881-913).
THEOREM PlainCallsAreAnswered ==
  ASSUME NEW Atoms,
         \A c \in Calls : /\ Plain(c) /\ SqlArg(c) \in Seq(Atoms)
                          /\ Unbroken(SqlArg(c)) /\ ByName(c)
  PROVE  CallsSpec => []EveryAnswerIsRight
  <1>1. CallsInv /\ HitInv => EveryAnswerIsRight
    <2> SUFFICES ASSUME CallsInv, HitInv, last.outcome = "returned", ~collide, Versioned(last.call)
                 PROVE  last.content = Execute(last.call)
      BY DEF EveryAnswerIsRight
    <2>1. last.call \in Calls
      BY DEF HitInv
    <2>2. Unmistakable(last.call)
      BY <2>1, SqlDecidesStatement DEF Unmistakable
    <2>3. QED  BY <2>2 DEF CallsInv, AnswersAreRight
  <1>2. QED  BY <1>1, CallsInvAlways, HitAlways, PTL

=============================================================================
