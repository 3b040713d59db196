--------------------------- MODULE LogConfigProofs ---------------------------
(***************************************************************************)
(* Why loggers read what they were configured with: theorems about lists   *)
(* of any length, any number of levels, types, loggers and files.  What    *)
(* set, setFromBase, build() and the registered loggers do is a fold over  *)
(* a list; each is taken as the sequence of its steps (see Induct), and    *)
(* what it leaves is proved by induction over the prefixes of the list.    *)
(***************************************************************************)
EXTENDS LogConfig, Induct, SequenceTheorems

-----------------------------------------------------------------------------
(* Lists, and what setting one entry does.                                 *)

\* A list of a Configurations object: no two entries for a level and a type.
Lists == {c \in Seq(Entry) : \A i, j \in DOMAIN c :
            c[i].level = c[j].level /\ c[i].type = c[j].type => i = j}

LEMMA ListTypes ==
  /\ Lists \subseteq Seq(Entry) /\ <<>> \in Lists
  /\ \A e \in Entry : e.level \in AllLevels /\ e.type \in Types
                      /\ e = Configuration(e.level, e.type, e.value)
BY DEF Lists, Entry, Configuration, Types

\* The entry of a level and a type is found where it is.
LEMMA Found ==
  ASSUME NEW c \in Lists, NEW l, NEW t
  PROVE  /\ hasConfiguration(c, l, t) => /\ Index(c, l, t) \in DOMAIN c
                                         /\ c[Index(c, l, t)].level = l /\ c[Index(c, l, t)].type = t
         /\ \A i \in DOMAIN c : c[i].level = l /\ c[i].type = t =>
              hasConfiguration(c, l, t) /\ Index(c, l, t) = i /\ Value(c, l, t) = c[i].value
<1>1. At(c, l, t) # {} => Index(c, l, t) \in At(c, l, t)
  BY DEF Index
<1>2. \A i, j \in At(c, l, t) : i = j
  BY DEF At, Lists
<1> QED  BY <1>1, <1>2 DEF At, hasConfiguration, Value

\* The entries of c are still where they were, perhaps with other values.
Keeps(c, d) ==
  Len(c) <= Len(d) /\ \A i \in DOMAIN c : d[i].level = c[i].level /\ d[i].type = c[i].type

LEMMA KeepsAll ==
  /\ \A c \in Lists : Keeps(c, c)
  /\ \A c, d, e \in Lists : Keeps(c, d) /\ Keeps(d, e) => Keeps(c, e)
<1>1. \A c \in Lists : DOMAIN c = 1 .. Len(c) /\ Len(c) \in Nat
  BY ListTypes
<1> QED  BY <1>1 DEF Keeps

LEMMA KeepsIndex ==
  ASSUME NEW c \in Lists, NEW d \in Lists, Keeps(c, d), NEW l, NEW t, hasConfiguration(c, l, t)
  PROVE  hasConfiguration(d, l, t) /\ Index(d, l, t) = Index(c, l, t)
<1>1. PICK i \in DOMAIN c : i = Index(c, l, t) /\ c[i].level = l /\ c[i].type = t
  BY Found
<1>2. i \in DOMAIN d
  <2>1. DOMAIN c = 1 .. Len(c) /\ DOMAIN d = 1 .. Len(d) /\ Len(c) \in Nat /\ Len(d) \in Nat
    BY ListTypes
  <2> QED  BY <2>1 DEF Keeps
<1> QED  BY <1>1, <1>2, Found DEF Keeps

\* What d has for a level and a type is what c has.
Same(c, d, k, s) ==
  /\ hasConfiguration(d, k, s) <=> hasConfiguration(c, k, s)
  /\ hasConfiguration(c, k, s) => Value(d, k, s) = Value(c, k, s)

\* d is c with the value v for the levels A and the type t.
Sets(c, d, A, t, v) ==
  /\ d \in Lists /\ Keeps(c, d)
  /\ \A k \in A : hasConfiguration(d, k, t) /\ Value(d, k, t) = v
  /\ \A k \in AllLevels, s \in Types : ~(k \in A /\ s = t) => Same(c, d, k, s)

LEMMA SetsNone == \A c \in Lists : \A t, v : Sets(c, c, {}, t, v)
BY KeepsAll DEF Sets, Same

LEMMA SetsThen ==
  ASSUME NEW c \in Lists, NEW d, NEW e, NEW A \in SUBSET AllLevels, NEW B \in SUBSET AllLevels,
         NEW t \in Types, NEW v, Sets(c, d, A, t, v), Sets(d, e, B, t, v)
  PROVE  Sets(c, e, A \cup B, t, v)
BY KeepsAll DEF Sets, Same

LEMMA setOneSets ==
  ASSUME NEW c \in Lists, NEW l \in AllLevels, NEW t \in Types, NEW v,
         Configuration(l, t, v) \in Entry, NEW d, d = setOne(c, l, t, v)
  PROVE  /\ Sets(c, d, {l}, t, v)
         /\ ~hasConfiguration(c, l, t) => Len(d) = Len(c) + 1 /\ Index(d, l, t) = Len(d)
<1>1. PICK n \in Nat : n = Len(c) /\ DOMAIN c = 1 .. n /\ c \in Seq(Entry)
  BY ListTypes
<1>2. PICK e \in Entry : e = Configuration(l, t, v) /\ e.level = l /\ e.type = t /\ e.value = v
  BY DEF Configuration
<1>3. CASE hasConfiguration(c, l, t)
  <2>1. PICK i \in DOMAIN c : i = Index(c, l, t) /\ c[i].level = l /\ c[i].type = t
    BY <1>3, Found
  <2>2. d = [c EXCEPT ![i] = e]
    <3>1. c[i] \in Entry
      BY <1>1
    <3>2. [c[i] EXCEPT !.value = v] = e
      BY <1>2, <2>1, <3>1, ListTypes DEF Configuration
    <3> QED  BY <1>3, <2>1, <3>2 DEF setOne
  <2>3. d \in Seq(Entry) /\ DOMAIN d = DOMAIN c /\ Len(d) = n /\ d[i] = e
        /\ \A j \in DOMAIN c \ {i} : d[j] = c[j]
    BY <1>1, <2>2
  <2>4. \A j \in DOMAIN c : d[j].level = c[j].level /\ d[j].type = c[j].type
    BY <1>2, <2>1, <2>3
  <2>5. d \in Lists
    BY <2>3, <2>4 DEF Lists
  <2>6. Keeps(c, d)
    BY <1>1, <2>3, <2>4 DEF Keeps
  <2>7. hasConfiguration(d, l, t) /\ Value(d, l, t) = v
    BY <1>2, <2>3, <2>5, Found
  <2>8. ASSUME NEW k \in AllLevels, NEW s \in Types, ~(k \in {l} /\ s = t)
        PROVE  Same(c, d, k, s)
    <3>1. CASE hasConfiguration(c, k, s)
      <4>1. PICK j \in DOMAIN c : c[j].level = k /\ c[j].type = s /\ Value(c, k, s) = c[j].value
        BY <3>1, Found DEF Value
      <4>2. j # i /\ d[j] = c[j] /\ j \in DOMAIN d
        BY <2>1, <2>3, <2>8, <4>1
      <4> QED  BY <2>5, <3>1, <4>1, <4>2, Found DEF Same
    <3>2. CASE ~hasConfiguration(c, k, s)
      <4>1. ASSUME hasConfiguration(d, k, s)  PROVE FALSE
        <5>1. PICK j \in DOMAIN d : d[j].level = k /\ d[j].type = s
          BY <2>5, <4>1, Found
        <5>2. j \in DOMAIN c /\ c[j].level = k /\ c[j].type = s
          BY <2>3, <2>4, <5>1
        <5> QED  BY <3>2, <5>2, Found
      <4> QED  BY <3>2, <4>1 DEF Same
    <3> QED  BY <3>1, <3>2
  <2> QED  BY <1>3, <2>5, <2>6, <2>7, <2>8 DEF Sets
<1>4. CASE ~hasConfiguration(c, l, t)
  <2>1. d = Append(c, e)
    BY <1>2, <1>4 DEF setOne
  <2>2. d \in Seq(Entry) /\ DOMAIN d = 1 .. n + 1 /\ Len(d) = n + 1 /\ d[n + 1] = e
        /\ \A j \in DOMAIN c : d[j] = c[j]
    BY <1>1, <2>1
  <2>3. \A j \in DOMAIN c : ~(c[j].level = l /\ c[j].type = t)
    BY <1>4, Found
  <2>4. d \in Lists
    <3>1. \A j \in DOMAIN d : j = n + 1 \/ j \in DOMAIN c
      BY <1>1, <2>2
    <3> QED  BY <1>2, <2>2, <2>3, <3>1 DEF Lists
  <2>5. Keeps(c, d)
    BY <1>1, <2>2 DEF Keeps
  <2>6. hasConfiguration(d, l, t) /\ Value(d, l, t) = v /\ Index(d, l, t) = n + 1
    BY <1>2, <2>2, <2>4, Found
  <2>7. ASSUME NEW k \in AllLevels, NEW s \in Types, ~(k \in {l} /\ s = t)
        PROVE  Same(c, d, k, s)
    <3>1. CASE hasConfiguration(c, k, s)
      <4>1. PICK j \in DOMAIN c : c[j].level = k /\ c[j].type = s /\ Value(c, k, s) = c[j].value
        BY <3>1, Found DEF Value
      <4>2. d[j] = c[j] /\ j \in DOMAIN d
        BY <1>1, <2>2, <4>1
      <4> QED  BY <2>4, <3>1, <4>1, <4>2, Found DEF Same
    <3>2. CASE ~hasConfiguration(c, k, s)
      <4>1. ASSUME hasConfiguration(d, k, s)  PROVE FALSE
        <5>1. PICK j \in DOMAIN d : d[j].level = k /\ d[j].type = s
          BY <2>4, <4>1, Found
        <5>2. j # n + 1
          BY <1>2, <2>2, <2>7, <5>1
        <5>3. j \in DOMAIN c
          BY <1>1, <2>2, <5>1, <5>2
        <5> QED  BY <2>2, <3>2, <5>1, <5>3, Found
      <4> QED  BY <3>2, <4>1 DEF Same
    <3> QED  BY <3>1, <3>2
  <2> QED  BY <1>1, <2>2, <2>4, <2>5, <2>6, <2>7 DEF Sets
<1> QED  BY <1>3, <1>4

-----------------------------------------------------------------------------
(* The cascades: what setting Global does.                                 *)

LEMMA LevelFacts ==
  /\ LevelSeq \in Seq(Levels) /\ Len(LevelSeq) \in Nat \ {0}
  /\ \A j \in 1 .. Len(LevelSeq) : LevelSeq[j] \in Levels
  /\ \A l \in Levels : \E j \in 1 .. Len(LevelSeq) : l = LevelSeq[j]
  /\ \A i, j \in 1 .. Len(LevelSeq) : LevelSeq[i] = LevelSeq[j] => i = j
  /\ Levels \subseteq AllLevels /\ Global \in AllLevels /\ Global \notin Levels
<1>1. LevelSeq \in Seq(Levels) /\ IsInjective(LevelSeq) /\ LevelSeq # <<>> /\ Global \notin Levels
  BY LogConfigAssumption
<1>2. Levels = {LevelSeq[j] : j \in DOMAIN LevelSeq}
  BY DEF Levels, Range
<1>3. \A i, j \in DOMAIN LevelSeq : LevelSeq[i] = LevelSeq[j] => i = j
  BY <1>1 DEF IsInjective
<1>4. DOMAIN LevelSeq = 1 .. Len(LevelSeq) /\ Len(LevelSeq) \in Nat \ {0}
  BY <1>1
<1> QED  BY <1>1, <1>2, <1>3, <1>4 DEF AllLevels

\* The value v may be set for the type t.
Settable(t, v) == t \in Types /\ \A l \in AllLevels : Configuration(l, t, v) \in Entry

LEMMA SettableEntry == \A e \in Entry : Settable(e.type, e.value)
BY DEF Settable, Entry, Configuration, Types

LEMMA unsafeSetGloballyFolds ==
  ASSUME NEW c \in Lists, NEW t, NEW v, Settable(t, v)
  PROVE  \E F \in [0 .. Len(LevelSeq) -> Lists] :
           /\ F[0] = c /\ F[Len(LevelSeq)] = unsafeSetGlobally(c, t, v)
           /\ \A k \in 1 .. Len(LevelSeq) : F[k] = setOne(F[k - 1], LevelSeq[k], t, v)
<1> DEFINE q == LevelSeq
           g == [p \in Lists \X Levels |-> setOne(p[1], p[2], t, v)]
           Is(h) == h = [T \in SUBSET DOMAIN q |->
                           IF T = {} THEN c ELSE setOne(h[T \ {Max(T)}], q[Max(T)], t, v)]
<1>1. g \in [Lists \X Levels -> Lists] /\ q \in Seq(Levels)
  <2>1. \A d \in Lists, l \in Levels : setOne(d, l, t, v) \in Lists
    BY LevelFacts, setOneSets DEF Sets, Settable
  <2> QED  BY <2>1, LevelFacts
<1>2. \A T \in SUBSET DOMAIN q : T # {} => q[Max(T)] \in Levels
  BY LevelFacts, MaxIn
<1>3. \E h : Is(h)
  <2>1. PICK h \in [SUBSET DOMAIN q -> Lists] : Folding(h, g, c, q)
    BY <1>1, FoldingExists
  <2>2. \A T \in SUBSET DOMAIN q : T # {} =>
          g[<<h[T \ {Max(T)}], q[Max(T)]>>] = setOne(h[T \ {Max(T)}], q[Max(T)], t, v)
    BY <1>2
  <2> HIDE DEF g
  <2>3. Is(h)
    BY <2>1, <2>2 DEF Folding
  <2> QED  BY <2>3
<1>4. PICK h : h = CHOOSE f : Is(f)
  OBVIOUS
<1>5. Is(h)
  <2> HIDE DEF Is
  <2> QED  BY <1>3, <1>4
<1>6. Iterates(h, Lists, g, c, q)
  <2>1. h[{}] = c
    BY <1>5
  <2>2. ASSUME NEW T \in SUBSET DOMAIN q, T # {}, h[T \ {Max(T)}] \in Lists
        PROVE  h[T] = g[<<h[T \ {Max(T)}], q[Max(T)]>>]
    <3>1. h[T] = setOne(h[T \ {Max(T)}], q[Max(T)], t, v)
      BY <1>5, <2>2
    <3> QED  BY <1>2, <2>2, <3>1
  <2> HIDE DEF g
  <2> QED  BY <2>1, <2>2 DEF Iterates
<1>7. unsafeSetGlobally(c, t, v) = h[DOMAIN q]
  BY <1>4 DEF unsafeSetGlobally, FoldLeft, MapThenFoldSet
<1>8. PICK F : /\ Steps(F, Lists, g, c, q) /\ h[DOMAIN q] = F[Len(q)]
               /\ \A k \in 1 .. Len(q) : F[k - 1] \in Lists /\ q[k] \in Levels
  <2> HIDE DEF g
  <2> QED  BY <1>1, <1>6, FoldSteps
<1>9. \A k \in 1 .. Len(q) : F[k] = setOne(F[k - 1], q[k], t, v)
  BY <1>8 DEF Steps
<1> QED  BY <1>7, <1>8, <1>9 DEF Steps

\* c has an entry of type t for every level, Global's first and then the levels in
\* their order; c has none of type t.
Whole(c, t) ==
  /\ \A l \in AllLevels : hasConfiguration(c, l, t)
  /\ \A l \in Levels : Index(c, Global, t) < Index(c, l, t)
  /\ \A i, j \in DOMAIN LevelSeq : i < j => Index(c, LevelSeq[i], t) < Index(c, LevelSeq[j], t)

Absent(c, t) == \A l \in AllLevels : ~hasConfiguration(c, l, t)

LEMMA KeepsWhole ==
  ASSUME NEW c \in Lists, NEW d \in Lists, Keeps(c, d), NEW t, Whole(c, t)
  PROVE  Whole(d, t)
<1>1. \A l \in AllLevels : hasConfiguration(d, l, t) /\ Index(d, l, t) = Index(c, l, t)
  BY KeepsIndex DEF Whole
<1>2. \A i \in DOMAIN LevelSeq : LevelSeq[i] \in AllLevels
  BY LevelFacts
<1> QED  BY <1>1, <1>2, LevelFacts DEF Whole

\* The levels so far.
FirstLevels(k) == {LevelSeq[j] : j \in 1 .. k}

LEMMA FirstLevelsGrow ==
  /\ FirstLevels(0) = {} /\ FirstLevels(Len(LevelSeq)) = Levels
  /\ \A k \in 1 .. Len(LevelSeq) :
       /\ FirstLevels(k) = FirstLevels(k - 1) \cup {LevelSeq[k]}
       /\ FirstLevels(k - 1) \in SUBSET AllLevels /\ LevelSeq[k] \in AllLevels
       /\ LevelSeq[k] \notin FirstLevels(k - 1)
<1>1. FirstLevels(0) = {}
  BY DEF FirstLevels
<1>2. FirstLevels(Len(LevelSeq)) = Levels
  BY LevelFacts DEF FirstLevels
<1>3. ASSUME NEW k \in 1 .. Len(LevelSeq)
      PROVE  /\ FirstLevels(k) = FirstLevels(k - 1) \cup {LevelSeq[k]}
             /\ FirstLevels(k - 1) \in SUBSET AllLevels /\ LevelSeq[k] \in AllLevels
             /\ LevelSeq[k] \notin FirstLevels(k - 1)
  <2>1. Len(LevelSeq) \in Nat /\ k \in 1 .. Len(LevelSeq)
    BY LevelFacts
  <2>2. \A j : j \in 1 .. k <=> j \in 1 .. k - 1 \/ j = k
    BY <2>1
  <2>3. \A j \in 1 .. k - 1 : j \in 1 .. Len(LevelSeq) /\ j # k
    BY <2>1
  <2>4. \A l : l \in FirstLevels(k) <=> l \in FirstLevels(k - 1) \/ l = LevelSeq[k]
    BY <2>2 DEF FirstLevels
  <2>5. FirstLevels(k) = FirstLevels(k - 1) \cup {LevelSeq[k]}
    BY <2>4
  <2>6. FirstLevels(k - 1) \in SUBSET AllLevels /\ LevelSeq[k] \notin FirstLevels(k - 1)
    BY <2>1, <2>3, LevelFacts DEF FirstLevels
  <2> QED  BY <2>1, <2>5, <2>6, LevelFacts
<1> QED  BY <1>1, <1>2, <1>3

\* The levels of type t are appended in their order.
Appended(d, k, n, t) ==
  /\ Len(d) = n + k
  /\ \A j \in 1 .. k : hasConfiguration(d, LevelSeq[j], t) /\ Index(d, LevelSeq[j], t) = n + j

LEMMA unsafeSetGloballySets ==
  ASSUME NEW c \in Lists, NEW t, NEW v, Settable(t, v), NEW d, d = unsafeSetGlobally(c, t, v)
  PROVE  /\ Sets(c, d, Levels, t, v)
         /\ hasConfiguration(c, Global, t) /\ (\A l \in Levels : ~hasConfiguration(c, l, t)) =>
              Whole(d, t)
<1>1. PICK n \in Nat : n = Len(LevelSeq)
  BY LevelFacts
<1>2. PICK F \in [0 .. n -> Lists] :
        /\ F[0] = c /\ F[n] = d /\ \A k \in 1 .. n : F[k] = setOne(F[k - 1], LevelSeq[k], t, v)
  BY <1>1, unsafeSetGloballyFolds
<1>3. PICK m \in Nat : m = Len(c)
  BY ListTypes
<1>4. PICK b : b <=> (\A l \in Levels : ~hasConfiguration(c, l, t))
  OBVIOUS
<1> DEFINE P == {k \in 0 .. n : Sets(c, F[k], FirstLevels(k), t, v)
                                /\ (b => Appended(F[k], k, m, t))}
<1>5. 0 \in P
  <2>1. Sets(c, c, {}, t, v)
    BY SetsNone
  <2>2. Appended(c, 0, m, t)
    BY <1>3 DEF Appended
  <2>3. F[0] = c /\ FirstLevels(0) = {} /\ 0 \in 0 .. n
    BY <1>2, FirstLevelsGrow
  <2>4. Sets(c, F[0], FirstLevels(0), t, v)
    BY <2>1, <2>3
  <2>5. Appended(F[0], 0, m, t)
    BY <2>2, <2>3
  <2> QED  BY <2>3, <2>4, <2>5
<1>6. ASSUME NEW k \in 1 .. n, k - 1 \in P  PROVE k \in P
  <2>1. PICK e \in Lists : e = F[k - 1]
    BY <1>2
  <2>2. PICK f \in Lists : f = F[k]
    BY <1>2
  <2>3. PICK l \in AllLevels : l = LevelSeq[k]
    BY <1>1, FirstLevelsGrow
  <2>4. f = setOne(e, l, t, v)
    BY <1>2, <2>1, <2>2, <2>3
  <2>5. Sets(c, e, FirstLevels(k - 1), t, v) /\ (b => Appended(e, k - 1, m, t))
    BY <1>6, <2>1
  <2>6. Sets(e, f, {l}, t, v)
        /\ (~hasConfiguration(e, l, t) => Len(f) = Len(e) + 1 /\ Index(f, l, t) = Len(f))
    BY <2>4, setOneSets DEF Settable
  <2>7. Sets(c, f, FirstLevels(k), t, v)
    <3>1. FirstLevels(k) = FirstLevels(k - 1) \cup {l} /\ FirstLevels(k - 1) \in SUBSET AllLevels
      BY <1>1, <2>3, FirstLevelsGrow
    <3> QED  BY <2>5, <2>6, <3>1, SetsThen DEF Settable
  <2>8. ASSUME b  PROVE Appended(f, k, m, t)
    <3>1. l \in Levels /\ l \notin FirstLevels(k - 1)
      BY <1>1, <2>3, FirstLevelsGrow, LevelFacts
    <3>2. ~hasConfiguration(e, l, t)
      BY <1>4, <2>5, <2>8, <3>1 DEF Sets, Same, Settable
    <3>3. Len(e) = m + (k - 1) /\ Len(f) = m + k /\ Index(f, l, t) = m + k
      BY <1>3, <2>5, <2>6, <2>8, <3>2 DEF Appended
    <3>4. \A j \in 1 .. k - 1 : hasConfiguration(f, LevelSeq[j], t) /\ Index(f, LevelSeq[j], t) = m + j
      BY <2>5, <2>6, <2>8, KeepsIndex DEF Appended, Sets
    <3>5. hasConfiguration(f, l, t)
      BY <2>6 DEF Sets
    <3>6. \A j \in 1 .. k : j \in 1 .. k - 1 \/ j = k
      BY <1>1
    <3> QED  BY <2>3, <3>3, <3>4, <3>5, <3>6 DEF Appended
  <2> QED  BY <2>2, <2>7, <2>8
<1>7. n \in P
  <2>1. PICK Q : Q = P
    OBVIOUS
  <2>2. 0 \in Q /\ \A k \in 1 .. n : k - 1 \in Q => k \in Q
    <3> HIDE DEF P
    <3> QED  BY <1>5, <1>6, <2>1
  <2>3. \A k \in 0 .. n : k \in Q
    BY <2>2, UpTo
  <2>4. n \in Q
    BY <2>3
  <2> QED  BY <2>1, <2>4
<1>8. Sets(c, d, Levels, t, v) /\ (b => Appended(d, n, m, t))
  BY <1>1, <1>2, <1>7, FirstLevelsGrow
<1>9. ASSUME b, hasConfiguration(c, Global, t)  PROVE Whole(d, t)
  <2>1. hasConfiguration(d, Global, t) /\ Index(d, Global, t) \in 1 .. m
    <3>1. Index(c, Global, t) \in DOMAIN c /\ DOMAIN c = 1 .. m
      BY <1>3, <1>9, Found, ListTypes
    <3> QED  BY <1>8, <1>9, <3>1, KeepsIndex DEF Sets
  <2>2. \A j \in 1 .. n : hasConfiguration(d, LevelSeq[j], t) /\ Index(d, LevelSeq[j], t) = m + j
    BY <1>8, <1>9 DEF Appended
  <2>3. DOMAIN LevelSeq = 1 .. n /\ \A l \in Levels : \E j \in 1 .. n : l = LevelSeq[j]
    BY <1>1, LevelFacts
  <2>4. \A l \in AllLevels : hasConfiguration(d, l, t)
    BY <2>1, <2>2, <2>3 DEF AllLevels
  <2>5. \A l \in Levels : Index(d, Global, t) < Index(d, l, t)
    BY <2>1, <2>2, <2>3
  <2>6. \A i, j \in DOMAIN LevelSeq : i < j => Index(d, LevelSeq[i], t) < Index(d, LevelSeq[j], t)
    BY <2>2, <2>3
  <2> QED  BY <2>4, <2>5, <2>6 DEF Whole
<1> QED  BY <1>4, <1>8, <1>9

\* Whom an entry for level l affects.
Affected(l) == IF l = Global THEN AllLevels ELSE {l}

LEMMA setSets ==
  ASSUME NEW c \in Lists, NEW l \in AllLevels, NEW t, NEW v, Settable(t, v),
         NEW d, d = set(c, l, t, v) \/ d = unsafeSet(c, l, t, v)
  PROVE  /\ Sets(c, d, Affected(l), t, v)
         /\ l = Global /\ (Absent(c, t) \/ Whole(c, t)) => Whole(d, t)
<1>1. PICK c1 : c1 = setOne(c, l, t, v)
  OBVIOUS
<1>2. Sets(c, c1, {l}, t, v) /\ c1 \in Lists /\ t \in Types
  BY <1>1, setOneSets DEF Settable, Sets
<1>3. CASE l # Global
  <2>1. d = c1
    BY <1>1, <1>3 DEF set, unsafeSet
  <2> QED  BY <1>2, <1>3, <2>1 DEF Affected
<1>4. CASE l = Global
  <2>1. PICK c2 : c2 = unsafeSetGlobally(c1, t, v)
    OBVIOUS
  <2>2. Sets(c1, c2, Levels, t, v) /\ c2 \in Lists
    BY <1>2, <2>1, unsafeSetGloballySets DEF Sets
  <2>3. PICK c3 : c3 = unsafeSetGlobally(c2, t, v)
    OBVIOUS
  <2>4. Sets(c2, c3, Levels, t, v) /\ c3 \in Lists
    BY <2>2, <2>3, unsafeSetGloballySets DEF Sets
  <2>5. Levels \in SUBSET AllLevels /\ {Global} \cup Levels = AllLevels /\ AllLevels \cup Levels = AllLevels
    BY LevelFacts DEF AllLevels
  <2>6. Sets(c, c2, AllLevels, t, v)
    BY <1>2, <1>4, <2>2, <2>5, SetsThen
  <2>7. Sets(c, c3, AllLevels, t, v)
    BY <1>2, <2>4, <2>5, <2>6, SetsThen
  <2>8. d = c2 \/ d = c3
    BY <1>1, <1>4, <2>1, <2>3 DEF set, unsafeSet
  <2>9. ASSUME Absent(c, t)  PROVE Whole(c2, t)
    <3>1. hasConfiguration(c1, Global, t) /\ \A k \in Levels : ~hasConfiguration(c1, k, t)
      BY <1>2, <1>4, <2>9, LevelFacts DEF Sets, Same, Absent
    <3> QED  BY <1>2, <2>1, <3>1, unsafeSetGloballySets
  <2>10. ASSUME Absent(c, t) \/ Whole(c, t)  PROVE Whole(c2, t) /\ Whole(c3, t)
    <3>1. Whole(c2, t)
      BY <2>2, <2>6, <2>9, <2>10, KeepsWhole DEF Sets
    <3> QED  BY <2>2, <2>4, <3>1, KeepsWhole DEF Sets
  <2> QED  BY <1>4, <2>6, <2>7, <2>8, <2>10 DEF Affected
<1> QED  BY <1>3, <1>4

-----------------------------------------------------------------------------
(* The operations on lists.                                                *)

\* setGlobally, level by level.
LEMMA setGloballyFolds ==
  ASSUME NEW c \in Lists, NEW t, NEW v, Settable(t, v), NEW b
  PROVE  \E F \in [0 .. Len(LevelSeq) -> Lists] :
           /\ F[0] = (IF b THEN set(c, Global, t, v) ELSE c) /\ F[Len(LevelSeq)] = setGlobally(c, t, v, b)
           /\ \A k \in 1 .. Len(LevelSeq) : F[k] = set(F[k - 1], LevelSeq[k], t, v)
<1> DEFINE q == LevelSeq
           base == IF b THEN set(c, Global, t, v) ELSE c
           g == [p \in Lists \X Levels |-> set(p[1], p[2], t, v)]
           Is(h) == h = [T \in SUBSET DOMAIN q |->
                           IF T = {} THEN base ELSE set(h[T \ {Max(T)}], q[Max(T)], t, v)]
<1>1. q \in Seq(Levels) /\ base \in Lists
  BY LevelFacts, setSets DEF Sets
<1>2. g \in [Lists \X Levels -> Lists]
  <2>1. \A d \in Lists, x \in Levels : set(d, x, t, v) \in Lists
    BY LevelFacts, setSets DEF Sets
  <2> QED  BY <2>1
<1>3. PICK f \in [SUBSET DOMAIN q -> Lists] : Folding(f, g, base, q)
  <2> HIDE DEF g, q, base
  <2> QED  BY <1>1, <1>2, FoldingExists
<1>4. \A T \in SUBSET DOMAIN q : T # {} => q[Max(T)] \in Levels /\ T \ {Max(T)} \in SUBSET DOMAIN q
  <2> HIDE DEF q
  <2> QED  BY <1>1, MaxIn
<1>5. Is(f)
  <2>1. \A T \in SUBSET DOMAIN q : T # {} =>
          g[<<f[T \ {Max(T)}], q[Max(T)]>>] = set(f[T \ {Max(T)}], q[Max(T)], t, v)
    BY <1>4
  <2> HIDE DEF g, q, base
  <2> QED  BY <1>3, <2>1 DEF Folding
<1>6. PICK h : h = CHOOSE e : Is(e)
  OBVIOUS
<1>7. Is(h)
  <2> HIDE DEF Is
  <2> QED  BY <1>5, <1>6
<1>8. Iterates(h, Lists, g, base, q)
  <2>1. \A T \in SUBSET DOMAIN q : T # {} /\ h[T \ {Max(T)}] \in Lists =>
          g[<<h[T \ {Max(T)}], q[Max(T)]>>] = set(h[T \ {Max(T)}], q[Max(T)], t, v)
    BY <1>4
  <2> HIDE DEF g, q, base
  <2> QED  BY <1>7, <2>1 DEF Iterates
<1>9. setGlobally(c, t, v, b) = h[DOMAIN q]
  BY <1>6 DEF setGlobally, FoldLeft, MapThenFoldSet
<1>10. PICK F : /\ Steps(F, Lists, g, base, q) /\ h[DOMAIN q] = F[Len(q)]
                /\ \A k \in 1 .. Len(q) : F[k - 1] \in Lists /\ q[k] \in Levels
  <2> HIDE DEF g, q, base
  <2> QED  BY <1>1, <1>2, <1>8, FoldSteps, ZenonT(60)
<1>11. \A k \in 1 .. Len(q) : F[k] = set(F[k - 1], q[k], t, v)
  BY <1>10 DEF Steps
<1> HIDE DEF g, Is
<1> QED  BY <1>9, <1>10, <1>11 DEF Steps

LEMMA setGloballySets ==
  ASSUME NEW c \in Lists, NEW t, NEW v, Settable(t, v), NEW b \in BOOLEAN,
         NEW d, d = setGlobally(c, t, v, b)
  PROVE  /\ Sets(c, d, IF b THEN AllLevels ELSE Levels, t, v)
         /\ b /\ (Absent(c, t) \/ Whole(c, t)) => Whole(d, t)
<1>1. PICK n \in Nat : n = Len(LevelSeq)
  BY LevelFacts
<1>2. PICK F \in [0 .. n -> Lists] :
        /\ F[0] = (IF b THEN set(c, Global, t, v) ELSE c) /\ F[n] = d
        /\ \A k \in 1 .. n : F[k] = set(F[k - 1], LevelSeq[k], t, v)
  BY <1>1, setGloballyFolds
<1>3. PICK A : A = IF b THEN AllLevels ELSE {}
  OBVIOUS
<1> DEFINE P == {k \in 0 .. n : /\ Sets(c, F[k], A \cup FirstLevels(k), t, v)
                                /\ b /\ (Absent(c, t) \/ Whole(c, t)) => Whole(F[k], t)}
<1>4. 0 \in P
  <2>1. Global \in AllLevels /\ FirstLevels(0) = {}
    BY LevelFacts, FirstLevelsGrow
  <2>2. CASE b
    <3>1. F[0] = set(c, Global, t, v) /\ A \cup FirstLevels(0) = Affected(Global)
      BY <1>2, <1>3, <2>1, <2>2 DEF Affected
    <3>2. PICK f : f = set(c, Global, t, v)
      OBVIOUS
    <3>3. Sets(c, f, Affected(Global), t, v) /\ (Absent(c, t) \/ Whole(c, t) => Whole(f, t))
      BY <2>1, <3>2, setSets
    <3>4. Sets(c, F[0], A \cup FirstLevels(0), t, v)
      BY <3>1, <3>2, <3>3
    <3>5. Absent(c, t) \/ Whole(c, t) => Whole(F[0], t)
      BY <3>1, <3>2, <3>3
    <3> QED  BY <3>4, <3>5
  <2>3. CASE ~b
    <3>1. F[0] = c /\ A \cup FirstLevels(0) = {}
      BY <1>2, <1>3, <2>1, <2>3
    <3>2. Sets(c, F[0], A \cup FirstLevels(0), t, v)
      BY <3>1, SetsNone
    <3> QED  BY <2>3, <3>2
  <2> QED  BY <2>2, <2>3
<1>5. ASSUME NEW k \in 1 .. n, k - 1 \in P  PROVE k \in P
  <2>1. PICK e \in Lists : e = F[k - 1]
    BY <1>2
  <2>2. PICK f \in Lists : f = F[k]
    BY <1>2
  <2>3. PICK l \in Levels : l = LevelSeq[k] /\ FirstLevels(k) = FirstLevels(k - 1) \cup {l}
    BY <1>1, FirstLevelsGrow, LevelFacts
  <2>4. FirstLevels(k - 1) \in SUBSET AllLevels /\ l \in AllLevels /\ l # Global
    BY <1>1, <2>3, FirstLevelsGrow, LevelFacts
  <2>5. f = set(e, l, t, v)
    BY <1>2, <2>1, <2>2, <2>3
  <2>6. Sets(e, f, {l}, t, v)
    BY <2>4, <2>5, setSets DEF Affected
  <2>7. PICK B \in SUBSET AllLevels : B = A \cup FirstLevels(k - 1)
    BY <1>3, <2>4
  <2>8. Sets(c, e, B, t, v)
    BY <1>5, <2>1, <2>7
  <2>9. Sets(c, f, B \cup {l}, t, v)
    BY <2>4, <2>6, <2>8, SetsThen DEF Settable
  <2>10. B \cup {l} = A \cup FirstLevels(k)
    BY <2>3, <2>7
  <2>11. Whole(e, t) => Whole(f, t)
    BY <2>6, KeepsWhole DEF Sets
  <2>12. b /\ (Absent(c, t) \/ Whole(c, t)) => Whole(F[k], t)
    BY <1>5, <2>1, <2>2, <2>11
  <2>13. Sets(c, F[k], A \cup FirstLevels(k), t, v)
    BY <2>2, <2>9, <2>10
  <2> QED  BY <2>12, <2>13
<1>6. n \in P
  <2>1. PICK Q : Q = P
    OBVIOUS
  <2>2. 0 \in Q /\ \A k \in 1 .. n : k - 1 \in Q => k \in Q
    <3> HIDE DEF P
    <3> QED  BY <1>4, <1>5, <2>1
  <2>3. \A k \in 0 .. n : k \in Q
    BY <2>2, UpTo
  <2>4. n \in Q
    BY <2>3
  <2> QED  BY <2>1, <2>4
<1>7. A \cup FirstLevels(n) = IF b THEN AllLevels ELSE Levels
  BY <1>1, <1>3, FirstLevelsGrow, LevelFacts
<1> QED  BY <1>2, <1>6, <1>7

\* setFromBase, entry by entry.
LEMMA setFromBaseFolds ==
  ASSUME NEW c \in Lists, NEW base0 \in Lists
  PROVE  \E F \in [0 .. Len(base0) -> Lists] :
           /\ F[0] = c /\ F[Len(base0)] = setFromBase(c, base0)
           /\ \A k \in 1 .. Len(base0) : F[k] = set(F[k - 1], base0[k].level, base0[k].type, base0[k].value)
<1> DEFINE q == base0
           base == c
           g == [p \in Lists \X Entry |-> set(p[1], p[2].level, p[2].type, p[2].value)]
           Is(h) == h = [T \in SUBSET DOMAIN q |->
                           IF T = {} THEN base ELSE set(h[T \ {Max(T)}], q[Max(T)].level, q[Max(T)].type, q[Max(T)].value)]
<1>1. q \in Seq(Entry) /\ base \in Lists
  BY ListTypes
<1>2. g \in [Lists \X Entry -> Lists]
  <2>1. \A d \in Lists, x \in Entry : set(d, x.level, x.type, x.value) \in Lists
    BY ListTypes, SettableEntry, setSets DEF Sets
  <2> QED  BY <2>1
<1>3. PICK f \in [SUBSET DOMAIN q -> Lists] : Folding(f, g, base, q)
  <2> HIDE DEF g, q, base
  <2> QED  BY <1>1, <1>2, FoldingExists
<1>4. \A T \in SUBSET DOMAIN q : T # {} => q[Max(T)] \in Entry /\ T \ {Max(T)} \in SUBSET DOMAIN q
  <2> HIDE DEF q
  <2> QED  BY <1>1, MaxIn
<1>5. Is(f)
  <2>1. \A T \in SUBSET DOMAIN q : T # {} =>
          g[<<f[T \ {Max(T)}], q[Max(T)]>>] = set(f[T \ {Max(T)}], q[Max(T)].level, q[Max(T)].type, q[Max(T)].value)
    BY <1>4
  <2> HIDE DEF g, q, base
  <2> QED  BY <1>3, <2>1 DEF Folding
<1>6. PICK h : h = CHOOSE e : Is(e)
  OBVIOUS
<1>7. Is(h)
  <2> HIDE DEF Is
  <2> QED  BY <1>5, <1>6
<1>8. Iterates(h, Lists, g, base, q)
  <2>1. \A T \in SUBSET DOMAIN q : T # {} /\ h[T \ {Max(T)}] \in Lists =>
          g[<<h[T \ {Max(T)}], q[Max(T)]>>] = set(h[T \ {Max(T)}], q[Max(T)].level, q[Max(T)].type, q[Max(T)].value)
    BY <1>4
  <2> HIDE DEF g, q, base
  <2> QED  BY <1>7, <2>1 DEF Iterates
<1>9. setFromBase(c, base0) = h[DOMAIN q]
  BY <1>6 DEF setFromBase, FoldLeft, MapThenFoldSet
<1>10. PICK F : /\ Steps(F, Lists, g, base, q) /\ h[DOMAIN q] = F[Len(q)]
                /\ \A k \in 1 .. Len(q) : F[k - 1] \in Lists /\ q[k] \in Entry
  <2> HIDE DEF g, q, base
  <2> QED  BY <1>1, <1>2, <1>8, FoldSteps, ZenonT(60)
<1>11. \A k \in 1 .. Len(q) : F[k] = set(F[k - 1], q[k].level, q[k].type, q[k].value)
  BY <1>10 DEF Steps
<1> HIDE DEF g, Is
<1> QED  BY <1>9, <1>10, <1>11 DEF Steps

\* An entry that sets the type t for the level l.
Hits(e, l, t) == e.type = t /\ e.level \in {l, Global}

LEMMA setHits ==
  ASSUME NEW c \in Lists, NEW e \in Entry, NEW d, d = set(c, e.level, e.type, e.value)
  PROVE  /\ d \in Lists /\ Keeps(c, d)
         /\ \A l \in AllLevels, t \in Types :
              IF Hits(e, l, t) THEN hasConfiguration(d, l, t) /\ Value(d, l, t) = e.value
              ELSE Same(c, d, l, t)
<1>1. PICK A : A = Affected(e.level) /\ e.level \in AllLevels /\ e.type \in Types
  BY ListTypes
<1>2. Sets(c, d, A, e.type, e.value)
  BY <1>1, SettableEntry, setSets
<1>3. \A l \in AllLevels, t \in Types : Hits(e, l, t) <=> l \in A /\ t = e.type
  BY <1>1 DEF Affected, Hits
<1> QED  BY <1>2, <1>3 DEF Sets

\* The last of the first k entries that set t for l has the value it gets.
Decides(b, i, k, l, t) ==
  /\ i \in 1 .. k /\ Hits(b[i], l, t)
  /\ \A j \in 1 .. k : j > i => ~Hits(b[j], l, t)

Merged(c, b, k, d, l, t) ==
  /\ (\A i \in 1 .. k : ~Hits(b[i], l, t)) => Same(c, d, l, t)
  /\ \A i \in 1 .. k : Decides(b, i, k, l, t) =>
       hasConfiguration(d, l, t) /\ Value(d, l, t) = b[i].value

\* A merge leaves what there was in its place, and each level and type has the value
\* of the last entry that sets it.
LEMMA MergeSets ==
  ASSUME NEW c \in Lists, NEW b \in Lists, NEW d, d = setFromBase(c, b)
  PROVE  /\ d \in Lists /\ Keeps(c, d)
         /\ \A l \in AllLevels, t \in Types : Merged(c, b, Len(b), d, l, t)
<1>1. PICK n \in Nat : n = Len(b) /\ \A k \in 1 .. n : b[k] \in Entry
  BY ListTypes
<1>2. PICK F \in [0 .. n -> Lists] :
        /\ F[0] = c /\ F[n] = d
        /\ \A k \in 1 .. n : F[k] = set(F[k - 1], b[k].level, b[k].type, b[k].value)
  BY <1>1, setFromBaseFolds
<1> DEFINE P == {k \in 0 .. n : /\ Keeps(c, F[k])
                                /\ \A l \in AllLevels, t \in Types : Merged(c, b, k, F[k], l, t)}
<1>3. 0 \in P
  <2>1. Keeps(c, c) /\ \A l \in AllLevels, t \in Types : Same(c, c, l, t)
    BY KeepsAll DEF Same
  <2>2. 1 .. 0 = {}
    OBVIOUS
  <2>3. \A l \in AllLevels, t \in Types : Merged(c, b, 0, c, l, t)
    BY <2>1, <2>2 DEF Merged
  <2> QED  BY <1>2, <2>1, <2>3
<1>4. ASSUME NEW k \in 1 .. n, k - 1 \in P  PROVE k \in P
  <2>1. PICK e \in Lists : e = F[k - 1]
    BY <1>2
  <2>2. PICK f \in Lists : f = F[k]
    BY <1>2
  <2>3. f = set(e, b[k].level, b[k].type, b[k].value) /\ b[k] \in Entry
    BY <1>1, <1>2, <2>1, <2>2
  <2>4. Keeps(c, f)
    BY <1>4, <2>1, <2>3, setHits, KeepsAll
  <2>5. ASSUME NEW l \in AllLevels, NEW t \in Types  PROVE Merged(c, b, k, f, l, t)
    <3>1. Merged(c, b, k - 1, e, l, t)
      BY <1>4, <2>1
    <3>2. IF Hits(b[k], l, t) THEN hasConfiguration(f, l, t) /\ Value(f, l, t) = b[k].value
          ELSE Same(e, f, l, t)
      BY <2>3, setHits
    <3>3. \A i : i \in 1 .. k <=> i \in 1 .. k - 1 \/ i = k
      BY <1>1
    <3>4. CASE Hits(b[k], l, t)
      <4>1. \A i \in 1 .. k : Decides(b, i, k, l, t) => i = k
        BY <1>1, <3>4 DEF Decides
      <4> QED  BY <3>2, <3>3, <3>4, <4>1 DEF Merged
    <3>5. CASE ~Hits(b[k], l, t)
      <4>1. \A i \in 1 .. k : Decides(b, i, k, l, t) => i \in 1 .. k - 1 /\ Decides(b, i, k - 1, l, t)
        BY <3>3, <3>5 DEF Decides
      <4>2. Same(e, f, l, t)
        BY <3>2, <3>5
      <4>3. ASSUME \A i \in 1 .. k : ~Hits(b[i], l, t)  PROVE Same(c, f, l, t)
        <5>1. Same(c, e, l, t)
          BY <3>1, <3>3, <4>3 DEF Merged
        <5> QED  BY <4>2, <5>1 DEF Same
      <4>4. ASSUME NEW i \in 1 .. k, Decides(b, i, k, l, t)
            PROVE  hasConfiguration(f, l, t) /\ Value(f, l, t) = b[i].value
        <5>1. hasConfiguration(e, l, t) /\ Value(e, l, t) = b[i].value
          BY <3>1, <4>1, <4>4 DEF Merged
        <5> QED  BY <4>2, <5>1 DEF Same
      <4> QED  BY <4>3, <4>4 DEF Merged
    <3> QED  BY <3>4, <3>5
  <2> QED  BY <2>2, <2>4, <2>5
<1>5. n \in P
  <2>1. PICK Q : Q = P
    OBVIOUS
  <2>2. 0 \in Q /\ \A k \in 1 .. n : k - 1 \in Q => k \in Q
    <3> HIDE DEF P
    <3> QED  BY <1>3, <1>4, <2>1
  <2>3. \A k \in 0 .. n : k \in Q
    BY <2>2, UpTo
  <2>4. n \in Q
    BY <2>3
  <2> QED  BY <2>1, <2>4
<1> QED  BY <1>1, <1>2, <1>5

\* A list with an entry for every level and type, Global's first.
Complete(c) == c \in Lists /\ \A t \in Types : Whole(c, t)

LEMMA KeepsComplete ==
  ASSUME NEW c, Complete(c), NEW d \in Lists, Keeps(c, d)  PROVE Complete(d)
BY KeepsWhole DEF Complete

\* Merged with a list of its own, or made of one, a list is complete.
LEMMA MergeComplete ==
  ASSUME NEW c \in Lists, NEW b \in Lists, NEW d, d = setFromBase(c, b),
         Complete(c) \/ (c = <<>> /\ Complete(b))
  PROVE  Complete(d)
<1>1. PICK n \in Nat : n = Len(b) /\ \A k \in 1 .. n : b[k] \in Entry
  BY ListTypes
<1>2. PICK F \in [0 .. n -> Lists] :
        /\ F[0] = c /\ F[n] = d
        /\ \A k \in 1 .. n : F[k] = set(F[k - 1], b[k].level, b[k].type, b[k].value)
  BY <1>1, setFromBaseFolds
<1>0. DOMAIN b = 1 .. n
  BY <1>1, ListTypes
<1>3. CASE Complete(c)
  BY <1>3, MergeSets, KeepsComplete
<1>4. CASE c = <<>> /\ Complete(b)
  <2> DEFINE OK(k, f, t) == /\ Whole(f, t) \/ Absent(f, t)
                            /\ Index(b, Global, t) <= k => Whole(f, t)
             P == {k \in 0 .. n : \A t \in Types : OK(k, F[k], t)}
  <2>1. \A t \in Types : hasConfiguration(b, Global, t) /\ Index(b, Global, t) \in 1 .. n
    BY <1>0, <1>1, <1>4, Found, LevelFacts DEF Complete, Whole
  <2>2. 0 \in P
    <3>1. \A t : Absent(<<>>, t)
      BY DEF Absent, hasConfiguration, At
    <3>2. \A t \in Types : OK(0, <<>>, t)
      BY <2>1, <3>1
    <3> QED  BY <1>2, <1>4, <3>2
  <2>3. ASSUME NEW k \in 1 .. n, k - 1 \in P  PROVE k \in P
    <3>1. PICK e \in Lists : e = F[k - 1]
      BY <1>2
    <3>2. PICK f \in Lists : f = F[k]
      BY <1>2
    <3>3. f = set(e, b[k].level, b[k].type, b[k].value) /\ b[k] \in Entry
      BY <1>1, <1>2, <3>1, <3>2
    <3>4. Keeps(e, f) /\ \A t \in Types : OK(k - 1, e, t)
      BY <2>3, <3>1, <3>3, setHits
    <3>5. ASSUME NEW t \in Types  PROVE OK(k, f, t)
      <4>1. Whole(e, t) => Whole(f, t)
        BY <3>4, KeepsWhole
      <4>2. Whole(e, t) \/ Absent(e, t)
        BY <3>4
      <4>3. CASE b[k].type # t
        <5>1. \A l \in AllLevels : Same(e, f, l, t)
          BY <3>3, <4>3, setHits DEF Hits
        <5>2. Absent(e, t) => Absent(f, t)
          BY <5>1 DEF Absent, Same
        <5>3. Index(b, Global, t) # k
          BY <1>0, <1>1, <1>4, <2>1, <4>3, Found
        <5>4. Index(b, Global, t) <= k => Index(b, Global, t) <= k - 1
          BY <2>1, <5>3
        <5> QED  BY <3>4, <4>1, <4>2, <5>2, <5>4
      <4>4. CASE b[k].type = t /\ b[k].level = Global
        <5>1. Whole(f, t)
          BY <3>3, <4>2, <4>4, setSets, SettableEntry, LevelFacts
        <5> QED  BY <5>1
      <4>5. CASE b[k].type = t /\ b[k].level # Global
        <5>1. PICK l \in Levels : l = b[k].level
          BY <3>3, <4>5, ListTypes DEF AllLevels
        <5>2. Index(b, l, t) = k
          BY <1>0, <1>1, <4>5, <5>1, Found
        <5>3. Index(b, Global, t) < k
          BY <1>4, <5>2 DEF Complete, Whole
        <5>4. Whole(e, t)
          BY <2>1, <3>4, <5>3
        <5> QED  BY <4>1, <5>4
      <4> QED  BY <4>3, <4>4, <4>5
    <3> QED  BY <3>2, <3>5
  <2>4. n \in P
    <3>1. PICK Q : Q = P
      OBVIOUS
    <3>2. 0 \in Q /\ \A k \in 1 .. n : k - 1 \in Q => k \in Q
      <4> HIDE DEF P
      <4> QED  BY <2>2, <2>3, <3>1
    <3>3. \A k \in 0 .. n : k \in Q
      BY <3>2, UpTo
    <3>4. n \in Q
      BY <3>3
    <3> QED  BY <3>1, <3>4
  <2>5. \A t \in Types : Index(b, Global, t) <= n
    BY <2>1
  <2> QED  BY <1>2, <2>4, <2>5 DEF Complete
<1> QED  BY <1>3, <1>4

\* A finite set in a sequence.
LEMMA SetToSeqOf ==
  ASSUME NEW S, IsFiniteSet(S)
  PROVE  /\ SetToSeq(S) \in Seq(S) /\ \A x \in S : \E i \in 1 .. Len(SetToSeq(S)) : SetToSeq(S)[i] = x
         /\ \A i, j \in 1 .. Len(SetToSeq(S)) : SetToSeq(S)[i] = SetToSeq(S)[j] => i = j
<1>1. PICK n \in Nat : n = Cardinality(S) /\ ExistsBijection(1 .. n, S)
  BY FS_CardinalityType
<1>2. \E f \in [1 .. n -> S] : IsInjective(f)
  BY <1>1 DEF ExistsBijection, Bijection, Injection
<1>3. PICK f : f = SetToSeq(S)
  OBVIOUS
<1>4. f \in [1 .. n -> S] /\ IsInjective(f)
  BY <1>1, <1>2, <1>3 DEF SetToSeq
<1>5. f \in Surjection(1 .. n, S)
  <2>1. f \in Injection(1 .. n, S)
    BY <1>4 DEF Injection
  <2>2. Cardinality(1 .. n) = n
    BY FS_Interval
  <2> QED  BY <1>1, <2>1, <2>2, FS_Injection
<1>6. f \in Seq(S) /\ Len(f) = n
  BY <1>4
<1>7. \A i, j \in 1 .. n : f[i] = f[j] => i = j
  BY <1>4 DEF IsInjective
<1> QED  BY <1>3, <1>5, <1>6, <1>7 DEF Surjection

LEMMA TypesFinite ==
  /\ IsFiniteSet(Types) /\ IsFiniteSet(Types \ {"ToFile"})
  /\ \A t \in Types : Settable(t, Default(t))
<1>1. IsFiniteSet(Bools \cup Shared)
  BY LogConfigAssumption, FS_Union
<1>2. IsFiniteSet({"ToFile", "Filename", "MaxLogFileSize"})
  <2>1. {"ToFile", "Filename", "MaxLogFileSize"} = (({"ToFile"} \cup {"Filename"}) \cup {"MaxLogFileSize"})
    OBVIOUS
  <2>2. IsFiniteSet({"ToFile"}) /\ IsFiniteSet({"ToFile"} \cup {"Filename"})
    BY FS_Singleton, FS_AddElement
  <2> QED  BY <2>1, <2>2, FS_AddElement
<1>3. IsFiniteSet(Types)
  BY <1>1, <1>2, FS_Union DEF Types
<1>4. IsFiniteSet(Types \ {"ToFile"})
  BY <1>3, FS_RemoveElement
<1>5. \A t \in Types : Settable(t, Default(t))
  BY LogConfigAssumption DEF Settable, Default, Configuration, Entry, Words, Trues
<1> QED  BY <1>3, <1>4, <1>5

\* setToDefault, type by type.
LEMMA setToDefaultFolds ==
  ASSUME NEW c \in Lists
  PROVE  \E F \in [0 .. Len(SetToSeq(Types)) -> Lists] :
           /\ F[0] = c /\ F[Len(SetToSeq(Types))] = setToDefault(c)
           /\ \A k \in 1 .. Len(SetToSeq(Types)) : F[k] = setGlobally(F[k - 1], SetToSeq(Types)[k], Default(SetToSeq(Types)[k]), TRUE)
<1> DEFINE q == SetToSeq(Types)
           base == c
           g == [p \in Lists \X Types |-> setGlobally(p[1], p[2], Default(p[2]), TRUE)]
           Is(h) == h = [T \in SUBSET DOMAIN q |->
                           IF T = {} THEN base ELSE setGlobally(h[T \ {Max(T)}], q[Max(T)], Default(q[Max(T)]), TRUE)]
<1>1. q \in Seq(Types) /\ base \in Lists
  BY TypesFinite, SetToSeqOf
<1>2. g \in [Lists \X Types -> Lists]
  <2>1. \A d \in Lists, x \in Types : setGlobally(d, x, Default(x), TRUE) \in Lists
    BY TypesFinite, setGloballySets DEF Sets
  <2> QED  BY <2>1
<1>3. PICK f \in [SUBSET DOMAIN q -> Lists] : Folding(f, g, base, q)
  <2> HIDE DEF g, q, base
  <2> QED  BY <1>1, <1>2, FoldingExists
<1>4. \A T \in SUBSET DOMAIN q : T # {} => q[Max(T)] \in Types /\ T \ {Max(T)} \in SUBSET DOMAIN q
  <2> HIDE DEF q
  <2> QED  BY <1>1, MaxIn
<1>5. Is(f)
  <2>1. \A T \in SUBSET DOMAIN q : T # {} =>
          g[<<f[T \ {Max(T)}], q[Max(T)]>>] = setGlobally(f[T \ {Max(T)}], q[Max(T)], Default(q[Max(T)]), TRUE)
    BY <1>4
  <2> HIDE DEF g, q, base
  <2> QED  BY <1>3, <2>1 DEF Folding
<1>6. PICK h : h = CHOOSE e : Is(e)
  OBVIOUS
<1>7. Is(h)
  <2> HIDE DEF Is
  <2> QED  BY <1>5, <1>6
<1>8. Iterates(h, Lists, g, base, q)
  <2>1. \A T \in SUBSET DOMAIN q : T # {} /\ h[T \ {Max(T)}] \in Lists =>
          g[<<h[T \ {Max(T)}], q[Max(T)]>>] = setGlobally(h[T \ {Max(T)}], q[Max(T)], Default(q[Max(T)]), TRUE)
    BY <1>4
  <2> HIDE DEF g, q, base
  <2> QED  BY <1>7, <2>1 DEF Iterates
<1>9. setToDefault(c) = h[DOMAIN q]
  BY <1>6 DEF setToDefault, FoldLeft, MapThenFoldSet
<1>10. PICK F : /\ Steps(F, Lists, g, base, q) /\ h[DOMAIN q] = F[Len(q)]
                /\ \A k \in 1 .. Len(q) : F[k - 1] \in Lists /\ q[k] \in Types
  <2> HIDE DEF g, q, base
  <2> QED  BY <1>1, <1>2, <1>8, FoldSteps, ZenonT(60)
<1>11. \A k \in 1 .. Len(q) : F[k] = setGlobally(F[k - 1], q[k], Default(q[k]), TRUE)
  BY <1>10 DEF Steps
<1> HIDE DEF g, Is
<1> QED  BY <1>9, <1>10, <1>11 DEF Steps

\* setRemainingToDefault, type by type.
LEMMA setRemainingToDefaultFolds ==
  ASSUME NEW c \in Lists
  PROVE  \E F \in [0 .. Len(SetToSeq(Types \ {"ToFile"})) -> Lists] :
           /\ F[0] = c /\ F[Len(SetToSeq(Types \ {"ToFile"}))] = setRemainingToDefault(c)
           /\ \A k \in 1 .. Len(SetToSeq(Types \ {"ToFile"})) : F[k] = unsafeSetIfNotExist(F[k - 1], Global, SetToSeq(Types \ {"ToFile"})[k], Default(SetToSeq(Types \ {"ToFile"})[k]))
<1> DEFINE q == SetToSeq(Types \ {"ToFile"})
           base == c
           g == [p \in Lists \X Types |-> unsafeSetIfNotExist(p[1], Global, p[2], Default(p[2]))]
           Is(h) == h = [T \in SUBSET DOMAIN q |->
                           IF T = {} THEN base ELSE unsafeSetIfNotExist(h[T \ {Max(T)}], Global, q[Max(T)], Default(q[Max(T)]))]
<1>1. q \in Seq(Types) /\ base \in Lists
  BY TypesFinite, SetToSeqOf
<1>2. g \in [Lists \X Types -> Lists]
  <2>1. \A d \in Lists, x \in Types : unsafeSetIfNotExist(d, Global, x, Default(x)) \in Lists
    BY TypesFinite, setSets, LevelFacts DEF Sets, unsafeSetIfNotExist
  <2> QED  BY <2>1
<1>3. PICK f \in [SUBSET DOMAIN q -> Lists] : Folding(f, g, base, q)
  <2> HIDE DEF g, q, base
  <2> QED  BY <1>1, <1>2, FoldingExists
<1>4. \A T \in SUBSET DOMAIN q : T # {} => q[Max(T)] \in Types /\ T \ {Max(T)} \in SUBSET DOMAIN q
  <2> HIDE DEF q
  <2> QED  BY <1>1, MaxIn
<1>5. Is(f)
  <2>1. \A T \in SUBSET DOMAIN q : T # {} =>
          g[<<f[T \ {Max(T)}], q[Max(T)]>>] = unsafeSetIfNotExist(f[T \ {Max(T)}], Global, q[Max(T)], Default(q[Max(T)]))
    BY <1>4
  <2> HIDE DEF g, q, base
  <2> QED  BY <1>3, <2>1 DEF Folding
<1>6. PICK h : h = CHOOSE e : Is(e)
  OBVIOUS
<1>7. Is(h)
  <2> HIDE DEF Is
  <2> QED  BY <1>5, <1>6
<1>8. Iterates(h, Lists, g, base, q)
  <2>1. \A T \in SUBSET DOMAIN q : T # {} /\ h[T \ {Max(T)}] \in Lists =>
          g[<<h[T \ {Max(T)}], q[Max(T)]>>] = unsafeSetIfNotExist(h[T \ {Max(T)}], Global, q[Max(T)], Default(q[Max(T)]))
    BY <1>4
  <2> HIDE DEF g, q, base
  <2> QED  BY <1>7, <2>1 DEF Iterates
<1>9. setRemainingToDefault(c) = h[DOMAIN q]
  BY <1>6 DEF setRemainingToDefault, FoldLeft, MapThenFoldSet
<1>10. PICK F : /\ Steps(F, Lists, g, base, q) /\ h[DOMAIN q] = F[Len(q)]
                /\ \A k \in 1 .. Len(q) : F[k - 1] \in Lists /\ q[k] \in Types
  <2> HIDE DEF g, q, base
  <2> QED  BY <1>1, <1>2, <1>8, FoldSteps, ZenonT(60)
<1>11. \A k \in 1 .. Len(q) : F[k] = unsafeSetIfNotExist(F[k - 1], Global, q[k], Default(q[k]))
  BY <1>10 DEF Steps
<1> HIDE DEF g, Is
<1> QED  BY <1>9, <1>10, <1>11 DEF Steps

\* The defaults are complete, and keep what was in the list.
LEMMA DefaultsOf ==
  ASSUME NEW c \in Lists
  PROVE  /\ setToDefault(c) \in Lists /\ setRemainingToDefault(c) \in Lists
         /\ c = <<>> => Complete(setToDefault(c))
<1>1. PICK q \in Seq(Types) : q = SetToSeq(Types) /\ \A t \in Types : \E i \in 1 .. Len(q) : q[i] = t
  BY TypesFinite, SetToSeqOf
<1>2. PICK n \in Nat : n = Len(q)
  OBVIOUS
<1>3. PICK F \in [0 .. n -> Lists] :
        /\ F[0] = c /\ F[n] = setToDefault(c)
        /\ \A k \in 1 .. n : F[k] = setGlobally(F[k - 1], q[k], Default(q[k]), TRUE)
  <2>1. \E G \in [0 .. Len(SetToSeq(Types)) -> Lists] :
          /\ G[0] = c /\ G[Len(SetToSeq(Types))] = setToDefault(c)
          /\ \A k \in 1 .. Len(SetToSeq(Types)) :
               G[k] = setGlobally(G[k - 1], SetToSeq(Types)[k], Default(SetToSeq(Types)[k]), TRUE)
    BY setToDefaultFolds
  <2> QED  BY <1>1, <1>2, <2>1
<1>4. setRemainingToDefault(c) \in Lists
  <2>1. PICK p \in Seq(Types \ {"ToFile"}) : p = SetToSeq(Types \ {"ToFile"})
    BY TypesFinite, SetToSeqOf
  <2>2. PICK m \in Nat : m = Len(p)
    OBVIOUS
  <2>3. \E G \in [0 .. m -> Lists] : G[m] = setRemainingToDefault(c)
    <3>1. \E G \in [0 .. Len(SetToSeq(Types \ {"ToFile"})) -> Lists] :
            G[Len(SetToSeq(Types \ {"ToFile"}))] = setRemainingToDefault(c)
      BY setRemainingToDefaultFolds
    <3> QED  BY <2>1, <2>2, <3>1
  <2> QED  BY <2>3
<1>5. ASSUME c = <<>>  PROVE Complete(setToDefault(c))
  <2> DEFINE OK(k, f) == /\ \A t \in Types : Whole(f, t) \/ Absent(f, t)
                         /\ \A i \in 1 .. k : Whole(f, q[i])
             P == {k \in 0 .. n : OK(k, F[k])}
  <2>1. 0 \in P
    <3>1. \A t : Absent(<<>>, t)
      BY DEF Absent, hasConfiguration, At
    <3> QED  BY <1>3, <1>5, <3>1
  <2>2. ASSUME NEW k \in 1 .. n, k - 1 \in P  PROVE k \in P
    <3>1. PICK e \in Lists : e = F[k - 1]
      BY <1>3
    <3>2. PICK f \in Lists : f = F[k]
      BY <1>3
    <3>3. PICK t \in Types : t = q[k]
      BY <1>2
    <3>4. f = setGlobally(e, t, Default(t), TRUE) /\ OK(k - 1, e)
      BY <1>3, <2>2, <3>1, <3>2, <3>3
    <3>5. Sets(e, f, AllLevels, t, Default(t)) /\ (Absent(e, t) \/ Whole(e, t) => Whole(f, t))
      BY <3>4, setGloballySets, TypesFinite
    <3>6. \A s \in Types : Whole(e, s) => Whole(f, s)
      BY <3>5, KeepsWhole DEF Sets
    <3>7. \A s \in Types : Absent(e, s) => Absent(f, s) \/ Whole(f, s)
      <4> TAKE s \in Types
      <4>1. CASE s = t
        BY <3>5, <4>1
      <4>2. CASE s # t
        BY <3>5, <4>2 DEF Sets, Same, Absent
      <4> QED  BY <4>1, <4>2
    <3>8. Whole(f, t)
      BY <3>4, <3>5
    <3>9. \A i \in 1 .. k : i \in 1 .. k - 1 \/ i = k
      BY <1>2
    <3>10. \A i \in 1 .. k - 1 : q[i] \in Types
      BY <1>2
    <3> QED  BY <3>2, <3>3, <3>4, <3>6, <3>7, <3>8, <3>9, <3>10
  <2>3. n \in P
    <3>1. PICK Q : Q = P
      OBVIOUS
    <3>2. 0 \in Q /\ \A k \in 1 .. n : k - 1 \in Q => k \in Q
      <4> HIDE DEF P
      <4> QED  BY <2>1, <2>2, <3>1
    <3>3. \A k \in 0 .. n : k \in Q
      BY <3>2, UpTo
    <3>4. n \in Q
      BY <3>3
    <3> QED  BY <3>1, <3>4
  <2> QED  BY <1>1, <1>2, <1>3, <2>3 DEF Complete
<1> QED  BY <1>3, <1>4, <1>5

\* How far a text has been parsed.
Parsed(text) == [conf : Lists, level : {Null} \cup {line.level : line \in Range(text)}, ok : BOOLEAN]

LEMMA parseLineTypes ==
  ASSUME NEW text, IsText(text), NEW p \in Parsed(text), NEW line \in Range(text)
  PROVE  parseLine(p, line) \in Parsed(text)
<1>1. ASSUME line.kind = "config", KnownLevel(p.level), KnownType(line.type)
      PROVE  set(p.conf, p.level, line.type, line.value) \in Lists
  <2>1. Settable(line.type, line.value)
    BY <1>1 DEF Settable, Configuration, IsText, KnownType
  <2>2. p.conf \in Lists /\ p.level \in AllLevels
    BY <1>1 DEF Parsed, KnownLevel
  <2> QED  BY <2>1, <2>2, setSets DEF Sets
<1>2. CASE line.kind = "comment"
  BY <1>2 DEF parseLine, Parsed
<1>3. CASE line.kind = "level"
  BY <1>3 DEF parseLine, Parsed
<1>4. CASE line.kind = "config" /\ KnownLevel(p.level) /\ KnownType(line.type)
  BY <1>1, <1>4 DEF parseLine, Parsed
<1>5. CASE line.kind \notin {"comment", "level"} /\ ~(line.kind = "config" /\ KnownLevel(p.level) /\ KnownType(line.type))
  BY <1>5 DEF parseLine, Parsed
<1> QED  BY <1>2, <1>3, <1>4, <1>5

\* parseFromText, line by line.
LEMMA parseFromTextFolds ==
  ASSUME NEW c \in Lists, NEW text, IsText(text)
  PROVE  \E F \in [0 .. Len(text) -> Parsed(text)] :
           /\ F[0] = [conf |-> c, level |-> Null, ok |-> FALSE] /\ F[Len(text)] = parseFromText(c, text)
           /\ \A k \in 1 .. Len(text) : F[k] = parseLine(F[k - 1], text[k])
<1> DEFINE q == text
           base == [conf |-> c, level |-> Null, ok |-> FALSE]
           g == [p \in Parsed(text) \X Range(text) |-> parseLine(p[1], p[2])]
           Is(h) == h = [T \in SUBSET DOMAIN q |->
                           IF T = {} THEN base ELSE parseLine(h[T \ {Max(T)}], q[Max(T)])]
<1>1. q \in Seq(Range(text)) /\ base \in Parsed(text)
  BY DEF IsText, Parsed
<1>2. g \in [Parsed(text) \X Range(text) -> Parsed(text)]
  <2>1. \A d \in Parsed(text), x \in Range(text) : parseLine(d, x) \in Parsed(text)
    BY parseLineTypes
  <2> QED  BY <2>1
<1>3. PICK f \in [SUBSET DOMAIN q -> Parsed(text)] : Folding(f, g, base, q)
  <2> HIDE DEF g, q, base
  <2> QED  BY <1>1, <1>2, FoldingExists
<1>4. \A T \in SUBSET DOMAIN q : T # {} => q[Max(T)] \in Range(text) /\ T \ {Max(T)} \in SUBSET DOMAIN q
  <2> HIDE DEF q
  <2> QED  BY <1>1, MaxIn
<1>5. Is(f)
  <2>1. \A T \in SUBSET DOMAIN q : T # {} =>
          g[<<f[T \ {Max(T)}], q[Max(T)]>>] = parseLine(f[T \ {Max(T)}], q[Max(T)])
    BY <1>4
  <2> HIDE DEF g, q, base
  <2> QED  BY <1>3, <2>1 DEF Folding
<1>6. PICK h : h = CHOOSE e : Is(e)
  OBVIOUS
<1>7. Is(h)
  <2> HIDE DEF Is
  <2> QED  BY <1>5, <1>6
<1>8. Iterates(h, Parsed(text), g, base, q)
  <2>1. \A T \in SUBSET DOMAIN q : T # {} /\ h[T \ {Max(T)}] \in Parsed(text) =>
          g[<<h[T \ {Max(T)}], q[Max(T)]>>] = parseLine(h[T \ {Max(T)}], q[Max(T)])
    BY <1>4
  <2> HIDE DEF g, q, base
  <2> QED  BY <1>7, <2>1 DEF Iterates
<1>9. parseFromText(c, text) = h[DOMAIN q]
  BY <1>6 DEF parseFromText, FoldLeft, MapThenFoldSet
<1>10. PICK F : /\ Steps(F, Parsed(text), g, base, q) /\ h[DOMAIN q] = F[Len(q)]
                /\ \A k \in 1 .. Len(q) : F[k - 1] \in Parsed(text) /\ q[k] \in Range(text)
  <2> HIDE DEF g, q, base
  <2> QED  BY <1>1, <1>2, <1>8, FoldSteps, ZenonT(60)
<1>11. \A k \in 1 .. Len(q) : F[k] = parseLine(F[k - 1], q[k])
  BY <1>10 DEF Steps
<1> HIDE DEF g, Is
<1> QED  BY <1>9, <1>10, <1>11 DEF Steps

LEMMA ParsedList ==
  ASSUME NEW c \in Lists, NEW text, IsText(text)
  PROVE  parseFromText(c, text).conf \in Lists
<1>1. text \in Seq(Range(text))
  BY DEF IsText
<1>2. PICK n \in Nat : n = Len(text)
  BY <1>1
<1>3. PICK F \in [0 .. Len(text) -> Parsed(text)] : F[Len(text)] = parseFromText(c, text)
  BY parseFromTextFolds
<1>4. parseFromText(c, text) \in Parsed(text)
  BY <1>2, <1>3
<1> QED  BY <1>4 DEF Parsed

-----------------------------------------------------------------------------
(* Typed configurations: the maps of values.                               *)

Kept == Types \ {"Filename"}
TypedValues == BOOLEAN \cup Nat
Maps(X) == UNION {[S -> X] : S \in SUBSET AllLevels}

LEMMA TypedTypes == \A t, v : Typed(t, v) \in TypedValues
BY DEF Typed, TypedValues, getBool, getULong

LEMMA MapOf ==
  \A X : \A map : map \in Maps(X) <=>
    /\ DOMAIN map \subseteq AllLevels /\ map \in [DOMAIN map -> X]
BY DEF Maps

\* m is map with the value v for l.
Assigned(m, map, l, v) ==
  /\ DOMAIN m = DOMAIN map \cup {l} /\ m[l] = v
  /\ \A k \in DOMAIN map \ {l} : m[k] = map[k]

LEMMA AssignDoes ==
  ASSUME NEW X, NEW map \in Maps(X), NEW l \in AllLevels, NEW v \in X
  PROVE  Assign(map, l, v) \in Maps(X) /\ Assigned(Assign(map, l, v), map, l, v)
<1>0. PICK m : m = Assign(map, l, v)
  OBVIOUS
<1>1. DOMAIN map \subseteq AllLevels /\ map \in [DOMAIN map -> X]
  BY MapOf
<1>2. m \in [DOMAIN map \cup {l} -> X]
  BY <1>0, <1>1 DEF Assign
<1>3. m \in Maps(X)
  BY <1>1, <1>2 DEF Maps
<1>4. Assigned(m, map, l, v)
  BY <1>0, <1>1 DEF Assign, Assigned
<1> QED  BY <1>0, <1>3, <1>4

\* insert() is an assignment where there was nothing.
LEMMA InsertDoes ==
  ASSUME NEW X, NEW map \in Maps(X), NEW l \in AllLevels, NEW v \in X
  PROVE  Insert(map, l, v) = IF l \in DOMAIN map THEN map ELSE Assign(map, l, v)
<1>1. DOMAIN map \subseteq AllLevels /\ map \in [DOMAIN map -> X]
  BY MapOf
<1>2. CASE l \in DOMAIN map
  <2>1. Insert(map, l, v) = [k \in DOMAIN map |-> map[k]]
    BY <1>2 DEF Insert
  <2> QED  BY <1>1, <1>2, <2>1
<1>3. CASE l \notin DOMAIN map
  BY <1>1, <1>3 DEF Insert, Assign
<1> QED  BY <1>2, <1>3

LEMMA EmptyMap ==
  /\ \A X : Empty \in Maps(X)
  /\ \A X : \A map \in Maps(X) : map = Empty <=> DOMAIN map = {}
<1>1. \A X : Empty \in [{} -> X]
  BY DEF Empty
<1>2. \A X : Empty \in Maps(X)
  BY <1>1 DEF Maps
<1>3. ASSUME NEW X, NEW map \in Maps(X)  PROVE map = Empty <=> DOMAIN map = {}
  <2>1. map \in [DOMAIN map -> X]
    BY MapOf
  <2> QED  BY <2>1 DEF Empty
<1> QED  BY <1>2, <1>3

\* What setValue does: the first value, one like Global's, and any other one.
ValueSet(m, map, l, v) ==
  /\ DOMAIN map = {} => DOMAIN m = {Global} /\ m[Global] = v
  /\ Global \in DOMAIN map => IF map[Global] = v THEN m = map ELSE Assigned(m, map, l, v)

LEMMA setValueDoes ==
  ASSUME NEW X, NEW map \in Maps(X), NEW l \in AllLevels, NEW v \in X
  PROVE  setValue(map, l, v) \in Maps(X) /\ ValueSet(setValue(map, l, v), map, l, v)
<1>0. PICK m : m = setValue(map, l, v)
  OBVIOUS
<1>1. ASSUME DOMAIN map = {}  PROVE m \in Maps(X) /\ ValueSet(m, map, l, v)
  <2>1. m = Assign(map, Global, v)
    BY <1>0, <1>1, EmptyMap DEF setValue
  <2>2. m \in Maps(X) /\ Assigned(m, map, Global, v)
    BY <2>1, LevelFacts, AssignDoes
  <2> QED  BY <1>1, <2>2 DEF Assigned, ValueSet
<1>2. ASSUME DOMAIN map # {}, Global \in DOMAIN map /\ map[Global] = v
      PROVE  m \in Maps(X) /\ ValueSet(m, map, l, v)
  <2>1. m = map
    BY <1>0, <1>2, EmptyMap DEF setValue
  <2> QED  BY <1>2, <2>1 DEF ValueSet
<1>3. ASSUME DOMAIN map # {}, ~(Global \in DOMAIN map /\ map[Global] = v)
      PROVE  m \in Maps(X) /\ ValueSet(m, map, l, v)
  <2>1. m = Assign(map, l, v)
    BY <1>0, <1>3, EmptyMap DEF setValue
  <2>2. m \in Maps(X) /\ Assigned(m, map, l, v)
    BY <2>1, AssignDoes
  <2> QED  BY <1>3, <2>2 DEF ValueSet
<1> QED  BY <1>0, <1>1, <1>2, <1>3

LEMMA KeptTypes ==
  /\ \A e \in Entry : e.type # "Filename" => e.type \in Kept
  /\ \A e \in Entry : e.type = "Filename" => e.value \in Files
  /\ "Filename" \in Types /\ "ToFile" \in Kept /\ "MaxLogFileSize" \in Kept
  /\ Bools \subseteq Kept /\ Shared \subseteq Kept /\ Bools \cap Shared = {}
  /\ "ToFile" \notin Shared /\ "MaxLogFileSize" \notin Shared
BY LogConfigAssumption DEF Kept, Types, Entry

\* The map that an entry is filed in, and where.
Place(t, l) == IF t \in Shared THEN Global ELSE l

LEMMA buildEntryDoes ==
  ASSUME NEW maps \in [Kept -> Maps(TypedValues)], NEW e \in Entry, NEW d, d = buildEntry(maps, e)
  PROVE  /\ d \in [Kept -> Maps(TypedValues)]
         /\ \A t \in Kept \ {e.type} : d[t] = maps[t]
         /\ e.type \in Kept =>
              ValueSet(d[e.type], maps[e.type], Place(e.type, e.level), Typed(e.type, e.value))
<1>1. CASE e.type = "Filename"
  BY <1>1 DEF buildEntry, Kept
<1>2. CASE e.type # "Filename"
  <2>1. PICK t \in Kept : t = e.type
    BY <1>2, KeptTypes
  <2>2. PICK l \in AllLevels : l = Place(t, e.level)
    BY ListTypes, LevelFacts DEF Place
  <2>3. PICK v \in TypedValues : v = Typed(t, e.value)
    BY TypedTypes
  <2>4. PICK map \in Maps(TypedValues) : map = maps[t]
    OBVIOUS
  <2>5. PICK m : m = setValue(map, l, v)
    OBVIOUS
  <2>6. m \in Maps(TypedValues) /\ ValueSet(m, map, l, v)
    BY <2>5, setValueDoes
  <2>7. d = [maps EXCEPT ![t] = m]
    BY <1>2, <2>1, <2>2, <2>3, <2>4, <2>5 DEF buildEntry, Place
  <2>8. d \in [Kept -> Maps(TypedValues)] /\ d[t] = m /\ \A s \in Kept \ {t} : d[s] = maps[s]
    BY <2>6, <2>7
  <2> QED  BY <2>1, <2>2, <2>3, <2>4, <2>6, <2>8
<1> QED  BY <1>1, <1>2

\* build(), entry by entry.
LEMMA buildMapsFolds ==
  ASSUME NEW c \in Lists
  PROVE  \E F \in [0 .. Len(c) -> [Kept -> Maps(TypedValues)]] :
           /\ F[0] = [t \in Kept |-> Empty] /\ F[Len(c)] = buildMaps(c)
           /\ \A k \in 1 .. Len(c) : F[k] = buildEntry(F[k - 1], c[k])
<1> DEFINE q == c
           base == [t \in Kept |-> Empty]
           g == [p \in [Kept -> Maps(TypedValues)] \X Entry |-> buildEntry(p[1], p[2])]
           Is(h) == h = [T \in SUBSET DOMAIN q |->
                           IF T = {} THEN base ELSE buildEntry(h[T \ {Max(T)}], q[Max(T)])]
<1>1. q \in Seq(Entry) /\ base \in [Kept -> Maps(TypedValues)]
  BY ListTypes, EmptyMap
<1>2. g \in [[Kept -> Maps(TypedValues)] \X Entry -> [Kept -> Maps(TypedValues)]]
  <2>1. \A d \in [Kept -> Maps(TypedValues)], x \in Entry : buildEntry(d, x) \in [Kept -> Maps(TypedValues)]
    BY buildEntryDoes
  <2> QED  BY <2>1
<1>3. PICK f \in [SUBSET DOMAIN q -> [Kept -> Maps(TypedValues)]] : Folding(f, g, base, q)
  <2> HIDE DEF g, q, base
  <2> QED  BY <1>1, <1>2, FoldingExists
<1>4. \A T \in SUBSET DOMAIN q : T # {} => q[Max(T)] \in Entry /\ T \ {Max(T)} \in SUBSET DOMAIN q
  <2> HIDE DEF q
  <2> QED  BY <1>1, MaxIn
<1>5. Is(f)
  <2>1. \A T \in SUBSET DOMAIN q : T # {} =>
          g[<<f[T \ {Max(T)}], q[Max(T)]>>] = buildEntry(f[T \ {Max(T)}], q[Max(T)])
    BY <1>4
  <2> HIDE DEF g, q, base
  <2> QED  BY <1>3, <2>1 DEF Folding
<1>6. PICK h : h = CHOOSE e : Is(e)
  OBVIOUS
<1>7. Is(h)
  <2> HIDE DEF Is
  <2> QED  BY <1>5, <1>6
<1>8. Iterates(h, [Kept -> Maps(TypedValues)], g, base, q)
  <2>1. \A T \in SUBSET DOMAIN q : T # {} /\ h[T \ {Max(T)}] \in [Kept -> Maps(TypedValues)] =>
          g[<<h[T \ {Max(T)}], q[Max(T)]>>] = buildEntry(h[T \ {Max(T)}], q[Max(T)])
    BY <1>4
  <2> HIDE DEF g, q, base
  <2> QED  BY <1>7, <2>1 DEF Iterates
<1>9. buildMaps(c) = h[DOMAIN q]
  BY <1>6 DEF buildMaps, Kept, FoldLeft, MapThenFoldSet
<1>10. PICK F : /\ Steps(F, [Kept -> Maps(TypedValues)], g, base, q) /\ h[DOMAIN q] = F[Len(q)]
                /\ \A k \in 1 .. Len(q) : F[k - 1] \in [Kept -> Maps(TypedValues)] /\ q[k] \in Entry
  <2> HIDE DEF g, q, base
  <2> QED  BY <1>1, <1>2, <1>8, FoldSteps, ZenonT(60)
<1>11. \A k \in 1 .. Len(q) : F[k] = buildEntry(F[k - 1], q[k])
  BY <1>10 DEF Steps
<1> HIDE DEF g, Is
<1> QED  BY <1>9, <1>10, <1>11 DEF Steps

\* The value of a level in c, and the map of a type when the first k entries of c have
\* been filed: Global's, and those that differ from it.
Says(c, l, t) == Typed(t, Value(c, l, t))
Filed(m, c, k, t) ==
  IF Index(c, Global, t) > k THEN DOMAIN m = {}
  ELSE /\ Global \in DOMAIN m /\ m[Global] = Says(c, Global, t)
       /\ \A l \in Levels :
            /\ l \in DOMAIN m <=> Index(c, l, t) <= k /\ Says(c, l, t) # Says(c, Global, t)
            /\ l \in DOMAIN m => m[l] = Says(c, l, t)

\* A type that does not depend on the level: the last one filed.
FiledOnce(m, c, k, t) ==
  IF Index(c, Global, t) > k THEN DOMAIN m = {}
  ELSE /\ DOMAIN m = {Global}
       /\ \A l \in AllLevels :
            /\ Index(c, l, t) <= k
            /\ \A j \in AllLevels : Index(c, j, t) <= k => Index(c, j, t) <= Index(c, l, t)
            => m[Global] = Says(c, l, t)

\* The entries of a complete list, by level and type.
LEMMA CompletePlaces ==
  ASSUME NEW c, Complete(c), NEW t \in Types
  PROVE  /\ \A l \in AllLevels : Index(c, l, t) \in 1 .. Len(c)
         /\ \A l \in Levels : Index(c, Global, t) < Index(c, l, t)
         /\ \A k \in 1 .. Len(c) : \A l \in AllLevels :
              Index(c, l, t) = k <=> c[k].level = l /\ c[k].type = t
         /\ \A k \in 1 .. Len(c) : c[k].type = t => Value(c, c[k].level, t) = c[k].value
<1>1. c \in Lists /\ DOMAIN c = 1 .. Len(c) /\ Whole(c, t)
  BY ListTypes DEF Complete
<1>2. \A l \in AllLevels : hasConfiguration(c, l, t)
  BY <1>1 DEF Whole
<1>3. \A l \in AllLevels : Index(c, l, t) \in 1 .. Len(c)
  BY <1>1, <1>2, Found
<1>4. \A k \in 1 .. Len(c) : \A l \in AllLevels : Index(c, l, t) = k <=> c[k].level = l /\ c[k].type = t
  BY <1>1, <1>2, Found
<1>5. \A k \in 1 .. Len(c) : c[k].type = t => Value(c, c[k].level, t) = c[k].value
  BY <1>1, Found
<1> QED  BY <1>1, <1>3, <1>4, <1>5 DEF Whole

\* A list is filed as it says.
LEMMA MapsFiled ==
  ASSUME NEW c, Complete(c), NEW maps, maps = buildMaps(c)
  PROVE  /\ maps \in [Kept -> Maps(TypedValues)]
         /\ \A t \in Kept \ Shared : Filed(maps[t], c, Len(c), t)
         /\ \A t \in Shared : FiledOnce(maps[t], c, Len(c), t)
<1>1. PICK n \in Nat : n = Len(c) /\ c \in Lists /\ \A k \in 1 .. n : c[k] \in Entry
  BY ListTypes DEF Complete
<1>2. PICK F \in [0 .. n -> [Kept -> Maps(TypedValues)]] :
        /\ F[0] = [t \in Kept |-> Empty] /\ F[n] = maps
        /\ \A k \in 1 .. n : F[k] = buildEntry(F[k - 1], c[k])
  BY <1>1, buildMapsFolds
<1> DEFINE OK(k, m, t) == IF t \in Shared THEN FiledOnce(m, c, k, t) ELSE Filed(m, c, k, t)
           P == {k \in 0 .. n : \A t \in Kept : OK(k, F[k][t], t)}
<1>3. 0 \in P
  <2>1. ASSUME NEW t \in Kept  PROVE OK(0, F[0][t], t)
    <3>1. DOMAIN F[0][t] = {}
      BY <1>2 DEF Empty
    <3>2. Index(c, Global, t) > 0
      BY <1>1, CompletePlaces, LevelFacts DEF Kept
    <3> QED  BY <3>1, <3>2 DEF Filed, FiledOnce
  <2> QED  BY <2>1
<1>4. ASSUME NEW k \in 1 .. n, k - 1 \in P  PROVE k \in P
  <2>1. PICK e \in Entry : e = c[k]
    BY <1>1
  <2>2. ASSUME NEW t \in Kept  PROVE OK(k, F[k][t], t)
    <3>1. PICK m \in Maps(TypedValues) : m = F[k - 1][t]
      BY <1>2
    <3>2. OK(k - 1, m, t)
      BY <1>4, <3>1
    <3>3. t \in Types /\ \A l \in AllLevels : Index(c, l, t) \in 1 .. n
      BY <1>1, CompletePlaces DEF Kept
    <3>4. CASE e.type # t
      <4>1. F[k][t] = m
        <5>1. PICK d \in [Kept -> Maps(TypedValues)] : d = F[k - 1]
          BY <1>2
        <5>2. PICK f : f = F[k] /\ f = buildEntry(d, e)
          BY <1>2, <2>1, <5>1
        <5>3. f[t] = d[t]
          BY <3>4, <5>2, buildEntryDoes
        <5> QED  BY <3>1, <5>1, <5>2, <5>3
      <4>2. \A l \in AllLevels : Index(c, l, t) <= k <=> Index(c, l, t) <= k - 1
        BY <1>1, <2>1, <3>3, <3>4, CompletePlaces
      <4>3. Index(c, Global, t) > k <=> Index(c, Global, t) > k - 1
        <5>1. Index(c, Global, t) \in Int /\ (Index(c, Global, t) <= k <=> Index(c, Global, t) <= k - 1)
          BY <3>3, <4>2, LevelFacts
        <5> QED  BY <5>1
      <4>4. Filed(m, c, k - 1, t) => Filed(m, c, k, t)
        BY <4>2, <4>3, LevelFacts DEF Filed
      <4>5. FiledOnce(m, c, k - 1, t) => FiledOnce(m, c, k, t)
        BY <4>2, <4>3 DEF FiledOnce
      <4> QED  BY <3>2, <4>1, <4>4, <4>5
    <3>5. CASE e.type = t
      <4>1. PICK l \in AllLevels : l = e.level
        BY ListTypes
      <4>2. PICK v \in TypedValues : v = Says(c, l, t)
        BY TypedTypes DEF Says
      <4>3. Index(c, l, t) = k /\ Value(c, l, t) = e.value
        BY <1>1, <2>1, <3>3, <3>5, <4>1, CompletePlaces
      <4>4. PICK j \in AllLevels : j = IF t \in Shared THEN Global ELSE l
        BY LevelFacts
      <4>5. PICK p : p = F[k][t]
        OBVIOUS
      <4>6. ValueSet(p, m, j, v)
        <5>1. PICK d \in [Kept -> Maps(TypedValues)] : d = F[k - 1]
          BY <1>2
        <5>2. PICK f : f = F[k] /\ f = buildEntry(d, e)
          BY <1>2, <2>1, <5>1
        <5>3. ValueSet(f[e.type], d[e.type], Place(e.type, e.level), Typed(e.type, e.value))
          BY <3>5, <5>2, buildEntryDoes
        <5>4. j = Place(e.type, e.level) /\ v = Typed(e.type, e.value)
          BY <3>5, <4>1, <4>2, <4>3, <4>4 DEF Place, Says
        <5> QED  BY <3>1, <3>5, <4>5, <5>1, <5>2, <5>3, <5>4
      <4>7. /\ DOMAIN m = {} => DOMAIN p = {Global} /\ p[Global] = v
            /\ Global \in DOMAIN m =>
                 IF m[Global] = v THEN p = m
                 ELSE /\ DOMAIN p = DOMAIN m \cup {j} /\ p[j] = v
                      /\ \A i \in DOMAIN m \ {j} : p[i] = m[i]
        BY <4>6 DEF ValueSet, Assigned
      <4>8. /\ \A i \in AllLevels : Index(c, i, t) <= k <=> Index(c, i, t) <= k - 1 \/ i = l
            /\ l # Global => Index(c, Global, t) <= k - 1
            /\ l = Global => \A i \in Levels : Index(c, i, t) > k
        <5>1. \A i \in AllLevels : Index(c, i, t) = k => i = l
          BY <1>1, <2>1, <3>3, <4>1, CompletePlaces
        <5>2. \A i \in Levels : Index(c, Global, t) < Index(c, i, t)
          BY <3>3, CompletePlaces
        <5>3. ASSUME NEW i \in AllLevels  PROVE Index(c, i, t) <= k <=> Index(c, i, t) <= k - 1 \/ i = l
          BY <3>3, <4>3, <5>1
        <5>4. l # Global => Index(c, Global, t) <= k - 1
          BY <3>3, <4>3, <5>2, LevelFacts DEF AllLevels
        <5>5. l = Global => \A i \in Levels : Index(c, i, t) > k
          BY <4>3, <5>2
        <5> QED  BY <5>3, <5>4, <5>5
      <4>9. CASE t \in Shared
        <5>1. j = Global /\ FiledOnce(m, c, k - 1, t)
          BY <3>2, <4>4, <4>9
        <5>2. Index(c, Global, t) <= k
          BY <3>3, <4>3, <4>8, LevelFacts
        <5>3. DOMAIN p = {Global} /\ p[Global] = v
          <6>1. CASE l = Global
            <7>1. DOMAIN m = {}
              BY <3>3, <4>3, <5>1, <6>1, LevelFacts DEF FiledOnce
            <7> QED  BY <4>7, <7>1
          <6>2. CASE l # Global
            <7>1. DOMAIN m = {Global}
              BY <3>3, <4>8, <5>1, <6>2, LevelFacts DEF FiledOnce
            <7> QED  BY <4>7, <5>1, <7>1
          <6> QED  BY <6>1, <6>2
        <5>4. \A i \in AllLevels :
                Index(c, i, t) <= k /\ (\A h \in AllLevels : Index(c, h, t) <= k => Index(c, h, t) <= Index(c, i, t))
                => i = l
          BY <3>3, <4>3, <4>8
        <5>5. FiledOnce(p, c, k, t)
          <6>1. ASSUME NEW i \in AllLevels, Index(c, i, t) <= k,
                       \A h \in AllLevels : Index(c, h, t) <= k => Index(c, h, t) <= Index(c, i, t)
                PROVE  p[Global] = Says(c, i, t)
            BY <4>2, <5>3, <5>4, <6>1
          <6>2. ~(Index(c, Global, t) > k)
            BY <3>3, <5>2, LevelFacts
          <6> QED  BY <5>3, <6>1, <6>2 DEF FiledOnce
        <5> QED  BY <4>5, <4>9, <5>5
      <4>10. CASE t \notin Shared
        <5>1. j = l /\ Filed(m, c, k - 1, t)
          BY <3>2, <4>4, <4>10
        <5>2. Index(c, Global, t) <= k
          BY <3>3, <4>3, <4>8, LevelFacts
        <5>3. CASE l = Global
          <6>1. DOMAIN m = {}
            BY <3>3, <4>3, <5>1, <5>3, LevelFacts DEF Filed
          <6>2. DOMAIN p = {Global} /\ p[Global] = Says(c, Global, t)
            BY <4>2, <4>7, <5>3, <6>1
          <6>3. \A i \in Levels : i # Global /\ ~(Index(c, i, t) <= k)
            BY <3>3, <4>8, <5>3, LevelFacts
          <6>4. Filed(p, c, k, t)
            <7>1. ~(Index(c, Global, t) > k)
              BY <3>3, <5>2, LevelFacts
            <7> QED  BY <6>2, <6>3, <7>1 DEF Filed
          <6> QED  BY <4>5, <4>10, <6>4
        <5>4. CASE l # Global
          <6>1. /\ Global \in DOMAIN m /\ m[Global] = Says(c, Global, t)
                /\ \A i \in Levels :
                     /\ i \in DOMAIN m <=> Index(c, i, t) <= k - 1 /\ Says(c, i, t) # Says(c, Global, t)
                     /\ i \in DOMAIN m => m[i] = Says(c, i, t)
            <7>1. ~(Index(c, Global, t) > k - 1)
              BY <3>3, <4>8, <5>4, LevelFacts
            <7> QED  BY <5>1, <7>1 DEF Filed
          <6>2. l \in Levels /\ l \notin DOMAIN m
            BY <3>3, <4>3, <5>4, <6>1 DEF AllLevels
          <6>3. CASE v = Says(c, Global, t)
            <7>1. p = m
              BY <4>7, <6>1, <6>3
            <7>2. Filed(p, c, k, t)
              <8>1. ASSUME NEW i \in Levels
                    PROVE  /\ i \in DOMAIN p <=> Index(c, i, t) <= k /\ Says(c, i, t) # Says(c, Global, t)
                           /\ i \in DOMAIN p => p[i] = Says(c, i, t)
                BY <4>2, <4>8, <6>1, <6>3, <7>1, LevelFacts
              <8>2. ~(Index(c, Global, t) > k)
                BY <3>3, <5>2, LevelFacts
              <8> QED  BY <6>1, <7>1, <8>1, <8>2 DEF Filed
            <7> QED  BY <4>5, <4>10, <7>2
          <6>4. CASE v # Says(c, Global, t)
            <7>1. /\ DOMAIN p = DOMAIN m \cup {l} /\ p[l] = v
                  /\ \A i \in DOMAIN m \ {l} : p[i] = m[i]
              BY <4>7, <5>1, <6>1, <6>4
            <7>2. Global \in DOMAIN p /\ p[Global] = Says(c, Global, t)
              BY <5>4, <6>1, <7>1
            <7>3. ASSUME NEW i \in Levels
                  PROVE  /\ i \in DOMAIN p <=> Index(c, i, t) <= k /\ Says(c, i, t) # Says(c, Global, t)
                         /\ i \in DOMAIN p => p[i] = Says(c, i, t)
              BY <3>3, <4>2, <4>8, <6>1, <6>2, <6>4, <7>1, LevelFacts
            <7>4. Filed(p, c, k, t)
              <8>1. ~(Index(c, Global, t) > k)
                BY <3>3, <5>2, LevelFacts
              <8> QED  BY <7>2, <7>3, <8>1 DEF Filed
            <7> QED  BY <4>5, <4>10, <7>4
          <6> QED  BY <6>3, <6>4
        <5> QED  BY <5>3, <5>4
      <4> QED  BY <4>9, <4>10
    <3> QED  BY <3>4, <3>5
  <2> QED  BY <2>2
<1>5. n \in P
  <2>1. PICK Q : Q = P
    OBVIOUS
  <2>2. 0 \in Q /\ \A k \in 1 .. n : k - 1 \in Q => k \in Q
    <3> HIDE DEF P
    <3> QED  BY <1>3, <1>4, <2>1
  <2>3. \A k \in 0 .. n : k \in Q
    BY <2>2, UpTo
  <2>4. n \in Q
    BY <2>3
  <2> QED  BY <2>1, <2>4
<1>6. n \in 0 .. n /\ \A t \in Kept : OK(n, maps[t], t)
  BY <1>2, <1>5
<1> QED  BY <1>1, <1>2, <1>6, KeptTypes

-----------------------------------------------------------------------------
(* The streams all loggers share.                                          *)

StreamValues == Nat \cup {Null}
StreamMaps == UNION {[S -> StreamValues] : S \in SUBSET Files}
FileStates == [streams : StreamMaps, opens : Nat, full : SUBSET Files, writable : SUBSET Files]

LEMMA StreamMapOf ==
  \A map : map \in StreamMaps <=> DOMAIN map \subseteq Files /\ map \in [DOMAIN map -> StreamValues]
BY DEF StreamMaps

\* A stream that could be opened is the stream of one file.
FilesOK(f) ==
  /\ f \in FileStates /\ f.full \subseteq DOMAIN f.streams
  /\ \A a \in DOMAIN f.streams : f.streams[a] = Null \/ f.streams[a] \in 1 .. f.opens
  /\ \A a, b \in DOMAIN f.streams : f.streams[a] = f.streams[b] /\ a # b => f.streams[a] = Null

\* The streams of f are still those of their files in g.
Grown(f, g) ==
  DOMAIN f.streams \subseteq DOMAIN g.streams /\ \A a \in DOMAIN f.streams : g.streams[a] = f.streams[a]

LEMMA GrownThen ==
  /\ \A f : Grown(f, f)
  /\ \A f, g, h : Grown(f, g) /\ Grown(g, h) => Grown(f, h)
BY DEF Grown

LEMMA openStreamDoes ==
  ASSUME NEW f \in FileStates, NEW a \in Files, NEW g, g = openStream(f, a)
  PROVE  /\ g \in FileStates /\ a \in DOMAIN g.streams /\ Grown(f, g)
         /\ g.full = f.full /\ g.writable = f.writable
         /\ FilesOK(f) => FilesOK(g)
<1>1. PICK s \in StreamMaps : s = f.streams
  BY DEF FileStates
<1>2. DOMAIN s \subseteq Files /\ s \in [DOMAIN s -> StreamValues]
  BY StreamMapOf
<1>3. f.opens \in Nat /\ Null \notin Nat
  BY LogConfigAssumption DEF FileStates
<1>4. CASE a \in DOMAIN s
  <2>1. g = f
    BY <1>1, <1>4 DEF openStream
  <2> QED  BY <1>1, <1>4, <2>1, GrownThen
<1>5. CASE a \notin DOMAIN s
  <2>1. PICK v \in StreamValues : v = IF a \in f.writable THEN f.opens + 1 ELSE Null
    <3>1. f.opens + 1 \in StreamValues
      <4>1. \A k \in Nat : k + 1 \in StreamValues
        BY DEF StreamValues
      <4> QED  BY <1>3, <4>1
    <3>2. Null \in StreamValues
      BY DEF StreamValues
    <3> QED  BY <3>1, <3>2
  <2>2. PICK n \in Nat : n = IF a \in f.writable THEN f.opens + 1 ELSE f.opens
    BY <1>3
  <2>3. PICK r : r = Assign(s, a, v)
    OBVIOUS
  <2>4. r \in [DOMAIN s \cup {a} -> StreamValues]
    BY <1>2, <2>3 DEF Assign
  <2>5. r \in StreamMaps
    BY <1>2, <2>4 DEF StreamMaps
  <2>6. DOMAIN r = DOMAIN s \cup {a} /\ r[a] = v /\ \A b \in DOMAIN s : r[b] = s[b]
    BY <1>2, <1>5, <2>3, <2>4 DEF Assign
  <2>7. g = [f EXCEPT !.streams = r, !.opens = n]
    <3>1. CASE a \in f.writable
      BY <1>1, <1>5, <2>1, <2>2, <2>3, <3>1 DEF openStream
    <3>2. CASE a \notin f.writable
      <4>1. g = [f EXCEPT !.streams = r]
        BY <1>1, <1>5, <2>1, <2>3, <3>2 DEF openStream
      <4> QED  BY <2>2, <3>2, <4>1 DEF FileStates
    <3> QED  BY <3>1, <3>2
  <2>8. g \in FileStates /\ g.streams = r /\ g.opens = n /\ g.full = f.full /\ g.writable = f.writable
    BY <2>5, <2>7 DEF FileStates
  <2>9. Grown(f, g)
    BY <1>1, <2>6, <2>8 DEF Grown
  <2>10. ASSUME FilesOK(f)  PROVE FilesOK(g)
    <3>1. \A b \in DOMAIN s : s[b] = Null \/ s[b] \in 1 .. f.opens
      BY <1>1, <2>10 DEF FilesOK
    <3>2. \A b \in DOMAIN r : r[b] = Null \/ r[b] \in 1 .. n
      BY <1>3, <2>1, <2>2, <2>6, <3>1
    <3>3. v = Null \/ \A b \in DOMAIN s : s[b] # v
      BY <1>3, <2>1, <3>1
    <3>4. \A b, d \in DOMAIN s : s[b] = s[d] /\ b # d => s[b] = Null
      BY <1>1, <2>10 DEF FilesOK
    <3>5. \A b, d \in DOMAIN r : r[b] = r[d] /\ b # d => r[b] = Null
      BY <2>6, <3>3, <3>4
    <3>6. g.full \subseteq DOMAIN r
      BY <1>1, <2>6, <2>8, <2>10 DEF FilesOK
    <3> QED  BY <2>8, <3>2, <3>5, <3>6 DEF FilesOK
  <2> QED  BY <2>6, <2>8, <2>9, <2>10
<1> QED  BY <1>1, <1>4, <1>5

\* Fewer files are full, or others may be opened.
LEMMA FilesStay ==
  ASSUME NEW f, FilesOK(f), NEW g, g \in FileStates, g.streams = f.streams, g.opens = f.opens,
         g.full \subseteq DOMAIN f.streams
  PROVE  FilesOK(g) /\ Grown(f, g)
BY DEF FilesOK, Grown

-----------------------------------------------------------------------------
(* The second pass of build(): the entries that name a file.               *)

TypedStates == [map : [Kept -> Maps(TypedValues)], filename : Maps(Files), stream : Maps(StreamValues)]
BuildStates == [typed : TypedStates, files : FileStates]

\* What insertFile does to the typed maps when fs is the stream it is given.
Inserted(p, s, l, a, fs) ==
  /\ p.filename = IF l \in DOMAIN s.filename THEN s.filename ELSE Assign(s.filename, l, a)
  /\ p.stream = IF l \in DOMAIN s.stream THEN s.stream ELSE Assign(s.stream, l, fs)
  /\ \A t \in Kept \ {"ToFile"} : p.map[t] = s.map[t]
  /\ p.map["ToFile"] = IF fs = Null THEN setValue(s.map["ToFile"], l, FALSE) ELSE s.map["ToFile"]

LEMMA insertFileDoes ==
  ASSUME NEW s \in BuildStates, NEW e \in Entry, e.type = "Filename", NEW r, r = insertFile(s, e),
         NEW g, g = openStream(s.files, e.value)
  PROVE  /\ r \in BuildStates /\ r.files = g
         /\ Inserted(r.typed, s.typed, IF DOMAIN s.typed.filename = {} THEN Global ELSE e.level,
                     e.value, g.streams[e.value])
<1>1. PICK a \in Files : a = e.value
  BY KeptTypes
<1>2. g \in FileStates /\ a \in DOMAIN g.streams
  <2>1. s.files \in FileStates
    BY DEF BuildStates
  <2> QED  BY <1>1, <2>1, openStreamDoes
<1>3. PICK fs \in StreamValues : fs = g.streams[a]
  <2>1. g.streams \in StreamMaps
    BY <1>2 DEF FileStates
  <2> QED  BY <1>2, <2>1, StreamMapOf
<1>4. PICK y \in TypedStates : y = s.typed
  BY DEF BuildStates
<1>5. /\ y.map \in [Kept -> Maps(TypedValues)] /\ y.filename \in Maps(Files)
      /\ y.stream \in Maps(StreamValues)
  BY <1>4 DEF TypedStates
<1>6. PICK l \in AllLevels : l = IF y.filename = Empty THEN Global ELSE e.level
  BY ListTypes, LevelFacts
<1>7. l = IF DOMAIN y.filename = {} THEN Global ELSE e.level
  BY <1>5, <1>6, EmptyMap
<1>8. PICK names \in Maps(Files) :
        /\ names = Insert(y.filename, l, a)
        /\ names = IF l \in DOMAIN y.filename THEN y.filename ELSE Assign(y.filename, l, a)
  BY <1>5, InsertDoes, AssignDoes
<1>9. PICK streams \in Maps(StreamValues) :
        /\ streams = Insert(y.stream, l, fs)
        /\ streams = IF l \in DOMAIN y.stream THEN y.stream ELSE Assign(y.stream, l, fs)
  BY <1>5, InsertDoes, AssignDoes
<1>10. PICK m \in Maps(TypedValues) : m = setValue(y.map["ToFile"], l, FALSE)
  <2>1. y.map["ToFile"] \in Maps(TypedValues) /\ FALSE \in TypedValues
    BY <1>5, KeptTypes DEF TypedValues
  <2> QED  BY <2>1, setValueDoes
<1>11. PICK maps \in [Kept -> Maps(TypedValues)] :
         maps = IF fs = Null THEN [y.map EXCEPT !["ToFile"] = m] ELSE y.map
  BY <1>5
<1>12. PICK p : p = [map |-> maps, filename |-> names, stream |-> streams]
  OBVIOUS
<1>13. p \in TypedStates /\ p.filename = names /\ p.stream = streams /\ p.map = maps
  BY <1>12 DEF TypedStates
<1>14. r = [files |-> g, typed |-> p]
  <2>1. r = [files |-> g,
             typed |-> [map |-> IF fs = Null THEN [y.map EXCEPT !["ToFile"] = setValue(y.map["ToFile"], l, FALSE)]
                                ELSE y.map,
                        filename |-> Insert(y.filename, l, a),
                        stream |-> Insert(y.stream, l, fs)]]
    BY <1>1, <1>3, <1>4, <1>6 DEF insertFile
  <2> QED  BY <1>8, <1>9, <1>10, <1>11, <1>12, <2>1
<1>15. r \in BuildStates /\ r.files = g /\ r.typed = p
  BY <1>2, <1>13, <1>14 DEF BuildStates
<1>16. Inserted(p, y, l, a, fs)
  BY <1>5, <1>8, <1>9, <1>10, <1>11, <1>13, KeptTypes DEF Inserted
<1> QED  BY <1>1, <1>3, <1>4, <1>7, <1>15, <1>16

-----------------------------------------------------------------------------
(* build().                                                                *)

\* The second pass, entry by entry.
LEMMA insertFilesFolds ==
  ASSUME NEW c \in Lists, NEW s \in BuildStates
  PROVE  \E F \in [0 .. Len(c) -> BuildStates] :
           /\ F[0] = s /\ F[Len(c)] = insertFiles(c, s)
           /\ \A k \in 1 .. Len(c) : F[k] = (IF c[k].type = "Filename" THEN insertFile(F[k - 1], c[k]) ELSE F[k - 1])
<1> DEFINE q == c
           base == s
           g == [p \in BuildStates \X Entry |-> (IF p[2].type = "Filename" THEN insertFile(p[1], p[2]) ELSE p[1])]
           Is(h) == h = [T \in SUBSET DOMAIN q |->
                           IF T = {} THEN base ELSE (IF q[Max(T)].type = "Filename" THEN insertFile(h[T \ {Max(T)}], q[Max(T)]) ELSE h[T \ {Max(T)}])]
<1>1. q \in Seq(Entry) /\ base \in BuildStates
  BY ListTypes
<1>2. g \in [BuildStates \X Entry -> BuildStates]
  <2>1. \A d \in BuildStates, x \in Entry : (IF x.type = "Filename" THEN insertFile(d, x) ELSE d) \in BuildStates
    BY insertFileDoes
  <2> QED  BY <2>1
<1>3. PICK f \in [SUBSET DOMAIN q -> BuildStates] : Folding(f, g, base, q)
  <2> HIDE DEF g, q, base
  <2> QED  BY <1>1, <1>2, FoldingExists
<1>4. \A T \in SUBSET DOMAIN q : T # {} => q[Max(T)] \in Entry /\ T \ {Max(T)} \in SUBSET DOMAIN q
  <2> HIDE DEF q
  <2> QED  BY <1>1, MaxIn
<1>5. Is(f)
  <2>1. \A T \in SUBSET DOMAIN q : T # {} =>
          g[<<f[T \ {Max(T)}], q[Max(T)]>>] = (IF q[Max(T)].type = "Filename" THEN insertFile(f[T \ {Max(T)}], q[Max(T)]) ELSE f[T \ {Max(T)}])
    BY <1>4
  <2> HIDE DEF g, q, base
  <2> QED  BY <1>3, <2>1 DEF Folding
<1>6. PICK h : h = CHOOSE e : Is(e)
  OBVIOUS
<1>7. Is(h)
  <2> HIDE DEF Is
  <2> QED  BY <1>5, <1>6
<1>8. Iterates(h, BuildStates, g, base, q)
  <2>1. \A T \in SUBSET DOMAIN q : T # {} /\ h[T \ {Max(T)}] \in BuildStates =>
          g[<<h[T \ {Max(T)}], q[Max(T)]>>] = (IF q[Max(T)].type = "Filename" THEN insertFile(h[T \ {Max(T)}], q[Max(T)]) ELSE h[T \ {Max(T)}])
    BY <1>4
  <2> HIDE DEF g, q, base
  <2> QED  BY <1>7, <2>1 DEF Iterates
<1>9. insertFiles(c, s) = h[DOMAIN q]
  BY <1>6 DEF insertFiles, FoldLeft, MapThenFoldSet
<1>10. PICK F : /\ Steps(F, BuildStates, g, base, q) /\ h[DOMAIN q] = F[Len(q)]
                /\ \A k \in 1 .. Len(q) : F[k - 1] \in BuildStates /\ q[k] \in Entry
  <2> HIDE DEF g, q, base
  <2> QED  BY <1>1, <1>2, <1>8, FoldSteps, ZenonT(60)
<1>11. \A k \in 1 .. Len(q) : F[k] = (IF q[k].type = "Filename" THEN insertFile(F[k - 1], q[k]) ELSE F[k - 1])
  BY <1>10 DEF Steps
<1> HIDE DEF g, Is
<1> QED  BY <1>9, <1>10, <1>11 DEF Steps

ToFileSays(c, l) == getBool(Value(c, l, "ToFile"))
NamedBy(c, k) == {l \in AllLevels : Index(c, l, "Filename") <= k}

\* The map of ToFile when the levels N have a stream of the map streams: Global's value,
\* and no other that is true when Global's is.
ToFileFiled(m, c, N, streams) ==
  /\ m \in Maps(TypedValues) /\ Global \in DOMAIN m
  /\ \A l \in DOMAIN m : m[l] \in BOOLEAN
  /\ ToFileSays(c, Global) => \A l \in DOMAIN m \ {Global} : m[l] = FALSE
  /\ \A l \in AllLevels :
       getConfig(m, l, FALSE) =
         (/\ ToFileSays(c, l)
          /\ ToFileSays(c, Global) => (l \in N => streams[l] # Null)
                                      /\ (Global \in N => streams[Global] # Null))

\* Before a file is named.
LEMMA ToFileFirst ==
  ASSUME NEW c, Complete(c), NEW m \in Maps(TypedValues), Filed(m, c, Len(c), "ToFile"), NEW streams
  PROVE  ToFileFiled(m, c, {}, streams)
<1>1. "ToFile" \in Types /\ \A l \in AllLevels : Index(c, l, "ToFile") \in 1 .. Len(c)
  <2>1. "ToFile" \in Types
    BY KeptTypes DEF Kept
  <2> QED  BY <2>1, CompletePlaces
<1>2. \A l \in AllLevels : Says(c, l, "ToFile") = ToFileSays(c, l) /\ ToFileSays(c, l) \in BOOLEAN
  BY DEF Says, Typed, ToFileSays, getBool
<1>3. ~(Index(c, Global, "ToFile") > Len(c)) /\ \A l \in AllLevels : Index(c, l, "ToFile") <= Len(c)
  <2>1. Len(c) \in Nat
    BY DEF Complete, Lists
  <2> QED  BY <1>1, <2>1, LevelFacts
<1>4. /\ Global \in DOMAIN m /\ m[Global] = ToFileSays(c, Global)
      /\ \A l \in Levels :
           /\ l \in DOMAIN m <=> ToFileSays(c, l) # ToFileSays(c, Global)
           /\ l \in DOMAIN m => m[l] = ToFileSays(c, l)
  BY <1>2, <1>3, LevelFacts DEF Filed
<1>5. DOMAIN m \subseteq AllLevels
  BY MapOf
<1>6. \A l \in DOMAIN m : m[l] = ToFileSays(c, l)
  BY <1>4, <1>5 DEF AllLevels
<1>7. \A l \in DOMAIN m \ {Global} : ToFileSays(c, l) # ToFileSays(c, Global)
  BY <1>4, <1>5 DEF AllLevels
<1>8. \A l \in AllLevels : getConfig(m, l, FALSE) = ToFileSays(c, l)
  BY <1>2, <1>4, <1>6, LevelFacts DEF AllLevels, getConfig
<1> QED  BY <1>2, <1>4, <1>5, <1>6, <1>7, <1>8 DEF ToFileFiled

\* A level is named, and the map follows when it has no stream.
LEMMA ToFileNext ==
  ASSUME NEW c, NEW N \in SUBSET AllLevels, NEW p \in Maps(StreamValues), NEW q,
         NEW l \in AllLevels, l \notin N, N = {} => l = Global, N # {} => Global \in N,
         \A i \in N : q[i] = p[i],
         NEW m, ToFileFiled(m, c, N, p),
         NEW d, d = IF q[l] = Null THEN setValue(m, l, FALSE) ELSE m
  PROVE  ToFileFiled(d, c, N \cup {l}, q)
<1>1. /\ m \in Maps(TypedValues) /\ Global \in DOMAIN m
      /\ \A i \in DOMAIN m : m[i] \in BOOLEAN
      /\ ToFileSays(c, Global) => \A i \in DOMAIN m \ {Global} : m[i] = FALSE
  BY DEF ToFileFiled
<1>2. \A i \in AllLevels : ToFileSays(c, i) \in BOOLEAN
  BY DEF ToFileSays, getBool
<1> DEFINE ReadAs(M, S, i) ==
             /\ ToFileSays(c, i)
             /\ ToFileSays(c, Global) => (i \in M => S[i] # Null) /\ (Global \in M => S[Global] # Null)
<1>3. \A i \in AllLevels : getConfig(m, i, FALSE) = ReadAs(N, p, i)
  BY DEF ToFileFiled
<1>4. \A i \in AllLevels : ReadAs(N, q, i) <=> ReadAs(N, p, i)
  OBVIOUS
<1>5. ASSUME q[l] # Null \/ m[Global] = FALSE  PROVE ToFileFiled(d, c, N \cup {l}, q)
  <2>1. d = m
    <3>1. m # Empty
      BY <1>1, EmptyMap
    <3> QED  BY <1>1, <1>5, <3>1 DEF setValue
  <2>2. ASSUME NEW i \in AllLevels  PROVE ReadAs(N, p, i) = ReadAs(N \cup {l}, q, i)
    <3>1. CASE q[l] # Null
      BY <1>4, <3>1
    <3>2. CASE m[Global] = FALSE
      <4>1. getConfig(m, Global, FALSE) = FALSE
        BY <1>1, <3>2 DEF getConfig
      <4>2. ~ReadAs(N, p, Global)
        BY <1>3, <4>1, LevelFacts
      <4>3. ToFileSays(c, Global) => Global \in N /\ q[Global] = Null
        BY <4>2
      <4> QED  BY <4>3
    <3> QED  BY <1>5, <3>1, <3>2
  <2>3. \A i \in AllLevels : getConfig(m, i, FALSE) = ReadAs(N \cup {l}, q, i)
    BY <1>3, <2>2
  <2> QED  BY <1>1, <2>1, <2>3 DEF ToFileFiled
<1>6. ASSUME q[l] = Null, m[Global] # FALSE  PROVE ToFileFiled(d, c, N \cup {l}, q)
  <2>1. m[Global] = TRUE
    BY <1>1, <1>6
  <2>2. getConfig(m, Global, FALSE) = TRUE
    BY <1>1, <2>1 DEF getConfig
  <2>3. ReadAs(N, p, Global)
    BY <1>3, <2>2, LevelFacts
  <2>4. ToFileSays(c, Global) /\ (Global \in N => q[Global] # Null)
    BY <2>3
  <2>5. d \in Maps(TypedValues) /\ ValueSet(d, m, l, FALSE)
    <3>1. d = setValue(m, l, FALSE)
      BY <1>6
    <3>2. FALSE \in TypedValues /\ m \in Maps(TypedValues)
      BY <1>1 DEF TypedValues
    <3>3. setValue(m, l, FALSE) \in Maps(TypedValues) /\ ValueSet(setValue(m, l, FALSE), m, l, FALSE)
      BY <3>2, setValueDoes
    <3> QED  BY <3>1, <3>3
  <2>6. DOMAIN d = DOMAIN m \cup {l} /\ d[l] = FALSE /\ \A i \in DOMAIN m \ {l} : d[i] = m[i]
    BY <1>1, <1>6, <2>5 DEF ValueSet, Assigned
  <2>7. ASSUME NEW i \in AllLevels  PROVE getConfig(d, i, FALSE) = ReadAs(N \cup {l}, q, i)
    <3>1. CASE i = l
      <4>1. getConfig(d, i, FALSE) = FALSE
        BY <2>6, <3>1 DEF getConfig
      <4> QED  BY <1>6, <2>4, <3>1, <4>1
    <3>2. CASE i # l /\ l = Global
      <4>1. getConfig(d, i, FALSE) = FALSE
        BY <1>1, <2>4, <2>6, <3>2 DEF getConfig
      <4> QED  BY <1>6, <2>4, <3>2, <4>1
    <3>3. CASE i # l /\ l # Global
      <4>1. getConfig(d, i, FALSE) = getConfig(m, i, FALSE)
        BY <1>1, <2>6, <3>3 DEF getConfig
      <4>2. ReadAs(N, p, i) = ReadAs(N \cup {l}, q, i)
        BY <1>4, <3>3
      <4> QED  BY <1>3, <4>1, <4>2
    <3> QED  BY <3>1, <3>2, <3>3
  <2>8. \A i \in DOMAIN d : d[i] \in BOOLEAN
    BY <1>1, <2>6
  <2>9. \A i \in DOMAIN d \ {Global} : d[i] = FALSE
    BY <1>1, <2>4, <2>6
  <2> QED  BY <1>1, <2>5, <2>6, <2>7, <2>8, <2>9 DEF ToFileFiled
<1> QED  BY <1>5, <1>6

\* The typed maps and the files when k entries of c have been through the second
\* pass, f the files before and maps what the first pass made.
Named(r, c, k, f, maps) ==
  /\ r \in BuildStates /\ FilesOK(r.files) /\ Grown(f, r.files)
  /\ r.files.full = f.full /\ r.files.writable = f.writable
  /\ DOMAIN r.typed.filename = NamedBy(c, k) /\ DOMAIN r.typed.stream = NamedBy(c, k)
  /\ \A l \in NamedBy(c, k) :
       /\ r.typed.filename[l] = Value(c, l, "Filename") /\ r.typed.filename[l] \in DOMAIN r.files.streams
       /\ r.typed.stream[l] = r.files.streams[r.typed.filename[l]]
  /\ \A t \in Kept \ {"ToFile"} : r.typed.map[t] = maps[t]
  /\ ToFileFiled(r.typed.map["ToFile"], c, NamedBy(c, k), r.typed.stream)

\* One more entry.
LEMMA NamesNext ==
  ASSUME NEW c, Complete(c), NEW f, NEW maps, NEW k \in 1 .. Len(c), NEW s, Named(s, c, k - 1, f, maps),
         NEW r, r = IF c[k].type = "Filename" THEN insertFile(s, c[k]) ELSE s
  PROVE  Named(r, c, k, f, maps)
<1>1. PICK e \in Entry : e = c[k]
  BY ListTypes DEF Complete
<1>2. /\ \A l \in AllLevels : Index(c, l, "Filename") \in 1 .. Len(c)
      /\ \A l \in Levels : Index(c, Global, "Filename") < Index(c, l, "Filename")
      /\ \A l \in AllLevels : Index(c, l, "Filename") = k <=> c[k].level = l /\ c[k].type = "Filename"
      /\ c[k].type = "Filename" => Value(c, c[k].level, "Filename") = c[k].value
  BY KeptTypes, CompletePlaces
<1>3. PICK M \in SUBSET AllLevels : M = NamedBy(c, k - 1)
  BY DEF NamedBy
<1>4. PICK N \in SUBSET AllLevels : N = NamedBy(c, k)
  BY DEF NamedBy
<1>5. CASE c[k].type # "Filename"
  <2>1. \A l \in AllLevels : Index(c, l, "Filename") <= k <=> Index(c, l, "Filename") <= k - 1
    BY <1>2, <1>5
  <2>2. NamedBy(c, k) = NamedBy(c, k - 1)
    BY <2>1 DEF NamedBy
  <2> QED  BY <1>5, <2>2 DEF Named
<1>6. CASE c[k].type = "Filename"
  <2>1. PICK l \in AllLevels : l = e.level
    BY ListTypes
  <2>2. PICK a \in Files : a = e.value
    BY <1>1, <1>6, KeptTypes
  <2>3. N = M \cup {l} /\ l \notin M
    <3>1. ASSUME NEW i \in AllLevels  PROVE i \in N <=> i \in M \/ i = l
      BY <1>1, <1>2, <1>3, <1>4, <1>6, <2>1 DEF NamedBy
    <3>2. l \notin M
      BY <1>1, <1>2, <1>3, <1>6, <2>1 DEF NamedBy
    <3> QED  BY <3>1, <3>2
  <2>4. (M = {} => l = Global) /\ (M # {} => Global \in M)
    <3>1. \A i \in AllLevels : i # Global => Index(c, Global, "Filename") < Index(c, i, "Filename")
      BY <1>2 DEF AllLevels
    <3>2. Index(c, l, "Filename") = k
      BY <1>1, <1>2, <1>6, <2>1
    <3>3. l # Global => Global \in M
      BY <1>2, <1>3, <3>1, <3>2, LevelFacts DEF NamedBy
    <3>4. \A i \in M : i # Global => Global \in M
      BY <1>2, <1>3, <3>1, LevelFacts DEF NamedBy
    <3> QED  BY <3>3, <3>4
  <2>5. PICK g : g = openStream(s.files, a)
    OBVIOUS
  <2>6. s \in BuildStates /\ s.files \in FileStates /\ s.typed \in TypedStates /\ FilesOK(s.files)
    BY DEF Named, BuildStates
  <2>7. /\ g \in FileStates /\ a \in DOMAIN g.streams /\ Grown(s.files, g)
        /\ g.full = s.files.full /\ g.writable = s.files.writable /\ FilesOK(g)
    BY <2>5, <2>6, openStreamDoes
  <2>8. PICK x \in TypedStates : x = s.typed
    BY <2>6
  <2>9. /\ DOMAIN x.filename = M /\ DOMAIN x.stream = M
        /\ \A i \in M : /\ x.filename[i] = Value(c, i, "Filename") /\ x.filename[i] \in DOMAIN s.files.streams
                        /\ x.stream[i] = s.files.streams[x.filename[i]]
        /\ \A t \in Kept \ {"ToFile"} : x.map[t] = maps[t]
        /\ ToFileFiled(x.map["ToFile"], c, M, x.stream)
    BY <1>3, <2>8 DEF Named
  <2>10. PICK fs : fs = g.streams[a]
    OBVIOUS
  <2>11. l = IF DOMAIN s.typed.filename = {} THEN Global ELSE e.level
    BY <2>1, <2>4, <2>8, <2>9
  <2>12. r = insertFile(s, e) /\ e.type = "Filename" /\ g = openStream(s.files, e.value)
    BY <1>1, <1>6, <2>2, <2>5
  <2>13. /\ r \in BuildStates /\ r.files = g
         /\ Inserted(r.typed, s.typed, l, e.value, g.streams[e.value])
    BY <2>6, <2>11, <2>12, insertFileDoes
  <2>14. PICK y \in TypedStates : y = r.typed
    BY <2>13 DEF BuildStates
  <2>15. Inserted(y, x, l, a, fs)
    BY <2>2, <2>8, <2>10, <2>13, <2>14
  <2>16. /\ y.filename = Assign(x.filename, l, a) /\ y.stream = Assign(x.stream, l, fs)
         /\ \A t \in Kept \ {"ToFile"} : y.map[t] = x.map[t]
         /\ y.map["ToFile"] = IF fs = Null THEN setValue(x.map["ToFile"], l, FALSE) ELSE x.map["ToFile"]
    BY <2>3, <2>9, <2>15 DEF Inserted
  <2>17. x.filename \in Maps(Files) /\ x.stream \in Maps(StreamValues)
    BY DEF TypedStates
  <2>18. fs \in StreamValues
    <3>1. g.streams \in StreamMaps
      BY <2>7 DEF FileStates
    <3> QED  BY <2>7, <2>10, <3>1, StreamMapOf
  <2>19. Assigned(y.filename, x.filename, l, a) /\ Assigned(y.stream, x.stream, l, fs)
    BY <2>16, <2>17, <2>18, AssignDoes
  <2>20. /\ DOMAIN y.filename = N /\ y.filename[l] = a /\ \A i \in M : y.filename[i] = x.filename[i]
         /\ DOMAIN y.stream = N /\ y.stream[l] = fs /\ \A i \in M : y.stream[i] = x.stream[i]
    BY <2>3, <2>9, <2>19 DEF Assigned
  <2>21. ASSUME NEW i \in N
         PROVE  /\ y.filename[i] = Value(c, i, "Filename") /\ y.filename[i] \in DOMAIN g.streams
                /\ y.stream[i] = g.streams[y.filename[i]]
    <3>1. CASE i = l
      BY <1>1, <1>2, <1>6, <2>1, <2>2, <2>7, <2>10, <2>20, <3>1
    <3>2. CASE i \in M
      BY <2>7, <2>9, <2>20, <3>2 DEF Grown
    <3> QED  BY <2>3, <3>1, <3>2
  <2>22. ToFileFiled(y.map["ToFile"], c, N, y.stream)
    <3>1. PICK m : m = x.map["ToFile"] /\ ToFileFiled(m, c, M, x.stream)
      BY <2>9
    <3>2. PICK d : d = y.map["ToFile"] /\ d = IF y.stream[l] = Null THEN setValue(m, l, FALSE) ELSE m
      BY <2>16, <2>20, <3>1
    <3>3. PICK p \in Maps(StreamValues) : p = x.stream
      BY <2>17
    <3>4. PICK q : q = y.stream
      OBVIOUS
    <3>5. \A i \in M : q[i] = p[i]
      BY <2>20, <3>3, <3>4
    <3>6. ToFileFiled(d, c, M \cup {l}, q)
      BY <2>3, <2>4, <3>1, <3>2, <3>3, <3>4, <3>5, ToFileNext
    <3> QED  BY <2>3, <3>2, <3>4, <3>6
  <2>23. Grown(f, g) /\ g.full = f.full /\ g.writable = f.writable
    BY <2>7, GrownThen DEF Named
  <2>24. \A t \in Kept \ {"ToFile"} : y.map[t] = maps[t]
    BY <2>9, <2>16
  <2>25. /\ r \in BuildStates /\ FilesOK(r.files) /\ Grown(f, r.files)
         /\ r.files.full = f.full /\ r.files.writable = f.writable
    BY <2>7, <2>13, <2>23
  <2>26. /\ DOMAIN r.typed.filename = NamedBy(c, k) /\ DOMAIN r.typed.stream = NamedBy(c, k)
         /\ \A i \in NamedBy(c, k) :
              /\ r.typed.filename[i] = Value(c, i, "Filename") /\ r.typed.filename[i] \in DOMAIN r.files.streams
              /\ r.typed.stream[i] = r.files.streams[r.typed.filename[i]]
    BY <1>4, <2>13, <2>14, <2>20, <2>21
  <2>27. /\ \A t \in Kept \ {"ToFile"} : r.typed.map[t] = maps[t]
         /\ ToFileFiled(r.typed.map["ToFile"], c, NamedBy(c, k), r.typed.stream)
    BY <1>4, <2>14, <2>22, <2>24
  <2> QED  BY <2>25, <2>26, <2>27 DEF Named
<1> QED  BY <1>5, <1>6

\* A list is built as it says: what a logger reads afterwards.
TypedOK(y, c, f) ==
  /\ y \in TypedStates
  /\ DOMAIN y.filename = AllLevels /\ DOMAIN y.stream = AllLevels
  /\ \A l \in AllLevels :
       /\ y.filename[l] = Value(c, l, "Filename") /\ y.filename[l] \in DOMAIN f.streams
       /\ y.stream[l] = f.streams[y.filename[l]]
  /\ \A t \in Bools \cup {"MaxLogFileSize"} : Filed(y.map[t], c, Len(c), t)
  /\ \A t \in Shared : FiledOnce(y.map[t], c, Len(c), t)
  /\ ToFileFiled(y.map["ToFile"], c, AllLevels, y.stream)

\* The typed maps and files before truncation.
Opened(c, f) ==
  insertFiles(c, [typed |-> [map |-> buildMaps(c), filename |-> Empty, stream |-> Empty], files |-> f])

LEMMA OpenedOK ==
  ASSUME NEW c, Complete(c), NEW f, FilesOK(f), NEW r, r = Opened(c, f)
  PROVE  /\ r \in BuildStates /\ TypedOK(r.typed, c, r.files) /\ FilesOK(r.files) /\ Grown(f, r.files)
         /\ r.files.full = f.full /\ r.files.writable = f.writable
<1>1. PICK n \in Nat : n = Len(c) /\ c \in Lists
  BY ListTypes DEF Complete
<1>2. PICK maps : maps = buildMaps(c)
  OBVIOUS
<1>3. /\ maps \in [Kept -> Maps(TypedValues)]
      /\ \A t \in Kept \ Shared : Filed(maps[t], c, Len(c), t)
      /\ \A t \in Shared : FiledOnce(maps[t], c, Len(c), t)
  BY <1>2, MapsFiled
<1>4. PICK s : s = [typed |-> [map |-> maps, filename |-> Empty, stream |-> Empty], files |-> f]
  OBVIOUS
<1>5. s \in BuildStates
  BY <1>3, <1>4, EmptyMap DEF BuildStates, TypedStates, FilesOK
<1>6. r = insertFiles(c, s)
  BY <1>2, <1>4 DEF Opened
<1>7. PICK F \in [0 .. n -> BuildStates] :
        /\ F[0] = s /\ F[n] = r
        /\ \A k \in 1 .. n : F[k] = IF c[k].type = "Filename" THEN insertFile(F[k - 1], c[k]) ELSE F[k - 1]
  BY <1>1, <1>5, <1>6, insertFilesFolds
<1>8. \A l \in AllLevels : Index(c, l, "Filename") \in 1 .. n
  BY <1>1, KeptTypes, CompletePlaces
<1>9. NamedBy(c, 0) = {} /\ NamedBy(c, n) = AllLevels
  BY <1>1, <1>8 DEF NamedBy
<1> DEFINE P == {k \in 0 .. n : Named(F[k], c, k, f, maps)}
<1>10. 0 \in P
  <2>1. s.typed.filename = Empty /\ s.typed.stream = Empty /\ s.typed.map = maps /\ s.files = f
    BY <1>4
  <2>2. DOMAIN Empty = {}
    BY DEF Empty
  <2>3. ToFileFiled(maps["ToFile"], c, {}, Empty)
    <3>1. PICK m \in Maps(TypedValues) : m = maps["ToFile"]
      BY <1>3, KeptTypes
    <3>2. Filed(m, c, Len(c), "ToFile")
      BY <1>3, <3>1, KeptTypes
    <3> QED  BY <3>1, <3>2, ToFileFirst
  <2>4. Named(s, c, 0, f, maps)
    BY <1>5, <1>9, <2>1, <2>2, <2>3, GrownThen DEF Named
  <2> QED  BY <1>7, <2>4
<1>11. ASSUME NEW k \in 1 .. n, k - 1 \in P  PROVE k \in P
  <2>1. Named(F[k - 1], c, k - 1, f, maps)
    BY <1>11
  <2>2. PICK x : x = F[k - 1]
    OBVIOUS
  <2>3. PICK y : y = F[k]
    OBVIOUS
  <2>4. y = IF c[k].type = "Filename" THEN insertFile(x, c[k]) ELSE x
    BY <1>7, <2>2, <2>3
  <2>5. Named(y, c, k, f, maps)
    BY <1>1, <2>1, <2>2, <2>4, NamesNext
  <2> QED  BY <2>3, <2>5
<1>12. n \in P
  <2>1. PICK Q : Q = P
    OBVIOUS
  <2>2. 0 \in Q /\ \A k \in 1 .. n : k - 1 \in Q => k \in Q
    <3> HIDE DEF P
    <3> QED  BY <1>10, <1>11, <2>1
  <2>3. \A k \in 0 .. n : k \in Q
    BY <2>2, UpTo
  <2>4. n \in Q
    BY <2>3
  <2> QED  BY <2>1, <2>4
<1>13. Named(r, c, n, f, maps)
  BY <1>7, <1>12
<1>14. r \in BuildStates /\ r.typed \in TypedStates /\ r.files \in FileStates
  BY <1>13 DEF Named, BuildStates
<1>15. PICK y \in TypedStates : y = r.typed
  BY <1>14
<1>16. TypedOK(y, c, r.files)
  <2>1. \A t \in Bools \cup {"MaxLogFileSize"} : t \in Kept \ {"ToFile"} /\ t \in Kept \ Shared
    BY KeptTypes, LogConfigAssumption
  <2>2. \A t \in Shared : t \in Kept \ {"ToFile"}
    BY KeptTypes
  <2>3. \A t \in Kept \ {"ToFile"} : y.map[t] = maps[t]
    BY <1>13, <1>15 DEF Named
  <2>4. ToFileFiled(y.map["ToFile"], c, AllLevels, y.stream)
    BY <1>9, <1>13, <1>15 DEF Named
  <2>5. /\ DOMAIN y.filename = AllLevels /\ DOMAIN y.stream = AllLevels
        /\ \A l \in AllLevels :
             /\ y.filename[l] = Value(c, l, "Filename") /\ y.filename[l] \in DOMAIN r.files.streams
             /\ y.stream[l] = r.files.streams[y.filename[l]]
    BY <1>9, <1>13, <1>15 DEF Named
  <2> QED  BY <1>3, <2>1, <2>2, <2>3, <2>4, <2>5 DEF TypedOK
<1> QED  BY <1>13, <1>14, <1>15, <1>16 DEF Named

\* The maps of another list's build go on saying what they said.
LEMMA TypedStays ==
  ASSUME NEW y, NEW c, NEW f, NEW g, TypedOK(y, c, f), Grown(f, g)
  PROVE  TypedOK(y, c, g)
<1>1. \A l \in AllLevels :
        /\ y.filename[l] = Value(c, l, "Filename") /\ y.filename[l] \in DOMAIN g.streams
        /\ y.stream[l] = g.streams[y.filename[l]]
  BY DEF TypedOK, Grown
<1> QED  BY <1>1 DEF TypedOK

\* A level with a limit logs to the file a.
LimitedTo(y, a) ==
  \E l \in AllLevels : getConfig(y.filename, l, Null) = a /\ getConfig(y.map["MaxLogFileSize"], l, 0) # 0

LEMMA RolledLimited ==
  ASSUME NEW y, NEW l \in AllLevels, NEW full
  PROVE  Rolled(y, l, full) \subseteq {a \in full : LimitedTo(y, a)}
BY DEF Rolled, LimitedTo

\* build() makes typed maps that say what the list says, and truncates files that one
\* of its levels limits.
LEMMA buildDoes ==
  ASSUME NEW c, Complete(c), NEW f, FilesOK(f), NEW b, b = build(c, f)
  PROVE  /\ b.typed \in TypedStates /\ TypedOK(b.typed, c, b.files) /\ FilesOK(b.files)
         /\ Grown(f, b.files)
         /\ \A a \in f.full \ b.files.full : LimitedTo(b.typed, a)
<1>1. PICK r : r = Opened(c, f)
  OBVIOUS
<1>2. /\ r \in BuildStates /\ TypedOK(r.typed, c, r.files) /\ FilesOK(r.files) /\ Grown(f, r.files)
      /\ r.files.full = f.full
  BY <1>1, OpenedOK
<1>3. PICK y \in TypedStates : y = r.typed
  BY <1>2 DEF BuildStates
<1>4. PICK g \in FileStates : g = r.files
  BY <1>2 DEF BuildStates
<1>5. PICK L \in SUBSET AllLevels :
        L = {l \in AllLevels : hasConfiguration(c, l, "MaxLogFileSize")
                                 /\ getULong(Value(c, l, "MaxLogFileSize")) # 0}
  OBVIOUS
<1>6. PICK T : T = UNION {Rolled(y, l, g.full) : l \in L}
  OBVIOUS
<1>7. b = [r EXCEPT !.files.full = r.files.full \ UNION {Rolled(r.typed, l, r.files.full) : l \in L}]
  BY <1>1, <1>5 DEF build, Opened
<1>8. b = [r EXCEPT !.files.full = g.full \ T]
  BY <1>3, <1>4, <1>6, <1>7
<1>9. PICK h \in FileStates : h = [g EXCEPT !.full = g.full \ T]
  BY DEF FileStates
<1>10. b.typed = y /\ b.files = h
  BY <1>2, <1>3, <1>4, <1>8, <1>9 DEF BuildStates
<1>11. h.streams = g.streams /\ h.opens = g.opens /\ h.full = g.full \ T
  BY <1>9 DEF FileStates
<1>12. FilesOK(h) /\ Grown(g, h)
  <2>1. FilesOK(g) /\ g.full \subseteq DOMAIN g.streams
    BY <1>2, <1>4 DEF FilesOK
  <2> QED  BY <1>11, <2>1, FilesStay
<1>13. TypedOK(y, c, h)
  BY <1>2, <1>3, <1>4, <1>12, TypedStays
<1>14. Grown(f, h)
  BY <1>2, <1>4, <1>12, GrownThen
<1>15. \A a \in f.full \ h.full : LimitedTo(y, a)
  <2>1. T \subseteq {a \in g.full : LimitedTo(y, a)}
    BY <1>6, RolledLimited
  <2> QED  BY <1>2, <1>4, <1>11, <2>1
<1> QED  BY <1>10, <1>12, <1>13, <1>14, <1>15

-----------------------------------------------------------------------------
(* The loggers and the files.                                              *)

LoggerStates == [conf : Seq(Entry), built : Seq(Entry), typed : TypedStates]
LoggerMaps == UNION {[S -> LoggerStates] : S \in SUBSET Ids}

LoggerOK(lg, f) == Complete(lg.conf) /\ Complete(lg.built) /\ TypedOK(lg.typed, lg.built, f)

Worlds == {w \in [loggers : LoggerMaps, files : FileStates] :
             /\ IsFiniteSet(DOMAIN w.loggers) /\ FilesOK(w.files)
             /\ \A id \in DOMAIN w.loggers : LoggerOK(w.loggers[id], w.files)}

LEMMA LoggerMapOf ==
  \A map : map \in LoggerMaps <=> DOMAIN map \subseteq Ids /\ map \in [DOMAIN map -> LoggerStates]
BY DEF LoggerMaps

\* A world of loggers and files that are all right, made of its parts.
LEMMA WorldOf ==
  ASSUME NEW loggersOf \in LoggerMaps, IsFiniteSet(DOMAIN loggersOf), NEW f, FilesOK(f),
         \A id \in DOMAIN loggersOf : LoggerOK(loggersOf[id], f)
  PROVE  [loggers |-> loggersOf, files |-> f] \in Worlds
<1>1. f \in FileStates
  BY DEF FilesOK
<1> QED  BY <1>1 DEF Worlds

\* Files are truncated, and nothing else happens.
LEMMA TruncatedWorld ==
  ASSUME NEW w \in Worlds, NEW T, NEW v, v = [w EXCEPT !.files.full = w.files.full \ T]
  PROVE  v \in Worlds /\ v.loggers = w.loggers /\ v.files.full = w.files.full \ T
<1>1. PICK f \in FileStates : f = w.files /\ FilesOK(f)
  BY DEF Worlds
<1>2. PICK g \in FileStates : g = [f EXCEPT !.full = f.full \ T]
  BY DEF FileStates
<1>3. PICK L \in LoggerMaps : L = w.loggers /\ IsFiniteSet(DOMAIN L) /\ \A id \in DOMAIN L : LoggerOK(L[id], f)
  BY <1>1 DEF Worlds
<1>4. v = [loggers |-> L, files |-> g]
  BY <1>1, <1>2, <1>3 DEF Worlds
<1>5. g.streams = f.streams /\ g.opens = f.opens /\ g.full = f.full \ T
  BY <1>2 DEF FileStates
<1>6. FilesOK(g) /\ Grown(f, g)
  <2>1. f.full \subseteq DOMAIN f.streams
    BY <1>1 DEF FilesOK
  <2> QED  BY <1>1, <1>5, <2>1, FilesStay
<1>7. \A id \in DOMAIN L : LoggerOK(L[id], g)
  BY <1>3, <1>6, TypedStays DEF LoggerOK
<1>8. v \in Worlds
  <2>1. IsFiniteSet(DOMAIN L)
    BY <1>3
  <2>2. [loggers |-> L, files |-> g] \in Worlds
    BY <1>6, <1>7, <2>1, WorldOf
  <2> QED  BY <1>4, <2>2
<1> QED  BY <1>1, <1>3, <1>4, <1>5, <1>8

LEMMA flushAllLevelsDoes ==
  ASSUME NEW w \in Worlds, NEW id, NEW v, v = flushAllLevels(w, id)
  PROVE  /\ v \in Worlds /\ v.loggers = w.loggers
         /\ \A a \in w.files.full \ v.files.full : id \in DOMAIN w.loggers /\ LimitedTo(w.loggers[id].typed, a)
<1>1. CASE id \in DOMAIN w.loggers /\ hasConfiguration(w.loggers[id].conf, Global, "Filename")
  <2>1. PICK T : T = UNION {flushed(w.loggers[id], l, w.files.full) : l \in Levels}
    OBVIOUS
  <2>2. v = [w EXCEPT !.files.full = w.files.full \ T]
    BY <1>1, <2>1 DEF flushAllLevels
  <2>3. v \in Worlds /\ v.loggers = w.loggers /\ v.files.full = w.files.full \ T
    BY <2>2, TruncatedWorld
  <2>4. T \subseteq {a \in w.files.full : LimitedTo(w.loggers[id].typed, a)}
    BY <2>1, RolledLimited, LevelFacts DEF flushed
  <2> QED  BY <1>1, <2>3, <2>4
<1>2. CASE ~(id \in DOMAIN w.loggers /\ hasConfiguration(w.loggers[id].conf, Global, "Filename"))
  <2>1. v = w
    BY <1>2 DEF flushAllLevels
  <2> QED  BY <2>1
<1> QED  BY <1>1, <1>2

\* The logger id of v has the list c and was built from it; the others are as in w.
\* What was truncated was limited by this logger, before or now.
Turned(w, v, id, c) ==
  /\ v \in Worlds /\ DOMAIN v.loggers = DOMAIN w.loggers \cup {id}
  /\ v.loggers[id].conf = c /\ v.loggers[id].built = c
  /\ \A j \in DOMAIN w.loggers \ {id} : v.loggers[j] = w.loggers[j]
  /\ \A a \in w.files.full \ v.files.full :
       \/ LimitedTo(v.loggers[id].typed, a)
       \/ id \in DOMAIN w.loggers /\ LimitedTo(w.loggers[id].typed, a)

LEMMA rebuildDoes ==
  ASSUME NEW w \in Worlds, NEW id \in Ids, NEW c, Complete(c), NEW v, v = rebuild(w, id, c)
  PROVE  /\ Turned(w, v, id, c)
         /\ \A a \in w.files.full \ v.files.full : LimitedTo(v.loggers[id].typed, a)
<1>1. PICK f \in FileStates : f = w.files /\ FilesOK(f)
  BY DEF Worlds
<1>2. PICK L \in LoggerMaps : L = w.loggers /\ IsFiniteSet(DOMAIN L) /\ \A j \in DOMAIN L : LoggerOK(L[j], f)
  BY <1>1 DEF Worlds
<1>3. PICK b : b = build(c, f)
  OBVIOUS
<1>4. /\ b.typed \in TypedStates /\ TypedOK(b.typed, c, b.files) /\ FilesOK(b.files) /\ Grown(f, b.files)
      /\ \A a \in f.full \ b.files.full : LimitedTo(b.typed, a)
  BY <1>1, <1>3, buildDoes
<1>5. PICK lg \in LoggerStates : lg = [conf |-> c, built |-> c, typed |-> b.typed]
  BY <1>4 DEF LoggerStates, Complete, Lists
<1>6. PICK M : M = Assign(L, id, lg)
  OBVIOUS
<1>7. v = [loggers |-> M, files |-> b.files]
  BY <1>1, <1>2, <1>3, <1>5, <1>6 DEF rebuild
<1>8. /\ M \in [DOMAIN L \cup {id} -> LoggerStates] /\ DOMAIN L \subseteq Ids
      /\ M[id] = lg /\ \A j \in DOMAIN L \ {id} : M[j] = L[j]
  <2>1. DOMAIN L \subseteq Ids /\ L \in [DOMAIN L -> LoggerStates]
    BY LoggerMapOf
  <2> QED  BY <1>6, <2>1 DEF Assign
<1>9. M \in LoggerMaps /\ DOMAIN M = DOMAIN L \cup {id}
  BY <1>8, LoggerMapOf
<1>10. LoggerOK(lg, b.files)
  BY <1>4, <1>5 DEF LoggerOK
<1>11. \A j \in DOMAIN L : LoggerOK(L[j], b.files)
  BY <1>2, <1>4, TypedStays DEF LoggerOK
<1>12. \A j \in DOMAIN M : LoggerOK(M[j], b.files)
  BY <1>8, <1>9, <1>10, <1>11
<1>13. IsFiniteSet(DOMAIN M)
  BY <1>2, <1>9, FS_AddElement
<1>14. v \in Worlds
  BY <1>4, <1>7, <1>9, <1>12, <1>13, WorldOf
<1>15. v.loggers = M /\ v.files = b.files /\ M[id].conf = c /\ M[id].built = c /\ M[id].typed = b.typed
  BY <1>5, <1>7, <1>8
<1>16. \A a \in w.files.full \ v.files.full : LimitedTo(v.loggers[id].typed, a)
  BY <1>1, <1>4, <1>15
<1> QED  BY <1>2, <1>8, <1>9, <1>14, <1>15, <1>16 DEF Turned

\* A flush of every level, the merge, and a build.
LEMMA configureDoes ==
  ASSUME NEW w \in Worlds, NEW id \in Ids, NEW base \in Lists,
         id \in DOMAIN w.loggers \/ Complete(base), NEW v, v = configure(w, id, base)
  PROVE  Turned(w, v, id, setFromBase(IF id \in DOMAIN w.loggers THEN w.loggers[id].conf ELSE <<>>, base))
<1>1. PICK own : own = IF id \in DOMAIN w.loggers THEN w.loggers[id].conf ELSE <<>>
  OBVIOUS
<1>2. PICK c : c = setFromBase(own, base)
  OBVIOUS
<1>3. own \in Lists /\ (Complete(own) \/ (own = <<>> /\ Complete(base)))
  BY <1>1, ListTypes DEF Worlds, LoggerOK, Complete
<1>4. Complete(c)
  BY <1>2, <1>3, MergeComplete
<1>5. PICK u \in Worlds :
        /\ u = flushAllLevels(w, id) /\ u.loggers = w.loggers
        /\ \A a \in w.files.full \ u.files.full : id \in DOMAIN w.loggers /\ LimitedTo(w.loggers[id].typed, a)
  BY flushAllLevelsDoes
<1>6. v = rebuild(u, id, c)
  BY <1>1, <1>2, <1>5 DEF configure
<1>7. /\ Turned(u, v, id, c)
      /\ \A a \in u.files.full \ v.files.full : LimitedTo(v.loggers[id].typed, a)
  BY <1>4, <1>6, rebuildDoes
<1>8. \A a \in w.files.full \ v.files.full : a \in w.files.full \ u.files.full \/ a \in u.files.full \ v.files.full
  OBVIOUS
<1>9. Turned(w, v, id, c)
  BY <1>5, <1>7, <1>8 DEF Turned
<1> QED  BY <1>1, <1>2, <1>9

LEMMA reconfigureDoes ==
  ASSUME NEW w \in Worlds, NEW id \in DOMAIN w.loggers, NEW v, v = reconfigure(w, id)
  PROVE  Turned(w, v, id, w.loggers[id].conf)
<1>1. PICK c : c = w.loggers[id].conf
  OBVIOUS
<1>2. Complete(c) /\ id \in Ids
  <2>1. w.loggers \in LoggerMaps
    BY DEF Worlds
  <2> QED  BY <1>1, <2>1, LoggerMapOf DEF Worlds, LoggerOK
<1>3. PICK u \in Worlds :
        /\ u = flushAllLevels(w, id) /\ u.loggers = w.loggers
        /\ \A a \in w.files.full \ u.files.full : id \in DOMAIN w.loggers /\ LimitedTo(w.loggers[id].typed, a)
  BY flushAllLevelsDoes
<1>4. v = rebuild(u, id, c)
  BY <1>1, <1>3 DEF reconfigure
<1>5. /\ Turned(u, v, id, c)
      /\ \A a \in u.files.full \ v.files.full : LimitedTo(v.loggers[id].typed, a)
  BY <1>2, <1>4, rebuildDoes
<1>6. \A a \in w.files.full \ v.files.full : a \in w.files.full \ u.files.full \/ a \in u.files.full \ v.files.full
  OBVIOUS
<1>7. Turned(w, v, id, c)
  BY <1>3, <1>5, <1>6 DEF Turned
<1> QED  BY <1>1, <1>7

\* One entry of a logger's list, and nothing else.
Edited(w, v, id, c) ==
  /\ v \in Worlds /\ v.files = w.files /\ DOMAIN v.loggers = DOMAIN w.loggers
  /\ v.loggers[id].conf = c /\ v.loggers[id].built = w.loggers[id].built
  /\ v.loggers[id].typed = w.loggers[id].typed
  /\ \A j \in DOMAIN w.loggers \ {id} : v.loggers[j] = w.loggers[j]

LEMMA setInDoes ==
  ASSUME NEW w \in Worlds, NEW id \in DOMAIN w.loggers, NEW e \in Entry, NEW v, v = setIn(w, id, e)
  PROVE  Edited(w, v, id, set(w.loggers[id].conf, e.level, e.type, e.value))
<1>1. PICK L \in LoggerMaps : L = w.loggers /\ IsFiniteSet(DOMAIN L) /\ \A j \in DOMAIN L : LoggerOK(L[j], w.files)
  BY DEF Worlds
<1>2. DOMAIN L \subseteq Ids /\ L \in [DOMAIN L -> LoggerStates]
  BY <1>1, LoggerMapOf
<1>3. PICK lg \in LoggerStates : lg = L[id] /\ LoggerOK(lg, w.files)
  BY <1>1, <1>2
<1>4. PICK c : c = set(lg.conf, e.level, e.type, e.value)
  OBVIOUS
<1>5. Complete(c)
  <2>1. Complete(lg.conf) /\ lg.conf \in Lists
    BY <1>3 DEF LoggerOK, Complete
  <2> QED  BY <1>4, <2>1, setHits, KeepsComplete
<1>6. PICK mg \in LoggerStates : mg = [lg EXCEPT !.conf = c]
  BY <1>5 DEF LoggerStates, Complete, Lists
<1>7. mg.conf = c /\ mg.built = lg.built /\ mg.typed = lg.typed
  BY <1>6 DEF LoggerStates
<1>8. LoggerOK(mg, w.files)
  BY <1>3, <1>5, <1>7 DEF LoggerOK
<1>9. PICK M : M = [L EXCEPT ![id] = mg]
  OBVIOUS
<1>10. M \in [DOMAIN L -> LoggerStates] /\ M[id] = mg /\ \A j \in DOMAIN L \ {id} : M[j] = L[j]
  BY <1>1, <1>2, <1>9
<1>11. M \in LoggerMaps /\ DOMAIN M = DOMAIN L
  BY <1>2, <1>10, LoggerMapOf
<1>12. \A j \in DOMAIN M : LoggerOK(M[j], w.files)
  BY <1>1, <1>8, <1>10, <1>11
<1>13. v = [loggers |-> M, files |-> w.files]
  <2>1. v = [w EXCEPT !.loggers = [w.loggers EXCEPT ![id] = [w.loggers[id] EXCEPT !.conf = c]]]
    BY <1>1, <1>3, <1>4 DEF setIn
  <2>2. v = [w EXCEPT !.loggers = M]
    BY <1>1, <1>3, <1>6, <1>9, <2>1
  <2> QED  BY <2>2 DEF Worlds
<1>14. FilesOK(w.files) /\ IsFiniteSet(DOMAIN M)
  BY <1>1, <1>11 DEF Worlds
<1>15. v \in Worlds
  <2>1. [loggers |-> M, files |-> w.files] \in Worlds
    BY <1>11, <1>12, <1>14, WorldOf
  <2> QED  BY <1>13, <2>1
<1>16. v.loggers = M /\ v.files = w.files
  BY <1>13
<1>17. Edited(w, v, id, c)
  BY <1>1, <1>3, <1>7, <1>10, <1>11, <1>15, <1>16 DEF Edited
<1> QED  BY <1>1, <1>3, <1>4, <1>17

\* get() makes a logger that is not there, from the defaults.
LEMMA getDoes ==
  ASSUME NEW w \in Worlds, NEW id \in Ids, NEW d, Complete(d), NEW v, v = get(w, id, d)
  PROVE  /\ v \in Worlds /\ DOMAIN v.loggers = DOMAIN w.loggers \cup {id}
         /\ id \in DOMAIN w.loggers => v = w
         /\ id \notin DOMAIN w.loggers => Turned(w, v, id, setFromBase(<<>>, d))
<1>1. CASE id \in DOMAIN w.loggers
  BY <1>1 DEF get
<1>2. CASE id \notin DOMAIN w.loggers
  <2>1. v = configure(w, id, d) /\ d \in Lists
    BY <1>2 DEF get, Complete
  <2>2. Turned(w, v, id, setFromBase(IF id \in DOMAIN w.loggers THEN w.loggers[id].conf ELSE <<>>, d))
    BY <2>1, configureDoes
  <2>3. Turned(w, v, id, setFromBase(<<>>, d))
    BY <1>2, <2>2
  <2> QED  BY <1>2, <2>3 DEF Turned
<1> QED  BY <1>1, <1>2

-----------------------------------------------------------------------------
(* What a logger reads is what its list says.                              *)

LEMMA LastLevel ==
  ASSUME NEW c, Complete(c), NEW t \in Types
  PROVE  /\ Last(LevelSeq) \in Levels
         /\ \A l \in AllLevels : Index(c, l, t) <= Index(c, Last(LevelSeq), t)
<1>1. PICK n \in Nat \ {0} : n = Len(LevelSeq) /\ DOMAIN LevelSeq = 1 .. n
  BY LevelFacts
<1>2. Last(LevelSeq) = LevelSeq[n] /\ LevelSeq[n] \in Levels
  BY <1>1, LevelFacts DEF Last
<1>3. Whole(c, t) /\ \A l \in AllLevels : Index(c, l, t) \in 1 .. Len(c) /\ Len(c) \in Nat
  BY CompletePlaces DEF Complete, Lists
<1>4. \A i \in 1 .. n : LevelSeq[i] \in AllLevels /\ (i < n => Index(c, LevelSeq[i], t) < Index(c, LevelSeq[n], t))
  <2>1. n \in 1 .. n /\ \A i \in 1 .. n : LevelSeq[i] \in AllLevels
    BY <1>1, LevelFacts
  <2>2. \A i, j \in 1 .. n : i < j => Index(c, LevelSeq[i], t) < Index(c, LevelSeq[j], t)
    BY <1>1, <1>3 DEF Whole
  <2> QED  BY <2>1, <2>2
<1>5. ASSUME NEW l \in Levels  PROVE Index(c, l, t) <= Index(c, LevelSeq[n], t)
  <2>1. PICK i \in 1 .. n : l = LevelSeq[i]
    BY <1>1, LevelFacts
  <2>2. CASE i = n
    <3>1. Index(c, l, t) \in 1 .. Len(c) /\ l = LevelSeq[n]
      BY <1>3, <2>1, <2>2, LevelFacts
    <3> QED  BY <3>1
  <2>3. CASE i < n
    <3>1. Index(c, l, t) \in 1 .. Len(c) /\ Index(c, LevelSeq[n], t) \in 1 .. Len(c)
      BY <1>2, <1>3, LevelFacts
    <3> QED  BY <1>3, <1>4, <2>1, <2>3, <3>1
  <2> QED  BY <2>1, <2>2, <2>3
<1>6. Index(c, Global, t) < Index(c, LevelSeq[n], t)
  BY <1>2, <1>3 DEF Whole
<1>7. \A l \in AllLevels : Index(c, l, t) <= Index(c, LevelSeq[n], t)
  <2>1. Index(c, Global, t) \in 1 .. Len(c) /\ Index(c, LevelSeq[n], t) \in 1 .. Len(c)
    BY <1>2, <1>3, LevelFacts
  <2> QED  BY <1>3, <1>5, <1>6, <2>1 DEF AllLevels
<1> QED  BY <1>2, <1>7

LEMMA ReadsFiled ==
  ASSUME NEW c, Complete(c), NEW t \in Types, NEW m, Filed(m, c, Len(c), t), NEW l \in AllLevels, NEW other
  PROVE  getConfig(m, l, other) = Says(c, l, t)
<1>1. \A j \in AllLevels : Index(c, j, t) <= Len(c) /\ ~(Index(c, j, t) > Len(c))
  <2>1. \A j \in AllLevels : Index(c, j, t) \in 1 .. Len(c) /\ Len(c) \in Nat
    BY CompletePlaces DEF Complete, Lists
  <2> QED  BY <2>1
<1>2. /\ Global \in DOMAIN m /\ m[Global] = Says(c, Global, t)
      /\ \A j \in Levels : /\ j \in DOMAIN m <=> Says(c, j, t) # Says(c, Global, t)
                           /\ j \in DOMAIN m => m[j] = Says(c, j, t)
  BY <1>1, LevelFacts DEF Filed
<1>3. CASE l = Global
  BY <1>2, <1>3 DEF getConfig
<1>4. CASE l \in Levels
  BY <1>2, <1>4 DEF getConfig
<1> QED  BY <1>3, <1>4 DEF AllLevels

LEMMA ReadsFiledOnce ==
  ASSUME NEW c, Complete(c), NEW t \in Types, NEW m, FiledOnce(m, c, Len(c), t), NEW l \in AllLevels, NEW other
  PROVE  getConfig(m, l, other) = Says(c, Last(LevelSeq), t)
<1>1. \A j \in AllLevels : Index(c, j, t) <= Len(c) /\ ~(Index(c, j, t) > Len(c))
  <2>1. \A j \in AllLevels : Index(c, j, t) \in 1 .. Len(c) /\ Len(c) \in Nat
    BY CompletePlaces DEF Complete, Lists
  <2> QED  BY <2>1
<1>2. DOMAIN m = {Global}
  BY <1>1, LevelFacts DEF FiledOnce
<1>3. PICK j \in AllLevels : j = Last(LevelSeq) /\ \A i \in AllLevels : Index(c, i, t) <= Index(c, j, t)
  BY LastLevel, LevelFacts
<1>4. m[Global] = Says(c, j, t)
  BY <1>1, <1>3, LevelFacts DEF FiledOnce
<1> QED  BY <1>2, <1>3, <1>4 DEF getConfig

\* A list made of complete one only has its values.
LEMMA CopyOf ==
  ASSUME NEW d, Complete(d), NEW c, c = setFromBase(<<>>, d), NEW l \in AllLevels, NEW t \in Types
  PROVE  Complete(c) /\ Value(c, l, t) = Value(d, l, t)
<1>1. <<>> \in Lists /\ d \in Lists
  BY ListTypes DEF Complete
<1>2. Merged(<<>>, d, Len(d), c, l, t)
  BY <1>1, MergeSets
<1>3. PICK i \in 1 .. Len(d) : i = Index(d, l, t)
  BY CompletePlaces
<1>4. d[i].level = l /\ d[i].type = t /\ Value(d, l, t) = d[i].value
  BY <1>3, CompletePlaces
<1>5. Decides(d, i, Len(d), l, t)
  <2>1. ASSUME NEW j \in 1 .. Len(d), j > i, Hits(d[j], l, t)  PROVE FALSE
    <3>1. d[j].type = t /\ (d[j].level = l \/ d[j].level = Global)
      BY <2>1 DEF Hits
    <3>2. Index(d, Global, t) = j
      <4>1. d[j].level # l
        BY <1>3, <2>1, <3>1, CompletePlaces
      <4>2. d[j].level = Global /\ d[j].type = t
        BY <3>1, <4>1
      <4>3. \A k \in 1 .. Len(d) : d[k].level = Global /\ d[k].type = t => Index(d, Global, t) = k
        <5>1. \A k \in 1 .. Len(d) : \A h \in AllLevels : Index(d, h, t) = k <=> d[k].level = h /\ d[k].type = t
          BY CompletePlaces
        <5> QED  BY <5>1, LevelFacts
      <4> QED  BY <4>2, <4>3
    <3>3. l # Global
      BY <1>3, <2>1, <3>2
    <3>4. Index(d, Global, t) < Index(d, l, t)
      BY <3>3, CompletePlaces DEF AllLevels
    <3> QED  BY <1>3, <2>1, <3>2, <3>4
  <2> QED  BY <1>4, <2>1 DEF Decides, Hits
<1>6. Value(c, l, t) = d[i].value
  BY <1>2, <1>5 DEF Merged
<1>7. Complete(c)
  BY <1>1, MergeComplete
<1> QED  BY <1>4, <1>6, <1>7

\* The limits of a logger are those of its list.
LEMMA LimitsOf ==
  ASSUME NEW y, NEW c, NEW f, Complete(c), TypedOK(y, c, f), NEW a, LimitedTo(y, a)
  PROVE  \E l \in AllLevels : Value(c, l, "Filename") = a /\ getULong(Value(c, l, "MaxLogFileSize")) # 0
<1>1. PICK l \in AllLevels : getConfig(y.filename, l, Null) = a /\ getConfig(y.map["MaxLogFileSize"], l, 0) # 0
  BY DEF LimitedTo
<1>2. Value(c, l, "Filename") = a
  BY <1>1 DEF TypedOK, getConfig
<1>3. "MaxLogFileSize" \in Types /\ Filed(y.map["MaxLogFileSize"], c, Len(c), "MaxLogFileSize")
  BY KeptTypes DEF TypedOK, Kept
<1>4. getConfig(y.map["MaxLogFileSize"], l, 0) = Says(c, l, "MaxLogFileSize")
  BY <1>3, ReadsFiled
<1>5. Says(c, l, "MaxLogFileSize") = getULong(Value(c, l, "MaxLogFileSize"))
  BY DEF Says, Typed
<1> QED  BY <1>1, <1>2, <1>4, <1>5

-----------------------------------------------------------------------------
(* All loggers, one after the other.                                       *)

WorldsOver(S) == {w \in Worlds : DOMAIN w.loggers = S}

\* A logger is changed, and what is truncated was limited by it, before or now.
Changed(u, v, id) ==
  /\ v \in Worlds /\ DOMAIN v.loggers = DOMAIN u.loggers
  /\ \A j \in DOMAIN u.loggers \ {id} : v.loggers[j] = u.loggers[j]
  /\ \A a \in u.files.full \ v.files.full :
       LimitedTo(v.loggers[id].typed, a) \/ LimitedTo(u.loggers[id].typed, a)

LimitedIn(w, a) == \E id \in DOMAIN w.loggers : LimitedTo(w.loggers[id].typed, a)

LEMMA ChangedOnce ==
  /\ \A u, v : \A id \in DOMAIN u.loggers : \A c : Turned(u, v, id, c) => Changed(u, v, id)
  /\ \A w, u, v : \A id \in DOMAIN w.loggers : \A b, c :
       Edited(w, u, id, b) /\ Turned(u, v, id, c) => Changed(w, v, id)
<1>1. ASSUME NEW u, NEW v, NEW id \in DOMAIN u.loggers, NEW c, Turned(u, v, id, c)
      PROVE  Changed(u, v, id)
  <2>1. DOMAIN v.loggers = DOMAIN u.loggers
    BY <1>1 DEF Turned
  <2> QED  BY <1>1, <2>1 DEF Turned, Changed
<1>2. ASSUME NEW w, NEW u, NEW v, NEW id \in DOMAIN w.loggers, NEW b, NEW c,
             Edited(w, u, id, b), Turned(u, v, id, c)
      PROVE  Changed(w, v, id)
  <2>1. DOMAIN u.loggers = DOMAIN w.loggers /\ u.files = w.files
        /\ u.loggers[id].typed = w.loggers[id].typed
        /\ \A j \in DOMAIN w.loggers \ {id} : u.loggers[j] = w.loggers[j]
    BY <1>2 DEF Edited
  <2>2. Changed(u, v, id)
    BY <1>1, <1>2, <2>1
  <2> QED  BY <2>1, <2>2 DEF Changed
<1> QED  BY <1>1, <1>2

\* What is truncated on the way was limited by a logger at the beginning or at the end.
LEMMA ChangedAll ==
  ASSUME NEW w \in Worlds, NEW n \in Nat, NEW q, NEW F,
         \A i, j \in 1 .. n : q[i] = q[j] => i = j,
         \A i \in 1 .. n : q[i] \in DOMAIN w.loggers,
         F[0] = w, \A k \in 1 .. n : F[k] \in Worlds /\ Changed(F[k - 1], F[k], q[k])
  PROVE  /\ F[n] \in WorldsOver(DOMAIN w.loggers)
         /\ \A a \in w.files.full \ F[n].files.full : LimitedIn(w, a) \/ LimitedIn(F[n], a)
<1> DEFINE OK(k, v) ==
             /\ v \in WorldsOver(DOMAIN w.loggers)
             /\ \A i \in k + 1 .. n : v.loggers[q[i]] = w.loggers[q[i]]
             /\ \A a \in w.files.full \ v.files.full :
                  LimitedIn(w, a) \/ \E i \in 1 .. k : LimitedTo(v.loggers[q[i]].typed, a)
           P == {k \in 0 .. n : OK(k, F[k])}
<1>1. 0 \in P
  BY DEF WorldsOver
<1>2. ASSUME NEW k \in 1 .. n, k - 1 \in P  PROVE k \in P
  <2>1. PICK u : u = F[k - 1] /\ OK(k - 1, u)
    BY <1>2
  <2>2. PICK v : v = F[k] /\ v \in Worlds /\ Changed(u, v, q[k])
    BY <2>1
  <2>3. v \in WorldsOver(DOMAIN w.loggers) /\ DOMAIN u.loggers = DOMAIN w.loggers
    BY <2>1, <2>2 DEF Changed, WorldsOver
  <2>4. ASSUME NEW i \in 1 .. n, i # k  PROVE v.loggers[q[i]] = u.loggers[q[i]]
    <3>1. q[i] \in DOMAIN u.loggers \ {q[k]}
      BY <2>3, <2>4
    <3> QED  BY <2>2, <3>1 DEF Changed
  <2>5. \A i \in k + 1 .. n : v.loggers[q[i]] = w.loggers[q[i]]
    <3>1. \A i \in k + 1 .. n : i \in (k - 1) + 1 .. n /\ i \in 1 .. n /\ i # k
      OBVIOUS
    <3> QED  BY <2>1, <2>4, <3>1
  <2>6. u.loggers[q[k]] = w.loggers[q[k]]
    <3>1. k \in (k - 1) + 1 .. n
      OBVIOUS
    <3> QED  BY <2>1, <3>1
  <2>7. ASSUME NEW a \in w.files.full \ v.files.full
        PROVE  LimitedIn(w, a) \/ \E i \in 1 .. k : LimitedTo(v.loggers[q[i]].typed, a)
    <3>1. CASE a \notin u.files.full
      <4>1. LimitedIn(w, a) \/ \E i \in 1 .. k - 1 : LimitedTo(u.loggers[q[i]].typed, a)
        BY <2>1, <3>1
      <4>2. \A i \in 1 .. k - 1 : i \in 1 .. n /\ i # k /\ i \in 1 .. k
        OBVIOUS
      <4> QED  BY <2>4, <4>1, <4>2
    <3>2. CASE a \in u.files.full
      <4>1. LimitedTo(v.loggers[q[k]].typed, a) \/ LimitedTo(u.loggers[q[k]].typed, a)
        BY <2>2, <3>2 DEF Changed
      <4>2. k \in 1 .. k /\ q[k] \in DOMAIN w.loggers
        OBVIOUS
      <4> QED  BY <2>6, <4>1, <4>2 DEF LimitedIn
    <3> QED  BY <3>1, <3>2
  <2>8. OK(k, v)
    BY <2>3, <2>5, <2>7
  <2> QED  BY <2>2, <2>8
<1>3. n \in P
  <2>1. PICK Q : Q = P
    OBVIOUS
  <2>2. 0 \in Q /\ \A k \in 1 .. n : k - 1 \in Q => k \in Q
    <3> HIDE DEF P
    <3> QED  BY <1>1, <1>2, <2>1
  <2>3. \A k \in 0 .. n : k \in Q
    BY <2>2, UpTo
  <2>4. n \in Q
    BY <2>3
  <2> QED  BY <2>1, <2>4
<1>4. OK(n, F[n])
  BY <1>3
<1>5. ASSUME NEW a \in w.files.full \ F[n].files.full  PROVE LimitedIn(w, a) \/ LimitedIn(F[n], a)
  <2>1. \A i \in 1 .. n : q[i] \in DOMAIN F[n].loggers
    BY <1>4 DEF WorldsOver
  <2> QED  BY <1>4, <2>1 DEF LimitedIn
<1> QED  BY <1>4, <1>5

LEMMA configureStays ==
  ASSUME NEW S, NEW w \in WorldsOver(S), NEW id \in S, NEW c \in Lists, NEW v, v = configure(w, id, c)
  PROVE  v \in WorldsOver(S) /\ Changed(w, v, id)
<1>1. w \in Worlds /\ id \in DOMAIN w.loggers /\ id \in Ids
  <2>1. w.loggers \in LoggerMaps
    BY DEF Worlds, WorldsOver
  <2> QED  BY <2>1, LoggerMapOf DEF WorldsOver
<1>2. \E d : Turned(w, v, id, d)
  BY <1>1, configureDoes
<1>3. Changed(w, v, id)
  BY <1>1, <1>2, ChangedOnce
<1> QED  BY <1>3 DEF Changed, WorldsOver

LEMMA reconfigureStays ==
  ASSUME NEW S, NEW w \in WorldsOver(S), NEW id \in S, NEW e \in Entry, NEW v, v = reconfigure(setIn(w, id, e), id)
  PROVE  v \in WorldsOver(S) /\ Changed(w, v, id)
<1>1. w \in Worlds /\ id \in DOMAIN w.loggers
  BY DEF WorldsOver
<1>2. PICK u, b : u = setIn(w, id, e) /\ Edited(w, u, id, b)
  BY <1>1, setInDoes
<1>3. u \in Worlds /\ id \in DOMAIN u.loggers
  BY <1>1, <1>2 DEF Edited
<1>4. PICK c : Turned(u, v, id, c)
  BY <1>2, <1>3, reconfigureDoes
<1>5. Changed(w, v, id)
  BY <1>1, <1>2, <1>4, ChangedOnce
<1> QED  BY <1>5 DEF Changed, WorldsOver

\* configureAll, logger by logger.
LEMMA configureAllFolds ==
  ASSUME NEW w \in Worlds, NEW c \in Lists
  PROVE  \E F \in [0 .. Len(SetToSeq(DOMAIN w.loggers)) -> WorldsOver(DOMAIN w.loggers)] :
           /\ F[0] = w /\ F[Len(SetToSeq(DOMAIN w.loggers))] = configureAll(w, c)
           /\ \A k \in 1 .. Len(SetToSeq(DOMAIN w.loggers)) : F[k] = configure(F[k - 1], SetToSeq(DOMAIN w.loggers)[k], c)
<1> DEFINE q == SetToSeq(DOMAIN w.loggers)
           base == w
           g == [p \in WorldsOver(DOMAIN w.loggers) \X DOMAIN w.loggers |-> configure(p[1], p[2], c)]
           Is(h) == h = [T \in SUBSET DOMAIN q |->
                           IF T = {} THEN base ELSE configure(h[T \ {Max(T)}], q[Max(T)], c)]
<1>1. q \in Seq(DOMAIN w.loggers) /\ base \in WorldsOver(DOMAIN w.loggers)
  BY SetToSeqOf DEF Worlds, WorldsOver
<1>2. g \in [WorldsOver(DOMAIN w.loggers) \X DOMAIN w.loggers -> WorldsOver(DOMAIN w.loggers)]
  <2>1. \A d \in WorldsOver(DOMAIN w.loggers), x \in DOMAIN w.loggers : configure(d, x, c) \in WorldsOver(DOMAIN w.loggers)
    BY configureStays
  <2> QED  BY <2>1
<1>3. PICK f \in [SUBSET DOMAIN q -> WorldsOver(DOMAIN w.loggers)] : Folding(f, g, base, q)
  <2> HIDE DEF g, q, base
  <2> QED  BY <1>1, <1>2, FoldingExists
<1>4. \A T \in SUBSET DOMAIN q : T # {} => q[Max(T)] \in DOMAIN w.loggers /\ T \ {Max(T)} \in SUBSET DOMAIN q
  <2> HIDE DEF q
  <2> QED  BY <1>1, MaxIn
<1>5. Is(f)
  <2>1. \A T \in SUBSET DOMAIN q : T # {} =>
          g[<<f[T \ {Max(T)}], q[Max(T)]>>] = configure(f[T \ {Max(T)}], q[Max(T)], c)
    BY <1>4
  <2> HIDE DEF g, q, base
  <2> QED  BY <1>3, <2>1 DEF Folding
<1>6. PICK h : h = CHOOSE z : Is(z)
  OBVIOUS
<1>7. Is(h)
  <2> HIDE DEF Is
  <2> QED  BY <1>5, <1>6
<1>8. Iterates(h, WorldsOver(DOMAIN w.loggers), g, base, q)
  <2>1. \A T \in SUBSET DOMAIN q : T # {} /\ h[T \ {Max(T)}] \in WorldsOver(DOMAIN w.loggers) =>
          g[<<h[T \ {Max(T)}], q[Max(T)]>>] = configure(h[T \ {Max(T)}], q[Max(T)], c)
    BY <1>4
  <2> HIDE DEF g, q, base
  <2> QED  BY <1>7, <2>1 DEF Iterates
<1>9. configureAll(w, c) = h[DOMAIN q]
  BY <1>6 DEF configureAll, FoldLeft, MapThenFoldSet
<1>10. PICK F : /\ Steps(F, WorldsOver(DOMAIN w.loggers), g, base, q) /\ h[DOMAIN q] = F[Len(q)]
                /\ \A k \in 1 .. Len(q) : F[k - 1] \in WorldsOver(DOMAIN w.loggers) /\ q[k] \in DOMAIN w.loggers
  <2> HIDE DEF g, q, base
  <2> QED  BY <1>1, <1>2, <1>8, FoldSteps, ZenonT(60)
<1>11. \A k \in 1 .. Len(q) : F[k] = configure(F[k - 1], q[k], c)
  BY <1>10 DEF Steps
<1> HIDE DEF g, Is
<1> QED  BY <1>9, <1>10, <1>11 DEF Steps

\* reconfigureAll, logger by logger.
LEMMA reconfigureAllFolds ==
  ASSUME NEW w \in Worlds, NEW e \in Entry
  PROVE  \E F \in [0 .. Len(SetToSeq(DOMAIN w.loggers)) -> WorldsOver(DOMAIN w.loggers)] :
           /\ F[0] = w /\ F[Len(SetToSeq(DOMAIN w.loggers))] = reconfigureAll(w, e)
           /\ \A k \in 1 .. Len(SetToSeq(DOMAIN w.loggers)) : F[k] = reconfigure(setIn(F[k - 1], SetToSeq(DOMAIN w.loggers)[k], e), SetToSeq(DOMAIN w.loggers)[k])
<1> DEFINE q == SetToSeq(DOMAIN w.loggers)
           base == w
           g == [p \in WorldsOver(DOMAIN w.loggers) \X DOMAIN w.loggers |-> reconfigure(setIn(p[1], p[2], e), p[2])]
           Is(h) == h = [T \in SUBSET DOMAIN q |->
                           IF T = {} THEN base ELSE reconfigure(setIn(h[T \ {Max(T)}], q[Max(T)], e), q[Max(T)])]
<1>1. q \in Seq(DOMAIN w.loggers) /\ base \in WorldsOver(DOMAIN w.loggers)
  BY SetToSeqOf DEF Worlds, WorldsOver
<1>2. g \in [WorldsOver(DOMAIN w.loggers) \X DOMAIN w.loggers -> WorldsOver(DOMAIN w.loggers)]
  <2>1. \A d \in WorldsOver(DOMAIN w.loggers), x \in DOMAIN w.loggers : reconfigure(setIn(d, x, e), x) \in WorldsOver(DOMAIN w.loggers)
    BY reconfigureStays
  <2> QED  BY <2>1
<1>3. PICK f \in [SUBSET DOMAIN q -> WorldsOver(DOMAIN w.loggers)] : Folding(f, g, base, q)
  <2> HIDE DEF g, q, base
  <2> QED  BY <1>1, <1>2, FoldingExists
<1>4. \A T \in SUBSET DOMAIN q : T # {} => q[Max(T)] \in DOMAIN w.loggers /\ T \ {Max(T)} \in SUBSET DOMAIN q
  <2> HIDE DEF q
  <2> QED  BY <1>1, MaxIn
<1>5. Is(f)
  <2>1. \A T \in SUBSET DOMAIN q : T # {} =>
          g[<<f[T \ {Max(T)}], q[Max(T)]>>] = reconfigure(setIn(f[T \ {Max(T)}], q[Max(T)], e), q[Max(T)])
    BY <1>4
  <2> HIDE DEF g, q, base
  <2> QED  BY <1>3, <2>1 DEF Folding
<1>6. PICK h : h = CHOOSE z : Is(z)
  OBVIOUS
<1>7. Is(h)
  <2> HIDE DEF Is
  <2> QED  BY <1>5, <1>6
<1>8. Iterates(h, WorldsOver(DOMAIN w.loggers), g, base, q)
  <2>1. \A T \in SUBSET DOMAIN q : T # {} /\ h[T \ {Max(T)}] \in WorldsOver(DOMAIN w.loggers) =>
          g[<<h[T \ {Max(T)}], q[Max(T)]>>] = reconfigure(setIn(h[T \ {Max(T)}], q[Max(T)], e), q[Max(T)])
    BY <1>4
  <2> HIDE DEF g, q, base
  <2> QED  BY <1>7, <2>1 DEF Iterates
<1>9. reconfigureAll(w, e) = h[DOMAIN q]
  BY <1>6 DEF reconfigureAll, FoldLeft, MapThenFoldSet
<1>10. PICK F : /\ Steps(F, WorldsOver(DOMAIN w.loggers), g, base, q) /\ h[DOMAIN q] = F[Len(q)]
                /\ \A k \in 1 .. Len(q) : F[k - 1] \in WorldsOver(DOMAIN w.loggers) /\ q[k] \in DOMAIN w.loggers
  <2> HIDE DEF g, q, base
  <2> QED  BY <1>1, <1>2, <1>8, FoldSteps, ZenonT(60)
<1>11. \A k \in 1 .. Len(q) : F[k] = reconfigure(setIn(F[k - 1], q[k], e), q[k])
  BY <1>10 DEF Steps
<1> HIDE DEF g, Is
<1> QED  BY <1>9, <1>10, <1>11 DEF Steps

LEMMA configureAllDoes ==
  ASSUME NEW w \in Worlds, NEW c \in Lists, NEW v, v = configureAll(w, c)
  PROVE  /\ v \in WorldsOver(DOMAIN w.loggers)
         /\ \A a \in w.files.full \ v.files.full : LimitedIn(w, a) \/ LimitedIn(v, a)
<1>1. IsFiniteSet(DOMAIN w.loggers)
  BY DEF Worlds
<1>2. PICK q : q = SetToSeq(DOMAIN w.loggers) /\ q \in Seq(DOMAIN w.loggers)
               /\ \A i, j \in 1 .. Len(q) : q[i] = q[j] => i = j
  BY <1>1, SetToSeqOf
<1>3. PICK n \in Nat : n = Len(q) /\ \A k \in 1 .. n : q[k] \in DOMAIN w.loggers
  BY <1>2
<1>4. PICK F \in [0 .. n -> WorldsOver(DOMAIN w.loggers)] :
        F[0] = w /\ F[n] = v /\ \A k \in 1 .. n : F[k] = configure(F[k - 1], q[k], c)
  <2>1. \E G \in [0 .. Len(SetToSeq(DOMAIN w.loggers)) -> WorldsOver(DOMAIN w.loggers)] :
          /\ G[0] = w /\ G[Len(SetToSeq(DOMAIN w.loggers))] = configureAll(w, c)
          /\ \A k \in 1 .. Len(SetToSeq(DOMAIN w.loggers)) :
               G[k] = configure(G[k - 1], SetToSeq(DOMAIN w.loggers)[k], c)
    BY configureAllFolds
  <2> QED  BY <1>2, <1>3, <2>1
<1>5. ASSUME NEW k \in 1 .. n  PROVE F[k] \in Worlds /\ Changed(F[k - 1], F[k], q[k])
  <2>1. PICK x \in WorldsOver(DOMAIN w.loggers) : x = F[k - 1]
    BY <1>4
  <2>2. PICK y \in WorldsOver(DOMAIN w.loggers) : y = F[k]
    BY <1>4
  <2>3. y = configure(x, q[k], c)
    BY <1>4, <2>1, <2>2
  <2>4. Changed(x, y, q[k])
    BY <1>3, <2>3, configureStays
  <2> QED  BY <2>1, <2>2, <2>4 DEF WorldsOver
<1>6. \A i, j \in 1 .. n : q[i] = q[j] => i = j
  BY <1>2, <1>3
<1>7. \A k \in 1 .. n : F[k] \in Worlds /\ Changed(F[k - 1], F[k], q[k])
  BY <1>5
<1>8. F[0] = w /\ \A i \in 1 .. n : q[i] \in DOMAIN w.loggers
  BY <1>3, <1>4
<1>9. /\ F[n] \in WorldsOver(DOMAIN w.loggers)
      /\ \A a \in w.files.full \ F[n].files.full : LimitedIn(w, a) \/ LimitedIn(F[n], a)
  BY <1>6, <1>7, <1>8, ChangedAll
<1> QED  BY <1>4, <1>9


LEMMA reconfigureAllDoes ==
  ASSUME NEW w \in Worlds, NEW e \in Entry, NEW v, v = reconfigureAll(w, e)
  PROVE  /\ v \in WorldsOver(DOMAIN w.loggers)
         /\ \A a \in w.files.full \ v.files.full : LimitedIn(w, a) \/ LimitedIn(v, a)
<1>1. IsFiniteSet(DOMAIN w.loggers)
  BY DEF Worlds
<1>2. PICK q : q = SetToSeq(DOMAIN w.loggers) /\ q \in Seq(DOMAIN w.loggers)
               /\ \A i, j \in 1 .. Len(q) : q[i] = q[j] => i = j
  BY <1>1, SetToSeqOf
<1>3. PICK n \in Nat : n = Len(q) /\ \A k \in 1 .. n : q[k] \in DOMAIN w.loggers
  BY <1>2
<1>4. PICK F \in [0 .. n -> WorldsOver(DOMAIN w.loggers)] :
        F[0] = w /\ F[n] = v /\ \A k \in 1 .. n : F[k] = reconfigure(setIn(F[k - 1], q[k], e), q[k])
  <2>1. \E G \in [0 .. Len(SetToSeq(DOMAIN w.loggers)) -> WorldsOver(DOMAIN w.loggers)] :
          /\ G[0] = w /\ G[Len(SetToSeq(DOMAIN w.loggers))] = reconfigureAll(w, e)
          /\ \A k \in 1 .. Len(SetToSeq(DOMAIN w.loggers)) :
               G[k] = reconfigure(setIn(G[k - 1], SetToSeq(DOMAIN w.loggers)[k], e), SetToSeq(DOMAIN w.loggers)[k])
    BY reconfigureAllFolds
  <2> QED  BY <1>2, <1>3, <2>1
<1>5. ASSUME NEW k \in 1 .. n  PROVE F[k] \in Worlds /\ Changed(F[k - 1], F[k], q[k])
  <2>1. PICK x \in WorldsOver(DOMAIN w.loggers) : x = F[k - 1]
    BY <1>4
  <2>2. PICK y \in WorldsOver(DOMAIN w.loggers) : y = F[k]
    BY <1>4
  <2>3. y = reconfigure(setIn(x, q[k], e), q[k])
    BY <1>4, <2>1, <2>2
  <2>4. Changed(x, y, q[k])
    BY <1>3, <2>3, reconfigureStays
  <2> QED  BY <2>1, <2>2, <2>4 DEF WorldsOver
<1>6. \A i, j \in 1 .. n : q[i] = q[j] => i = j
  BY <1>2, <1>3
<1>7. \A k \in 1 .. n : F[k] \in Worlds /\ Changed(F[k - 1], F[k], q[k])
  BY <1>5
<1>8. F[0] = w /\ \A i \in 1 .. n : q[i] \in DOMAIN w.loggers
  BY <1>3, <1>4
<1>9. /\ F[n] \in WorldsOver(DOMAIN w.loggers)
      /\ \A a \in w.files.full \ F[n].files.full : LimitedIn(w, a) \/ LimitedIn(F[n], a)
  BY <1>6, <1>7, <1>8, ChangedAll
<1> QED  BY <1>4, <1>9

\* The sections of a global configuration: where it got, no logger having gone.
SectionStates(w) ==
  {g \in [id : Ids \cup {Null}, w : Worlds] :
     /\ DOMAIN w.loggers \subseteq DOMAIN g.w.loggers
     /\ g.id = Null \/ g.id \in DOMAIN g.w.loggers}

LEMMA sectionStays ==
  ASSUME NEW w \in Worlds, NEW d, Complete(d), NEW g \in SectionStates(w),
         NEW s, s.id \in Ids \cup {Null}, IsText(s.text), NEW h, h = section(d, g, s)
  PROVE  h \in SectionStates(w)
<1>1. PICK id \in Ids \cup {Null} : id = IF s.id = Null THEN g.id ELSE s.id
  BY DEF SectionStates
<1>2. PICK u : u = IF s.id = Null THEN g.w ELSE get(g.w, id, d)
  OBVIOUS
<1>3. g.w \in Worlds /\ DOMAIN w.loggers \subseteq DOMAIN g.w.loggers /\ (g.id = Null \/ g.id \in DOMAIN g.w.loggers)
  BY DEF SectionStates
<1>4. /\ u \in Worlds /\ DOMAIN w.loggers \subseteq DOMAIN u.loggers
      /\ id = Null \/ id \in DOMAIN u.loggers
  <2>1. CASE s.id = Null
    BY <1>1, <1>2, <1>3, <2>1
  <2>2. CASE s.id # Null
    <3>1. id \in Ids /\ u = get(g.w, id, d)
      BY <1>1, <1>2, <2>2
    <3>2. u \in Worlds /\ DOMAIN u.loggers = DOMAIN g.w.loggers \cup {id}
      BY <1>3, <3>1, getDoes
    <3> QED  BY <1>3, <3>2
  <2> QED  BY <2>1, <2>2
<1>5. PICK v : v = IF s.text = <<>> \/ id = Null THEN u ELSE configure(u, id, parseFromText(<<>>, s.text).conf)
  OBVIOUS
<1>6. /\ v \in Worlds /\ DOMAIN w.loggers \subseteq DOMAIN v.loggers
      /\ id = Null \/ id \in DOMAIN v.loggers
  <2>1. CASE s.text = <<>> \/ id = Null
    BY <1>4, <1>5, <2>1
  <2>2. CASE ~(s.text = <<>> \/ id = Null)
    <3>1. PICK c \in Lists : c = parseFromText(<<>>, s.text).conf
      BY ListTypes, ParsedList
    <3>2. v = configure(u, id, c) /\ id \in DOMAIN u.loggers
      BY <1>4, <1>5, <2>2, <3>1
    <3>3. u \in WorldsOver(DOMAIN u.loggers)
      BY <1>4 DEF WorldsOver
    <3>4. v \in WorldsOver(DOMAIN u.loggers)
      BY <3>2, <3>3, configureStays
    <3> QED  BY <1>4, <3>2, <3>4 DEF WorldsOver
  <2> QED  BY <2>1, <2>2
<1>7. h = [id |-> id, w |-> v]
  BY <1>1, <1>2, <1>5 DEF section
<1> QED  BY <1>1, <1>6, <1>7 DEF SectionStates

\* Section by section.
LEMMA parseSectionsFolds ==
  ASSUME NEW w \in Worlds, NEW c, Complete(c), NEW sections, sections \in Seq(Range(sections)),
         \A s \in Range(sections) : s.id \in Ids \cup {Null} /\ IsText(s.text)
  PROVE  \E F \in [0 .. Len(sections) -> SectionStates(w)] :
           /\ F[0] = [id |-> Null, w |-> w] /\ F[Len(sections)] = parseSections(w, c, sections)
           /\ \A k \in 1 .. Len(sections) : F[k] = section(c, F[k - 1], sections[k])
<1> DEFINE q == sections
           base == [id |-> Null, w |-> w]
           g == [p \in SectionStates(w) \X Range(sections) |-> section(c, p[1], p[2])]
           Is(h) == h = [T \in SUBSET DOMAIN q |->
                           IF T = {} THEN base ELSE section(c, h[T \ {Max(T)}], q[Max(T)])]
<1>1. q \in Seq(Range(sections)) /\ base \in SectionStates(w)
  BY DEF SectionStates
<1>2. g \in [SectionStates(w) \X Range(sections) -> SectionStates(w)]
  <2>1. \A d \in SectionStates(w), x \in Range(sections) : section(c, d, x) \in SectionStates(w)
    BY sectionStays
  <2> QED  BY <2>1
<1>3. PICK f \in [SUBSET DOMAIN q -> SectionStates(w)] : Folding(f, g, base, q)
  <2> HIDE DEF g, q, base
  <2> QED  BY <1>1, <1>2, FoldingExists
<1>4. \A T \in SUBSET DOMAIN q : T # {} => q[Max(T)] \in Range(sections) /\ T \ {Max(T)} \in SUBSET DOMAIN q
  <2> HIDE DEF q
  <2> QED  BY <1>1, MaxIn
<1>5. Is(f)
  <2>1. \A T \in SUBSET DOMAIN q : T # {} =>
          g[<<f[T \ {Max(T)}], q[Max(T)]>>] = section(c, f[T \ {Max(T)}], q[Max(T)])
    BY <1>4
  <2> HIDE DEF g, q, base
  <2> QED  BY <1>3, <2>1 DEF Folding
<1>6. PICK h : h = CHOOSE z : Is(z)
  OBVIOUS
<1>7. Is(h)
  <2> HIDE DEF Is
  <2> QED  BY <1>5, <1>6
<1>8. Iterates(h, SectionStates(w), g, base, q)
  <2>1. \A T \in SUBSET DOMAIN q : T # {} /\ h[T \ {Max(T)}] \in SectionStates(w) =>
          g[<<h[T \ {Max(T)}], q[Max(T)]>>] = section(c, h[T \ {Max(T)}], q[Max(T)])
    BY <1>4
  <2> HIDE DEF g, q, base
  <2> QED  BY <1>7, <2>1 DEF Iterates
<1>9. parseSections(w, c, sections) = h[DOMAIN q]
  BY <1>6 DEF parseSections, FoldLeft, MapThenFoldSet
<1>10. PICK F : /\ Steps(F, SectionStates(w), g, base, q) /\ h[DOMAIN q] = F[Len(q)]
                /\ \A k \in 1 .. Len(q) : F[k - 1] \in SectionStates(w) /\ q[k] \in Range(sections)
  <2> HIDE DEF g, q, base
  <2> QED  BY <1>1, <1>2, <1>8, FoldSteps, ZenonT(60)
<1>11. \A k \in 1 .. Len(q) : F[k] = section(c, F[k - 1], q[k])
  BY <1>10 DEF Steps
<1> HIDE DEF g, Is
<1> QED  BY <1>9, <1>10, <1>11 DEF Steps

\* Logger by logger.
LEMMA getInitialFolds ==
  ASSUME NEW w \in Worlds, NEW c, Complete(c)
  PROVE  \E F \in [0 .. Len(SetToSeq(Initial)) -> Worlds] :
           /\ F[0] = w /\ F[Len(SetToSeq(Initial))] = getInitial(w, c)
           /\ \A k \in 1 .. Len(SetToSeq(Initial)) : F[k] = get(F[k - 1], SetToSeq(Initial)[k], c)
<1> DEFINE q == SetToSeq(Initial)
           base == w
           g == [p \in Worlds \X Initial |-> get(p[1], p[2], c)]
           Is(h) == h = [T \in SUBSET DOMAIN q |->
                           IF T = {} THEN base ELSE get(h[T \ {Max(T)}], q[Max(T)], c)]
<1>1. q \in Seq(Initial) /\ base \in Worlds
  BY SetToSeqOf, LogConfigAssumption
<1>2. g \in [Worlds \X Initial -> Worlds]
  <2>1. \A d \in Worlds, x \in Initial : get(d, x, c) \in Worlds
    BY getDoes, LogConfigAssumption
  <2> QED  BY <2>1
<1>3. PICK f \in [SUBSET DOMAIN q -> Worlds] : Folding(f, g, base, q)
  <2> HIDE DEF g, q, base
  <2> QED  BY <1>1, <1>2, FoldingExists
<1>4. \A T \in SUBSET DOMAIN q : T # {} => q[Max(T)] \in Initial /\ T \ {Max(T)} \in SUBSET DOMAIN q
  <2> HIDE DEF q
  <2> QED  BY <1>1, MaxIn
<1>5. Is(f)
  <2>1. \A T \in SUBSET DOMAIN q : T # {} =>
          g[<<f[T \ {Max(T)}], q[Max(T)]>>] = get(f[T \ {Max(T)}], q[Max(T)], c)
    BY <1>4
  <2> HIDE DEF g, q, base
  <2> QED  BY <1>3, <2>1 DEF Folding
<1>6. PICK h : h = CHOOSE z : Is(z)
  OBVIOUS
<1>7. Is(h)
  <2> HIDE DEF Is
  <2> QED  BY <1>5, <1>6
<1>8. Iterates(h, Worlds, g, base, q)
  <2>1. \A T \in SUBSET DOMAIN q : T # {} /\ h[T \ {Max(T)}] \in Worlds =>
          g[<<h[T \ {Max(T)}], q[Max(T)]>>] = get(h[T \ {Max(T)}], q[Max(T)], c)
    BY <1>4
  <2> HIDE DEF g, q, base
  <2> QED  BY <1>7, <2>1 DEF Iterates
<1>9. getInitial(w, c) = h[DOMAIN q]
  BY <1>6 DEF getInitial, FoldLeft, MapThenFoldSet
<1>10. PICK F : /\ Steps(F, Worlds, g, base, q) /\ h[DOMAIN q] = F[Len(q)]
                /\ \A k \in 1 .. Len(q) : F[k - 1] \in Worlds /\ q[k] \in Initial
  <2> HIDE DEF g, q, base
  <2> QED  BY <1>1, <1>2, <1>8, FoldSteps, ZenonT(60)
<1>11. \A k \in 1 .. Len(q) : F[k] = get(F[k - 1], q[k], c)
  BY <1>10 DEF Steps
<1> HIDE DEF g, Is
<1> QED  BY <1>9, <1>10, <1>11 DEF Steps

LEMMA parseSectionsDoes ==
  ASSUME NEW w \in Worlds, NEW c, Complete(c), NEW sections, sections \in Seq(Range(sections)),
         \A s \in Range(sections) : s.id \in Ids \cup {Null} /\ IsText(s.text),
         NEW v, v = parseSections(w, c, sections).w
  PROVE  v \in Worlds /\ DOMAIN w.loggers \subseteq DOMAIN v.loggers
<1>1. PICK n \in Nat : n = Len(sections)
  OBVIOUS
<1>2. \E F \in [0 .. n -> SectionStates(w)] : F[n] = parseSections(w, c, sections)
  <2>1. \E F \in [0 .. Len(sections) -> SectionStates(w)] :
          /\ F[0] = [id |-> Null, w |-> w] /\ F[Len(sections)] = parseSections(w, c, sections)
          /\ \A k \in 1 .. Len(sections) : F[k] = section(c, F[k - 1], sections[k])
    BY parseSectionsFolds
  <2> QED  BY <1>1, <2>1
<1>3. parseSections(w, c, sections) \in SectionStates(w)
  BY <1>2
<1> QED  BY <1>3 DEF SectionStates

LEMMA getInitialDoes ==
  ASSUME NEW w \in Worlds, NEW c, Complete(c), NEW v, v = getInitial(w, c)
  PROVE  v \in Worlds /\ Initial \subseteq DOMAIN v.loggers
<1>1. IsFiniteSet(Initial) /\ Initial \subseteq Ids
  BY LogConfigAssumption
<1>2. PICK q : q = SetToSeq(Initial) /\ q \in Seq(Initial) /\ \A x \in Initial : \E i \in 1 .. Len(q) : q[i] = x
  BY <1>1, SetToSeqOf
<1>3. PICK n \in Nat : n = Len(q) /\ \A k \in 1 .. n : q[k] \in Initial
  BY <1>2
<1>4. PICK F \in [0 .. n -> Worlds] :
        F[0] = w /\ F[n] = v /\ \A k \in 1 .. n : F[k] = get(F[k - 1], q[k], c)
  <2>1. \E G \in [0 .. Len(SetToSeq(Initial)) -> Worlds] :
          /\ G[0] = w /\ G[Len(SetToSeq(Initial))] = getInitial(w, c)
          /\ \A k \in 1 .. Len(SetToSeq(Initial)) : G[k] = get(G[k - 1], SetToSeq(Initial)[k], c)
    BY getInitialFolds
  <2> QED  BY <1>2, <1>3, <2>1
<1> DEFINE P == {k \in 0 .. n : \A i \in 1 .. k : q[i] \in DOMAIN F[k].loggers}
<1>5. 0 \in P
  OBVIOUS
<1>6. ASSUME NEW k \in 1 .. n, k - 1 \in P  PROVE k \in P
  <2>1. PICK x \in Worlds : x = F[k - 1] /\ \A i \in 1 .. k - 1 : q[i] \in DOMAIN x.loggers
    BY <1>4, <1>6
  <2>2. PICK y : y = F[k] /\ y = get(x, q[k], c) /\ q[k] \in Ids
    BY <1>1, <1>3, <1>4, <2>1
  <2>3. DOMAIN y.loggers = DOMAIN x.loggers \cup {q[k]}
    BY <2>2, getDoes
  <2>4. \A i \in 1 .. k : i \in 1 .. k - 1 \/ i = k
    OBVIOUS
  <2>5. \A i \in 1 .. k : q[i] \in DOMAIN y.loggers
    BY <2>1, <2>3, <2>4
  <2>6. k \in 0 .. n /\ \A i \in 1 .. k : q[i] \in DOMAIN F[k].loggers
    BY <2>2, <2>5
  <2> QED  BY <2>6
<1>7. n \in P
  <2>1. PICK Q : Q = P
    OBVIOUS
  <2>2. 0 \in Q /\ \A k \in 1 .. n : k - 1 \in Q => k \in Q
    <3> HIDE DEF P
    <3> QED  BY <1>5, <1>6, <2>1
  <2>3. \A k \in 0 .. n : k \in Q
    BY <2>2, UpTo
  <2>4. n \in Q
    BY <2>3
  <2> QED  BY <2>1, <2>4
<1>8. \A i \in 1 .. n : q[i] \in DOMAIN v.loggers
  BY <1>4, <1>7
<1>9. v \in Worlds
  BY <1>4
<1> QED  BY <1>2, <1>3, <1>8, <1>9

-----------------------------------------------------------------------------
(* Lists in which Global's entry comes with one for every level.           *)

Covered(c, t) == hasConfiguration(c, Global, t) => \A l \in AllLevels : hasConfiguration(c, l, t)
CoveredLists == {c \in Lists : \A t \in Types : Covered(c, t)}

LEMMA SetsCovered ==
  ASSUME NEW c \in CoveredLists, NEW d, NEW A \in SUBSET AllLevels, NEW t \in Types, NEW v,
         Sets(c, d, A, t, v), Global \in A => A = AllLevels
  PROVE  d \in CoveredLists
<1>1. c \in Lists /\ d \in Lists /\ \A s \in Types : Covered(c, s)
  BY DEF CoveredLists, Sets
<1>2. \A l \in AllLevels, s \in Types : hasConfiguration(c, l, s) => hasConfiguration(d, l, s)
  BY DEF Sets, Same
<1>3. \A l \in A : hasConfiguration(d, l, t)
  BY DEF Sets
<1>4. \A s \in Types : ~(Global \in A /\ s = t) => (hasConfiguration(d, Global, s) => hasConfiguration(c, Global, s))
  BY LevelFacts DEF Sets, Same
<1>5. \A s \in Types : Covered(d, s)
  BY <1>1, <1>2, <1>3, <1>4 DEF Covered
<1> QED  BY <1>1, <1>5 DEF CoveredLists

LEMMA setCovered ==
  ASSUME NEW c \in CoveredLists, NEW l \in AllLevels, NEW t, NEW v, Settable(t, v)
  PROVE  set(c, l, t, v) \in CoveredLists
<1>1. c \in Lists /\ t \in Types
  BY DEF CoveredLists, Settable
<1>2. PICK A \in SUBSET AllLevels : A = Affected(l)
  BY DEF Affected
<1>3. Sets(c, set(c, l, t, v), A, t, v)
  BY <1>1, <1>2, setSets
<1>4. Global \in A => A = AllLevels
  BY <1>2, LevelFacts DEF Affected
<1> QED  BY <1>1, <1>3, <1>4, SetsCovered

LEMMA setGloballyCovered ==
  ASSUME NEW c \in CoveredLists, NEW t, NEW v, Settable(t, v), NEW b \in BOOLEAN
  PROVE  setGlobally(c, t, v, b) \in CoveredLists
<1>1. c \in Lists /\ t \in Types
  BY DEF CoveredLists, Settable
<1>2. Sets(c, setGlobally(c, t, v, b), IF b THEN AllLevels ELSE Levels, t, v)
  BY <1>1, setGloballySets
<1>3. PICK A \in SUBSET AllLevels : A = (IF b THEN AllLevels ELSE Levels) /\ (Global \in A => A = AllLevels)
  BY LevelFacts
<1> QED  BY <1>1, <1>2, <1>3, SetsCovered

\* What each step keeps, the last one has.
LEMMA StepsKeep ==
  ASSUME NEW n \in Nat, NEW F, NEW V, F[0] \in V, \A k \in 1 .. n : F[k - 1] \in V => F[k] \in V
  PROVE  F[n] \in V
<1> DEFINE P == {k \in 0 .. n : F[k] \in V}
<1>1. 0 \in P /\ \A k \in 1 .. n : k - 1 \in P => k \in P
  OBVIOUS
<1>2. PICK Q : Q = P
  OBVIOUS
<1>3. 0 \in Q /\ \A k \in 1 .. n : k - 1 \in Q => k \in Q
  BY <1>1, <1>2
<1>4. \A k \in 0 .. n : k \in Q
  BY <1>3, UpTo
<1> QED  BY <1>2, <1>4

LEMMA DefaultsCovered ==
  ASSUME NEW c \in CoveredLists
  PROVE  setToDefault(c) \in CoveredLists /\ setRemainingToDefault(c) \in CoveredLists
<1>1. c \in Lists
  BY DEF CoveredLists
<1>2. setToDefault(c) \in CoveredLists
  <2>1. PICK q \in Seq(Types) : q = SetToSeq(Types)
    BY TypesFinite, SetToSeqOf
  <2>2. PICK n \in Nat : n = Len(q) /\ \A k \in 1 .. n : q[k] \in Types
    OBVIOUS
  <2>3. PICK F : /\ F[0] = c /\ F[n] = setToDefault(c)
                 /\ \A k \in 1 .. n : F[k] = setGlobally(F[k - 1], q[k], Default(q[k]), TRUE)
    <3>1. \E G \in [0 .. Len(SetToSeq(Types)) -> Lists] :
            /\ G[0] = c /\ G[Len(SetToSeq(Types))] = setToDefault(c)
            /\ \A k \in 1 .. Len(SetToSeq(Types)) :
                 G[k] = setGlobally(G[k - 1], SetToSeq(Types)[k], Default(SetToSeq(Types)[k]), TRUE)
      BY <1>1, setToDefaultFolds
    <3> QED  BY <2>1, <2>2, <3>1
  <2>4. ASSUME NEW k \in 1 .. n, F[k - 1] \in CoveredLists  PROVE F[k] \in CoveredLists
    <3>1. PICK d \in CoveredLists : d = F[k - 1]
      BY <2>4
    <3>2. PICK t \in Types : t = q[k]
      BY <2>2
    <3>3. F[k] = setGlobally(d, t, Default(t), TRUE)
      BY <2>3, <3>1, <3>2
    <3> QED  BY <3>3, TypesFinite, setGloballyCovered
  <2> QED  BY <2>3, <2>4, StepsKeep
<1>3. setRemainingToDefault(c) \in CoveredLists
  <2>1. PICK q \in Seq(Types \ {"ToFile"}) : q = SetToSeq(Types \ {"ToFile"})
    BY TypesFinite, SetToSeqOf
  <2>2. PICK n \in Nat : n = Len(q) /\ \A k \in 1 .. n : q[k] \in Types
    OBVIOUS
  <2>3. PICK F : /\ F[0] = c /\ F[n] = setRemainingToDefault(c)
                 /\ \A k \in 1 .. n : F[k] = unsafeSetIfNotExist(F[k - 1], Global, q[k], Default(q[k]))
    <3>1. \E G \in [0 .. Len(SetToSeq(Types \ {"ToFile"})) -> Lists] :
            /\ G[0] = c /\ G[Len(SetToSeq(Types \ {"ToFile"}))] = setRemainingToDefault(c)
            /\ \A k \in 1 .. Len(SetToSeq(Types \ {"ToFile"})) :
                 G[k] = unsafeSetIfNotExist(G[k - 1], Global, SetToSeq(Types \ {"ToFile"})[k],
                                            Default(SetToSeq(Types \ {"ToFile"})[k]))
      BY <1>1, setRemainingToDefaultFolds
    <3> QED  BY <2>1, <2>2, <3>1
  <2>4. ASSUME NEW k \in 1 .. n, F[k - 1] \in CoveredLists  PROVE F[k] \in CoveredLists
    <3>1. PICK d \in CoveredLists : d = F[k - 1]
      BY <2>4
    <3>2. PICK t \in Types : t = q[k] /\ Settable(t, Default(t))
      BY <2>2, TypesFinite
    <3>3. PICK f : f = F[k] /\ f = unsafeSetIfNotExist(d, Global, t, Default(t))
      BY <2>3, <3>1, <3>2
    <3>4. Sets(d, unsafeSet(d, Global, t, Default(t)), Affected(Global), t, Default(t))
      BY <3>2, LevelFacts, setSets DEF CoveredLists
    <3>5. unsafeSet(d, Global, t, Default(t)) \in CoveredLists
      BY <3>4, SetsCovered DEF Affected
    <3> QED  BY <3>3, <3>5 DEF unsafeSetIfNotExist
  <2> QED  BY <2>3, <2>4, StepsKeep
<1> QED  BY <1>2, <1>3

LEMMA ParsedCovered ==
  ASSUME NEW c \in CoveredLists, NEW text, IsText(text)
  PROVE  parseFromText(c, text).conf \in CoveredLists
<1>1. c \in Lists /\ text \in Seq(Range(text))
  BY DEF CoveredLists, IsText
<1>2. PICK n \in Nat : n = Len(text) /\ \A k \in 1 .. n : text[k] \in Range(text)
  BY <1>1 DEF Range
<1>3. PICK F \in [0 .. n -> Parsed(text)] :
        /\ F[0] = [conf |-> c, level |-> Null, ok |-> FALSE] /\ F[n] = parseFromText(c, text)
        /\ \A k \in 1 .. n : F[k] = parseLine(F[k - 1], text[k])
  BY <1>1, <1>2, parseFromTextFolds
<1> DEFINE V == {p \in Parsed(text) : p.conf \in CoveredLists}
<1>4. F[0] \in V
  <2>1. PICK p : p = [conf |-> c, level |-> Null, ok |-> FALSE]
    OBVIOUS
  <2>2. F[0] = p /\ p.conf = c
    BY <1>3, <2>1
  <2>3. 0 \in 0 .. n
    OBVIOUS
  <2>4. F[0] \in Parsed(text)
    BY <1>3, <2>3
  <2> QED  BY <2>2, <2>4
<1>5. ASSUME NEW k \in 1 .. n, F[k - 1] \in V  PROVE F[k] \in V
  <2>1. PICK p \in V : p = F[k - 1]
    BY <1>5
  <2>2. PICK line \in Range(text) : line = text[k]
    BY <1>2
  <2>3. PICK r \in Parsed(text) : r = F[k] /\ r = parseLine(p, line)
    BY <1>3, <2>1, <2>2
  <2>4. r.conf \in CoveredLists
    <3>1. CASE line.kind = "config" /\ KnownLevel(p.level) /\ KnownType(line.type)
      <4>1. Settable(line.type, line.value)
        BY <3>1 DEF Settable, Configuration, IsText, KnownType
      <4>2. set(p.conf, p.level, line.type, line.value) \in CoveredLists
        BY <3>1, <4>1, setCovered DEF KnownLevel
      <4>3. r.conf = set(p.conf, p.level, line.type, line.value)
        BY <2>3, <3>1 DEF parseLine, Parsed
      <4> QED  BY <4>2, <4>3
    <3>2. CASE ~(line.kind = "config" /\ KnownLevel(p.level) /\ KnownType(line.type))
      <4>1. r.conf = p.conf
        BY <2>3, <3>2 DEF parseLine, Parsed
      <4> QED  BY <4>1
    <3> QED  BY <3>1, <3>2
  <2> QED  BY <2>3, <2>4
<1>6. F[n] \in V
  <2> HIDE DEF V
  <2> QED  BY <1>4, <1>5, StepsKeep
<1> QED  BY <1>3, <1>6

\* The value that a merge gives: that of the list merged in, Global's where it comes later.
LEMMA MergeValues ==
  ASSUME NEW own, Complete(own), NEW b \in CoveredLists, NEW c, c = setFromBase(own, b),
         NEW l \in AllLevels, NEW t \in Types
  PROVE  /\ ~hasConfiguration(b, l, t) => Value(c, l, t) = Value(own, l, t)
         /\ hasConfiguration(b, l, t) =>
              Value(c, l, t) = IF hasConfiguration(b, Global, t) /\ Index(b, l, t) < Index(b, Global, t)
                                 THEN Value(b, Global, t) ELSE Value(b, l, t)
<1>1. own \in Lists /\ b \in Lists /\ hasConfiguration(own, l, t)
  BY DEF Complete, Whole, CoveredLists
<1>2. Merged(own, b, Len(b), c, l, t)
  BY <1>1, MergeSets
<1>3. DOMAIN b = 1 .. Len(b) /\ Len(b) \in Nat
  BY <1>1, ListTypes
<1>4. ASSUME ~hasConfiguration(b, l, t)  PROVE Value(c, l, t) = Value(own, l, t)
  <2>1. ~hasConfiguration(b, Global, t)
    BY <1>4 DEF CoveredLists, Covered
  <2>2. \A i \in 1 .. Len(b) : ~Hits(b[i], l, t)
    BY <1>1, <1>3, <1>4, <2>1, Found DEF Hits
  <2>3. Same(own, c, l, t)
    BY <1>2, <2>2 DEF Merged
  <2> QED  BY <1>1, <2>3 DEF Same
<1>5. ASSUME hasConfiguration(b, Global, t), hasConfiguration(b, l, t), Index(b, l, t) < Index(b, Global, t)
      PROVE  Value(c, l, t) = Value(b, Global, t)
  <2>1. PICK i \in 1 .. Len(b) : i = Index(b, Global, t) /\ b[i].level = Global /\ b[i].type = t
                                 /\ Value(b, Global, t) = b[i].value
    BY <1>1, <1>3, <1>5, Found
  <2>2. ASSUME NEW j \in 1 .. Len(b), j > i, Hits(b[j], l, t)  PROVE FALSE
    <3>1. b[j].type = t /\ (b[j].level = l \/ b[j].level = Global)
      BY <2>2 DEF Hits
    <3>2. CASE b[j].level = l
      <4>1. Index(b, l, t) = j
        BY <1>1, <1>3, <3>1, <3>2, Found
      <4> QED  BY <1>5, <2>1, <2>2, <4>1
    <3>3. CASE b[j].level = Global
      <4>1. Index(b, Global, t) = j
        BY <1>1, <1>3, <3>1, <3>3, Found
      <4> QED  BY <2>1, <2>2, <4>1
    <3> QED  BY <3>1, <3>2, <3>3
  <2>3. Decides(b, i, Len(b), l, t)
    BY <2>1, <2>2 DEF Decides, Hits
  <2> QED  BY <1>2, <2>1, <2>3 DEF Merged
<1>6. ASSUME hasConfiguration(b, l, t), ~(hasConfiguration(b, Global, t) /\ Index(b, l, t) < Index(b, Global, t))
      PROVE  Value(c, l, t) = Value(b, l, t)
  <2>1. PICK i \in 1 .. Len(b) : i = Index(b, l, t) /\ b[i].level = l /\ b[i].type = t
                                 /\ Value(b, l, t) = b[i].value
    BY <1>1, <1>3, <1>6, Found
  <2>2. ASSUME NEW j \in 1 .. Len(b), j > i, Hits(b[j], l, t)  PROVE FALSE
    <3>1. b[j].type = t /\ (b[j].level = l \/ b[j].level = Global)
      BY <2>2 DEF Hits
    <3>2. CASE b[j].level = l
      <4>1. Index(b, l, t) = j
        BY <1>1, <1>3, <3>1, <3>2, Found
      <4> QED  BY <2>1, <2>2, <4>1
    <3>3. CASE b[j].level = Global
      <4>1. Index(b, Global, t) = j /\ hasConfiguration(b, Global, t)
        BY <1>1, <1>3, <3>1, <3>3, Found
      <4> QED  BY <1>6, <2>1, <2>2, <4>1
    <3> QED  BY <3>1, <3>2, <3>3
  <2>3. Decides(b, i, Len(b), l, t)
    BY <2>1, <2>2 DEF Decides, Hits
  <2> QED  BY <1>2, <2>1, <2>3 DEF Merged
<1> QED  BY <1>4, <1>5, <1>6

-----------------------------------------------------------------------------
(* The invariant, and the calls.                                           *)

ConfigInv ==
  /\ conf \in CoveredLists /\ Complete(defaults)
  /\ World \in Worlds /\ DefaultId \in DOMAIN loggers

\* What is truncated on the way from w to v: files that are limited at the beginning or
\* at the end, or that the defaults limit, for a logger that is new.
Accounted(w, v, d) ==
  \A a \in w.files.full \ v.files.full :
    \/ LimitedIn(w, a) \/ LimitedIn(v, a)
    \/ /\ DOMAIN v.loggers \ DOMAIN w.loggers # {}
       /\ \E l \in AllLevels : Value(d, l, "Filename") = a /\ getULong(Value(d, l, "MaxLogFileSize")) # 0

LEMMA BecomeDoes == ASSUME NEW v \in Worlds, Become(v)  PROVE World' = v
<1>1. v = [loggers |-> v.loggers, files |-> v.files]
  BY DEF Worlds
<1> QED  BY <1>1 DEF Become, World

LEMMA UnchangedWorld == UNCHANGED <<loggers, files>> => World' = World
BY DEF World

\* getLogger, and then something with this logger.
LEMMA GetThen ==
  ASSUME NEW w \in Worlds, NEW id \in Ids, NEW d, Complete(d), NEW u, u = get(w, id, d),
         NEW v, Changed(u, v, id)
  PROVE  DOMAIN v.loggers = DOMAIN w.loggers \cup {id} /\ Accounted(w, v, d)
<1>1. /\ u \in Worlds /\ DOMAIN u.loggers = DOMAIN w.loggers \cup {id}
      /\ id \in DOMAIN w.loggers => u = w
      /\ id \notin DOMAIN w.loggers => Turned(w, u, id, setFromBase(<<>>, d))
  BY getDoes
<1>2. DOMAIN v.loggers = DOMAIN w.loggers \cup {id}
  BY <1>1 DEF Changed
<1>3. CASE id \in DOMAIN w.loggers
  BY <1>1, <1>2, <1>3 DEF Changed, Accounted, LimitedIn
<1>4. CASE id \notin DOMAIN w.loggers
  <2>1. PICK c : c = setFromBase(<<>>, d)
    OBVIOUS
  <2>2. Turned(w, u, id, c) /\ u.loggers[id].built = c
    BY <1>1, <1>4, <2>1 DEF Turned
  <2>3. Complete(c) /\ TypedOK(u.loggers[id].typed, c, u.files)
    BY <1>1, <2>2 DEF Worlds, LoggerOK
  <2>4. ASSUME NEW a, LimitedTo(u.loggers[id].typed, a)
        PROVE  \E l \in AllLevels : Value(d, l, "Filename") = a /\ getULong(Value(d, l, "MaxLogFileSize")) # 0
    <3>1. PICK l \in AllLevels : Value(c, l, "Filename") = a /\ getULong(Value(c, l, "MaxLogFileSize")) # 0
      BY <2>3, <2>4, LimitsOf
    <3>2. "Filename" \in Types /\ "MaxLogFileSize" \in Types
      BY KeptTypes DEF Kept
    <3>3. Value(c, l, "Filename") = Value(d, l, "Filename")
          /\ Value(c, l, "MaxLogFileSize") = Value(d, l, "MaxLogFileSize")
      BY <2>1, <3>2, CopyOf
    <3> QED  BY <3>1, <3>3
  <2>5. ASSUME NEW a \in w.files.full \ v.files.full
        PROVE  LimitedIn(v, a) \/ LimitedTo(u.loggers[id].typed, a)
    <3>1. CASE a \in u.files.full
      BY <1>2, <2>5, <3>1 DEF Changed, LimitedIn
    <3>2. CASE a \notin u.files.full
      BY <1>4, <2>2, <2>5, <3>2 DEF Turned
    <3> QED  BY <3>1, <3>2
  <2>6. DOMAIN v.loggers \ DOMAIN w.loggers # {}
    BY <1>2, <1>4
  <2> QED  BY <1>2, <2>4, <2>5, <2>6 DEF Accounted
<1> QED  BY <1>3, <1>4

LEMMA GlobalEntry == \A e \in Entry : [e EXCEPT !.level = Global] \in Entry
BY LevelFacts DEF Entry

\* ReconfigureLogger and its list.
LEMMA ReconfigureLoggerDoes ==
  ASSUME ConfigInv, NEW id \in Ids, ReconfigureLogger(id)
  PROVE  /\ World' \in Worlds /\ DefaultId \in DOMAIN loggers' /\ Accounted(World, World', defaults)
         /\ \E own : /\ loggers'[id].built = setFromBase(own, conf) /\ Complete(own)
                     /\ own = IF id \in DOMAIN loggers THEN loggers[id].conf ELSE setFromBase(<<>>, defaults)
<1>1. PICK w \in Worlds : w = World
  BY DEF ConfigInv
<1>2. PICK d : d = defaults /\ Complete(d)
  BY DEF ConfigInv
<1>3. PICK b \in Lists : b = conf
  BY DEF ConfigInv, CoveredLists
<1>4. PICK u : u = get(w, id, d)
  OBVIOUS
<1>5. /\ u \in Worlds /\ DOMAIN u.loggers = DOMAIN w.loggers \cup {id}
      /\ id \in DOMAIN w.loggers => u = w
      /\ id \notin DOMAIN w.loggers => Turned(w, u, id, setFromBase(<<>>, d))
  BY <1>2, <1>4, getDoes
<1>6. PICK v : v = configure(u, id, b)
  OBVIOUS
<1>7. PICK own : own = u.loggers[id].conf
  OBVIOUS
<1>8. Turned(u, v, id, setFromBase(own, b))
  <2>1. Turned(u, v, id, setFromBase(IF id \in DOMAIN u.loggers THEN u.loggers[id].conf ELSE <<>>, b))
    BY <1>5, <1>6, configureDoes
  <2> QED  BY <1>5, <1>7, <2>1
<1>9. World' = v
  <2>1. v \in Worlds /\ Become(v)
    BY <1>1, <1>2, <1>3, <1>4, <1>6, <1>8 DEF Turned, ReconfigureLogger
  <2> QED  BY <2>1, BecomeDoes
<1>10. v \in Worlds /\ loggers' = v.loggers /\ loggers = w.loggers
  BY <1>1, <1>8, <1>9 DEF World, Turned
<1>11. DOMAIN v.loggers = DOMAIN w.loggers \cup {id} /\ Accounted(w, v, d)
  <2>1. Changed(u, v, id)
    BY <1>5, <1>8, ChangedOnce
  <2> QED  BY <1>2, <1>4, <2>1, GetThen
<1>12. own = IF id \in DOMAIN loggers THEN loggers[id].conf ELSE setFromBase(<<>>, defaults)
  BY <1>2, <1>5, <1>7, <1>10 DEF Turned
<1>13. Complete(own) /\ v.loggers[id].built = setFromBase(own, b)
  BY <1>5, <1>7, <1>8 DEF Worlds, LoggerOK, Turned
<1>14. DefaultId \in DOMAIN v.loggers
  BY <1>10, <1>11 DEF ConfigInv
<1> QED  BY <1>1, <1>2, <1>3, <1>9, <1>10, <1>11, <1>12, <1>13, <1>14

LEMMA ReconfigureLoggerValueDoes ==
  ASSUME ConfigInv, NEW id \in Ids, NEW e \in Entry, ReconfigureLoggerValue(id, e)
  PROVE  World' \in Worlds /\ DefaultId \in DOMAIN loggers' /\ Accounted(World, World', defaults)
<1>1. PICK w \in Worlds : w = World
  BY DEF ConfigInv
<1>2. PICK d : d = defaults /\ Complete(d)
  BY DEF ConfigInv
<1>3. PICK x \in Entry : x = [e EXCEPT !.level = Global]
  BY GlobalEntry
<1>4. PICK u : u = get(w, id, d)
  OBVIOUS
<1>5. u \in Worlds /\ id \in DOMAIN u.loggers
  BY <1>2, <1>4, getDoes
<1>6. PICK v : v = reconfigure(setIn(u, id, x), id)
  OBVIOUS
<1>7. Changed(u, v, id)
  <2>1. u \in WorldsOver(DOMAIN u.loggers)
    BY <1>5 DEF WorldsOver
  <2> QED  BY <1>5, <1>6, <2>1, reconfigureStays
<1>8. World' = v
  <2>1. v \in Worlds /\ Become(v)
    BY <1>1, <1>2, <1>3, <1>4, <1>6, <1>7 DEF Changed, ReconfigureLoggerValue
  <2> QED  BY <2>1, BecomeDoes
<1>9. v \in Worlds /\ loggers' = v.loggers /\ loggers = w.loggers
  BY <1>1, <1>7, <1>8 DEF World, Changed
<1>10. DOMAIN v.loggers = DOMAIN w.loggers \cup {id} /\ Accounted(w, v, d)
  BY <1>2, <1>4, <1>7, GetThen
<1>11. DefaultId \in DOMAIN v.loggers
  BY <1>9, <1>10 DEF ConfigInv
<1> QED  BY <1>1, <1>2, <1>8, <1>9, <1>10, <1>11

LEMMA GetLoggerDoes ==
  ASSUME ConfigInv, NEW id \in Ids, GetLogger(id)
  PROVE  World' \in Worlds /\ DefaultId \in DOMAIN loggers' /\ Accounted(World, World', defaults)
<1>1. PICK w \in Worlds : w = World
  BY DEF ConfigInv
<1>2. PICK d : d = defaults /\ Complete(d)
  BY DEF ConfigInv
<1>3. PICK u : u = get(w, id, d)
  OBVIOUS
<1>4. u \in Worlds /\ id \in DOMAIN u.loggers
  BY <1>2, <1>3, getDoes
<1>5. Changed(u, u, id)
  BY <1>4 DEF Changed
<1>6. World' = u
  <2>1. Become(u)
    BY <1>1, <1>2, <1>3 DEF GetLogger
  <2> QED  BY <1>4, <2>1, BecomeDoes
<1>7. loggers' = u.loggers /\ loggers = w.loggers
  BY <1>1, <1>6 DEF World
<1>8. DOMAIN u.loggers = DOMAIN w.loggers \cup {id} /\ Accounted(w, u, d)
  BY <1>2, <1>3, <1>5, GetThen
<1>9. DefaultId \in DOMAIN u.loggers
  BY <1>7, <1>8 DEF ConfigInv
<1> QED  BY <1>1, <1>2, <1>4, <1>6, <1>7, <1>8, <1>9

\* A step from w to v with the same loggers.
LEMMA SameLoggers ==
  ASSUME ConfigInv, NEW v \in WorldsOver(DOMAIN loggers), World' = v,
         \A a \in files.full \ v.files.full : LimitedIn(World, a) \/ LimitedIn(v, a)
  PROVE  World' \in Worlds /\ DefaultId \in DOMAIN loggers' /\ Accounted(World, World', defaults)
<1>1. v \in Worlds /\ DOMAIN v.loggers = DOMAIN loggers
  BY DEF WorldsOver
<1>2. loggers' = v.loggers /\ files = World.files
  BY DEF World
<1> QED  BY <1>1, <1>2 DEF Accounted, ConfigInv

LEMMA ReconfigureAllValueDoes ==
  ASSUME ConfigInv, NEW e \in Entry, ReconfigureAllValue(e)
  PROVE  World' \in Worlds /\ DefaultId \in DOMAIN loggers' /\ Accounted(World, World', defaults)
<1>1. PICK w \in Worlds : w = World /\ w.loggers = loggers /\ w.files = files
  BY DEF ConfigInv, World
<1>2. PICK v : v = reconfigureAll(w, e)
  OBVIOUS
<1>3. /\ v \in WorldsOver(DOMAIN w.loggers)
      /\ \A a \in w.files.full \ v.files.full : LimitedIn(w, a) \/ LimitedIn(v, a)
  BY <1>2, reconfigureAllDoes
<1>4. World' = v
  <2>1. v \in Worlds /\ Become(v)
    BY <1>1, <1>2, <1>3 DEF WorldsOver, ReconfigureAllValue
  <2> QED  BY <2>1, BecomeDoes
<1>5. /\ v \in WorldsOver(DOMAIN loggers)
      /\ \A a \in files.full \ v.files.full : LimitedIn(World, a) \/ LimitedIn(v, a)
  BY <1>1, <1>3
<1> QED  BY <1>4, <1>5, SameLoggers

LEMMA ConfigureAllDoes ==
  ASSUME ConfigInv, NEW c \in Lists, Become(configureAll(World, c))
  PROVE  World' \in Worlds /\ DefaultId \in DOMAIN loggers' /\ Accounted(World, World', defaults)
<1>1. PICK w \in Worlds : w = World /\ w.loggers = loggers /\ w.files = files
  BY DEF ConfigInv, World
<1>2. PICK v : v = configureAll(w, c)
  OBVIOUS
<1>3. /\ v \in WorldsOver(DOMAIN w.loggers)
      /\ \A a \in w.files.full \ v.files.full : LimitedIn(w, a) \/ LimitedIn(v, a)
  BY <1>2, configureAllDoes
<1>4. World' = v
  <2>1. v \in Worlds /\ Become(v)
    BY <1>1, <1>2, <1>3 DEF WorldsOver
  <2> QED  BY <2>1, BecomeDoes
<1>5. /\ v \in WorldsOver(DOMAIN loggers)
      /\ \A a \in files.full \ v.files.full : LimitedIn(World, a) \/ LimitedIn(v, a)
  BY <1>1, <1>3
<1> QED  BY <1>4, <1>5, SameLoggers

LEMMA EditLoggerDoes ==
  ASSUME ConfigInv, NEW id \in Ids, NEW e \in Entry, EditLogger(id, e)
  PROVE  World' \in Worlds /\ DefaultId \in DOMAIN loggers' /\ Accounted(World, World', defaults)
<1>1. PICK w \in Worlds : w = World /\ w.loggers = loggers /\ w.files = files
  BY DEF ConfigInv, World
<1>2. PICK v, c : v = setIn(w, id, e) /\ Edited(w, v, id, c)
  BY <1>1, setInDoes DEF EditLogger
<1>3. World' = v
  <2>1. v \in Worlds /\ Become(v)
    BY <1>1, <1>2 DEF Edited, EditLogger
  <2> QED  BY <2>1, BecomeDoes
<1>4. v \in WorldsOver(DOMAIN loggers) /\ v.files = files
  BY <1>1, <1>2 DEF Edited, WorldsOver
<1> QED  BY <1>3, <1>4, SameLoggers

LEMMA ConfigureFromGlobalDoes ==
  ASSUME ConfigInv, NEW g \in Globals, ConfigureFromGlobal(g)
  PROVE  World' \in Worlds /\ DefaultId \in DOMAIN loggers'
<1>1. PICK w \in Worlds : w = World /\ w.loggers = loggers
  BY DEF ConfigInv, World
<1>2. PICK d : d = defaults /\ Complete(d)
  BY DEF ConfigInv
<1>3. g \in Seq(Range(g)) /\ \A s \in Range(g) : s.id \in Ids \cup {Null} /\ IsText(s.text)
  BY LogConfigAssumption
<1>4. PICK v : v = parseSections(w, d, g).w
  OBVIOUS
<1>5. v \in Worlds /\ DOMAIN w.loggers \subseteq DOMAIN v.loggers
  BY <1>2, <1>3, <1>4, parseSectionsDoes
<1>6. World' = v
  <2>1. Become(v)
    BY <1>1, <1>2, <1>4 DEF ConfigureFromGlobal
  <2> QED  BY <1>5, <2>1, BecomeDoes
<1>7. loggers' = v.loggers
  BY <1>6 DEF World
<1> QED  BY <1>1, <1>5, <1>6, <1>7 DEF ConfigInv

LEMMA UnregisterLoggerDoes ==
  ASSUME ConfigInv, NEW id \in Ids, UnregisterLogger(id)
  PROVE  World' \in Worlds /\ DefaultId \in DOMAIN loggers' /\ Accounted(World, World', defaults)
<1>1. PICK L \in LoggerMaps : L = loggers /\ IsFiniteSet(DOMAIN L) /\ \A j \in DOMAIN L : LoggerOK(L[j], files)
  BY DEF ConfigInv, World, Worlds
<1>2. DOMAIN L \subseteq Ids /\ L \in [DOMAIN L -> LoggerStates]
  BY LoggerMapOf
<1>3. PICK M : M = [j \in DOMAIN L \ {id} |-> L[j]]
  OBVIOUS
<1>4. M \in [DOMAIN L \ {id} -> LoggerStates] /\ \A j \in DOMAIN M : M[j] = L[j]
  BY <1>2, <1>3
<1>5. M \in LoggerMaps /\ DOMAIN M = DOMAIN L \ {id}
  BY <1>2, <1>4, LoggerMapOf
<1>6. IsFiniteSet(DOMAIN M)
  BY <1>1, <1>5, FS_Subset
<1>7. FilesOK(files) /\ \A j \in DOMAIN M : LoggerOK(M[j], files)
  BY <1>1, <1>4, <1>5 DEF ConfigInv, World, Worlds
<1>8. loggers' = M /\ files' = files /\ id # DefaultId
  BY <1>1, <1>3 DEF UnregisterLogger
<1>9. World' = [loggers |-> M, files |-> files]
  BY <1>8 DEF World
<1>10. [loggers |-> M, files |-> files] \in Worlds
  BY <1>5, <1>6, <1>7, WorldOf
<1>11. Accounted(World, World', defaults)
  BY <1>9 DEF Accounted, World
<1> QED  BY <1>1, <1>5, <1>8, <1>9, <1>10, <1>11 DEF ConfigInv

\* Only the files change, and the streams stay.
LEMMA OnlyFiles ==
  ASSUME ConfigInv, loggers' = loggers, NEW f \in FileStates, files' = f, f.streams = files.streams,
         f.opens = files.opens, f.full \subseteq DOMAIN files.streams,
         \A a \in files.full \ f.full : LimitedIn(World, a)
  PROVE  World' \in Worlds /\ DefaultId \in DOMAIN loggers' /\ Accounted(World, World', defaults)
<1>1. PICK L \in LoggerMaps : L = loggers /\ IsFiniteSet(DOMAIN L) /\ \A j \in DOMAIN L : LoggerOK(L[j], files)
  BY DEF ConfigInv, World, Worlds
<1>2. FilesOK(files)
  BY DEF ConfigInv, World, Worlds
<1>3. FilesOK(f) /\ Grown(files, f)
  BY <1>2, FilesStay
<1>4. \A j \in DOMAIN L : LoggerOK(L[j], f)
  BY <1>1, <1>3, TypedStays DEF LoggerOK
<1>5. [loggers |-> L, files |-> f] \in Worlds
  <2>1. IsFiniteSet(DOMAIN L)
    BY <1>1
  <2> QED  BY <1>3, <1>4, <2>1, WorldOf
<1>6. World' = [loggers |-> L, files |-> f]
  BY <1>1 DEF World
<1>7. Accounted(World, World', defaults)
  BY <1>6 DEF Accounted, World
<1> QED  BY <1>1, <1>5, <1>6, <1>7 DEF ConfigInv

LEMMA WriteDoes ==
  ASSUME ConfigInv, NEW id \in Ids, NEW l \in Levels, Write(id, l)
  PROVE  World' \in Worlds /\ DefaultId \in DOMAIN loggers' /\ Accounted(World, World', defaults)
<1>1. PICK f \in FileStates : f = files /\ FilesOK(f)
  BY DEF ConfigInv, World, Worlds
<1>2. PICK lg : lg = loggers[id] /\ id \in DOMAIN loggers /\ LoggerOK(lg, f)
  BY <1>1 DEF ConfigInv, World, Worlds, Write
<1>3. PICK a : a = filename(lg, l) /\ a \in DOMAIN f.streams
  <2>1. l \in AllLevels
    BY LevelFacts
  <2> QED  BY <1>2, <2>1 DEF LoggerOK, TypedOK, filename, getConfig
<1>4. PICK full, rolled :
        /\ full \in {f.full, f.full \cup {a}} /\ rolled \in {{}, flushed(lg, l, full)}
        /\ files' = [f EXCEPT !.full = full \ rolled]
  BY <1>1, <1>2, <1>3 DEF Write
<1>5. f.full \subseteq full /\ full \subseteq DOMAIN f.streams /\ DOMAIN f.streams \subseteq Files
  <2>1. f.full \subseteq DOMAIN f.streams /\ f.streams \in StreamMaps
    BY <1>1 DEF FilesOK, FileStates
  <2> QED  BY <1>3, <1>4, <2>1, StreamMapOf
<1>6. PICK g \in FileStates : g = [f EXCEPT !.full = full \ rolled]
  BY <1>5 DEF FileStates
<1>7. g.streams = f.streams /\ g.opens = f.opens /\ g.full = full \ rolled
  BY <1>6 DEF FileStates
<1>8. ASSUME NEW b \in f.full \ g.full  PROVE LimitedIn(World, b)
  <2>1. b \in flushed(lg, l, full)
    BY <1>4, <1>5, <1>7, <1>8
  <2>2. b \in Rolled(lg.typed, l, full)
    BY <2>1 DEF flushed
  <2>3. LimitedTo(lg.typed, b)
    BY <2>2, RolledLimited, LevelFacts
  <2> QED  BY <1>2, <2>3 DEF LimitedIn, World
<1>9. loggers' = loggers /\ files' = g
  BY <1>4, <1>6 DEF Write
<1>10. g.streams = files.streams /\ g.opens = files.opens /\ g.full \subseteq DOMAIN files.streams
       /\ \A b \in files.full \ g.full : LimitedIn(World, b)
  BY <1>1, <1>5, <1>7, <1>8
<1> QED  BY <1>9, <1>10, OnlyFiles

LEMMA PermitDoes ==
  ASSUME ConfigInv, NEW name \in Files, Permit(name)
  PROVE  World' \in Worlds /\ DefaultId \in DOMAIN loggers' /\ Accounted(World, World', defaults)
<1>1. PICK f \in FileStates : f = files /\ FilesOK(f)
  BY DEF ConfigInv, World, Worlds
<1>2. PICK W \in SUBSET Files :
        W = IF name \in f.writable THEN f.writable \ {name} ELSE f.writable \cup {name}
  BY DEF FileStates
<1>3. PICK g \in FileStates : g = [f EXCEPT !.writable = W]
  BY DEF FileStates
<1>4. g.streams = f.streams /\ g.opens = f.opens /\ g.full = f.full
  BY <1>3 DEF FileStates
<1>5. loggers' = loggers /\ files' = g
  BY <1>1, <1>2, <1>3 DEF Permit
<1>6. f.full \subseteq DOMAIN f.streams
  BY <1>1 DEF FilesOK
<1>7. g.streams = files.streams /\ g.opens = files.opens /\ g.full \subseteq DOMAIN files.streams
      /\ \A b \in files.full \ g.full : LimitedIn(World, b)
  BY <1>1, <1>4, <1>6
<1> QED  BY <1>5, <1>7, OnlyFiles

\* The constructor of Storage makes loggers that are all right.
LEMMA InitOK == Init => ConfigInv
<1> SUFFICES ASSUME Init  PROVE ConfigInv
  OBVIOUS
<1>0. PICK writable \in SUBSET Files :
        LET f == [streams |-> Empty, opens |-> 0, full |-> {}, writable |-> writable]
            w == getInitial([loggers |-> Empty, files |-> f], defaults)
        IN  loggers = w.loggers /\ files = w.files
  BY DEF Init
<1>1. PICK f, w0, w :
        /\ f = [streams |-> Empty, opens |-> 0, full |-> {}, writable |-> writable]
        /\ w0 = [loggers |-> Empty, files |-> f]
        /\ w = getInitial(w0, defaults) /\ loggers = w.loggers /\ files = w.files
  BY <1>0
<1>2. conf = <<>> /\ <<>> \in Lists
  BY ListTypes DEF Init
<1>3. Complete(defaults)
  BY <1>2, DefaultsOf DEF Init
<1>4. <<>> \in CoveredLists
  BY <1>2 DEF CoveredLists, Covered, hasConfiguration, At
<1>5. DOMAIN Empty = {} /\ Empty \in [{} -> StreamValues] /\ Empty \in [{} -> LoggerStates]
  BY DEF Empty
<1>6. Empty \in StreamMaps /\ Empty \in LoggerMaps
  BY <1>5, StreamMapOf, LoggerMapOf
<1>7. f \in FileStates /\ f.streams = Empty /\ f.full = {}
  BY <1>1, <1>6 DEF FileStates
<1>8. FilesOK(f)
  BY <1>5, <1>7 DEF FilesOK
<1>9. w0 \in Worlds
  <2>1. IsFiniteSet(DOMAIN Empty)
    BY <1>5, FS_EmptySet
  <2> QED  BY <1>1, <1>5, <1>6, <1>8, <2>1, WorldOf
<1>10. w \in Worlds /\ Initial \subseteq DOMAIN w.loggers
  BY <1>1, <1>3, <1>9, getInitialDoes
<1>11. World = w
  <2>1. w = [loggers |-> w.loggers, files |-> w.files]
    BY <1>10 DEF Worlds
  <2> QED  BY <1>1, <2>1 DEF World
<1>12. DefaultId \in DOMAIN loggers
  BY <1>1, <1>10, LogConfigAssumption
<1> QED  BY <1>2, <1>3, <1>4, <1>10, <1>11, <1>12 DEF ConfigInv

\* What a call does to the loggers and their files, and to the lists.
LoggersStep == World' \in Worlds /\ DefaultId \in DOMAIN loggers'
ListsStep == conf' \in CoveredLists /\ Complete(defaults')
\* What is truncated is accounted for, unless a global configuration file is loaded.
Truncates == Accounted(World, World', defaults) \/ \E g \in Globals : ConfigureFromGlobal(g)

LEMMA StaysOK == ASSUME ConfigInv, UNCHANGED <<loggers, files>>  PROVE LoggersStep /\ Truncates
<1>1. World' = World /\ loggers' = loggers
  BY UnchangedWorld
<1> QED  BY <1>1 DEF ConfigInv, LoggersStep, Truncates, Accounted

\* The calls that change the program's list.
LEMMA ListCalls ==
  ASSUME ConfigInv,
         \/ \E e \in Settings : Set(e)
         \/ \E e \in Overrides : SetGlobally(e)
         \/ SetDefaults
         \/ \E text \in Texts : Parse(text)
  PROVE  ListsStep /\ LoggersStep /\ Truncates
<1>1. conf \in CoveredLists /\ Complete(defaults) /\ Settings \subseteq Entry /\ Overrides \subseteq Entry
  BY LogConfigAssumption DEF ConfigInv
<1>2. UNCHANGED <<defaults, loggers, files>>
  BY DEF Set, SetGlobally, SetDefaults, Parse
<1>3. conf' \in CoveredLists
  <2>1. CASE \E e \in Settings : Set(e)
    <3>1. PICK e \in Entry : conf' = set(conf, e.level, e.type, e.value)
      BY <1>1, <2>1 DEF Set
    <3>2. e.level \in AllLevels /\ Settable(e.type, e.value)
      BY ListTypes, SettableEntry
    <3> QED  BY <1>1, <3>1, <3>2, setCovered
  <2>2. CASE \E e \in Overrides : SetGlobally(e)
    <3>1. PICK e \in Entry : conf' = setGlobally(conf, e.type, e.value, FALSE)
      BY <1>1, <2>2 DEF SetGlobally
    <3>2. Settable(e.type, e.value) /\ FALSE \in BOOLEAN
      BY SettableEntry
    <3> QED  BY <1>1, <3>1, <3>2, setGloballyCovered
  <2>3. CASE SetDefaults
    <3>1. <<>> \in CoveredLists
      BY ListTypes DEF CoveredLists, Covered, hasConfiguration, At
    <3> QED  BY <1>1, <2>3, <3>1, DefaultsCovered DEF SetDefaults
  <2>4. CASE \E text \in Texts : Parse(text)
    <3>1. PICK text \in Texts : conf' = parseFromText(conf, text).conf
      BY <2>4 DEF Parse
    <3>2. IsText(text)
      BY LogConfigAssumption
    <3> QED  BY <1>1, <3>1, <3>2, ParsedCovered
  <2> QED  BY <2>1, <2>2, <2>3, <2>4
<1> QED  BY <1>1, <1>2, <1>3, StaysOK DEF ListsStep

\* The calls that change the defaults.
LEMMA DefaultCalls ==
  ASSUME ConfigInv,
         \/ \E b \in BOOLEAN : SetDefaultConfigurations(b)
         \/ \E name \in Files : SetApplicationArguments(name)
  PROVE  ListsStep /\ LoggersStep /\ Truncates
<1>1. conf \in CoveredLists /\ conf \in Lists /\ Complete(defaults) /\ defaults \in Lists
  BY DEF ConfigInv, CoveredLists, Complete
<1>2. CASE \E b \in BOOLEAN : SetDefaultConfigurations(b)
  <2>1. PICK b \in BOOLEAN : SetDefaultConfigurations(b)
    BY <1>2
  <2>2. defaults' = setFromBase(defaults, conf) /\ conf' = conf
    BY <2>1 DEF SetDefaultConfigurations
  <2>3. ListsStep
    BY <1>1, <2>2, MergeComplete DEF ListsStep
  <2>4. CASE b
    <3>1. Become(configureAll(World, conf))
      BY <2>1, <2>4 DEF SetDefaultConfigurations
    <3> QED  BY <1>1, <2>3, <3>1, ConfigureAllDoes DEF LoggersStep, Truncates
  <2>5. CASE ~b
    <3>1. UNCHANGED <<loggers, files>>
      BY <2>1, <2>5 DEF SetDefaultConfigurations
    <3> QED  BY <2>3, <3>1, StaysOK
  <2> QED  BY <2>4, <2>5
<1>3. CASE \E name \in Files : SetApplicationArguments(name)
  <2>1. PICK name \in Files : SetApplicationArguments(name)
    BY <1>3
  <2>2. Settable("Filename", name)
    BY DEF Settable, Entry, Configuration, Types
  <2>3. PICK c : c = setGlobally(<<>>, "Filename", name, FALSE)
    OBVIOUS
  <2>4. c \in Lists
    <3>1. <<>> \in Lists /\ FALSE \in BOOLEAN
      BY ListTypes
    <3>2. Sets(<<>>, c, IF FALSE THEN AllLevels ELSE Levels, "Filename", name)
      BY <2>2, <2>3, <3>1, setGloballySets
    <3> QED  BY <3>2 DEF Sets
  <2>5. defaults' = setFromBase(defaults, c) /\ conf' = conf /\ Become(configureAll(World, c))
    BY <2>1, <2>3 DEF SetApplicationArguments
  <2>6. ListsStep
    BY <1>1, <2>4, <2>5, MergeComplete DEF ListsStep
  <2> QED  BY <2>4, <2>5, <2>6, ConfigureAllDoes DEF LoggersStep, Truncates
<1> QED  BY <1>2, <1>3

\* The calls that change loggers, their streams or their files.
LEMMA LoggerCalls ==
  ASSUME ConfigInv,
         \/ \E e \in Overrides : ReconfigureAllValue(e)
         \/ \E id \in Ids, e \in Overrides : EditLogger(id, e) \/ ReconfigureLoggerValue(id, e)
         \/ \E id \in Ids : ReconfigureLogger(id) \/ GetLogger(id) \/ UnregisterLogger(id)
         \/ \E name \in Files : Permit(name)
         \/ \E g \in Globals : ConfigureFromGlobal(g)
         \/ \E id \in Ids, l \in Levels : Write(id, l)
  PROVE  ListsStep /\ LoggersStep /\ Truncates
<1>1. UNCHANGED <<conf, defaults>>
  BY DEF ReconfigureAllValue, EditLogger, ReconfigureLoggerValue, ReconfigureLogger, GetLogger,
         UnregisterLogger, Permit, ConfigureFromGlobal, Write
<1>2. ListsStep
  BY <1>1 DEF ConfigInv, ListsStep
<1>3. Overrides \subseteq Entry
  BY LogConfigAssumption
<1> USE DEF LoggersStep, Truncates
<1>4. CASE \E e \in Overrides : ReconfigureAllValue(e)
  BY <1>2, <1>3, <1>4, ReconfigureAllValueDoes
<1>5. CASE \E id \in Ids, e \in Overrides : EditLogger(id, e) \/ ReconfigureLoggerValue(id, e)
  BY <1>2, <1>3, <1>5, EditLoggerDoes, ReconfigureLoggerValueDoes
<1>6. CASE \E id \in Ids : ReconfigureLogger(id) \/ GetLogger(id) \/ UnregisterLogger(id)
  <2>1. PICK id \in Ids : ReconfigureLogger(id) \/ GetLogger(id) \/ UnregisterLogger(id)
    BY <1>6
  <2>2. CASE ReconfigureLogger(id)
    BY <1>2, <2>2, ReconfigureLoggerDoes
  <2>3. CASE GetLogger(id)
    BY <1>2, <2>3, GetLoggerDoes
  <2>4. CASE UnregisterLogger(id)
    BY <1>2, <2>4, UnregisterLoggerDoes
  <2> QED  BY <2>1, <2>2, <2>3, <2>4
<1>7. CASE \E name \in Files : Permit(name)
  BY <1>2, <1>7, PermitDoes
<1>8. CASE \E g \in Globals : ConfigureFromGlobal(g)
  BY <1>2, <1>8, ConfigureFromGlobalDoes
<1>9. CASE \E id \in Ids, l \in Levels : Write(id, l)
  BY <1>2, <1>9, WriteDoes
<1> QED  BY <1>4, <1>5, <1>6, <1>7, <1>8, <1>9

LEMMA StepOK == ConfigInv /\ [Next]_vars => ConfigInv' /\ Truncates
<1> SUFFICES ASSUME ConfigInv, [Next]_vars  PROVE ConfigInv' /\ Truncates
  OBVIOUS
<1>1. ListsStep /\ LoggersStep /\ Truncates
  <2>1. CASE UNCHANGED vars
    <3>1. UNCHANGED <<conf, defaults>> /\ UNCHANGED <<loggers, files>>
      BY <2>1 DEF vars
    <3>2. ListsStep
      BY <3>1 DEF ConfigInv, ListsStep
    <3> QED  BY <3>1, <3>2, StaysOK
  <2>2. CASE Next
    BY <2>2, ListCalls, DefaultCalls, LoggerCalls DEF Next
  <2> QED  BY <2>1, <2>2
<1>2. ConfigInv'
  BY <1>1 DEF ConfigInv, ListsStep, LoggersStep
<1> QED  BY <1>1, <1>2

LEMMA Invariance == Spec => []ConfigInv
<1>1. ConfigInv /\ [Next]_vars => ConfigInv'
  BY StepOK
<1> QED  BY InitOK, <1>1, PTL DEF Spec

\* Always: lists, typed maps and streams are what their classes declare.
THEOREM ConfigTyped == Spec => []TypeOK
<1>1. ASSUME ConfigInv  PROVE TypeOK
  <2>1. conf \in Seq(Entry) /\ defaults \in Seq(Entry)
    BY <1>1 DEF ConfigInv, CoveredLists, Complete, Lists
  <2>2. /\ loggers \in LoggerMaps /\ FilesOK(files)
        /\ \A id \in DOMAIN loggers : LoggerOK(loggers[id], files)
    BY <1>1 DEF ConfigInv, World, Worlds
  <2>3. DefaultId \in DOMAIN loggers /\ DOMAIN loggers \subseteq Ids /\ loggers \in [DOMAIN loggers -> LoggerStates]
    BY <1>1, <2>2, LoggerMapOf DEF ConfigInv
  <2>4. ASSUME NEW id \in DOMAIN loggers  PROVE IsLogger(loggers[id])
    <3>1. PICK y \in TypedStates : y = loggers[id].typed /\ TypedOK(y, loggers[id].built, files)
      BY <2>2, <2>4 DEF LoggerOK, TypedOK
    <3>2. DOMAIN y.map = Types \ {"Filename"} /\ \A t \in DOMAIN y.map : DOMAIN y.map[t] \subseteq AllLevels
      BY MapOf DEF TypedStates, Kept
    <3>3. DOMAIN y.filename = DOMAIN y.stream /\ DOMAIN y.stream \subseteq AllLevels
      BY <3>1 DEF TypedOK
    <3>4. Range(y.filename) \subseteq Files
      <4>1. y.filename \in [DOMAIN y.filename -> Files]
        BY MapOf DEF TypedStates
      <4> QED  BY <4>1 DEF Range
    <3>5. IsTypedConfigurations(y)
      BY <3>2, <3>3, <3>4 DEF IsTypedConfigurations
    <3>6. loggers[id].conf \in Seq(Entry) /\ loggers[id].built \in Seq(Entry)
      BY <2>2, <2>4 DEF LoggerOK, Complete, Lists
    <3> QED  BY <3>1, <3>5, <3>6 DEF IsLogger
  <2>5. /\ DOMAIN files.streams \subseteq Files /\ files.full \subseteq DOMAIN files.streams
        /\ files.writable \subseteq Files
    BY <2>2, StreamMapOf DEF FilesOK, FileStates
  <2> QED  BY <2>1, <2>3, <2>4, <2>5 DEF TypeOK
<1> QED  BY <1>1, Invariance, PTL

\* Always: the lists of the loggers and the defaults keep an entry for every level and
\* type, Global's before the others, as setFromBase and build() need it.
THEOREM GlobalComesFirst == Spec => []GlobalFirst
<1>1. ASSUME ConfigInv  PROVE GlobalFirst
  <2>1. Complete(defaults) /\ \A id \in DOMAIN loggers : Complete(loggers[id].conf)
    BY <1>1 DEF ConfigInv, World, Worlds, LoggerOK
  <2>2. ASSUME NEW c, Complete(c), NEW t \in Types, NEW l \in Levels
        PROVE  /\ hasConfiguration(c, Global, t) /\ hasConfiguration(c, l, t)
               /\ Index(c, Global, t) < Index(c, l, t)
    BY <2>2, LevelFacts DEF Complete, Whole
  <2> QED  BY <2>1, <2>2 DEF GlobalFirst
<1> QED  BY <1>1, Invariance, PTL

\* Always: what a logger reads for a level is the entry of that level in the list it was
\* configured with, although build() files it under Global or not at all.
THEOREM LoggersReadTheirLists == Spec => []ReadsItsList
<1>1. ASSUME ConfigInv  PROVE ReadsItsList
  <2> SUFFICES ASSUME NEW id \in DOMAIN loggers, NEW l \in AllLevels
               PROVE  /\ \A t \in Bools \cup {"MaxLogFileSize"} :
                           getConfig(loggers[id].typed.map[t], l, Null) = Typed(t, Value(loggers[id].built, l, t))
                      /\ \A t \in Shared :
                           getConfig(loggers[id].typed.map[t], l, Null)
                             = Typed(t, Value(loggers[id].built, Last(LevelSeq), t))
                      /\ filename(loggers[id], l) = Value(loggers[id].built, l, "Filename")
    BY DEF ReadsItsList
  <2>1. PICK y, c : y = loggers[id].typed /\ c = loggers[id].built /\ Complete(c) /\ TypedOK(y, c, files)
    BY <1>1 DEF ConfigInv, World, Worlds, LoggerOK
  <2>2. ASSUME NEW t \in Bools \cup {"MaxLogFileSize"}
        PROVE  getConfig(y.map[t], l, Null) = Typed(t, Value(c, l, t))
    <3>1. t \in Types /\ Filed(y.map[t], c, Len(c), t)
      BY <2>1 DEF TypedOK, Types
    <3> QED  BY <2>1, <3>1, ReadsFiled DEF Says
  <2>3. ASSUME NEW t \in Shared
        PROVE  getConfig(y.map[t], l, Null) = Typed(t, Value(c, Last(LevelSeq), t))
    <3>1. t \in Types /\ FiledOnce(y.map[t], c, Len(c), t)
      BY <2>1 DEF TypedOK, Types
    <3> QED  BY <2>1, <3>1, ReadsFiledOnce DEF Says
  <2>4. filename(loggers[id], l) = Value(c, l, "Filename")
    BY <2>1 DEF TypedOK, filename, getConfig
  <2> QED  BY <2>1, <2>2, <2>3, <2>4
<1> QED  BY <1>1, Invariance, PTL

\* Always: a level logs to its file when its list says so and the file could be opened,
\* with the two exceptions that a null stream of Global makes.
THEOREM LogsWhereOpen == Spec => []ToFileWhereOpen
<1>1. ASSUME ConfigInv  PROVE ToFileWhereOpen
  <2> SUFFICES ASSUME NEW id \in DOMAIN loggers, NEW l \in AllLevels
               PROVE  toFile(loggers[id], l) <=>
                        IF ToFileSays(loggers[id].built, Global)
                          THEN /\ ToFileSays(loggers[id].built, l)
                               /\ fileStream(loggers[id], l) # Null /\ fileStream(loggers[id], Global) # Null
                          ELSE ToFileSays(loggers[id].built, l)
    BY DEF ToFileWhereOpen, ToFileSays
  <2>1. PICK y, c : y = loggers[id].typed /\ c = loggers[id].built /\ TypedOK(y, c, files)
    BY <1>1 DEF ConfigInv, World, Worlds, LoggerOK
  <2>2. \A k \in AllLevels : fileStream(loggers[id], k) = y.stream[k]
    BY <2>1 DEF fileStream, getConfig, TypedOK
  <2>3. getConfig(y.map["ToFile"], l, FALSE) =
          (/\ ToFileSays(c, l)
           /\ ToFileSays(c, Global) => (y.stream[l] # Null) /\ (y.stream[Global] # Null))
    BY <2>1, LevelFacts DEF TypedOK, ToFileFiled
  <2>4. toFile(loggers[id], l) =
          (/\ ToFileSays(c, l)
           /\ ToFileSays(c, Global) =>
                fileStream(loggers[id], l) # Null /\ fileStream(loggers[id], Global) # Null)
    BY <2>1, <2>2, <2>3, LevelFacts DEF toFile
  <2> QED  BY <2>1, <2>4
<1> QED  BY <1>1, Invariance, PTL

\* Always: all loggers and levels that name a file share its one stream.
THEOREM StreamsShared == Spec => []OneStreamPerFile
<1>1. ASSUME ConfigInv  PROVE OneStreamPerFile
  <2>1. FilesOK(files) /\ \A id \in DOMAIN loggers : TypedOK(loggers[id].typed, loggers[id].built, files)
    BY <1>1 DEF ConfigInv, World, Worlds, LoggerOK
  <2>2. ASSUME NEW id \in DOMAIN loggers, NEW l \in AllLevels
        PROVE  fileStream(loggers[id], l) = files.streams[filename(loggers[id], l)]
    BY <2>1 DEF TypedOK, fileStream, filename, getConfig
  <2>3. \A f, g \in DOMAIN files.streams :
          files.streams[f] = files.streams[g] /\ f # g => files.streams[f] = Null
    BY <2>1 DEF FilesOK
  <2> QED  BY <2>2, <2>3 DEF OneStreamPerFile
<1> QED  BY <1>1, Invariance, PTL

\* After reconfigureLogger(id, conf) the logger has the program's value for every level
\* and type in conf, or Global's where that comes later; what conf does not mention stays.
THEOREM ReconfiguredLoggersFollow == Spec => LoggersFollow
<1>1. ASSUME ConfigInv, NEW id \in Ids, ReconfigureLogger(id), NEW l \in AllLevels, NEW t \in Types
      PROVE  Value(loggers'[id].built, l, t) = Wanted(id, l, t)
  <2>1. PICK own : /\ loggers'[id].built = setFromBase(own, conf) /\ Complete(own)
                   /\ own = IF id \in DOMAIN loggers THEN loggers[id].conf ELSE setFromBase(<<>>, defaults)
    BY <1>1, ReconfigureLoggerDoes
  <2>2. PICK b \in CoveredLists : b = conf
    BY <1>1 DEF ConfigInv
  <2>3. PICK c : c = setFromBase(own, b)
    OBVIOUS
  <2>4. /\ ~hasConfiguration(b, l, t) => Value(c, l, t) = Value(own, l, t)
        /\ hasConfiguration(b, l, t) =>
             Value(c, l, t) = IF hasConfiguration(b, Global, t) /\ Index(b, l, t) < Index(b, Global, t)
                                THEN Value(b, Global, t) ELSE Value(b, l, t)
    BY <2>1, <2>3, MergeValues
  <2>5. Value(own, l, t) = Value(IF id \in DOMAIN loggers THEN loggers[id].conf ELSE defaults, l, t)
    <3>1. CASE id \in DOMAIN loggers
      BY <2>1, <3>1
    <3>2. CASE id \notin DOMAIN loggers
      <4>1. Complete(defaults) /\ own = setFromBase(<<>>, defaults)
        BY <1>1, <2>1, <3>2 DEF ConfigInv
      <4>2. Value(own, l, t) = Value(defaults, l, t)
        BY <4>1, CopyOf
      <4> QED  BY <3>2, <4>2
    <3> QED  BY <3>1, <3>2
  <2>6. CASE ~hasConfiguration(b, l, t)
    BY <2>1, <2>2, <2>3, <2>4, <2>5, <2>6 DEF Wanted
  <2>7. CASE hasConfiguration(b, l, t) /\ hasConfiguration(b, Global, t) /\ Index(b, l, t) < Index(b, Global, t)
    BY <2>1, <2>2, <2>3, <2>4, <2>7 DEF Wanted
  <2>8. CASE hasConfiguration(b, l, t) /\ ~(hasConfiguration(b, Global, t) /\ Index(b, l, t) < Index(b, Global, t))
    BY <2>1, <2>2, <2>3, <2>4, <2>8 DEF Wanted
  <2> QED  BY <2>6, <2>7, <2>8
<1>2. ConfigInv => \A id \in Ids : ReconfigureLogger(id) =>
        \A l \in AllLevels, t \in Types : Value(loggers'[id].built, l, t) = Wanted(id, l, t)
  BY <1>1
<1> QED  BY <1>2, Invariance, PTL DEF Spec, LoggersFollow

\* A file is truncated only when a level with a size limit logs to it, though the levels
\* and loggers that share the file may have none.
THEOREM OnlyLimitedTruncated == Spec => TruncatesOnlyLimited
<1> DEFINE Because(f) ==
      \/ \E lg \in Range(loggers) \cup Range(loggers') : \E l \in AllLevels :
           filename(lg, l) = f /\ getConfig(lg.typed.map["MaxLogFileSize"], l, 0) # 0
      \/ /\ DOMAIN loggers' \ DOMAIN loggers # {}
         /\ \E l \in AllLevels : Value(defaults, l, "Filename") = f
                                  /\ getULong(Value(defaults, l, "MaxLogFileSize")) # 0
      \/ \E g \in Globals : ConfigureFromGlobal(g)
<1>1. ASSUME ConfigInv, [Next]_vars, NEW f \in files.full \ files'.full  PROVE Because(f)
  <2>1. Truncates
    BY <1>1, StepOK
  <2>2. PICK w, v : /\ w = World /\ w.files = files /\ w.loggers = loggers
                    /\ v = World' /\ v.files = files' /\ v.loggers = loggers'
    <3>1. /\ World.files = files /\ World.loggers = loggers
          /\ World'.files = files' /\ World'.loggers = loggers'
      BY DEF World
    <3> QED  BY <3>1
  <2>3. ASSUME LimitedIn(w, f)  PROVE Because(f)
    <3>1. PICK id \in DOMAIN loggers : LimitedTo(loggers[id].typed, f)
      BY <2>2, <2>3 DEF LimitedIn
    <3>2. loggers[id] \in Range(loggers)
      BY DEF Range
    <3> QED  BY <3>1, <3>2 DEF LimitedTo, filename
  <2>4. ASSUME LimitedIn(v, f)  PROVE Because(f)
    <3>1. PICK id \in DOMAIN loggers' : LimitedTo(loggers'[id].typed, f)
      BY <2>2, <2>4 DEF LimitedIn
    <3>2. loggers'[id] \in Range(loggers')
      BY DEF Range
    <3> QED  BY <3>1, <3>2 DEF LimitedTo, filename
  <2>5. CASE \E g \in Globals : ConfigureFromGlobal(g)
    BY <2>5
  <2>6. CASE Accounted(w, v, defaults)
    BY <1>1, <2>2, <2>3, <2>4, <2>6 DEF Accounted
  <2> QED  BY <2>1, <2>2, <2>5, <2>6 DEF Truncates
<1>2. ConfigInv /\ [Next]_vars => [\A f \in files.full \ files'.full : Because(f)]_vars
  BY <1>1
<1> QED  BY <1>2, Invariance, PTL DEF Spec, TruncatesOnlyLimited

=============================================================================
