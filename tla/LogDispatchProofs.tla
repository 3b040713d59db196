------------------------- MODULE LogDispatchProofs -------------------------
(***************************************************************************)
(* Theorems about the logging side of easylogging++, for any threads,      *)
(* loggers, files and log statements.                                      *)
(***************************************************************************)
EXTENDS LogDispatch, Induct, SequenceTheorems, TLAPS

-----------------------------------------------------------------------------
(* Division, as validateHitCounts uses it.                                 *)

Quot(c, n) == c \div n
Rem(c, n) == c % n

LEMMA DivMod ==
  \A n \in Nat \ {0}, c \in Nat :
    /\ Rem(c, n) \in 0 .. n - 1 /\ Quot(c, n) \in Nat
    /\ c = n * Quot(c, n) + Rem(c, n)
BY DEF Quot, Rem

LEMMA DivModUnique ==
  \A n \in Nat \ {0}, c \in Nat, q \in Nat : \A r \in 0 .. n - 1 :
    c = n * q + r => Quot(c, n) = q /\ Rem(c, n) = r
BY DEF Quot, Rem

\* One more, and one more quotient when the remainder starts over.
LEMMA DivModNext ==
  \A n \in Nat \ {0}, c \in Nat :
    /\ Rem(c, n) = n - 1 => Rem(c + 1, n) = 0 /\ Quot(c + 1, n) = Quot(c, n) + 1
    /\ Rem(c, n) # n - 1 => Rem(c + 1, n) = Rem(c, n) + 1 /\ Quot(c + 1, n) = Quot(c, n)
<1> SUFFICES ASSUME NEW n \in Nat \ {0}, NEW c \in Nat
             PROVE  /\ Rem(c, n) = n - 1 => Rem(c + 1, n) = 0 /\ Quot(c + 1, n) = Quot(c, n) + 1
                    /\ Rem(c, n) # n - 1 =>
                         Rem(c + 1, n) = Rem(c, n) + 1 /\ Quot(c + 1, n) = Quot(c, n)
  OBVIOUS
<1>1. PICK q \in Nat, r \in 0 .. n - 1 : q = Quot(c, n) /\ r = Rem(c, n) /\ c = n * q + r
  BY DivMod
<1>2. PICK d \in Nat : d = c + 1
  OBVIOUS
<1>3. CASE r = n - 1
  <2>1. PICK e \in Nat : e = q + 1
    BY <1>1
  <2>2. d = n * e + 0 /\ 0 \in 0 .. n - 1
    <3>1. \A x, y \in Nat : x * (y + 1) = x * y + x /\ x * y \in Nat
      OBVIOUS
    <3>2. n * e = n * q + n /\ n * q \in Nat
      BY <1>1, <2>1, <3>1
    <3> QED  BY <1>1, <1>2, <1>3, <3>2
  <2>3. Quot(d, n) = e /\ Rem(d, n) = 0
    BY <2>2, DivModUnique
  <2> QED  BY <1>1, <1>2, <1>3, <2>1, <2>3
<1>4. CASE r # n - 1
  <2>1. PICK e \in 0 .. n - 1 : e = r + 1
    BY <1>1, <1>4
  <2>2. d = n * q + e
    <3>1. PICK m \in Nat : m = n * q
      OBVIOUS
    <3>2. c = m + r
      BY <1>1, <3>1
    <3>3. d = m + e
      <4>1. r \in Nat /\ m \in Nat
        BY <1>1, <3>1
      <4>2. d = c + 1 /\ e = r + 1 /\ c = m + r
        BY <1>2, <2>1, <3>2
      <4> QED  BY <4>1, <4>2
    <3> QED  BY <3>1, <3>3
  <2>3. Quot(d, n) = q /\ Rem(d, n) = e
    BY <2>2, DivModUnique
  <2> QED  BY <1>1, <1>2, <1>4, <2>1, <2>3
<1> QED  BY <1>1, <1>3, <1>4

\* A number below n is its own remainder, and n has none.
LEMMA SmallMod ==
  /\ \A n \in Nat \ {0} : \A c \in 0 .. n - 1 : Rem(c, n) = c /\ Quot(c, n) = 0
  /\ \A n \in Nat \ {0} : Rem(n, n) = 0
<1>1. ASSUME NEW n \in Nat \ {0}, NEW c \in 0 .. n - 1
      PROVE  Rem(c, n) = c /\ Quot(c, n) = 0
  <2>1. c = n * 0 + c /\ c \in Nat /\ 0 \in Nat
    OBVIOUS
  <2> QED  BY <2>1, DivModUnique
<1>2. ASSUME NEW n \in Nat \ {0}
      PROVE  Rem(n, n) = 0
  <2>1. n = n * 1 + 0 /\ 1 \in Nat /\ 0 \in 0 .. n - 1
    OBVIOUS
  <2> QED  BY <2>1, DivModUnique
<1> QED  BY <1>1, <1>2

\* The next number has no remainder just when the quotient grows.
LEMMA NextMultiple ==
  \A n \in Nat \ {0}, c \in Nat :
    Quot(c + 1, n) = Quot(c, n) + IF Rem(c + 1, n) = 0 THEN 1 ELSE 0
<1> SUFFICES ASSUME NEW n \in Nat \ {0}, NEW c \in Nat
             PROVE  Quot(c + 1, n) = Quot(c, n) + IF Rem(c + 1, n) = 0 THEN 1 ELSE 0
  OBVIOUS
<1>1. Rem(c, n) \in 0 .. n - 1 /\ Quot(c, n) \in Nat
  BY DivMod
<1> QED  BY <1>1, DivModNext

-----------------------------------------------------------------------------
(* What a gate does to the counter of its statement.                       *)

LEMMA GateFields == \A h, b : [hits |-> h, pass |-> b].hits = h /\ [hits |-> h, pass |-> b].pass = b
OBVIOUS

\* validateEveryN, from a counter that agrees with the number of calls.
LEMMA EveryStep ==
  ASSUME NEW n \in 1 .. kMaxLogPerCounter, NEW h \in 0 .. kMaxLogPerCounter,
         NEW c \in Nat, Rem(h, n) = Rem(c, n),
         NEW g, g = validateEveryN(h, n)
  PROVE  /\ g.hits \in 0 .. kMaxLogPerCounter /\ Rem(g.hits, n) = Rem(c + 1, n)
         /\ Quot(c + 1, n) = Quot(c, n) + IF g.pass THEN 1 ELSE 0
<1>1. kMaxLogPerCounter \in Nat \ {0} /\ n \in Nat \ {0} /\ n <= kMaxLogPerCounter /\ h \in Nat
  BY LogDispatchAssumption
<1>2. Rem(kMaxLogPerCounter, n) \in 0 .. n - 1
  BY <1>1, DivMod
<1>3. PICK d \in Nat : d = IF h >= kMaxLogPerCounter THEN Rem(kMaxLogPerCounter, n) ELSE h
  BY <1>1, <1>2
<1>4. Rem(d, n) = Rem(c, n) /\ d + 1 <= kMaxLogPerCounter
  <2>1. CASE h >= kMaxLogPerCounter
    <3>1. h = kMaxLogPerCounter /\ d = Rem(kMaxLogPerCounter, n)
      BY <1>1, <1>3, <2>1
    <3>2. Rem(d, n) = d
      BY <1>1, <1>2, <3>1, SmallMod
    <3> QED  BY <1>1, <1>2, <3>1, <3>2
  <2>2. CASE ~ h >= kMaxLogPerCounter
    BY <1>1, <1>3, <2>2
  <2> QED  BY <2>1, <2>2
<1>5. Rem(d + 1, n) = Rem(c + 1, n)
  BY <1>1, <1>4, DivModNext
<1>6. validateHitCounts(h, n) = d + 1
  BY <1>1, <1>3 DEF validateHitCounts, Rem
<1>7. g = [hits |-> d + 1, pass |-> n >= 1 /\ d + 1 # 0 /\ Rem(d + 1, n) = 0]
  BY <1>6 DEF validateEveryN, Rem
<1>8. g.hits = d + 1 /\ (g.pass <=> Rem(c + 1, n) = 0)
  <2>1. n >= 1 /\ d + 1 # 0
    BY <1>1
  <2>2. g.hits = d + 1
    BY <1>7
  <2>3. g.pass = (n >= 1 /\ d + 1 # 0 /\ Rem(d + 1, n) = 0)
    BY <1>7, GateFields, Zenon
  <2> QED  BY <1>5, <2>1, <2>2, <2>3
<1>9. Quot(c + 1, n) = Quot(c, n) + IF g.pass THEN 1 ELSE 0
  BY <1>1, <1>8, NextMultiple
<1> QED  BY <1>1, <1>4, <1>5, <1>8, <1>9

\* validateEveryN for a number the counter cannot reach, or just reaches.
LEMMA RareStep ==
  ASSUME NEW n \in Nat, n > kMaxLogPerCounter, NEW c \in Nat,
         NEW h, h = IF c <= kMaxLogPerCounter THEN c ELSE kMaxLogPerCounter + 1,
         NEW g, g = validateEveryN(h, n)
  PROVE  /\ g.hits = IF c + 1 <= kMaxLogPerCounter THEN c + 1 ELSE kMaxLogPerCounter + 1
         /\ g.pass <=> n = kMaxLogPerCounter + 1 /\ c + 1 > kMaxLogPerCounter
<1>1. kMaxLogPerCounter \in Nat \ {0} /\ n \in Nat \ {0} /\ n >= 1
  BY LogDispatchAssumption
<1>2. Rem(kMaxLogPerCounter, n) = kMaxLogPerCounter
  BY <1>1, SmallMod
<1>3. PICK e \in Nat : e = IF c + 1 <= kMaxLogPerCounter THEN c + 1 ELSE kMaxLogPerCounter + 1
  BY <1>1
<1>4. validateHitCounts(h, n) = e
  BY <1>1, <1>2, <1>3 DEF validateHitCounts, Rem
<1>5. g = [hits |-> e, pass |-> n >= 1 /\ e # 0 /\ Rem(e, n) = 0]
  BY <1>4 DEF validateEveryN, Rem
<1>6. e # 0 /\ e <= n
  BY <1>1, <1>3
<1>7. Rem(e, n) = 0 <=> e = n
  BY <1>1, <1>6, SmallMod
<1>8. g.hits = e /\ (g.pass <=> e = n)
  <2>1. g.hits = e
    BY <1>5
  <2>2. g.pass = (n >= 1 /\ e # 0 /\ Rem(e, n) = 0)
    <3>1. PICK b : b = (n >= 1 /\ e # 0 /\ Rem(e, n) = 0)
      OBVIOUS
    <3>2. g = [hits |-> e, pass |-> b]
      BY <1>5, <3>1, Zenon
    <3>3. g.pass = b
      BY <3>2
    <3> QED  BY <3>1, <3>3, Zenon
  <2> QED  BY <1>1, <1>6, <1>7, <2>1, <2>2
<1> QED  BY <1>1, <1>3, <1>8

-----------------------------------------------------------------------------
(* The counters of all statements.                                         *)

CounterTypes ==
  hits \in [Statements -> Nat] /\ gated \in [Statements -> [calls : Nat, passed : Nat]]

\* How the counter of s goes with the number of its calls.
HitsFollow(s) ==
  LET c == gated[s].calls
      h == hits[s]
  IN  /\ s.gate = "every" /\ s.n \in 1 .. kMaxLogPerCounter =>
           h \in 0 .. kMaxLogPerCounter /\ Rem(h, s.n) = Rem(c, s.n)
      /\ s.gate = "every" /\ s.n > kMaxLogPerCounter =>
           h = IF c <= kMaxLogPerCounter THEN c ELSE kMaxLogPerCounter + 1
      /\ s.gate = "after" => h = c - Excess(c, s.n)
      /\ s.gate = "times" => h = c

GateExact(s) ==
  LET c == gated[s].calls
      p == gated[s].passed
  IN  /\ s.gate = "every" /\ s.n = 0 => p = 0
      /\ s.gate = "every" /\ s.n \in 1 .. kMaxLogPerCounter => p = Quot(c, s.n)
      /\ s.gate = "every" /\ s.n = kMaxLogPerCounter + 1 => p = Excess(c, kMaxLogPerCounter)
      /\ s.gate = "every" /\ s.n > kMaxLogPerCounter + 1 => p = 0
      /\ s.gate = "after" => p = Excess(c, s.n)
      /\ s.gate = "times" => p = c - Excess(c, s.n)

CountersInv == CounterTypes /\ \A s \in Statements : HitsFollow(s) /\ GateExact(s)

LEMMA CountersInit == Init => CountersInv
<1> SUFFICES ASSUME Init  PROVE CountersInv
  OBVIOUS
<1>1. CounterTypes
  BY DEF Init, CounterTypes
<1>2. ASSUME NEW s \in Statements  PROVE HitsFollow(s) /\ GateExact(s)
  <2>1. hits[s] = 0 /\ gated[s] = [calls |-> 0, passed |-> 0]
    BY DEF Init
  <2>2. kMaxLogPerCounter \in Nat \ {0} /\ s.n \in Nat
    BY LogDispatchAssumption
  <2>3. s.n # 0 => Quot(0, s.n) = 0
    BY <2>2, SmallMod
  <2>4. Excess(0, s.n) = 0 /\ Excess(0, kMaxLogPerCounter) = 0
    BY <2>2 DEF Excess
  <2> QED  BY <2>1, <2>2, <2>3, <2>4 DEF HitsFollow, GateExact
<1> QED  BY <1>1, <1>2 DEF CountersInv

\* A statement that is reached counts the call, and whether its gate was open.
LEMMA ReachCounts ==
  ASSUME CountersInv, NEW t \in Threads, NEW s \in Statements, Reach(t, s)
  PROVE  CountersInv'
<1>1. /\ kMaxLogPerCounter \in Nat \ {0} /\ s.n \in Nat /\ s.gate \in Gates
  BY LogDispatchAssumption
<1>2. PICK h \in Nat, c \in Nat, p \in Nat :
        h = hits[s] /\ c = gated[s].calls /\ p = gated[s].passed
  BY DEF CountersInv, CounterTypes
<1>3. PICK g : g = Gate(s)
  OBVIOUS
<1>4. HitsFollow(s) /\ GateExact(s)
  BY DEF CountersInv
<1>5. DEFINE passes == IF g.pass THEN 1 ELSE 0
<1>6. /\ hits' = [hits EXCEPT ![s] = g.hits]
      /\ gated' = [gated EXCEPT ![s] = [calls |-> c + 1, passed |-> p + passes]]
  BY <1>2, <1>3 DEF Reach
<1>7. hits'[s] = g.hits /\ gated'[s] = [calls |-> c + 1, passed |-> p + passes]
  BY <1>6 DEF CountersInv, CounterTypes
<1>8. \A q \in Statements \ {s} : hits'[q] = hits[q] /\ gated'[q] = gated[q]
  BY <1>6 DEF CountersInv, CounterTypes
<1>9. g.hits \in Nat => CounterTypes'
  BY <1>2, <1>6 DEF CountersInv, CounterTypes
<1>10. \A q \in Statements \ {s} : HitsFollow(q)' /\ GateExact(q)'
  <2>1. SUFFICES ASSUME NEW q \in Statements \ {s}  PROVE HitsFollow(q)' /\ GateExact(q)'
    OBVIOUS
  <2>2. HitsFollow(q) /\ GateExact(q)
    BY DEF CountersInv
  <2> QED  BY <1>8, <2>2 DEF HitsFollow, GateExact
<1>11. g.hits \in Nat /\ HitsFollow(s)' /\ GateExact(s)'
  <2>1. CASE s.gate = "every" /\ s.n = 0
    <3>1. g = validateEveryN(h, 0)
      BY <1>2, <1>3, <2>1 DEF Gate
    <3>2. validateHitCounts(h, 0) \in Nat
      BY <1>1, <1>2 DEF validateHitCounts
    <3>3. g.hits \in Nat /\ ~ g.pass
      <4>1. PICK c0 \in Nat : c0 = validateHitCounts(h, 0)
        BY <3>2
      <4>2. g = [hits |-> c0, pass |-> 0 >= 1 /\ c0 # 0 /\ c0 % 0 = 0]
        BY <3>1, <4>1 DEF validateEveryN
      <4>3. g.hits = c0
        BY <4>2
      <4>4. g.pass => 0 >= 1
        BY <4>2, Zenon
      <4> QED  BY <4>3, <4>4
    <3> QED  BY <1>1, <1>2, <1>4, <1>7, <2>1, <3>3 DEF HitsFollow, GateExact
  <2>2. CASE s.gate = "every" /\ s.n \in 1 .. kMaxLogPerCounter
    <3>1. h \in 0 .. kMaxLogPerCounter /\ Rem(h, s.n) = Rem(c, s.n) /\ p = Quot(c, s.n)
      BY <1>2, <1>4, <2>2 DEF HitsFollow, GateExact
    <3>2. g = validateEveryN(h, s.n)
      BY <1>2, <1>3, <2>2 DEF Gate
    <3>3. /\ g.hits \in 0 .. kMaxLogPerCounter /\ Rem(g.hits, s.n) = Rem(c + 1, s.n)
          /\ Quot(c + 1, s.n) = Quot(c, s.n) + passes
      BY <2>2, <3>1, <3>2, EveryStep
    <3> QED  BY <1>1, <1>7, <2>2, <3>1, <3>3 DEF HitsFollow, GateExact
  <2>3. CASE s.gate = "every" /\ s.n > kMaxLogPerCounter
    <3>1. /\ h = IF c <= kMaxLogPerCounter THEN c ELSE kMaxLogPerCounter + 1
          /\ s.n = kMaxLogPerCounter + 1 => p = Excess(c, kMaxLogPerCounter)
          /\ s.n > kMaxLogPerCounter + 1 => p = 0
      BY <1>2, <1>4, <2>3 DEF HitsFollow, GateExact
    <3>2. g = validateEveryN(h, s.n)
      BY <1>2, <1>3, <2>3 DEF Gate
    <3>3. /\ g.hits = IF c + 1 <= kMaxLogPerCounter THEN c + 1 ELSE kMaxLogPerCounter + 1
          /\ g.pass <=> s.n = kMaxLogPerCounter + 1 /\ c + 1 > kMaxLogPerCounter
      BY <1>1, <2>3, <3>1, <3>2, RareStep
    <3>4. HitsFollow(s)'
      BY <1>1, <1>7, <2>3, <3>3 DEF HitsFollow
    <3>5. GateExact(s)'
      BY <1>1, <1>7, <2>3, <3>1, <3>3 DEF GateExact, Excess
    <3> QED  BY <1>1, <3>3, <3>4, <3>5
  <2>4. CASE s.gate = "after"
    <3>1. h = c - Excess(c, s.n) /\ p = Excess(c, s.n)
      BY <1>2, <1>4, <2>4 DEF HitsFollow, GateExact
    <3>2. g = validateAfterN(h, s.n)
      BY <1>2, <1>3, <2>4 DEF Gate
    <3>3. g.hits = IF h >= s.n THEN h ELSE h + 1
      BY <3>2 DEF validateAfterN
    <3>4. g.pass <=> h >= s.n
      BY <3>2 DEF validateAfterN
    <3> QED  BY <1>1, <1>7, <2>4, <3>1, <3>3, <3>4 DEF HitsFollow, GateExact, Excess
  <2>5. CASE s.gate = "times"
    <3>1. h = c /\ p = c - Excess(c, s.n)
      BY <1>2, <1>4, <2>5 DEF HitsFollow, GateExact
    <3>2. g.hits = h + 1 /\ (g.pass <=> h + 1 <= s.n)
      BY <1>2, <1>3, <2>5 DEF Gate, validateNTimes
    <3> QED  BY <1>1, <1>7, <2>5, <3>1, <3>2 DEF HitsFollow, GateExact, Excess
  <2>6. CASE s.gate = "always"
    <3>1. g.hits = h
      BY <1>2, <1>3, <2>6 DEF Gate
    <3> QED  BY <2>6, <3>1 DEF HitsFollow, GateExact
  <2> QED  BY <1>1, <2>1, <2>2, <2>3, <2>4, <2>5, <2>6 DEF Gates
<1> QED  BY <1>9, <1>10, <1>11 DEF CountersInv

LEMMA CountersNext == CountersInv /\ [Next]_vars => CountersInv'
<1> SUFFICES ASSUME CountersInv, [Next]_vars  PROVE CountersInv'
  OBVIOUS
<1>1. CASE UNCHANGED <<hits, gated>>
  BY <1>1 DEF CountersInv, CounterTypes, HitsFollow, GateExact
<1>2. ASSUME NEW t \in Threads, Step(t)  PROVE UNCHANGED <<hits, gated>>
  BY <1>2 DEF Step, Format, InitializeLogger, InitializeNull, Stream, ProcessDispatch,
    Dispatch, Handle, Write, Flush, Finish, NextLogger, Abort, history
<1>3. ASSUME NEW t \in Threads, Begin(t)  PROVE CountersInv'
  BY <1>3, ReachCounts DEF Begin, Skip, BeginMacro, BeginCall
<1> QED  BY <1>1, <1>2, <1>3 DEF Next, vars, history

\* Occasional logging is exact for ever: LOG_EVERY_N, LOG_AFTER_N and LOG_N_TIMES
\* let pass just the calls they should, through every time their counter starts
\* over, and whatever threads interleave.
THEOREM OccasionsExact == Spec => []GatesExact
<1>1. CountersInv => GatesExact
  BY DEF CountersInv, GateExact, GatesExact, Quot
<1> QED  BY <1>1, CountersInit, CountersNext, PTL DEF Spec

-----------------------------------------------------------------------------
(* Writers, stacks and locks: the invariant.                               *)

Piece == Nat \X Nat

\* The log() call of a statement, as it is remembered.
Begun == {[s EXCEPT !.gate = g] : s \in Statements, g \in {"pass", "stop"}}

\* The stages of a Writer at which the logger it found is locked, those at which
\* it is in the dispatch, and those at which it has put its message in m_data.
Locking == {"format", "stream", "process", "dispatch", "handle", "write", "flush", "done"}
Dispatching == {"handle", "write", "flush", "done"}
Writing == {"write", "flush", "done"}
Stages == Locking \cup {"initialize", "next", "abort"}

WriterRecord ==
  [pc : Stages, msg : Nat, level : Levels, ids : Seq(Loggers), i : Nat \ {0},
   logger : Loggers \cup {None}, proceed : BOOLEAN, left : Seq(Piece), copy : Seq(Piece),
   first : BOOLEAN, surplus : BOOLEAN]

\* Only a Writer that found its logger dispatches.
Writers ==
  {w \in WriterRecord :
     /\ w.i <= Len(w.ids)
     /\ w.proceed \/ w.pc \in {"format", "dispatch"} \cup Dispatching => w.logger # None}

\* A Writer under another one holds nothing, and one above another one writes to
\* the default logger, which exists, and is not fatal: it starts no third one.
Waits(v) == v.pc = "abort" \/ (v.pc \in {"stream", "process"} /\ v.logger = None)
Inner(w) == w.ids = <<DefaultId>> /\ w.level # "Fatal" /\ w.pc # "format"

Stacks ==
  /\ stack \in [Threads -> Seq(Writers)]
  /\ \A t \in Threads :
       /\ Len(stack[t]) <= 2
       /\ Len(stack[t]) = 2 => Waits(stack[t][1]) /\ Inner(stack[t][2])

\* The rest of the state.
Contents ==
  /\ registered \subseteq Loggers \ Invalid /\ DefaultId \in registered
  /\ lock \in [Loggers -> Mutex] /\ leaked \subseteq Loggers
  /\ stream \in [Loggers -> Seq(Piece)] /\ m_data \in LogDispatchData
  /\ global \in Threads \cup {None} /\ fileLock \in [Files -> Threads \cup {None}]
  /\ begun \in Seq(Begun)

\* How far a thread is in its statement, and the logger it has locked there.
Stage(t) == IF stack[t] = <<>> THEN "idle" ELSE Top(t).pc
Holds(t) == IF Stage(t) \in Locking THEN Top(t).logger ELSE None

\* A logger is locked once by the thread that is at work on it, and once more for
\* every call that left it locked.
LoggerLock(l) ==
  /\ lock[l].holder = None <=> lock[l].count = 0
  /\ \A t \in Threads : Holds(t) = l => lock[l].holder = t
  /\ l \notin leaked => lock[l].count <= 1 /\ \A t \in Threads : lock[l].holder = t => Holds(t) = l
  /\ l \in leaked => lock[l].count >= 1 /\ \A t \in Threads : Holds(t) = l => lock[l].count >= 2
  /\ stream[l] # <<>> => lock[l].count > 0

LoggerLocks == \A l \in Loggers : LoggerLock(l)

\* The global lock and the lock of a file are held by the thread that dispatches,
\* and m_data is its message.
DispatchLock(t) ==
  /\ global = t <=> Stage(t) \in Dispatching
  /\ \A f \in Files : fileLock[f] = t => Stage(t) \in Writing /\ FileOf[Top(t).logger] = f
  /\ Stage(t) \in Writing => m_data = LogMessage(Top(t))

DispatchLocks == \A t \in Threads : DispatchLock(t)

LocksInv == Stacks /\ Contents /\ LoggerLocks /\ DispatchLocks

\* The last element of a stack is replaced, covered by another one, or taken off.
LEMMA StackOperations ==
  ASSUME NEW S, NEW q \in Seq(S), q # <<>>
  PROVE  /\ Last(q) \in S /\ Last(q) = q[Len(q)] /\ Len(q) \in Nat \ {0}
         /\ Front(q) \in Seq(S) /\ Len(Front(q)) = Len(q) - 1
         /\ \A i \in 1 .. Len(q) - 1 : Front(q)[i] = q[i]
         /\ \A x \in S :
              /\ Append(Front(q), x) \in Seq(S) /\ Len(Append(Front(q), x)) = Len(q)
              /\ \A i \in 1 .. Len(q) - 1 : Append(Front(q), x)[i] = q[i]
              /\ Append(Front(q), x)[Len(q)] = x
<1>1. Len(q) \in Nat \ {0}
  BY EmptySeq
<1>2. Last(q) \in S /\ Last(q) = q[Len(q)]
  BY <1>1 DEF Last
<1>3. PICK n \in Nat : n = Len(q) - 1
  BY <1>1
<1>4. Front(q) = SubSeq(q, 1, n)
  BY <1>3 DEF Front
<1>5. \A i \in 1 .. n : q[i] \in S
  BY <1>1, <1>3
<1>6. PICK p : p = Front(q)
  OBVIOUS
<1>7. /\ p \in Seq(S) /\ Len(p) = n /\ \A i \in 1 .. n : p[i] = q[i]
  BY <1>1, <1>3, <1>4, <1>5, <1>6, SubSeqProperties
<1>8. ASSUME NEW x \in S
      PROVE  /\ Append(p, x) \in Seq(S) /\ Len(Append(p, x)) = n + 1
             /\ \A i \in 1 .. n : Append(p, x)[i] = q[i]
             /\ Append(p, x)[n + 1] = x
  BY <1>7, AppendProperties
<1>9. n + 1 = Len(q)
  BY <1>1, <1>3
<1> QED  BY <1>1, <1>2, <1>3, <1>6, <1>7, <1>8, <1>9

\* What the other threads are about does not change with one thread's stack.
Others(t) == \A u \in Threads \ {t} : stack'[u] = stack[u]

LEMMA OthersStay ==
  ASSUME NEW t \in Threads, Others(t), NEW u \in Threads \ {t}
  PROVE  Top(u)' = Top(u) /\ Stage(u)' = Stage(u) /\ Holds(u)' = Holds(u)
<1>1. Top(u)' = Top(u)
  BY DEF Others, Top
<1>2. Stage(u)' = Stage(u)
  BY <1>1 DEF Others, Stage
<1> QED  BY <1>1, <1>2 DEF Holds

\* The Writer at work in a thread.
LEMMA TopTypes ==
  ASSUME Stacks, NEW t \in Threads, stack[t] # <<>>
  PROVE  /\ Top(t) \in Writers /\ Stage(t) = Top(t).pc
         /\ Holds(t) = IF Top(t).pc \in Locking THEN Top(t).logger ELSE None
         /\ Len(stack[t]) \in 1 .. 2 /\ Top(t) = stack[t][Len(stack[t])]
<1>1. stack[t] \in Seq(Writers) /\ Len(stack[t]) <= 2
  BY DEF Stacks
<1>2. Len(stack[t]) \in Nat \ {0} /\ Last(stack[t]) \in Writers
      /\ Last(stack[t]) = stack[t][Len(stack[t])]
  BY <1>1, StackOperations
<1>3. Len(stack[t]) \in 1 .. 2
  <2>1. Len(stack[t]) \in Nat \ {0} /\ Len(stack[t]) <= 2
    BY <1>1, <1>2
  <2>2. \A n \in Nat \ {0} : n <= 2 => n \in 1 .. 2
    OBVIOUS
  <2> QED  BY <2>1, <2>2
<1>4. Stage(t) = Top(t).pc
  BY DEF Stage
<1>5. Top(t) \in Writers /\ Top(t) = stack[t][Len(stack[t])]
  BY <1>2 DEF Top
<1>6. Holds(t) = IF Top(t).pc \in Locking THEN Top(t).logger ELSE None
  BY <1>4 DEF Holds
<1> QED  BY <1>3, <1>4, <1>5, <1>6

\* The Writer at work goes on, with the loggers and the level it has.
LEMMA Becoming ==
  ASSUME Stacks, NEW t \in Threads, stack[t] # <<>>,
         NEW w \in Writers, Become(t, w),
         w.ids = Top(t).ids, w.level = Top(t).level,
         w.pc = "format" => Top(t).pc = "format"
  PROVE  /\ Stacks' /\ Others(t) /\ stack'[t] # <<>> /\ Top(t)' = w
         /\ Stage(t)' = w.pc /\ Holds(t)' = IF w.pc \in Locking THEN w.logger ELSE None
<1>1. stack \in [Threads -> Seq(Writers)] /\ stack[t] \in Seq(Writers)
  BY DEF Stacks
<1>2. PICK q : q = Append(Front(stack[t]), w)
  OBVIOUS
<1>3. /\ q \in Seq(Writers) /\ Len(q) = Len(stack[t]) /\ Len(q) \in Nat \ {0}
      /\ \A i \in 1 .. Len(stack[t]) - 1 : q[i] = stack[t][i]
      /\ q[Len(stack[t])] = w
  <2>1. PICK s \in Seq(Writers) : s = stack[t] /\ s # <<>>
    BY <1>1
  <2>2. /\ Append(Front(s), w) \in Seq(Writers) /\ Len(Append(Front(s), w)) = Len(s)
        /\ \A i \in 1 .. Len(s) - 1 : Append(Front(s), w)[i] = s[i]
        /\ Append(Front(s), w)[Len(s)] = w /\ Len(s) \in Nat \ {0}
    BY <2>1, StackOperations
  <2> QED  BY <1>2, <2>1, <2>2
<1>4. stack' = [stack EXCEPT ![t] = q]
  BY <1>2 DEF Become
<1>5. stack'[t] = q /\ Others(t) /\ stack' \in [Threads -> Seq(Writers)]
  BY <1>1, <1>3, <1>4 DEF Others
<1>6. Len(q) <= 2 /\ (Len(q) = 2 => Waits(q[1]) /\ Inner(q[2]))
  <2>1. /\ Len(stack[t]) <= 2
        /\ Len(stack[t]) = 2 => Waits(stack[t][1]) /\ Inner(stack[t][2])
    BY DEF Stacks
  <2>2. Top(t) = stack[t][Len(stack[t])]
    BY TopTypes
  <2> QED  BY <1>3, <2>1, <2>2 DEF Inner
<1>7. Stacks'
  BY <1>5, <1>6 DEF Stacks, Others
<1>8. q # <<>> /\ Last(q) = w
  BY <1>3 DEF Last
<1>9. Top(t)' = w /\ Stage(t)' = w.pc
  BY <1>5, <1>8 DEF Top, Stage
<1> QED  BY <1>5, <1>7, <1>8, <1>9 DEF Holds

\* The Writer at work stops.
LEMMA Popping ==
  ASSUME Stacks, NEW t \in Threads, stack[t] # <<>>, Pop(t)
  PROVE  Stacks' /\ Others(t) /\ Holds(t)' = None /\ Stage(t)' \notin Dispatching
<1>1. stack \in [Threads -> Seq(Writers)] /\ stack[t] \in Seq(Writers)
      /\ Len(stack[t]) <= 2 /\ (Len(stack[t]) = 2 => Waits(stack[t][1]))
  BY DEF Stacks
<1>2. PICK q : q = Front(stack[t])
  OBVIOUS
<1>3. /\ q \in Seq(Writers) /\ Len(q) = Len(stack[t]) - 1 /\ Len(stack[t]) \in Nat \ {0}
      /\ \A i \in 1 .. Len(stack[t]) - 1 : q[i] = stack[t][i]
  BY <1>1, <1>2, StackOperations
<1>4. stack' = [stack EXCEPT ![t] = q]
  BY <1>2 DEF Pop
<1>5. stack'[t] = q /\ Others(t) /\ stack' \in [Threads -> Seq(Writers)]
  BY <1>1, <1>3, <1>4 DEF Others
<1>6. Len(q) <= 1
  BY <1>1, <1>3
<1>7. Stacks'
  <2>1. \A u \in Threads \ {t} :
          /\ Len(stack'[u]) <= 2
          /\ Len(stack'[u]) = 2 => Waits(stack'[u][1]) /\ Inner(stack'[u][2])
    BY <1>5 DEF Stacks, Others
  <2>2. Len(stack'[t]) <= 2 /\ Len(stack'[t]) # 2
    <3>1. Len(q) \in Nat /\ Len(q) <= 1
      BY <1>3, <1>6
    <3>2. stack'[t] = q
      BY <1>5
    <3>3. Len(q) <= 2 /\ Len(q) # 2
      BY <3>1
    <3> QED  BY <3>2, <3>3
  <2> QED  BY <1>5, <2>1, <2>2 DEF Stacks
<1>8. Holds(t)' = None /\ Stage(t)' \notin Dispatching
  <2>1. CASE q = <<>>
    BY <1>5, <2>1 DEF Stage, Holds, Locking, Dispatching
  <2>2. CASE q # <<>>
    <3>1. Len(q) \in Nat \ {0}
      BY <1>3, <2>2, EmptySeq
    <3>2. Len(q) = 1 /\ Len(stack[t]) = 2
      BY <1>1, <1>3, <3>1
    <3>3. Last(q) = stack[t][1]
      BY <1>3, <3>2 DEF Last
    <3>4. Waits(Last(q))
      BY <1>1, <3>2, <3>3
    <3>5. Top(t)' = Last(q) /\ Stage(t)' = Last(q).pc
      BY <1>5, <2>2 DEF Top, Stage
    <3> QED  BY <3>4, <3>5 DEF Waits, Holds, Locking, Dispatching
  <2> QED  BY <2>1, <2>2
<1> QED  BY <1>5, <1>7, <1>8

\* The only Writer of a thread starts another one.
LEMMA Nesting ==
  ASSUME Stacks, NEW t \in Threads, stack[t] # <<>>, Len(stack[t]) # 2,
         NEW v \in Writers, Waits(v), NEW w \in Writers, Inner(w), Nest(t, v, w)
  PROVE  /\ Stacks' /\ Others(t) /\ stack'[t] # <<>> /\ Top(t)' = w
         /\ Stage(t)' = w.pc /\ Holds(t)' = IF w.pc \in Locking THEN w.logger ELSE None
<1>1. stack \in [Threads -> Seq(Writers)] /\ stack[t] \in Seq(Writers) /\ Len(stack[t]) <= 2
  BY DEF Stacks
<1>2. PICK p : p = Append(Front(stack[t]), v)
  OBVIOUS
<1>3. p \in Seq(Writers) /\ Len(p) = 1 /\ p[1] = v
  <2>1. PICK s \in Seq(Writers) : s = stack[t] /\ s # <<>>
    BY <1>1
  <2>2. /\ Append(Front(s), v) \in Seq(Writers) /\ Len(Append(Front(s), v)) = Len(s)
        /\ Append(Front(s), v)[Len(s)] = v /\ Len(s) \in Nat \ {0}
    BY <2>1, StackOperations
  <2>3. Len(s) = 1
    BY <1>1, <2>1, <2>2
  <2> QED  BY <1>2, <2>1, <2>2, <2>3
<1>4. PICK q : q = Append(p, w)
  OBVIOUS
<1>5. q \in Seq(Writers) /\ Len(q) = 2 /\ q[1] = v /\ q[2] = w
  <2>1. Append(p, w) \in Seq(Writers) /\ Len(Append(p, w)) = Len(p) + 1
        /\ Append(p, w)[Len(p) + 1] = w /\ \A i \in 1 .. Len(p) : Append(p, w)[i] = p[i]
    <3>1. \A e \in Seq(Writers) :
            /\ Append(e, w) \in Seq(Writers) /\ Len(Append(e, w)) = Len(e) + 1
            /\ Append(e, w)[Len(e) + 1] = w /\ \A i \in 1 .. Len(e) : Append(e, w)[i] = e[i]
      BY AppendProperties
    <3> QED  BY <1>3, <3>1
  <2>2. 1 \in 1 .. 1
    OBVIOUS
  <2> QED  BY <1>3, <1>4, <2>1, <2>2
<1>6. stack' = [stack EXCEPT ![t] = q]
  BY <1>2, <1>4 DEF Nest
<1>7. stack'[t] = q /\ Others(t) /\ stack' \in [Threads -> Seq(Writers)]
  BY <1>1, <1>5, <1>6 DEF Others
<1>8. Stacks'
  <2>1. \A u \in Threads \ {t} :
          /\ Len(stack'[u]) <= 2
          /\ Len(stack'[u]) = 2 => Waits(stack'[u][1]) /\ Inner(stack'[u][2])
    BY <1>7 DEF Stacks, Others
  <2>2. Len(stack'[t]) <= 2 /\ Waits(stack'[t][1]) /\ Inner(stack'[t][2])
    <3>1. stack'[t] = q
      BY <1>7
    <3>2. Len(q) <= 2 /\ Waits(q[1]) /\ Inner(q[2])
      BY <1>5
    <3> QED  BY <3>1, <3>2
  <2> QED  BY <1>7, <2>1, <2>2 DEF Stacks
<1>9. q # <<>> /\ Last(q) = w
  BY <1>5 DEF Last
<1>10. Top(t)' = w /\ Stage(t)' = w.pc
  BY <1>7, <1>9 DEF Top, Stage
<1> QED  BY <1>7, <1>8, <1>9, <1>10 DEF Holds

\* A statement begins with one Writer.
LEMMA Beginning ==
  ASSUME Stacks, NEW t \in Threads, NEW w \in Writers, stack' = [stack EXCEPT ![t] = <<w>>]
  PROVE  /\ Stacks' /\ Others(t) /\ stack'[t] # <<>> /\ Top(t)' = w
         /\ Stage(t)' = w.pc /\ Holds(t)' = IF w.pc \in Locking THEN w.logger ELSE None
<1>1. stack \in [Threads -> Seq(Writers)]
  BY DEF Stacks
<1>2. <<w>> \in Seq(Writers) /\ Len(<<w>>) = 1 /\ <<w>>[1] = w /\ <<w>> # <<>>
  OBVIOUS
<1>3. stack'[t] = <<w>> /\ Others(t) /\ stack' \in [Threads -> Seq(Writers)]
  BY <1>1, <1>2 DEF Others
<1>4. Stacks'
  BY <1>2, <1>3 DEF Stacks, Others
<1>5. Last(<<w>>) = w
  BY <1>2 DEF Last
<1>6. Top(t)' = w /\ Stage(t)' = w.pc
  BY <1>2, <1>3, <1>5 DEF Top, Stage
<1> QED  BY <1>2, <1>3, <1>4, <1>6 DEF Holds

-----------------------------------------------------------------------------
(* What a step does to the locks.                                          *)

\* Only text of the logger that t has locked changes.
OwnStream(t) == \A l \in Loggers : stream'[l] # stream[l] => Holds(t) = l

LEMMA LoggerLocksKept ==
  ASSUME LocksInv, NEW t \in Threads, Others(t), Holds(t)' = Holds(t), OwnStream(t),
         UNCHANGED <<lock, leaked>>
  PROVE  LoggerLocks'
<1>1. \A u \in Threads : Holds(u)' = Holds(u)
  BY OthersStay
<1>2. SUFFICES ASSUME NEW l \in Loggers  PROVE LoggerLock(l)'
  BY DEF LoggerLocks
<1>3. LoggerLock(l)
  BY DEF LocksInv, LoggerLocks
<1>4. lock[l].count \in Nat
  BY DEF LocksInv, Contents, Mutex
<1>5. Holds(t) = l => lock[l].count > 0
  BY <1>3, <1>4, LogDispatchAssumption DEF LoggerLock
<1> QED  BY <1>1, <1>3, <1>5 DEF LoggerLock, OwnStream

\* The mutex of a logger, and who may hold it.
LEMMA LockTypes ==
  ASSUME LocksInv, NEW l \in Loggers
  PROVE  /\ lock \in [Loggers -> Mutex] /\ lock[l].holder \in Threads \cup {None}
         /\ lock[l].count \in Nat /\ None \notin Threads /\ None \notin Loggers
         /\ stream \in [Loggers -> Seq(Piece)]
         /\ LoggerLock(l)
BY LogDispatchAssumption DEF LocksInv, Contents, Mutex, LoggerLocks

LEMMA LockTaken ==
  ASSUME LocksInv, NEW t \in Threads, NEW l \in Loggers, Others(t),
         Holds(t) = None, Holds(t)' = l, CanLock(t, l), Acquire(t, l),
         UNCHANGED <<stream, leaked>>
  PROVE  LoggerLocks' /\ lock' \in [Loggers -> Mutex]
<1>1. PICK c \in Nat : c = lock[l].count
  BY LockTypes
<1>2. /\ lock' = [lock EXCEPT ![l] = [holder |-> t, count |-> c + 1]]
      /\ lock'[l] = [holder |-> t, count |-> c + 1]
      /\ \A k \in Loggers \ {l} : lock'[k] = lock[k]
  BY <1>1, LockTypes DEF Acquire
<1>3. [holder |-> t, count |-> c + 1] \in Mutex
  BY DEF Mutex
<1>4. lock' \in [Loggers -> Mutex]
  BY <1>2, <1>3, LockTypes
<1>5. \A u \in Threads \ {t} : Holds(u)' = Holds(u)
  BY OthersStay
<1>6. LoggerLock(l)'
  <2>1. LoggerLock(l) /\ None \notin Threads /\ lock[l].holder \in {None, t}
    BY LockTypes DEF CanLock
  <2>2. lock'[l].holder = t /\ lock'[l].count = c + 1
    BY <1>2
  <2>3. \A u \in Threads \ {t} : Holds(u) # l
    BY <2>1 DEF LoggerLock
  <2>4. l \notin leaked => c = 0
    BY <1>1, <2>1, LockTypes DEF LoggerLock
  <2>5. l \in leaked => c >= 1
    BY <1>1, <2>1 DEF LoggerLock
  <2> QED  BY <1>1, <1>5, <2>1, <2>2, <2>3, <2>4, <2>5 DEF LoggerLock
<1>7. ASSUME NEW k \in Loggers \ {l}  PROVE LoggerLock(k)'
  <2>1. LoggerLock(k) /\ None # k
    BY LockTypes
  <2>2. \A u \in Threads : Holds(u)' = k <=> Holds(u) = k
    BY <1>5, <2>1
  <2> QED  BY <1>2, <2>1, <2>2 DEF LoggerLock
<1> QED  BY <1>4, <1>6, <1>7 DEF LoggerLocks

LEMMA LockReleased ==
  ASSUME LocksInv, NEW t \in Threads, NEW l \in Loggers, Others(t),
         Holds(t) = l, Holds(t)' = None, Release(l),
         stream' = [stream EXCEPT ![l] = <<>>], UNCHANGED leaked
  PROVE  LoggerLocks' /\ lock' \in [Loggers -> Mutex] /\ stream' \in [Loggers -> Seq(Piece)]
<1>1. PICK c \in Nat : c = lock[l].count
  BY LockTypes
<1>2. LoggerLock(l) /\ lock[l].holder = t /\ c # 0
  BY <1>1, LockTypes DEF LoggerLock
<1>3. PICK d \in Nat : c = d + 1
  BY <1>2
<1>4. PICK h : h = IF c = 1 THEN None ELSE t
  OBVIOUS
<1>5. /\ lock' = [lock EXCEPT ![l] = [holder |-> h, count |-> d]]
      /\ lock'[l] = [holder |-> h, count |-> d]
      /\ \A k \in Loggers \ {l} : lock'[k] = lock[k]
  <2>1. c - 1 = d
    BY <1>3
  <2> QED  BY <1>1, <1>2, <1>4, <2>1, LockTypes DEF Release
<1>6. [holder |-> h, count |-> d] \in Mutex
  BY <1>4 DEF Mutex
<1>7. lock' \in [Loggers -> Mutex]
  BY <1>5, <1>6, LockTypes
<1>8. \A u \in Threads \ {t} : Holds(u)' = Holds(u)
  BY OthersStay
<1>9. /\ stream' \in [Loggers -> Seq(Piece)] /\ stream'[l] = <<>>
      /\ \A k \in Loggers \ {l} : stream'[k] = stream[k]
  <2>1. <<>> \in Seq(Piece) /\ stream \in [Loggers -> Seq(Piece)]
    BY LockTypes
  <2> QED  BY <2>1
<1>10. LoggerLock(l)'
  <2>1. lock'[l].holder = h /\ lock'[l].count = d
    BY <1>5
  <2>2. \A u \in Threads : Holds(u)' # l
    BY <1>2, <1>8, LockTypes DEF LoggerLock
  <2>3. l \notin leaked => d = 0 /\ h = None
    BY <1>1, <1>2, <1>3, <1>4 DEF LoggerLock
  <2>4. l \in leaked => d >= 1 /\ h = t
    BY <1>1, <1>2, <1>3, <1>4 DEF LoggerLock
  <2> QED  BY <1>9, <2>1, <2>2, <2>3, <2>4, LockTypes DEF LoggerLock
<1>11. ASSUME NEW k \in Loggers \ {l}  PROVE LoggerLock(k)'
  <2>1. LoggerLock(k) /\ None # k
    BY LockTypes
  <2>2. \A u \in Threads : Holds(u)' = k <=> Holds(u) = k
    BY <1>8, <2>1
  <2> QED  BY <1>5, <1>9, <2>1, <2>2 DEF LoggerLock
<1> QED  BY <1>7, <1>9, <1>10, <1>11 DEF LoggerLocks

LEMMA LockLeaked ==
  ASSUME LocksInv, NEW t \in Threads, NEW l \in Loggers, Others(t),
         Holds(t) = l, Holds(t)' = None, leaked' = leaked \cup {l}, UNCHANGED <<lock, stream>>
  PROVE  LoggerLocks'
<1>1. \A u \in Threads \ {t} : Holds(u)' = Holds(u)
  BY OthersStay
<1>2. LoggerLock(l)'
  <2>1. LoggerLock(l) /\ lock[l].holder = t /\ lock[l].count \in Nat /\ None \notin Threads
    BY LockTypes DEF LoggerLock
  <2>2. \A u \in Threads : Holds(u)' # l
    BY <1>1, <2>1, LockTypes DEF LoggerLock
  <2>3. lock[l].count # 0
    BY <2>1 DEF LoggerLock
  <2> QED  BY <2>1, <2>2, <2>3 DEF LoggerLock
<1>3. ASSUME NEW k \in Loggers \ {l}  PROVE LoggerLock(k)'
  <2>1. LoggerLock(k) /\ None # k
    BY LockTypes
  <2>2. \A u \in Threads : Holds(u)' = k <=> Holds(u) = k
    BY <1>1, <2>1
  <2> QED  BY <2>1, <2>2 DEF LoggerLock
<1> QED  BY <1>2, <1>3 DEF LoggerLocks

\* A thread changes the text of no message another one dispatches.
LEMMA MessagesKept ==
  ASSUME LocksInv, NEW t \in Threads, Others(t), OwnStream(t), UNCHANGED m_data,
         NEW u \in Threads \ {t}, Stage(u) \in Writing
  PROVE  m_data' = LogMessage(Top(u))'
<1>1. stack[u] # <<>>
  BY DEF Stage, Writing
<1>2. Top(u) \in Writers /\ Stage(u) = Top(u).pc /\ Holds(u) = Top(u).logger
  BY <1>1, TopTypes DEF LocksInv, Writing, Locking
<1>3. Top(u).logger \in Loggers
  BY <1>2 DEF Writers, WriterRecord, Writing, Dispatching
<1>4. lock[Top(u).logger].holder = u
  BY <1>2, <1>3, LockTypes DEF LoggerLock
<1>5. Holds(t) # Top(u).logger
  BY <1>3, <1>4, LockTypes DEF LoggerLock
<1>6. stream'[Top(u).logger] = stream[Top(u).logger]
  BY <1>3, <1>5 DEF OwnStream
<1>7. m_data = LogMessage(Top(u))
  BY DEF LocksInv, DispatchLocks, DispatchLock
<1>8. Top(u)' = Top(u)
  BY OthersStay
<1> QED  BY <1>6, <1>7, <1>8 DEF LogMessage

\* A thread that is not in the dispatch, before and after, disturbs nobody there.
LEMMA DispatchKept ==
  ASSUME LocksInv, NEW t \in Threads, Others(t), OwnStream(t),
         Stage(t) \notin Dispatching, Stage(t)' \notin Dispatching,
         UNCHANGED <<global, fileLock, m_data>>
  PROVE  DispatchLocks'
<1>1. ASSUME NEW u \in Threads \ {t}  PROVE DispatchLock(u)'
  <2>1. DispatchLock(u)
    BY DEF LocksInv, DispatchLocks
  <2>2. Stage(u)' = Stage(u) /\ Top(u)' = Top(u)
    BY OthersStay
  <2>3. Stage(u) \in Writing => m_data' = LogMessage(Top(u))'
    BY MessagesKept
  <2> QED  BY <2>1, <2>2, <2>3 DEF DispatchLock
<1>2. DispatchLock(t)'
  <2>1. DispatchLock(t)
    BY DEF LocksInv, DispatchLocks
  <2> QED  BY <2>1 DEF DispatchLock, Writing, Dispatching
<1> QED  BY <1>1, <1>2 DEF DispatchLocks

\* While a thread holds the global lock, or nobody, the others are not in the
\* dispatch and hold the lock of no file.
LEMMA DispatchAlone ==
  ASSUME LocksInv, NEW t \in Threads, Others(t), global \in {None, t}, global' \in {None, t},
         \A f \in Files : fileLock'[f] \in {fileLock[f], None, t}, DispatchLock(t)'
  PROVE  DispatchLocks'
<1>1. ASSUME NEW u \in Threads \ {t}  PROVE DispatchLock(u)'
  <2>1. DispatchLock(u) /\ None \notin Threads
    BY LogDispatchAssumption DEF LocksInv, DispatchLocks
  <2>2. Stage(u)' = Stage(u) /\ Stage(u) \notin Dispatching
    BY <2>1, OthersStay DEF DispatchLock
  <2>3. Stage(u) \notin Writing
    BY <2>2 DEF Dispatching, Writing
  <2>4. \A f \in Files : fileLock'[f] # u
    BY <2>1, <2>3 DEF DispatchLock
  <2> QED  BY <2>1, <2>2, <2>3, <2>4 DEF DispatchLock
<1> QED  BY <1>1 DEF DispatchLocks

-----------------------------------------------------------------------------
(* Every step keeps the locks invariant.                                   *)

\* The Writer at work, at the stage p.
LEMMA AtWork ==
  ASSUME LocksInv, NEW t \in Threads, NEW p, At(t, p)
  PROVE  /\ Stacks /\ Contents /\ stack[t] # <<>>
         /\ Top(t) \in Writers /\ Top(t) \in WriterRecord /\ Top(t).pc = p /\ Stage(t) = p
         /\ Holds(t) = IF p \in Locking THEN Top(t).logger ELSE None
<1>1. Stacks /\ Contents /\ stack[t] # <<>> /\ Top(t).pc = p
  BY DEF LocksInv, At
<1> QED  BY <1>1, TopTypes DEF Writers

\* A condition is a Boolean.
LEMMA Condition == \A x, S : \E b \in BOOLEAN : b = (x \in S)
<1> SUFFICES ASSUME NEW x, NEW S  PROVE \E b \in BOOLEAN : b = (x \in S)
  OBVIOUS
<1>1. CASE x \in S
  BY <1>1
<1>2. CASE x \notin S
  <2>1. FALSE \in BOOLEAN
    OBVIOUS
  <2>2. FALSE <=> x \in S
    BY <1>2
  <2>3. FALSE = (x \in S)
    BY <2>2
  <2> QED  BY <2>1, <2>3, Zenon
<1> QED  BY <1>1, <1>2

\* A step outside the dispatch that takes and gives back no lock.
LEMMA LocksUntouched ==
  ASSUME LocksInv, NEW t \in Threads, Others(t), Stacks', Holds(t)' = Holds(t), OwnStream(t),
         Stage(t) \notin Dispatching, Stage(t)' \notin Dispatching,
         stream' \in [Loggers -> Seq(Piece)],
         UNCHANGED <<lock, leaked, registered, begun, global, fileLock, m_data>>
  PROVE  LocksInv'
<1>1. LoggerLocks'
  BY LoggerLocksKept
<1>2. DispatchLocks'
  BY DispatchKept
<1>3. Contents'
  BY DEF LocksInv, Contents
<1> QED  BY <1>1, <1>2, <1>3 DEF LocksInv

\* The text of the logger t has locked is replaced.
LEMMA StreamOwned ==
  ASSUME LocksInv, NEW t \in Threads, NEW l \in Loggers, Holds(t) = l,
         NEW text \in Seq(Piece), stream' = [stream EXCEPT ![l] = text]
  PROVE  OwnStream(t) /\ stream' \in [Loggers -> Seq(Piece)] /\ stream'[l] = text
<1>1. stream \in [Loggers -> Seq(Piece)]
  BY LockTypes
<1> QED  BY <1>1 DEF OwnStream

LEMMA FormatKeeps ==
  ASSUME LocksInv, NEW t \in Threads, Format(t)
  PROVE  LocksInv'
<1>1. PICK w \in Writers : w = Top(t) /\ w.pc = "format" /\ w \in WriterRecord
  BY AtWork DEF Format
<1>2. /\ stack[t] # <<>> /\ Stacks /\ Stage(t) = "format" /\ Holds(t) = w.logger
      /\ w.logger \in Loggers /\ w.left \in Seq(Piece)
  <2>1. stack[t] # <<>> /\ Stacks /\ Stage(t) = "format" /\ Holds(t) = w.logger
    BY <1>1, AtWork DEF Format, Locking
  <2>2. w.logger \in Loggers /\ w.left \in Seq(Piece)
    BY <1>1 DEF Writers, WriterRecord
  <2> QED  BY <2>1, <2>2
<1>3. PICK l \in Loggers : l = w.logger
  BY <1>2
<1>4. UNCHANGED <<lock, registered, begun, global, fileLock, m_data>>
  BY DEF Format, locks, output
<1>5. ASSUME w.left # <<>>, stream' = [stream EXCEPT ![l] = Append(@, Head(w.left))],
             Become(t, [w EXCEPT !.left = Tail(@)]), UNCHANGED leaked
      PROVE  LocksInv'
  <2>1. PICK rest \in Seq(Piece), x \in Piece : rest = Tail(w.left) /\ x = Head(w.left)
    BY <1>2, <1>5, HeadTailProperties
  <2>2. PICK v : v = [w EXCEPT !.left = rest]
    OBVIOUS
  <2>3. v \in Writers /\ v.ids = w.ids /\ v.level = w.level /\ v.pc = "format" /\ v.logger = l
    BY <1>1, <1>3, <2>1, <2>2 DEF Writers, WriterRecord
  <2>4. Become(t, v)
    BY <1>5, <2>1, <2>2
  <2>5. Stacks' /\ Others(t) /\ Stage(t)' = "format" /\ Holds(t)' = l
    BY <1>1, <1>2, <2>3, <2>4, Becoming DEF Locking
  <2>6. OwnStream(t) /\ stream' \in [Loggers -> Seq(Piece)]
    <3>1. stream[l] \in Seq(Piece)
      BY LockTypes
    <3>2. PICK text \in Seq(Piece) : text = Append(stream[l], x)
      BY <2>1, <3>1, AppendProperties
    <3> QED  BY <1>2, <1>3, <1>5, <2>1, <3>2, StreamOwned
  <2> QED  BY <1>2, <1>3, <1>4, <1>5, <2>5, <2>6, LocksUntouched DEF Dispatching
<1>6. ASSUME Become(t, [w EXCEPT !.pc = "process", !.proceed = <<l, w.level>> \in Enabled]),
             UNCHANGED <<stream, leaked>>
      PROVE  LocksInv'
  <2>1. PICK b \in BOOLEAN : b = (<<l, w.level>> \in Enabled)
    BY Condition, Zenon
  <2>2. PICK v : v = [w EXCEPT !.pc = "process", !.proceed = b]
    OBVIOUS
  <2>3. v \in Writers /\ v.ids = w.ids /\ v.level = w.level /\ v.pc = "process" /\ v.logger = l
    BY <1>1, <1>2, <1>3, <2>1, <2>2, LockTypes
      DEF Writers, WriterRecord, Stages, Locking, Dispatching
  <2>4. Become(t, v)
    BY <1>6, <2>1, <2>2, Zenon
  <2>5. Stacks' /\ Others(t) /\ Stage(t)' = "process" /\ Holds(t)' = l
    BY <1>1, <1>2, <2>3, <2>4, Becoming DEF Locking
  <2>6. OwnStream(t) /\ stream' \in [Loggers -> Seq(Piece)]
    BY <1>6, LockTypes DEF OwnStream
  <2> QED  BY <1>2, <1>3, <1>4, <1>6, <2>5, <2>6, LocksUntouched DEF Dispatching
<1>7. ASSUME Pop(t), leaked' = leaked \cup {l}, UNCHANGED stream
      PROVE  LocksInv'
  <2>1. Stacks' /\ Others(t) /\ Holds(t)' = None /\ Stage(t)' \notin Dispatching
    BY <1>2, <1>7, Popping
  <2>2. LoggerLocks'
    BY <1>2, <1>3, <1>4, <1>7, <2>1, LockLeaked
  <2>3. DispatchLocks'
    BY <1>2, <1>4, <1>7, <2>1, DispatchKept DEF OwnStream, Dispatching
  <2>4. Contents'
    BY <1>4, <1>7 DEF LocksInv, Contents
  <2> QED  BY <2>1, <2>2, <2>3, <2>4 DEF LocksInv
<1> QED  BY <1>1, <1>3, <1>5, <1>6, <1>7, Zenon DEF Format

LEMMA InitializeLoggerKeeps ==
  ASSUME LocksInv, NEW t \in Threads, InitializeLogger(t)
  PROVE  LocksInv'
<1>1. PICK w \in Writers : w = Top(t) /\ w.pc = "initialize" /\ w \in WriterRecord
  BY AtWork DEF InitializeLogger
<1>2. stack[t] # <<>> /\ Stacks /\ Stage(t) = "initialize" /\ Holds(t) = None
  BY <1>1, AtWork DEF InitializeLogger, Locking
<1>3. PICK l \in Loggers : l = w.ids[w.i]
  BY <1>1 DEF Writers, WriterRecord
<1>4. /\ Found(w) /\ CanLock(t, l) /\ Acquire(t, l)
      /\ registered' = registered \cup {l}
      /\ UNCHANGED <<stream, leaked, begun, global, fileLock, m_data>>
  BY <1>1, <1>3 DEF InitializeLogger, output, history
<1>5. PICK p \in {"stream", "process"} : p = AfterInitialize(w)
  BY DEF AfterInitialize
<1>6. PICK b \in BOOLEAN : b = (<<l, w.level>> \in Enabled)
  BY Condition, Zenon
<1>7. PICK v : v = [w EXCEPT !.pc = p, !.logger = l, !.proceed = b]
  OBVIOUS
<1>8. v \in Writers /\ v.ids = w.ids /\ v.level = w.level /\ v.pc = p /\ v.logger = l
  BY <1>1, <1>5, <1>6, <1>7, LockTypes DEF Writers, WriterRecord, Stages, Locking, Dispatching
<1>9. Become(t, v)
  BY <1>1, <1>3, <1>5, <1>6, <1>7, Zenon DEF InitializeLogger
<1>10. Stacks' /\ Others(t) /\ Stage(t)' = p /\ Holds(t)' = l
  BY <1>1, <1>2, <1>5, <1>8, <1>9, Becoming DEF Locking
<1>11. LoggerLocks' /\ lock' \in [Loggers -> Mutex]
  BY <1>2, <1>4, <1>10, LockTaken
<1>12. DispatchLocks'
  BY <1>2, <1>4, <1>5, <1>10, DispatchKept DEF OwnStream, Dispatching
<1>13. Contents'
  <2>1. l \notin Invalid
    BY <1>3, <1>4 DEF Found, LocksInv, Contents
  <2> QED  BY <1>4, <1>11, <2>1 DEF LocksInv, Contents
<1> QED  BY <1>10, <1>11, <1>12, <1>13 DEF LocksInv

\* A new Writer, at its first logger.
LEMMA NewWriter ==
  ASSUME NEW m \in Nat, NEW level \in Levels, NEW ids \in Seq(Loggers), ids # <<>>,
         NEW text \in Seq(Piece), NEW w, w = Writer(m, level, ids, text)
  PROVE  /\ w \in Writers /\ w.pc = "initialize" /\ w.ids = ids /\ w.level = level
         /\ w.i = 1 /\ ~ w.proceed
<1>1. Len(ids) \in Nat \ {0}
  BY EmptySeq
<1>2. PICK no : no = <<>> /\ no \in Seq(Piece)
  <2>1. <<>> \in Seq(Piece)
    OBVIOUS
  <2> QED  BY <2>1, Zenon
<1>3. w = [pc |-> "initialize", msg |-> m, level |-> level, ids |-> ids, i |-> 1,
           logger |-> None, proceed |-> FALSE, left |-> text, copy |-> no,
           first |-> FALSE, surplus |-> FALSE]
  BY <1>2 DEF Writer
<1>4. w \in WriterRecord
  <2>1. "initialize" \in Stages /\ None \in Loggers \cup {None} /\ FALSE \in BOOLEAN
        /\ 1 \in Nat \ {0}
    BY DEF Stages
  <2>2. \A b \in BOOLEAN, j \in Nat \ {0}, p \in Stages, l \in Loggers \cup {None} :
          [pc |-> p, msg |-> m, level |-> level, ids |-> ids, i |-> j,
           logger |-> l, proceed |-> b, left |-> text, copy |-> no,
           first |-> b, surplus |-> b] \in WriterRecord
    BY <1>2 DEF WriterRecord
  <2>3. [pc |-> "initialize", msg |-> m, level |-> level, ids |-> ids, i |-> 1,
         logger |-> None, proceed |-> FALSE, left |-> text, copy |-> no,
         first |-> FALSE, surplus |-> FALSE] \in WriterRecord
    BY <2>1, <2>2
  <2> QED  BY <1>3, <2>3, Zenon
<1>5. w.ids = ids /\ w.i = 1 /\ w.pc = "initialize" /\ w.level = level /\ ~w.proceed
  BY <1>3
<1>6. w.i <= Len(w.ids)
  <2>1. PICK n \in Nat \ {0} : n = Len(w.ids)
    BY <1>1, <1>5
  <2>2. \A x, y : x = 1 /\ y \in Nat \ {0} => x <= y
    OBVIOUS
  <2> QED  BY <1>5, <2>1, <2>2, Zenon
<1>7. w.pc \notin {"format", "dispatch"} \cup Dispatching
  BY <1>5 DEF Dispatching
<1> QED  BY <1>4, <1>5, <1>6, <1>7 DEF Writers

\* The Writer of a note, which goes to the default logger.
LEMMA NoteWriter ==
  ASSUME NEW m \in Nat, NEW level \in {"Debug", "Warning"}, NEW w,
         w = Writer(m, level, <<DefaultId>>, Note(m))
  PROVE  w \in Writers /\ Inner(w) /\ w.pc = "initialize"
<1>1. level \in Levels
  BY DEF Levels
<1>2. <<DefaultId>> \in Seq(Loggers) /\ <<DefaultId>> # <<>>
  BY LogDispatchAssumption
<1>3. Note(m) \in Seq(Piece)
  BY DEF Note, Piece
<1>4. PICK ids \in Seq(Loggers), text \in Seq(Piece) :
        ids = <<DefaultId>> /\ ids # <<>> /\ text = Note(m)
  BY <1>2, <1>3
<1>5. w = Writer(m, level, ids, text)
  BY <1>4
<1>6. w \in Writers /\ w.pc = "initialize" /\ w.ids = ids /\ w.level = level
  <2>1. ids # <<>>
    BY <1>4
  <2> QED  BY <1>1, <1>5, <2>1, NewWriter
<1> QED  BY <1>4, <1>6 DEF Inner

\* Only the innermost Writer of a thread finds its logger missing.
LEMMA InitializeNullKeeps ==
  ASSUME LocksInv, NEW t \in Threads, InitializeNull(t)
  PROVE  LocksInv'
<1>1. PICK w \in Writers : w = Top(t) /\ w.pc = "initialize" /\ w \in WriterRecord
  BY AtWork DEF InitializeNull
<1>2. stack[t] # <<>> /\ Stacks /\ Stage(t) = "initialize" /\ Holds(t) = None
  BY <1>1, AtWork DEF InitializeNull, Locking
<1>3. UNCHANGED <<registered, begun, lock, leaked, stream, global, fileLock, m_data>>
  BY DEF InitializeNull, locks, output, history
<1>4. Len(stack[t]) # 2
  <2>1. SUFFICES ASSUME Len(stack[t]) = 2  PROVE FALSE
    OBVIOUS
  <2>2. w.ids = <<DefaultId>>
    BY <1>1, <1>2, <2>1, TopTypes DEF Stacks, Inner
  <2>3. w.i = 1
    <3>1. w.i \in Nat \ {0} /\ w.i <= Len(w.ids) /\ Len(<<DefaultId>>) = 1
      BY <1>1 DEF Writers, WriterRecord
    <3> QED  BY <2>2, <3>1
  <2>4. Found(w)
    BY <2>2, <2>3 DEF Found, LocksInv, Contents
  <2> QED  BY <1>1, <2>4 DEF InitializeNull
<1>5. PICK p \in {"stream", "process"} : p = AfterInitialize(w)
  BY DEF AfterInitialize
<1>6. PICK v : v = [w EXCEPT !.pc = p, !.logger = None, !.proceed = FALSE]
  OBVIOUS
<1>7. v \in Writers /\ Waits(v)
  BY <1>1, <1>5, <1>6 DEF Writers, WriterRecord, Stages, Locking, Dispatching, Waits
<1>8. PICK n : n = Writer(w.msg, "Debug", <<DefaultId>>, Note(w.msg))
  OBVIOUS
<1>9. n \in Writers /\ Inner(n) /\ n.pc = "initialize"
  BY <1>1, <1>8, NoteWriter DEF WriterRecord
<1>10. Nest(t, v, n)
  BY <1>1, <1>5, <1>6, <1>8 DEF InitializeNull
<1>11. Stacks' /\ Others(t) /\ Stage(t)' = "initialize" /\ Holds(t)' = None
  BY <1>2, <1>4, <1>7, <1>9, <1>10, Nesting DEF Locking
<1>12. OwnStream(t) /\ stream' \in [Loggers -> Seq(Piece)]
  BY <1>3 DEF OwnStream, LocksInv, Contents
<1> QED  BY <1>2, <1>3, <1>11, <1>12, LocksUntouched DEF Dispatching

LEMMA StreamKeeps ==
  ASSUME LocksInv, NEW t \in Threads, Stream(t)
  PROVE  LocksInv'
<1>1. PICK w \in Writers : w = Top(t) /\ w.pc = "stream" /\ w \in WriterRecord
  BY AtWork DEF Stream
<1>2. stack[t] # <<>> /\ Stacks /\ Stage(t) = "stream" /\ Holds(t) = w.logger
  BY <1>1, AtWork DEF Stream, Locking
<1>3. UNCHANGED <<registered, begun, lock, leaked, global, fileLock, m_data>>
  BY DEF Stream, locks, output, history
<1>4. ASSUME w.proceed, w.left # <<>>,
             stream' = [stream EXCEPT ![w.logger] = Append(@, Head(w.left))],
             Become(t, [w EXCEPT !.left = Tail(@)])
      PROVE  LocksInv'
  <2>1. w.left \in Seq(Piece)
    BY <1>1 DEF WriterRecord
  <2>2. PICK rest \in Seq(Piece), x \in Piece : rest = Tail(w.left) /\ x = Head(w.left)
    BY <1>4, <2>1, HeadTailProperties
  <2>3. PICK l \in Loggers : l = w.logger
    BY <1>1, <1>4 DEF Writers, WriterRecord
  <2>4. PICK v : v = [w EXCEPT !.left = rest]
    OBVIOUS
  <2>5. v \in Writers /\ v.ids = w.ids /\ v.level = w.level /\ v.pc = "stream" /\ v.logger = l
    BY <1>1, <2>2, <2>3, <2>4 DEF Writers, WriterRecord
  <2>6. Become(t, v)
    BY <1>4, <2>2, <2>4
  <2>7. Stacks' /\ Others(t) /\ Stage(t)' = "stream" /\ Holds(t)' = l
    BY <1>1, <1>2, <2>5, <2>6, Becoming DEF Locking
  <2>8. OwnStream(t) /\ stream' \in [Loggers -> Seq(Piece)]
    <3>1. stream[l] \in Seq(Piece)
      BY LockTypes
    <3>2. PICK text \in Seq(Piece) : text = Append(stream[l], x)
      BY <2>2, <3>1, AppendProperties
    <3> QED  BY <1>2, <1>4, <2>2, <2>3, <3>2, StreamOwned
  <2> QED  BY <1>2, <1>3, <2>3, <2>7, <2>8, LocksUntouched DEF Dispatching
<1>5. ASSUME Become(t, [w EXCEPT !.pc = "process"]), UNCHANGED stream
      PROVE  LocksInv'
  <2>1. PICK v : v = [w EXCEPT !.pc = "process"]
    OBVIOUS
  <2>2. /\ v \in Writers /\ v.ids = w.ids /\ v.level = w.level /\ v.pc = "process"
        /\ v.logger = w.logger
    BY <1>1, <2>1 DEF Writers, WriterRecord, Stages, Locking, Dispatching
  <2>3. Stacks' /\ Others(t) /\ Stage(t)' = "process" /\ Holds(t)' = w.logger
    <3>1. Become(t, v)
      BY <1>5, <2>1
    <3>2. /\ Stacks' /\ Others(t) /\ Stage(t)' = v.pc
          /\ Holds(t)' = IF v.pc \in Locking THEN v.logger ELSE None
      BY <1>1, <1>2, <2>2, <3>1, Becoming
    <3> QED  BY <2>2, <3>2 DEF Locking
  <2>4. OwnStream(t) /\ stream' \in [Loggers -> Seq(Piece)]
    BY <1>5 DEF OwnStream, LocksInv, Contents
  <2> QED  BY <1>2, <1>3, <2>3, <2>4, LocksUntouched DEF Dispatching
<1> QED  BY <1>1, <1>4, <1>5, Zenon DEF Stream

\* The logger of a Writer that is about to dispatch, or in the dispatch.
LEMMA LoggerFound ==
  ASSUME NEW w \in Writers, w.proceed \/ w.pc \in {"format", "dispatch"} \cup Dispatching
  PROVE  w.logger \in Loggers
BY DEF Writers, WriterRecord

LEMMA ProcessDispatchKeeps ==
  ASSUME LocksInv, NEW t \in Threads, ProcessDispatch(t)
  PROVE  LocksInv'
<1>1. PICK w \in Writers : w = Top(t) /\ w.pc = "process" /\ w \in WriterRecord
  BY AtWork DEF ProcessDispatch
<1>2. stack[t] # <<>> /\ Stacks /\ Stage(t) = "process" /\ Holds(t) = w.logger
  BY <1>1, AtWork DEF ProcessDispatch, Locking
<1>3. UNCHANGED <<registered, begun, leaked, global, fileLock, m_data>>
  BY DEF ProcessDispatch, output, history
<1>4. PICK text : text = IF w.first THEN stream[w.logger] \o w.copy ELSE stream[w.logger]
  OBVIOUS
<1>5. ASSUME w.proceed, stream' = [stream EXCEPT ![w.logger] = text],
             Become(t, [w EXCEPT !.pc = "dispatch", !.first = TRUE,
                                 !.copy = IF w.first THEN @ ELSE text]),
             UNCHANGED lock
      PROVE  LocksInv'
  <2>1. PICK l \in Loggers : l = w.logger
    BY <1>5, LoggerFound
  <2>2. stream[l] \in Seq(Piece) /\ w.copy \in Seq(Piece)
    BY <1>1, LockTypes DEF WriterRecord
  <2>3. text \in Seq(Piece)
    BY <1>4, <2>1, <2>2, ConcatProperties
  <2>4. PICK copy \in Seq(Piece) : copy = IF w.first THEN w.copy ELSE text
    BY <2>2, <2>3
  <2>5. PICK v : v = [w EXCEPT !.pc = "dispatch", !.first = TRUE, !.copy = copy]
    OBVIOUS
  <2>6. v \in Writers /\ v.ids = w.ids /\ v.level = w.level /\ v.pc = "dispatch" /\ v.logger = l
    BY <1>1, <2>1, <2>4, <2>5, LockTypes DEF Writers, WriterRecord, Stages, Locking
  <2>7. Become(t, v)
    BY <1>5, <2>4, <2>5
  <2>8. Stacks' /\ Others(t) /\ Stage(t)' = "dispatch" /\ Holds(t)' = l
    BY <1>1, <1>2, <2>6, <2>7, Becoming DEF Locking
  <2>9. OwnStream(t) /\ stream' \in [Loggers -> Seq(Piece)]
    BY <1>2, <1>5, <2>1, <2>3, StreamOwned
  <2> QED  BY <1>2, <1>3, <1>5, <2>1, <2>8, <2>9, LocksUntouched DEF Dispatching
<1>6. ASSUME Become(t, [w EXCEPT !.pc = "next"]),
             IF w.logger = None THEN UNCHANGED <<stream, lock>>
             ELSE stream' = [stream EXCEPT ![w.logger] = <<>>] /\ Release(w.logger),
             ~ w.proceed
      PROVE  LocksInv'
  <2>1. PICK v : v = [w EXCEPT !.pc = "next"]
    OBVIOUS
  <2>2. v \in Writers /\ v.ids = w.ids /\ v.level = w.level /\ v.pc = "next"
    BY <1>1, <1>6, <2>1 DEF Writers, WriterRecord, Stages, Dispatching
  <2>3. Become(t, v)
    BY <1>6, <2>1
  <2>4. Stacks' /\ Others(t) /\ Stage(t)' = "next" /\ Holds(t)' = None
    <3>1. /\ Stacks' /\ Others(t) /\ Stage(t)' = v.pc
          /\ Holds(t)' = IF v.pc \in Locking THEN v.logger ELSE None
      BY <1>1, <1>2, <2>2, <2>3, Becoming
    <3> QED  BY <2>2, <3>1 DEF Locking
  <2>5. CASE w.logger = None
    <3>1. OwnStream(t) /\ stream' \in [Loggers -> Seq(Piece)] /\ UNCHANGED lock
      BY <1>6, <2>5 DEF OwnStream, LocksInv, Contents
    <3> QED  BY <1>2, <1>3, <2>4, <2>5, <3>1, LocksUntouched DEF Dispatching
  <2>6. CASE w.logger # None
    <3>1. PICK l \in Loggers : l = w.logger
      BY <1>1, <2>6 DEF WriterRecord
    <3>2. stream' = [stream EXCEPT ![l] = <<>>] /\ Release(l)
      BY <1>6, <2>6, <3>1
    <3>3. LoggerLocks' /\ lock' \in [Loggers -> Mutex] /\ stream' \in [Loggers -> Seq(Piece)]
      BY <1>2, <1>3, <2>4, <3>1, <3>2, LockReleased
    <3>4. OwnStream(t)
      BY <1>2, <3>1, <3>2, LockTypes DEF OwnStream
    <3>5. DispatchLocks'
      BY <1>2, <1>3, <2>4, <3>4, DispatchKept DEF Dispatching
    <3>6. Contents'
      BY <1>3, <3>3 DEF LocksInv, Contents
    <3> QED  BY <2>4, <3>3, <3>5, <3>6 DEF LocksInv
  <2> QED  BY <2>5, <2>6
<1> QED  BY <1>1, <1>4, <1>5, <1>6, Zenon DEF ProcessDispatch

LEMMA DispatchKeeps ==
  ASSUME LocksInv, NEW t \in Threads, Dispatch(t)
  PROVE  LocksInv'
<1>1. PICK w \in Writers : w = Top(t) /\ w.pc = "dispatch" /\ w \in WriterRecord
  BY AtWork DEF Dispatch
<1>2. stack[t] # <<>> /\ Stacks /\ Stage(t) = "dispatch" /\ Holds(t) = w.logger
  BY <1>1, AtWork DEF Dispatch, Locking
<1>3. /\ global = None /\ global' = t
      /\ UNCHANGED <<registered, begun, lock, stream, leaked, fileLock, m_data>>
  BY DEF Dispatch, history
<1>4. PICK v : v = [w EXCEPT !.pc = "handle"]
  OBVIOUS
<1>5. /\ v \in Writers /\ v.ids = w.ids /\ v.level = w.level /\ v.pc = "handle"
      /\ v.logger = w.logger
  BY <1>1, <1>4 DEF Writers, WriterRecord, Stages, Locking
<1>6. Become(t, v)
  BY <1>1, <1>4 DEF Dispatch
<1>7. Stacks' /\ Others(t) /\ Stage(t)' = "handle" /\ Holds(t)' = Holds(t)
  <2>1. /\ Stacks' /\ Others(t) /\ Stage(t)' = v.pc
        /\ Holds(t)' = IF v.pc \in Locking THEN v.logger ELSE None
    BY <1>1, <1>2, <1>5, <1>6, Becoming
  <2> QED  BY <1>2, <1>5, <2>1 DEF Locking
<1>8. LoggerLocks'
  BY <1>3, <1>7, LoggerLocksKept DEF OwnStream
<1>9. DispatchLock(t)'
  <2>1. DispatchLock(t)
    BY DEF LocksInv, DispatchLocks
  <2>2. \A f \in Files : fileLock'[f] # t
    BY <1>2, <1>3, <2>1 DEF DispatchLock, Writing
  <2> QED  BY <1>3, <1>7, <2>2 DEF DispatchLock, Dispatching, Writing
<1>10. DispatchLocks'
  BY <1>3, <1>7, <1>9, DispatchAlone
<1>11. Contents'
  BY <1>3 DEF LocksInv, Contents
<1> QED  BY <1>7, <1>8, <1>10, <1>11 DEF LocksInv

LEMMA HandleKeeps ==
  ASSUME LocksInv, NEW t \in Threads, Handle(t)
  PROVE  LocksInv'
<1>1. PICK w \in Writers : w = Top(t) /\ w.pc = "handle" /\ w \in WriterRecord
  BY AtWork DEF Handle
<1>2. stack[t] # <<>> /\ Stacks /\ Stage(t) = "handle" /\ Holds(t) = w.logger
  BY <1>1, AtWork DEF Handle, Locking
<1>3. PICK l \in Loggers : l = w.logger
  BY <1>1, LoggerFound DEF Dispatching
<1>4. /\ fileLock' = [fileLock EXCEPT ![FileOf[l]] = t] /\ m_data' = LogMessage(w)
      /\ UNCHANGED <<registered, begun, lock, stream, leaked, global>>
  BY <1>1, <1>3 DEF Handle, history
<1>5. PICK v : v = [w EXCEPT !.pc = "write"]
  OBVIOUS
<1>6. /\ v \in Writers /\ v.ids = w.ids /\ v.level = w.level /\ v.pc = "write"
      /\ v.logger = l /\ v.msg = w.msg
  BY <1>1, <1>3, <1>5, LockTypes DEF Writers, WriterRecord, Stages, Locking
<1>7. Become(t, v)
  BY <1>1, <1>5 DEF Handle
<1>8. Stacks' /\ Others(t) /\ Top(t)' = v /\ Stage(t)' = "write" /\ Holds(t)' = Holds(t)
  <2>1. /\ Stacks' /\ Others(t) /\ Top(t)' = v /\ Stage(t)' = v.pc
        /\ Holds(t)' = IF v.pc \in Locking THEN v.logger ELSE None
    BY <1>1, <1>2, <1>6, <1>7, Becoming
  <2> QED  BY <1>2, <1>3, <1>6, <2>1 DEF Locking
<1>9. LoggerLocks'
  BY <1>4, <1>8, LoggerLocksKept DEF OwnStream
<1>10. FileOf[l] \in Files /\ fileLock \in [Files -> Threads \cup {None}]
  BY DEF Files, LocksInv, Contents
<1>11. DispatchLock(t)'
  <2>1. DispatchLock(t)
    BY DEF LocksInv, DispatchLocks
  <2>2. global' = t
    BY <1>2, <1>4, <2>1 DEF DispatchLock, Dispatching
  <2>3. \A f \in Files : fileLock'[f] = t => FileOf[Top(t)'.logger] = f
    BY <1>2, <1>4, <1>6, <1>8, <1>10, <2>1 DEF DispatchLock, Writing
  <2>4. m_data' = LogMessage(Top(t))'
    BY <1>3, <1>4, <1>6, <1>8 DEF LogMessage
  <2> QED  BY <1>8, <2>2, <2>3, <2>4 DEF DispatchLock, Dispatching, Writing
<1>12. DispatchLocks'
  <2>1. global = t
    BY <1>2 DEF LocksInv, DispatchLocks, DispatchLock, Dispatching
  <2> QED  BY <1>4, <1>8, <1>10, <1>11, <2>1, DispatchAlone
<1>13. Contents'
  <2>1. m_data' \in LogDispatchData
    <3>1. w.level \in Levels /\ w.msg \in Nat /\ stream[l] \in Seq(Nat \X Nat)
      BY <1>1, LockTypes DEF WriterRecord, Piece
    <3>2. m_data' = [logger |-> l, level |-> w.level, msg |-> w.msg, text |-> stream[l]]
      BY <1>3, <1>4 DEF LogMessage
    <3> QED  BY <3>1, <3>2 DEF LogDispatchData
  <2> QED  BY <1>4, <1>10, <2>1 DEF LocksInv, Contents
<1> QED  BY <1>8, <1>9, <1>12, <1>13 DEF LocksInv

\* From one stage of writing to the next: Write and Flush.
LEMMA WritingOn ==
  ASSUME LocksInv, NEW t \in Threads, NEW p \in Writing, NEW q \in Writing, At(t, p),
         Become(t, [Top(t) EXCEPT !.pc = q]),
         UNCHANGED <<registered, begun, lock, stream, leaked, global, fileLock, m_data>>
  PROVE  LocksInv'
<1>1. PICK w \in Writers : w = Top(t) /\ w.pc = p /\ w \in WriterRecord
  BY AtWork
<1>2. p \in Locking /\ q \in Locking /\ p \in Dispatching /\ q \in Dispatching /\ q \in Stages
  BY DEF Writing, Locking, Dispatching, Stages
<1>3. stack[t] # <<>> /\ Stacks /\ Stage(t) = p /\ Holds(t) = w.logger
  BY <1>1, <1>2, AtWork
<1>4. PICK l \in Loggers : l = w.logger
  BY <1>1, <1>2, LoggerFound
<1>5. PICK v : v = [w EXCEPT !.pc = q]
  OBVIOUS
<1>6. /\ v \in Writers /\ v.ids = w.ids /\ v.level = w.level /\ v.pc = q
      /\ v.logger = l /\ v.msg = w.msg
  BY <1>1, <1>2, <1>4, <1>5, LockTypes DEF Writers, WriterRecord
<1>7. Become(t, v)
  BY <1>1, <1>5
<1>8. Stacks' /\ Others(t) /\ Top(t)' = v /\ Stage(t)' = q /\ Holds(t)' = Holds(t)
  <2>1. q # "format"
    BY DEF Writing
  <2>2. /\ Stacks' /\ Others(t) /\ Top(t)' = v /\ Stage(t)' = v.pc
        /\ Holds(t)' = IF v.pc \in Locking THEN v.logger ELSE None
    BY <1>1, <1>3, <1>6, <1>7, <2>1, Becoming
  <2> QED  BY <1>2, <1>3, <1>4, <1>6, <2>2
<1>9. LoggerLocks'
  BY <1>8, LoggerLocksKept DEF OwnStream
<1>10. DispatchLock(t)'
  <2>1. DispatchLock(t)
    BY DEF LocksInv, DispatchLocks
  <2>2. m_data' = LogMessage(Top(t))'
    BY <1>1, <1>3, <1>4, <1>6, <1>8, <2>1 DEF DispatchLock, LogMessage
  <2> QED  BY <1>1, <1>2, <1>3, <1>4, <1>6, <1>8, <2>1, <2>2 DEF DispatchLock
<1>11. DispatchLocks'
  <2>1. global = t
    BY <1>2, <1>3 DEF LocksInv, DispatchLocks, DispatchLock
  <2> QED  BY <1>8, <1>10, <2>1, DispatchAlone
<1>12. Contents'
  BY DEF LocksInv, Contents
<1> QED  BY <1>8, <1>9, <1>11, <1>12 DEF LocksInv

LEMMA WriteKeeps ==
  ASSUME LocksInv, NEW t \in Threads, Write(t)
  PROVE  LocksInv'
<1>1. PICK q : q = IF "ImmediateFlush" \in Flags
                        \/ unflushed[m_data.logger][m_data.level] + 1 >= Threshold[m_data.logger]
                     THEN "flush" ELSE "done"
  OBVIOUS
<1>2. q \in Writing /\ "write" \in Writing
  BY <1>1 DEF Writing
<1>3. /\ At(t, "write") /\ Become(t, [Top(t) EXCEPT !.pc = q])
      /\ UNCHANGED <<registered, begun, lock, stream, leaked, global, fileLock, m_data>>
  BY <1>1 DEF Write, locks, history
<1> QED  BY <1>2, <1>3, WritingOn

LEMMA FlushKeeps ==
  ASSUME LocksInv, NEW t \in Threads, Flush(t)
  PROVE  LocksInv'
<1>1. "flush" \in Writing /\ "done" \in Writing
  BY DEF Writing
<1>2. /\ At(t, "flush") /\ Become(t, [Top(t) EXCEPT !.pc = "done"])
      /\ UNCHANGED <<registered, begun, lock, stream, leaked, global, fileLock, m_data>>
  BY DEF Flush, locks, history
<1> QED  BY <1>1, <1>2, WritingOn

\* A fatal message that ends its dispatch starts the Writer of its note.
LEMMA FinishKeeps ==
  ASSUME LocksInv, NEW t \in Threads, Finish(t)
  PROVE  LocksInv'
<1>1. PICK w \in Writers : w = Top(t) /\ w.pc = "done" /\ w \in WriterRecord
  BY AtWork DEF Finish
<1>2. stack[t] # <<>> /\ Stacks /\ Stage(t) = "done" /\ Holds(t) = w.logger
  BY <1>1, AtWork DEF Finish, Locking
<1>3. PICK l \in Loggers : l = w.logger
  BY <1>1, LoggerFound DEF Dispatching
<1>4. /\ global' = None /\ fileLock' = [fileLock EXCEPT ![FileOf[l]] = None]
      /\ stream' = [stream EXCEPT ![l] = <<>>] /\ Release(l)
      /\ UNCHANGED <<registered, begun, leaked, m_data>>
  BY <1>1, <1>3 DEF Finish, output, history
<1>5. /\ Stacks' /\ Others(t) /\ Holds(t)' = None /\ Stage(t)' \notin Dispatching
  <2>1. ASSUME Become(t, [w EXCEPT !.proceed = FALSE, !.pc = "next"])
        PROVE  Stacks' /\ Others(t) /\ Holds(t)' = None /\ Stage(t)' \notin Dispatching
    <3>1. PICK v : v = [w EXCEPT !.proceed = FALSE, !.pc = "next"]
      OBVIOUS
    <3>2. v \in Writers /\ v.ids = w.ids /\ v.level = w.level /\ v.pc = "next"
      BY <1>1, <3>1 DEF Writers, WriterRecord, Stages, Dispatching
    <3>3. Become(t, v)
      BY <2>1, <3>1
    <3>4. /\ Stacks' /\ Others(t) /\ Stage(t)' = v.pc
          /\ Holds(t)' = IF v.pc \in Locking THEN v.logger ELSE None
      BY <1>1, <1>2, <3>2, <3>3, Becoming
    <3> QED  BY <3>2, <3>4 DEF Locking, Dispatching
  <2>2. ASSUME w.level = "Fatal",
               Nest(t, [w EXCEPT !.proceed = FALSE, !.pc = "abort"],
                    Writer(w.msg, "Warning", <<DefaultId>>, Note(w.msg)))
        PROVE  Stacks' /\ Others(t) /\ Holds(t)' = None /\ Stage(t)' \notin Dispatching
    <3>1. PICK v : v = [w EXCEPT !.proceed = FALSE, !.pc = "abort"]
      OBVIOUS
    <3>2. v \in Writers /\ Waits(v)
      BY <1>1, <3>1 DEF Writers, WriterRecord, Stages, Dispatching, Waits
    <3>3. PICK n : n = Writer(w.msg, "Warning", <<DefaultId>>, Note(w.msg))
      OBVIOUS
    <3>4. n \in Writers /\ Inner(n) /\ n.pc = "initialize"
      BY <1>1, <3>3, NoteWriter DEF WriterRecord
    <3>5. Nest(t, v, n)
      BY <2>2, <3>1, <3>3
    <3>6. Len(stack[t]) # 2
      BY <1>1, <1>2, <2>2, TopTypes DEF Stacks, Inner
    <3> QED  BY <1>2, <3>2, <3>4, <3>5, <3>6, Nesting DEF Locking, Dispatching
  <2>3. CASE w.level = "Fatal" /\ "DisableApplicationAbortOnFatalLog" \notin Flags
    BY <1>1, <2>2, <2>3 DEF Finish
  <2>4. CASE ~ (w.level = "Fatal" /\ "DisableApplicationAbortOnFatalLog" \notin Flags)
    BY <1>1, <2>1, <2>4 DEF Finish
  <2> QED  BY <2>3, <2>4
<1>6. LoggerLocks' /\ lock' \in [Loggers -> Mutex] /\ stream' \in [Loggers -> Seq(Piece)]
  BY <1>2, <1>3, <1>4, <1>5, LockReleased
<1>7. FileOf[l] \in Files /\ fileLock \in [Files -> Threads \cup {None}] /\ None \notin Threads
  BY LogDispatchAssumption DEF Files, LocksInv, Contents
<1>8. DispatchLock(t)'
  <2>1. DispatchLock(t)
    BY DEF LocksInv, DispatchLocks
  <2>2. \A f \in Files : fileLock'[f] # t
    BY <1>1, <1>3, <1>4, <1>7, <2>1 DEF DispatchLock
  <2> QED  BY <1>4, <1>5, <1>7, <2>2 DEF DispatchLock, Dispatching, Writing
<1>9. DispatchLocks'
  <2>1. global = t
    BY <1>2 DEF LocksInv, DispatchLocks, DispatchLock, Dispatching
  <2> QED  BY <1>4, <1>5, <1>7, <1>8, <2>1, DispatchAlone
<1>10. Contents'
  BY <1>4, <1>6, <1>7 DEF LocksInv, Contents
<1> QED  BY <1>5, <1>6, <1>9, <1>10 DEF LocksInv

LEMMA NextLoggerKeeps ==
  ASSUME LocksInv, NEW t \in Threads, NextLogger(t)
  PROVE  LocksInv'
<1>1. PICK w \in Writers : w = Top(t) /\ w.pc = "next" /\ w \in WriterRecord
  BY AtWork DEF NextLogger
<1>2. stack[t] # <<>> /\ Stacks /\ Stage(t) = "next" /\ Holds(t) = None
  BY <1>1, AtWork DEF NextLogger, Locking
<1>3. UNCHANGED <<registered, begun, lock, stream, leaked, global, fileLock, m_data>>
  BY DEF NextLogger, locks, output, history
<1>4. Stacks' /\ Others(t) /\ Holds(t)' = None /\ Stage(t)' \notin Dispatching
  <2>1. CASE w.i < Len(w.ids)
    <3>1. PICK j \in Nat \ {0} : j = w.i + 1 /\ j <= Len(w.ids)
      <4>1. w.i \in Nat \ {0} /\ Len(w.ids) \in Nat
        BY <1>1 DEF WriterRecord
      <4>2. \A i \in Nat \ {0}, n \in Nat : i < n => i + 1 \in Nat \ {0} /\ i + 1 <= n
        OBVIOUS
      <4> QED  BY <2>1, <4>1, <4>2
    <3>2. PICK v : v = [w EXCEPT !.i = j, !.pc = "initialize"]
      OBVIOUS
    <3>3. v \in Writers /\ v.ids = w.ids /\ v.level = w.level /\ v.pc = "initialize"
      BY <1>1, <3>1, <3>2 DEF Writers, WriterRecord, Stages, Dispatching
    <3>4. Become(t, v)
      BY <1>1, <2>1, <3>1, <3>2 DEF NextLogger
    <3>5. /\ Stacks' /\ Others(t) /\ Stage(t)' = v.pc
          /\ Holds(t)' = IF v.pc \in Locking THEN v.logger ELSE None
      BY <1>1, <1>2, <3>3, <3>4, Becoming
    <3> QED  BY <3>3, <3>5 DEF Locking, Dispatching
  <2>2. CASE ~ (w.i < Len(w.ids))
    <3>1. Pop(t)
      BY <1>1, <2>2 DEF NextLogger
    <3> QED  BY <1>2, <3>1, Popping
  <2> QED  BY <2>1, <2>2
<1>5. OwnStream(t) /\ stream' \in [Loggers -> Seq(Piece)]
  BY <1>3 DEF OwnStream, LocksInv, Contents
<1> QED  BY <1>2, <1>3, <1>4, <1>5, LocksUntouched DEF Dispatching

LEMMA LocksStutter ==
  ASSUME LocksInv,
         UNCHANGED <<stack, registered, lock, stream, leaked, global, fileLock, m_data>>,
         begun' \in Seq(Begun)
  PROVE  LocksInv'
<1>1. \A t \in Threads : Top(t)' = Top(t) /\ Stage(t)' = Stage(t) /\ Holds(t)' = Holds(t)
  BY DEF Top, Stage, Holds
<1>2. Stacks'
  BY DEF LocksInv, Stacks
<1>3. Contents'
  BY DEF LocksInv, Contents
<1>4. LoggerLocks'
  BY <1>1 DEF LocksInv, LoggerLocks, LoggerLock
<1>5. DispatchLocks'
  BY <1>1 DEF LocksInv, DispatchLocks, DispatchLock, LogMessage
<1> QED  BY <1>2, <1>3, <1>4, <1>5 DEF LocksInv

\* A message begins: its number, its text, and the ids it is for.
LEMMA ReachTypes ==
  ASSUME LocksInv, NEW t \in Threads, NEW s \in Statements, Reach(t, s)
  PROVE  /\ begun' \in Seq(Begun) /\ Len(begun') \in Nat
         /\ s.level \in Levels /\ s.ids \in Seq(Loggers) /\ s.ids # <<>> /\ s.ids[1] \in Loggers
         /\ \A m \in Nat : Text(m) \in Seq(Piece)
         /\ Stage(t) = "idle" /\ Holds(t) = None /\ Stacks /\ Contents
         /\ UNCHANGED <<registered, stream, global, fileLock, m_data, leaked>>
<1>1. PICK b \in Begun : begun' = Append(begun, b)
  <2>1. PICK g : g = IF Gate(s).pass THEN "pass" ELSE "stop"
    OBVIOUS
  <2>2. g \in {"pass", "stop"} /\ begun' = Append(begun, [s EXCEPT !.gate = g])
    BY <2>1 DEF Reach
  <2> QED  BY <2>2 DEF Begun
<1>2. begun' \in Seq(Begun) /\ Len(begun') \in Nat
  <2>1. begun \in Seq(Begun)
    BY DEF LocksInv, Contents
  <2>2. PICK q \in Seq(Begun) : q = Append(begun, b)
    BY <2>1, AppendProperties
  <2>3. Len(q) \in Nat
    OBVIOUS
  <2> QED  BY <1>1, <2>2, <2>3
<1>3. s.level \in Levels /\ s.ids \in Seq(Loggers) /\ s.ids # <<>>
  BY LogDispatchAssumption
<1>4. s.ids[1] \in Loggers
  <2>1. Len(s.ids) \in Nat \ {0}
    BY <1>3, EmptySeq
  <2> QED  BY <1>3, <2>1
<1>5. ASSUME NEW m \in Nat  PROVE Text(m) \in Seq(Piece)
  <2>1. Parts \in Nat
    BY LogDispatchAssumption
  <2>2. \A k \in 1 .. Parts : <<m, k>> \in Piece
    BY <2>1 DEF Piece
  <2> QED  BY <2>1, <2>2 DEF Text
<1>6. Stage(t) = "idle" /\ Holds(t) = None /\ Stacks /\ Contents
  BY DEF Reach, Stage, Holds, Locking, LocksInv
<1>7. UNCHANGED <<registered, stream, global, fileLock, m_data, leaked>>
  BY DEF Reach, output
<1> QED  BY <1>2, <1>3, <1>4, <1>5, <1>6, <1>7

LEMMA BeginMacroKeeps ==
  ASSUME LocksInv, NEW t \in Threads, NEW s \in Statements, BeginMacro(t, s)
  PROVE  LocksInv'
<1>1. Reach(t, s) /\ UNCHANGED lock
  BY DEF BeginMacro
<1>2. PICK m \in Nat : m = Len(begun')
  BY <1>1, ReachTypes
<1>3. PICK ids \in Seq(Loggers) : ids = construct(s) /\ ids # <<>>
  <2>1. s.ids \in Seq(Loggers) /\ s.ids # <<>>
    BY <1>1, ReachTypes
  <2>2. <<s.ids[1]>> \in Seq(Loggers) /\ <<s.ids[1]>> # <<>>
    BY <1>1, ReachTypes
  <2> QED  BY <2>1, <2>2 DEF construct
<1>4. PICK w : w = Writer(m, s.level, ids, Text(m))
  OBVIOUS
<1>5. w \in Writers /\ w.pc = "initialize"
  <2>1. s.level \in Levels /\ Text(m) \in Seq(Piece)
    BY <1>1, ReachTypes
  <2> QED  BY <1>3, <1>4, <2>1, NewWriter
<1>6. stack' = [stack EXCEPT ![t] = <<w>>]
  BY <1>2, <1>3, <1>4 DEF BeginMacro
<1>7. Stacks' /\ Others(t) /\ Stage(t)' = "initialize" /\ Holds(t)' = None
  <2>1. /\ Stacks' /\ Others(t) /\ Stage(t)' = w.pc
        /\ Holds(t)' = IF w.pc \in Locking THEN w.logger ELSE None
    BY <1>5, <1>6, Beginning DEF LocksInv
  <2> QED  BY <1>5, <2>1 DEF Locking
<1>8. /\ Stage(t) = "idle" /\ Holds(t) = None /\ begun' \in Seq(Begun)
      /\ UNCHANGED <<registered, lock, stream, global, fileLock, m_data, leaked>>
  BY <1>1, ReachTypes
<1>9. LoggerLocks'
  BY <1>7, <1>8, LoggerLocksKept DEF OwnStream
<1>10. DispatchLocks'
  BY <1>7, <1>8, DispatchKept DEF OwnStream, Dispatching
<1>11. Contents'
  BY <1>8 DEF LocksInv, Contents
<1> QED  BY <1>7, <1>9, <1>10, <1>11 DEF LocksInv

LEMMA BeginCallKeeps ==
  ASSUME LocksInv, NEW t \in Threads, NEW s \in Statements, BeginCall(t, s)
  PROVE  LocksInv'
<1>1. Reach(t, s)
  BY DEF BeginCall
<1>2. PICK m \in Nat : m = Len(begun')
  BY <1>1, ReachTypes
<1>3. PICK l \in Loggers : l = s.ids[1]
  BY <1>1, ReachTypes
<1>4. CanLock(t, l) /\ Acquire(t, l)
  BY <1>3 DEF BeginCall
<1>5. PICK ids \in Seq(Loggers) : ids = <<l>> /\ ids # <<>>
  <2>1. <<l>> \in Seq(Loggers) /\ <<l>> # <<>>
    OBVIOUS
  <2> QED  BY <2>1, Zenon
<1>6. PICK n : n = Writer(m, s.level, ids, Text(m))
  OBVIOUS
<1>7. n \in Writers /\ n \in WriterRecord
  <2>1. s.level \in Levels /\ Text(m) \in Seq(Piece)
    BY <1>1, ReachTypes
  <2>2. n \in Writers
    BY <1>5, <1>6, <2>1, NewWriter
  <2> QED  BY <2>2 DEF Writers
<1>8. PICK b \in BOOLEAN : b = (s.kind = "surplus")
  <2>1. CASE s.kind = "surplus"
    BY <2>1
  <2>2. CASE s.kind # "surplus"
    <3>1. FALSE \in BOOLEAN
      OBVIOUS
    <3>2. FALSE <=> s.kind = "surplus"
      BY <2>2
    <3>3. FALSE = (s.kind = "surplus")
      BY <3>2
    <3> QED  BY <3>1, <3>3, Zenon
  <2> QED  BY <2>1, <2>2
<1>9. PICK w : w = [n EXCEPT !.pc = "format", !.logger = l, !.surplus = b]
  OBVIOUS
<1>10. w \in Writers /\ w.pc = "format" /\ w.logger = l
  BY <1>7, <1>8, <1>9, LockTypes DEF Writers, WriterRecord, Stages, Locking
<1>11. stack' = [stack EXCEPT ![t] = <<w>>]
  BY <1>2, <1>3, <1>5, <1>6, <1>8, <1>9, Zenon DEF BeginCall
<1>12. Stacks' /\ Others(t) /\ Stage(t)' = "format" /\ Holds(t)' = l
  <2>1. /\ Stacks' /\ Others(t) /\ Stage(t)' = w.pc
        /\ Holds(t)' = IF w.pc \in Locking THEN w.logger ELSE None
    BY <1>10, <1>11, Beginning DEF LocksInv
  <2> QED  BY <1>10, <2>1 DEF Locking
<1>13. /\ Stage(t) = "idle" /\ Holds(t) = None /\ begun' \in Seq(Begun)
       /\ UNCHANGED <<registered, stream, global, fileLock, m_data, leaked>>
  BY <1>1, ReachTypes
<1>14. LoggerLocks' /\ lock' \in [Loggers -> Mutex]
  BY <1>4, <1>12, <1>13, LockTaken
<1>15. DispatchLocks'
  BY <1>12, <1>13, DispatchKept DEF OwnStream, Dispatching
<1>16. Contents'
  BY <1>13, <1>14 DEF LocksInv, Contents
<1> QED  BY <1>12, <1>14, <1>15, <1>16 DEF LocksInv

LEMMA LocksInit == Init => LocksInv
<1> SUFFICES ASSUME Init  PROVE LocksInv
  OBVIOUS
<1>1. None \notin Threads \cup Loggers /\ DefaultId \in Registered
      /\ Registered \subseteq Loggers \ Invalid
  BY LogDispatchAssumption
<1>2. \A t \in Threads : stack[t] = <<>> /\ Stage(t) = "idle" /\ Holds(t) = None
  BY DEF Init, Stage, Holds, Locking
<1>3. Stacks
  <2>1. <<>> \in Seq(Writers) /\ Len(<<>>) = 0
    OBVIOUS
  <2>2. ASSUME NEW t \in Threads  PROVE Len(stack[t]) <= 2 /\ Len(stack[t]) # 2
    <3>1. Len(stack[t]) = 0
      BY <1>2, <2>1
    <3>2. \A n : n = 0 => n <= 2 /\ n # 2
      OBVIOUS
    <3> QED  BY <3>1, <3>2
  <2> QED  BY <2>1, <2>2 DEF Stacks, Init
<1>4. Contents
  <2>1. \A l \in Loggers : lock[l] \in Mutex
    BY DEF Init, Mutex
  <2>2. lock \in [Loggers -> Mutex]
    BY <2>1 DEF Init
  <2>3. <<>> \in Seq(Piece) /\ <<>> \in Seq(Begun)
    OBVIOUS
  <2> QED  BY <1>1, <2>2, <2>3 DEF Contents, Init, LogDispatchData
<1>5. LoggerLocks
  <2>1. \A l \in Loggers : lock[l].holder = None /\ lock[l].count = 0 /\ stream[l] = <<>>
    BY DEF Init
  <2>2. leaked = {}
    BY DEF Init
  <2> QED  BY <1>1, <1>2, <2>1, <2>2 DEF LoggerLocks, LoggerLock
<1>6. DispatchLocks
  BY <1>1, <1>2 DEF Init, DispatchLocks, DispatchLock, Dispatching, Writing
<1> QED  BY <1>3, <1>4, <1>5, <1>6 DEF LocksInv

LEMMA LocksNext == LocksInv /\ [Next]_vars => LocksInv'
<1> SUFFICES ASSUME LocksInv, [Next]_vars  PROVE LocksInv'
  OBVIOUS
<1>1. begun \in Seq(Begun)
  BY DEF LocksInv, Contents
<1>2. CASE UNCHANGED vars
  BY <1>1, <1>2, LocksStutter DEF vars
<1>3. ASSUME NEW t \in Threads, Step(t)  PROVE LocksInv'
  <2>1. CASE Abort(t)
    BY <1>1, <2>1, LocksStutter DEF Abort, locks, output, history
  <2> QED  BY <1>3, <2>1, FormatKeeps, InitializeLoggerKeeps, InitializeNullKeeps, StreamKeeps,
              ProcessDispatchKeeps, DispatchKeeps, HandleKeeps, WriteKeeps, FlushKeeps,
              FinishKeeps, NextLoggerKeeps DEF Step
<1>4. ASSUME NEW t \in Threads, NEW s \in Statements, Skip(t, s)  PROVE LocksInv'
  <2>1. begun' \in Seq(Begun)
    BY <1>4, ReachTypes DEF Skip
  <2> QED  BY <1>4, <2>1, LocksStutter DEF Skip, Reach, output
<1> QED  BY <1>2, <1>3, <1>4, BeginMacroKeeps, BeginCallKeeps DEF Next, Begin

\* The types hold: at most two Writers in a thread, and the count of each
\* recursive mutex is zero just when nobody holds it.
THEOREM DispatchTypesCorrect == Spec => []TypeOK
<1>1. LocksInv /\ CountersInv => TypeOK
  <2> SUFFICES ASSUME LocksInv, CountersInv  PROVE TypeOK
    OBVIOUS
  <2>1. hits \in HitCounters
    BY DEF CountersInv, CounterTypes, HitCounters
  <2>2. \A l \in Loggers : lock[l].holder = None <=> lock[l].count = 0
    BY DEF LocksInv, LoggerLocks, LoggerLock
  <2>3. \A t \in Threads : Len(stack[t]) <= 2
    BY DEF LocksInv, Stacks
  <2> QED  BY <2>1, <2>2, <2>3 DEF TypeOK, LocksInv, Contents
<1> QED  BY <1>1, LocksInit, LocksNext, CountersInit, CountersNext, PTL DEF Spec

\* A thread that has come to the end of a statement holds neither the global lock,
\* nor the lock of a file, nor that of a logger, but for those that a call with too
\* many values left locked; and no text is left in a stream that is not locked.
THEOREM LocksGivenBack == Spec => []LocksReturned
<1>1. LocksInv => LocksReturned
  <2> SUFFICES ASSUME LocksInv  PROVE LocksReturned
    OBVIOUS
  <2>1. \A l \in Loggers : stream[l] # <<>> => lock[l].count > 0
    BY DEF LocksInv, LoggerLocks, LoggerLock
  <2>2. ASSUME NEW t \in Threads, stack[t] = <<>>
        PROVE  /\ global # t /\ \A f \in Files : fileLock[f] # t
               /\ \A l \in Loggers \ leaked : lock[l].holder # t
    <3>1. Stage(t) = "idle" /\ Holds(t) = None
      BY <2>2 DEF Stage, Holds, Locking
    <3>2. global # t /\ \A f \in Files : fileLock[f] # t
      BY <3>1 DEF LocksInv, DispatchLocks, DispatchLock, Dispatching, Writing
    <3>3. \A l \in Loggers \ leaked : lock[l].holder # t
      BY <3>1, LockTypes DEF LoggerLock
    <3> QED  BY <3>2, <3>3
  <2> QED  BY <2>1, <2>2 DEF LocksReturned
<1> QED  BY <1>1, LocksInit, LocksNext, PTL DEF Spec

\* The one callback object and the text it takes from a logger's stream belong to
\* one thread at a time: whoever writes or flushes a line has put its own message
\* there, and no other thread writes, or waits inside the dispatch.
WritesItsOwn ==
  \A t \in Threads : stack[t] # <<>> /\ Top(t).pc \in Writing =>
    /\ m_data = LogMessage(Top(t)) /\ m_data.logger \in Loggers
    /\ lock[m_data.logger].holder = t
    /\ \A u \in Threads \ {t} : stack[u] # <<>> => Top(u).pc \notin Dispatching

\* Handle, Write and Flush of one thread are never mixed with those of another:
\* the lock of the logger covers its stream, the global lock m_data.
THEOREM LinesNotMixed == Spec => []WritesItsOwn
<1>1. LocksInv => WritesItsOwn
  <2> SUFFICES ASSUME LocksInv, NEW t \in Threads, stack[t] # <<>>, Top(t).pc \in Writing
               PROVE  /\ m_data = LogMessage(Top(t)) /\ m_data.logger \in Loggers
                      /\ lock[m_data.logger].holder = t
                      /\ \A u \in Threads \ {t} : stack[u] # <<>> => Top(u).pc \notin Dispatching
    BY DEF WritesItsOwn
  <2>1. Stage(t) = Top(t).pc
    BY DEF Stage
  <2>2. m_data = LogMessage(Top(t)) /\ global = t
    BY <2>1 DEF LocksInv, DispatchLocks, DispatchLock, Writing, Dispatching
  <2>3. PICK l \in Loggers : l = Top(t).logger /\ Holds(t) = l
    <3>1. Top(t) \in Writers /\ Holds(t) = Top(t).logger
      BY TopTypes DEF LocksInv, Writing, Locking
    <3> QED  BY <3>1, LoggerFound DEF Writing, Dispatching
  <2>4. m_data.logger = l
    BY <2>2, <2>3 DEF LogMessage
  <2>5. lock[l].holder = t
    BY <2>3, LockTypes DEF LoggerLock
  <2>6. \A u \in Threads \ {t} : stack[u] # <<>> => Top(u).pc \notin Dispatching
    BY <2>2 DEF LocksInv, DispatchLocks, DispatchLock, Stage
  <2> QED  BY <2>2, <2>4, <2>5, <2>6
<1> QED  BY <1>1, LocksInit, LocksNext, PTL DEF Spec

-----------------------------------------------------------------------------
(* Files are rolled in time.                                               *)

RollTypes ==
  /\ Table(unflushed, Loggers, Levels)
  /\ size \in [Files -> Nat]

RollInv == RollTypes /\ RolledInTime

FilePlaces(f) == {l \in Loggers : FileOf[l] = f}

LEMMA LevelsFinite == IsFiniteSet(Levels)
<1>1. Levels = (({"Info"} \cup {"Debug"}) \cup {"Warning"}) \cup {"Fatal"}
  BY DEF Levels
<1>2. IsFiniteSet({"Info"})
  BY FS_Singleton
<1>3. IsFiniteSet({"Info"} \cup {"Debug"})
  BY <1>2, FS_AddElement
<1>4. IsFiniteSet(({"Info"} \cup {"Debug"}) \cup {"Warning"})
  BY <1>3, FS_AddElement
<1> QED  BY <1>1, <1>4, FS_AddElement

LEMMA UnflushedIs ==
  \A f \in Files : Unflushed(f) = Total(unflushed, FilePlaces(f) \X Levels)
BY DEF Unflushed, Total, FilePlaces

\* (the next state of the same)
LEMMA UnflushedNext ==
  \A f \in Files : Unflushed(f)' = Total(unflushed', FilePlaces(f) \X Levels)
<1>1. (\A f \in Files : Unflushed(f) = Total(unflushed, FilePlaces(f) \X Levels))'
  BY UnflushedIs, PTL
<1> QED BY <1>1

LEMMA FilePlacesFinite ==
  ASSUME NEW f PROVE IsFiniteSet(FilePlaces(f)) /\ FilePlaces(f) \subseteq Loggers
<1>1. IsFiniteSet(Loggers) /\ FilePlaces(f) \in SUBSET Loggers
  BY LogDispatchAssumption DEF FilePlaces
<1> QED BY <1>1, FS_Subset

LEMMA UnflushedNatural ==
  ASSUME NEW u, Table(u, Loggers, Levels), NEW f
  PROVE  Total(u, FilePlaces(f) \X Levels) \in Nat
BY LevelsFinite, FilePlacesFinite, TableSum

LEMMA RollInit == Init => RollInv
<1> SUFFICES ASSUME Init  PROVE RollInv
  OBVIOUS
<1>1. RollTypes
  BY DEF Init, RollTypes, Table
<1>2. ASSUME NEW f \in Files, MaxLogFileSize # 0  PROVE size[f] < MaxLogFileSize + Unflushed(f)
  <2>1. size[f] = 0 /\ MaxLogFileSize \in Nat
    BY LogDispatchAssumption DEF Init
  <2>2. PICK n \in Nat : n = Unflushed(f)
    BY <1>1, UnflushedIs, UnflushedNatural DEF RollTypes
  <2> QED  BY <1>2, <2>1, <2>2
<1> QED  BY <1>1, <1>2 DEF RollInv, RolledInTime

LEMMA WriteRolls ==
  ASSUME RollInv, LocksInv, NEW t \in Threads, Write(t)
  PROVE  RollInv'
<1>1. PICK l \in Loggers, v \in Levels : l = m_data.logger /\ v = m_data.level
  <2>1. stack[t] # <<>> /\ Top(t).pc = "write"
    BY DEF Write, At
  <2>2. m_data = LogMessage(Top(t)) /\ Top(t) \in Writers
    BY <2>1, TopTypes DEF LocksInv, DispatchLocks, DispatchLock, Stage, Writing
  <2>3. Top(t).logger \in Loggers /\ Top(t).level \in Levels
    BY <2>1, <2>2, LoggerFound DEF Writers, WriterRecord, Dispatching
  <2> QED  BY <2>2, <2>3 DEF LogMessage
<1>2. PICK w : w = FileOf[l] /\ w \in Files
  BY DEF Files
<1>3. PICK n \in Nat : n = unflushed[l][v] + 1
  BY DEF RollInv, RollTypes, Table
<1>4. size' = [size EXCEPT ![w] = @ + 1] /\ size' \in [Files -> Nat]
  BY <1>1, <1>2 DEF Write, RollInv, RollTypes
<1>5. unflushed' = IF "ImmediateFlush" \in Flags THEN unflushed ELSE [unflushed EXCEPT ![l][v] = n]
  BY <1>1, <1>3 DEF Write
<1>6. Table(unflushed', Loggers, Levels)
  BY <1>5 DEF RollInv, RollTypes, Table
<1>7. ASSUME MaxLogFileSize # 0, "ImmediateFlush" \notin Flags, NEW f \in Files
      PROVE  size'[f] < MaxLogFileSize + Unflushed(f)'
  <2>1. PICK a \in Nat : a = Unflushed(f) /\ a = Total(unflushed, FilePlaces(f) \X Levels)
    BY UnflushedIs, UnflushedNatural DEF RollInv, RollTypes
  <2>2. PICK b \in Nat : b = Unflushed(f)' /\ b = Total(unflushed', FilePlaces(f) \X Levels)
    BY <1>6, UnflushedNext, UnflushedNatural
  <2>3. OneUp(unflushed, unflushed', l, v, FilePlaces(f), Levels)
    BY <1>3, <1>5, <1>7, FilePlacesFinite DEF OneUp, RollInv, RollTypes, Table
  <2>4. b = IF l \in FilePlaces(f) THEN a + 1 ELSE a
    BY <1>6, <2>1, <2>2, <2>3, LevelsFinite, FilePlacesFinite, TableSumGrows DEF RollInv, RollTypes
  <2>5. l \in FilePlaces(f) <=> f = w
    BY <1>2 DEF FilePlaces
  <2>6. size[f] < MaxLogFileSize + a /\ MaxLogFileSize \in Nat /\ size[f] \in Nat
    BY <1>7, <2>1, LogDispatchAssumption DEF RollInv, RolledInTime, RollTypes
  <2>7. size'[f] = IF f = w THEN size[f] + 1 ELSE size[f]
    BY <1>4 DEF RollInv, RollTypes
  <2> QED  BY <2>2, <2>4, <2>5, <2>6, <2>7
<1> QED  BY <1>4, <1>6, <1>7 DEF RollInv, RollTypes, RolledInTime

LEMMA Rolls ==
  ASSUME RollTypes, NEW f \in Files, MaxLogFileSize # 0
  PROVE  /\ Roll(size, f) \in [Files -> Nat] /\ Roll(size, f)[f] < MaxLogFileSize
         /\ \A g \in Files : Roll(size, f)[g] <= size[g]
<1>1. MaxLogFileSize \in Nat
  BY LogDispatchAssumption
<1> QED  BY <1>1 DEF Roll, RollTypes

LEMMA FlushRolls ==
  ASSUME RollInv, LocksInv, NEW t \in Threads, Flush(t)
  PROVE  RollInv'
<1>1. PICK l \in Loggers, v \in Levels : l = m_data.logger /\ v = m_data.level
  <2>1. stack[t] # <<>> /\ Top(t).pc = "flush"
    BY DEF Flush, At
  <2>2. m_data = LogMessage(Top(t)) /\ Top(t) \in Writers
    BY <2>1, TopTypes DEF LocksInv, DispatchLocks, DispatchLock, Stage, Writing
  <2>3. Top(t).logger \in Loggers /\ Top(t).level \in Levels
    BY <2>1, <2>2, LoggerFound DEF Writers, WriterRecord, Dispatching
  <2> QED  BY <2>2, <2>3 DEF LogMessage
<1>2. PICK w : w = FileOf[l] /\ w \in Files
  BY DEF Files
<1>3. size' = Roll(size, w) /\ size' \in [Files -> Nat]
  BY <1>1, <1>2 DEF Flush, RollInv, RollTypes, Roll
<1>4. unflushed' = [unflushed EXCEPT ![l][v] = 0] /\ Table(unflushed', Loggers, Levels)
  BY <1>1 DEF Flush, RollInv, RollTypes, Table
<1>5. ASSUME MaxLogFileSize # 0, "ImmediateFlush" \notin Flags, NEW f \in Files
      PROVE  size'[f] < MaxLogFileSize + Unflushed(f)'
  <2>1. PICK a \in Nat : a = Unflushed(f) /\ a = Total(unflushed, FilePlaces(f) \X Levels)
    BY UnflushedIs, UnflushedNatural DEF RollInv, RollTypes
  <2>2. PICK b \in Nat : b = Unflushed(f)' /\ b = Total(unflushed', FilePlaces(f) \X Levels)
    BY <1>4, UnflushedNext, UnflushedNatural
  <2>3. MaxLogFileSize \in Nat /\ size'[f] \in Nat
    BY <1>3, LogDispatchAssumption
  <2>4. CASE f = w
    <3>1. size'[f] < MaxLogFileSize
      BY <1>2, <1>3, <1>5, <2>4, Rolls DEF RollInv
    <3> QED  BY <2>2, <2>3, <3>1
  <2>5. CASE f # w
    <3>1. size'[f] = size[f]
      BY <1>2, <1>3, <2>5 DEF Roll, RollInv, RollTypes
    <3>2. l \notin FilePlaces(f)
      BY <1>2, <2>5 DEF FilePlaces
    <3>3. OneUp(unflushed, unflushed', l, v, FilePlaces(f), Levels)
      BY <1>4, <3>2, FilePlacesFinite DEF OneUp, RollInv, RollTypes, Table
    <3>4. b = a
      <4>1. Table(unflushed, Loggers, Levels)
        BY DEF RollInv, RollTypes
      <4> QED  BY <1>4, <2>1, <2>2, <3>2, <3>3, <4>1, LevelsFinite, FilePlacesFinite, TableSumGrows
    <3>5. size[f] < MaxLogFileSize + a
      BY <1>5, <2>1 DEF RollInv, RolledInTime
    <3> QED  BY <2>2, <3>1, <3>4, <3>5
  <2> QED  BY <2>4, <2>5
<1> QED  BY <1>3, <1>4, <1>5 DEF RollInv, RollTypes, RolledInTime

\* Dispatch may roll a file; the counts stay.
LEMMA DispatchRolls ==
  ASSUME RollInv, LocksInv, NEW t \in Threads, Dispatch(t)
  PROVE  RollInv'
<1>1. PICK w \in Files : w = FileOf[Top(t).logger]
  <2>1. stack[t] # <<>> /\ Top(t).pc = "dispatch"
    BY DEF Dispatch, At
  <2>2. Top(t) \in Writers
    BY <2>1, TopTypes DEF LocksInv
  <2>3. Top(t).logger \in Loggers
    BY <2>1, <2>2, LoggerFound
  <2> QED  BY <2>3 DEF Files
<1>2. unflushed' = unflushed /\ size' \in {size, Roll(size, w)}
  BY <1>1 DEF Dispatch
<1>3. size' \in [Files -> Nat] /\ \A f \in Files : size'[f] <= size[f]
  <2>1. CASE MaxLogFileSize = 0
    BY <1>2, <2>1 DEF Roll, RollInv, RollTypes
  <2>2. CASE MaxLogFileSize # 0
    BY <1>2, <2>2, Rolls DEF RollInv, RollTypes
  <2> QED  BY <2>1, <2>2
<1>4. \A f \in Files : Unflushed(f)' = Unflushed(f)
  BY <1>2, UnflushedIs, UnflushedNext
<1>5. ASSUME MaxLogFileSize # 0, "ImmediateFlush" \notin Flags, NEW f \in Files
      PROVE  size'[f] < MaxLogFileSize + Unflushed(f)'
  <2>1. PICK a \in Nat : a = Unflushed(f)
    BY UnflushedIs, UnflushedNatural DEF RollInv, RollTypes
  <2>2. MaxLogFileSize \in Nat /\ size[f] < MaxLogFileSize + a
    BY <1>5, <2>1, LogDispatchAssumption DEF RollInv, RolledInTime
  <2> QED  BY <1>3, <1>4, <2>1, <2>2 DEF RollInv, RollTypes
<1> QED  BY <1>2, <1>3, <1>5 DEF RollInv, RollTypes, RolledInTime

LEMMA RollKept ==
  ASSUME RollInv, UNCHANGED <<unflushed, size>>
  PROVE  RollInv'
<1>1. \A f \in Files : Unflushed(f)' = Unflushed(f)
  BY UnflushedIs, UnflushedNext
<1> QED  BY <1>1 DEF RollInv, RollTypes, RolledInTime

LEMMA RollNext == LocksInv /\ RollInv /\ [Next]_vars => RollInv'
<1> SUFFICES ASSUME LocksInv, RollInv, [Next]_vars  PROVE RollInv'
  OBVIOUS
<1>1. CASE UNCHANGED vars
  BY <1>1, RollKept DEF vars
<1>2. ASSUME NEW t \in Threads, Step(t)  PROVE RollInv'
  <2>1. CASE Write(t) \/ Flush(t) \/ Dispatch(t)
    BY <2>1, WriteRolls, FlushRolls, DispatchRolls
  <2>2. CASE Format(t) \/ InitializeLogger(t) \/ InitializeNull(t) \/ Stream(t) \/ ProcessDispatch(t)
             \/ Handle(t) \/ Finish(t) \/ NextLogger(t) \/ Abort(t)
    BY <2>2, RollKept DEF Format, InitializeLogger, InitializeNull, Stream, ProcessDispatch, Handle,
                          Finish, NextLogger, Abort, output
  <2> QED  BY <1>2, <2>1, <2>2 DEF Step
<1>3. ASSUME NEW t \in Threads, Begin(t)  PROVE RollInv'
  BY <1>3, RollKept DEF Begin, Skip, BeginMacro, BeginCall, Reach, output
<1> QED  BY <1>1, <1>2, <1>3 DEF Next

\* Whoever flushes, a file never outgrows its limit by more than the lines that its
\* loggers count as unflushed.
THEOREM FilesRolled == Spec => []RolledInTime
<1>1. RollInv => RolledInTime
  BY DEF RollInv
<1> QED  BY <1>1, LocksInit, LocksNext, RollInit, RollNext, PTL DEF Spec
=============================================================================
