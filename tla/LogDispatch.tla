----------------------------- MODULE LogDispatch -----------------------------
(***************************************************************************)
(* The logging side of easylogging++, built with ELPP_THREAD_SAFE: threads *)
(* execute log statements, each one a Writer that locks its logger, fills  *)
(* the logger's stream, and in its destructor dispatches the line under    *)
(* the global lock and the lock of the file, for one logger or, with       *)
(* MultiLoggerSupport, for several in turn.  Loggers are configured once   *)
(* (module LogConfig); the size of a file is its number of lines.          *)
(***************************************************************************)
EXTENDS Integers, Bags, SequencesExt, FiniteSetsExt

CONSTANTS
  Threads,
  Loggers,             \* the ids that statements name
  DefaultId,
  Invalid,             \* ids that isValidId refuses
  Registered,          \* the loggers registered from the start
  Enabled,             \* the (logger, level) pairs that are enabled
  FileOf,              \* the file of each logger
  Threshold,           \* LogFlushThreshold of each logger
  MaxLogFileSize,      \* of every level, 0 for none
  Flags,               \* the LoggingFlags in use
  kMaxLogPerCounter,   \* 100000 in the code
  Statements,          \* the log statements of the program, each a place in its text
  Parts,               \* how many values a statement streams
  MaxStatements,       \* bound on the statements executed
  None

Levels == {"Info", "Debug", "Warning", "Fatal"}
Gates == {"always", "every", "after", "times"}
Kinds == {"macro", "format", "surplus"}

ASSUME LogDispatchAssumption ==
  /\ IsFiniteSet(Loggers)
  /\ DefaultId \in Registered /\ Registered \subseteq Loggers \ Invalid
  /\ None \notin Loggers \cup Threads
  /\ Enabled \subseteq Loggers \X Levels
  /\ Threshold \in [Loggers -> Nat] /\ MaxLogFileSize \in Nat
  /\ kMaxLogPerCounter \in Nat \ {0} /\ Parts \in Nat \ {0}
  /\ Statements \subseteq
       [kind : Kinds, gate : Gates, n : Nat, level : Levels, ids : Seq(Loggers)]
  /\ \A s \in Statements :
       /\ s.ids # <<>>
       /\ s.kind # "macro" => s.gate = "always" /\ s.ids[1] \in Registered

Files == {FileOf[l] : l \in Loggers}

\* A recursive mutex: who holds it and how often.
Mutex == [holder : Threads \cup {None}, count : Nat]

\* m_hitCounts of the counter at each place.
HitCounters == [Statements -> Nat]

\* What a callback is given.
LogDispatchData ==
  {None} \cup [logger : Loggers, level : Levels, msg : Nat, text : Seq(Nat \X Nat)]

VARIABLES
  stack,       \* the Writers alive in each thread, the innermost last
  registered,  \* registered loggers
  lock,        \* the mutex of each logger
  stream,      \* what each logger's stream holds
  global,      \* the holder of ELPP->lock()
  fileLock,    \* the holder of each file's mutex
  m_data,      \* the message of the one DefaultLogDispatchCallback
  unflushed,   \* m_unflushedCount
  size,        \* lines in each file since it was truncated
  hits,        \* m_hitCounts of each statement
  aborted,
  begun,       \* history: the statement of each message
  lines,       \* history: the bag of lines written
  leaked,      \* history: loggers whose lock a statement left behind
  gated        \* history: executions of each statement, and those its gate let pass

vars == <<stack, registered, lock, stream, global, fileLock, m_data, unflushed, size,
          hits, aborted, begun, lines, leaked, gated>>
locks == <<lock, global, fileLock>>
output == <<m_data, unflushed, size, lines>>
history == <<begun, leaked, gated>>

Text(m) == [k \in 1..Parts |-> <<m, k>>]
Note(m) == <<<<m, 0>>>>
Line(m, l, level, text) == [msg |-> m, logger |-> l, level |-> level, text |-> text]

Init ==
  /\ stack = [t \in Threads |-> <<>>]
  /\ registered = Registered
  /\ lock = [l \in Loggers |-> [holder |-> None, count |-> 0]]
  /\ stream = [l \in Loggers |-> <<>>]
  /\ global = None /\ fileLock = [f \in Files |-> None]
  /\ m_data = None
  /\ unflushed = [l \in Loggers |-> [v \in Levels |-> 0]]
  /\ size = [f \in Files |-> 0]
  /\ hits = [s \in Statements |-> 0]
  /\ aborted = FALSE
  /\ begun = <<>> /\ lines = EmptyBag /\ leaked = {}
  /\ gated = [s \in Statements |-> [calls |-> 0, passed |-> 0]]

-----------------------------------------------------------------------------
(* Hit counters.                                                           *)

\* Mutant: the counter starts over at zero.
validateHitCountsMut(h, n) == (IF h >= kMaxLogPerCounter THEN 0 ELSE h) + 1

\* The counter goes on from a smaller number that is the same modulo n.
validateHitCounts(h, n) ==
  (IF h >= kMaxLogPerCounter THEN IF n >= 1 THEN kMaxLogPerCounter % n ELSE 0 ELSE h) + 1

validateEveryN(h, n) ==
  LET c == validateHitCounts(h, n) IN [hits |-> c, pass |-> n >= 1 /\ c # 0 /\ c % n = 0]

validateAfterN(h, n) == IF h >= n THEN [hits |-> h, pass |-> TRUE]
                                  ELSE [hits |-> h + 1, pass |-> FALSE]

validateNTimes(h, n) == [hits |-> h + 1, pass |-> h + 1 <= n]

Gate(s) ==
  CASE s.gate = "every" -> validateEveryN(hits[s], s.n)
    [] s.gate = "after" -> validateAfterN(hits[s], s.n)
    [] s.gate = "times" -> validateNTimes(hits[s], s.n)
    [] OTHER -> [hits |-> hits[s], pass |-> TRUE]

-----------------------------------------------------------------------------
(* The Writers of a thread.                                                *)

Writer(m, level, ids, text) ==
  [pc |-> "initialize", msg |-> m, level |-> level, ids |-> ids, i |-> 1, logger |-> None,
   proceed |-> FALSE, left |-> text, copy |-> <<>>, first |-> FALSE, surplus |-> FALSE]

Top(t) == Last(stack[t])
At(t, pc) == ~aborted /\ stack[t] # <<>> /\ Top(t).pc = pc
Become(t, w) == stack' = [stack EXCEPT ![t] = Append(Front(@), w)]
Nest(t, w, inner) == stack' = [stack EXCEPT ![t] = Append(Append(Front(@), w), inner)]
Pop(t) == stack' = [stack EXCEPT ![t] = Front(@)]

CanLock(t, l) == lock[l].holder \in {None, t}
Acquire(t, l) == lock' = [lock EXCEPT ![l] = [holder |-> t, count |-> @.count + 1]]

\* Mutant: a mutex taken twice is not given back.
ReleaseMut(l) == lock' = [lock EXCEPT ![l].count = 1]

Release(l) ==
  lock' = [lock EXCEPT ![l] = [holder |-> IF @.count = 1 THEN None ELSE @.holder,
                               count |-> @.count - 1]]

\* The loggers a macro writes to, in order.
construct(s) == IF "MultiLoggerSupport" \in Flags THEN s.ids ELSE <<s.ids[1]>>

\* A thread reaches a statement; hit counters have a lock of their own.
Reach(t, s) ==
  LET pass == Gate(s).pass
  IN  /\ ~aborted /\ stack[t] = <<>> /\ Len(begun) < MaxStatements
      /\ hits' = [hits EXCEPT ![s] = Gate(s).hits]
      /\ gated' = [gated EXCEPT ![s] = [calls |-> @.calls + 1,
                                        passed |-> @.passed + IF pass THEN 1 ELSE 0]]
      /\ begun' = Append(begun, [s EXCEPT !.gate = IF pass THEN "pass" ELSE "stop"])
      /\ UNCHANGED <<registered, stream, global, fileLock, output, aborted, leaked>>

\* Its gate is closed.
Skip(t, s) == Reach(t, s) /\ ~Gate(s).pass /\ UNCHANGED <<stack, lock>>

\* CLOG and its relatives build a Writer.
BeginMacro(t, s) ==
  /\ Reach(t, s) /\ Gate(s).pass /\ s.kind = "macro"
  /\ LET m == Len(begun')
     IN  stack' = [stack EXCEPT ![t] = <<Writer(m, s.level, construct(s), Text(m))>>]
  /\ UNCHANGED lock

\* logger->info(format, values) and its relatives lock their logger first.
BeginCall(t, s) ==
  LET l == s.ids[1]
      m == Len(begun')
  IN  /\ Reach(t, s) /\ s.kind # "macro"
      /\ CanLock(t, l) /\ Acquire(t, l)
      /\ stack' = [stack EXCEPT ![t] =
           <<[Writer(m, s.level, <<l>>, Text(m)) EXCEPT
                !.pc = "format", !.logger = l, !.surplus = s.kind = "surplus"]>>]

\* log_: the values go to the stream as the format is read.  With more values
\* than specifiers it returns without a Writer, and with the lock.
Format(t) ==
  LET w == Top(t)
      l == w.logger
  IN  /\ At(t, "format")
      /\ \/ /\ w.left # <<>>
            /\ stream' = [stream EXCEPT ![l] = Append(@, Head(w.left))]
            /\ Become(t, [w EXCEPT !.left = Tail(@)])
            /\ UNCHANGED leaked
         \/ /\ w.left = <<>> /\ ~w.surplus
            /\ Become(t, [w EXCEPT !.pc = "process", !.proceed = <<l, w.level>> \in Enabled])
            /\ UNCHANGED <<stream, leaked>>
         \/ /\ w.left = <<>> /\ w.surplus
            /\ Pop(t)
            /\ leaked' = leaked \cup {l}
            /\ UNCHANGED stream
      /\ UNCHANGED <<registered, locks, output, hits, aborted, begun, gated>>

\* RegisteredLoggers::get for the i-th id: the logger, if there is one now.
Found(w) ==
  LET id == w.ids[w.i]
  IN  id \in registered \/ ("CreateLoggerAutomatically" \in Flags /\ id \notin Invalid)

AfterInitialize(w) == IF w.i = 1 THEN "stream" ELSE "process"

InitializeLogger(t) ==
  LET w == Top(t)
      id == w.ids[w.i]
  IN  /\ At(t, "initialize") /\ Found(w) /\ CanLock(t, id)
      /\ registered' = registered \cup {id}
      /\ Acquire(t, id)
      /\ Become(t, [w EXCEPT !.pc = AfterInitialize(w), !.logger = id,
                             !.proceed = <<id, w.level>> \in Enabled])
      /\ UNCHANGED <<stream, global, fileLock, output, hits, aborted, history>>

\* Mutant: the note goes to the logger that is missing.
InitializeNullMut(t) ==
  LET w == Top(t)
  IN  /\ At(t, "initialize") /\ ~Found(w)
      /\ Nest(t, [w EXCEPT !.pc = AfterInitialize(w), !.logger = None, !.proceed = FALSE],
              Writer(w.msg, "Debug", <<w.ids[w.i]>>, Note(w.msg)))
      /\ UNCHANGED <<registered, locks, stream, output, hits, aborted, history>>

\* No such logger: a Writer of its own tells the default logger.
InitializeNull(t) ==
  LET w == Top(t)
  IN  /\ At(t, "initialize") /\ ~Found(w)
      /\ Nest(t, [w EXCEPT !.pc = AfterInitialize(w), !.logger = None, !.proceed = FALSE],
              Writer(w.msg, "Debug", <<DefaultId>>, Note(w.msg)))
      /\ UNCHANGED <<registered, locks, stream, output, hits, aborted, history>>

\* operator<<, one value at a time.
Stream(t) ==
  LET w == Top(t)
  IN  /\ At(t, "stream")
      /\ \/ /\ w.proceed /\ w.left # <<>>
            /\ stream' = [stream EXCEPT ![w.logger] = Append(@, Head(w.left))]
            /\ Become(t, [w EXCEPT !.left = Tail(@)])
         \/ /\ ~w.proceed \/ w.left = <<>>
            /\ Become(t, [w EXCEPT !.pc = "process"])
            /\ UNCHANGED stream
      /\ UNCHANGED <<registered, locks, output, hits, aborted, history>>

\* Mutant: a logger that does not take the message stays locked.
ProcessDispatchMut(t) ==
  LET w == Top(t)
      l == w.logger
      text == IF w.first THEN stream[l] \o w.copy ELSE stream[l]
  IN  /\ At(t, "process")
      /\ \/ /\ w.proceed
            /\ stream' = [stream EXCEPT ![l] = text]
            /\ Become(t, [w EXCEPT !.pc = "dispatch", !.first = TRUE,
                                   !.copy = IF w.first THEN @ ELSE text])
         \/ /\ ~w.proceed
            /\ Become(t, [w EXCEPT !.pc = "next"])
            /\ stream' = IF l = None THEN stream ELSE [stream EXCEPT ![l] = <<>>]
      /\ UNCHANGED <<registered, locks, output, hits, aborted, history>>

\* The destructor, for the logger whose turn it is: the first one dispatched has
\* the text in its stream, the others get a copy.
ProcessDispatch(t) ==
  LET w == Top(t)
      l == w.logger
      text == IF w.first THEN stream[l] \o w.copy ELSE stream[l]
  IN  /\ At(t, "process")
      /\ \/ /\ w.proceed
            /\ stream' = [stream EXCEPT ![l] = text]
            /\ Become(t, [w EXCEPT !.pc = "dispatch", !.first = TRUE,
                                   !.copy = IF w.first THEN @ ELSE text])
            /\ UNCHANGED lock
         \/ /\ ~w.proceed
            /\ Become(t, [w EXCEPT !.pc = "next"])
            /\ IF l = None THEN UNCHANGED <<stream, lock>>
               ELSE stream' = [stream EXCEPT ![l] = <<>>] /\ Release(l)
      /\ UNCHANGED <<registered, global, fileLock, output, hits, aborted, history>>

\* unsafeValidateFileRolling.
Roll(sizes, f) ==
  IF MaxLogFileSize # 0 /\ sizes[f] >= MaxLogFileSize THEN [sizes EXCEPT ![f] = 0] ELSE sizes

\* Mutant: there is no global lock, as with ELPP_NO_GLOBAL_LOCK.
DispatchMut(t) ==
  LET w == Top(t)
  IN  /\ At(t, "dispatch")
      /\ size' = IF "StrictLogFileSizeCheck" \in Flags THEN Roll(size, FileOf[w.logger]) ELSE size
      /\ Become(t, [w EXCEPT !.pc = "handle"])
      /\ UNCHANGED <<registered, locks, stream, m_data, unflushed, lines, hits, aborted, history>>

\* LogDispatcher::dispatch up to the callback.
Dispatch(t) ==
  LET w == Top(t)
  IN  /\ At(t, "dispatch") /\ global = None
      /\ global' = t
      /\ size' = IF "StrictLogFileSizeCheck" \in Flags THEN Roll(size, FileOf[w.logger]) ELSE size
      /\ Become(t, [w EXCEPT !.pc = "handle"])
      /\ UNCHANGED <<registered, lock, fileLock, stream, m_data, unflushed, lines, hits, aborted,
                     history>>

\* What is dispatched: the text is that of the logger's stream.
LogMessage(w) ==
  [logger |-> w.logger, level |-> w.level, msg |-> w.msg, text |-> stream[w.logger]]

\* DefaultLogDispatchCallback::handle: the lock of the file, and the message
\* where dispatch() will look for it.
Handle(t) ==
  LET w == Top(t)
      f == FileOf[w.logger]
  IN  /\ At(t, "handle") /\ fileLock[f] = None
      /\ fileLock' = [fileLock EXCEPT ![f] = t]
      /\ m_data' = LogMessage(w)
      /\ Become(t, [w EXCEPT !.pc = "write"])
      /\ UNCHANGED <<registered, lock, global, stream, unflushed, size, lines, hits, aborted,
                     history>>

\* The line goes to the file of m_data; isFlushNeeded counts it.
Write(t) ==
  LET w == Top(t)
      d == m_data
      n == unflushed[d.logger][d.level] + 1
      immediate == "ImmediateFlush" \in Flags
  IN  /\ At(t, "write")
      /\ size' = [size EXCEPT ![FileOf[d.logger]] = @ + 1]
      /\ lines' = lines (+) SetToBag({Line(d.msg, d.logger, d.level, d.text)})
      /\ unflushed' = IF immediate THEN unflushed
                      ELSE [unflushed EXCEPT ![d.logger][d.level] = n]
      /\ Become(t, [w EXCEPT !.pc = IF immediate \/ n >= Threshold[d.logger]
                                      THEN "flush" ELSE "done"])
      /\ UNCHANGED <<registered, locks, stream, m_data, hits, aborted, history>>

\* Mutant: the size is not validated.
FlushMut(t) ==
  LET w == Top(t)
      d == m_data
  IN  /\ At(t, "flush")
      /\ unflushed' = [unflushed EXCEPT ![d.logger][d.level] = 0]
      /\ Become(t, [w EXCEPT !.pc = "done"])
      /\ UNCHANGED <<registered, locks, stream, m_data, size, lines, hits, aborted, history>>

\* Logger::flush(level, fs), which validates the size.
Flush(t) ==
  LET w == Top(t)
      d == m_data
  IN  /\ At(t, "flush")
      /\ unflushed' = [unflushed EXCEPT ![d.logger][d.level] = 0]
      /\ size' = Roll(size, FileOf[d.logger])
      /\ Become(t, [w EXCEPT !.pc = "done"])
      /\ UNCHANGED <<registered, locks, stream, m_data, lines, hits, aborted, history>>

\* Mutant: the program aborts at once.
FinishMut(t) ==
  LET w == Top(t)
      l == w.logger
      fatal == w.level = "Fatal" /\ "DisableApplicationAbortOnFatalLog" \notin Flags
  IN  /\ At(t, "done")
      /\ global' = None
      /\ fileLock' = [fileLock EXCEPT ![FileOf[l]] = None]
      /\ stream' = [stream EXCEPT ![l] = <<>>]
      /\ Release(l)
      /\ Become(t, [w EXCEPT !.proceed = FALSE, !.pc = IF fatal THEN "abort" ELSE "next"])
      /\ UNCHANGED <<registered, output, hits, aborted, history>>

\* The locks of the dispatch are released; triggerDispatch clears the stream and
\* releases the logger, and a fatal message is announced on the default logger.
Finish(t) ==
  LET w == Top(t)
      l == w.logger
      fatal == w.level = "Fatal" /\ "DisableApplicationAbortOnFatalLog" \notin Flags
      after == [w EXCEPT !.proceed = FALSE, !.pc = IF fatal THEN "abort" ELSE "next"]
  IN  /\ At(t, "done")
      /\ global' = None
      /\ fileLock' = [fileLock EXCEPT ![FileOf[l]] = None]
      /\ stream' = [stream EXCEPT ![l] = <<>>]
      /\ Release(l)
      /\ IF fatal THEN Nest(t, after, Writer(w.msg, "Warning", <<DefaultId>>, Note(w.msg)))
                  ELSE Become(t, after)
      /\ UNCHANGED <<registered, output, hits, aborted, history>>

\* The next logger of the list, or the end of the statement.
NextLogger(t) ==
  LET w == Top(t)
  IN  /\ At(t, "next")
      /\ IF w.i < Len(w.ids)
           THEN Become(t, [w EXCEPT !.i = @ + 1, !.pc = "initialize"])
           ELSE Pop(t)
      /\ UNCHANGED <<registered, locks, stream, output, hits, aborted, history>>

Abort(t) ==
  /\ At(t, "abort")
  /\ aborted' = TRUE
  /\ UNCHANGED <<stack, registered, locks, stream, output, hits, history>>

Step(t) ==
  \/ Format(t) \/ InitializeLogger(t) \/ InitializeNull(t) \/ Stream(t)
  \/ ProcessDispatch(t) \/ Dispatch(t) \/ Handle(t) \/ Write(t) \/ Flush(t)
  \/ Finish(t) \/ NextLogger(t) \/ Abort(t)

Begin(t) == \E s \in Statements : Skip(t, s) \/ BeginMacro(t, s) \/ BeginCall(t, s)

Next == \E t \in Threads : Step(t) \/ Begin(t)

Spec == Init /\ [][Next]_vars

\* Threads run on; none has to reach another statement.
FairSpec == Spec /\ \A t \in Threads : WF_vars(Step(t))

-----------------------------------------------------------------------------
(* Properties.                                                             *)

\* Types; the mutexes count what is held, and nobody holds what is free.
TypeOK ==
  /\ registered \subseteq Loggers \ Invalid
  /\ \A l \in Loggers : (lock[l].holder = None) <=> (lock[l].count = 0)
  /\ lock \in [Loggers -> Mutex] /\ hits \in HitCounters /\ m_data \in LogDispatchData
  /\ global \in Threads \cup {None}
  /\ \A t \in Threads : Len(stack[t]) <= 2

\* Text is in a logger's stream only while a thread holds its lock, and a thread
\* between two statements holds no lock, but for the logger a call with too many
\* values left locked.
LocksReturned ==
  /\ \A l \in Loggers : stream[l] # <<>> => lock[l].count > 0
  /\ \A t \in Threads : stack[t] = <<>> =>
       /\ global # t /\ \A f \in Files : fileLock[f] # t
       /\ \A l \in Loggers \ leaked : lock[l].holder # t

Active(m) == \E t \in Threads : \E i \in DOMAIN stack[t] : stack[t][i].msg = m

\* The loggers that a message goes to, in order: those its Writer is given.
Ids(m) ==
  LET s == begun[m]
  IN  IF s.gate = "stop" THEN <<>> ELSE IF s.kind = "macro" THEN construct(s) ELSE <<s.ids[1]>>

\* The loggers there are when a statement asks for them.
Exists(id) == IF "CreateLoggerAutomatically" \in Flags THEN id \notin Invalid ELSE id \in Registered

Takes(id, level) == Exists(id) /\ <<id, level>> \in Enabled

\* The line of the i-th logger of a message, in a set, which may be empty: the whole
\* text if the logger takes the level, and on the default logger a note of one that
\* does not exist.  When the first logger does not take the message the text is
\* lost, and the others get an empty line.
LineAt(m, i) ==
  LET level == begun[m].level
      id == Ids(m)[i]
      text == IF Takes(Ids(m)[1], level) THEN Text(m) ELSE <<>>
  IN  CASE Takes(id, level) -> {Line(m, id, level, text)}
        [] ~Exists(id) /\ <<DefaultId, "Debug">> \in Enabled -> {Line(m, DefaultId, "Debug", Note(m))}
        [] OTHER -> {}

\* No call has left one of its loggers locked, or the default logger.
Undisturbed(m) == leaked \cap (Range(Ids(m)) \cup {DefaultId}) = {}

\* How often a line has been written.
Times(r) == IF BagIn(r, lines) THEN lines[r] ELSE 0

\* At the end of a statement each of its loggers has got its line, once for every
\* time that it is named, and nothing else was written for it.
Delivered ==
  \A m \in DOMAIN begun : ~Active(m) /\ Undisturbed(m) =>
    \A r \in {q \in BagToSet(lines) : q.msg = m} \cup UNION {LineAt(m, i) : i \in DOMAIN Ids(m)} :
      Times(r) = Cardinality({i \in DOMAIN Ids(m) : r \in LineAt(m, i)})

\* The program ends after a fatal message only when the message has been written
\* and a note of it on the default logger; what the note is found behind is the text
\* of a call that left that logger locked.
AbortIsLogged ==
  aborted => \E m \in DOMAIN begun :
    /\ begun[m].level = "Fatal"
    /\ \E r \in BagToSet(lines) : r.msg = m /\ r.level = "Fatal"
    /\ <<DefaultId, "Warning">> \in Enabled =>
         \E r \in BagToSet(lines) :
           /\ r.msg = m /\ r.logger = DefaultId /\ r.level = "Warning"
           /\ r.text # <<>> /\ Last(r.text) = Last(Note(m))
           /\ DefaultId \notin leaked => r.text = Note(m)

\* The lines that the loggers of a file count as not yet flushed.
Unflushed(f) ==
  MapThenSumSet(LAMBDA p : unflushed[p[1]][p[2]], {l \in Loggers : FileOf[l] = f} \X Levels)

\* A file outgrows its limit by no more than its loggers may keep unflushed,
\* whoever flushes: nobody's flush forgets another's lines.
RolledInTime ==
  MaxLogFileSize # 0 /\ "ImmediateFlush" \notin Flags =>
    \A f \in Files : size[f] < MaxLogFileSize + Unflushed(f)

\* How far c is beyond n.
Excess(c, n) == IF c > n THEN c - n ELSE 0

\* Whatever threads execute it, and however often its counter starts over, a
\* statement of LOG_EVERY_N logs every n-th time, one of LOG_AFTER_N from time
\* n + 1 on, and one of LOG_N_TIMES the first n times.  But a counter that starts
\* over goes on from itself when n is greater than kMaxLogPerCounter: it stays at
\* the next number, and the statement logs each time if that is n, else never.
GatesExact ==
  \A s \in Statements :
    LET c == gated[s].calls
        p == gated[s].passed
    IN  /\ s.gate = "every" /\ s.n = 0 => p = 0
        /\ s.gate = "every" /\ s.n \in 1 .. kMaxLogPerCounter => p = c \div s.n
        /\ s.gate = "every" /\ s.n = kMaxLogPerCounter + 1 => p = Excess(c, kMaxLogPerCounter)
        /\ s.gate = "every" /\ s.n > kMaxLogPerCounter + 1 => p = 0
        /\ s.gate = "after" => p = Excess(c, s.n)
        /\ s.gate = "times" => p = c - Excess(c, s.n)

\* A thread comes to the end of its statement unless the program aborts or a lock
\* was left behind: no statement holds a lock another one in it waits for.
StatementsEnd ==
  \A t \in Threads : stack[t] # <<>> ~> (stack[t] = <<>> \/ aborted \/ leaked # {})

=============================================================================
