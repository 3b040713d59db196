--------------------------- MODULE LogLinesProofs ---------------------------
(***************************************************************************)
(* Every line of the log once, for any threads, loggers, files and log     *)
(* statements: a statement that is over has given each logger it names the *)
(* lines it owes it, and a fatal one is announced before the abort.        *)
(***************************************************************************)
EXTENDS LogDispatchProofs, FiniteSetTheorems

-----------------------------------------------------------------------------
(* What is written: the invariant.                                         *)

\* The Writer of the statement a thread is in; another one may be on top of it.
Main(t) == stack[t][1]
Nested(t) == Len(stack[t]) = 2

\* The loggers there are.
Known == Registered \subseteq registered /\ \A id \in registered : Exists(id)

\* A thread is in a statement of its own, with its loggers and its level, and the
\* Writer above tells of a logger that is missing, or of a fatal message.
Identity(t) ==
  stack[t] # <<>> =>
    LET v == Main(t)
    IN  /\ v.msg \in DOMAIN begun /\ v.ids = Ids(v.msg) /\ v.level = begun[v.msg].level
        /\ v.pc = "abort" => v.level = "Fatal"
        /\ Nested(t) => /\ Top(t).msg = v.msg /\ Top(t).pc # "abort"
                        /\ Top(t).level = IF v.pc = "abort" THEN "Warning" ELSE "Debug"

Apart == \A t \in Threads : \A u \in Threads \ {t} :
           stack[t] # <<>> /\ stack[u] # <<>> => Main(t).msg # Main(u).msg

\* Where a Writer is: the logger it is at, whether that takes the message, and
\* whether one of its loggers has been through the dispatch.
Here(w) == w.ids[w.i]
Sending == {"dispatch", "handle", "write", "flush", "done"}
Started(w) == w.i > 1 \/ w.pc \in Sending \cup {"next", "abort"}

Stationed(w) ==
  /\ w.pc \in Sending \cup {"format"} => w.logger = Here(w) /\ Exists(Here(w))
  /\ w.pc \in Sending => Takes(Here(w), w.level)
  /\ w.pc \in {"stream", "process"} =>
       /\ w.logger = IF Exists(Here(w)) THEN Here(w) ELSE None
       /\ w.proceed <=> Takes(Here(w), w.level)
  /\ w.pc \in {"format", "stream"} => w.i = 1
  /\ ~Started(w) => ~w.first

\* The text of a Writer whose loggers nobody has left locked: while it is streamed
\* one part is in the stream and the rest is left; then the stream of the logger it
\* is at has the text of the line, which is copied from the first to the others.
Clean(w) == \A i \in DOMAIN w.ids : w.ids[i] \notin leaked
LineText(w, full) == IF Takes(w.ids[1], w.level) THEN full ELSE <<>>

Content(w, full) ==
  /\ w.pc = "initialize" /\ w.i = 1 => w.left = full
  /\ w.pc = "format" \/ (w.pc = "stream" /\ w.proceed) => stream[w.logger] \o w.left = full
  /\ w.pc = "process" /\ w.proceed => stream[w.logger] = IF w.i = 1 THEN full ELSE <<>>
  /\ w.pc \in {"dispatch", "handle", "write"} => stream[w.logger] = LineText(w, full)
  /\ Started(w) => LineText(w, full) = IF w.first THEN w.copy ELSE <<>>

\* The text of a thread's Writers: the one of the statement, and that of a note.
WriterOK(w, full) == Stationed(w) /\ (Clean(w) => Content(w, full))

Texts(t) ==
  stack[t] # <<>> =>
    /\ \A v \in {Main(t)} : WriterOK(v, Text(v.msg))
    /\ Nested(t) => \A w \in {Top(t)} : WriterOK(w, Note(w.msg))

\* The lines written of a message are those of the loggers J.
Counts(m, J) ==
  \A r : r.msg = m => Times(r) = Cardinality({i \in J : r \in LineAt(m, i)})

\* The loggers whose turn is over, and so is what was to be written for them.
Over(t) ==
  \/ Main(t).pc \in {"flush", "done", "next"}
  \/ /\ Main(t).pc \in {"stream", "process"} /\ Main(t).logger = None
     /\ Nested(t) => Top(t).pc \in {"flush", "done", "next"}
Served(t) == {j \in DOMAIN Main(t).ids : j < Main(t).i \/ (j = Main(t).i /\ Over(t))}

Counting(t) ==
  stack[t] # <<>> /\ Main(t).pc # "abort" =>
    \A m \in {Main(t).msg}, J \in {Served(t)} : Undisturbed(m) => Counts(m, J)

Counted == \A m \in DOMAIN begun : ~Active(m) /\ Undisturbed(m) => Counts(m, DOMAIN Ids(m))

LinesOfBegun == IsABag(lines) /\ \A r \in DOMAIN lines : r.msg \in DOMAIN begun

\* The note of a fatal message, from its stream to its line.
EndsWithNote(s, m) == s # <<>> /\ Last(s) = Last(Note(m))

Noting(t) ==
  stack[t] # <<>> /\ Nested(t) =>
    \A w \in {Top(t)} :
      /\ w.pc = "initialize" => w.left = Note(w.msg)
      /\ w.pc = "stream" /\ w.proceed =>
           \/ w.left = Note(w.msg)
           \/ w.left = <<>> /\ EndsWithNote(stream[w.logger], w.msg)
      /\ (w.pc = "process" /\ w.proceed) \/ w.pc \in {"dispatch", "handle", "write"} =>
           EndsWithNote(stream[w.logger], w.msg)

FatalWritten(m) == \E r \in DOMAIN lines : r.msg = m /\ r.level = "Fatal"

NoteWritten(m) ==
  <<DefaultId, "Warning">> \in Enabled =>
    \E r \in DOMAIN lines :
      /\ r.msg = m /\ r.logger = DefaultId /\ r.level = "Warning"
      /\ EndsWithNote(r.text, m) /\ (DefaultId \notin leaked => r.text = Note(m))

Announcing(t) ==
  stack[t] # <<>> =>
    \A v \in {Main(t)} :
      /\ v.level = "Fatal" /\ v.pc \in {"flush", "done", "abort"} => FatalWritten(v.msg)
      /\ v.pc = "abort" /\ (Nested(t) => Top(t).pc \in {"flush", "done", "next"}) =>
           NoteWritten(v.msg)

Aborting ==
  aborted => \E t \in Threads : stack[t] # <<>> /\ ~Nested(t) /\ Main(t).pc = "abort"

DeliveryInv ==
  /\ Known /\ Apart /\ Counted /\ LinesOfBegun /\ Aborting
  /\ \A t \in Threads : Identity(t) /\ Texts(t) /\ Counting(t) /\ Noting(t) /\ Announcing(t)

-----------------------------------------------------------------------------
(* What a step does to the stack of its thread.                            *)

LEMMA NotEmpty == \A q : Len(q) = 1 \/ Len(q) = 2 => q # <<>>
OBVIOUS

LEMMA StackShape ==
  ASSUME Stacks, NEW t \in Threads, stack[t] # <<>>
  PROVE  /\ Main(t) \in Writers /\ Top(t) \in Writers
         /\ ~Nested(t) => Top(t) = Main(t) /\ Len(stack[t]) = 1
         /\ Nested(t) => Waits(Main(t)) /\ Inner(Top(t)) /\ Top(t) = stack[t][2]
<1>1. stack[t] \in Seq(Writers) /\ (Len(stack[t]) = 2 => Waits(stack[t][1]) /\ Inner(stack[t][2]))
  BY DEF Stacks
<1>2. Top(t) \in Writers /\ Len(stack[t]) \in 1 .. 2 /\ Top(t) = stack[t][Len(stack[t])]
  BY TopTypes
<1>3. stack[t][1] \in Writers
  BY <1>1, <1>2
<1> QED  BY <1>1, <1>2, <1>3 DEF Main, Nested

LEMMA BecomeShape ==
  ASSUME Stacks, NEW t \in Threads, stack[t] # <<>>, NEW w, Become(t, w)
  PROVE  /\ Others(t) /\ stack'[t] # <<>> /\ Nested(t)' = Nested(t) /\ Top(t)' = w
         /\ Main(t)' = IF Nested(t) THEN Main(t) ELSE w
<1>1. PICK q \in Seq(Writers) : q = stack[t] /\ q # <<>> /\ Len(q) \in 1 .. 2
  BY TopTypes DEF Stacks
<1>2. PICK p : p = Append(Front(q), w)
  OBVIOUS
<1>3. PICK S : S = Writers \cup {w} /\ q \in Seq(S)
  BY <1>1, SeqMonotonic
<1>10. /\ p \in Seq(S) /\ Len(p) = Len(q) /\ p[Len(q)] = w
      /\ \A i \in 1 .. Len(q) - 1 : p[i] = q[i]
  BY <1>1, <1>2, <1>3, StackOperations
<1>4. stack'[t] = p /\ Others(t)
  BY <1>1, <1>2 DEF Become, Stacks, Others
<1>5. p # <<>> /\ Last(p) = w
  BY <1>1, <1>10 DEF Last
<1>6. p[1] = IF Len(q) = 2 THEN q[1] ELSE w
  <2>1. CASE Len(q) = 2
    <3>1. 1 \in 1 .. Len(q) - 1
      BY <2>1
    <3> QED  BY <1>10, <2>1, <3>1
  <2>2. CASE Len(q) = 1
    BY <1>10, <2>2
  <2>3. Len(q) = 1 \/ Len(q) = 2
    BY <1>1
  <2> QED  BY <2>1, <2>2, <2>3
<1> QED  BY <1>1, <1>10, <1>4, <1>5, <1>6 DEF Main, Top, Nested

LEMMA PopShape ==
  ASSUME Stacks, NEW t \in Threads, stack[t] # <<>>, Pop(t)
  PROVE  /\ Others(t)
         /\ Nested(t) => /\ stack'[t] # <<>> /\ ~Nested(t)' /\ Main(t)' = Main(t)
                         /\ Top(t)' = Main(t)
         /\ ~Nested(t) => stack'[t] = <<>>
<1>1. PICK q \in Seq(Writers) : q = stack[t] /\ q # <<>> /\ Len(q) \in 1 .. 2
  BY TopTypes DEF Stacks
<1>2. PICK p : p = Front(q)
  OBVIOUS
<1>3. p \in Seq(Writers) /\ Len(p) = Len(q) - 1 /\ \A i \in 1 .. Len(q) - 1 : p[i] = q[i]
  BY <1>1, <1>2, StackOperations
<1>4. stack'[t] = p /\ Others(t)
  BY <1>1, <1>2 DEF Pop, Stacks, Others
<1>5. CASE Len(q) = 2
  <2>1. Len(p) = 1 /\ p[1] = q[1] /\ p # <<>>
    <3>1. 1 \in 1 .. Len(q) - 1 /\ Len(q) - 1 = 1
      BY <1>5
    <3>2. Len(p) = 1 /\ p[1] = q[1]
      BY <1>3, <3>1
    <3> QED  BY <3>2, NotEmpty
  <2>2. Last(p) = q[1]
    BY <2>1 DEF Last
  <2> QED  BY <1>1, <1>4, <1>5, <2>1, <2>2 DEF Main, Top, Nested
<1>6. CASE Len(q) # 2
  <2>1. Len(p) = 0
    BY <1>1, <1>3, <1>6
  <2>2. p = <<>>
    BY <1>3, <2>1, EmptySeq
  <2> QED  BY <1>1, <1>4, <1>6, <2>2 DEF Nested
<1> QED  BY <1>5, <1>6

LEMMA NestShape ==
  ASSUME Stacks, NEW t \in Threads, stack[t] # <<>>, ~Nested(t),
         NEW v, NEW w, Nest(t, v, w)
  PROVE  /\ Others(t) /\ stack'[t] # <<>> /\ Nested(t)' /\ Main(t)' = v /\ Top(t)' = w
<1>1. PICK q \in Seq(Writers) : q = stack[t] /\ q # <<>> /\ Len(q) = 1
  <2>1. Len(stack[t]) = 1
    BY TopTypes DEF Nested
  <2> QED  BY <2>1 DEF Stacks
<1>2. PICK p : p = Append(Front(q), v)
  OBVIOUS
<1>9. PICK S : S = Writers \cup {v, w} /\ q \in Seq(S)
  BY <1>1, SeqMonotonic
<1>3. p \in Seq(S) /\ Len(p) = 1 /\ p[1] = v
  BY <1>1, <1>2, <1>9, StackOperations
<1>4. PICK r : r = Append(p, w)
  OBVIOUS
<1>5. r \in Seq(S) /\ Len(r) = 2 /\ r[1] = v /\ r[2] = w
  <2>1. r \in Seq(S) /\ Len(r) = Len(p) + 1 /\ r[Len(p) + 1] = w
        /\ \A i \in 1 .. Len(p) : r[i] = p[i]
    <3>1. w \in S /\ p \in Seq(S)
      BY <1>3, <1>9
    <3>2. /\ Append(p, w) \in Seq(S) /\ Len(Append(p, w)) = Len(p) + 1
          /\ Append(p, w)[Len(p) + 1] = w /\ \A i \in 1 .. Len(p) : Append(p, w)[i] = p[i]
      BY <3>1, AppendProperties
    <3> QED  BY <1>4, <3>2
  <2>2. 1 \in 1 .. Len(p) /\ Len(p) + 1 = 2
    BY <1>3
  <2>3. Len(r) = 2 /\ r[2] = w
    BY <2>1, <2>2
  <2>4. r[1] = p[1]
    BY <2>1, <2>2
  <2> QED  BY <1>3, <2>1, <2>3, <2>4
<1>6. stack'[t] = r /\ Others(t)
  BY <1>1, <1>2, <1>4 DEF Nest, Stacks, Others
<1>7. r # <<>>
  BY <1>5, NotEmpty
<1>8. Last(r) = w
  BY <1>5 DEF Last
<1> QED  BY <1>5, <1>6, <1>7, <1>8 DEF Main, Top, Nested

LEMMA BeginShape ==
  ASSUME Stacks, NEW t \in Threads, NEW w, stack' = [stack EXCEPT ![t] = <<w>>]
  PROVE  Others(t) /\ stack'[t] # <<>> /\ ~Nested(t)' /\ Main(t)' = w /\ Top(t)' = w
<1>1. <<w>> # <<>> /\ Len(<<w>>) = 1 /\ <<w>>[1] = w
  OBVIOUS
<1>2. Last(<<w>>) = w
  BY <1>1 DEF Last
<1>3. stack'[t] = <<w>> /\ Others(t)
  BY DEF Stacks, Others
<1> QED  BY <1>1, <1>2, <1>3 DEF Main, Top, Nested

\* The stacks of the other threads.
LEMMA OthersShape ==
  ASSUME NEW t \in Threads, Others(t), NEW u \in Threads \ {t}
  PROVE  /\ stack'[u] = stack[u] /\ Main(u)' = Main(u) /\ Top(u)' = Top(u)
         /\ Nested(u)' = Nested(u)
<1>1. stack'[u] = stack[u]
  BY DEF Others
<1> QED  BY <1>1 DEF Main, Top, Nested

-----------------------------------------------------------------------------
(* What each action does to the Writer at work.                            *)

\* v is the Writer w at a later stage, for the same logger.
Kin(v, w) == v.msg = w.msg /\ v.ids = w.ids /\ v.level = w.level
Stays(v, w) == Kin(v, w) /\ v.i = w.i /\ v.first = w.first /\ v.copy = w.copy

LEMMA FormatDoes ==
  ASSUME LocksInv, NEW t \in Threads, Format(t), NEW w, w = Top(t)
  PROVE  \/ \E v :
              /\ Become(t, v) /\ Stays(v, w) /\ v.pc = "format" /\ v.logger = w.logger
              /\ w.left # <<>> /\ v.left = Tail(w.left)
              /\ stream' = [stream EXCEPT ![w.logger] = Append(@, Head(w.left))]
              /\ UNCHANGED leaked
         \/ \E v :
              /\ Become(t, v) /\ Stays(v, w) /\ v.pc = "process" /\ v.logger = w.logger
              /\ w.left = <<>> /\ v.proceed = (<<w.logger, w.level>> \in Enabled)
              /\ UNCHANGED <<stream, leaked>>
         \/ /\ Pop(t) /\ leaked' = leaked \cup {w.logger} /\ UNCHANGED stream
<1>1. w \in WriterRecord
  BY AtWork DEF Format
<1>2. ASSUME w.left # <<>>, Become(t, [w EXCEPT !.left = Tail(@)])
      PROVE  \E v : /\ Become(t, v) /\ Stays(v, w) /\ v.pc = w.pc /\ v.logger = w.logger
                    /\ v.left = Tail(w.left)
  <2>1. PICK v : v = [w EXCEPT !.left = Tail(@)]
    OBVIOUS
  <2>2. /\ Stays(v, w) /\ v.pc = w.pc /\ v.logger = w.logger /\ v.left = Tail(w.left)
    BY <1>1, <2>1 DEF Stays, Kin, WriterRecord
  <2>3. Become(t, v)
    BY <1>2, <2>1
  <2> QED  BY <2>2, <2>3
<1>3. ASSUME Become(t, [w EXCEPT !.pc = "process", !.proceed = <<w.logger, w.level>> \in Enabled])
      PROVE  \E v : /\ Become(t, v) /\ Stays(v, w) /\ v.pc = "process" /\ v.logger = w.logger
                    /\ v.proceed = (<<w.logger, w.level>> \in Enabled)
  <2>1. PICK b \in BOOLEAN : b = (<<w.logger, w.level>> \in Enabled)
    BY Condition, Zenon
  <2>2. PICK v : v = [w EXCEPT !.pc = "process", !.proceed = b]
    OBVIOUS
  <2>3. Stays(v, w) /\ v.pc = "process" /\ v.logger = w.logger /\ v.proceed = b
    BY <1>1, <2>2 DEF Stays, Kin, WriterRecord
  <2>4. Become(t, v)
    BY <1>3, <2>1, <2>2, Zenon
  <2> QED  BY <2>1, <2>3, <2>4, Zenon
<1>4. w.pc = "format"
  BY DEF Format, At
<1>5. \/ /\ w.left # <<>>
         /\ stream' = [stream EXCEPT ![w.logger] = Append(@, Head(w.left))]
         /\ Become(t, [w EXCEPT !.left = Tail(@)])
         /\ UNCHANGED leaked
      \/ /\ w.left = <<>>
         /\ Become(t, [w EXCEPT !.pc = "process", !.proceed = <<w.logger, w.level>> \in Enabled])
         /\ UNCHANGED <<stream, leaked>>
      \/ Pop(t) /\ leaked' = leaked \cup {w.logger} /\ UNCHANGED stream
  BY Zenon DEF Format
<1> QED  BY <1>2, <1>3, <1>4, <1>5, Zenon

LEMMA InitializeLoggerDoes ==
  ASSUME LocksInv, NEW t \in Threads, InitializeLogger(t), NEW w, w = Top(t)
  PROVE  /\ Found(w) /\ CanLock(t, Here(w)) /\ registered' = registered \cup {Here(w)}
         /\ UNCHANGED <<stream, leaked>>
         /\ \E v :
              /\ Become(t, v) /\ Stays(v, w) /\ v.pc = AfterInitialize(w)
              /\ v.logger = Here(w) /\ v.left = w.left
              /\ v.proceed = (<<Here(w), w.level>> \in Enabled)
<1>1. w \in WriterRecord
  BY AtWork DEF InitializeLogger
<1>2. PICK b \in BOOLEAN : b = (<<Here(w), w.level>> \in Enabled)
  BY Condition, Zenon
<1>3. PICK p : p = AfterInitialize(w)
  OBVIOUS
<1>4. PICK v : v = [w EXCEPT !.pc = p, !.logger = Here(w), !.proceed = b]
  OBVIOUS
<1>5. Stays(v, w) /\ v.pc = p /\ v.logger = Here(w) /\ v.left = w.left /\ v.proceed = b
  BY <1>1, <1>4 DEF Stays, Kin, WriterRecord
<1>6. Become(t, v)
  BY <1>2, <1>3, <1>4, Zenon DEF InitializeLogger, Here
<1>7. /\ Found(w) /\ CanLock(t, Here(w)) /\ registered' = registered \cup {Here(w)}
      /\ UNCHANGED <<stream, leaked>>
  BY DEF InitializeLogger, Here, history
<1> QED  BY <1>2, <1>3, <1>5, <1>6, <1>7, Zenon

LEMMA InitializeNullDoes ==
  ASSUME LocksInv, NEW t \in Threads, InitializeNull(t), NEW w, w = Top(t)
  PROVE  /\ ~Found(w) /\ UNCHANGED <<registered, stream, leaked>>
         /\ \E v :
              /\ Nest(t, v, Writer(w.msg, "Debug", <<DefaultId>>, Note(w.msg)))
              /\ Stays(v, w) /\ v.pc = AfterInitialize(w) /\ v.logger = None /\ ~v.proceed
<1>1. w \in WriterRecord
  BY AtWork DEF InitializeNull
<1>2. PICK p : p = AfterInitialize(w)
  OBVIOUS
<1>3. PICK v : v = [w EXCEPT !.pc = p, !.logger = None, !.proceed = FALSE]
  OBVIOUS
<1>4. Stays(v, w) /\ v.pc = p /\ v.logger = None /\ ~v.proceed
  BY <1>1, <1>3 DEF Stays, Kin, WriterRecord
<1>5. Nest(t, v, Writer(w.msg, "Debug", <<DefaultId>>, Note(w.msg)))
  BY <1>2, <1>3, Zenon DEF InitializeNull
<1>6. ~Found(w) /\ UNCHANGED <<registered, stream, leaked>>
  BY DEF InitializeNull, history
<1> QED  BY <1>2, <1>4, <1>5, <1>6, Zenon

LEMMA StreamDoes ==
  ASSUME LocksInv, NEW t \in Threads, Stream(t), NEW w, w = Top(t)
  PROVE  /\ UNCHANGED leaked
         /\ \E v :
              /\ Become(t, v) /\ Stays(v, w) /\ v.logger = w.logger /\ v.proceed = w.proceed
              /\ \/ /\ v.pc = "stream" /\ w.proceed /\ w.left # <<>> /\ v.left = Tail(w.left)
                    /\ stream' = [stream EXCEPT ![w.logger] = Append(@, Head(w.left))]
                 \/ /\ v.pc = "process" /\ (~w.proceed \/ w.left = <<>>)
                    /\ UNCHANGED stream
<1>1. w \in WriterRecord /\ w.pc = "stream"
  BY AtWork DEF Stream
<1>2. UNCHANGED leaked
  BY DEF Stream, history
<1>3. ASSUME w.proceed, w.left # <<>>, Become(t, [w EXCEPT !.left = Tail(@)]),
             stream' = [stream EXCEPT ![w.logger] = Append(@, Head(w.left))]
      PROVE  \E v :
              /\ Become(t, v) /\ Stays(v, w) /\ v.logger = w.logger /\ v.proceed = w.proceed
              /\ v.pc = "stream" /\ v.left = Tail(w.left)
  <2>1. PICK v : v = [w EXCEPT !.left = Tail(@)]
    OBVIOUS
  <2>2. /\ Stays(v, w) /\ v.pc = "stream" /\ v.logger = w.logger /\ v.left = Tail(w.left)
        /\ v.proceed = w.proceed
    BY <1>1, <2>1 DEF Stays, Kin, WriterRecord
  <2>3. Become(t, v)
    BY <1>3, <2>1
  <2> QED  BY <2>2, <2>3
<1>4. ASSUME Become(t, [w EXCEPT !.pc = "process"])
      PROVE  \E v :
              /\ Become(t, v) /\ Stays(v, w) /\ v.logger = w.logger /\ v.proceed = w.proceed
              /\ v.pc = "process"
  <2>1. PICK v : v = [w EXCEPT !.pc = "process"]
    OBVIOUS
  <2>2. /\ Stays(v, w) /\ v.pc = "process" /\ v.logger = w.logger /\ v.proceed = w.proceed
    BY <1>1, <2>1 DEF Stays, Kin, WriterRecord
  <2>3. Become(t, v)
    BY <1>4, <2>1
  <2> QED  BY <2>2, <2>3
<1>5. \/ /\ w.proceed /\ w.left # <<>> /\ Become(t, [w EXCEPT !.left = Tail(@)])
         /\ stream' = [stream EXCEPT ![w.logger] = Append(@, Head(w.left))]
      \/ /\ ~w.proceed \/ w.left = <<>>
         /\ Become(t, [w EXCEPT !.pc = "process"])
         /\ UNCHANGED stream
  BY Zenon DEF Stream
<1> QED  BY <1>2, <1>3, <1>4, <1>5, Zenon

\* The text a Writer sends to the dispatch, and its copy of it.
Sent(w) == IF w.first THEN stream[w.logger] \o w.copy ELSE stream[w.logger]
Copied(w, text) == IF w.first THEN w.copy ELSE text

LEMMA ProcessDispatchDoes ==
  ASSUME LocksInv, NEW t \in Threads, ProcessDispatch(t), NEW w, w = Top(t),
         NEW text, text = Sent(w)
  PROVE  /\ UNCHANGED leaked
         /\ \/ \E v :
                 /\ Become(t, v) /\ Kin(v, w) /\ v.i = w.i /\ v.pc = "dispatch"
                 /\ v.logger = w.logger /\ v.first /\ v.copy = Copied(w, text)
                 /\ w.proceed /\ stream' = [stream EXCEPT ![w.logger] = text]
            \/ \E v :
                 /\ Become(t, v) /\ Stays(v, w) /\ v.pc = "next" /\ ~w.proceed
                 /\ IF w.logger = None THEN UNCHANGED stream
                    ELSE stream' = [stream EXCEPT ![w.logger] = <<>>]
<1>1. w \in WriterRecord
  BY AtWork DEF ProcessDispatch
<1>2. UNCHANGED leaked
  BY DEF ProcessDispatch, history
<1>3. ASSUME Become(t, [w EXCEPT !.pc = "dispatch", !.first = TRUE,
                                 !.copy = IF w.first THEN @ ELSE text])
      PROVE  \E v :
                 /\ Become(t, v) /\ Kin(v, w) /\ v.i = w.i /\ v.pc = "dispatch"
                 /\ v.logger = w.logger /\ v.first /\ v.copy = Copied(w, text)
  <2>1. PICK copy : copy = IF w.first THEN w.copy ELSE text
    OBVIOUS
  <2>2. PICK v : v = [w EXCEPT !.pc = "dispatch", !.first = TRUE, !.copy = copy]
    OBVIOUS
  <2>3. /\ Kin(v, w) /\ v.i = w.i /\ v.pc = "dispatch" /\ v.logger = w.logger /\ v.first
        /\ v.copy = copy
    BY <1>1, <2>2 DEF Kin, WriterRecord
  <2>4. Become(t, v)
    BY <1>3, <2>1, <2>2
  <2> QED  BY <2>1, <2>3, <2>4 DEF Copied
<1>4. ASSUME Become(t, [w EXCEPT !.pc = "next"])
      PROVE  \E v : Become(t, v) /\ Stays(v, w) /\ v.pc = "next"
  <2>1. PICK v : v = [w EXCEPT !.pc = "next"]
    OBVIOUS
  <2>2. Stays(v, w) /\ v.pc = "next"
    BY <1>1, <2>1 DEF Stays, Kin, WriterRecord
  <2>3. Become(t, v)
    BY <1>4, <2>1
  <2> QED  BY <2>2, <2>3
<1>5. \/ /\ w.proceed /\ stream' = [stream EXCEPT ![w.logger] = text]
         /\ Become(t, [w EXCEPT !.pc = "dispatch", !.first = TRUE,
                                !.copy = IF w.first THEN @ ELSE text])
      \/ /\ ~w.proceed /\ Become(t, [w EXCEPT !.pc = "next"])
         /\ IF w.logger = None THEN UNCHANGED stream
            ELSE stream' = [stream EXCEPT ![w.logger] = <<>>]
  BY DEF ProcessDispatch, Sent
<1> QED  BY <1>2, <1>3, <1>4, <1>5, Zenon

\* From one stage of the dispatch to the next: Dispatch, Handle, Write and Flush.
LEMMA DispatchingDoes ==
  ASSUME LocksInv, NEW t \in Threads, NEW w, w = Top(t),
         Dispatch(t) \/ Handle(t) \/ Write(t) \/ Flush(t)
  PROVE  /\ UNCHANGED <<stream, leaked, registered, begun>>
         /\ \E v :
              /\ Become(t, v) /\ Stays(v, w) /\ v.logger = w.logger
              /\ \/ w.pc = "dispatch" /\ v.pc = "handle"
                 \/ w.pc = "handle" /\ v.pc = "write"
                 \/ w.pc = "write" /\ v.pc \in {"flush", "done"}
                 \/ w.pc = "flush" /\ v.pc = "done"
<1>1. w \in WriterRecord
  BY AtWork DEF Dispatch, Handle, Write, Flush
<1>2. UNCHANGED <<stream, leaked, registered, begun>>
  BY DEF Dispatch, Handle, Write, Flush, history
<1>3. ASSUME NEW p, Become(t, [w EXCEPT !.pc = p])
      PROVE  \E v : Become(t, v) /\ Stays(v, w) /\ v.logger = w.logger /\ v.pc = p
  <2>1. PICK v : v = [w EXCEPT !.pc = p]
    OBVIOUS
  <2>2. Stays(v, w) /\ v.logger = w.logger /\ v.pc = p
    BY <1>1, <2>1 DEF Stays, Kin, WriterRecord
  <2>3. Become(t, v)
    BY <1>3, <2>1
  <2> QED  BY <2>2, <2>3
<1>4. CASE Dispatch(t)
  <2>1. w.pc = "dispatch" /\ Become(t, [w EXCEPT !.pc = "handle"])
    BY <1>4 DEF Dispatch, At
  <2> QED  BY <1>2, <1>3, <2>1, Zenon
<1>5. CASE Handle(t)
  <2>1. w.pc = "handle" /\ Become(t, [w EXCEPT !.pc = "write"])
    BY <1>5 DEF Handle, At
  <2> QED  BY <1>2, <1>3, <2>1, Zenon
<1>6. CASE Write(t)
  <2>1. PICK q \in {"flush", "done"} :
          q = IF "ImmediateFlush" \in Flags
                   \/ unflushed[m_data.logger][m_data.level] + 1 >= Threshold[m_data.logger]
                THEN "flush" ELSE "done"
    OBVIOUS
  <2>2. w.pc = "write" /\ Become(t, [w EXCEPT !.pc = q])
    BY <1>6, <2>1 DEF Write, At
  <2> QED  BY <1>2, <1>3, <2>1, <2>2, Zenon
<1>7. CASE Flush(t)
  <2>1. w.pc = "flush" /\ Become(t, [w EXCEPT !.pc = "done"])
    BY <1>7 DEF Flush, At
  <2> QED  BY <1>2, <1>3, <2>1, Zenon
<1> QED  BY <1>4, <1>5, <1>6, <1>7

LEMMA FinishDoes ==
  ASSUME LocksInv, NEW t \in Threads, Finish(t), NEW w, w = Top(t)
  PROVE  /\ UNCHANGED leaked /\ stream' = [stream EXCEPT ![w.logger] = <<>>]
         /\ \/ \E v : Become(t, v) /\ Stays(v, w) /\ v.pc = "next"
            \/ /\ w.level = "Fatal"
               /\ \E v :
                    /\ Nest(t, v, Writer(w.msg, "Warning", <<DefaultId>>, Note(w.msg)))
                    /\ Stays(v, w) /\ v.pc = "abort"
<1>1. w \in WriterRecord
  BY AtWork DEF Finish
<1>2. ASSUME NEW p
      PROVE  \E v : v = [w EXCEPT !.proceed = FALSE, !.pc = p] /\ Stays(v, w) /\ v.pc = p
  <2>1. PICK v : v = [w EXCEPT !.proceed = FALSE, !.pc = p]
    OBVIOUS
  <2>2. Stays(v, w) /\ v.pc = p
    BY <1>1, <2>1 DEF Stays, Kin, WriterRecord
  <2> QED  BY <2>1, <2>2
<1>3. UNCHANGED leaked /\ stream' = [stream EXCEPT ![w.logger] = <<>>]
  BY DEF Finish, history
<1>4. CASE w.level = "Fatal" /\ "DisableApplicationAbortOnFatalLog" \notin Flags
  <2>1. Nest(t, [w EXCEPT !.proceed = FALSE, !.pc = "abort"],
             Writer(w.msg, "Warning", <<DefaultId>>, Note(w.msg)))
    BY <1>4 DEF Finish
  <2> QED  BY <1>2, <1>3, <1>4, <2>1, Zenon
<1>5. CASE ~(w.level = "Fatal" /\ "DisableApplicationAbortOnFatalLog" \notin Flags)
  <2>1. Become(t, [w EXCEPT !.proceed = FALSE, !.pc = "next"])
    BY <1>5 DEF Finish
  <2> QED  BY <1>2, <1>3, <2>1, Zenon
<1> QED  BY <1>4, <1>5

LEMMA NextLoggerDoes ==
  ASSUME LocksInv, NEW t \in Threads, NextLogger(t), NEW w, w = Top(t)
  PROVE  /\ UNCHANGED <<stream, leaked>>
         /\ \/ \E v :
                 /\ w.i < Len(w.ids) /\ Become(t, v) /\ Kin(v, w) /\ v.i = w.i + 1
                 /\ v.first = w.first /\ v.copy = w.copy /\ v.pc = "initialize"
            \/ ~(w.i < Len(w.ids)) /\ Pop(t)
<1>1. w \in WriterRecord
  BY AtWork DEF NextLogger
<1>2. UNCHANGED <<stream, leaked>>
  BY DEF NextLogger, history
<1>3. CASE w.i < Len(w.ids)
  <2>1. PICK j : j = w.i + 1
    OBVIOUS
  <2>2. PICK v : v = [w EXCEPT !.i = j, !.pc = "initialize"]
    OBVIOUS
  <2>3. /\ Kin(v, w) /\ v.i = j /\ v.first = w.first /\ v.copy = w.copy /\ v.pc = "initialize"
    BY <1>1, <2>2 DEF Kin, WriterRecord
  <2>4. Become(t, v)
    BY <1>3, <2>1, <2>2 DEF NextLogger
  <2> QED  BY <1>2, <1>3, <2>1, <2>3, <2>4
<1>4. CASE ~(w.i < Len(w.ids))
  BY <1>2, <1>4 DEF NextLogger
<1> QED  BY <1>3, <1>4

-----------------------------------------------------------------------------
(* The text of a Writer.                                                   *)

LEMMA FoundExists == ASSUME Known, NEW w  PROVE Found(w) <=> Exists(Here(w))
BY DEF Known, Found, Exists, Here

\* A part goes from what is left to the stream.
LEMMA PartMoves ==
  ASSUME NEW s \in Seq(Piece), NEW r \in Seq(Piece), r # <<>>
  PROVE  Append(s, Head(r)) \o Tail(r) = s \o r
<1>1. PICK x \in Piece, q \in Seq(Piece) : x = Head(r) /\ q = Tail(r)
  BY HeadTailProperties
<1>2. x = r[1]
  BY <1>1
<1>3. r = <<x>> \o q
  <2>1. PICK n \in Nat \ {0} : n = Len(r)
    BY EmptySeq
  <2>2. 1 \in 1 .. n /\ n \in 1 .. n /\ 1 + 1 = 2
    OBVIOUS
  <2>3. SubSeq(r, 1, n) = <<r[1]>> \o SubSeq(r, 2, n)
    BY <2>1, <2>2, SubSeqRecursiveFirst
  <2>4. SubSeq(r, 1, n) = r /\ SubSeq(r, 2, n) = q
    BY <1>1, <2>1, SubSeqFull, TailIsSubSeq
  <2> QED  BY <1>2, <2>3, <2>4
<1>4. <<x>> \in Seq(Piece) /\ Append(s, x) = s \o <<x>>
  BY AppendIsConcat
<1>5. (s \o <<x>>) \o q = s \o (<<x>> \o q)
  BY <1>4, ConcatAssociative
<1> QED  BY <1>1, <1>3, <1>4, <1>5

\* A Writer that waits is at no stream.
LEMMA WaitingText ==
  ASSUME NEW w, NEW full, Waits(w), WriterOK(w, full), leaked \subseteq leaked',
         w.logger = None => w.logger \notin Loggers, w.ids[w.i] \in Loggers
  PROVE  WriterOK(w, full)'
<1>1. Clean(w)' => Clean(w)
  BY DEF Clean
<1>2. w.pc = "abort" \/ (w.pc \in {"stream", "process"} /\ ~w.proceed)
  BY DEF Waits, WriterOK, Stationed, Here, Takes
<1>3. Stationed(w)'
  BY DEF WriterOK, Stationed
<1>4. Content(w, full) => Content(w, full)'
  BY <1>2 DEF Content, Sending
<1> QED  BY <1>1, <1>3, <1>4 DEF WriterOK

\* A Writer keeps its text while its logger's stream stays.
LEMMA TextStays ==
  ASSUME NEW w, NEW full, WriterOK(w, full), leaked \subseteq leaked',
         Waits(w) \/ w.pc \notin Locking \/ stream'[w.logger] = stream[w.logger],
         w.logger = None => w.logger \notin Loggers, w.ids[w.i] \in Loggers
  PROVE  WriterOK(w, full)'
<1>1. CASE Waits(w)
  BY <1>1, WaitingText
<1>2. CASE w.pc \notin Locking \/ stream'[w.logger] = stream[w.logger]
  <2>1. Clean(w)' => Clean(w)
    BY DEF Clean
  <2>2. Stationed(w)'
    BY DEF WriterOK, Stationed
  <2>3. Content(w, full) => Content(w, full)'
    BY <1>2 DEF Content, Locking
  <2> QED  BY <2>1, <2>2, <2>3 DEF WriterOK
<1> QED  BY <1>1, <1>2

\* A Writer that begins has the whole text left.
LEMMA TextOfNew ==
  ASSUME NEW m, NEW level, NEW ids, NEW full, NEW w, w = Writer(m, level, ids, full)
  PROVE  WriterOK(w, full)'
<1>1. /\ w.pc = "initialize" /\ w.i = 1 /\ w.left = full /\ ~w.first
  BY DEF Writer
<1>2. ~Started(w)
  BY <1>1 DEF Started, Sending
<1>3. Stationed(w)'
  BY <1>1 DEF Stationed, Sending
<1>4. Content(w, full)'
  BY <1>1, <1>2 DEF Content
<1> QED  BY <1>3, <1>4 DEF WriterOK

-----------------------------------------------------------------------------
(* Each action leaves the Writer at work with its text.                    *)

LEMMA HereTypes ==
  ASSUME NEW w \in Writers
  PROVE  /\ w.i \in Nat \ {0} /\ w.i \in DOMAIN w.ids /\ 1 \in DOMAIN w.ids
         /\ Here(w) \in Loggers /\ None \notin Loggers /\ w.left \in Seq(Piece)
         /\ w.copy \in Seq(Piece) /\ w.ids \in Seq(Loggers)
<1>1. /\ w.i \in Nat \ {0} /\ w.ids \in Seq(Loggers) /\ w.i <= Len(w.ids)
      /\ w.left \in Seq(Piece) /\ w.copy \in Seq(Piece)
  BY DEF Writers, WriterRecord
<1>2. w.i \in 1 .. Len(w.ids) /\ 1 \in 1 .. Len(w.ids)
  BY <1>1
<1>3. DOMAIN w.ids = 1 .. Len(w.ids)
  BY <1>1, LenProperties
<1>4. Here(w) \in Loggers
  BY <1>1, <1>2, ElementOfSeq DEF Here
<1> QED  BY <1>1, <1>2, <1>3, <1>4, LogDispatchAssumption

LEMMA FormatText ==
  ASSUME LocksInv, Known, NEW t \in Threads, Format(t),
         NEW full \in Seq(Piece), WriterOK(Top(t), full)
  PROVE  Pop(t) \/ \E v : Become(t, v) /\ WriterOK(v, full)'
<1>1. PICK w \in Writers : w = Top(t) /\ w.pc = "format"
  BY AtWork DEF Format
<1>2. /\ w.logger = Here(w) /\ Exists(w.logger) /\ w.i = 1 /\ ~Started(w) /\ ~w.first
      /\ Clean(w) => stream[w.logger] \o w.left = full
  <2>1. Stationed(w) /\ (Clean(w) => Content(w, full))
    BY <1>1 DEF WriterOK
  <2>2. w.logger = Here(w) /\ Exists(w.logger) /\ w.i = 1
    BY <1>1, <2>1 DEF Stationed, Sending
  <2>3. ~Started(w)
    BY <1>1, <2>2 DEF Started, Sending
  <2>4. ~w.first
    BY <2>1, <2>3 DEF Stationed
  <2>5. Clean(w) => stream[w.logger] \o w.left = full
    BY <1>1, <2>1 DEF Content
  <2> QED  BY <2>2, <2>3, <2>4, <2>5
<1>3. PICK l \in Loggers : l = w.logger
  BY <1>2, HereTypes
<1>4. stream \in [Loggers -> Seq(Piece)] /\ stream[l] \in Seq(Piece) /\ w.left \in Seq(Piece)
  BY LockTypes, HereTypes
<1>5. ASSUME NEW v, Become(t, v), Stays(v, w), v.pc = "format", v.logger = w.logger,
             w.left # <<>>, v.left = Tail(w.left), UNCHANGED leaked,
             stream' = [stream EXCEPT ![w.logger] = Append(@, Head(w.left))]
      PROVE  WriterOK(v, full)'
  <2>1. stream'[l] = Append(stream[l], Head(w.left))
    BY <1>3, <1>4, <1>5
  <2>2. stream'[l] \o v.left = stream[l] \o w.left
    BY <1>4, <1>5, <2>1, PartMoves
  <2>3. Clean(v)' = Clean(w)
    BY <1>5 DEF Stays, Kin, Clean
  <2>4. Stationed(v)'
    BY <1>2, <1>5 DEF Stays, Kin, Stationed, Sending, Here
  <2>5. Clean(w) => Content(v, full)'
    <3>1. ~Started(v)
      BY <1>2, <1>5 DEF Stays, Kin, Started, Sending
    <3> QED  BY <1>2, <1>3, <1>5, <2>2, <3>1 DEF Content, Sending
  <2> QED  BY <2>3, <2>4, <2>5 DEF WriterOK
<1>6. ASSUME NEW v, Become(t, v), Stays(v, w), v.pc = "process", v.logger = w.logger,
             w.left = <<>>, v.proceed = (<<w.logger, w.level>> \in Enabled),
             UNCHANGED <<stream, leaked>>
      PROVE  WriterOK(v, full)'
  <2>1. stream[l] \o w.left = stream[l]
    BY <1>4, <1>6, ConcatEmptySeq
  <2>2. Clean(v)' = Clean(w)
    BY <1>6 DEF Stays, Kin, Clean
  <2>3. Here(v) = l /\ v.i = 1 /\ ~v.first /\ v.level = w.level /\ v.logger = l
    BY <1>2, <1>3, <1>6 DEF Stays, Kin, Here
  <2>4. v.proceed <=> Takes(l, v.level)
    BY <1>2, <1>3, <1>6, <2>3, Zenon DEF Takes
  <2>5. Stationed(v)'
    BY <1>2, <1>3, <1>6, <2>3, <2>4 DEF Stationed, Sending
  <2>6. Clean(w) => Content(v, full)'
    <3>1. ~Started(v)
      BY <1>6, <2>3 DEF Started, Sending
    <3> QED  BY <1>2, <1>3, <1>6, <2>1, <2>3, <3>1 DEF Content, Sending
  <2> QED  BY <2>2, <2>5, <2>6 DEF WriterOK
<1> QED  BY <1>1, <1>5, <1>6, FormatDoes

LEMMA InitializeLoggerText ==
  ASSUME LocksInv, Known, NEW t \in Threads, InitializeLogger(t),
         NEW full \in Seq(Piece), WriterOK(Top(t), full)
  PROVE  \E v : Become(t, v) /\ WriterOK(v, full)'
<1>1. PICK w \in Writers : w = Top(t) /\ w.pc = "initialize" /\ Holds(t) = None
  BY AtWork DEF InitializeLogger, Locking
<1>2. PICK v :
        /\ Become(t, v) /\ Stays(v, w) /\ v.pc = AfterInitialize(w)
        /\ v.logger = Here(w) /\ v.left = w.left
        /\ v.proceed = (<<Here(w), w.level>> \in Enabled)
  BY <1>1, InitializeLoggerDoes
<1>3. Found(w) /\ CanLock(t, Here(w)) /\ UNCHANGED <<stream, leaked>>
  BY <1>1, InitializeLoggerDoes
<1>4. PICK l \in Loggers : l = Here(w) /\ Exists(l) /\ None \notin Loggers /\ w.i \in DOMAIN w.ids
  BY <1>3, HereTypes, FoundExists
<1>5. Here(v) = l /\ v.i = w.i /\ v.first = w.first /\ v.level = w.level /\ v.logger = l
  BY <1>2, <1>4 DEF Stays, Kin, Here
<1>6. v.proceed <=> Takes(l, v.level)
  BY <1>2, <1>4, <1>5, Zenon DEF Takes
<1>7. w.i \in Nat \ {0} /\ v.pc = (IF w.i = 1 THEN "stream" ELSE "process")
  BY <1>2, HereTypes DEF AfterInitialize
<1>8. Started(v) <=> Started(w)
  BY <1>1, <1>5, <1>7 DEF Started, Sending
<1>9. Stationed(v)'
  <2>1. ~Started(w) => ~w.first
    BY <1>1 DEF WriterOK, Stationed
  <2> QED  BY <1>4, <1>5, <1>6, <1>7, <1>8, <2>1 DEF Stationed, Sending
<1>10. Clean(v)' = Clean(w)
  BY <1>2, <1>3 DEF Stays, Kin, Clean
<1>11. ASSUME Clean(w)  PROVE Content(v, full)'
  <2>1. l \notin leaked
    BY <1>4, <1>11 DEF Clean, Here
  <2>2. stream[l] = <<>>
    BY <1>1, <1>3, <1>4, <2>1, LockTypes DEF CanLock, LoggerLock
  <2>3. Content(w, full)
    BY <1>1, <1>11 DEF WriterOK
  <2>4. w.i = 1 => stream[l] \o v.left = full
    <3>1. w.i = 1 => v.left = full
      BY <1>1, <1>2, <2>3 DEF Content
    <3> QED  BY <2>2, <3>1, ConcatEmptySeq
  <2>5. LineText(v, full) = LineText(w, full) /\ v.copy = w.copy
    BY <1>2 DEF Stays, Kin, LineText
  <2> QED  BY <1>3, <1>5, <1>7, <1>8, <2>2, <2>3, <2>4, <2>5 DEF Content, Sending
<1> QED  BY <1>2, <1>9, <1>10, <1>11 DEF WriterOK

LEMMA InitializeNullText ==
  ASSUME LocksInv, Known, NEW t \in Threads, InitializeNull(t),
         NEW full \in Seq(Piece), WriterOK(Top(t), full), NEW w, w = Top(t)
  PROVE  \E v : /\ Nest(t, v, Writer(w.msg, "Debug", <<DefaultId>>, Note(w.msg)))
                /\ Stays(v, w) /\ WriterOK(v, full)' /\ v.pc = AfterInitialize(w)
                /\ v.logger = None /\ ~v.proceed
<1>1. w \in Writers /\ w.pc = "initialize"
  BY AtWork DEF InitializeNull
<1>2. PICK v :
        /\ Nest(t, v, Writer(w.msg, "Debug", <<DefaultId>>, Note(w.msg)))
        /\ Stays(v, w) /\ v.pc = AfterInitialize(w) /\ v.logger = None /\ ~v.proceed
  BY InitializeNullDoes
<1>3. ~Found(w) /\ UNCHANGED <<stream, leaked>> /\ ~Exists(Here(w))
  BY InitializeNullDoes, FoundExists
<1>4. Here(v) = Here(w) /\ v.i = w.i /\ v.first = w.first /\ v.level = w.level
  BY <1>2 DEF Stays, Kin, Here
<1>5. w.i \in Nat \ {0} /\ v.pc = (IF w.i = 1 THEN "stream" ELSE "process")
  BY <1>1, <1>2, HereTypes DEF AfterInitialize
<1>6. Started(v) <=> Started(w)
  BY <1>1, <1>4, <1>5 DEF Started, Sending
<1>7. Stationed(v)'
  <2>1. ~Started(w) => ~w.first
    BY DEF WriterOK, Stationed
  <2> QED  BY <1>2, <1>3, <1>4, <1>5, <1>6, <2>1 DEF Stationed, Sending, Takes
<1>8. Clean(v)' = Clean(w)
  BY <1>2, <1>3 DEF Stays, Kin, Clean
<1>9. ASSUME Clean(w)  PROVE Content(v, full)'
  <2>1. Content(w, full)
    BY <1>9 DEF WriterOK
  <2>2. LineText(v, full) = LineText(w, full) /\ v.copy = w.copy
    BY <1>2 DEF Stays, Kin, LineText
  <2> QED  BY <1>2, <1>4, <1>5, <1>6, <2>1, <2>2 DEF Content, Sending
<1> QED  BY <1>2, <1>7, <1>8, <1>9 DEF WriterOK

LEMMA StreamText ==
  ASSUME LocksInv, Known, NEW t \in Threads, Stream(t),
         NEW full \in Seq(Piece), WriterOK(Top(t), full)
  PROVE  \E v : Become(t, v) /\ WriterOK(v, full)'
<1>1. PICK w \in Writers : w = Top(t) /\ w.pc = "stream"
  BY AtWork DEF Stream
<1>2. UNCHANGED leaked
  BY StreamDoes
<1>3. PICK v :
        /\ Become(t, v) /\ Stays(v, w) /\ v.logger = w.logger /\ v.proceed = w.proceed
        /\ \/ /\ v.pc = "stream" /\ w.proceed /\ w.left # <<>> /\ v.left = Tail(w.left)
              /\ stream' = [stream EXCEPT ![w.logger] = Append(@, Head(w.left))]
           \/ /\ v.pc = "process" /\ (~w.proceed \/ w.left = <<>>)
              /\ UNCHANGED stream
  BY <1>1, StreamDoes
<1>4. /\ w.i = 1 /\ ~Started(w) /\ ~w.first
      /\ w.logger = IF Exists(Here(w)) THEN Here(w) ELSE None
      /\ w.proceed <=> Takes(Here(w), w.level)
      /\ Clean(w) /\ w.proceed => stream[w.logger] \o w.left = full
  <2>1. Stationed(w) /\ (Clean(w) => Content(w, full))
    BY <1>1 DEF WriterOK
  <2>2. /\ w.i = 1 /\ w.logger = IF Exists(Here(w)) THEN Here(w) ELSE None
        /\ w.proceed <=> Takes(Here(w), w.level)
    BY <1>1, <2>1 DEF Stationed
  <2>3. ~Started(w)
    BY <1>1, <2>2 DEF Started, Sending
  <2>4. ~w.first
    BY <2>1, <2>3 DEF Stationed
  <2>5. Clean(w) /\ w.proceed => stream[w.logger] \o w.left = full
    BY <1>1, <2>1 DEF Content
  <2> QED  BY <2>2, <2>3, <2>4, <2>5
<1>5. Here(v) = Here(w) /\ v.i = 1 /\ ~v.first /\ v.level = w.level /\ ~Started(v)
  <2>1. Here(v) = Here(w) /\ v.i = 1 /\ v.first = w.first /\ v.level = w.level
    BY <1>3, <1>4 DEF Stays, Kin, Here
  <2> QED  BY <1>3, <1>4, <2>1 DEF Started, Sending
<1>6. v.proceed <=> Takes(Here(v), v.level)
  BY <1>3, <1>4, <1>5
<1>7. Stationed(v)'
  BY <1>3, <1>4, <1>5, <1>6 DEF Stationed, Sending
<1>8. Clean(v)' = Clean(w)
  BY <1>2, <1>3 DEF Stays, Kin, Clean
<1>9. ASSUME Clean(w)  PROVE Content(v, full)'
  <2>1. CASE ~w.proceed
    BY <1>3, <1>5, <2>1 DEF Content, Sending
  <2>2. CASE w.proceed
    <3>1. PICK l \in Loggers : l = w.logger
      BY <2>2, LoggerFound
    <3>2. stream \in [Loggers -> Seq(Piece)] /\ stream[l] \in Seq(Piece) /\ w.left \in Seq(Piece)
      BY LockTypes, HereTypes
    <3>3. stream[l] \o w.left = full
      BY <1>4, <1>9, <2>2, <3>1
    <3>4. CASE v.pc = "stream"
      <4>1. w.left # <<>> /\ v.left = Tail(w.left)
            /\ stream'[l] = Append(stream[l], Head(w.left))
        BY <1>3, <3>1, <3>2, <3>4
      <4>2. stream'[l] \o v.left = full
        BY <3>2, <3>3, <4>1, PartMoves
      <4> QED  BY <1>3, <1>5, <3>1, <3>4, <4>2 DEF Content, Sending
    <3>5. CASE v.pc = "process"
      <4>1. w.left = <<>> /\ UNCHANGED stream
        BY <1>3, <2>2, <3>5
      <4>2. stream[l] = full
        BY <3>2, <3>3, <4>1, ConcatEmptySeq
      <4> QED  BY <1>3, <1>5, <3>1, <3>5, <4>1, <4>2 DEF Content, Sending
    <3> QED  BY <1>3, <3>4, <3>5
  <2> QED  BY <2>1, <2>2
<1> QED  BY <1>3, <1>7, <1>8, <1>9 DEF WriterOK

LEMMA ProcessDispatchText ==
  ASSUME LocksInv, Known, NEW t \in Threads, ProcessDispatch(t),
         NEW full \in Seq(Piece), WriterOK(Top(t), full)
  PROVE  \E v : Become(t, v) /\ WriterOK(v, full)'
<1>1. PICK w \in Writers : w = Top(t) /\ w.pc = "process"
  BY AtWork DEF ProcessDispatch
<1>2. PICK text : text = Sent(w)
  OBVIOUS
<1>3. Stationed(w) /\ (Clean(w) => Content(w, full))
  BY <1>1 DEF WriterOK
<1>4. /\ w.logger = IF Exists(Here(w)) THEN Here(w) ELSE None
      /\ w.proceed <=> Takes(Here(w), w.level)
  BY <1>1, <1>3 DEF Stationed
<1>5. w.i \in Nat \ {0}
  BY HereTypes
<1>6. ASSUME NEW v, Become(t, v), Kin(v, w), v.i = w.i, v.pc = "dispatch",
             v.logger = w.logger, v.first, v.copy = Copied(w, text),
             w.proceed, stream' = [stream EXCEPT ![w.logger] = text], UNCHANGED leaked
      PROVE  WriterOK(v, full)'
  <2>1. PICK l \in Loggers : l = w.logger
    BY <1>6, LoggerFound
  <2>2. stream \in [Loggers -> Seq(Piece)] /\ w.copy \in Seq(Piece)
    BY LockTypes, HereTypes
  <2>3. Takes(Here(w), w.level) /\ Exists(Here(w)) /\ w.logger = Here(w)
    BY <1>4, <1>6 DEF Takes
  <2>4. Here(v) = Here(w) /\ v.level = w.level
    BY <1>6 DEF Kin, Here
  <2>5. Stationed(v)'
    <3>1. Started(v)
      BY <1>6 DEF Started, Sending
    <3> QED  BY <1>6, <2>3, <2>4, <3>1 DEF Stationed, Sending
  <2>6. Clean(v)' = Clean(w)
    BY <1>6 DEF Kin, Clean
  <2>7. ASSUME Clean(w)  PROVE text = LineText(w, full) /\ v.copy = LineText(w, full)
    <3>1. Content(w, full)
      BY <1>3, <2>7
    <3>2. stream[l] = IF w.i = 1 THEN full ELSE <<>>
      BY <1>1, <1>6, <2>1, <3>1 DEF Content
    <3>3. CASE w.i = 1
      <4>1. ~Started(w)
        BY <1>1, <3>3 DEF Started, Sending
      <4>2. ~w.first
        BY <1>3, <4>1 DEF Stationed
      <4>3. LineText(w, full) = full
        BY <2>3, <3>3 DEF LineText, Here
      <4> QED  BY <1>2, <1>6, <2>1, <3>2, <3>3, <4>2, <4>3 DEF Sent, Copied
    <3>4. CASE w.i # 1
      <4>1. Started(w)
        BY <1>5, <3>4 DEF Started
      <4>2. LineText(w, full) = IF w.first THEN w.copy ELSE <<>>
        BY <3>1, <4>1 DEF Content
      <4>3. CASE w.first
        <5>1. text = stream[l] \o w.copy /\ stream[l] = <<>>
          BY <1>2, <2>1, <3>2, <3>4, <4>3 DEF Sent
        <5>2. text = w.copy
          BY <2>2, <5>1, ConcatEmptySeq
        <5> QED  BY <1>6, <4>2, <4>3, <5>2 DEF Copied
      <4>4. CASE ~w.first
        BY <1>2, <1>6, <2>1, <3>2, <3>4, <4>2, <4>4 DEF Sent, Copied
      <4> QED  BY <4>3, <4>4
    <3> QED  BY <3>3, <3>4
  <2>8. ASSUME Clean(w)  PROVE Content(v, full)'
    <3>1. LineText(v, full) = LineText(w, full)
      BY <1>6 DEF Kin, LineText
    <3>2. stream'[l] = text
      BY <1>6, <2>1, <2>2
    <3> QED  BY <1>6, <2>1, <2>7, <2>8, <3>1, <3>2 DEF Content, Sending
  <2> QED  BY <2>5, <2>6, <2>8 DEF WriterOK
<1>7. ASSUME NEW v, Become(t, v), Stays(v, w), v.pc = "next", ~w.proceed, UNCHANGED leaked
      PROVE  WriterOK(v, full)'
  <2>1. Started(v)
    BY <1>7 DEF Started
  <2>2. Stationed(v)'
    BY <1>7, <2>1 DEF Stationed, Sending
  <2>3. Clean(v)' = Clean(w)
    BY <1>7 DEF Stays, Kin, Clean
  <2>4. LineText(v, full) = LineText(w, full) /\ v.first = w.first /\ v.copy = w.copy
    BY <1>7 DEF Stays, Kin, LineText
  <2>5. ASSUME Clean(w)  PROVE LineText(w, full) = IF w.first THEN w.copy ELSE <<>>
    <3>1. CASE Started(w)
      BY <1>3, <2>5, <3>1 DEF Content
    <3>2. CASE ~Started(w)
      <4>1. ~w.first /\ w.i = 1
        BY <1>3, <1>5, <3>2 DEF Stationed, Started
      <4>2. ~Takes(w.ids[1], w.level)
        BY <1>4, <1>7, <4>1 DEF Here
      <4> QED  BY <4>1, <4>2 DEF LineText
    <3> QED  BY <3>1, <3>2
  <2>6. Clean(w) => Content(v, full)'
    BY <1>7, <2>4, <2>5 DEF Content, Sending
  <2> QED  BY <2>2, <2>3, <2>6 DEF WriterOK
<1>8. UNCHANGED leaked
  BY <1>1, <1>2, ProcessDispatchDoes
<1>9. \/ \E v :
           /\ Become(t, v) /\ Kin(v, w) /\ v.i = w.i /\ v.pc = "dispatch"
           /\ v.logger = w.logger /\ v.first /\ v.copy = Copied(w, text)
           /\ w.proceed /\ stream' = [stream EXCEPT ![w.logger] = text]
      \/ \E v :
           /\ Become(t, v) /\ Stays(v, w) /\ v.pc = "next" /\ ~w.proceed
           /\ IF w.logger = None THEN UNCHANGED stream
              ELSE stream' = [stream EXCEPT ![w.logger] = <<>>]
  BY <1>1, <1>2, ProcessDispatchDoes
<1>10. CASE \E v : Become(t, v) /\ Stays(v, w) /\ v.pc = "next" /\ ~w.proceed
  BY <1>7, <1>8, <1>10
<1>11. CASE \E v :
              /\ Become(t, v) /\ Kin(v, w) /\ v.i = w.i /\ v.pc = "dispatch"
              /\ v.logger = w.logger /\ v.first /\ v.copy = Copied(w, text)
              /\ w.proceed /\ stream' = [stream EXCEPT ![w.logger] = text]
  BY <1>6, <1>8, <1>11
<1> QED  BY <1>9, <1>10, <1>11, Zenon

LEMMA DispatchingText ==
  ASSUME LocksInv, NEW t \in Threads, Dispatch(t) \/ Handle(t) \/ Write(t) \/ Flush(t),
         NEW full \in Seq(Piece), WriterOK(Top(t), full)
  PROVE  \E v : Become(t, v) /\ WriterOK(v, full)'
<1>1. PICK w : w = Top(t)
  OBVIOUS
<1>2. PICK v :
         /\ Become(t, v) /\ Stays(v, w) /\ v.logger = w.logger
         /\ \/ w.pc = "dispatch" /\ v.pc = "handle"
            \/ w.pc = "handle" /\ v.pc = "write"
            \/ w.pc = "write" /\ v.pc \in {"flush", "done"}
            \/ w.pc = "flush" /\ v.pc = "done"
  BY <1>1, DispatchingDoes
<1>3. UNCHANGED <<stream, leaked>>
  BY <1>1, DispatchingDoes
<1>4. Stationed(w) /\ (Clean(w) => Content(w, full))
  BY <1>1 DEF WriterOK
<1>5. Here(v) = Here(w) /\ v.level = w.level /\ v.first = w.first /\ v.copy = w.copy
      /\ LineText(v, full) = LineText(w, full)
  BY <1>2 DEF Stays, Kin, Here, LineText
<1>6. Started(v) /\ Started(w) /\ v.pc \in Sending /\ w.pc \in Sending
  BY <1>2 DEF Started, Sending
<1>7. Stationed(v)'
  BY <1>2, <1>4, <1>5, <1>6 DEF Stationed, Sending
<1>8. Clean(v)' = Clean(w)
  BY <1>2, <1>3 DEF Stays, Kin, Clean
<1>9. Content(w, full) => Content(v, full)'
  BY <1>2, <1>3, <1>5, <1>6 DEF Content, Sending
<1> QED  BY <1>2, <1>4, <1>7, <1>8, <1>9 DEF WriterOK

LEMMA FinishText ==
  ASSUME LocksInv, NEW t \in Threads, Finish(t),
         NEW full \in Seq(Piece), WriterOK(Top(t), full), NEW w, w = Top(t)
  PROVE  \/ \E v : Become(t, v) /\ WriterOK(v, full)'
         \/ /\ w.level = "Fatal"
            /\ \E v : /\ Nest(t, v, Writer(w.msg, "Warning", <<DefaultId>>, Note(w.msg)))
                      /\ Stays(v, w) /\ v.pc = "abort" /\ WriterOK(v, full)'
<1>1. w.pc = "done"
  BY AtWork DEF Finish
<1>2. Stationed(w) /\ (Clean(w) => Content(w, full)) /\ Started(w)
  BY <1>1 DEF WriterOK, Started, Sending
<1>3. UNCHANGED leaked
  BY FinishDoes
<1>4. ASSUME NEW v, Stays(v, w), v.pc \in {"next", "abort"}
      PROVE  WriterOK(v, full)'
  <2>1. Started(v)
    BY <1>4 DEF Started
  <2>2. Stationed(v)'
    BY <1>4, <2>1 DEF Stationed, Sending
  <2>3. Clean(v)' = Clean(w)
    BY <1>3, <1>4 DEF Stays, Kin, Clean
  <2>4. LineText(v, full) = LineText(w, full) /\ v.first = w.first /\ v.copy = w.copy
    BY <1>4 DEF Stays, Kin, LineText
  <2>5. Content(w, full) => LineText(w, full) = IF w.first THEN w.copy ELSE <<>>
    BY <1>2 DEF Content
  <2>6. Content(w, full) => Content(v, full)'
    BY <1>4, <2>4, <2>5 DEF Content, Sending
  <2> QED  BY <1>2, <2>2, <2>3, <2>6 DEF WriterOK
<1> QED  BY <1>4, FinishDoes

LEMMA NextLoggerText ==
  ASSUME LocksInv, NEW t \in Threads, NextLogger(t),
         NEW full \in Seq(Piece), WriterOK(Top(t), full)
  PROVE  Pop(t) \/ \E v : Become(t, v) /\ WriterOK(v, full)'
<1>1. PICK w \in Writers : w = Top(t) /\ w.pc = "next"
  BY AtWork DEF NextLogger
<1>2. Stationed(w) /\ (Clean(w) => Content(w, full)) /\ Started(w)
  BY <1>1 DEF WriterOK, Started
<1>3. UNCHANGED <<stream, leaked>>
  BY <1>1, NextLoggerDoes
<1>4. w.i \in Nat \ {0}
  BY HereTypes
<1>5. ASSUME NEW v, Kin(v, w), v.i = w.i + 1, v.first = w.first, v.copy = w.copy,
             v.pc = "initialize"
      PROVE  WriterOK(v, full)'
  <2>1. Started(v) /\ v.i # 1
    BY <1>4, <1>5 DEF Started
  <2>2. Stationed(v)'
    BY <1>5, <2>1 DEF Stationed, Sending
  <2>3. Clean(v)' = Clean(w)
    BY <1>3, <1>5 DEF Kin, Clean
  <2>4. LineText(v, full) = LineText(w, full)
    BY <1>5 DEF Kin, LineText
  <2>5. Content(w, full) => LineText(w, full) = IF w.first THEN w.copy ELSE <<>>
    BY <1>2 DEF Content
  <2>6. Content(w, full) => Content(v, full)'
    BY <1>5, <2>1, <2>4, <2>5 DEF Content, Sending
  <2> QED  BY <1>2, <2>2, <2>3, <2>6 DEF WriterOK
<1> QED  BY <1>1, <1>5, NextLoggerDoes

-----------------------------------------------------------------------------
(* The turns a thread's stack can take in a step.                          *)

\* The note that v makes when its logger is missing, or its message is fatal.
NoteOf(v) ==
  Writer(v.msg, IF v.pc = "abort" THEN "Warning" ELSE "Debug", <<DefaultId>>, Note(v.msg))

Goes(t, v) == Become(t, v) /\ Kin(v, Top(t)) /\ v.pc # "abort"

Starts(t, v) ==
  /\ Nest(t, v, NoteOf(v)) /\ Kin(v, Top(t)) /\ Waits(v) /\ ~Nested(t)
  /\ v.pc = "abort" => v.level = "Fatal"

\* Only the Writer of the statement finds its logger missing, or is fatal.
LEMMA StartsAlone ==
  ASSUME LocksInv, NEW t \in Threads, stack[t] # <<>>, Nested(t)
  PROVE  Top(t).level # "Fatal" /\ (Top(t).i = 1 /\ Here(Top(t)) = DefaultId) /\ Found(Top(t))
<1>1. PICK w \in Writers : w = Top(t) /\ Inner(w)
  BY StackShape DEF LocksInv
<1>2. w.ids = <<DefaultId>> /\ w.level # "Fatal"
  BY <1>1 DEF Inner
<1>3. w.i = 1
  <2>1. w.i \in Nat \ {0} /\ w.i <= Len(w.ids) /\ Len(<<DefaultId>>) = 1
    BY <1>1 DEF Writers, WriterRecord
  <2> QED  BY <1>2, <2>1
<1>4. Here(w) = DefaultId
  BY <1>2, <1>3 DEF Here
<1>5. Found(w)
  BY <1>4 DEF Found, Here, LocksInv, Contents
<1> QED  BY <1>1, <1>2, <1>3, <1>4, <1>5

LEMMA AfterIs == \A w : AfterInitialize(w) \in {"stream", "process"}
BY DEF AfterInitialize

LEMMA Turns ==
  ASSUME LocksInv, NEW t \in Threads, Step(t)
  PROVE  /\ stack[t] # <<>> /\ ~aborted /\ UNCHANGED begun
         /\ \/ \E v : Goes(t, v)
            \/ \E v : Starts(t, v)
            \/ Pop(t)
            \/ Abort(t)
<1>1. stack[t] # <<>> /\ ~aborted /\ UNCHANGED begun
  BY DEF Step, Format, InitializeLogger, InitializeNull, Stream, ProcessDispatch, Dispatch,
    Handle, Write, Flush, Finish, NextLogger, Abort, At, history
<1>2. PICK w : w = Top(t)
  OBVIOUS
<1>3. CASE Format(t)
  <2>1. \/ \E v : Become(t, v) /\ Stays(v, w) /\ v.pc = "format"
        \/ \E v : Become(t, v) /\ Stays(v, w) /\ v.pc = "process"
        \/ Pop(t)
    BY <1>2, <1>3, FormatDoes
  <2> QED  BY <1>1, <1>2, <2>1 DEF Goes, Stays
<1>4. CASE InitializeLogger(t)
  <2>1. PICK v : Become(t, v) /\ Stays(v, w) /\ v.pc = AfterInitialize(w)
    BY <1>2, <1>4, InitializeLoggerDoes
  <2>2. v.pc # "abort"
    BY <2>1, AfterIs
  <2> QED  BY <1>1, <1>2, <2>1, <2>2 DEF Goes, Stays
<1>5. CASE InitializeNull(t)
  <2>1. PICK v : /\ Nest(t, v, Writer(w.msg, "Debug", <<DefaultId>>, Note(w.msg)))
                 /\ Stays(v, w) /\ v.pc = AfterInitialize(w) /\ v.logger = None
    BY <1>2, <1>5, InitializeNullDoes
  <2>2. v.pc \in {"stream", "process"} /\ v.msg = w.msg
    BY <2>1, AfterIs DEF Stays, Kin
  <2>3. ~Nested(t)
    <3>1. ~Found(w)
      BY <1>2, <1>5, InitializeNullDoes
    <3> QED  BY <1>1, <1>2, <3>1, StartsAlone
  <2>4. v.pc # "abort"
    BY <2>2
  <2>5. NoteOf(v) = Writer(w.msg, "Debug", <<DefaultId>>, Note(w.msg))
    BY <2>2, <2>4 DEF NoteOf
  <2>6. Waits(v)
    BY <2>1, <2>2 DEF Waits
  <2> QED  BY <1>1, <1>2, <2>1, <2>3, <2>4, <2>5, <2>6 DEF Starts, Stays
<1>6. CASE Stream(t)
  <2>1. PICK v : Become(t, v) /\ Stays(v, w) /\ (v.pc = "stream" \/ v.pc = "process")
    BY <1>2, <1>6, StreamDoes
  <2> QED  BY <1>1, <1>2, <2>1 DEF Goes, Stays
<1>7. CASE ProcessDispatch(t)
  <2>1. PICK text : text = Sent(w)
    OBVIOUS
  <2>2. \/ \E v : Become(t, v) /\ Kin(v, w) /\ v.pc = "dispatch"
        \/ \E v : Become(t, v) /\ Stays(v, w) /\ v.pc = "next"
    BY <1>2, <1>7, <2>1, ProcessDispatchDoes
  <2> QED  BY <1>1, <1>2, <2>2 DEF Goes, Stays
<1>8. CASE Dispatch(t) \/ Handle(t) \/ Write(t) \/ Flush(t)
  <2>1. PICK v : Become(t, v) /\ Stays(v, w) /\ v.pc \in {"handle", "write", "flush", "done"}
    BY <1>2, <1>8, DispatchingDoes
  <2> QED  BY <1>1, <1>2, <2>1 DEF Goes, Stays
<1>9. CASE Finish(t)
  <2>1. CASE \E v : Become(t, v) /\ Stays(v, w) /\ v.pc = "next"
    BY <1>1, <1>2, <2>1 DEF Goes, Stays
  <2>2. ASSUME w.level = "Fatal",
               NEW v, Nest(t, v, Writer(w.msg, "Warning", <<DefaultId>>, Note(w.msg))),
               Stays(v, w), v.pc = "abort"
        PROVE  Starts(t, v)
    <3>1. ~Nested(t)
      BY <1>1, <1>2, <2>2, StartsAlone
    <3>2. v.msg = w.msg /\ v.level = "Fatal" /\ Kin(v, w)
      BY <2>2 DEF Stays, Kin
    <3>3. NoteOf(v) = Writer(w.msg, "Warning", <<DefaultId>>, Note(w.msg))
      BY <2>2, <3>2 DEF NoteOf
    <3> QED  BY <1>2, <2>2, <3>1, <3>2, <3>3 DEF Starts, Waits
  <2> QED  BY <1>1, <1>2, <1>9, <2>1, <2>2, FinishDoes
<1>10. CASE NextLogger(t)
  <2>1. \/ \E v : Become(t, v) /\ Kin(v, w) /\ v.pc = "initialize"
        \/ Pop(t)
    BY <1>2, <1>10, NextLoggerDoes
  <2> QED  BY <1>1, <1>2, <2>1 DEF Goes
<1>11. CASE Abort(t)
  BY <1>1, <1>11
<1> QED  BY <1>3, <1>4, <1>5, <1>6, <1>7, <1>8, <1>9, <1>10, <1>11 DEF Step

-----------------------------------------------------------------------------
(* Who a Writer is.                                                        *)

Identified == Apart /\ \A t \in Threads : Identity(t)

\* A statement keeps its message, its loggers and its level to its end.
LEMMA MainKept ==
  ASSUME LocksInv, NEW t \in Threads, Step(t)
  PROVE  /\ Others(t)
         /\ stack'[t] = <<>> => ~Nested(t) /\ Pop(t)
         /\ stack'[t] # <<>> => Kin(Main(t)', Main(t))
<1>1. stack[t] # <<>> /\ Stacks
  BY Turns DEF LocksInv
<1>2. ASSUME NEW v, Goes(t, v)
      PROVE  Others(t) /\ stack'[t] # <<>> /\ Kin(Main(t)', Main(t))
  <2>1. Become(t, v) /\ Kin(v, Top(t))
    BY <1>2 DEF Goes
  <2>2. Others(t) /\ stack'[t] # <<>> /\ Main(t)' = IF Nested(t) THEN Main(t) ELSE v
    BY <1>1, <2>1, BecomeShape
  <2>3. ~Nested(t) => Top(t) = Main(t)
    BY <1>1, StackShape
  <2> QED  BY <2>1, <2>2, <2>3 DEF Kin
<1>3. ASSUME NEW v, Starts(t, v)
      PROVE  Others(t) /\ stack'[t] # <<>> /\ Kin(Main(t)', Main(t))
  <2>1. Nest(t, v, NoteOf(v)) /\ Kin(v, Top(t)) /\ ~Nested(t)
    BY <1>3 DEF Starts
  <2>2. Others(t) /\ stack'[t] # <<>> /\ Main(t)' = v /\ Top(t) = Main(t)
    BY <1>1, <2>1, NestShape, StackShape
  <2> QED  BY <2>1, <2>2
<1>4. CASE Pop(t)
  <2>1. Others(t) /\ (Nested(t) => stack'[t] # <<>> /\ Main(t)' = Main(t))
        /\ (~Nested(t) => stack'[t] = <<>>)
    BY <1>1, <1>4, PopShape
  <2> QED  BY <1>4, <2>1 DEF Kin
<1>5. CASE Abort(t)
  <2>1. stack' = stack
    BY <1>5 DEF Abort
  <2> QED  BY <1>1, <2>1 DEF Others, Kin, Main
<1> QED  BY <1>2, <1>3, <1>4, <1>5, Turns

\* Messages begun keep their statement.
Continues == \A m \in DOMAIN begun : m \in DOMAIN begun' /\ begun'[m] = begun[m]

LEMMA IdsKept == ASSUME Continues, NEW m \in DOMAIN begun  PROVE Ids(m)' = Ids(m)
BY DEF Continues, Ids

LEMMA IdentityOfOthers ==
  ASSUME NEW t \in Threads, Others(t), NEW u \in Threads \ {t}, Identity(u), Continues
  PROVE  Identity(u)'
<1>1. /\ stack'[u] = stack[u] /\ Main(u)' = Main(u) /\ Top(u)' = Top(u)
      /\ Nested(u)' = Nested(u)
  BY OthersShape
<1>2. SUFFICES ASSUME stack[u] # <<>>  PROVE Identity(u)'
  BY <1>1 DEF Identity
<1>3. PICK v, w : v = Main(u) /\ w = Top(u)
  OBVIOUS
<1>4. /\ v.msg \in DOMAIN begun /\ v.ids = Ids(v.msg) /\ v.level = begun[v.msg].level
  BY <1>2, <1>3 DEF Identity
<1>5. v.msg \in DOMAIN begun' /\ v.ids = Ids(v.msg)' /\ v.level = begun'[v.msg].level
  BY <1>4, IdsKept DEF Continues
<1> QED  BY <1>1, <1>2, <1>3, <1>5 DEF Identity

LEMMA IdentityOfStep ==
  ASSUME LocksInv, NEW t \in Threads, Step(t), Identity(t)
  PROVE  Identity(t)'
<1>1. /\ stack[t] # <<>> /\ Stacks /\ UNCHANGED begun
  BY Turns DEF LocksInv
<1>2. PICK v0 : v0 = Main(t)
  OBVIOUS
<1>3. /\ v0.msg \in DOMAIN begun /\ v0.ids = Ids(v0.msg) /\ v0.level = begun[v0.msg].level
      /\ v0.pc = "abort" => v0.level = "Fatal"
      /\ Nested(t) => /\ Top(t).msg = v0.msg /\ Top(t).pc # "abort"
                      /\ Top(t).level = IF v0.pc = "abort" THEN "Warning" ELSE "Debug"
  BY <1>1, <1>2 DEF Identity
<1>4. \A m : Ids(m)' = Ids(m)
  BY <1>1 DEF Ids
<1>5. ASSUME NEW v, Goes(t, v)
      PROVE  Identity(t)'
  <2>1. Become(t, v) /\ Kin(v, Top(t)) /\ v.pc # "abort"
    BY <1>5 DEF Goes
  <2>2. /\ stack'[t] # <<>> /\ Nested(t)' = Nested(t) /\ Top(t)' = v
        /\ Main(t)' = IF Nested(t) THEN v0 ELSE v
    BY <1>1, <1>2, <2>1, BecomeShape
  <2>3. ~Nested(t) => Top(t) = v0
    BY <1>1, <1>2, StackShape
  <2>4. CASE Nested(t)
    BY <1>1, <1>3, <1>4, <2>1, <2>2, <2>4 DEF Identity, Kin
  <2>5. CASE ~Nested(t)
    BY <1>1, <1>3, <1>4, <2>1, <2>2, <2>3, <2>5 DEF Identity, Kin
  <2> QED  BY <2>4, <2>5
<1>6. ASSUME NEW v, Starts(t, v)
      PROVE  Identity(t)'
  <2>1. /\ Nest(t, v, NoteOf(v)) /\ Kin(v, Top(t)) /\ ~Nested(t)
        /\ v.pc = "abort" => v.level = "Fatal"
    BY <1>6 DEF Starts
  <2>2. /\ stack'[t] # <<>> /\ Nested(t)' /\ Main(t)' = v /\ Top(t)' = NoteOf(v)
        /\ Top(t) = v0
    BY <1>1, <1>2, <2>1, NestShape, StackShape
  <2>3. /\ NoteOf(v).msg = v.msg /\ NoteOf(v).pc = "initialize"
        /\ NoteOf(v).level = IF v.pc = "abort" THEN "Warning" ELSE "Debug"
    BY DEF NoteOf, Writer
  <2>4. PICK n : n = NoteOf(v)
    OBVIOUS
  <2> QED  BY <1>1, <1>3, <1>4, <2>1, <2>2, <2>3, <2>4 DEF Identity, Kin
<1>7. CASE Pop(t)
  <2>1. /\ Nested(t) => stack'[t] # <<>> /\ ~Nested(t)' /\ Main(t)' = v0
        /\ ~Nested(t) => stack'[t] = <<>>
    BY <1>1, <1>2, <1>7, PopShape
  <2> QED  BY <1>1, <1>3, <1>4, <2>1 DEF Identity
<1>8. CASE Abort(t)
  <2>1. stack' = stack
    BY <1>8 DEF Abort
  <2>2. Main(t)' = Main(t) /\ Top(t)' = Top(t) /\ Nested(t)' = Nested(t)
    BY <2>1 DEF Main, Top, Nested
  <2> QED  BY <1>1, <1>2, <1>3, <1>4, <2>1, <2>2 DEF Identity
<1> QED  BY <1>5, <1>6, <1>7, <1>8, Turns

LEMMA IdentifiedStep ==
  ASSUME LocksInv, Identified, NEW t \in Threads, Step(t)
  PROVE  Identified'
<1>1. Others(t) /\ UNCHANGED begun
  BY MainKept, Turns
<1>2. Continues
  BY <1>1 DEF Continues
<1>3. \A u \in Threads : Identity(u)'
  BY <1>1, <1>2, IdentityOfOthers, IdentityOfStep DEF Identified
<1>4. ASSUME NEW u \in Threads, stack'[u] # <<>>
      PROVE  stack[u] # <<>> /\ Main(u)'.msg = Main(u).msg
  <2>1. CASE u = t
    BY <1>4, <2>1, Turns, MainKept DEF Kin
  <2>2. CASE u # t
    BY <1>1, <1>4, <2>2, OthersShape
  <2> QED  BY <2>1, <2>2
<1>5. Apart'
  <2>1. Apart
    BY DEF Identified
  <2> QED  BY <1>4, <2>1 DEF Apart
<1> QED  BY <1>3, <1>5 DEF Identified

LEMMA KnownStep ==
  ASSUME LocksInv, Known, NEW t \in Threads, Step(t)
  PROVE  Known'
<1>1. CASE InitializeLogger(t)
  <2>1. PICK w : w = Top(t)
    OBVIOUS
  <2>2. Found(w) /\ registered' = registered \cup {Here(w)}
    BY <1>1, <2>1, InitializeLoggerDoes
  <2>3. Exists(Here(w))
    BY <2>2, FoundExists
  <2> QED  BY <2>2, <2>3 DEF Known
<1>2. CASE ~InitializeLogger(t)
  <2>1. UNCHANGED registered
    BY <1>2 DEF Step, Format, InitializeNull, Stream, ProcessDispatch, Dispatch,
      Handle, Write, Flush, Finish, NextLogger, Abort
  <2> QED  BY <2>1 DEF Known
<1> QED  BY <1>1, <1>2

\* A step changes only the stream of the logger its thread has locked.
LEMMA StreamsOwn ==
  ASSUME LocksInv, NEW t \in Threads, Step(t)
  PROVE  OwnStream(t) /\ leaked \subseteq leaked'
<1>1. PICK w : w = Top(t)
  OBVIOUS
<1>2. /\ w \in Writers /\ stream \in [Loggers -> Seq(Piece)]
      /\ w.pc \in Locking => Holds(t) = w.logger
  <2>1. Stacks /\ stack[t] # <<>>
    BY Turns DEF LocksInv
  <2>2. w \in Writers /\ Holds(t) = IF w.pc \in Locking THEN w.logger ELSE None
    BY <1>1, <2>1, TopTypes
  <2>3. stream \in [Loggers -> Seq(Piece)]
    BY DEF LocksInv, Contents
  <2> QED  BY <2>2, <2>3
<1>3. ASSUME w.pc \in Locking, NEW text, stream' = [stream EXCEPT ![w.logger] = text]
      PROVE  OwnStream(t)
  BY <1>2, <1>3 DEF OwnStream
<1>4. ASSUME UNCHANGED stream  PROVE OwnStream(t)
  BY <1>4 DEF OwnStream
<1>5. CASE Format(t)
  <2>1. w.pc \in Locking
    BY <1>1, <1>5 DEF Format, At, Locking
  <2>2. leaked \subseteq leaked' /\ (UNCHANGED stream \/
          stream' = [stream EXCEPT ![w.logger] = Append(@, Head(w.left))])
    BY <1>1, <1>5, FormatDoes
  <2>3. CASE stream' = [stream EXCEPT ![w.logger] = Append(@, Head(w.left))]
    <3>1. PICK text : text = Append(stream[w.logger], Head(w.left))
      OBVIOUS
    <3>2. stream' = [stream EXCEPT ![w.logger] = text]
      BY <2>3, <3>1
    <3> QED  BY <1>3, <2>1, <2>2, <3>2
  <2> QED  BY <1>4, <2>2, <2>3
<1>6. CASE Stream(t)
  <2>1. w.pc \in Locking
    BY <1>1, <1>6 DEF Stream, At, Locking
  <2>2. leaked \subseteq leaked' /\ (UNCHANGED stream \/
          stream' = [stream EXCEPT ![w.logger] = Append(@, Head(w.left))])
    BY <1>1, <1>6, StreamDoes
  <2>3. CASE stream' = [stream EXCEPT ![w.logger] = Append(@, Head(w.left))]
    <3>1. PICK text : text = Append(stream[w.logger], Head(w.left))
      OBVIOUS
    <3>2. stream' = [stream EXCEPT ![w.logger] = text]
      BY <2>3, <3>1
    <3> QED  BY <1>3, <2>1, <2>2, <3>2
  <2> QED  BY <1>4, <2>2, <2>3
<1>7. CASE ProcessDispatch(t)
  <2>1. w.pc \in Locking
    BY <1>1, <1>7 DEF ProcessDispatch, At, Locking
  <2>2. PICK text : text = Sent(w)
    OBVIOUS
  <2>3. /\ leaked \subseteq leaked'
        /\ \/ UNCHANGED stream
           \/ stream' = [stream EXCEPT ![w.logger] = text]
           \/ stream' = [stream EXCEPT ![w.logger] = <<>>]
    BY <1>1, <1>7, <2>2, ProcessDispatchDoes
  <2> QED  BY <1>3, <1>4, <2>1, <2>3
<1>8. CASE Finish(t)
  <2>1. w.pc \in Locking
    BY <1>1, <1>8 DEF Finish, At, Locking
  <2>2. stream' = [stream EXCEPT ![w.logger] = <<>>] /\ leaked \subseteq leaked'
    BY <1>1, <1>8, FinishDoes
  <2> QED  BY <1>3, <2>1, <2>2
<1>9. CASE ~(Format(t) \/ Stream(t) \/ ProcessDispatch(t) \/ Finish(t))
  <2>1. UNCHANGED <<stream, leaked>>
    BY <1>9 DEF Step, InitializeLogger, InitializeNull, Dispatch, Handle, Write, Flush,
      NextLogger, Abort, history
  <2> QED  BY <1>4, <2>1
<1> QED  BY <1>5, <1>6, <1>7, <1>8, <1>9

\* The other threads' texts stay: nobody else has their loggers.
LEMMA TextsOfOthers ==
  ASSUME LocksInv, LocksInv', NEW t \in Threads, Others(t), OwnStream(t),
         leaked \subseteq leaked', NEW u \in Threads \ {t}, Texts(u)
  PROVE  Texts(u)'
<1>1. /\ stack'[u] = stack[u] /\ Main(u)' = Main(u) /\ Top(u)' = Top(u)
      /\ Nested(u)' = Nested(u)
  BY OthersShape
<1>2. SUFFICES ASSUME stack[u] # <<>>  PROVE Texts(u)'
  BY <1>1 DEF Texts
<1>3. Stacks
  BY DEF LocksInv
<1>4. PICK v \in Writers, w \in Writers :
        /\ v = Main(u) /\ w = Top(u) /\ (~Nested(u) => w = v) /\ (Nested(u) => Waits(v))
        /\ w.pc \in Locking => Holds(u) = w.logger
  BY <1>2, <1>3, StackShape, TopTypes
<1>5. WriterOK(v, Text(v.msg)) /\ (Nested(u) => WriterOK(w, Note(w.msg)))
  BY <1>2, <1>4 DEF Texts
<1>6. w.pc \in Locking /\ w.logger \in Loggers => stream'[w.logger] = stream[w.logger]
  <2>1. SUFFICES ASSUME w.pc \in Locking, w.logger \in Loggers,
                        stream'[w.logger] # stream[w.logger]
                 PROVE  FALSE
    OBVIOUS
  <2>2. PICK l \in Loggers : l = w.logger
    BY <2>1
  <2>3. Holds(u) = l /\ Holds(t) = l
    BY <1>4, <2>1, <2>2 DEF OwnStream
  <2>4. LoggerLock(l)
    BY LockTypes
  <2> QED  BY <2>3, <2>4 DEF LoggerLock
<1>7. /\ w.logger = None => w.logger \notin Loggers
      /\ v.logger = None => v.logger \notin Loggers
      /\ w.ids[w.i] \in Loggers /\ v.ids[v.i] \in Loggers
      /\ w.logger \in Loggers \/ w.logger = None
  <2>1. Here(w) \in Loggers /\ Here(v) \in Loggers /\ None \notin Loggers
    BY <1>4, HereTypes
  <2>2. w.logger \in Loggers \/ w.logger = None
    BY <1>4 DEF Writers, WriterRecord
  <2> QED  BY <2>1, <2>2 DEF Here
<1>8. ASSUME NEW full, WriterOK(w, full)
      PROVE  WriterOK(w, full)'
  <2>1. CASE w.logger = None
    <3>1. w.pc \notin Locking \/ Waits(w)
      <4>1. w.proceed \/ w.pc \in {"format", "dispatch"} \cup Dispatching => w.logger # None
        BY <1>4 DEF Writers
      <4> QED  BY <2>1, <4>1 DEF Locking, Dispatching, Waits
    <3> QED  BY <1>7, <1>8, <3>1, TextStays
  <2>2. CASE w.logger \in Loggers
    <3>1. w.pc \notin Locking \/ stream'[w.logger] = stream[w.logger]
      BY <1>6, <2>2
    <3> QED  BY <1>7, <1>8, <3>1, TextStays
  <2> QED  BY <1>7, <2>1, <2>2
<1>9. WriterOK(v, Text(v.msg))'
  <2>1. CASE Nested(u)
    BY <1>4, <1>5, <1>7, <2>1, TextStays
  <2>2. CASE ~Nested(u)
    BY <1>4, <1>5, <1>8, <2>2
  <2> QED  BY <2>1, <2>2
<1>10. Nested(u) => WriterOK(w, Note(w.msg))'
  BY <1>5, <1>8
<1> QED  BY <1>1, <1>2, <1>4, <1>9, <1>10 DEF Texts


LEMMA BecomeKin ==
  ASSUME LocksInv, NEW t \in Threads, Step(t), NEW v, Become(t, v)
  PROVE  Kin(v, Top(t)) /\ ~Pop(t)
<1>1. stack[t] # <<>> /\ Stacks
  BY Turns DEF LocksInv
<1>2. stack'[t] # <<>> /\ Nested(t)' = Nested(t) /\ Top(t)' = v
  BY <1>1, BecomeShape
<1>3. ASSUME NEW v1, Goes(t, v1)  PROVE Kin(v, Top(t))
  <2>1. Top(t)' = v1 /\ Kin(v1, Top(t))
    BY <1>1, <1>3, BecomeShape DEF Goes
  <2> QED  BY <1>2, <2>1
<1>4. ASSUME NEW v1, Starts(t, v1)  PROVE FALSE
  <2>1. Nested(t)' /\ ~Nested(t)
    BY <1>1, <1>4, NestShape DEF Starts
  <2> QED  BY <1>2, <2>1
<1>5. ~Pop(t)
  BY <1>1, <1>2, PopShape
<1>6. ASSUME Abort(t)  PROVE Kin(v, Top(t))
  <2>1. stack' = stack
    BY <1>6 DEF Abort
  <2>2. v = Top(t)
    BY <1>2, <2>1 DEF Top
  <2> QED  BY <2>2 DEF Kin
<1>7. Kin(v, Top(t))
  BY <1>3, <1>4, <1>5, <1>6, Turns
<1> QED  BY <1>5, <1>7

\* The Writer at work keeps its text, or ends.
LEMMA TextOfStep ==
  ASSUME LocksInv, Known, NEW t \in Threads, Step(t),
         NEW full \in Seq(Piece), WriterOK(Top(t), full)
  PROVE  \/ Pop(t) \/ Abort(t)
         \/ \E v : Become(t, v) /\ WriterOK(v, full)'
         \/ ~Nested(t) /\ \E v : Nest(t, v, NoteOf(v)) /\ WriterOK(v, full)'
<1>1. CASE Format(t)
  BY <1>1, FormatText
<1>2. CASE InitializeLogger(t)
  BY <1>2, InitializeLoggerText
<1>3. CASE InitializeNull(t)
  <2>1. PICK w : w = Top(t)
    OBVIOUS
  <2>2. PICK v : /\ Nest(t, v, Writer(w.msg, "Debug", <<DefaultId>>, Note(w.msg)))
                 /\ Stays(v, w) /\ WriterOK(v, full)' /\ v.pc = AfterInitialize(w)
    BY <1>3, <2>1, InitializeNullText
  <2>3. v.pc # "abort" /\ v.msg = w.msg
    BY <2>2, AfterIs DEF Stays, Kin
  <2>4. NoteOf(v) = Writer(w.msg, "Debug", <<DefaultId>>, Note(w.msg))
    BY <2>3 DEF NoteOf
  <2>5. ~Nested(t)
    <3>1. ~Found(w) /\ stack[t] # <<>>
      BY <1>3, <2>1, InitializeNullDoes, Turns
    <3> QED  BY <2>1, <3>1, StartsAlone
  <2> QED  BY <2>2, <2>4, <2>5
<1>4. CASE Stream(t)
  BY <1>4, StreamText
<1>5. CASE ProcessDispatch(t)
  BY <1>5, ProcessDispatchText
<1>6. CASE Dispatch(t) \/ Handle(t) \/ Write(t) \/ Flush(t)
  BY <1>6, DispatchingText
<1>7. CASE Finish(t)
  <2>1. PICK w : w = Top(t)
    OBVIOUS
  <2>2. ASSUME w.level = "Fatal",
               NEW v, Nest(t, v, Writer(w.msg, "Warning", <<DefaultId>>, Note(w.msg))),
               Stays(v, w), v.pc = "abort"
        PROVE  Nest(t, v, NoteOf(v)) /\ ~Nested(t)
    <3>1. ~Nested(t)
      BY <2>1, <2>2, StartsAlone, Turns
    <3>2. v.msg = w.msg
      BY <2>2 DEF Stays, Kin
    <3>3. NoteOf(v) = Writer(w.msg, "Warning", <<DefaultId>>, Note(w.msg))
      BY <2>2, <3>2 DEF NoteOf
    <3> QED  BY <2>2, <3>1, <3>3
  <2>3. \/ \E v : Become(t, v) /\ WriterOK(v, full)'
        \/ /\ w.level = "Fatal"
           /\ \E v : /\ Nest(t, v, Writer(w.msg, "Warning", <<DefaultId>>, Note(w.msg)))
                     /\ Stays(v, w) /\ v.pc = "abort" /\ WriterOK(v, full)'
    BY <1>7, <2>1, FinishText
  <2> QED  BY <2>2, <2>3
<1>8. CASE NextLogger(t)
  BY <1>8, NextLoggerText
<1>9. CASE Abort(t)
  BY <1>9
<1> QED  BY <1>1, <1>2, <1>3, <1>4, <1>5, <1>6, <1>7, <1>8, <1>9 DEF Step

LEMMA MessageTexts ==
  ASSUME NEW m \in Nat  PROVE Text(m) \in Seq(Piece) /\ Note(m) \in Seq(Piece)
<1>1. Parts \in Nat
  BY LogDispatchAssumption
<1>2. \A k \in 1 .. Parts : <<m, k>> \in Piece
  BY <1>1 DEF Piece
<1>3. <<m, 0>> \in Piece
  BY DEF Piece
<1> QED  BY <1>1, <1>2, <1>3 DEF Text, Note

LEMMA TextsOfStep ==
  ASSUME LocksInv, Known, NEW t \in Threads, Step(t), Texts(t)
  PROVE  Texts(t)'
<1>1. stack[t] # <<>> /\ Stacks /\ leaked \subseteq leaked'
  BY Turns, StreamsOwn DEF LocksInv
<1>2. PICK v0 \in Writers, w \in Writers :
        /\ v0 = Main(t) /\ w = Top(t) /\ (~Nested(t) => w = v0) /\ (Nested(t) => Waits(v0))
  BY <1>1, StackShape
<1>3. WriterOK(v0, Text(v0.msg)) /\ (Nested(t) => WriterOK(w, Note(w.msg)))
  BY <1>1, <1>2 DEF Texts
<1>4. v0.msg \in Nat /\ w.msg \in Nat
  BY <1>2 DEF Writers, WriterRecord
<1>5. PICK full \in Seq(Piece) : full = IF Nested(t) THEN Note(w.msg) ELSE Text(w.msg)
  BY <1>4, MessageTexts
<1>6. WriterOK(w, full)
  BY <1>2, <1>3, <1>5
<1>7. Nested(t) => WriterOK(v0, Text(v0.msg))'
  <2>1. v0.ids[v0.i] \in Loggers /\ (v0.logger = None => v0.logger \notin Loggers)
    BY HereTypes DEF Here
  <2> QED  BY <1>1, <1>2, <1>3, <2>1, WaitingText
<1>8. ASSUME NEW v, Become(t, v), WriterOK(v, full)'
      PROVE  Texts(t)'
  <2>1. /\ stack'[t] # <<>> /\ Nested(t)' = Nested(t) /\ Top(t)' = v
        /\ Main(t)' = IF Nested(t) THEN v0 ELSE v
    BY <1>1, <1>2, <1>8, BecomeShape
  <2>2. v.msg = w.msg
    BY <1>2, <1>8, BecomeKin DEF Kin
  <2>3. CASE Nested(t)
    <3>1. WriterOK(v, Note(v.msg))'
      BY <1>5, <1>8, <2>2, <2>3
    <3> QED  BY <1>7, <2>1, <2>3, <3>1 DEF Texts
  <2>4. CASE ~Nested(t)
    <3>1. WriterOK(v, Text(v.msg))'
      BY <1>5, <1>8, <2>2, <2>4
    <3> QED  BY <2>1, <2>4, <3>1 DEF Texts
  <2> QED  BY <2>3, <2>4
<1>9. ASSUME ~Nested(t), NEW v, Nest(t, v, NoteOf(v)), WriterOK(v, full)'
      PROVE  Texts(t)'
  <2>1. PICK n : n = NoteOf(v)
    OBVIOUS
  <2>2. stack'[t] # <<>> /\ Nested(t)' /\ Main(t)' = v /\ Top(t)' = n
    BY <1>1, <1>9, <2>1, NestShape
  <2>3. v.msg = w.msg
    <3>1. Kin(Main(t)', Main(t))
      BY <2>2, MainKept
    <3> QED  BY <1>2, <1>9, <2>2, <3>1 DEF Kin
  <2>4. WriterOK(v, Text(v.msg))'
    BY <1>5, <1>9, <2>3
  <2>5. n.msg = v.msg
    BY <2>1 DEF NoteOf, Writer
  <2>6. WriterOK(n, Note(v.msg))'
    <3>1. PICK level : n = Writer(v.msg, level, <<DefaultId>>, Note(v.msg))
      BY <2>1 DEF NoteOf
    <3> QED  BY <3>1, TextOfNew
  <2>7. WriterOK(n, Note(n.msg))'
    BY <2>5, <2>6
  <2> QED  BY <2>2, <2>4, <2>7 DEF Texts
<1>10. CASE Pop(t)
  <2>1. /\ Nested(t) => /\ ~Nested(t)' /\ Main(t)' = v0
        /\ ~Nested(t) => stack'[t] = <<>>
    BY <1>1, <1>2, <1>10, PopShape
  <2>2. CASE Nested(t)
    BY <1>7, <2>1, <2>2 DEF Texts
  <2>3. CASE ~Nested(t)
    BY <2>1, <2>3 DEF Texts
  <2> QED  BY <2>2, <2>3
<1>11. CASE Abort(t)
  <2>1. UNCHANGED <<stack, stream, leaked>>
    BY <1>11 DEF Abort, history
  <2>2. Main(t)' = v0 /\ Top(t)' = w /\ Nested(t)' = Nested(t)
    BY <1>2, <2>1 DEF Main, Top, Nested
  <2>3. \A x, f : WriterOK(x, f)' = WriterOK(x, f)
    BY <2>1 DEF WriterOK, Stationed, Clean, Content
  <2> QED  BY <1>3, <2>1, <2>2, <2>3 DEF Texts
<1> QED  BY <1>2, <1>6, <1>8, <1>9, <1>10, <1>11, TextOfStep

-----------------------------------------------------------------------------
(* A statement begins.                                                     *)

\* What is remembered of the statement s of message m.
Remembers(m, s, g) ==
  /\ m = Len(begun') /\ m = Len(begun) + 1
  /\ DOMAIN begun' = DOMAIN begun \cup {m} /\ m \notin DOMAIN begun
  /\ begun'[m] = [s EXCEPT !.gate = g]

LEMMA ReachDoes ==
  ASSUME LocksInv, NEW t \in Threads, NEW s \in Statements, Reach(t, s)
  PROVE  /\ Continues /\ stack[t] = <<>> /\ ~aborted
         /\ \E m \in Nat :
              Remembers(m, s, IF Gate(s).pass THEN "pass" ELSE "stop")
         /\ UNCHANGED <<registered, stream, leaked, lines, aborted>>
<1>1. PICK b : b = [s EXCEPT !.gate = IF Gate(s).pass THEN "pass" ELSE "stop"]
  OBVIOUS
<1>2. begun' = Append(begun, b)
  BY <1>1 DEF Reach
<1>3. PICK S : begun \in Seq(S) /\ b \in S
  <2>1. PICK S : S = Begun \cup {b}
    OBVIOUS
  <2>2. begun \in Seq(S)
    BY <2>1, SeqMonotonic DEF LocksInv, Contents
  <2> QED  BY <2>1, <2>2
<1>4. PICK n \in Nat : n = Len(begun)
  BY <1>3
<1>5. /\ Len(begun') = n + 1 /\ begun'[n + 1] = b /\ DOMAIN begun' = 1 .. n + 1
      /\ \A i \in 1 .. n : begun'[i] = begun[i]
  BY <1>2, <1>3, <1>4, AppendProperties
<1>6. DOMAIN begun = 1 .. n
  BY <1>3, <1>4
<1>7. PICK m \in Nat : m = n + 1 /\ 1 .. m = (1 .. n) \cup {m} /\ m \notin 1 .. n
  OBVIOUS
<1>8. Continues
  BY <1>5, <1>6, <1>7 DEF Continues
<1>9. Remembers(m, s, IF Gate(s).pass THEN "pass" ELSE "stop")
  BY <1>1, <1>4, <1>5, <1>6, <1>7 DEF Remembers
<1>10. stack[t] = <<>> /\ ~aborted /\ UNCHANGED <<registered, stream, leaked, lines, aborted>>
  BY DEF Reach, output
<1> QED  BY <1>8, <1>9, <1>10

\* The loggers and the level of the message are those of the statement.
LEMMA Remembered ==
  ASSUME NEW s \in Statements, NEW m, NEW g, Remembers(m, s, g)
  PROVE  /\ begun'[m].level = s.level /\ begun'[m].gate = g
         /\ Ids(m)' = IF g = "stop" THEN <<>>
                      ELSE IF s.kind = "macro" THEN construct(s) ELSE <<s.ids[1]>>
<1>1. s \in [kind : Kinds, gate : Gates, n : Nat, level : Levels, ids : Seq(Loggers)]
  BY LogDispatchAssumption
<1>2. PICK b : b = [s EXCEPT !.gate = g]
  OBVIOUS
<1>3. b.gate = g /\ b.level = s.level /\ b.kind = s.kind /\ b.ids = s.ids
  BY <1>1, <1>2
<1>4. begun'[m] = b
  BY <1>2 DEF Remembers
<1>5. construct(b) = construct(s)
  BY <1>3 DEF construct
<1> QED  BY <1>3, <1>4, <1>5 DEF Ids

\* A statement begins with a Writer for its loggers and its level.
StartsWith(t, m, w) ==
  /\ m \notin DOMAIN begun /\ m \in DOMAIN begun' /\ Continues
  /\ stack[t] = <<>> /\ stack' = [stack EXCEPT ![t] = <<w>>]
  /\ w.msg = m /\ w.ids = Ids(m)' /\ w.level = begun'[m].level
  /\ w.pc \in {"initialize", "format"} /\ w.i = 1 /\ ~w.first
  /\ w.left = Text(m)

LEMMA BeginMacroStarts ==
  ASSUME LocksInv, NEW t \in Threads, NEW s \in Statements, BeginMacro(t, s)
  PROVE  \E m \in Nat : \E w : StartsWith(t, m, w) /\ w.pc = "initialize"
                            /\ w = Writer(m, s.level, construct(s), Text(m))
<1>1. Reach(t, s) /\ Gate(s).pass /\ s.kind = "macro"
  BY DEF BeginMacro
<1>2. PICK m \in Nat : Remembers(m, s, "pass")
  BY <1>1, ReachDoes
<1>3. Ids(m)' = construct(s) /\ begun'[m].level = s.level
  BY <1>1, <1>2, Remembered
<1>4. PICK w : w = Writer(m, s.level, construct(s), Text(m))
  OBVIOUS
<1>5. stack' = [stack EXCEPT ![t] = <<w>>]
  BY <1>2, <1>4 DEF BeginMacro, Remembers
<1>6. /\ w.msg = m /\ w.ids = construct(s) /\ w.level = s.level /\ w.pc = "initialize"
      /\ w.i = 1 /\ ~w.first /\ w.left = Text(m)
  BY <1>4 DEF Writer
<1>7. Continues /\ stack[t] = <<>>
  BY <1>1, ReachDoes
<1> QED  BY <1>2, <1>3, <1>4, <1>5, <1>6, <1>7 DEF StartsWith, Remembers

LEMMA BeginCallStarts ==
  ASSUME LocksInv, NEW t \in Threads, NEW s \in Statements, BeginCall(t, s)
  PROVE  \E m \in Nat : \E w :
           /\ StartsWith(t, m, w) /\ w.pc = "format" /\ w.logger = s.ids[1]
           /\ w.ids = <<s.ids[1]>> /\ s.ids[1] \in Registered
           /\ CanLock(t, s.ids[1])
<1>1. Reach(t, s) /\ s.kind # "macro" /\ CanLock(t, s.ids[1])
  BY DEF BeginCall
<1>2. Gate(s).pass
  <2>1. s.gate = "always"
    BY <1>1, LogDispatchAssumption
  <2> QED  BY <2>1 DEF Gate
<1>3. PICK m \in Nat : Remembers(m, s, "pass")
  BY <1>1, <1>2, ReachDoes
<1>4. Ids(m)' = <<s.ids[1]>> /\ begun'[m].level = s.level
  BY <1>1, <1>3, Remembered
<1>5. PICK b : b = (s.kind = "surplus")
  OBVIOUS
<1>6. PICK l : l = s.ids[1]
  OBVIOUS
<1>7. PICK n : n = Writer(m, s.level, <<l>>, Text(m))
  OBVIOUS
<1>8. PICK w : w = [n EXCEPT !.pc = "format", !.logger = l, !.surplus = b]
  OBVIOUS
<1>9. stack' = [stack EXCEPT ![t] = <<w>>]
  BY <1>3, <1>5, <1>6, <1>7, <1>8, Zenon DEF BeginCall, Remembers
<1>10. /\ w.msg = m /\ w.ids = <<l>> /\ w.level = s.level /\ w.pc = "format"
       /\ w.i = 1 /\ ~w.first /\ w.left = Text(m) /\ w.logger = l
  BY <1>7, <1>8 DEF Writer
<1>11. Continues /\ stack[t] = <<>>
  BY <1>1, ReachDoes
<1>12. l \in Registered
  BY <1>1, <1>6, LogDispatchAssumption
<1> QED  BY <1>1, <1>3, <1>4, <1>6, <1>9, <1>10, <1>11, <1>12 DEF StartsWith, Remembers

\* Nothing happens to the other threads when one begins a statement.
LEMMA IdentifiedBegin ==
  ASSUME LocksInv, Identified, NEW t \in Threads, NEW m, NEW w, StartsWith(t, m, w)
  PROVE  /\ Others(t) /\ Identified'
         /\ stack'[t] # <<>> /\ ~Nested(t)' /\ Main(t)' = w /\ Top(t)' = w
<1>1. Stacks
  BY DEF LocksInv
<1>2. Others(t) /\ stack'[t] # <<>> /\ ~Nested(t)' /\ Main(t)' = w /\ Top(t)' = w
  BY <1>1, BeginShape DEF StartsWith
<1>3. ASSUME NEW u \in Threads  PROVE Identity(u)'
  <2>1. CASE u = t
    BY <1>2, <2>1 DEF Identity, StartsWith
  <2>2. CASE u # t
    BY <1>2, <2>2, IdentityOfOthers DEF Identified, StartsWith
  <2> QED  BY <2>1, <2>2
<1>4. ASSUME NEW u \in Threads \ {t}, stack'[u] # <<>>
      PROVE  stack[u] # <<>> /\ Main(u)'.msg = Main(u).msg /\ Main(u)'.msg # m
  <2>1. stack'[u] = stack[u] /\ Main(u)' = Main(u)
    BY <1>2, OthersShape
  <2>2. Main(u).msg \in DOMAIN begun
    BY <1>4, <2>1 DEF Identified, Identity
  <2> QED  BY <1>4, <2>1, <2>2 DEF StartsWith
<1>5. Main(t)'.msg = m
  BY <1>2 DEF StartsWith
<1>6. Apart'
  <2>1. SUFFICES ASSUME NEW u \in Threads, NEW v \in Threads \ {u},
                        stack'[u] # <<>>, stack'[v] # <<>>
                 PROVE  Main(u)'.msg # Main(v)'.msg
    BY DEF Apart
  <2>2. CASE u = t
    BY <1>4, <1>5, <2>1, <2>2
  <2>3. CASE v = t
    BY <1>4, <1>5, <2>1, <2>3
  <2>4. CASE u # t /\ v # t
    <3>1. Main(u).msg # Main(v).msg
      BY <1>4, <2>1, <2>4 DEF Identified, Apart
    <3> QED  BY <1>4, <2>1, <2>4, <3>1
  <2> QED  BY <2>2, <2>3, <2>4
<1> QED  BY <1>2, <1>3, <1>6 DEF Identified

LEMMA IdentifiedSkip ==
  ASSUME LocksInv, Identified, NEW t \in Threads, stack[t] = <<>>, UNCHANGED stack, Continues
  PROVE  Identified'
<1>1. Others(t)
  BY DEF Others
<1>2. ASSUME NEW u \in Threads  PROVE Identity(u)'
  <2>1. CASE u = t
    BY <2>1 DEF Identity
  <2>2. CASE u # t
    BY <1>1, <2>2, IdentityOfOthers DEF Identified
  <2> QED  BY <2>1, <2>2
<1>3. Apart'
  BY DEF Identified, Apart, Main
<1> QED  BY <1>2, <1>3 DEF Identified

\* The stream of a logger that nobody has locked, or left locked, is empty.
LEMMA LoggerFree ==
  ASSUME LocksInv, NEW t \in Threads, Holds(t) = None, NEW l \in Loggers, CanLock(t, l),
         l \notin leaked
  PROVE  stream[l] = <<>>
<1>1. LoggerLock(l) /\ None \notin Loggers /\ lock[l].count \in Nat
  BY LockTypes
<1>2. lock[l].holder # t
  BY <1>1 DEF LoggerLock
<1>3. lock[l].holder = None
  BY <1>2 DEF CanLock
<1> QED  BY <1>1, <1>3 DEF LoggerLock

LEMMA TextOfCall ==
  ASSUME LocksInv, Known, NEW t \in Threads, Holds(t) = None,
         NEW l \in Registered, CanLock(t, l), UNCHANGED <<stream, leaked>>,
         NEW w, w.ids = <<l>>, w.i = 1, w.pc = "format", w.logger = l, ~w.first,
         w.left \in Seq(Piece)
  PROVE  WriterOK(w, w.left)'
<1>1. l \in Loggers
  BY LogDispatchAssumption
<1>2. Here(w) = l
  BY DEF Here
<1>3. Exists(l)
  BY DEF Known
<1>4. ~Started(w)
  BY DEF Started, Sending
<1>5. Stationed(w)'
  BY <1>2, <1>3, <1>4 DEF Stationed, Sending
<1>6. ASSUME Clean(w)'  PROVE Content(w, w.left)'
  <2>1. l \notin leaked
    <3>1. 1 \in DOMAIN w.ids /\ w.ids[1] = l
      OBVIOUS
    <3> QED  BY <1>6, <3>1 DEF Clean
  <2>2. stream[l] = <<>>
    BY <1>1, <2>1, LoggerFree
  <2>3. stream'[w.logger] \o w.left = w.left
    BY <2>2, ConcatEmptySeq
  <2> QED  BY <1>4, <2>3 DEF Content
<1> QED  BY <1>5, <1>6 DEF WriterOK

LEMMA TextsBegin ==
  ASSUME LocksInv, LocksInv', Known, NEW t \in Threads,
         \A u \in Threads : Texts(u), NEW s \in Statements,
         Skip(t, s) \/ BeginMacro(t, s) \/ BeginCall(t, s)
  PROVE  \A u \in Threads : Texts(u)'
<1>1. Reach(t, s)
  BY DEF Skip, BeginMacro, BeginCall
<1>2. UNCHANGED <<stream, leaked, registered>> /\ stack[t] = <<>>
  BY <1>1, ReachDoes
<1>3. OwnStream(t)
  BY <1>2 DEF OwnStream
<1>4. Others(t) => \A u \in Threads \ {t} : Texts(u)'
  BY <1>2, <1>3, TextsOfOthers
<1>5. ASSUME NEW m \in Nat, NEW w, StartsWith(t, m, w), WriterOK(w, Text(m))'
      PROVE  Others(t) /\ Texts(t)'
  <2>1. Others(t) /\ stack'[t] # <<>> /\ ~Nested(t)' /\ Main(t)' = w
    BY <1>5, BeginShape DEF StartsWith, LocksInv
  <2>2. WriterOK(w, Text(w.msg))'
    BY <1>5 DEF StartsWith
  <2> QED  BY <2>1, <2>2 DEF Texts
<1>6. CASE Skip(t, s)
  <2>1. stack' = stack
    BY <1>6 DEF Skip
  <2>2. Others(t) /\ Texts(t)'
    BY <1>2, <2>1 DEF Others, Texts
  <2> QED  BY <1>4, <2>2
<1>7. CASE BeginMacro(t, s)
  <2>1. PICK m, w : /\ m \in Nat
                   /\ StartsWith(t, m, w)
                   /\ w = Writer(m, s.level, construct(s), Text(m))
    BY <1>7, BeginMacroStarts
  <2>2. WriterOK(w, Text(m))'
    BY <2>1, TextOfNew
  <2> QED  BY <1>4, <1>5, <2>1, <2>2
<1>8. CASE BeginCall(t, s)
  <2>1. PICK l : l = s.ids[1]
    OBVIOUS
  <2>2. PICK m, w :
          /\ m \in Nat /\ StartsWith(t, m, w) /\ w.pc = "format" /\ w.logger = l
          /\ w.ids = <<l>> /\ l \in Registered /\ CanLock(t, l)
    BY <1>8, <2>1, BeginCallStarts
  <2>3. Holds(t) = None
    BY <1>1, ReachTypes
  <2>4. w.left = Text(m) /\ Text(m) \in Seq(Piece) /\ w.i = 1 /\ ~w.first
    BY <2>2, MessageTexts DEF StartsWith
  <2>5. WriterOK(w, Text(m))'
    BY <1>2, <2>2, <2>3, <2>4, TextOfCall
  <2> QED  BY <1>4, <1>5, <2>2, <2>5
<1> QED  BY <1>6, <1>7, <1>8

-----------------------------------------------------------------------------
(* What a step does to the lines.                                          *)

\* A Writer whose line, if it has one, is written; and one that is at a logger
\* whose turn is over, or that does not exist.
Ended == {"flush", "done", "next"}
Quits(v) == v.pc \in Ended \/ (v.pc \in {"stream", "process"} /\ v.logger = None)

\* The Writer w at work in t becomes v, at the same logger and before or after its
\* line; is refused by its logger; writes its line; or goes on to the next logger.
Passes(t, w, v) ==
  /\ Become(t, v) /\ Kin(v, w) /\ v.i = w.i /\ v.pc # "abort" /\ w.pc # "abort"
  /\ v.pc \in Ended <=> w.pc \in Ended
  /\ v.pc \in {"flush", "done"} => w.pc \in {"flush", "done"}
  /\ Quits(v) <=> Quits(w)
  /\ UNCHANGED lines

Refused(t, w, v) ==
  /\ Become(t, v) /\ Kin(v, w) /\ v.i = w.i /\ v.pc = "next"
  /\ w.pc = "process" /\ ~w.proceed
  /\ UNCHANGED lines

Wrote(t, w, v) ==
  /\ Become(t, v) /\ Kin(v, w) /\ v.i = w.i /\ v.pc \in {"flush", "done"}
  /\ w.pc = "write"
  /\ lines' = lines (+) SetToBag({Line(w.msg, w.logger, w.level, stream[w.logger])})

Proceeded(t, w, v) ==
  /\ Become(t, v) /\ Kin(v, w) /\ v.i = w.i + 1 /\ v.pc = "initialize"
  /\ w.pc = "next" /\ w.i < Len(w.ids)
  /\ UNCHANGED lines

\* The Writer ends, with or without the logger of its call left locked, or starts
\* a note.
EndedAll(t, w) == Pop(t) /\ w.pc = "next" /\ ~(w.i < Len(w.ids)) /\ UNCHANGED <<lines, leaked>>

EndedLocked(t, w) ==
  Pop(t) /\ w.pc = "format" /\ leaked' = leaked \cup {w.logger} /\ UNCHANGED lines

Missed(t, w, v) ==
  /\ Starts(t, v) /\ v.i = w.i /\ v.pc \in {"stream", "process"} /\ v.logger = None
  /\ w.pc = "initialize"
  /\ UNCHANGED lines

WasFatal(t, w, v) ==
  Starts(t, v) /\ v.pc = "abort" /\ w.pc = "done" /\ w.level = "Fatal" /\ UNCHANGED lines

LEMMA Effects ==
  ASSUME LocksInv, NEW t \in Threads, Step(t), NEW w, w = Top(t)
  PROVE  \/ \E v : Passes(t, w, v)
         \/ \E v : Refused(t, w, v)
         \/ \E v : Wrote(t, w, v)
         \/ \E v : Proceeded(t, w, v)
         \/ EndedAll(t, w)
         \/ EndedLocked(t, w)
         \/ \E v : Missed(t, w, v)
         \/ \E v : WasFatal(t, w, v)
         \/ Abort(t)
<1>1. /\ w \in Writers /\ stack[t] # <<>> /\ None \notin Loggers
      /\ w.proceed \/ w.pc = "format" => w.logger # None
  <2>1. stack[t] # <<>> /\ Stacks
    BY Turns DEF LocksInv
  <2>2. w \in Writers
    BY <2>1, StackShape
  <2>3. None \notin Loggers
    BY LogDispatchAssumption
  <2> QED  BY <2>1, <2>2, <2>3 DEF Writers
<1>2. CASE Format(t)
  <2>1. w.pc = "format" /\ UNCHANGED lines
    BY <1>2 DEF Format, At, output
  <2>2. ASSUME NEW v, Become(t, v), Stays(v, w), v.pc = "format" \/ v.pc = "process",
               v.logger = w.logger
        PROVE  Passes(t, w, v)
    BY <1>1, <2>1, <2>2 DEF Passes, Stays, Quits, Ended
  <2>3. ASSUME Pop(t), leaked' = leaked \cup {w.logger}
        PROVE  EndedLocked(t, w)
    BY <2>1, <2>3 DEF EndedLocked
  <2> QED  BY <1>2, <2>2, <2>3, FormatDoes
<1>3. CASE InitializeLogger(t)
  <2>1. w.pc = "initialize" /\ UNCHANGED lines
    BY <1>3 DEF InitializeLogger, At, output
  <2>2. PICK v : /\ Become(t, v) /\ Stays(v, w) /\ v.pc = AfterInitialize(w)
                 /\ v.logger = Here(w)
    BY <1>3, InitializeLoggerDoes
  <2>3. v.logger # None
    BY <1>1, <2>2, HereTypes
  <2>4. v.pc \in {"stream", "process"}
    BY <2>2, AfterIs
  <2>5. Passes(t, w, v)
    BY <2>1, <2>2, <2>3, <2>4 DEF Passes, Stays, Quits, Ended
  <2> QED  BY <2>5
<1>4. CASE InitializeNull(t)
  <2>1. w.pc = "initialize" /\ UNCHANGED lines
    BY <1>4 DEF InitializeNull, At, output
  <2>2. PICK v : /\ Nest(t, v, Writer(w.msg, "Debug", <<DefaultId>>, Note(w.msg)))
                 /\ Stays(v, w) /\ v.pc = AfterInitialize(w) /\ v.logger = None
    BY <1>4, InitializeNullDoes
  <2>3. v.pc \in {"stream", "process"} /\ v.msg = w.msg
    BY <2>2, AfterIs DEF Stays, Kin
  <2>4. ~Nested(t)
    <3>1. ~Found(w)
      BY <1>4, InitializeNullDoes
    <3> QED  BY <1>1, <3>1, StartsAlone
  <2>5. v.pc # "abort"
    BY <2>3
  <2>6. NoteOf(v) = Writer(w.msg, "Debug", <<DefaultId>>, Note(w.msg))
    BY <2>3, <2>5 DEF NoteOf
  <2>7. Starts(t, v)
    BY <2>2, <2>3, <2>4, <2>5, <2>6 DEF Starts, Stays, Waits
  <2>8. Missed(t, w, v)
    BY <2>1, <2>2, <2>3, <2>7 DEF Missed, Stays
  <2> QED  BY <2>8
<1>5. CASE Stream(t)
  <2>1. w.pc = "stream" /\ UNCHANGED lines
    BY <1>5 DEF Stream, At, output
  <2>2. PICK v : /\ Become(t, v) /\ Stays(v, w) /\ v.logger = w.logger
                 /\ v.pc = "stream" \/ v.pc = "process"
    BY <1>5, StreamDoes
  <2>3. Passes(t, w, v)
    BY <2>1, <2>2 DEF Passes, Stays, Quits, Ended
  <2> QED  BY <2>3
<1>6. CASE ProcessDispatch(t)
  <2>1. w.pc = "process" /\ UNCHANGED lines
    BY <1>6 DEF ProcessDispatch, At, output
  <2>2. PICK text : text = Sent(w)
    OBVIOUS
  <2>3. \/ \E v : Become(t, v) /\ Kin(v, w) /\ v.i = w.i /\ v.pc = "dispatch" /\ w.proceed
        \/ \E v : Become(t, v) /\ Stays(v, w) /\ v.pc = "next" /\ ~w.proceed
    BY <1>6, <2>2, ProcessDispatchDoes
  <2>4. ASSUME NEW v, Become(t, v), Kin(v, w), v.i = w.i, v.pc = "dispatch", w.proceed
        PROVE  Passes(t, w, v)
    BY <1>1, <2>1, <2>4 DEF Passes, Quits, Ended
  <2>5. ASSUME NEW v, Become(t, v), Stays(v, w), v.pc = "next", ~w.proceed
        PROVE  Refused(t, w, v)
    BY <2>1, <2>5 DEF Refused, Stays
  <2> QED  BY <2>3, <2>4, <2>5
<1>7. CASE Dispatch(t) \/ Handle(t) \/ Flush(t)
  <2>1. w.pc \in {"dispatch", "handle", "flush"} /\ UNCHANGED lines
    BY <1>7 DEF Dispatch, Handle, Flush, At
  <2>2. PICK v : /\ Become(t, v) /\ Stays(v, w)
                 /\ \/ w.pc = "dispatch" /\ v.pc = "handle"
                    \/ w.pc = "handle" /\ v.pc = "write"
                    \/ w.pc = "write" /\ v.pc \in {"flush", "done"}
                    \/ w.pc = "flush" /\ v.pc = "done"
    BY <1>7, DispatchingDoes
  <2>3. Passes(t, w, v)
    BY <2>1, <2>2 DEF Passes, Stays, Quits, Ended
  <2> QED  BY <2>3
<1>8. CASE Write(t)
  <2>1. w.pc = "write" /\ Stage(t) = "write"
    BY <1>8, AtWork DEF Write, At
  <2>2. m_data = LogMessage(w)
    BY <2>1 DEF LocksInv, DispatchLocks, DispatchLock, Writing
  <2>3. /\ m_data.msg = w.msg /\ m_data.logger = w.logger /\ m_data.level = w.level
        /\ m_data.text = stream[w.logger]
    BY <2>2 DEF LogMessage
  <2>4. lines' = lines (+) SetToBag({Line(w.msg, w.logger, w.level, stream[w.logger])})
    BY <1>8, <2>3 DEF Write
  <2>5. PICK v : Become(t, v) /\ Stays(v, w) /\ v.pc \in {"flush", "done"}
    BY <1>8, <2>1, DispatchingDoes
  <2>6. Wrote(t, w, v)
    BY <2>1, <2>4, <2>5 DEF Wrote, Stays
  <2> QED  BY <2>6
<1>9. CASE Finish(t)
  <2>1. w.pc = "done" /\ UNCHANGED lines
    BY <1>9 DEF Finish, At, output
  <2>2. ASSUME NEW v, Become(t, v), Stays(v, w), v.pc = "next"
        PROVE  Passes(t, w, v)
    BY <2>1, <2>2 DEF Passes, Stays, Quits, Ended
  <2>3. ASSUME w.level = "Fatal",
               NEW v, Nest(t, v, Writer(w.msg, "Warning", <<DefaultId>>, Note(w.msg))),
               Stays(v, w), v.pc = "abort"
        PROVE  WasFatal(t, w, v)
    <3>1. ~Nested(t)
      BY <1>1, <2>3, StartsAlone
    <3>2. v.msg = w.msg /\ v.level = "Fatal" /\ Kin(v, w)
      BY <2>3 DEF Stays, Kin
    <3>3. NoteOf(v) = Writer(w.msg, "Warning", <<DefaultId>>, Note(w.msg))
      BY <2>3, <3>2 DEF NoteOf
    <3> QED  BY <2>1, <2>3, <3>1, <3>2, <3>3 DEF WasFatal, Starts, Waits
  <2> QED  BY <1>9, <2>2, <2>3, FinishDoes
<1>10. CASE NextLogger(t)
  <2>1. w.pc = "next" /\ UNCHANGED lines
    BY <1>10 DEF NextLogger, At, output
  <2>2. \/ \E v : /\ w.i < Len(w.ids) /\ Become(t, v) /\ Kin(v, w) /\ v.i = w.i + 1
                  /\ v.pc = "initialize"
        \/ ~(w.i < Len(w.ids)) /\ Pop(t)
    BY <1>10, NextLoggerDoes
  <2>3. UNCHANGED leaked
    BY <1>10, NextLoggerDoes
  <2> QED  BY <2>1, <2>2, <2>3 DEF Proceeded, EndedAll
<1> QED  BY <1>2, <1>3, <1>4, <1>5, <1>6, <1>7, <1>8, <1>9, <1>10 DEF Step

-----------------------------------------------------------------------------
(* How often each line is written.                                         *)

LEMMA TimesNatural == ASSUME IsABag(lines), NEW r  PROVE Times(r) \in Nat
BY DEF IsABag, Times, BagIn, BagToSet

LEMMA LineAdded ==
  ASSUME IsABag(lines), NEW x, lines' = lines (+) SetToBag({x})
  PROVE  /\ IsABag(lines)' /\ DOMAIN lines' = DOMAIN lines \cup {x}
         /\ \A r : Times(r)' = IF r = x THEN Times(r) + 1 ELSE Times(r)
<1>1. PICK b : b = SetToBag({x})
  OBVIOUS
<1>2. DOMAIN b = {x} /\ b[x] = 1
  BY <1>1 DEF SetToBag
<1>3. lines' = [e \in DOMAIN lines \cup {x} |->
                  (IF e \in DOMAIN lines THEN lines[e] ELSE 0) + (IF e \in {x} THEN b[e] ELSE 0)]
  BY <1>1, <1>2 DEF (+)
<1>4. \A e \in DOMAIN lines : lines[e] \in Nat /\ lines[e] > 0
  BY DEF IsABag
<1>5. DOMAIN lines' = DOMAIN lines \cup {x}
  BY <1>3
<1>6. \A e \in DOMAIN lines' :
        lines'[e] = (IF e \in DOMAIN lines THEN lines[e] ELSE 0) + (IF e = x THEN 1 ELSE 0)
  BY <1>2, <1>3
<1>7. \A e \in DOMAIN lines' : lines'[e] \in Nat /\ lines'[e] > 0
  BY <1>4, <1>5, <1>6
<1>8. IsABag(lines)'
  <2>1. lines' \in [DOMAIN lines' -> {n \in Nat : n > 0}]
    BY <1>3, <1>7
  <2> QED  BY <2>1 DEF IsABag
<1>9. \A r : Times(r)' = IF r = x THEN Times(r) + 1 ELSE Times(r)
  BY <1>4, <1>5, <1>6 DEF Times, BagIn, BagToSet
<1> QED  BY <1>5, <1>8, <1>9

\* The counts stay when no line is written of the message, and the loggers added
\* have none.
LEMMA CountStays ==
  ASSUME NEW m, NEW J, Counts(m, J), NEW K, J \subseteq K,
         \A i \in K : i \notin J => LineAt(m, i) = {},
         UNCHANGED begun, \A r : r.msg = m => Times(r)' = Times(r)
  PROVE  Counts(m, K)'
<1>1. \A i : LineAt(m, i)' = LineAt(m, i)
  BY DEF LineAt, Ids
<1>2. ASSUME NEW r, r.msg = m
      PROVE  Times(r)' = Cardinality({i \in K : r \in LineAt(m, i)'})
  <2>1. {i \in K : r \in LineAt(m, i)'} = {i \in J : r \in LineAt(m, i)}
    BY <1>1
  <2> QED  BY <1>2, <2>1 DEF Counts
<1> QED  BY <1>2 DEF Counts

\* The line of one more logger is written.
LEMMA CountGrows ==
  ASSUME IsABag(lines), NEW m, NEW J, IsFiniteSet(J), Counts(m, J), NEW j, j \notin J,
         NEW x, LineAt(m, j) = {x}, lines' = lines (+) SetToBag({x}), UNCHANGED begun
  PROVE  Counts(m, J \cup {j})'
<1>1. \A i : LineAt(m, i)' = LineAt(m, i)
  BY DEF LineAt, Ids
<1>2. \A r : Times(r)' = IF r = x THEN Times(r) + 1 ELSE Times(r)
  BY LineAdded
<1>3. ASSUME NEW r, r.msg = m
      PROVE  Times(r)' = Cardinality({i \in J \cup {j} : r \in LineAt(m, i)'})
  <2>1. PICK A : A = {i \in J : r \in LineAt(m, i)}
    OBVIOUS
  <2>2. Times(r) = Cardinality(A)
    BY <1>3, <2>1 DEF Counts
  <2>3. IsFiniteSet(A) /\ j \notin A
    BY <2>1, FS_Subset
  <2>4. PICK B : B = {i \in J \cup {j} : r \in LineAt(m, i)'}
    OBVIOUS
  <2>5. CASE r = x
    <3>1. B = A \cup {j}
      BY <1>1, <2>1, <2>4, <2>5
    <3>2. Cardinality(A \cup {j}) = Cardinality(A) + 1
      BY <2>3, FS_AddElement
    <3> QED  BY <1>2, <2>2, <2>4, <2>5, <3>1, <3>2
  <2>6. CASE r # x
    <3>1. B = A
      BY <1>1, <2>1, <2>4, <2>6
    <3> QED  BY <1>2, <2>2, <2>4, <2>6, <3>1
  <2> QED  BY <2>5, <2>6
<1> QED  BY <1>3 DEF Counts

\* The loggers of a Writer are finitely many.
LEMMA ServedFinite ==
  ASSUME NEW w \in Writers, NEW J, J \subseteq DOMAIN w.ids  PROVE IsFiniteSet(J)
<1>1. w.ids \in Seq(Loggers)
  BY HereTypes
<1>2. PICK n \in Nat : DOMAIN w.ids = 1 .. n
  BY <1>1
<1>3. IsFiniteSet(1 .. n)
  BY FS_Interval
<1> QED  BY <1>2, <1>3, FS_Subset

-----------------------------------------------------------------------------
(* Whose turn is over.                                                     *)

LEMMA OverIs ==
  ASSUME LocksInv, NEW t \in Threads, stack[t] # <<>>, Main(t).pc # "abort"
  PROVE  /\ ~Nested(t) => (Over(t) <=> Quits(Main(t)))
         /\ Nested(t) => /\ (Over(t) <=> Top(t).pc \in Ended)
                         /\ Main(t).logger = None /\ Main(t).pc \in {"stream", "process"}
<1>1. ~Nested(t) => (Over(t) <=> Quits(Main(t)))
  BY DEF Over, Quits, Ended
<1>2. ASSUME Nested(t)
      PROVE  Main(t).pc \in {"stream", "process"} /\ Main(t).logger = None
  BY <1>2, StackShape DEF LocksInv, Waits
<1>3. Nested(t) => (Over(t) <=> Top(t).pc \in Ended)
  BY <1>2 DEF Over, Ended
<1> QED  BY <1>1, <1>2, <1>3

-----------------------------------------------------------------------------
(* The lines of the loggers whose turn is over.                            *)

\* The line of the logger a Writer is at.
LEMMA LineOf ==
  ASSUME NEW w, w.ids = Ids(w.msg), w.level = begun[w.msg].level
  PROVE  /\ Takes(Here(w), w.level) =>
              LineAt(w.msg, w.i) =
                {Line(w.msg, Here(w), w.level, LineText(w, Text(w.msg)))}
         /\ Exists(Here(w)) /\ ~Takes(Here(w), w.level) => LineAt(w.msg, w.i) = {}
         /\ ~Exists(Here(w)) =>
              LineAt(w.msg, w.i) = IF <<DefaultId, "Debug">> \in Enabled
                                     THEN {Line(w.msg, DefaultId, "Debug", Note(w.msg))}
                                     ELSE {}
<1>1. PICK id, text : id = Here(w) /\ text = LineText(w, Text(w.msg))
  OBVIOUS
<1>2. LineAt(w.msg, w.i) =
        CASE Takes(id, w.level) -> {Line(w.msg, id, w.level, text)}
          [] ~Exists(id) /\ <<DefaultId, "Debug">> \in Enabled ->
               {Line(w.msg, DefaultId, "Debug", Note(w.msg))}
          [] OTHER -> {}
  BY <1>1 DEF LineAt, LineText, Here
<1>3. Takes(id, w.level) => Exists(id)
  BY DEF Takes
<1> QED  BY <1>1, <1>2, <1>3

\* What the loggers served are after a step, when the statement stays at its logger.
LEMMA ServedKept ==
  ASSUME NEW t \in Threads, NEW v \in Writers, v = Main(t),
         Main(t)'.ids = v.ids, Main(t)'.i = v.i
  PROVE  /\ (Over(t)' <=> Over(t)) => Served(t)' = Served(t)
         /\ ~Over(t) /\ Over(t)' => Served(t)' = Served(t) \cup {v.i} /\ v.i \notin Served(t)
<1>1. v.i \in DOMAIN v.ids /\ v.i \in Nat
  BY HereTypes
<1> QED  BY <1>1 DEF Served

LEMMA OverBecomes ==
  ASSUME LocksInv, NEW t \in Threads, stack[t] # <<>>, Main(t).pc # "abort",
         NEW v, Become(t, v)
  PROVE  Over(t)' <=> IF Nested(t) THEN v.pc \in Ended ELSE Quits(v)
<1>1. /\ stack'[t] # <<>> /\ Nested(t)' = Nested(t) /\ Top(t)' = v
      /\ Main(t)' = IF Nested(t) THEN Main(t) ELSE v
  BY BecomeShape DEF LocksInv
<1>2. CASE Nested(t)
  <2>1. Main(t).pc \in {"stream", "process"} /\ Main(t).logger = None
    BY <1>2, OverIs
  <2> QED  BY <1>1, <1>2, <2>1 DEF Over, Ended
<1>3. CASE ~Nested(t)
  BY <1>1, <1>3 DEF Over, Quits, Ended
<1> QED  BY <1>2, <1>3

\* A fatal statement stays at its end.
LEMMA AbortStays ==
  ASSUME LocksInv, NEW t \in Threads, Step(t), stack'[t] # <<>>, Main(t).pc = "abort"
  PROVE  Main(t)'.pc = "abort"
<1>1. PICK w : w = Top(t)
  OBVIOUS
<1>2. stack[t] # <<>> /\ Stacks
  BY Turns DEF LocksInv
<1>3. ~Nested(t) => w = Main(t)
  BY <1>1, <1>2, StackShape
<1>4. ASSUME NEW v, Become(t, v), w.pc # "abort"  PROVE Main(t)'.pc = "abort"
  <2>1. Nested(t)
    BY <1>3, <1>4
  <2> QED  BY <1>2, <1>4, <2>1, BecomeShape
<1>5. CASE Pop(t)
  <2>1. Nested(t) => Main(t)' = Main(t)
    BY <1>2, <1>5, PopShape
  <2>2. Nested(t)
    BY <1>2, <1>5, PopShape
  <2> QED  BY <2>1, <2>2
<1>6. ASSUME NEW v, Starts(t, v), w.pc # "abort"  PROVE FALSE
  BY <1>3, <1>6 DEF Starts
<1>7. CASE Abort(t)
  BY <1>7 DEF Abort, Main
<1>8. \/ \E v : Become(t, v) /\ w.pc # "abort"
      \/ Pop(t)
      \/ \E v : Starts(t, v) /\ w.pc # "abort"
      \/ Abort(t)
  BY <1>1, Effects DEF Passes, Refused, Wrote, Proceeded, EndedAll, EndedLocked, Missed, WasFatal
<1> QED  BY <1>4, <1>5, <1>6, <1>7, <1>8

\* The Writers of an undisturbed statement have their loggers to themselves.
LEMMA UndisturbedClean ==
  ASSUME LocksInv, NEW t \in Threads, stack[t] # <<>>, Identity(t), Undisturbed(Main(t).msg)
  PROVE  Clean(Main(t)) /\ (Nested(t) => Clean(Top(t)))
<1>1. PICK v, m : v = Main(t) /\ m = v.msg
  OBVIOUS
<1>2. v.ids = Ids(m) /\ leaked \cap (Range(Ids(m)) \cup {DefaultId}) = {}
  BY <1>1 DEF Identity, Undisturbed
<1>3. Clean(v)
  BY <1>2 DEF Clean, Range
<1>4. ASSUME Nested(t)  PROVE Clean(Top(t))
  <2>1. Top(t).ids = <<DefaultId>>
    BY <1>4, StackShape DEF LocksInv, Inner
  <2>2. DefaultId \notin leaked
    BY <1>2
  <2>3. \A i \in DOMAIN <<DefaultId>> : <<DefaultId>>[i] = DefaultId
    OBVIOUS
  <2> QED  BY <2>1, <2>2, <2>3 DEF Clean
<1> QED  BY <1>1, <1>3, <1>4

LEMMA DefaultExists == Exists(DefaultId)
BY LogDispatchAssumption DEF Exists

\* The Writer at work and the one of the statement.
LEMMA AtTheLogger ==
  ASSUME LocksInv, NEW t \in Threads, stack[t] # <<>>, Identity(t), Texts(t),
         Main(t).pc # "abort", NEW v, v = Main(t), NEW w, w = Top(t)
  PROVE  /\ v \in Writers /\ w \in Writers
         /\ v.ids = Ids(v.msg) /\ v.level = begun[v.msg].level /\ v.msg \in DOMAIN begun
         /\ Stationed(v) /\ (Clean(v) => Content(v, Text(v.msg)))
         /\ ~Nested(t) => w = v
         /\ Nested(t) =>
              /\ w.msg = v.msg /\ w.level = "Debug" /\ w.pc \notin {"abort", "format"}
              /\ w.ids = <<DefaultId>> /\ w.i = 1 /\ Here(w) = DefaultId
              /\ Stationed(w) /\ (Clean(w) => Content(w, Note(w.msg)))
              /\ v.pc \in {"stream", "process"} /\ v.logger = None /\ ~Exists(Here(v))
<1>1. /\ v \in Writers /\ w \in Writers /\ (~Nested(t) => w = v)
      /\ Nested(t) => Waits(v) /\ Inner(w)
  BY StackShape DEF LocksInv
<1>2. v.ids = Ids(v.msg) /\ v.level = begun[v.msg].level /\ v.msg \in DOMAIN begun
  BY DEF Identity
<1>3. WriterOK(v, Text(v.msg)) /\ (Nested(t) => WriterOK(w, Note(w.msg)))
  BY DEF Texts
<1>4. Stationed(v) /\ (Clean(v) => Content(v, Text(v.msg)))
  BY <1>3 DEF WriterOK
<1>5. ASSUME Nested(t)
      PROVE  /\ w.msg = v.msg /\ w.level = "Debug" /\ w.pc \notin {"abort", "format"}
             /\ w.ids = <<DefaultId>> /\ w.i = 1 /\ Here(w) = DefaultId
             /\ Stationed(w) /\ (Clean(w) => Content(w, Note(w.msg)))
             /\ v.pc \in {"stream", "process"} /\ v.logger = None /\ ~Exists(Here(v))
  <2>1. w.msg = v.msg /\ w.level = "Debug" /\ w.pc # "abort"
    BY <1>5 DEF Identity
  <2>2. w.ids = <<DefaultId>> /\ w.pc # "format"
    BY <1>1, <1>5 DEF Inner
  <2>3. w.i = 1 /\ Here(w) = DefaultId
    BY <1>5, StartsAlone
  <2>4. Stationed(w) /\ (Clean(w) => Content(w, Note(w.msg)))
    BY <1>3, <1>5 DEF WriterOK
  <2>5. v.pc \in {"stream", "process"} /\ v.logger = None
    BY <1>1, <1>5 DEF Waits
  <2>6. Here(v) \in Loggers /\ None \notin Loggers
    BY <1>1, HereTypes
  <2>7. ~Exists(Here(v))
    BY <1>4, <2>5, <2>6 DEF Stationed
  <2> QED  BY <2>1, <2>2, <2>3, <2>4, <2>5, <2>7
<1> QED  BY <1>1, <1>2, <1>4, <1>5

\* A logger that refuses the message gets no line.
LEMMA RefusedLine ==
  ASSUME LocksInv, NEW t \in Threads, stack[t] # <<>>, Identity(t), Texts(t),
         Main(t).pc # "abort", NEW v, v = Main(t), NEW w, w = Top(t),
         w.pc = "process", ~w.proceed, ~Over(t)
  PROVE  LineAt(v.msg, v.i) = {}
<1>1. CASE ~Nested(t)
  <2>1. v = w /\ Stationed(w) /\ w \in Writers
    BY <1>1, AtTheLogger
  <2>2. w.logger # None
    BY <1>1, <2>1, OverIs DEF Quits
  <2>3. Exists(Here(w)) /\ ~Takes(Here(w), w.level)
    BY <2>1, <2>2 DEF Stationed
  <2>4. v.ids = Ids(v.msg) /\ v.level = begun[v.msg].level
    BY AtTheLogger
  <2> QED  BY <2>1, <2>3, <2>4, LineOf
<1>2. CASE Nested(t)
  <2>1. /\ Stationed(w) /\ w.level = "Debug" /\ Here(w) = DefaultId /\ ~Exists(Here(v))
        /\ v.ids = Ids(v.msg) /\ v.level = begun[v.msg].level
    BY <1>2, AtTheLogger
  <2>2. ~Takes(DefaultId, "Debug")
    BY <2>1 DEF Stationed
  <2>3. <<DefaultId, "Debug">> \notin Enabled
    BY <2>2, DefaultExists DEF Takes
  <2> QED  BY <2>1, <2>3, LineOf
<1> QED  BY <1>1, <1>2

\* What is written is the line of the logger the statement is at.
LEMMA WrittenLine ==
  ASSUME LocksInv, NEW t \in Threads, stack[t] # <<>>, Identity(t), Texts(t),
         Main(t).pc # "abort", NEW v, v = Main(t), NEW w, w = Top(t), w.pc = "write",
         Undisturbed(v.msg)
  PROVE  /\ ~Over(t)
         /\ LineAt(v.msg, v.i) = {Line(w.msg, w.logger, w.level, stream[w.logger])}
<1>1. Clean(v) /\ (Nested(t) => Clean(w))
  BY UndisturbedClean
<1>2. ~Over(t)
  <2>1. CASE ~Nested(t)
    <3>1. v = w
      BY <2>1, AtTheLogger
    <3> QED  BY <2>1, <3>1, OverIs DEF Quits, Ended
  <2>2. CASE Nested(t)
    BY <2>2, OverIs DEF Ended
  <2> QED  BY <2>1, <2>2
<1>3. CASE ~Nested(t)
  <2>1. v = w /\ Stationed(w) /\ Content(w, Text(w.msg))
    BY <1>1, <1>3, AtTheLogger
  <2>2. w.logger = Here(w) /\ Takes(Here(w), w.level)
    BY <2>1 DEF Stationed, Sending
  <2>3. stream[w.logger] = LineText(w, Text(w.msg))
    BY <2>1 DEF Content
  <2>4. LineAt(w.msg, w.i) = {Line(w.msg, Here(w), w.level, LineText(w, Text(w.msg)))}
    <3>1. v.ids = Ids(v.msg) /\ v.level = begun[v.msg].level
      BY AtTheLogger
    <3> QED  BY <2>1, <2>2, <3>1, LineOf
  <2> QED  BY <1>2, <2>1, <2>2, <2>3, <2>4
<1>4. CASE Nested(t)
  <2>1. /\ Stationed(w) /\ Content(w, Note(w.msg)) /\ w.level = "Debug" /\ w.msg = v.msg
        /\ Here(w) = DefaultId /\ w.ids = <<DefaultId>> /\ ~Exists(Here(v))
        /\ v.ids = Ids(v.msg) /\ v.level = begun[v.msg].level
    BY <1>1, <1>4, AtTheLogger
  <2>2. w.logger = DefaultId /\ Takes(DefaultId, "Debug")
    BY <2>1 DEF Stationed, Sending
  <2>3. stream[w.logger] = LineText(w, Note(w.msg))
    BY <2>1 DEF Content
  <2>4. LineText(w, Note(w.msg)) = Note(w.msg)
    BY <2>1, <2>2 DEF LineText
  <2>5. <<DefaultId, "Debug">> \in Enabled
    BY <2>2 DEF Takes
  <2>6. LineAt(v.msg, v.i) = {Line(v.msg, DefaultId, "Debug", Note(v.msg))}
    BY <2>1, <2>5, LineOf
  <2> QED  BY <1>2, <2>1, <2>2, <2>3, <2>4, <2>6
<1> QED  BY <1>3, <1>4

\* A step adds the logger to those served just when it settles its line.
LEMMA CountingOfStep ==
  ASSUME LocksInv, NEW t \in Threads, Step(t), Identity(t), Texts(t), IsABag(lines), Counting(t)
  PROVE  Counting(t)'
<1>1. /\ stack[t] # <<>> /\ Stacks /\ UNCHANGED begun /\ leaked \subseteq leaked'
  BY Turns, StreamsOwn DEF LocksInv
<1>2. SUFFICES ASSUME stack'[t] # <<>>, Main(t)'.pc # "abort",
                      NEW m, m = Main(t)'.msg, NEW J, J = Served(t)', Undisturbed(m)'
               PROVE  Counts(m, J)'
  BY DEF Counting
<1>3. PICK v, w : v = Main(t) /\ w = Top(t)
  OBVIOUS
<1>4. v.pc # "abort"
  BY <1>2, <1>3, AbortStays
<1>5. /\ v \in Writers /\ w \in Writers
      /\ v.ids = Ids(v.msg) /\ v.level = begun[v.msg].level
      /\ ~Nested(t) => w = v
      /\ Nested(t) =>
           /\ w.msg = v.msg /\ w.level = "Debug" /\ w.pc \notin {"abort", "format"}
           /\ w.ids = <<DefaultId>> /\ w.i = 1
           /\ v.pc \in {"stream", "process"} /\ v.logger = None
  BY <1>1, <1>3, <1>4, AtTheLogger
<1>6. m = v.msg /\ Main(t)'.ids = v.ids
  BY <1>2, <1>3, MainKept DEF Kin
<1>7. Undisturbed(m)
  <2>1. Ids(m)' = Ids(m)
    BY <1>1 DEF Ids
  <2> QED  BY <1>1, <1>2, <2>1 DEF Undisturbed
<1>8. Counts(m, Served(t))
  BY <1>1, <1>3, <1>4, <1>6, <1>7 DEF Counting
<1>9. PICK K : K = Served(t)
  OBVIOUS
<1>10. Counts(m, K) /\ IsFiniteSet(K)
  <2>1. K \subseteq DOMAIN v.ids
    BY <1>3, <1>9 DEF Served
  <2> QED  BY <1>5, <1>8, <1>9, <2>1, ServedFinite
<1>11. UNCHANGED lines => \A r : Times(r)' = Times(r)
  BY DEF Times, BagIn, BagToSet
<1>12. ASSUME Served(t)' = Served(t), UNCHANGED lines  PROVE Counts(m, J)'
  BY <1>1, <1>2, <1>9, <1>10, <1>11, <1>12, CountStays
<1>13. ASSUME Main(t)'.i = v.i, Over(t)' <=> Over(t), UNCHANGED lines  PROVE Counts(m, J)'
  BY <1>3, <1>5, <1>6, <1>12, <1>13, ServedKept
<1>14. ASSUME Main(t)'.i = v.i, ~Over(t), Over(t)'
       PROVE  J = K \cup {v.i} /\ v.i \notin K
  BY <1>2, <1>3, <1>5, <1>6, <1>9, <1>14, ServedKept
<1>15. ASSUME NEW v1, Become(t, v1)
       PROVE  /\ v1.i = w.i => Main(t)'.i = v.i
              /\ Over(t) <=> IF Nested(t) THEN w.pc \in Ended ELSE Quits(w)
              /\ Over(t)' <=> IF Nested(t) THEN v1.pc \in Ended ELSE Quits(v1)
  <2>1. Main(t)' = IF Nested(t) THEN v ELSE v1
    BY <1>1, <1>3, <1>15, BecomeShape
  <2>2. Over(t)' <=> IF Nested(t) THEN v1.pc \in Ended ELSE Quits(v1)
    BY <1>1, <1>3, <1>4, <1>15, OverBecomes
  <2>3. Over(t) <=> IF Nested(t) THEN w.pc \in Ended ELSE Quits(w)
    BY <1>1, <1>3, <1>4, <1>5, OverIs
  <2> QED  BY <1>5, <2>1, <2>2, <2>3
<1>16. ASSUME NEW v1, Passes(t, w, v1)  PROVE Counts(m, J)'
  <2>1. /\ Become(t, v1) /\ v1.i = w.i /\ (v1.pc \in Ended <=> w.pc \in Ended)
        /\ (Quits(v1) <=> Quits(w)) /\ UNCHANGED lines
    BY <1>16 DEF Passes
  <2> QED  BY <1>13, <1>15, <2>1
<1>17. ASSUME NEW v1, Refused(t, w, v1)  PROVE Counts(m, J)'
  <2>1. /\ Become(t, v1) /\ v1.i = w.i /\ v1.pc = "next" /\ w.pc = "process" /\ ~w.proceed
        /\ UNCHANGED lines
    BY <1>17 DEF Refused
  <2>2. Over(t)' /\ Main(t)'.i = v.i
    BY <1>15, <2>1 DEF Quits, Ended
  <2>3. CASE Over(t)
    BY <1>13, <2>1, <2>2, <2>3
  <2>4. CASE ~Over(t)
    <3>1. LineAt(m, v.i) = {}
      BY <1>1, <1>3, <1>4, <1>6, <2>1, <2>4, RefusedLine
    <3>2. J = K \cup {v.i}
      BY <1>14, <2>2, <2>4
    <3> QED  BY <1>1, <1>10, <1>11, <2>1, <3>1, <3>2, CountStays
  <2> QED  BY <2>3, <2>4
<1>18. ASSUME NEW v1, Wrote(t, w, v1)  PROVE Counts(m, J)'
  <2>1. PICK x : x = Line(w.msg, w.logger, w.level, stream[w.logger])
    OBVIOUS
  <2>2. /\ Become(t, v1) /\ v1.i = w.i /\ v1.pc \in {"flush", "done"} /\ w.pc = "write"
        /\ lines' = lines (+) SetToBag({x})
    BY <1>18, <2>1 DEF Wrote
  <2>3. Over(t)' /\ Main(t)'.i = v.i
    BY <1>15, <2>2 DEF Quits, Ended
  <2>4. ~Over(t) /\ LineAt(m, v.i) = {x}
    BY <1>1, <1>3, <1>4, <1>6, <1>7, <2>1, <2>2, WrittenLine
  <2>5. J = K \cup {v.i} /\ v.i \notin K
    BY <1>14, <2>3, <2>4
  <2>6. Counts(m, K \cup {v.i})'
    BY <1>1, <1>10, <2>2, <2>4, <2>5, CountGrows
  <2> QED  BY <2>5, <2>6
<1>19. ASSUME NEW v1, Proceeded(t, w, v1)  PROVE Counts(m, J)'
  <2>1. /\ Become(t, v1) /\ v1.i = w.i + 1 /\ v1.pc = "initialize" /\ w.pc = "next"
        /\ w.i < Len(w.ids) /\ UNCHANGED lines
    BY <1>19 DEF Proceeded
  <2>2. ~Nested(t)
    <3>1. SUFFICES ASSUME Nested(t)  PROVE FALSE
      OBVIOUS
    <3>2. w.ids = <<DefaultId>> /\ w.i = 1
      BY <1>5, <3>1
    <3>3. Len(w.ids) = 1
      BY <3>2
    <3> QED  BY <2>1, <3>2, <3>3
  <2>3. Over(t) /\ ~Over(t)'
    BY <1>15, <2>1, <2>2 DEF Quits, Ended
  <2>4. Main(t)' = v1 /\ w = v
    BY <1>1, <1>5, <2>1, <2>2, BecomeShape
  <2>5. Served(t)' = {j \in DOMAIN v.ids : j < v.i + 1}
    BY <1>6, <2>1, <2>3, <2>4 DEF Served
  <2>6. Served(t) = {j \in DOMAIN v.ids : j < v.i \/ j = v.i}
    BY <1>3, <2>3 DEF Served
  <2>7. DOMAIN v.ids \subseteq Nat /\ v.i \in Nat
    <3>1. v.ids \in Seq(Loggers) /\ v.i \in Nat
      BY <1>5, HereTypes
    <3> QED  BY <3>1
  <2>8. Served(t)' = Served(t)
    BY <2>5, <2>6, <2>7
  <2> QED  BY <1>12, <2>1, <2>8
<1>20. CASE Pop(t)
  <2>1. /\ Nested(t) /\ ~Nested(t)' /\ Main(t)' = v
    BY <1>1, <1>2, <1>3, <1>20, PopShape
  <2>2. Over(t)'
    BY <1>5, <2>1 DEF Over
  <2>3. w.pc = "next" /\ UNCHANGED lines
    <3>1. w.pc # "format"
      BY <1>5, <2>1
    <3>2. ASSUME NEW v1, Become(t, v1)  PROVE FALSE
      BY <1>3, <1>20, <3>2, BecomeKin
    <3>3. ASSUME NEW v1, Starts(t, v1)  PROVE FALSE
      BY <2>1, <3>3 DEF Starts
    <3>4. ~Abort(t)
      BY <1>3, <1>5, <2>1 DEF Abort, At
    <3> QED  BY <1>3, <3>1, <3>2, <3>3, <3>4, Effects
                DEF Passes, Refused, Wrote, Proceeded, EndedAll, EndedLocked, Missed, WasFatal
  <2>4. Over(t)
    BY <1>1, <1>3, <1>4, <2>1, <2>3, OverIs DEF Ended
  <2> QED  BY <1>13, <2>1, <2>2, <2>3, <2>4
<1>21. ASSUME NEW v1, Missed(t, w, v1)  PROVE Counts(m, J)'
  <2>1. /\ Nest(t, v1, NoteOf(v1)) /\ ~Nested(t) /\ v1.i = w.i /\ w.pc = "initialize"
        /\ v1.pc \in {"stream", "process"} /\ v1.logger = None /\ UNCHANGED lines
    BY <1>21 DEF Missed, Starts
  <2>2. PICK n : n = NoteOf(v1)
    OBVIOUS
  <2>3. n.pc = "initialize"
    BY <2>2 DEF NoteOf, Writer
  <2>4. Nested(t)' /\ Main(t)' = v1 /\ Top(t)' = n
    BY <1>1, <2>1, <2>2, NestShape
  <2>5. ~Over(t)'
    BY <2>1, <2>3, <2>4 DEF Over
  <2>6. ~Over(t)
    BY <1>1, <1>3, <1>4, <1>5, <2>1, OverIs DEF Quits, Ended
  <2> QED  BY <1>5, <1>13, <2>1, <2>4, <2>5, <2>6
<1>22. ASSUME NEW v1, WasFatal(t, w, v1)  PROVE FALSE
  <2>1. Main(t)' = v1 /\ v1.pc = "abort"
    BY <1>1, <1>22, NestShape DEF WasFatal, Starts
  <2> QED  BY <1>2, <2>1
<1>23. ~Abort(t)
  BY <1>3, <1>4, <1>5 DEF Abort, At
<1> QED  BY <1>3, <1>16, <1>17, <1>18, <1>19, <1>20, <1>21, <1>22, <1>23, Effects
            DEF EndedAll, EndedLocked

-----------------------------------------------------------------------------
(* The lines of the other messages.                                        *)

LEMMA CountKept ==
  ASSUME NEW m, NEW J, Counts(m, J), \A i \in J : LineAt(m, i)' = LineAt(m, i),
         \A r : r.msg = m => Times(r)' = Times(r)
  PROVE  Counts(m, J)'
<1>1. ASSUME NEW r, r.msg = m
      PROVE  Times(r)' = Cardinality({i \in J : r \in LineAt(m, i)'})
  <2>1. {i \in J : r \in LineAt(m, i)'} = {i \in J : r \in LineAt(m, i)}
    OBVIOUS
  <2> QED  BY <1>1, <2>1 DEF Counts
<1> QED  BY <1>1 DEF Counts

\* A message is active while a thread is in its statement.
LEMMA ActiveIs ==
  LocksInv /\ (\A t \in Threads : Identity(t)) =>
    \A m : Active(m) <=> \E t \in Threads : stack[t] # <<>> /\ Main(t).msg = m
<1> SUFFICES ASSUME LocksInv, \A t \in Threads : Identity(t), NEW m
             PROVE  Active(m) <=> \E t \in Threads : stack[t] # <<>> /\ Main(t).msg = m
  OBVIOUS
<1>1. ASSUME NEW t \in Threads, stack[t] # <<>>
      PROVE  /\ \A i \in DOMAIN stack[t] : stack[t][i].msg = Main(t).msg
             /\ 1 \in DOMAIN stack[t]
  <2>1. PICK n \in 1 .. 2 : n = Len(stack[t]) /\ Top(t) = stack[t][n]
    BY <1>1, TopTypes DEF LocksInv
  <2>2. DOMAIN stack[t] = 1 .. n
    <3>1. stack[t] \in Seq(Writers)
      BY DEF LocksInv, Stacks
    <3> QED  BY <2>1, <3>1
  <2>3. n = 2 => stack[t][2].msg = Main(t).msg
    BY <1>1, <2>1 DEF Identity, Nested
  <2>4. \A i \in 1 .. n : i = 1 \/ (i = 2 /\ n = 2)
    BY <2>1
  <2>5. 1 \in 1 .. n
    <3>1. \A k \in 1 .. 2 : 1 \in 1 .. k
      OBVIOUS
    <3> QED  BY <3>1
  <2> QED  BY <2>2, <2>3, <2>4, <2>5 DEF Main
<1>2. ASSUME Active(m)
      PROVE  \E t \in Threads : stack[t] # <<>> /\ Main(t).msg = m
  <2>1. PICK t \in Threads : \E i \in DOMAIN stack[t] : stack[t][i].msg = m
    BY <1>2 DEF Active
  <2>2. stack[t] # <<>>
    BY <2>1
  <2> QED  BY <1>1, <2>1, <2>2
<1>3. ASSUME NEW t \in Threads, stack[t] # <<>>, Main(t).msg = m
      PROVE  Active(m)
  BY <1>1, <1>3 DEF Active
<1> QED  BY <1>2, <1>3

LEMMA ActiveNext ==
  ASSUME LocksInv', \A t \in Threads : Identity(t)'
  PROVE  \A m : Active(m)' <=> \E t \in Threads : stack'[t] # <<>> /\ Main(t)'.msg = m
<1>1. (LocksInv /\ (\A t \in Threads : Identity(t)) =>
         \A m : Active(m) <=> \E t \in Threads : stack[t] # <<>> /\ Main(t).msg = m)'
  BY ActiveIs, PTL
<1> QED  BY <1>1

\* A step writes lines of no other message.
LEMMA LinesOf ==
  ASSUME LocksInv, NEW t \in Threads, Step(t), Identity(t)
  PROVE  \/ UNCHANGED lines
         \/ \E x : x.msg = Main(t).msg /\ lines' = lines (+) SetToBag({x})
<1>1. PICK w : w = Top(t)
  OBVIOUS
<1>2. stack[t] # <<>> /\ Stacks
  BY Turns DEF LocksInv
<1>3. w.msg = Main(t).msg
  BY <1>1, <1>2, StackShape DEF Identity
<1>4. ASSUME NEW v, Wrote(t, w, v)
      PROVE  \E x : x.msg = Main(t).msg /\ lines' = lines (+) SetToBag({x})
  <2>1. PICK x : x = Line(w.msg, w.logger, w.level, stream[w.logger])
    OBVIOUS
  <2>2. x.msg = w.msg
    BY <2>1 DEF Line
  <2>3. lines' = lines (+) SetToBag({x})
    BY <1>4, <2>1 DEF Wrote
  <2> QED  BY <1>3, <2>2, <2>3
<1>5. Abort(t) => UNCHANGED lines
  BY DEF Abort, output
<1> QED  BY <1>1, <1>4, <1>5, Effects
            DEF Passes, Refused, Proceeded, EndedAll, EndedLocked, Missed, WasFatal

LEMMA TimesOfOthers ==
  ASSUME LocksInv, NEW t \in Threads, Step(t), Identity(t), IsABag(lines),
         NEW m, m # Main(t).msg
  PROVE  \A r : r.msg = m => Times(r)' = Times(r)
<1>1. CASE UNCHANGED lines
  BY <1>1 DEF Times, BagIn, BagToSet
<1>2. ASSUME NEW x, x.msg = Main(t).msg, lines' = lines (+) SetToBag({x})
      PROVE  \A r : r.msg = m => Times(r)' = Times(r)
  BY <1>2, LineAdded
<1> QED  BY <1>1, <1>2, LinesOf

LEMMA LinesOfBegunStep ==
  ASSUME LocksInv, NEW t \in Threads, Step(t), Identity(t), LinesOfBegun
  PROVE  LinesOfBegun'
<1>1. UNCHANGED begun /\ stack[t] # <<>>
  BY Turns
<1>2. Main(t).msg \in DOMAIN begun
  BY <1>1 DEF Identity
<1>3. CASE UNCHANGED lines
  BY <1>1, <1>3 DEF LinesOfBegun, IsABag
<1>4. ASSUME NEW x, x.msg = Main(t).msg, lines' = lines (+) SetToBag({x})
      PROVE  LinesOfBegun'
  <2>1. IsABag(lines)' /\ DOMAIN lines' = DOMAIN lines \cup {x}
    BY <1>4, LineAdded DEF LinesOfBegun
  <2> QED  BY <1>1, <1>2, <1>4, <2>1 DEF LinesOfBegun
<1> QED  BY <1>3, <1>4, LinesOf

LEMMA CountingOfOthers ==
  ASSUME LocksInv, Identified, NEW t \in Threads, Step(t), IsABag(lines),
         NEW u \in Threads \ {t}, Counting(u)
  PROVE  Counting(u)'
<1>1. Others(t) /\ UNCHANGED begun /\ leaked \subseteq leaked' /\ stack[t] # <<>>
  BY MainKept, Turns, StreamsOwn
<1>2. /\ stack'[u] = stack[u] /\ Main(u)' = Main(u) /\ Top(u)' = Top(u)
      /\ Nested(u)' = Nested(u)
  BY <1>1, OthersShape
<1>3. Served(u)' = Served(u)
  BY <1>2 DEF Served, Over
<1>4. SUFFICES ASSUME stack[u] # <<>>, Main(u).pc # "abort", NEW m, m = Main(u).msg,
                      NEW J, J = Served(u), Undisturbed(m)'
               PROVE  Counts(m, J)'
  BY <1>2, <1>3 DEF Counting
<1>5. m # Main(t).msg
  BY <1>1, <1>4 DEF Identified, Apart
<1>6. Undisturbed(m)
  <2>1. Ids(m)' = Ids(m)
    BY <1>1 DEF Ids
  <2> QED  BY <1>1, <1>4, <2>1 DEF Undisturbed
<1>7. Counts(m, J)
  BY <1>4, <1>6 DEF Counting
<1>8. \A i : LineAt(m, i)' = LineAt(m, i)
  BY <1>1 DEF LineAt, Ids
<1>9. \A r : r.msg = m => Times(r)' = Times(r)
  BY <1>5, TimesOfOthers DEF Identified
<1> QED  BY <1>7, <1>8, <1>9, CountKept

\* At the end of a statement the turns of all its loggers are over.
LEMMA CountedStep ==
  ASSUME LocksInv, LocksInv', Identified, Identified', NEW t \in Threads, Step(t),
         Texts(t), LinesOfBegun, Counting(t), Counted
  PROVE  Counted'
<1>1. /\ Others(t) /\ UNCHANGED begun /\ leaked \subseteq leaked' /\ stack[t] # <<>> /\ Stacks
      /\ Identity(t) /\ IsABag(lines)
  BY MainKept, Turns, StreamsOwn DEF LocksInv, Identified, LinesOfBegun
<1>2. \A m : Ids(m)' = Ids(m) /\ \A i : LineAt(m, i)' = LineAt(m, i)
  BY <1>1 DEF LineAt, Ids
<1>3. SUFFICES ASSUME NEW m \in DOMAIN begun, ~Active(m)', Undisturbed(m)'
               PROVE  Counts(m, DOMAIN Ids(m))'
  BY <1>1, <1>2 DEF Counted
<1>4. Undisturbed(m)
  BY <1>1, <1>2, <1>3 DEF Undisturbed
<1>5. PICK D : D = DOMAIN Ids(m) /\ D = DOMAIN Ids(m)'
  BY <1>2
<1>6. SUFFICES Counts(m, D)'
  BY <1>5 DEF Counts
<1>7. CASE Main(t).msg # m
  <2>1. ~Active(m)
    <3>1. SUFFICES ASSUME NEW u \in Threads, stack[u] # <<>>, Main(u).msg = m  PROVE FALSE
      BY ActiveIs DEF Identified
    <3>2. stack'[u] # <<>> /\ Main(u)'.msg = m
      BY <1>1, <1>7, <3>1, OthersShape
    <3> QED  BY <1>3, <3>2, ActiveNext DEF Identified
  <2>2. Counts(m, D)
    BY <1>4, <1>5, <2>1 DEF Counted
  <2>3. \A r : r.msg = m => Times(r)' = Times(r)
    BY <1>1, <1>7, TimesOfOthers
  <2> QED  BY <1>2, <2>2, <2>3, CountKept
<1>8. CASE Main(t).msg = m
  <2>1. stack'[t] = <<>>
    <3>1. SUFFICES ASSUME stack'[t] # <<>>  PROVE FALSE
      OBVIOUS
    <3>2. Main(t)'.msg = m
      BY <1>8, <3>1, MainKept DEF Kin
    <3> QED  BY <1>3, <3>1, <3>2, ActiveNext DEF Identified
  <2>2. ~Nested(t) /\ Pop(t)
    BY <2>1, MainKept
  <2>3. PICK w \in Writers : w = Top(t) /\ w = Main(t)
    BY <1>1, <2>2, StackShape
  <2>4. w.ids = Ids(m) /\ w.msg = m /\ w.i \in Nat /\ w.ids \in Seq(Loggers)
        /\ w.i \in DOMAIN w.ids
    BY <1>1, <1>8, <2>3, HereTypes DEF Identity
  <2>5. EndedAll(t, w) \/ EndedLocked(t, w)
    <3>1. ASSUME NEW v, Become(t, v)  PROVE FALSE
      BY <2>2, <3>1, BecomeKin
    <3>2. ASSUME NEW v, Starts(t, v)  PROVE FALSE
      BY <1>1, <2>1, <3>2, NestShape DEF Starts
    <3>3. ~Abort(t)
      BY <1>1, <2>1 DEF Abort
    <3> QED  BY <2>3, <3>1, <3>2, <3>3, Effects
                DEF Passes, Refused, Wrote, Proceeded, Missed, WasFatal
  <2>6. CASE EndedLocked(t, w)
    <3>1. w.pc = "format" /\ leaked' = leaked \cup {w.logger}
      BY <2>6 DEF EndedLocked
    <3>2. w.logger = Ids(m)[w.i]
      <4>1. Stationed(w)
        BY <1>1, <2>3 DEF Texts, WriterOK
      <4> QED  BY <2>4, <3>1, <4>1 DEF Stationed, Here
    <3>3. w.logger \in Range(Ids(m)')
      BY <1>2, <2>4, <3>2 DEF Range
    <3> QED  BY <1>3, <3>1, <3>3 DEF Undisturbed
  <2>7. CASE EndedAll(t, w)
    <3>1. w.pc = "next" /\ ~(w.i < Len(w.ids)) /\ UNCHANGED lines
      BY <2>7 DEF EndedAll
    <3>2. Over(t)
      BY <2>3, <3>1 DEF Over
    <3>3. Served(t) = DOMAIN w.ids
      <4>1. PICK n \in Nat : n = Len(w.ids) /\ DOMAIN w.ids = 1 .. n
        BY <2>4
      <4>2. w.i = n
        BY <2>4, <3>1, <4>1
      <4>3. \A j \in 1 .. n : j < n \/ j = n
        OBVIOUS
      <4> QED  BY <2>3, <3>2, <4>1, <4>2, <4>3 DEF Served
    <3>4. D = Served(t)
      BY <1>5, <2>4, <3>3
    <3>5. Counts(m, D)
      BY <1>1, <1>4, <2>3, <2>4, <3>1, <3>4 DEF Counting
    <3>6. \A r : Times(r)' = Times(r)
      BY <3>1 DEF Times, BagIn, BagToSet
    <3> QED  BY <1>2, <3>5, <3>6, CountKept
  <2> QED  BY <2>5, <2>6, <2>7
<1> QED  BY <1>7, <1>8

-----------------------------------------------------------------------------
(* The lines when a statement begins.                                      *)

\* Messages that were there keep their loggers, and what is to be written for them.
LEMMA LinesAtKept ==
  ASSUME Continues, NEW m \in DOMAIN begun
  PROVE  Ids(m)' = Ids(m) /\ \A i : LineAt(m, i)' = LineAt(m, i)
<1>1. begun'[m] = begun[m] /\ Ids(m)' = Ids(m)
  BY IdsKept DEF Continues
<1> QED  BY <1>1 DEF LineAt

\* Nothing is written of a message that has not begun.
LEMMA NothingYet ==
  ASSUME LinesOfBegun, UNCHANGED lines, NEW m, m \notin DOMAIN begun
  PROVE  Counts(m, {})'
<1>1. \A r : r.msg = m => Times(r) = 0
  BY DEF LinesOfBegun, Times, BagIn, BagToSet
<1>2. \A r : Times(r)' = Times(r)
  BY DEF Times, BagIn, BagToSet
<1>3. ASSUME NEW r, r.msg = m
      PROVE  Times(r)' = Cardinality({i \in {} : r \in LineAt(m, i)'})
  <2>1. {i \in {} : r \in LineAt(m, i)'} = {}
    OBVIOUS
  <2>2. Cardinality({}) = 0
    BY FS_EmptySet
  <2> QED  BY <1>1, <1>2, <1>3, <2>1, <2>2
<1> QED  BY <1>3 DEF Counts

\* The lines of the messages that were there, for a thread whose stack stays.
LEMMA CountingOfIdle ==
  ASSUME Continues, UNCHANGED <<lines, leaked>>, NEW t \in Threads, Others(t), Identified,
         NEW u \in Threads \ {t}, Counting(u)
  PROVE  Counting(u)'
<1>1. /\ stack'[u] = stack[u] /\ Main(u)' = Main(u) /\ Top(u)' = Top(u)
      /\ Nested(u)' = Nested(u)
  BY OthersShape
<1>2. Served(u)' = Served(u)
  BY <1>1 DEF Served, Over
<1>3. SUFFICES ASSUME stack[u] # <<>>, Main(u).pc # "abort", NEW m, m = Main(u).msg,
                      NEW J, J = Served(u), Undisturbed(m)'
               PROVE  Counts(m, J)'
  BY <1>1, <1>2 DEF Counting
<1>4. m \in DOMAIN begun
  BY <1>3 DEF Identified, Identity
<1>5. Undisturbed(m)
  BY <1>3, <1>4, LinesAtKept DEF Undisturbed
<1>6. Counts(m, J)
  BY <1>3, <1>5 DEF Counting
<1>7. \A r : Times(r)' = Times(r)
  BY DEF Times, BagIn, BagToSet
<1> QED  BY <1>4, <1>6, <1>7, LinesAtKept, CountKept

LEMMA LinesOfBegunKept ==
  ASSUME Continues, UNCHANGED lines, LinesOfBegun  PROVE LinesOfBegun'
BY DEF Continues, LinesOfBegun, IsABag

\* A message that was there and is over now was over before.
LEMMA CountedKept ==
  ASSUME Continues, UNCHANGED <<lines, leaked>>, Counted, NEW m \in DOMAIN begun,
         ~Active(m), Undisturbed(m)'
  PROVE  Counts(m, DOMAIN Ids(m))'
<1>1. Ids(m)' = Ids(m) /\ \A i : LineAt(m, i)' = LineAt(m, i)
  BY LinesAtKept
<1>2. Undisturbed(m)
  BY <1>1 DEF Undisturbed
<1>3. PICK D : D = DOMAIN Ids(m) /\ D = DOMAIN Ids(m)'
  BY <1>1
<1>4. Counts(m, D)
  BY <1>2, <1>3 DEF Counted
<1>5. \A r : Times(r)' = Times(r)
  BY DEF Times, BagIn, BagToSet
<1>6. Counts(m, D)'
  BY <1>1, <1>4, <1>5, CountKept
<1> QED  BY <1>3, <1>6 DEF Counts

LEMMA MainTypes == Stacks => \A t \in Threads : stack[t] # <<>> => Main(t) \in Writers
BY StackShape

LEMMA MainTypesNext ==
  ASSUME Stacks'  PROVE \A t \in Threads : stack'[t] # <<>> => Main(t)' \in Writers
<1>1. (Stacks => \A t \in Threads : stack[t] # <<>> => Main(t) \in Writers)'
  BY MainTypes, PTL
<1> QED  BY <1>1

\* The loggers of a statement that begins all wait for their turn.
LEMMA CountsBegin ==
  ASSUME LocksInv, LocksInv', Identified, NEW t \in Threads, NEW m, NEW w,
         StartsWith(t, m, w), UNCHANGED <<lines, leaked>>,
         DOMAIN begun' = DOMAIN begun \cup {m},
         LinesOfBegun, Counted, \A u \in Threads : Counting(u)
  PROVE  LinesOfBegun' /\ Counted' /\ \A u \in Threads : Counting(u)'
<1>1. /\ Continues /\ m \notin DOMAIN begun /\ w.msg = m /\ w.i = 1 /\ stack[t] = <<>>
      /\ w.pc \in {"initialize", "format"}
  BY DEF StartsWith
<1>2. /\ Others(t) /\ Identified'
      /\ stack'[t] # <<>> /\ ~Nested(t)' /\ Main(t)' = w
  BY IdentifiedBegin
<1>3. LinesOfBegun'
  BY <1>1, LinesOfBegunKept
<1>4. ASSUME NEW u \in Threads \ {t}  PROVE Counting(u)'
  BY <1>1, <1>2, CountingOfIdle
<1>5. Counting(t)'
  <2>1. w \in Writers
    <3>1. Stacks'
      BY DEF LocksInv
    <3> QED  BY <1>2, <3>1, MainTypesNext
  <2>2. Served(t)' = {}
    <3>1. w.ids \in Seq(Loggers)
      BY <2>1, HereTypes
    <3>2. \A j \in DOMAIN w.ids : j \in Nat /\ j > 0
      BY <3>1
    <3>3. ~Over(t)'
      BY <1>1, <1>2 DEF Over
    <3> QED  BY <1>1, <1>2, <3>2, <3>3 DEF Served
  <2>3. Counts(m, {})'
    BY <1>1, NothingYet
  <2> QED  BY <1>1, <1>2, <2>2, <2>3 DEF Counting
<1>6. Counted'
  <2>1. SUFFICES ASSUME NEW k \in DOMAIN begun', ~Active(k)', Undisturbed(k)'
                 PROVE  Counts(k, DOMAIN Ids(k))'
    BY DEF Counted
  <2>2. k # m
    BY <1>1, <1>2, <2>1, ActiveNext DEF Identified
  <2>3. ~Active(k)
    <3>1. SUFFICES ASSUME NEW u \in Threads, stack[u] # <<>>, Main(u).msg = k  PROVE FALSE
      BY ActiveIs DEF Identified
    <3>2. stack'[u] # <<>> /\ Main(u)'.msg = k
      BY <1>1, <1>2, <3>1, OthersShape
    <3> QED  BY <1>2, <2>1, <3>2, ActiveNext DEF Identified
  <2> QED  BY <1>1, <2>1, <2>2, <2>3, CountedKept
<1> QED  BY <1>3, <1>4, <1>5, <1>6

\* A statement whose gate is closed has no loggers.
LEMMA CountsSkip ==
  ASSUME LocksInv, LocksInv', Identified, NEW t \in Threads, NEW s \in Statements, Skip(t, s),
         LinesOfBegun, Counted, \A u \in Threads : Counting(u)
  PROVE  LinesOfBegun' /\ Counted' /\ \A u \in Threads : Counting(u)'
<1>1. /\ Continues /\ stack[t] = <<>> /\ UNCHANGED <<lines, leaked, stack>>
  BY ReachDoes DEF Skip
<1>2. PICK m \in Nat : Remembers(m, s, "stop")
  BY ReachDoes DEF Skip
<1>3. /\ DOMAIN begun' = DOMAIN begun \cup {m} /\ m \notin DOMAIN begun /\ Ids(m)' = <<>>
  BY <1>2, Remembered DEF Remembers
<1>4. Others(t)
  BY <1>1 DEF Others
<1>5. Identified'
  BY <1>1, IdentifiedSkip
<1>6. LinesOfBegun'
  BY <1>1, LinesOfBegunKept
<1>7. \A u \in Threads : Counting(u)'
  <2>1. Counting(t)'
    BY <1>1 DEF Counting
  <2> QED  BY <1>1, <1>4, <2>1, CountingOfIdle
<1>8. Counted'
  <2>1. SUFFICES ASSUME NEW k \in DOMAIN begun', ~Active(k)', Undisturbed(k)'
                 PROVE  Counts(k, DOMAIN Ids(k))'
    BY DEF Counted
  <2>2. CASE k = m
    <3>1. Counts(m, {})'
      BY <1>1, <1>3, NothingYet
    <3>2. DOMAIN Ids(m)' = {}
      BY <1>3
    <3> QED  BY <2>2, <3>1, <3>2 DEF Counts
  <2>3. CASE k # m
    <3>1. ~Active(k)
      BY <1>1, <2>1 DEF Active
    <3> QED  BY <1>1, <1>3, <2>1, <2>3, <3>1, CountedKept
  <2> QED  BY <2>2, <2>3
<1> QED  BY <1>6, <1>7, <1>8

-----------------------------------------------------------------------------
(* The note.                                                               *)

LEMMA NoteIs ==
  ASSUME NEW m
  PROVE  Note(m) # <<>> /\ Head(Note(m)) = <<m, 0>> /\ Tail(Note(m)) = <<>>
         /\ Last(Note(m)) = <<m, 0>>
BY DEF Note, Last

LEMMA NoteAppended ==
  ASSUME NEW m \in Nat, NEW s \in Seq(Piece)  PROVE EndsWithNote(Append(s, Head(Note(m))), m)
<1>1. PICK x \in Piece : x = Head(Note(m)) /\ x = Last(Note(m))
  <2>1. <<m, 0>> \in Piece
    BY DEF Piece
  <2> QED  BY <2>1, NoteIs
<1>2. PICK q : q = Append(s, x)
  OBVIOUS
<1>3. PICK n \in Nat : n = Len(s)
  OBVIOUS
<1>4. q \in Seq(Piece) /\ Len(q) = n + 1 /\ q[n + 1] = x
  BY <1>2, <1>3, AppendProperties
<1>5. q # <<>>
  <2>1. n + 1 # 0 /\ Len(<<>>) = 0
    OBVIOUS
  <2> QED  BY <1>4, <2>1
<1>6. Last(q) = x
  BY <1>4 DEF Last
<1> QED  BY <1>1, <1>2, <1>5, <1>6 DEF EndsWithNote

\* The stream where the note of the Writer w is.
NoteAt(w) ==
  /\ w.pc = "initialize" => w.left = Note(w.msg)
  /\ w.pc = "stream" /\ w.proceed =>
       \/ w.left = Note(w.msg)
       \/ w.left = <<>> /\ EndsWithNote(stream[w.logger], w.msg)
  /\ (w.pc = "process" /\ w.proceed) \/ w.pc \in {"dispatch", "handle", "write"} =>
       EndsWithNote(stream[w.logger], w.msg)

LEMMA NotingIs ==
  \A t \in Threads : Noting(t) <=> (stack[t] # <<>> /\ Nested(t) => \A w \in {Top(t)} : NoteAt(w))
BY DEF Noting, NoteAt

LEMMA NotingNext ==
  \A t \in Threads :
    Noting(t)' <=> (stack'[t] # <<>> /\ Nested(t)' => \A w \in {Top(t)'} : NoteAt(w)')
BY DEF Noting, NoteAt

\* The Writer of a note keeps it, from what is left to its line.
LEMMA NoteOfStep ==
  ASSUME LocksInv, NEW t \in Threads, Step(t), Nested(t), NEW w \in Writers, w = Top(t),
         NoteAt(w), w.i = 1, w.level # "Fatal", Stationed(w), Found(w), w.pc # "format"
  PROVE  \/ \E v : Become(t, v) /\ NoteAt(v)'
         \/ Pop(t)
         \/ Abort(t)
<1>1. /\ w.msg \in Nat /\ stream \in [Loggers -> Seq(Piece)] /\ ~Format(t)
      /\ w.proceed \/ w.pc \in {"dispatch"} \cup Dispatching => w.logger \in Loggers
  <2>1. w.msg \in Nat /\ w.logger \in Loggers \cup {None}
    BY DEF Writers, WriterRecord
  <2>2. w.proceed \/ w.pc \in {"dispatch"} \cup Dispatching => w.logger # None
    BY DEF Writers
  <2>3. stream \in [Loggers -> Seq(Piece)]
    BY DEF LocksInv, Contents
  <2>4. ~Format(t)
    BY DEF Format, At
  <2> QED  BY <2>1, <2>2, <2>3, <2>4
<1>2. CASE InitializeLogger(t)
  <2>1. w.pc = "initialize"
    BY <1>2 DEF InitializeLogger, At
  <2>2. PICK v : /\ Become(t, v) /\ Stays(v, w) /\ v.pc = AfterInitialize(w) /\ v.left = w.left
    <3>1. InitializeLogger(t)
      BY <1>2
    <3>2. PICK x : x = Top(t) /\ x = w
      OBVIOUS
    <3>3. PICK v :
              /\ Become(t, v) /\ Stays(v, x) /\ v.pc = AfterInitialize(x)
              /\ v.logger = Here(x) /\ v.left = x.left
              /\ v.proceed = (<<Here(x), x.level>> \in Enabled)
      BY <3>1, <3>2, InitializeLoggerDoes
    <3> QED  BY <3>2, <3>3
  <2>3. v.pc = "stream" /\ v.left = Note(v.msg)
    BY <2>1, <2>2 DEF AfterInitialize, Stays, Kin, NoteAt
  <2> QED  BY <2>2, <2>3 DEF NoteAt
<1>3. CASE InitializeNull(t)
  BY <1>3, InitializeNullDoes
<1>4. CASE Stream(t)
  <2>1. w.pc = "stream"
    BY <1>4 DEF Stream, At
  <2>2. PICK v :
          /\ Become(t, v) /\ Stays(v, w) /\ v.logger = w.logger /\ v.proceed = w.proceed
          /\ \/ /\ v.pc = "stream" /\ w.proceed /\ w.left # <<>> /\ v.left = Tail(w.left)
                /\ stream' = [stream EXCEPT ![w.logger] = Append(@, Head(w.left))]
             \/ /\ v.pc = "process" /\ (~w.proceed \/ w.left = <<>>)
                /\ UNCHANGED stream
    BY <1>4, StreamDoes
  <2>3. v.msg = w.msg
    BY <2>2 DEF Stays, Kin
  <2>4. CASE v.pc = "stream"
    <3>1. w.left = Note(w.msg)
      BY <2>1, <2>2, <2>4 DEF NoteAt
    <3>2. PICK l \in Loggers : l = w.logger
      BY <1>1, <2>2, <2>4
    <3>3. PICK s \in Seq(Piece) : s = stream[l]
      BY <1>1
    <3>4. PICK text : text = Append(s, Head(Note(w.msg)))
      OBVIOUS
    <3>5. stream'[l] = text
      BY <1>1, <2>2, <2>4, <3>1, <3>2, <3>3, <3>4
    <3>6. EndsWithNote(text, w.msg)
      BY <1>1, <3>4, NoteAppended
    <3>7. EndsWithNote(stream[v.logger], v.msg)'
      BY <2>2, <2>3, <3>2, <3>5, <3>6
    <3>8. v.left = <<>>
      BY <2>2, <2>4, <3>1, NoteIs
    <3> QED  BY <2>2, <2>4, <3>7, <3>8 DEF NoteAt
  <2>5. CASE v.pc = "process"
    <3>1. ASSUME v.proceed  PROVE EndsWithNote(stream[v.logger], v.msg)'
      <4>1. w.left = <<>> /\ w.proceed /\ UNCHANGED stream
        BY <2>2, <2>5, <3>1
      <4>2. EndsWithNote(stream[w.logger], w.msg)
        BY <2>1, <4>1, NoteIs DEF NoteAt
      <4> QED  BY <2>2, <2>3, <4>1, <4>2 DEF EndsWithNote
    <3> QED  BY <2>2, <2>5, <3>1 DEF NoteAt
  <2> QED  BY <2>2, <2>4, <2>5
<1>5. CASE ProcessDispatch(t)
  <2>1. w.pc = "process" /\ ~w.first
    <3>1. w.pc = "process"
      BY <1>5 DEF ProcessDispatch, At
    <3> QED  BY <3>1 DEF Stationed, Started, Sending
  <2>2. PICK text : text = Sent(w)
    OBVIOUS
  <2>3. text = stream[w.logger]
    BY <2>1, <2>2 DEF Sent
  <2>4. \/ \E v :
             /\ Become(t, v) /\ Kin(v, w) /\ v.pc = "dispatch" /\ v.logger = w.logger
             /\ w.proceed /\ stream' = [stream EXCEPT ![w.logger] = text]
        \/ \E v : Become(t, v) /\ v.pc = "next"
    BY <1>5, <2>2, ProcessDispatchDoes
  <2>5. ASSUME NEW v, Become(t, v), Kin(v, w), v.pc = "dispatch", v.logger = w.logger,
               w.proceed, stream' = [stream EXCEPT ![w.logger] = text]
        PROVE  NoteAt(v)'
    <3>1. PICK l \in Loggers : l = w.logger
      BY <1>1, <2>5
    <3>2. stream'[l] = stream[l]
      BY <1>1, <2>3, <2>5, <3>1
    <3>3. EndsWithNote(stream[w.logger], w.msg)
      BY <2>1, <2>5 DEF NoteAt
    <3>4. EndsWithNote(stream[v.logger], v.msg)'
      BY <2>5, <3>1, <3>2, <3>3 DEF EndsWithNote, Kin
    <3> QED  BY <2>5, <3>4 DEF NoteAt
  <2>6. ASSUME NEW v, v.pc = "next"  PROVE NoteAt(v)'
    BY <2>6 DEF NoteAt
  <2> QED  BY <2>4, <2>5, <2>6
<1>6. CASE Dispatch(t) \/ Handle(t) \/ Write(t) \/ Flush(t)
  <2>1. PICK v :
          /\ UNCHANGED stream
          /\ Become(t, v) /\ Stays(v, w) /\ v.logger = w.logger
          /\ \/ w.pc = "dispatch" /\ v.pc = "handle"
             \/ w.pc = "handle" /\ v.pc = "write"
             \/ w.pc = "write" /\ v.pc \in {"flush", "done"}
             \/ w.pc = "flush" /\ v.pc = "done"
    BY <1>6, DispatchingDoes
  <2>2. NoteAt(v)'
    BY <2>1 DEF NoteAt, EndsWithNote, Stays, Kin
  <2> QED  BY <2>1, <2>2
<1>7. CASE Finish(t)
  <2>1. PICK v : Become(t, v) /\ v.pc = "next"
    BY <1>7, FinishDoes
  <2> QED  BY <2>1 DEF NoteAt
<1>8. CASE NextLogger(t)
  <2>1. Pop(t) \/ \E v : w.i < Len(w.ids) /\ Become(t, v)
    BY <1>8, NextLoggerDoes
  <2>2. Inner(w)
    BY StackShape, Turns DEF LocksInv
  <2>3. ~(w.i < Len(w.ids))
    <3>1. w.ids = <<DefaultId>>
      BY <2>2 DEF Inner
    <3>2. Len(w.ids) = 1
      BY <3>1
    <3> QED  BY <3>2
  <2> QED  BY <2>1, <2>3
<1> QED  BY <1>1, <1>2, <1>3, <1>4, <1>5, <1>6, <1>7, <1>8 DEF Step

LEMMA NotingStep ==
  ASSUME LocksInv, NEW t \in Threads, Step(t), Identity(t), Texts(t), Noting(t)
  PROVE  Noting(t)'
<1>1. stack[t] # <<>> /\ Stacks
  BY Turns DEF LocksInv
<1>2. ASSUME NEW v, Starts(t, v)
      PROVE  Noting(t)'
  <2>1. PICK n : n = NoteOf(v)
    OBVIOUS
  <2>2. Top(t)' = n
    BY <1>1, <1>2, <2>1, NestShape DEF Starts
  <2>3. n.pc = "initialize" /\ n.msg = v.msg /\ n.left = Note(v.msg)
    BY <2>1 DEF NoteOf, Writer
  <2>4. NoteAt(n)'
    BY <2>3 DEF NoteAt
  <2> QED  BY <2>2, <2>4, NotingNext
<1>3. CASE Pop(t)
  <2>1. stack'[t] = <<>> \/ ~Nested(t)'
    BY <1>1, <1>3, PopShape
  <2> QED  BY <2>1, NotingNext
<1>4. CASE Abort(t)
  <2>1. UNCHANGED <<stack, stream>>
    BY <1>4 DEF Abort
  <2>2. Top(t)' = Top(t) /\ Nested(t)' = Nested(t)
    BY <2>1 DEF Top, Nested
  <2>3. \A w : NoteAt(w)' = NoteAt(w)
    BY <2>1 DEF NoteAt, EndsWithNote
  <2> QED  BY <2>1, <2>2, <2>3, NotingIs, NotingNext
<1>5. ASSUME NEW v, Goes(t, v)
      PROVE  Noting(t)'
  <2>1. Nested(t)' = Nested(t) /\ Top(t)' = v
    BY <1>1, <1>5, BecomeShape DEF Goes
  <2>2. CASE ~Nested(t)
    BY <2>1, <2>2, NotingNext
  <2>3. CASE Nested(t)
    <3>1. PICK w \in Writers : w = Top(t)
      BY <1>1, StackShape
    <3>2. NoteAt(w)
      BY <1>1, <2>3, <3>1, NotingIs
    <3>3. w.i = 1 /\ w.level # "Fatal" /\ Found(w)
      BY <1>1, <2>3, <3>1, StartsAlone
    <3>4. Stationed(w)
      BY <1>1, <2>3, <3>1 DEF Texts, WriterOK
    <3>5. w.pc # "format"
      BY <1>1, <2>3, <3>1, StackShape DEF Inner
    <3>6. \/ \E v1 : Become(t, v1) /\ NoteAt(v1)'
          \/ Pop(t)
          \/ Abort(t)
      BY <2>3, <3>1, <3>2, <3>3, <3>4, <3>5, NoteOfStep
    <3>7. ASSUME NEW v1, Become(t, v1), NoteAt(v1)'  PROVE Noting(t)'
      <4>1. Top(t)' = v1
        BY <1>1, <3>7, BecomeShape
      <4> QED  BY <3>7, <4>1, NotingNext
    <3> QED  BY <1>3, <1>4, <3>6, <3>7
  <2> QED  BY <2>2, <2>3
<1> QED  BY <1>2, <1>3, <1>4, <1>5, Turns

LEMMA NotingOfOthers ==
  ASSUME LocksInv, NEW t \in Threads, Others(t), OwnStream(t),
         NEW u \in Threads \ {t}, Noting(u)
  PROVE  Noting(u)'
<1>1. /\ stack'[u] = stack[u] /\ Top(u)' = Top(u) /\ Nested(u)' = Nested(u)
  BY OthersShape
<1>2. SUFFICES ASSUME stack[u] # <<>>, Nested(u), NEW w, w = Top(u)
               PROVE  NoteAt(w)'
  BY <1>1, NotingNext
<1>3. NoteAt(w)
  BY <1>2, NotingIs
<1>4. /\ w \in Writers
      /\ w.pc \in Locking => Holds(u) = w.logger
  BY <1>2, TopTypes DEF LocksInv
<1>5. w.logger \in Loggers \/ w.logger = None
  BY <1>4 DEF Writers, WriterRecord
<1>6. w.proceed \/ w.pc \in {"dispatch"} \cup Dispatching => w.logger \in Loggers
  BY <1>4, <1>5 DEF Writers
<1>7. ASSUME w.pc \in Locking, w.logger \in Loggers
      PROVE  stream'[w.logger] = stream[w.logger]
  <2>1. SUFFICES ASSUME stream'[w.logger] # stream[w.logger]  PROVE FALSE
    OBVIOUS
  <2>2. PICK l \in Loggers : l = w.logger
    BY <1>7
  <2>3. Holds(u) = l /\ Holds(t) = l
    BY <1>4, <1>7, <2>1, <2>2 DEF OwnStream
  <2>4. LoggerLock(l)
    BY LockTypes
  <2> QED  BY <2>3, <2>4 DEF LoggerLock
<1>8. (w.pc = "stream" /\ w.proceed) \/ (w.pc = "process" /\ w.proceed)
        \/ w.pc \in {"dispatch", "handle", "write"} =>
          stream'[w.logger] = stream[w.logger]
  BY <1>6, <1>7 DEF Locking, Dispatching
<1> QED  BY <1>3, <1>8 DEF NoteAt, EndsWithNote

-----------------------------------------------------------------------------
(* Fatal messages.                                                         *)

\* What has been written stays.
Grows == DOMAIN lines \subseteq DOMAIN lines' /\ leaked \subseteq leaked'

LEMMA WrittenStays ==
  ASSUME Grows, NEW m
  PROVE  /\ FatalWritten(m) => FatalWritten(m)'
         /\ NoteWritten(m) => NoteWritten(m)'
<1>1. FatalWritten(m) => FatalWritten(m)'
  BY DEF Grows, FatalWritten
<1>2. NoteWritten(m) => NoteWritten(m)'
  BY DEF Grows, NoteWritten, EndsWithNote
<1> QED  BY <1>1, <1>2

LEMMA StepGrows ==
  ASSUME LocksInv, NEW t \in Threads, Step(t), Identity(t), IsABag(lines)
  PROVE  Grows
<1>1. leaked \subseteq leaked'
  BY StreamsOwn
<1>2. ASSUME NEW x, lines' = lines (+) SetToBag({x})
      PROVE  DOMAIN lines \subseteq DOMAIN lines'
  BY <1>2, LineAdded
<1> QED  BY <1>1, <1>2, LinesOf DEF Grows

\* What is to be announced of the Writer v of a statement, and when.
AnnouncedAt(v) == v.level = "Fatal" /\ v.pc \in {"flush", "done", "abort"} => FatalWritten(v.msg)
Noted(t, v) == v.pc = "abort" /\ (Nested(t) => Top(t).pc \in Ended) => NoteWritten(v.msg)

LEMMA AnnouncingIs ==
  \A t \in Threads : Announcing(t) <=>
    (stack[t] # <<>> => \A v \in {Main(t)} : AnnouncedAt(v) /\ Noted(t, v))
BY DEF Announcing, AnnouncedAt, Noted, Ended

LEMMA AnnouncingNext ==
  \A t \in Threads : Announcing(t)' <=>
    (stack'[t] # <<>> => \A v \in {Main(t)'} : AnnouncedAt(v)' /\ Noted(t, v)')
BY DEF Announcing, AnnouncedAt, Noted, Ended

LEMMA AnnouncingOfOthers ==
  ASSUME NEW t \in Threads, Others(t), Grows, NEW u \in Threads \ {t}, Announcing(u)
  PROVE  Announcing(u)'
<1>1. /\ stack'[u] = stack[u] /\ Main(u)' = Main(u) /\ Top(u)' = Top(u)
      /\ Nested(u)' = Nested(u)
  BY OthersShape
<1>2. SUFFICES ASSUME stack[u] # <<>>, NEW v, v = Main(u)
               PROVE  AnnouncedAt(v)' /\ Noted(u, v)'
  BY <1>1, AnnouncingNext
<1>3. AnnouncedAt(v) /\ Noted(u, v)
  BY <1>2, AnnouncingIs
<1>4. /\ FatalWritten(v.msg) => FatalWritten(v.msg)'
      /\ NoteWritten(v.msg) => NoteWritten(v.msg)'
  BY WrittenStays
<1>5. AnnouncedAt(v)'
  BY <1>3, <1>4 DEF AnnouncedAt
<1>6. Noted(u, v)'
  BY <1>1, <1>3, <1>4 DEF Noted
<1> QED  BY <1>5, <1>6

\* The line a Writer writes, when its statement is fatal.
LEMMA FatalLine ==
  ASSUME IsABag(lines), NEW w, NEW text, w.level = "Fatal",
         lines' = lines (+) SetToBag({Line(w.msg, w.logger, w.level, text)})
  PROVE  FatalWritten(w.msg)'
<1>1. PICK x : x = Line(w.msg, w.logger, w.level, text)
  OBVIOUS
<1>2. x.msg = w.msg /\ x.level = "Fatal"
  BY <1>1 DEF Line
<1>3. x \in DOMAIN lines'
  BY <1>1, LineAdded
<1> QED  BY <1>2, <1>3 DEF FatalWritten

LEMMA NoteLine ==
  ASSUME IsABag(lines), NEW w, w.level = "Warning", w.logger = DefaultId,
         NEW text, EndsWithNote(text, w.msg), DefaultId \notin leaked => text = Note(w.msg),
         leaked \subseteq leaked',
         lines' = lines (+) SetToBag({Line(w.msg, w.logger, w.level, text)})
  PROVE  NoteWritten(w.msg)'
<1>1. PICK x : x = Line(w.msg, w.logger, w.level, text)
  OBVIOUS
<1>2. x.msg = w.msg /\ x.level = "Warning" /\ x.logger = DefaultId /\ x.text = text
  BY <1>1 DEF Line
<1>3. x \in DOMAIN lines'
  BY <1>1, LineAdded
<1>4. EndsWithNote(x.text, w.msg) /\ (DefaultId \notin leaked' => x.text = Note(w.msg))
  BY <1>2
<1> QED  BY <1>2, <1>3, <1>4 DEF NoteWritten, EndsWithNote

\* The note of a fatal message.
LEMMA NoteOfFatal ==
  ASSUME LocksInv, NEW t \in Threads, stack[t] # <<>>, Nested(t), Identity(t), Texts(t), Noting(t),
         Main(t).pc = "abort", NEW w, w = Top(t)
  PROVE  /\ w.msg = Main(t).msg /\ w.level = "Warning" /\ Here(w) = DefaultId
         /\ Stationed(w) /\ NoteAt(w)
         /\ DefaultId \notin leaked => Content(w, Note(w.msg))
<1>1. w.msg = Main(t).msg /\ w.level = "Warning"
  BY DEF Identity
<1>2. w.ids = <<DefaultId>>
  BY StackShape DEF LocksInv, Inner
<1>3. Here(w) = DefaultId
  BY StartsAlone
<1>4. Stationed(w) /\ (Clean(w) => Content(w, Note(w.msg)))
  BY DEF Texts, WriterOK
<1>5. DefaultId \notin leaked => Clean(w)
  <2>1. \A i \in DOMAIN <<DefaultId>> : <<DefaultId>>[i] = DefaultId
    OBVIOUS
  <2> QED  BY <1>2, <2>1 DEF Clean
<1>6. NoteAt(w)
  BY NotingIs
<1> QED  BY <1>1, <1>3, <1>4, <1>5, <1>6

LEMMA AnnouncingStep ==
  ASSUME LocksInv, NEW t \in Threads, Step(t), Identity(t), Texts(t), Noting(t),
         IsABag(lines), Announcing(t)
  PROVE  Announcing(t)'
<1>1. stack[t] # <<>> /\ Stacks /\ Grows /\ leaked \subseteq leaked'
  BY Turns, StepGrows, StreamsOwn DEF LocksInv
<1>2. PICK v, w : v = Main(t) /\ w = Top(t) /\ (~Nested(t) => w = v)
  BY <1>1, StackShape
<1>3. AnnouncedAt(v) /\ Noted(t, v)
  BY <1>1, <1>2, AnnouncingIs
<1>4. \A m : /\ FatalWritten(m) => FatalWritten(m)'
             /\ NoteWritten(m) => NoteWritten(m)'
  BY <1>1, WrittenStays
<1>5. AnnouncedAt(v)'
  BY <1>3, <1>4 DEF AnnouncedAt
<1>6. ASSUME NEW x, Become(t, x), ~Nested(t), AnnouncedAt(x)', x.pc # "abort"
      PROVE  Announcing(t)'
  <2>1. Main(t)' = x
    BY <1>1, <1>6, BecomeShape
  <2>2. Noted(t, x)'
    BY <1>6 DEF Noted
  <2> QED  BY <1>6, <2>1, <2>2, AnnouncingNext
<1>7. ASSUME NEW x, Become(t, x), Nested(t),
             v.pc = "abort" /\ x.pc \in Ended => NoteWritten(v.msg)'
      PROVE  Announcing(t)'
  <2>1. Main(t)' = v /\ Top(t)' = x /\ Nested(t)'
    BY <1>1, <1>2, <1>7, BecomeShape
  <2>2. Noted(t, v)'
    BY <1>7, <2>1 DEF Noted
  <2> QED  BY <1>5, <2>1, <2>2, AnnouncingNext
<1>8. ASSUME NEW x, Passes(t, w, x)
      PROVE  Announcing(t)'
  <2>1. /\ Become(t, x) /\ Kin(x, w) /\ x.pc # "abort" /\ (x.pc \in Ended <=> w.pc \in Ended)
        /\ x.pc \in {"flush", "done"} => w.pc \in {"flush", "done"}
    BY <1>8 DEF Passes
  <2>2. CASE ~Nested(t)
    <3>1. x.msg = v.msg /\ x.level = v.level /\ (x.pc \in {"flush", "done"} => v.pc \in {"flush", "done"})
      BY <1>2, <2>1, <2>2 DEF Kin
    <3>2. AnnouncedAt(x)'
      BY <1>3, <1>4, <2>1, <3>1 DEF AnnouncedAt
    <3> QED  BY <1>6, <2>1, <2>2, <3>2
  <2>3. CASE Nested(t)
    <3>1. v.pc = "abort" /\ x.pc \in Ended => NoteWritten(v.msg)'
      BY <1>2, <1>3, <1>4, <2>1, <2>3 DEF Noted
    <3> QED  BY <1>7, <2>1, <2>3, <3>1
  <2> QED  BY <2>2, <2>3
<1>9. ASSUME NEW x, Refused(t, w, x)
      PROVE  Announcing(t)'
  <2>1. Become(t, x) /\ x.pc = "next" /\ w.pc = "process" /\ ~w.proceed
    BY <1>9 DEF Refused
  <2>2. CASE ~Nested(t)
    <3>1. AnnouncedAt(x)'
      BY <2>1 DEF AnnouncedAt
    <3> QED  BY <1>6, <2>1, <2>2, <3>1
  <2>3. CASE Nested(t)
    <3>1. ASSUME v.pc = "abort"  PROVE NoteWritten(v.msg)'
      <4>1. Stationed(w) /\ w.level = "Warning" /\ Here(w) = DefaultId
        BY <1>1, <1>2, <2>3, <3>1, NoteOfFatal
      <4>2. ~Takes(DefaultId, "Warning")
        BY <2>1, <4>1 DEF Stationed
      <4>3. <<DefaultId, "Warning">> \notin Enabled
        BY <4>2, DefaultExists DEF Takes
      <4> QED  BY <4>3 DEF NoteWritten
    <3> QED  BY <1>7, <2>1, <2>3, <3>1
  <2> QED  BY <2>2, <2>3
<1>10. ASSUME NEW x, Wrote(t, w, x)
       PROVE  Announcing(t)'
  <2>1. PICK text : text = stream[w.logger]
    OBVIOUS
  <2>2. /\ Become(t, x) /\ Kin(x, w) /\ x.pc \in {"flush", "done"} /\ w.pc = "write"
        /\ lines' = lines (+) SetToBag({Line(w.msg, w.logger, w.level, text)})
    BY <1>10, <2>1 DEF Wrote
  <2>3. CASE ~Nested(t)
    <3>1. w.level = "Fatal" => FatalWritten(w.msg)'
      BY <2>2, FatalLine
    <3>2. AnnouncedAt(x)'
      BY <2>2, <3>1 DEF AnnouncedAt, Kin
    <3> QED  BY <1>6, <2>2, <2>3, <3>2
  <2>4. CASE Nested(t)
    <3>1. ASSUME v.pc = "abort"  PROVE NoteWritten(v.msg)'
      <4>1. /\ w.msg = v.msg /\ w.level = "Warning" /\ Here(w) = DefaultId
            /\ Stationed(w) /\ NoteAt(w)
            /\ DefaultId \notin leaked => Content(w, Note(w.msg))
        BY <1>1, <1>2, <2>4, <3>1, NoteOfFatal
      <4>2. w.logger = DefaultId /\ Takes(DefaultId, "Warning")
        BY <2>2, <4>1 DEF Stationed, Sending
      <4>3. EndsWithNote(text, w.msg)
        BY <2>1, <2>2, <4>1 DEF NoteAt
      <4>4. LineText(w, Note(w.msg)) = Note(w.msg)
        <5>1. w.ids = <<DefaultId>>
          BY <1>1, <1>2, <2>4, StackShape DEF Inner
        <5>2. w.ids[1] = DefaultId
          BY <5>1
        <5> QED  BY <4>1, <4>2, <5>2 DEF LineText
      <4>5. DefaultId \notin leaked => text = Note(w.msg)
        BY <2>1, <2>2, <4>1, <4>4 DEF Content
      <4> QED  BY <1>1, <2>2, <4>1, <4>2, <4>3, <4>5, NoteLine
    <3> QED  BY <1>7, <2>2, <2>4, <3>1
  <2> QED  BY <2>3, <2>4
<1>11. ASSUME NEW x, Proceeded(t, w, x)
       PROVE  Announcing(t)'
  <2>1. Become(t, x) /\ x.pc = "initialize"
    BY <1>11 DEF Proceeded
  <2>2. AnnouncedAt(x)' /\ x.pc \notin Ended /\ x.pc # "abort"
    BY <2>1 DEF AnnouncedAt, Ended
  <2> QED  BY <1>6, <1>7, <2>1, <2>2
<1>12. CASE Pop(t)
  <2>1. ~Nested(t) => stack'[t] = <<>>
    BY <1>1, <1>12, PopShape
  <2>2. CASE Nested(t)
    <3>1. Main(t)' = v /\ ~Nested(t)'
      BY <1>1, <1>2, <1>12, <2>2, PopShape
    <3>2. w.pc \in Ended
      <4>1. ASSUME NEW x, Become(t, x)  PROVE FALSE
        BY <1>12, <4>1, BecomeKin
      <4>2. ASSUME NEW x, Starts(t, x)  PROVE FALSE
        BY <2>2, <4>2 DEF Starts
      <4>3. w.pc # "format"
        BY <1>1, <1>2, <2>2, StackShape DEF Inner
      <4>4. ~Abort(t)
        BY <1>1, <1>2, <2>2 DEF Abort, At, Identity
      <4> QED  BY <1>2, <4>1, <4>2, <4>3, <4>4, Effects
                  DEF Passes, Refused, Wrote, Proceeded, EndedAll, EndedLocked, Missed, WasFatal,
                      Ended
    <3>3. Noted(t, v)'
      BY <1>2, <1>3, <1>4, <3>1, <3>2 DEF Noted
    <3> QED  BY <1>5, <3>1, <3>3, AnnouncingNext
  <2>3. CASE ~Nested(t)
    BY <2>1, <2>3, AnnouncingNext
  <2> QED  BY <2>2, <2>3
<1>13. ASSUME NEW x, Starts(t, x),
              x.pc \in {"stream", "process"} \/ (x.pc = "abort" /\ w.pc = "done" /\ w.level = "Fatal")
       PROVE  Announcing(t)'
  <2>1. PICK n : n = NoteOf(x)
    OBVIOUS
  <2>2. Main(t)' = x /\ Top(t)' = n /\ Nested(t)' /\ ~Nested(t) /\ x.msg = w.msg
    BY <1>1, <1>2, <1>13, <2>1, NestShape DEF Starts, Kin
  <2>3. n.pc = "initialize"
    BY <2>1 DEF NoteOf, Writer
  <2>4. Noted(t, x)'
    BY <2>2, <2>3 DEF Noted, Ended
  <2>5. AnnouncedAt(x)'
    <3>1. w = v
      BY <1>2, <2>2
    <3>2. w.pc = "done" /\ w.level = "Fatal" => FatalWritten(w.msg)'
      BY <1>3, <1>4, <3>1 DEF AnnouncedAt
    <3> QED  BY <1>13, <2>2, <3>2 DEF AnnouncedAt
  <2> QED  BY <2>2, <2>4, <2>5, AnnouncingNext
<1>14. CASE Abort(t)
  <2>1. UNCHANGED <<stack, lines>>
    BY <1>14 DEF Abort, output
  <2>2. Main(t)' = v /\ Top(t)' = w /\ Nested(t)' = Nested(t)
    BY <1>2, <2>1 DEF Main, Top, Nested
  <2>3. Noted(t, v)'
    BY <1>2, <1>3, <1>4, <2>2 DEF Noted
  <2> QED  BY <1>5, <2>2, <2>3, AnnouncingNext
<1> QED  BY <1>2, <1>8, <1>9, <1>10, <1>11, <1>12, <1>13, <1>14, Effects
            DEF EndedAll, EndedLocked, Missed, WasFatal

LEMMA AbortingStep ==
  ASSUME LocksInv, NEW t \in Threads, Step(t), Identity(t)
  PROVE  Aborting'
<1>1. stack[t] # <<>> /\ ~aborted /\ Stacks
  BY Turns DEF LocksInv
<1>2. CASE Abort(t)
  <2>1. Top(t).pc = "abort" /\ UNCHANGED stack
    BY <1>2 DEF Abort, At
  <2>2. ~Nested(t)
    BY <1>1, <2>1 DEF Identity
  <2>3. Main(t).pc = "abort"
    BY <1>1, <2>1, <2>2, StackShape
  <2> QED  BY <1>1, <2>1, <2>2, <2>3 DEF Aborting, Main, Nested
<1>3. CASE ~Abort(t)
  <2>1. UNCHANGED aborted
    BY <1>3 DEF Step, Format, InitializeLogger, InitializeNull, Stream, ProcessDispatch, Dispatch,
      Handle, Write, Flush, Finish, NextLogger
  <2> QED  BY <1>1, <2>1 DEF Aborting
<1> QED  BY <1>2, <1>3

-----------------------------------------------------------------------------
(* The invariant.                                                          *)

LEMMA DeliveryInit == Init => DeliveryInv
<1> SUFFICES ASSUME Init  PROVE DeliveryInv
  OBVIOUS
<1>1. \A t \in Threads : stack[t] = <<>>
  BY DEF Init
<1>2. DOMAIN begun = {} /\ ~aborted /\ registered = Registered
  BY DEF Init
<1>3. IsABag(lines) /\ DOMAIN lines = {}
  <2>1. lines = EmptyBag
    BY DEF Init
  <2>2. DOMAIN lines = {}
    BY <2>1 DEF EmptyBag, SetToBag
  <2>3. lines = [e \in {} |-> 1]
    BY <2>1 DEF EmptyBag, SetToBag
  <2> QED  BY <2>2, <2>3 DEF IsABag
<1>4. Known
  BY <1>2, LogDispatchAssumption DEF Known, Exists
<1>5. Apart /\ Aborting
  BY <1>1, <1>2 DEF Apart, Aborting
<1>6. Counted /\ LinesOfBegun
  BY <1>2, <1>3 DEF Counted, LinesOfBegun
<1>7. \A t \in Threads : Identity(t) /\ Texts(t)
  BY <1>1 DEF Identity, Texts
<1>8. \A t \in Threads : Counting(t) /\ Noting(t) /\ Announcing(t)
  BY <1>1 DEF Counting, Noting, Announcing
<1> QED  BY <1>4, <1>5, <1>6, <1>7, <1>8 DEF DeliveryInv

LEMMA DeliveryStep ==
  ASSUME LocksInv, LocksInv', DeliveryInv, NEW t \in Threads, Step(t)
  PROVE  DeliveryInv'
<1>1. /\ Known /\ Identified /\ Counted /\ LinesOfBegun /\ IsABag(lines)
      /\ \A u \in Threads : /\ Identity(u) /\ Texts(u) /\ Counting(u) /\ Noting(u)
                            /\ Announcing(u)
  BY DEF DeliveryInv, Identified, LinesOfBegun
<1>2. Others(t) /\ OwnStream(t) /\ leaked \subseteq leaked' /\ Grows
  BY <1>1, MainKept, StreamsOwn, StepGrows
<1>3. Identified'
  BY <1>1, IdentifiedStep
<1>4. Known'
  BY <1>1, KnownStep
<1>5. \A u \in Threads : Texts(u)'
  BY <1>1, <1>2, TextsOfStep, TextsOfOthers
<1>6. \A u \in Threads : Counting(u)'
  BY <1>1, CountingOfStep, CountingOfOthers
<1>7. Counted' /\ LinesOfBegun'
  BY <1>1, <1>3, CountedStep, LinesOfBegunStep
<1>8. \A u \in Threads : Noting(u)'
  BY <1>1, <1>2, NotingStep, NotingOfOthers
<1>9. \A u \in Threads : Announcing(u)'
  BY <1>1, <1>2, AnnouncingStep, AnnouncingOfOthers
<1>10. Aborting'
  BY <1>1, AbortingStep
<1> QED  BY <1>3, <1>4, <1>5, <1>6, <1>7, <1>8, <1>9, <1>10 DEF DeliveryInv, Identified

LEMMA DeliveryBegin ==
  ASSUME LocksInv, LocksInv', DeliveryInv, NEW t \in Threads, NEW s \in Statements,
         Skip(t, s) \/ BeginMacro(t, s) \/ BeginCall(t, s)
  PROVE  DeliveryInv'
<1>1. /\ Known /\ Identified /\ Counted /\ LinesOfBegun /\ Aborting
      /\ \A u \in Threads : /\ Identity(u) /\ Texts(u) /\ Counting(u) /\ Noting(u)
                            /\ Announcing(u)
  BY DEF DeliveryInv, Identified
<1>2. Reach(t, s)
  BY DEF Skip, BeginMacro, BeginCall
<1>3. /\ Continues /\ stack[t] = <<>> /\ ~aborted
      /\ UNCHANGED <<registered, stream, leaked, lines, aborted>>
  BY <1>2, ReachDoes
<1>4. Known' /\ Aborting'
  BY <1>1, <1>3 DEF Known, Aborting
<1>5. OwnStream(t) /\ Grows
  BY <1>3 DEF OwnStream, Grows
<1>6. \A u \in Threads : Texts(u)'
  BY <1>1, TextsBegin
<1>7. Others(t) => \A u \in Threads \ {t} : Noting(u)' /\ Announcing(u)'
  BY <1>1, <1>5, NotingOfOthers, AnnouncingOfOthers
<1>8. CASE Skip(t, s)
  <2>1. UNCHANGED stack
    BY <1>8 DEF Skip
  <2>2. Others(t) /\ Noting(t)' /\ Announcing(t)'
    BY <1>3, <2>1 DEF Others, Noting, Announcing
  <2>3. Identified'
    BY <1>1, <1>3, <2>1, IdentifiedSkip
  <2>4. LinesOfBegun' /\ Counted' /\ \A u \in Threads : Counting(u)'
    BY <1>1, <1>8, CountsSkip
  <2> QED  BY <1>4, <1>6, <1>7, <2>2, <2>3, <2>4 DEF DeliveryInv, Identified
<1>9. ASSUME NEW m, NEW w, StartsWith(t, m, w), DOMAIN begun' = DOMAIN begun \cup {m}
      PROVE  DeliveryInv'
  <2>1. /\ Others(t) /\ Identified' /\ stack'[t] # <<>> /\ ~Nested(t)' /\ Main(t)' = w
    BY <1>1, <1>9, IdentifiedBegin
  <2>2. Noting(t)'
    BY <2>1, NotingNext
  <2>3. Announcing(t)'
    <3>1. w.pc \in {"initialize", "format"}
      BY <1>9 DEF StartsWith
    <3>2. AnnouncedAt(w)' /\ Noted(t, w)'
      BY <3>1 DEF AnnouncedAt, Noted
    <3> QED  BY <2>1, <3>2, AnnouncingNext
  <2>4. LinesOfBegun' /\ Counted' /\ \A u \in Threads : Counting(u)'
    BY <1>1, <1>3, <1>9, CountsBegin
  <2> QED  BY <1>4, <1>6, <1>7, <2>1, <2>2, <2>3, <2>4 DEF DeliveryInv, Identified
<1>10. \A m, w : StartsWith(t, m, w) => DOMAIN begun' = DOMAIN begun \cup {m}
  <2>1. PICK k : DOMAIN begun' = DOMAIN begun \cup {k}
    BY <1>2, ReachDoes DEF Remembers
  <2> QED  BY <2>1 DEF StartsWith
<1>11. CASE BeginMacro(t, s)
  BY <1>9, <1>10, <1>11, BeginMacroStarts
<1>12. CASE BeginCall(t, s)
  BY <1>9, <1>10, <1>12, BeginCallStarts
<1> QED  BY <1>8, <1>11, <1>12

LEMMA DeliveryStutter == DeliveryInv /\ UNCHANGED vars => DeliveryInv'
<1> SUFFICES ASSUME DeliveryInv, UNCHANGED vars  PROVE DeliveryInv'
  OBVIOUS
<1>1. UNCHANGED <<stack, registered, stream, aborted, begun, lines, leaked>>
  BY DEF vars
<1>2. Known' /\ Apart' /\ Aborting'
  BY <1>1 DEF DeliveryInv, Known, Apart, Aborting, Main, Nested
<1>3. LinesOfBegun'
  BY <1>1 DEF DeliveryInv, LinesOfBegun, IsABag
<1>4. \A m : Ids(m)' = Ids(m) /\ \A i : LineAt(m, i)' = LineAt(m, i)
  BY <1>1 DEF Ids, LineAt
<1>5. \A r : Times(r)' = Times(r)
  BY <1>1 DEF Times, BagIn, BagToSet
<1>6. \A m, J : Counts(m, J) => Counts(m, J)'
  BY <1>4, <1>5, CountKept
<1>7. ASSUME NEW t \in Threads
      PROVE  /\ Main(t)' = Main(t) /\ Top(t)' = Top(t) /\ Nested(t)' = Nested(t)
             /\ Served(t)' = Served(t)
  <2>1. Main(t)' = Main(t) /\ Top(t)' = Top(t) /\ Nested(t)' = Nested(t)
    BY <1>1 DEF Main, Top, Nested
  <2> QED  BY <2>1 DEF Served, Over
<1>8. ASSUME NEW t \in Threads
      PROVE  Identity(t)'
  <2>1. PICK v : v = Main(t)
    OBVIOUS
  <2>2. Identity(t)
    BY DEF DeliveryInv
  <2> QED  BY <1>1, <1>4, <1>7, <2>1, <2>2 DEF Identity
<1>9. ASSUME NEW t \in Threads
      PROVE  Texts(t)'
  <2>1. \A v, full : WriterOK(v, full)' = WriterOK(v, full)
    BY <1>1 DEF WriterOK, Stationed, Clean, Content
  <2>2. Texts(t)
    BY DEF DeliveryInv
  <2> QED  BY <1>1, <1>7, <2>1, <2>2 DEF Texts
<1>10. \A m : Undisturbed(m)' = Undisturbed(m)
  BY <1>1, <1>4 DEF Undisturbed
<1>11. ASSUME NEW t \in Threads
       PROVE  Counting(t)'
  <2>1. Counting(t)
    BY DEF DeliveryInv
  <2> QED  BY <1>1, <1>6, <1>7, <1>10, <2>1 DEF Counting
<1>12. Counted'
  <2>1. Counted
    BY DEF DeliveryInv
  <2>2. \A m : Active(m)' = Active(m)
    BY <1>1 DEF Active
  <2>3. SUFFICES ASSUME NEW m \in DOMAIN begun', ~Active(m)', Undisturbed(m)'
                 PROVE  Counts(m, DOMAIN Ids(m))'
    BY DEF Counted
  <2>4. PICK D : D = DOMAIN Ids(m) /\ D = DOMAIN Ids(m)'
    BY <1>4
  <2>5. Counts(m, D)
    BY <1>1, <1>10, <2>1, <2>2, <2>3, <2>4 DEF Counted
  <2>6. Counts(m, D)'
    BY <1>6, <2>5
  <2> QED  BY <2>4, <2>6 DEF Counts
<1>13. ASSUME NEW t \in Threads
       PROVE  Noting(t)' /\ Announcing(t)'
  <2>1. Noting(t) /\ Announcing(t)
    BY DEF DeliveryInv
  <2>2. \A w : NoteAt(w)' = NoteAt(w)
    BY <1>1 DEF NoteAt, EndsWithNote
  <2>3. Grows
    BY <1>1 DEF Grows
  <2>4. \A v : AnnouncedAt(v) /\ Noted(t, v) => AnnouncedAt(v)' /\ Noted(t, v)'
    BY <1>7, <2>3, WrittenStays DEF AnnouncedAt, Noted
  <2> QED  BY <1>1, <1>7, <2>1, <2>2, <2>4, NotingIs, NotingNext, AnnouncingIs, AnnouncingNext
<1> QED  BY <1>2, <1>3, <1>8, <1>9, <1>11, <1>12, <1>13 DEF DeliveryInv

LEMMA DeliveryNext == LocksInv /\ LocksInv' /\ DeliveryInv /\ [Next]_vars => DeliveryInv'
BY DeliveryStep, DeliveryBegin, DeliveryStutter DEF Next, Begin

-----------------------------------------------------------------------------
(* The theorems.                                                           *)

\* Whatever the threads and the other statements do, a statement that is over, and
\* none of whose loggers a call has left locked, has put in the files the line of
\* each of its loggers as often as it names it: the whole text where the level is
\* enabled, the note of a missing logger on the default one, and nothing else.
THEOREM EachLoggerServed == Spec => []Delivered
<1>1. DeliveryInv => Delivered
  <2> SUFFICES ASSUME DeliveryInv, NEW m \in DOMAIN begun, ~Active(m), Undisturbed(m),
                      NEW r \in {q \in BagToSet(lines) : q.msg = m}
                                  \cup UNION {LineAt(m, i) : i \in DOMAIN Ids(m)}
               PROVE  Times(r) = Cardinality({i \in DOMAIN Ids(m) : r \in LineAt(m, i)})
    BY DEF Delivered
  <2>1. Counts(m, DOMAIN Ids(m))
    BY DEF DeliveryInv, Counted
  <2>2. r.msg = m
    <3>1. \A i : \A q \in LineAt(m, i) : q.msg = m
      BY DEF LineAt, Line
    <3> QED  BY <3>1
  <2> QED  BY <2>1, <2>2 DEF Counts
<1> QED  BY <1>1, LocksInit, LocksNext, DeliveryInit, DeliveryNext, PTL DEF Spec

\* The program aborts for a fatal message only after its line is written, and with
\* it the note on the default logger, if that takes warnings.
THEOREM FatalAnnounced == Spec => []AbortIsLogged
<1>1. DeliveryInv => AbortIsLogged
  <2> SUFFICES ASSUME DeliveryInv, aborted
               PROVE  \E m \in DOMAIN begun :
                        begun[m].level = "Fatal" /\ FatalWritten(m) /\ NoteWritten(m)
    BY DEF AbortIsLogged, FatalWritten, NoteWritten, EndsWithNote, BagToSet
  <2>1. PICK t \in Threads : stack[t] # <<>> /\ ~Nested(t) /\ Main(t).pc = "abort"
    BY DEF DeliveryInv, Aborting
  <2>2. Identity(t) /\ Announcing(t)
    BY DEF DeliveryInv
  <2>3. PICK v : v = Main(t)
    OBVIOUS
  <2>4. v.msg \in DOMAIN begun /\ v.level = "Fatal" /\ begun[v.msg].level = "Fatal"
    BY <2>1, <2>2, <2>3 DEF Identity
  <2>5. AnnouncedAt(v) /\ Noted(t, v)
    BY <2>1, <2>2, <2>3, AnnouncingIs
  <2>6. FatalWritten(v.msg) /\ NoteWritten(v.msg)
    BY <2>1, <2>3, <2>4, <2>5 DEF AnnouncedAt, Noted
  <2> QED  BY <2>4, <2>6
<1> QED  BY <1>1, LocksInit, LocksNext, DeliveryInit, DeliveryNext, PTL DEF Spec
=============================================================================
