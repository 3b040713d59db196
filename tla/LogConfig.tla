------------------------------ MODULE LogConfig ------------------------------
(***************************************************************************)
(* The configuration side of easylogging++: Configurations, a list of      *)
(* (level, type, value) entries with Global as the level of defaults;      *)
(* TypedConfigurations, what a logger reads while it logs, built from such *)
(* a list; the registered loggers, which merge lists into their own; and   *)
(* the file streams all of them share.                                     *)
(*                                                                         *)
(* Of the types, Bools stands for the ones kept per level (Enabled,        *)
(* ToStandardOutput; Format and LogFlushThreshold are handled alike) and   *)
(* Shared for SubsecondPrecision and PerformanceTracking, which build()    *)
(* files under Global.  File names carry no date.  There is one size       *)
(* limit, and a file that has reached it is in full.                       *)
(***************************************************************************)
EXTENDS Integers, FiniteSets, SequencesExt

CONSTANTS
  LevelSeq,   \* the levels but Global in the order of forEachLevel: Trace ... Info
  Global,
  Bools,      \* types kept per level, without ToFile
  Shared,     \* types that do not depend on the level
  Files,      \* file names
  DefaultFile,
  Ids,        \* logger ids
  DefaultId,  \* the logger that cannot be removed
  Initial,    \* the loggers the Storage constructor registers
  Null,
  Settings,   \* the entries a program may set in a list of its own
  Overrides,  \* the ones it may set in those of the loggers
  Texts,      \* the configuration texts it may parse
  Globals,    \* the global configuration files it may load
  MaxOps      \* bound on the calls

Levels == Range(LevelSeq)
AllLevels == Levels \cup {Global}
Types == Bools \cup Shared \cup {"ToFile", "Filename", "MaxLogFileSize"}

\* Values are strings of the program: file names, and these.
Trues == {"true", "TRUE", "1"}
Words == Trues \cup {"True", "false", "0", "1k"}

Entry == [level : AllLevels, type : Types \ {"Filename"}, value : Words]
           \cup [level : AllLevels, type : {"Filename"}, value : Files]

\* The maps of a TypedConfigurations, and what a Logger keeps of its configuration:
\* its own list, the list its maps were built from, and the maps.
IsTypedConfigurations(typed) ==
  /\ DOMAIN typed.map = Types \ {"Filename"}
  /\ \A t \in DOMAIN typed.map : DOMAIN typed.map[t] \subseteq AllLevels
  /\ DOMAIN typed.filename = DOMAIN typed.stream /\ DOMAIN typed.stream \subseteq AllLevels
  /\ Range(typed.filename) \subseteq Files

IsLogger(lg) ==
  /\ lg.conf \in Seq(Entry) /\ lg.built \in Seq(Entry)
  /\ IsTypedConfigurations(lg.typed)

\* Texts to parse: lines of some kinds, with values that are words of the program.
IsText(text) ==
  /\ text \in Seq(Range(text))
  /\ \A line \in Range(text) : line.kind = "config" /\ line.type \in Types =>
       \A l \in AllLevels : [level |-> l, type |-> line.type, value |-> line.value] \in Entry

ASSUME LogConfigAssumption ==
  /\ LevelSeq \in Seq(Levels) /\ IsInjective(LevelSeq) /\ LevelSeq # <<>>
  /\ Global \notin Levels
  /\ IsFiniteSet(Bools) /\ IsFiniteSet(Shared) /\ Bools \cap Shared = {}
  /\ {"ToFile", "Filename", "MaxLogFileSize"} \cap (Bools \cup Shared) = {}
  /\ DefaultFile \in Files /\ Null \notin Files /\ Null \notin Nat
  /\ DefaultId \in Initial /\ Initial \subseteq Ids /\ IsFiniteSet(Initial) /\ Null \notin Ids
  /\ Settings \subseteq Entry /\ Overrides \subseteq Entry
  /\ \A text \in Texts : IsText(text)
  /\ \A g \in Globals : /\ g \in Seq(Range(g))
                        /\ \A s \in Range(g) : s.id \in Ids \cup {Null} /\ IsText(s.text)
  /\ MaxOps \in Nat

VARIABLES
  conf,      \* a Configurations object of the program
  defaults,  \* m_defaultConfigurations
  loggers,   \* registered loggers: their list, the list last built, its typed maps
  files,     \* the streams of m_logStreamsReference, the opens so far, full and writable files
  ops

vars == <<conf, defaults, loggers, files, ops>>

\* Maps: map[k] = v, and map.insert(k, v), which keeps what is there.
Empty == [l \in {} |-> Null]
Assign(map, k, v) == [l \in DOMAIN map \cup {k} |-> IF l = k THEN v ELSE map[l]]
Insert(map, k, v) == [l \in DOMAIN map \cup {k} |-> IF l \in DOMAIN map THEN map[l] ELSE v]

-----------------------------------------------------------------------------
(* Configurations.                                                         *)

Configuration(l, t, v) == [level |-> l, type |-> t, value |-> v]

\* RegistryWithPred::get, with the predicate of Configuration.
At(c, l, t) == {i \in DOMAIN c : c[i].level = l /\ c[i].type = t}
hasConfiguration(c, l, t) == At(c, l, t) # {}
Index(c, l, t) == CHOOSE i \in At(c, l, t) : TRUE
Value(c, l, t) == c[Index(c, l, t)].value

setOne(c, l, t, v) ==
  IF hasConfiguration(c, l, t)
    THEN [c EXCEPT ![Index(c, l, t)].value = v]
    ELSE Append(c, Configuration(l, t, v))

unsafeSetGlobally(c, t, v) ==
  FoldLeft(LAMBDA d, l : setOne(d, l, t, v), c, LevelSeq)

unsafeSet(c, l, t, v) ==
  LET d == setOne(c, l, t, v)
  IN  IF l = Global THEN unsafeSetGlobally(d, t, v) ELSE d

\* set repeats the cascade of unsafeSet.
set(c, l, t, v) ==
  LET d == unsafeSet(c, l, t, v)
  IN  IF l = Global THEN unsafeSetGlobally(d, t, v) ELSE d

unsafeSetIfNotExist(c, l, t, v) ==
  IF hasConfiguration(c, l, t) THEN c ELSE unsafeSet(c, l, t, v)

\* Mutant: Global is set last.
setGloballyMut(c, t, v, includeGlobalLevel) ==
  LET d == FoldLeft(LAMBDA e, l : set(e, l, t, v), c, LevelSeq)
  IN  IF includeGlobalLevel THEN set(d, Global, t, v) ELSE d

setGlobally(c, t, v, includeGlobalLevel) ==
  LET d == IF includeGlobalLevel THEN set(c, Global, t, v) ELSE c
  IN  FoldLeft(LAMBDA e, l : set(e, l, t, v), d, LevelSeq)

\* Mutant: what the list already has stays.
setFromBaseMut(c, base) ==
  FoldLeft(LAMBDA d, e : unsafeSetIfNotExist(d, e.level, e.type, e.value), c, base)

setFromBase(c, base) ==
  FoldLeft(LAMBDA d, e : set(d, e.level, e.type, e.value), c, base)

Default(t) ==
  CASE t = "Filename" -> DefaultFile
    [] t = "MaxLogFileSize" -> "0"
    [] OTHER -> "true"

setToDefault(c) ==
  FoldLeft(LAMBDA d, t : setGlobally(d, t, Default(t), TRUE), c, SetToSeq(Types))

\* ToFile (and LogFlushThreshold) have no default here.
setRemainingToDefault(c) ==
  FoldLeft(LAMBDA d, t : unsafeSetIfNotExist(d, Global, t, Default(t)), c,
           SetToSeq(Types \ {"ToFile"}))

\* What convertFromString knows; any other word is Unknown.
KnownLevel(word) == word \in AllLevels
KnownType(word) == word \in Types

\* A line is a comment or empty, a level header, an entry, or neither.
parseLine(p, line) ==
  CASE line.kind = "comment" -> [p EXCEPT !.ok = TRUE]
    [] line.kind = "level" -> [p EXCEPT !.ok = TRUE, !.level = line.level]
    [] line.kind = "config" /\ KnownLevel(p.level) /\ KnownType(line.type) ->
         [p EXCEPT !.ok = TRUE, !.conf = set(@, p.level, line.type, line.value)]
    [] OTHER -> [p EXCEPT !.ok = FALSE]

\* The result of a text is that of its last line.
parseFromText(c, text) ==
  FoldLeft(parseLine, [conf |-> c, level |-> Null, ok |-> FALSE], text)

-----------------------------------------------------------------------------
(* TypedConfigurations.                                                    *)

\* Any other spelling of true is false, and a number with other characters is 0.
getBool(v) == v \in Trues
getULong(v) == IF v = "1" THEN 1 ELSE 0
Typed(t, v) == IF t = "MaxLogFileSize" THEN getULong(v) ELSE getBool(v)

\* Mutant: a value that is there is not updated.
setValueMut(map, l, v) ==
  IF map = Empty THEN Insert(map, Global, v)
  ELSE IF Global \in DOMAIN map /\ map[Global] = v THEN map
  ELSE Insert(map, l, v)

\* The first value is filed under Global, and one equal to Global's nowhere.
setValue(map, l, v) ==
  IF map = Empty THEN Assign(map, Global, v)
  ELSE IF Global \in DOMAIN map /\ map[Global] = v THEN map
  ELSE Assign(map, l, v)

\* unsafeGetConfigByVal and -ByRef; a type that was never set reads as other.
getConfig(map, l, other) ==
  IF l \in DOMAIN map THEN map[l]
  ELSE IF Global \in DOMAIN map THEN map[Global] ELSE other

\* The first pass over the list files each value in the map of its type; entries
\* that name a file wait for the second one.
buildEntry(map, e) ==
  IF e.type = "Filename" THEN map
  ELSE [map EXCEPT ![e.type] =
          setValue(@, IF e.type \in Shared THEN Global ELSE e.level, Typed(e.type, e.value))]

buildMaps(c) == FoldLeft(buildEntry, [t \in Types \ {"Filename"} |-> Empty], c)

\* Mutant: every level opens a stream of its own.
openStreamMut(f, name) ==
  IF name \in f.writable
    THEN [f EXCEPT !.streams = Assign(@, name, f.opens + 1), !.opens = @ + 1]
    ELSE [f EXCEPT !.streams = Assign(@, name, Null)]

\* newFileStream, once per name; a stream that could not be opened stays null.
openStream(f, name) ==
  IF name \in DOMAIN f.streams THEN f
  ELSE IF name \in f.writable
    THEN [f EXCEPT !.streams = Assign(@, name, f.opens + 1), !.opens = @ + 1]
    ELSE [f EXCEPT !.streams = Assign(@, name, Null)]

\* Mutant: ToFile stays as it is without a stream.
insertFileMut(s, e) ==
  LET f == openStream(s.files, e.value)
      l == IF s.typed.filename = Empty THEN Global ELSE e.level
  IN  [files |-> f,
       typed |-> [s.typed EXCEPT !.filename = Insert(@, l, e.value),
                                 !.stream = Insert(@, l, f.streams[e.value])]]

\* s: the typed maps so far and the files.  insert() keeps what is there; a stream
\* opened for a level that has one would be filed wrongly, but no list names a file
\* twice for a level, Global's coming first (GlobalFirst).
insertFile(s, e) ==
  LET f == openStream(s.files, e.value)
      fs == f.streams[e.value]
      l == IF s.typed.filename = Empty THEN Global ELSE e.level
  IN  [files |-> f,
       typed |-> [map |-> IF fs = Null THEN [s.typed.map EXCEPT !["ToFile"] = setValue(@, l, FALSE)]
                          ELSE s.typed.map,
                  filename |-> Insert(s.typed.filename, l, e.value),
                  stream |-> Insert(s.typed.stream, l, fs)]]

\* ... for each entry that names a file.
insertFiles(c, s) ==
  FoldLeft(LAMBDA r, e : IF e.type = "Filename" THEN insertFile(r, e) ELSE r, s, c)

\* Mutant: no limit is a limit of zero.
RolledMut(typed, l, full) ==
  IF getConfig(typed.stream, l, Null) # Null
    THEN {getConfig(typed.filename, l, Null)} \cap full ELSE {}

\* The file that validateFileRolling truncates for a level: a set of at most one.
Rolled(typed, l, full) ==
  IF /\ getConfig(typed.stream, l, Null) # Null
     /\ getConfig(typed.map["MaxLogFileSize"], l, 0) # 0
    THEN {getConfig(typed.filename, l, Null)} \cap full ELSE {}

build(c, f) ==
  LET valued == [map |-> buildMaps(c), filename |-> Empty, stream |-> Empty]
      opened == insertFiles(c, [typed |-> valued, files |-> f])
      limited == {l \in AllLevels : hasConfiguration(c, l, "MaxLogFileSize")
                                      /\ getULong(Value(c, l, "MaxLogFileSize")) # 0}
  IN  [opened EXCEPT !.files.full =
         @ \ UNION {Rolled(opened.typed, l, @) : l \in limited}]

toFile(lg, l) == getConfig(lg.typed.map["ToFile"], l, FALSE)
fileStream(lg, l) == getConfig(lg.typed.stream, l, Null)
filename(lg, l) == getConfig(lg.typed.filename, l, Null)

-----------------------------------------------------------------------------
(* Logger and RegisteredLoggers: operators on w, the loggers and the files. *)

\* Files truncated by flush(level, fs).
flushed(lg, l, full) ==
  IF toFile(lg, l) /\ fileStream(lg, l) # Null THEN Rolled(lg.typed, l, full) ELSE {}

\* configure() on the list c its logger has after the merge.
rebuild(w, id, c) ==
  LET b == build(c, w.files)
  IN  [loggers |-> Assign(w.loggers, id, [conf |-> c, built |-> c, typed |-> b.typed]),
       files |-> b.files]

\* A flush of every level first, when there is something to flush.
flushAllLevels(w, id) ==
  LET lg == w.loggers[id]
  IN  IF id \in DOMAIN w.loggers /\ hasConfiguration(lg.conf, Global, "Filename")
        THEN [w EXCEPT !.files.full = @ \ UNION {flushed(lg, l, @) : l \in Levels}]
        ELSE w

\* configure with another list than the logger's own: a merge, never a reset.
configure(w, id, base) ==
  LET own == IF id \in DOMAIN w.loggers THEN w.loggers[id].conf ELSE <<>>
  IN  rebuild(flushAllLevels(w, id), id, setFromBase(own, base))

reconfigure(w, id) == rebuild(flushAllLevels(w, id), id, w.loggers[id].conf)

\* RegisteredLoggers::get with forceCreation.
get(w, id, d) == IF id \in DOMAIN w.loggers THEN w ELSE configure(w, id, d)

setIn(w, id, e) == [w EXCEPT !.loggers[id].conf = set(@, e.level, e.type, e.value)]

\* What is done to each of the loggers: a merge, or one entry and a rebuild.
configureAll(w, c) ==
  FoldLeft(LAMBDA v, id : configure(v, id, c), w, SetToSeq(DOMAIN w.loggers))

reconfigureAll(w, e) ==
  FoldLeft(LAMBDA v, id : reconfigure(setIn(v, id, e), id), w, SetToSeq(DOMAIN w.loggers))

\* The loggers the constructor of Storage registers.
getInitial(w, d) == FoldLeft(LAMBDA v, id : get(v, id, d), w, SetToSeq(Initial))

\* One section of a global configuration file.  A header whose id has one
\* character does not change the logger (Null here).
section(d, g, s) ==
  LET id == IF s.id = Null THEN g.id ELSE s.id
      w == IF s.id = Null THEN g.w ELSE get(g.w, id, d)
  IN  [id |-> id,
       w |-> IF s.text = <<>> \/ id = Null THEN w
             ELSE configure(w, id, parseFromText(<<>>, s.text).conf)]

parseSections(w, d, sections) ==
  FoldLeft(LAMBDA g, s : section(d, g, s), [id |-> Null, w |-> w], sections)

World == [loggers |-> loggers, files |-> files]
Become(w) == loggers' = w.loggers /\ files' = w.files

Call == ops < MaxOps /\ ops' = ops + 1

-----------------------------------------------------------------------------
(* The program's calls.                                                    *)

\* The constructor of Storage.
Init ==
  /\ conf = <<>> /\ defaults = setToDefault(<<>>) /\ ops = 0
  /\ \E writable \in SUBSET Files :
       LET f == [streams |-> Empty, opens |-> 0, full |-> {}, writable |-> writable]
           w == getInitial([loggers |-> Empty, files |-> f], defaults)
       IN  loggers = w.loggers /\ files = w.files

Set(e) ==
  /\ Call
  /\ conf' = set(conf, e.level, e.type, e.value)
  /\ UNCHANGED <<defaults, loggers, files>>

SetGlobally(e) ==
  /\ Call
  /\ conf' = setGlobally(conf, e.type, e.value, FALSE)
  /\ UNCHANGED <<defaults, loggers, files>>

SetDefaults ==
  /\ Call
  /\ \/ conf' = setToDefault(conf)
     \/ conf' = setRemainingToDefault(conf)
     \/ conf' = <<>>  \* clear
  /\ UNCHANGED <<defaults, loggers, files>>

Parse(text) ==
  /\ Call
  /\ conf' = parseFromText(conf, text).conf
  /\ UNCHANGED <<defaults, loggers, files>>

\* reconfigureLogger(id, conf): getLogger registers it.
ReconfigureLogger(id) ==
  /\ Call
  /\ Become(configure(get(World, id, defaults), id, conf))
  /\ UNCHANGED <<conf, defaults>>

\* reconfigureLogger(id, type, value).
ReconfigureLoggerValue(id, e) ==
  /\ Call
  /\ Become(reconfigure(setIn(get(World, id, defaults), id, [e EXCEPT !.level = Global]), id))
  /\ UNCHANGED <<conf, defaults>>

\* reconfigureAllLoggers(level, type, value).
ReconfigureAllValue(e) ==
  /\ Call
  /\ Become(reconfigureAll(World, e))
  /\ UNCHANGED <<conf, defaults>>

\* logger->configurations()->set, without a reconfigure.
EditLogger(id, e) ==
  /\ Call
  /\ id \in DOMAIN loggers
  /\ Become(setIn(World, id, e))
  /\ UNCHANGED <<conf, defaults>>

SetDefaultConfigurations(reconfigureExistingLoggers) ==
  /\ Call
  /\ defaults' = setFromBase(defaults, conf)
  /\ IF reconfigureExistingLoggers
       THEN Become(configureAll(World, conf))
       ELSE UNCHANGED <<loggers, files>>
  /\ UNCHANGED conf

\* The command line names a log file.
SetApplicationArguments(name) ==
  /\ Call
  /\ LET c == setGlobally(<<>>, "Filename", name, FALSE)
     IN  /\ defaults' = setFromBase(defaults, c)
         /\ Become(configureAll(World, c))
  /\ UNCHANGED conf

ConfigureFromGlobal(sections) ==
  /\ Call
  /\ Become(parseSections(World, defaults, sections).w)
  /\ UNCHANGED <<conf, defaults>>

GetLogger(id) ==
  /\ Call
  /\ Become(get(World, id, defaults))
  /\ UNCHANGED <<conf, defaults>>

\* Mutant: the default logger goes too.
UnregisterLoggerMut(id) ==
  /\ Call
  /\ id \in DOMAIN loggers
  /\ loggers' = [i \in DOMAIN loggers \ {id} |-> loggers[i]]
  /\ UNCHANGED <<conf, defaults, files>>

\* RegisteredLoggers::remove; the streams stay.
UnregisterLogger(id) ==
  /\ Call
  /\ id \in DOMAIN loggers \ {DefaultId}
  /\ loggers' = [i \in DOMAIN loggers \ {id} |-> loggers[i]]
  /\ UNCHANGED <<conf, defaults, files>>

\* A logger writes a line, which may fill its file, and may flush it (LogDispatch).
Write(id, l) ==
  /\ Call
  /\ id \in DOMAIN loggers
  /\ toFile(loggers[id], l) /\ fileStream(loggers[id], l) # Null
  /\ \E full \in {files.full, files.full \cup {filename(loggers[id], l)}} :
       \E rolled \in {{}, flushed(loggers[id], l, full)} :
         files' = [files EXCEPT !.full = full \ rolled]
  /\ UNCHANGED <<conf, defaults, loggers>>

\* The file system lets a file be opened, or no longer.
Permit(name) ==
  /\ Call
  /\ files' = [files EXCEPT !.writable = IF name \in @ THEN @ \ {name} ELSE @ \cup {name}]
  /\ UNCHANGED <<conf, defaults, loggers>>

Next ==
  \/ \E e \in Settings : Set(e)
  \/ \E e \in Overrides : SetGlobally(e) \/ ReconfigureAllValue(e)
  \/ \E id \in Ids, e \in Overrides : EditLogger(id, e) \/ ReconfigureLoggerValue(id, e)
  \/ SetDefaults
  \/ \E text \in Texts : Parse(text)
  \/ \E id \in Ids : ReconfigureLogger(id) \/ GetLogger(id) \/ UnregisterLogger(id)
  \/ \E b \in BOOLEAN : SetDefaultConfigurations(b)
  \/ \E name \in Files : SetApplicationArguments(name) \/ Permit(name)
  \/ \E g \in Globals : ConfigureFromGlobal(g)
  \/ \E id \in Ids, l \in Levels : Write(id, l)

Spec == Init /\ [][Next]_vars

-----------------------------------------------------------------------------
(* Properties.                                                             *)

\* Lists, typed maps and streams are what their classes declare.
TypeOK ==
  /\ conf \in Seq(Entry) /\ defaults \in Seq(Entry)
  /\ DefaultId \in DOMAIN loggers /\ DOMAIN loggers \subseteq Ids
  /\ \A id \in DOMAIN loggers : IsLogger(loggers[id])
  /\ DOMAIN files.streams \subseteq Files
  /\ files.full \subseteq DOMAIN files.streams /\ files.writable \subseteq Files

\* Whatever was set, merged or parsed, a logger's list and the defaults keep an
\* entry for every level and type with Global's before the others: the order
\* that setFromBase and build() rely on to not let Global win over a level.
GlobalFirst ==
  \A c \in {defaults} \cup {loggers[id].conf : id \in DOMAIN loggers} :
    \A t \in Types, l \in Levels :
      /\ hasConfiguration(c, Global, t) /\ hasConfiguration(c, l, t)
      /\ Index(c, Global, t) < Index(c, l, t)

\* What a logger reads for a level is the entry of that level in the list it was
\* configured with, although build() files it under Global or not at all; for a
\* type that does not depend on the level the last level's entry decides.
ReadsItsList ==
  \A id \in DOMAIN loggers, l \in AllLevels :
    LET lg == loggers[id]
    IN  /\ \A t \in Bools \cup {"MaxLogFileSize"} :
             getConfig(lg.typed.map[t], l, Null) = Typed(t, Value(lg.built, l, t))
        /\ \A t \in Shared :
             getConfig(lg.typed.map[t], l, Null) = Typed(t, Value(lg.built, Last(LevelSeq), t))
        /\ filename(lg, l) = Value(lg.built, l, "Filename")

\* A level logs to its file when its list says so and the file could be opened,
\* with two exceptions: when Global logs to a file that cannot be opened no level
\* does, and when Global does not log to a file a level keeps saying so even
\* with a null stream.
ToFileWhereOpen ==
  \A id \in DOMAIN loggers, l \in AllLevels :
    LET lg == loggers[id]
        says(k) == getBool(Value(lg.built, k, "ToFile"))
    IN  toFile(lg, l) <=>
          IF says(Global)
            THEN /\ says(l)
                 /\ fileStream(lg, l) # Null /\ fileStream(lg, Global) # Null
            ELSE says(l)

\* All loggers and levels that name a file share its one stream, the first one
\* opened, also after loggers were removed, added and reconfigured.
OneStreamPerFile ==
  /\ \A id \in DOMAIN loggers, l \in AllLevels :
       fileStream(loggers[id], l) = files.streams[filename(loggers[id], l)]
  /\ \A f, g \in DOMAIN files.streams :
       files.streams[f] = files.streams[g] /\ f # g => files.streams[f] = Null

\* After reconfigureLogger(id, conf) the logger has the program's value for every
\* level and type in conf, or Global's where Global's entry comes later in conf;
\* what conf does not mention stays.
Wanted(id, l, t) ==
  LET own == IF id \in DOMAIN loggers THEN loggers[id].conf ELSE defaults
  IN  CASE ~hasConfiguration(conf, l, t) -> Value(own, l, t)
        [] /\ hasConfiguration(conf, l, t) /\ hasConfiguration(conf, Global, t)
           /\ Index(conf, l, t) < Index(conf, Global, t) -> Value(conf, Global, t)
        [] OTHER -> Value(conf, l, t)

LoggersFollow ==
  [][\A id \in Ids : ReconfigureLogger(id) =>
       \A l \in AllLevels, t \in Types : Value(loggers'[id].built, l, t) = Wanted(id, l, t)]_vars

\* A file is truncated only when a level with a size limit logs to it, though the
\* levels and loggers that share the file may have none; a logger that is made on the
\* way has the limits of the defaults, until the call gives it others.
TruncatesOnlyLimited ==
  [][\A f \in files.full \ files'.full :
       \/ \E lg \in Range(loggers) \cup Range(loggers') : \E l \in AllLevels :
            filename(lg, l) = f /\ getConfig(lg.typed.map["MaxLogFileSize"], l, 0) # 0
       \/ /\ DOMAIN loggers' \ DOMAIN loggers # {}
          /\ \E l \in AllLevels : Value(defaults, l, "Filename") = f
                                   /\ getULong(Value(defaults, l, "MaxLogFileSize")) # 0
       \/ \E g \in Globals : ConfigureFromGlobal(g)]_vars

=============================================================================
