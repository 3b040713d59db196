----------------------------- MODULE MCLogConfig -----------------------------
(* Two levels, five types, two files and two loggers for TLC.              *)
EXTENDS LogConfig

Entries(l, t, vs) == {Configuration(l, t, v) : v \in vs}

LevelOrder == <<"Debug", "Info">>

SomeSettings == UNION {
  Entries("Global", "Enabled", {"false"}), Entries("Info", "Enabled", {"false", "TRUE"}),
  Entries("Global", "ToFile", {"True"}), Entries("Debug", "ToFile", {"1"}),
  Entries("Debug", "PerformanceTracking", {"false"}),
  Entries("Global", "MaxLogFileSize", {"1k"})}

SomeOverrides == UNION {
  Entries("Debug", "Filename", {"b.log"}), Entries("Info", "MaxLogFileSize", {"1"}),
  Entries("Info", "PerformanceTracking", {"false"})}

Head_(l) == [kind |-> "level", level |-> l]
Line(t, v) == [kind |-> "config", type |-> t, value |-> v]
Comment == [kind |-> "comment"]

\* Texts with an unknown level and an unknown type, and with Info before and
\* after Global.
SomeTexts == {
  <<Head_("Unknown"), Line("Enabled", "false"), Head_("Info"), Line("Enabled", "false"),
    Head_("Global"), Line("Enabled", "true"), Head_("Info"), Line("Enabled", "false")>>,
  <<Head_("Info"), Line("ToFile", "false"), Head_("Global"), Comment, Line("Size", "1"),
    Line("Filename", "b.log")>>}

\* The second section's id has one character.
SomeGlobals == {
  <<[id |-> "net", text |-> <<Head_("Info"), Line("Filename", "b.log")>>],
    [id |-> Null, text |-> <<Head_("Global"), Line("Enabled", "false")>>]>>,
  <<[id |-> "default", text |-> <<>>]>>}

=============================================================================
