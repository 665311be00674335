----------------------------- MODULE ConfigLoad -----------------------------
(***************************************************************************)
(* How the process gets its configuration (platform/config/config.go):     *)
(* defaults, then the file, read by a small parser of nested keys, then    *)
(* the environment.  A file the parser refuses is left out silently.       *)
(*                                                                         *)
(* A line of the file is its indentation in spaces, its key and its value; *)
(* a line that ends in the colon has the value NoValue.  A value is the    *)
(* number its text stands for, as a number or a duration, or Unparsable.   *)
(***************************************************************************)
EXTENDS Integers, Sequences, FiniteSets

CONSTANTS
    ConfigLine,    \* lines a file may have
    MaxConfigLines,
    ConfigSetting,       \* settings: [path, file, env], how each source is applied
    Default,       \* DefaultConfig
    Environment    \* values the environment may give: functions on ConfigSetting

NoValue == -100
Unparsable == -99

ASSUME ConfigLoadAssumption ==
    /\ ConfigLine \subseteq [kind : {"key", "comment", "junk"}, indent : Nat, key : STRING, value : Int]
    /\ MaxConfigLines \in Nat
    /\ ConfigSetting \subseteq [path : Seq(STRING), file : {"string", "duration", "count"},
                          env : {"string", "number", "fallback", "positive"}]
    /\ Default \in [ConfigSetting -> Int] /\ Environment \subseteq [ConfigSetting -> Int]

VARIABLES
    file,        \* its lines, as far as they have been parsed
    pathStack, flat,
    config,      \* the settings
    loading,     \* "parse", "env", "loaded"
    refused,     \* parseFlatYAML returned an error
    environ      \* the environment, once it is looked at

ConfigLoadVars == <<file, pathStack, flat, config, loading, refused, environ>>

ConfigLoadInit ==
    /\ file = <<>> /\ pathStack = <<>> /\ flat = [p \in {} |-> NoValue]
    /\ config = Default /\ loading = "parse" /\ refused = FALSE
    /\ environ = [s \in ConfigSetting |-> NoValue]

-----------------------------------------------------------------------------
(* parseFlatYAML, a line at a time.                                         *)

Depth(l) == l.indent \div 2
\* l is the file's next line.
Parsing(l) == loading = "parse" /\ Len(file) < MaxConfigLines /\ file' = Append(file, l)

\* The indentation of a comment is checked as well.
BadLine(l) ==
    \/ l.indent % 2 # 0
    \/ l.kind = "junk"
    \/ l.kind = "key" /\ Depth(l) > Len(pathStack)

\* Wrong variant: what was parsed before it is applied.
RefuseRest(l) ==
    /\ Parsing(l) /\ BadLine(l)
    /\ refused' = TRUE /\ loading' = "env"
    /\ config' = [s \in ConfigSetting |-> IF s.path \in DOMAIN flat THEN flat[s.path] ELSE config[s]]
    /\ UNCHANGED <<pathStack, flat, environ>>
RefuseFile(l) ==
    /\ Parsing(l) /\ BadLine(l)
    /\ refused' = TRUE /\ loading' = "env"
    /\ UNCHANGED <<pathStack, flat, config, environ>>

SkipComment(l) ==
    /\ Parsing(l) /\ ~BadLine(l) /\ l.kind = "comment"
    /\ UNCHANGED <<pathStack, flat, config, loading, refused, environ>>

\* The sections a line is in.
\* Wrong variant: those that ended are not left.
Unleft(l) == pathStack
Enclosing(l) == SubSeq(pathStack, 1, Depth(l))

ParseSection(l) ==
    /\ Parsing(l) /\ ~BadLine(l) /\ l.kind = "key" /\ l.value = NoValue
    /\ pathStack' = Append(Enclosing(l), l.key)
    /\ UNCHANGED <<flat, config, loading, refused, environ>>

ParseValue(l) ==
    /\ Parsing(l) /\ ~BadLine(l) /\ l.kind = "key" /\ l.value # NoValue
    /\ pathStack' = Enclosing(l)
    /\ LET p == Append(Enclosing(l), l.key)
       IN  flat' = [q \in DOMAIN flat \cup {p} |-> IF q = p THEN l.value ELSE flat[q]]
    /\ UNCHANGED <<config, loading, refused, environ>>

-----------------------------------------------------------------------------
(* What is made of a value.                                                 *)

FromFile(how, text, current) ==
    CASE how = "string"   -> text
      [] how = "duration" -> IF text # Unparsable THEN text ELSE current
      [] how = "count"    -> IF text # Unparsable /\ text > 0 THEN text ELSE current

\* applyServerFileConfig and the like, at the end of the file.
ApplyFile ==
    /\ loading = "parse"
    /\ config' = [s \in ConfigSetting |-> IF s.path \in DOMAIN flat
                                    THEN FromFile(s.file, flat[s.path], config[s]) ELSE config[s]]
    /\ loading' = "env"
    /\ UNCHANGED <<file, pathStack, flat, refused, environ>>

\* A variable that is set and cannot be used may bring a default back that the
\* file had set to zero.
FromEnv(how, text, current, default) ==
    CASE text = NoValue   -> current
      [] how = "string"   -> text
      [] how = "number"   -> IF text # Unparsable THEN text ELSE current
      [] how = "fallback" -> IF text # Unparsable THEN text ELSE IF current = 0 THEN default ELSE current
      [] how = "positive" -> IF text # Unparsable /\ text > 0 THEN text
                             ELSE IF current = 0 THEN default ELSE current

ApplyEnv ==
    /\ loading = "env" /\ loading' = "loaded"
    /\ environ' \in Environment
    /\ config' = [s \in ConfigSetting |-> FromEnv(s.env, environ'[s], config[s], Default[s])]
    /\ UNCHANGED <<file, pathStack, flat, refused>>

ConfigLoadNext ==
    \/ \E l \in ConfigLine : RefuseFile(l) \/ SkipComment(l) \/ ParseSection(l) \/ ParseValue(l)
    \/ ApplyFile \/ ApplyEnv

ConfigLoadSpec == ConfigLoadInit /\ [][ConfigLoadNext]_ConfigLoadVars

-----------------------------------------------------------------------------
(* What the nesting of a file means, said without the stack.                *)
KeyLines(n) == {i \in 1 .. n : file[i].kind = "key"}
\* The section line i is in: the last line before it that is indented less.
Parent(i) ==
    LET less == {j \in KeyLines(i - 1) : file[j].indent < file[i].indent}
    IN  IF less = {} THEN 0 ELSE CHOOSE j \in less : \A k \in less : k <= j
WellNested(i) ==
    /\ file[i].indent % 2 = 0 /\ file[i].kind # "junk"
    /\ file[i].kind = "key" /\ file[i].indent > 0 =>
         /\ Parent(i) # 0 /\ file[Parent(i)].value = NoValue
         /\ file[Parent(i)].indent = file[i].indent - 2
PathTo[i \in 0 .. MaxConfigLines] ==
    IF i = 0 THEN <<>> ELSE Append(PathTo[Parent(i)], file[i].key)

\* The parser accepts a file exactly if each of its lines is in a section that
\* is one level above it, and gives a path the value of the last line that has
\* that path: a line that is not understood costs every setting of the file
\* (config.go:124), so it must not refuse or misplace one without need.
FlatAsNested ==
    /\ refused <=> \E i \in DOMAIN file : ~WellNested(i)
    /\ LET given == {i \in KeyLines(Len(file)) : file[i].value # NoValue /\ WellNested(i)}
       IN  /\ DOMAIN flat = {PathTo[i] : i \in given}
           /\ \A i \in given : (\A j \in given : PathTo[j] = PathTo[i] => j <= i)
                                 => flat[PathTo[i]] = file[i].value

\* A file that is refused, in its first line or its last, leaves no trace: the
\* settings are those of the environment and the defaults.
FileAllOrNothing ==
    loading = "loaded" /\ refused =>
        \A s \in ConfigSetting : config[s] = FromEnv(s.env, environ[s], Default[s], Default[s])

\* A file is read as it is meant, or not at all.
FileSound == FlatAsNested /\ FileAllOrNothing
=============================================================================
