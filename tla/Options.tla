------------------------------- MODULE Options -------------------------------
(***************************************************************************)
(* The command line of the daemon (options.rs) as a function: settings in  *)
(* three spellings, the fast paths of help and version, the first error.   *)
(* An argument is opaque; what it says comes with it as a record           *)
(*   [form, name, value]                                                   *)
(* of the forms "long" (--name, --name=value), "short" (-x, -xvalue),      *)
(* "help", "version" and "word"; value is <<>> or <<text>>.  The text of   *)
(* the whole argument, for an option that takes the next one as its value, *)
(* is in `text`.                                                           *)
(***************************************************************************)
EXTENDS Integers, Sequences, FiniteSets

CONSTANTS
    Number,     \* the integers by the texts that are read as one
    Levels,     \* the texts that are log levels,
    Versions    \* and those that match the version

ASSUME OptionsAssumption == \A text \in DOMAIN Number : Number[text] \in Int

\* field, kind and the two names of every option.
Option(field, kind, short, long) == [field |-> field, kind |-> kind, short |-> short, long |-> long]

OptionTable ==
    {Option("lock_fd", "int", "l", "lock-fd"),
     Option("parent_pid", "int", "p", "parent-pid"),
     Option("num_threads", "threads", "t", "num-threads"),
     Option("log_level", "level", "v", "log-level"),
     Option("repo_ttl_seconds", "int", "r", "repo-ttl-seconds"),
     Option("max_commit_summary_length", "limit", "z", "max-commit-summary-length"),
     Option("max_num_staged", "limit", "s", "max-num-staged"),
     Option("max_num_unstaged", "limit", "u", "max-num-unstaged"),
     Option("max_num_conflicted", "limit", "c", "max-num-conflicted"),
     Option("max_num_untracked", "limit", "d", "max-num-untracked"),
     Option("dirty_max_index_size", "limit", "m", "dirty-max-index-size"),
     Option("version_glob", "glob", "G", "version-glob"),
     Option("recurse_untracked_dirs", "flag", "e", "recurse-untracked-dirs"),
     Option("ignore_status_show_untracked_files", "flag", "U", "ignore-status-show-untracked-files"),
     Option("ignore_bash_show_untracked_files", "flag", "W", "ignore-bash-show-untracked-files"),
     Option("ignore_bash_show_dirty_state", "flag", "D", "ignore-bash-show-dirty-state")}

\* No limit: -1 (ParseSizeT), usize::MAX of parse_size too.
NoLimit == -1

\* The fields of Options, and what they are by default.
OptionFields == {o.field : o \in OptionTable}
DefaultOf(f) ==
    CASE f \in {"lock_fd", "parent_pid", "dirty_max_index_size"} -> -1
      [] f = "repo_ttl_seconds" -> 3600
      [] f = "max_commit_summary_length" -> 256
      [] f = "log_level" -> "info"
      [] f = "version_glob" -> "none"
      [] \E o \in OptionTable : o.field = f /\ o.kind = "flag" -> FALSE
      [] OTHER -> 1
Defaults == [f \in OptionFields |-> DefaultOf(f)]

\* What may come in a command line.
Arguments == [form : {"long", "short", "help", "version", "word"}, name : STRING,
              value : {v \in Seq(STRING) : Len(v) <= 1}, text : STRING]

Exit(code) == [exit |-> code]
IsExit(r) == "exit" \in DOMAIN r
BadArgs == Exit(10)

\* A mutant of ReadValue: negative limits are kept.
ReadValueSigned(o, text) ==
    CASE o.kind \in {"int", "threads", "limit"} ->
           IF text \in DOMAIN Number THEN [value |-> Number[text]] ELSE BadArgs
      [] o.kind = "level" -> IF text \in Levels THEN [value |-> text] ELSE BadArgs
      [] OTHER -> IF text \in Versions THEN [value |-> text] ELSE Exit(11)

\* parse_int, parse_limit, parse_size, parse_log_level, take_value with the check of -G.
ReadValue(o, text) ==
    LET n == Number[text] IN
    CASE o.kind \in {"int", "threads", "limit"} ->
           IF text \notin DOMAIN Number \/ (o.kind = "threads" /\ n <= 0) THEN BadArgs
           ELSE [value |-> IF o.kind = "limit" /\ n < 0 THEN NoLimit ELSE n]
      [] o.kind = "level" -> IF text \in Levels THEN [value |-> text] ELSE BadArgs
      [] OTHER -> IF text \in Versions THEN [value |-> text] ELSE Exit(11)

\* parse_short_opt, parse_long_opt: the option found, with a value or without.
Set(options, o, value) ==
    IF (o.kind = "flag") = (value # <<>>) THEN BadArgs
    ELSE IF o.kind = "flag" THEN [options EXCEPT ![o.field] = TRUE]
    ELSE LET r == ReadValue(o, value[1]) IN
         IF IsExit(r) THEN r ELSE [options EXCEPT ![o.field] = r.value]

Named(arg) == {o \in OptionTable : \/ arg.form = "long" /\ o.long = arg.name
                                   \/ arg.form = "short" /\ o.short = arg.name}
NamedOne(arg) == CHOOSE o \in Named(arg) : TRUE

TakesNext(arg) == \E o \in Named(arg) : arg.form = "short" /\ o.kind # "flag" /\ arg.value = <<>>

\* One argument of parse_args; `for` is the option before it that takes it as its value,
\* if there is one.  Words name no option.
ParseArg(acc, arg) ==
    LET with(r) == [for |-> <<>>, result |-> r] IN
    IF IsExit(acc.result) THEN acc
    ELSE CASE acc.for # <<>> -> with(Set(acc.result, acc.for[1], <<arg.text>>))
           [] acc.for = <<>> /\ arg.form \in {"help", "version"} -> with(Exit(0))
           [] acc.for = <<>> /\ arg.form \notin {"help", "version"} /\ Named(arg) = {} -> with(BadArgs)
           [] OTHER -> IF TakesNext(arg) THEN [acc EXCEPT !.for = <<NamedOne(arg)>>]
                       ELSE with(Set(acc.result, NamedOne(arg), arg.value))

\* parse_args
ParseArgs(args) ==
    LET acc[i \in 0..Len(args)] == IF i = 0 THEN [for |-> <<>>, result |-> Defaults]
                                   ELSE ParseArg(acc[i - 1], args[i])
        end == acc[Len(args)]
    IN  IF end.for # <<>> THEN BadArgs ELSE end.result

-----------------------------------------------------------------------------
(* What a command line says, read as a list of settings *)

\* One setting, from one or two arguments; the value a field gets, or an exit.
Setting(args) ==
    LET arg == args[1]
        o   == NamedOne(arg)
        value == IF Len(args) = 2 THEN <<args[2].text>> ELSE arg.value
    IN  [field |-> o.field, result |-> IF o.kind = "flag" THEN [value |-> TRUE] ELSE ReadValue(o, value[1])]

IsSetting(args) ==
    \E o \in Named(args[1]) :
       IF o.kind = "flag" THEN Len(args) = 1 /\ args[1].value = <<>>
       ELSE IF Len(args) = 2 THEN args[1].form = "short" /\ args[1].value = <<>>
       ELSE args[1].value # <<>>

\* The ways to see the arguments as settings: where each begins and how many it has.
Groupings(args) ==
    {b \in SUBSET (1..Len(args)) :
        /\ Len(args) > 0 => 1 \in b
        /\ \A i \in b : LET end == CHOOSE e \in i..Len(args) :
                                 /\ e + 1 \in b \cup {Len(args) + 1}
                                 /\ \A k \in i + 1..e : k \notin b
                        IN  end <= i + 1 /\ IsSetting(SubSeq(args, i, end))}

\* The daemon runs exactly with command lines that are lists of good settings, and of
\* several settings of one field the last counts; in the result no limit is below -1,
\* so that "negative = unlimited" has one form (options.rs, parse_limit).
IsAsSet(args, r) ==
    LET settings(b) == {<<i, Setting(SubSeq(args, i, IF i + 1 \in b \cup {Len(args) + 1} THEN i ELSE i + 1))>> : i \in b}
        good(b) == \A s \in settings(b) : ~IsExit(s[2].result)
        value(b, f) == LET of == {s \in settings(b) : s[2].field = f} IN
                       IF of = {} THEN Defaults[f]
                       ELSE (CHOOSE s \in of : \A t \in of : t[1] <= s[1])[2].result.value
    IN  /\ ~IsExit(r) <=> \E b \in Groupings(args) : good(b)
        /\ ~IsExit(r) => \E b \in Groupings(args) : good(b) /\ \A f \in DOMAIN Defaults : r[f] = value(b, f)
        /\ ~IsExit(r) => \A o \in OptionTable : o.kind = "limit" => r[o.field] >= NoLimit
=============================================================================
