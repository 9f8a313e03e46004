------------------------------- MODULE Config -------------------------------
(***************************************************************************)
(* config_parse (src/config/config.c): the defaults, the configuration     *)
(* file, the overrides of NOSV_CONFIG_OVERRIDE, the preset of NOSV_PRESET  *)
(* and the sanity checks, in this order.                                   *)
(*                                                                         *)
(* There is one option for each type of src/include/config/configspec.h    *)
(* and for each value that a preset, a check or another component reads;   *)
(* batch stands for the counts that must not be zero, size for the sizes   *)
(* with a least value, backend for the words without a check of their own. *)
(* A value is a record of a word s and a number n; the empty string is the *)
(* null pointer.  What a file or an override holds is such a record with   *)
(* the kind of datum it is.  `in' holds everything that is read from       *)
(* outside the process, and does not change.                               *)
(***************************************************************************)
EXTENDS Machine

CONSTANTS
    Inputs,         \* the environments, files and machines to start with
    Kilo, SizeMod,  \* the scale of a size suffix, and the range of size_t
    MinShm          \* the smallest shared memory

VARIABLES in, phase, status, cfg, mask

configvars == << in, phase, status, cfg, mask >>

Word(s) == [s |-> s, n |-> 0]
Num(n) == [s |-> "", n |-> n]
Empty == Word("")

OptionType ==
    [batch |-> "uint64", immediate |-> "bool", name |-> "str", isolation |-> "str", start |-> "ptr",
     size |-> "size", policy |-> "str", binding |-> "str", affinity |-> "str", affPolicy |-> "str",
     backend |-> "str", numaNodes |-> "array", complexSets |-> "array", events |-> "list"]

Options == DOMAIN OptionType

\* config_init
Defaults ==
    [batch |-> Num(64), immediate |-> Num(1), name |-> Word("nosv"), isolation |-> Word("user"),
     start |-> Num(8192), size |-> Num(MinShm + 1), policy |-> Word("hybrid"), binding |-> Word("inherit"),
     affinity |-> Word("all"), affPolicy |-> Word("strict"), backend |-> Word("none"), numaNodes |-> Empty,
     complexSets |-> Empty, events |-> Word("default")]

\* parse_str_size: the suffixes fall through, so that K shifts once and E six times.
\* A number without a suffix must be the whole text; what comes after a suffix (a
\* datum of kind "trailing") is not looked at.
SizeSuffixes == << "K", "M", "G", "T", "P", "E" >>
Shifts(r) == {i \in 1..6 : SizeSuffixes[i] = r.s}
SizeOk(r) == Shifts(r) # {} \/ (r.s = "" /\ r.kind = "string")
ParseSize(r) == (r.n * Kilo^(IF Shifts(r) = {} THEN 0 ELSE Max(Shifts(r)))) % SizeMod

\* toml_table_parse_*: the value of a datum of the file, or that it is refused.
TomlOk(t, r) ==
    CASE t = "uint64" -> r.kind = "int" /\ r.n >= 0
      [] t = "ptr"    -> r.kind = "int"
      [] t = "bool"   -> r.kind = "bool"
      [] t = "str"    -> r.kind = "string"
      [] t = "size"   -> r.kind \in {"string", "trailing"} /\ SizeOk(r)
      [] OTHER        -> r.kind = "array"

TomlValue(t, r) == IF t = "size" THEN Num(ParseSize(r)) ELSE [s |-> r.s, n |-> r.n]

\* toml_table_parse_list_str takes the length of what may not be an array (a
\* "mixed" array has an element that is not a string).
TomlUndefined(t, r) == t = "list" /\ r.kind \notin {"array", "mixed"}

\* string_parse_*: strtoull reads any text as a number (zero when there is none,
\* modulo the range when it is negative); pointers must start with 0x.
TextOk(t, r) ==
    CASE t = "ptr"    -> r.kind = "hex"
      [] t = "bool"   -> r.kind = "bool"
      [] t = "size"   -> SizeOk(r)
      [] t = "uint64" -> r.n < SizeMod
      [] OTHER        -> t # "list"

TextValue(t, r) ==
    CASE t = "size"   -> Num(ParseSize(r))
      [] t = "uint64" -> Num(IF r.kind = "int" THEN r.n % SizeMod ELSE 0)
      [] OTHER        -> [s |-> r.s, n |-> r.n]

-----------------------------------------------------------------------------
ConfigInit ==
    /\ in \in Inputs
    /\ phase = "find" /\ status = "run"
    /\ cfg = Defaults /\ mask = << >>

Step(from, to) == status = "run" /\ phase = from /\ phase' = to /\ UNCHANGED in
Outcome(undef, fail) == status' = IF undef THEN "undefined" ELSE IF fail THEN "aborted" ELSE "run"

\* config_find and the opening of the file.
ConfigFind ==
    /\ Step("find", "populate")
    /\ Outcome(FALSE, IF in.path = "unset" THEN ~in.cwd /\ ~in.installed ELSE in.path = "missing")
    /\ UNCHANGED << cfg, mask >>

\* config_parse_single_spec: the options that the file gives.  Only these are looked
\* for, whatever else the file holds.  One whose section is not a table ("flat"),
\* or that is a table itself, counts as not given.
Given == {o \in Options \cap DOMAIN in.file : in.file[o].kind \notin {"flat", "table"}}

\* An option that cannot be parsed is only warned about.
ConfigPopulate_Lenient ==
    LET ok == {o \in Given : TomlOk(OptionType[o], in.file[o])} IN
    /\ Step("populate", "override")
    /\ Outcome(FALSE, ~in.syntax)
    /\ cfg' = [o \in Options |-> IF o \in ok THEN TomlValue(OptionType[o], in.file[o]) ELSE cfg[o]]
    /\ mask' = IF "binding" \in ok THEN in.mask ELSE mask

\* toml_parse_file and config_populate: every option is tried, one bad one is
\* enough to give up.
ConfigPopulate ==
    LET ok == {o \in Given : TomlOk(OptionType[o], in.file[o])} IN
    /\ Step("populate", "override")
    /\ Outcome(\E o \in Given : TomlUndefined(OptionType[o], in.file[o]), ~in.syntax \/ ok # Given)
    /\ cfg' = [o \in Options |-> IF o \in ok THEN TomlValue(OptionType[o], in.file[o]) ELSE cfg[o]]
    /\ mask' = IF "binding" \in ok THEN in.mask ELSE mask

\* One entry of NOSV_CONFIG_OVERRIDE: an unknown or empty option, an entry without
\* "=" or a value that cannot be parsed is an error; a blank entry is not.
EntryOk(e) == e.opt = "blank" \/ (e.opt \in Options /\ TextOk(OptionType[e.opt], e.raw))
Sets(e, o) == e.opt = o /\ TextOk(OptionType[o], e.raw) /\ OptionType[o] # "array"

\* config_parse_override, from left to right.  An array option is parsed as one
\* string, which replaces the items and not their number: it changes nothing
\* when there are none, and is read as an array of strings when there are some.
ConfigOverride ==
    LET last(o) == Max({i \in 1..Len(in.env) : Sets(in.env[i], o)} \cup {0}) IN
    /\ Step("override", "preset")
    /\ Outcome(\E i \in 1..Len(in.env) : LET o == in.env[i].opt IN
                   o \in Options /\ OptionType[o] = "array" /\ cfg[o].n >= 1,
               \E i \in 1..Len(in.env) : ~EntryOk(in.env[i]))
    /\ cfg' = [o \in Options |-> IF last(o) = 0 THEN cfg[o] ELSE TextValue(OptionType[o], in.env[last(o)].raw)]
    /\ mask' = IF last("binding") # 0 THEN in.mask ELSE mask

Isolated(c) == [c EXCEPT !.isolation = Word("process"), !.binding = Word("inherit"), !.affinity = Word("all")]

SharedMpi(c) ==
    LET aff == DefaultAff(in.machine) IN
    [c EXCEPT !.isolation = Word("user"), !.binding = Word("mask"), !.affPolicy = Word("preferred"),
              !.affinity = IF aff.s = "none" THEN @ ELSE aff]

\* config_parse_preset
ConfigPreset ==
    /\ Step("preset", "check")
    /\ Outcome(FALSE, in.preset \notin {"", "isolated", "shared-mpi"})
    /\ cfg' = CASE in.preset = "isolated" -> Isolated(cfg)
                [] in.preset = "shared-mpi" -> SharedMpi(cfg)
                [] OTHER -> cfg
    /\ mask' = IF in.preset = "shared-mpi" THEN AllMask(in.machine) ELSE mask

OneOf(o) == CASE o = "isolation" -> {"process", "user", "group", "public"}
              [] o = "policy"    -> {"hybrid", "busy", "idle"}
              [] o = "affPolicy" -> {"strict", "preferred"}
              [] o = "backend"   -> {"none", "papi"}

Listed == {"isolation", "policy", "affPolicy", "backend"}

\* config_check: the options with a list of words are compared with them even
\* when the string is the null pointer, which a check before it only reported.
ConfigCheck ==
    /\ Step("check", "cpus")
    /\ Outcome(\E o \in Listed : cfg[o] = Empty,
               \/ cfg.batch.n <= 0 \/ cfg.size.n <= MinShm \/ cfg.start.n < 4096
               \/ \E o \in {"name", "binding", "affinity"} : cfg[o] = Empty
               \/ \E o \in Listed : cfg[o].s \notin OneOf(o))
    /\ UNCHANGED << cfg, mask >>

ConfigNext == ConfigFind \/ ConfigPopulate \/ ConfigOverride \/ ConfigPreset \/ ConfigCheck
-----------------------------------------------------------------------------
Parsed == status = "run" /\ phase \notin {"find", "populate", "override", "preset", "check"}

\* What docs/user/config.md promises for an option that the preset does not touch:
\* the last override wins over the file (arrays excepted, which cannot be
\* overridden), and the file over the default.  An option counts as given in the
\* file in the sense of config_parse_single_spec (Given).
Promised(o) ==
    LET at == {i \in 1..Len(in.env) : in.env[i].opt = o /\ OptionType[o] # "array"} IN
    IF at # {} THEN TextValue(OptionType[o], in.env[Max(at)].raw)
    ELSE IF o \in Given THEN TomlValue(OptionType[o], in.file[o])
    ELSE Defaults[o]

PresetOptions == CASE in.preset = "isolated" -> {"isolation", "binding", "affinity"}
                   [] in.preset = "shared-mpi" -> {"isolation", "binding", "affinity", "affPolicy"}
                   [] OTHER -> {}

\* A configuration that is accepted is the one that was asked for.  The preset wins
\* over the overrides, the last of these over the file, the file over the
\* defaults; a value that the file or an override gives and that cannot be parsed
\* is never replaced by the one it should have replaced.  What the other
\* components rely on (words they compare with, sizes that are not zero, strings
\* that are there) holds of the values that are left after the preset.  It is not
\* said that everything in the file was understood: the code skips keys that it
\* does not know and sections of the wrong kind, and reads a size up to its suffix.
ConfigObeyed ==
    Parsed =>
        /\ \A o \in Options \ PresetOptions : cfg[o] = Promised(o)
        /\ in.preset = "isolated" => cfg.isolation.s = "process" /\ cfg.binding.s = "inherit"
        /\ in.preset = "shared-mpi" => cfg.isolation.s = "user" /\ cfg.affPolicy.s = "preferred"
        /\ \A o \in Listed : cfg[o].s \in OneOf(o)
        /\ cfg.batch.n > 0 /\ cfg.size.n > MinShm /\ cfg.name.s # "" /\ cfg.binding.s # ""
=============================================================================
