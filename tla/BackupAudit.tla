------------------------------ MODULE BackupAudit ------------------------------
(***************************************************************************)
(* The audit of an uploaded backup: FortiOSConfParser reads the sections   *)
(* it knows line by line, without keeping track of how they are nested,    *)
(* and the rules are evaluated on what it read.  Nothing is stored.        *)
(*                                                                         *)
(* The device writes the backup, well nested; the file may end anywhere.   *)
(* A line is its keyword with a section, a name, or a key and its value.   *)
(***************************************************************************)
EXTENDS Integers, SequencesExt, TLC

CONSTANTS
  Tables,    \* sections of edit ... next that the parser reads
  Flats,     \* sections of settings that it reads
  Foreign,   \* sections that it does not
  Names,     \* of the entries of a table
  Keys,
  Values,
  Good,      \* the value that the rules ask for
  Rules,     \* active rules
  SectionOf, \* rule -> section of its endpoint; of a table it checks every entry
  KeyOf,     \* rule -> key it checks
  MaxLines,  \* bound on the length of a backup
  Null

Read == Tables \cup Flats
Sections == Read \cup Foreign

\* Settings: keys with a value each.  An entry has a name and settings.
Data == UNION {[K -> Values] : K \in SUBSET Keys}
Entry == [name : Names, data : Data]

ASSUME BackupAssumption ==
  /\ Tables \cap Flats = {} /\ Read \cap Foreign = {}
  /\ "edit" \notin Sections /\ Null \notin Sections \cup {"edit"} \cup Entry
  /\ Good \in Values /\ MaxLines \in Nat
  /\ SectionOf \in [Rules -> Sections] /\ KeyOf \in [Rules -> Keys]

VARIABLES
  text,  \* the lines of the backup so far
  open,  \* what is open at its end: sections, and "edit" for an entry
  answer

vars == <<text, open, answer>>

Line(kind, key, value) == [kind |-> kind, key |-> key, value |-> value]
Config(s) == Line("config", s, Null)

Init == text = << >> /\ open = << >> /\ answer = Null
-----------------------------------------------------------------------------
(***************************************************************************)
(* The device.                                                             *)
(***************************************************************************)
Top == IF open = << >> THEN Null ELSE Last(open)

\* Other sections may be nested in anything but settings; those that are read
\* are at the top, or in a partition, which is an entry or section of others.
Nestable ==
  IF open = << >> \/ open[Len(open)] \in Foreign \/ open[1] \in Foreign THEN Sections ELSE Foreign

Write(line, now) ==
  /\ answer = Null /\ Len(text) < MaxLines
  /\ text' = Append(text, line)
  /\ open' = now
  /\ UNCHANGED answer

OpenSection == \E s \in Nestable :
  /\ Top = Null \/ Top \in Foreign \cup {"edit"}
  /\ s \in Read => ~Contains(text, Config(s))
  /\ Write(Config(s), Append(open, s))

OpenEntry == \E name \in Names :
  Top \in Tables \cup Foreign /\ Write(Line("edit", name, Null), Append(open, "edit"))

Setting == \E key \in Keys, value \in Values :
  Top \in Flats \cup Foreign \cup {"edit"} /\ Write(Line("set", key, value), open)

CloseEntry == Top = "edit" /\ Write(Line("next", Null, Null), Front(open))
CloseSection == Top \in Sections /\ Write(Line("end", Null, Null), Front(open))
-----------------------------------------------------------------------------
(***************************************************************************)
(* The parser: what it knows after a line, given what it knew before.      *)
(***************************************************************************)
Start == [inside |-> FALSE, over |-> FALSE, data |-> << >>, item |-> Null, items |-> << >>]

With(data, line) ==
  [key \in DOMAIN data \cup {line.key} |-> IF key = line.key THEN line.value ELSE data[key]]

FlatLine(s, st, line) ==
  IF st.over THEN st ELSE
  CASE line = Config(s) -> [st EXCEPT !.inside = TRUE]
    [] st.inside /\ line.kind = "end" -> [st EXCEPT !.over = TRUE]
    [] st.inside /\ line.kind = "set" -> [st EXCEPT !.data = With(@, line)]
    [] OTHER -> st

\* Mutant of TableLine: any end is taken for that of the table.
TableLineEndsEarly(s, st, line) ==
  IF st.over THEN st ELSE
  CASE line = Config(s) -> [st EXCEPT !.inside = TRUE]
    [] st.inside /\ line.kind = "end" -> [st EXCEPT !.over = TRUE]
    [] st.inside /\ line.kind = "edit" -> [st EXCEPT !.item = [name |-> line.key, data |-> << >>]]
    [] st.item # Null /\ line.kind = "set" -> [st EXCEPT !.item.data = With(@, line)]
    [] st.item # Null /\ line.kind = "next" ->
         [st EXCEPT !.items = Append(@, st.item), !.item = Null]
    [] OTHER -> st

\* An entry that is open is replaced by any other that begins.
TableLine(s, st, line) ==
  IF st.over THEN st ELSE
  CASE line = Config(s) -> [st EXCEPT !.inside = TRUE]
    [] st.inside /\ st.item = Null /\ line.kind = "end" -> [st EXCEPT !.over = TRUE]
    [] st.inside /\ line.kind = "edit" -> [st EXCEPT !.item = [name |-> line.key, data |-> << >>]]
    [] st.item # Null /\ line.kind = "set" -> [st EXCEPT !.item.data = With(@, line)]
    [] st.item # Null /\ line.kind = "next" ->
         [st EXCEPT !.items = Append(@, st.item), !.item = Null]
    [] OTHER -> st

FlatSection(s, lines) == FoldLeft(LAMBDA st, line : FlatLine(s, st, line), Start, lines).data
TableSection(s, lines) == FoldLeft(LAMBDA st, line : TableLine(s, st, line), Start, lines).items

\* The dump: the entries of a section, settings being a single one; without
\* any, its endpoint is not in the dump.
Settings(data) == IF data = << >> THEN << >> ELSE <<[name |-> Null, data |-> data]>>
Parsed(s, lines) ==
  CASE s \in Tables -> TableSection(s, lines)
    [] s \in Flats -> Settings(FlatSection(s, lines))
    [] OTHER -> << >>
-----------------------------------------------------------------------------
(***************************************************************************)
(* The audit.                                                              *)
(***************************************************************************)
\* A check of one key in each entry; few of many count as none (below 35 %).
Status(rule, entries) ==
  LET good == {i \in DOMAIN entries :
                 KeyOf[rule] \in DOMAIN entries[i].data /\ entries[i].data[KeyOf[rule]] = Good}
      met == Cardinality(good)
  IN CASE entries = << >> -> "NOT_APPLICABLE"
       [] entries # << >> /\ met = Len(entries) -> "PASSED"
       [] met < Len(entries) /\ 100 * met >= 35 * Len(entries) -> "PARTIAL"
       [] OTHER -> "FAILED"

Answer(code, findings) ==
  /\ answer' = [code |-> code, findings |-> findings]
  /\ UNCHANGED <<text, open>>

\* 400 for an empty file, 422 without rules or without any section; a profile
\* that does not exist is an exception like any other: 500.
Upload ==
  /\ answer = Null
  /\ IF text = << >>
     THEN Answer(400, << >>)
     ELSE \/ Answer(500, << >>)
          \/ \E rules \in SUBSET Rules :
               IF rules = {} \/ \A s \in Sections : Parsed(s, text) = << >>
               THEN Answer(422, << >>)
               ELSE Answer(200, [rule \in rules |-> Status(rule, Parsed(SectionOf[rule], text))])

Next == OpenSection \/ OpenEntry \/ Setting \/ CloseEntry \/ CloseSection \/ Upload

Spec == Init /\ [][Next]_vars
-----------------------------------------------------------------------------
(***************************************************************************)
(* What the lines of a backup say, by their nesting: the depth of a line   *)
(* is counted from the header of the section, at line h.                   *)
(***************************************************************************)
Depth(lines, h, j) ==
  Cardinality({k \in h .. j : lines[k].kind \in {"config", "edit"}})
    - Cardinality({k \in h .. j : lines[k].kind \in {"end", "next"}})

Headers(s, lines) == {h \in DOMAIN lines : lines[h] = Config(s)}

\* The lines of the section from its header to before its end.
Body(lines, h) == {j \in h .. Len(lines) : \A k \in h .. j : Depth(lines, h, k) >= 1}

\* What the settings at these places amount to: the last of each key.
SetAt(lines, places, key) == {p \in places : lines[p].kind = "set" /\ lines[p].key = key}
Meaning(lines, places) ==
  [key \in {k \in Keys : SetAt(lines, places, k) # {}} |-> lines[Max(SetAt(lines, places, key))].value]

\* The settings of an entry that begins at e: those not nested any deeper,
\* while it is open.
Extent(lines, h, e) == {j \in Body(lines, h) : j >= e /\ \A k \in e .. j : Depth(lines, h, k) >= 2}
EntryAt(lines, h, e) ==
  [name |-> lines[e].key,
   data |-> Meaning(lines, {j \in Extent(lines, h, e) : Depth(lines, h, j) = 2})]

\* Entries of a table that are complete, by the lines where they begin, and
\* the place of one among them.
Entries(lines, h) ==
  {e \in Body(lines, h) : /\ lines[e].kind = "edit" /\ Depth(lines, h, e) = 2
                          /\ \E j \in Body(lines, h) : j > e /\ Depth(lines, h, j) = 1}
Place(lines, h, e) == Cardinality({f \in Entries(lines, h) : f <= e})

Said(s, lines) ==
  IF Headers(s, lines) = {} THEN << >> ELSE
  LET h == CHOOSE h \in Headers(s, lines) : TRUE
  IN IF s \in Tables
     THEN [n \in 1 .. Cardinality(Entries(lines, h)) |->
             EntryAt(lines, h, CHOOSE e \in Entries(lines, h) : Place(lines, h, e) = n)]
     ELSE Settings(Meaning(lines, {j \in Body(lines, h) : Depth(lines, h, j) = 1}))

\* Nothing is nested in the section; no table is nested in it.
Plain(s, lines) ==
  \A h \in Headers(s, lines) : \A j \in Body(lines, h) : lines[j].kind = "config" => j = h
Simple(s, lines) ==
  \A h \in Headers(s, lines) : \A j \in Body(lines, h) : lines[j].kind = "edit" => Depth(lines, h, j) = 2

\* Keys that something nested in an entry sets.
NestedKeys(s, lines) ==
  {lines[j].key : j \in {k \in DOMAIN lines : lines[k].kind = "set" /\
     \E h \in Headers(s, lines) : k \in Body(lines, h) /\ Depth(lines, h, k) > 2}}

\* The entries of a table that end before anything nested begins an entry.
Unspoilt(lines, h) ==
  {e \in Entries(lines, h) : \A j \in Body(lines, h) :
     lines[j].kind = "edit" /\ Depth(lines, h, j) > 2 => \E k \in e .. j : Depth(lines, h, k) = 1}
UnspoiltEntries(s, lines) ==
  Cardinality(UNION {Unspoilt(lines, h) : h \in Headers(s, lines)})

ReadRight(s, lines) ==
  LET parsed == Parsed(s, lines)
      said == Said(s, lines)
      unspoilt == UnspoiltEntries(s, lines)
  IN /\ Plain(s, lines) => parsed = said
     /\ s \in Tables =>
          /\ Len(parsed) >= unspoilt
          /\ Simple(s, lines) => Len(parsed) = Len(said)
          /\ \A n \in 1 .. unspoilt :
               /\ parsed[n].name = said[n].name
               /\ \A key \in DOMAIN said[n].data \ NestedKeys(s, lines) :
                    key \in DOMAIN parsed[n].data /\ parsed[n].data[key] = said[n].data[key]

\* The verdicts on a backup follow what it says, wherever the file ends and
\* whatever other sections are around or inside: a section with nothing nested
\* is read exactly, so is its verdict; sections nested in an entry do not end
\* the table and touch no key that they do not set, as long as they are not
\* tables themselves; those spoil nothing that comes before them.
VerdictsFollowTheBackup ==
  IF answer = Null
  THEN \A s \in Read : ReadRight(s, text)
  ELSE \A rule \in DOMAIN answer.findings :
         SectionOf[rule] \in Read /\ Plain(SectionOf[rule], text) =>
           answer.findings[rule] = Status(rule, Said(SectionOf[rule], text))
=============================================================================
